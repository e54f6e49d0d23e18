SPECIFICATION FairSpec
CONSTANTS
  Node <- MCNode
  NoNode = 0
  Kind <- MCKind
  Child <- MCChild
  Var <- MCVar
  Name <- MCName
  HasElse <- MCHasElse
  Dotted <- MCDotted
  Templates = {20, 60, 100}
  Windows <- OneWindow
  MaxDepth = 2
  DepthModulus = 4
  Apis = {"string", "callback"}
  HostCalls = {"render", "argument"}
  MaxFetch = 1
  MaxStack = 7
INVARIANTS
  TypeOK
PROPERTIES
  RendersReturn
