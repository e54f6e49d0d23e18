SPECIFICATION MCSpec
CONSTANTS
  Node <- MCNode
  NoNode = 0
  Kind <- MCKind
  Child <- MCChild
  Var <- MCVar
  Name <- MCName
  HasElse <- MCHasElse
  Dotted <- MCDotted
  Templates = {1, 20, 40, 60}
  Windows <- EdgeWindows
  MaxDepth = 4
  DepthModulus = 16
  Apis = {"string"}
  HostCalls = {}
  MaxFetch = 1
  MaxStack = 0
PROPERTIES ImplementsPromise
