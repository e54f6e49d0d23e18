SPECIFICATION Spec
CONSTANTS
  Node <- MCNode
  NoNode = 0
  Kind <- MCKind
  Child <- MCChild
  Var <- MCVar
  Name <- MCName
  HasElse <- MCHasElse
  Dotted <- MCDotted
  Templates = {1, 20, 40}
  Windows <- AllWindows
  MaxDepth = 4
  DepthModulus = 16
  Apis = {"string", "c", "callback"}
  HostCalls = {}
  MaxFetch = 0
  MaxStack = 0
INVARIANTS
  DropsMirrorLoops
  NoPendingControl
  PendingOnlyUnwinds
  IndexTracksElement
  LoopStaysInSequence
  IdleIsClean
  DepthAccounting
PROPERTIES
  ErrorSticks
