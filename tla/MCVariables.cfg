CONSTANTS
    Falsy = {"0", "EMPTY_STRING", "NIL"}
    MaxLoops = 1
    MaxTags = 2
    Stores <- MCStores
    Paths <- MCPaths
    Literals <- MCLiterals

SPECIFICATION Spec

INVARIANTS
    HeapIsForest
    LoopsStayOnTheirLists

PROPERTIES
    LeaksAreKnown
    ResolversAgree
    ImplementsStore

CHECK_DEADLOCK FALSE
