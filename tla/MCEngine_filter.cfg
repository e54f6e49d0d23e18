CONSTANTS
    Falsy = {"0", "EMPTY_STRING", "NIL"}
    MaxRange = 10
    ShortStringSize = 8
    MaxRenderings = 1
    Templates <- FilterTemplates
    Sound <- FilterTemplates
    Stores <- MCStores
    Programs <- MCPrograms

SPECIFICATION EngineSpec

INVARIANTS
    AssertionsHold
