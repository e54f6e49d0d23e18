CONSTANTS
    Falsy = {"0", "EMPTY_STRING", "NIL"}
    MaxRange = 10
    ShortStringSize = 8
    MaxRenderings = 2
    Templates <- MCTemplates
    Sound <- MCSound
    Stores <- MCStores
    Programs <- MCPrograms

SPECIFICATION EngineSpec

INVARIANTS
    TypeOK
    NeverGoesWrong
    OutputIsPrefix

PROPERTIES
    ImplementsTemplateEngine
    ProgramsEnd

CHECK_DEADLOCK FALSE
