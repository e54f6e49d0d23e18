CONSTANTS
    Word = 16
    MaxVisits = 5
    Lists <- MCLists
    Offsets <- MCOffsets
    Limits <- MCLimits

SPECIFICATION Spec

INVARIANTS
    NativeLoops
    ForwardLoopsAgree
    ElseMeansNothingSeen

PROPERTY LoopsEnd

CHECK_DEADLOCK FALSE
