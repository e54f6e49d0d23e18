CONSTANTS
    Falsy = {"0", "EMPTY_STRING", "NIL"}
    MaxRange = 10
    MaxFilters = 2
    Fresh = "*"
    Inputs <- MCInputs
    Calls <- MCCalls
    Patterns <- MCPatterns
    Numbers <- MCNumbers
    Colors <- MCColors
    Digest <- MCDigest

SPECIFICATION Spec

INVARIANTS
    SearchesAgree
    CutsAgree
    QuotientAndRemainder
    EncodersReadBack
    ColorsAgree
CHECK_DEADLOCK FALSE
