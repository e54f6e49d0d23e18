CONSTANTS
    None = None
    Symbols = {tag}
    MaxTypes = 2
    MaxBroken = 1
    MaxFrames = 2
    MaximumRenderingDepth = 2
    Word = 4
    Objects <- MCObjects
    ClassOf <- MCClassOf

SPECIFICATION Spec

INVARIANTS
    RulesSuffice
    ProcsLive
    InternalMeansRendering
    DepthIsRenderings
    WarningsAreOwn

CHECK_DEADLOCK FALSE
