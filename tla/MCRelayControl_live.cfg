CONSTANTS
    NBoilers = 1
    NPumps = 0
    Tasks = {"sensor", "tick", "menu"}
    Cycles <- LiveCycles
    Demands <- OnOff
    Broken = {}
    AnyMoment = TRUE
    PowerFails = FALSE
SPECIFICATION FairSpec
PROPERTIES FreezeKeepsOn OverIsCut
