CONSTANTS
    NBoilers = 1
    NPumps = 0
    Tasks = {"sensor", "tick"}
    Cycles <- LimitCycles
    Demands <- OnOff
    Broken = {}
    AnyMoment = TRUE
    PowerFails = FALSE
SPECIFICATION Spec
INVARIANTS CutIsOff
