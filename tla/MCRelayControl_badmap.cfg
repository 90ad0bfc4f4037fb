CONSTANTS
    NBoilers = 1
    NPumps = 1
    Tasks = {"sensor", "tick", "ws"}
    Cycles <- ManyCycles
    Demands <- FirstOnly
    Broken = {2}
    AnyMoment = TRUE
    PowerFails = TRUE
SPECIFICATION Spec
INVARIANTS CutHolds
PROPERTY DecidedAfresh
