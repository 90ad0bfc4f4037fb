CONSTANTS
    Modes = {1}
    Setpoints = {2, 3}
    Values = {"automatic", "manual"}
    Default = "automatic"
    MaxChanges = 2
    MaxFaults = 1
SPECIFICATION MCSpec
INVARIANTS MarkedWasSent CardIsCurrent
PROPERTIES UnsentOutranksRecord Agreement
