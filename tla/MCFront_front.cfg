CONSTANTS
    NBoilers = 1
    NPumps = 0
    Tasks = {"sensor", "tick", "ws", "menu"}
    Cycles <- LimitCycles
    Demands <- OnOff
    Broken = {}
    AnyMoment = FALSE
    PowerFails = TRUE
    Height = 4
    Patterns = {0, 1}
    Frames <- TwoFrames
    MaxKills = 2
    MaxFaults = 1
    BodyRows = 1
    StatusStep = 2
    Totals = {1, 3}
    MaxLength = 1
    MaxAhead = 2
    MaxScreens = 2
    RowPins = {1, 2}
    ColPins = {1, 2}
    MaxPresses = 1
SPECIFICATION FrontSpec
INVARIANTS CacheIsHonest GlassIsBelieved OneKeyPerPress
PROPERTIES LastDrawnIsShown ChoiceWasSeen ReadToTheEnd
CHECK_DEADLOCK FALSE
