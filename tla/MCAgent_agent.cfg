CONSTANTS
    Mappings <- OneOrMore
    BoilerWater = {5, 7, 9, 10, 12}
    RoomAir = {1, 3}
    LimitSets <- AllLimits
    Setpoints = {8}
    Band = 2
    Deadband = 3
    Hysteresis = 1
    p1 = p1
    p2 = p2
    WaterProbes = {p1, p2}
    RoomWater = {1, 2, 4, 5}
    OperatorChoices = {2, 3, 4, 5}
    DefaultOn = 2
    DefaultOff = 4
    MinGap = 1
    Lowest = 1
    Highest = 4
    Units = {1, 2}
    Week = 2
    Slots = 3
    Publishable <- Documents2
    TypedRules <- SomeRules
    TypedExceptions <- SomeExceptions
    ChosenRules <- PanelRules
    ChosenEnds <- PanelEnds
    ChosenUnits <- PanelUnits
    MaxPublishes = 2
    MaxEdits = 2
    CommandIds = {1, 2, 3, 4}
    Asks <- FourAsks
    PROCESSED_HISTORY = 3
    MaxDrops = 1
    MaxDeaths = 1
    MaxCuts = 2
    Records <- SixRecords
    Overrides <- Board
    RELAY_GPIO <- Board
    w = w
    Contents = {"one", "other"}
    Writers = {w}
    Nothing = "nothing"
    Torn = "torn"
    Probes = {"one probe", "another"}
    MaxWriteFails = 1
    MaxResets = 1
SPECIFICATION AgentSpec
INVARIANTS
    UncutIsSafe ThresholdsApart WantedIsLastSaid SwitchesItsOwn EveryProbeGuards OrderIsKept
PROPERTIES
    CutDoesNotChatter FreezeDoesNotChatter WarmReleases
    EditIsOneStep RemovesWhatWasShown
    ImplementsCommands EveryCommandIsAnswered
    PairedStaysPaired EntrySettles LearnsItsWiring ImplementsRegister
CHECK_DEADLOCK FALSE
