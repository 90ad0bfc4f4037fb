CONSTANTS
    Records <- SixRecords
    Overrides <- Board
    RELAY_GPIO <- Board
SPECIFICATION WiringSpec
INVARIANT StaysAtTheSwitch
CHECK_DEADLOCK FALSE
