CONSTANTS
    Units = {1, 2}
    Week = 2
    Slots = 3
    Publishable <- Documents2
    TypedRules <- SomeRules
    TypedExceptions <- SomeExceptions
    ChosenRules <- PanelRules
    ChosenEnds <- PanelEnds
    ChosenUnits <- PanelUnits
    MaxPublishes = 2
    MaxEdits = 2
SPECIFICATION ProgrammeSpec
PROPERTY NoPushIsUndone
CHECK_DEADLOCK FALSE
