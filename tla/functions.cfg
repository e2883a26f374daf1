SPECIFICATION Spec
CONSTANTS
    Codes1 <- FirstCodes
    Codes2 <- SecondCodes
    Options <- OneOrTwo
    Units <- FourUnits
    SelectSets <- WithAndWithoutSelects
    MaxCalls = 2
    MaxLosses = 1
    MaxOwed = 2
    Starvation = TRUE
    LateAnswers = TRUE
INVARIANTS
    WritesAreComplete
    NoCycleWaitsForNothing
PROPERTIES
    ReadOnDemand
    Part1ComesFirst
    ChangesSettle
    ReadsAreServed
