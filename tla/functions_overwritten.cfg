SPECIFICATION Spec
CONSTANTS
    Codes1 <- FirstCodes
    Codes2 <- SecondCodes
    Options <- OneOrTwo
    Units <- FourUnits
    SelectSets <- WithAndWithoutSelects
    MaxCalls = 2
    MaxLosses = 0
    MaxOwed = 2
    Starvation = FALSE
    LateAnswers = FALSE
PROPERTIES
    ChangesAreWritten
