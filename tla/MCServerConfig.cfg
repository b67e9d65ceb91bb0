CONSTANTS
    N = 2
    Contents <- MCContents
    Default <- MCDefault
    Keys <- MCKeys
    MaxEdits = 1
    Queried <- MCQueried
    IndexOf <- MCIndexOf
    Invalid <- MCInvalid
SPECIFICATION ReadSpec

PROPERTIES
    AnswersHold

CHECK_DEADLOCK FALSE
