\* Two updates, one of them user visible, and one call of another client or one
\* fault anywhere.
CONSTANTS
    Updates = {"small", "visible"}
    UserVisible = {"visible"}
    Interval = 1
    RandomizedDelay = 1
    UserVisibleDelay = 1
    LastSteps = {0, 1, 2, 3}
    MaxTime = 1
    MaxDisturbances = 1

SPECIFICATION FairSpec

INVARIANTS
    ResultsAreOfUpdate

PROPERTIES
    DelayRespected
    StampMeansDone
    RunEnds
