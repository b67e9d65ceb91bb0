CONSTANTS
    Commits = {1, 2, 3, 4, 5, 6}
    Refs = {"old", "new", "newest"}
    None = ""
    Worlds <- MCWorlds
    Orders <- MCOrders

SPECIFICATION FairSpec

INVARIANTS
    ResultsFitOffer
    NoDowngrade
    CheckpointIsBooted

PROPERTIES
    PollEnds
