CONSTANTS
    c1 = c1
    c2 = c2
    Worlds <- MCWorlds
    Remotes <- MCRemotes
    CollectionOf <- MCCollectionOf
    ServedRemote = "eos"
    MaxChunks = 2
    Second = 2
    IntBits = 8
    QuitFileSeconds = 1
    Horizon = 2
SPECIFICATION FairSpec

INVARIANTS
    PendingIsExact

PROPERTIES
    QuitOnlyIdle
    ResponsesAreRight
    ServingEnds
