\* The daemon: three commits on two branches and addresses for the cancellables
\* of two threads and a new one. No symmetry, which would be unsound for the
\* liveness properties.
CONSTANTS
    c0 = c0
    c1 = c1
    c2 = c2
    NULL = NULL
    Commits = {c0, c1, c2}
    Refspec <- MCRefspec
    Workers = {w1, w2}
    Cancellables = {k1, k2, k3}

SPECIFICATION FairSpec

INVARIANTS
    OneWorker
    ReadyIsPulled
    ResultsDescribeUpdate
    DeployedIsPulled

PROPERTIES
    CancelHonoured
    NoStaleCancel
    DeployOnlyAdvertised
    InterfaceSpec
    OperationEnds
