CONSTANTS
    zero = zero
    eos = eos
    other = other
    c1 = c1
    c2 = c2
    c3 = c3
    r1 = r1
    Ref = {r1}
    NoFile = NoFile
    OldFile = OldFile
    OldContent = OldContent
    NoSystem = NoSystem
    Missing = Missing
    Corrupt = Corrupt
    Name = {zero, OldFile}
    IndexOf <- MCIndexOf
    NoIndex <- MCNoIndex
    Deployed <- MCDeployed
    Timestamps <- MCTimestamps
    MaxChanges = 5
    MaxFailures = 1
SPECIFICATION FairSpec

INVARIANTS
    SettledIsWanted

PROPERTIES
    FileFollows

CHECK_DEADLOCK FALSE
