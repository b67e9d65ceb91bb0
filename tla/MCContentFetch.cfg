\* A fetch: three notifications let the scheduler grant, withdraw and grant
\* again, or drop, at any moment.
CONSTANTS
    MaxNotices = 3
    MaxFlatpaks = 2

SPECIFICATION FairSpec

INVARIANTS
    EntryGivenBack
    WithdrawalNotLost

PROPERTIES
    FetchRefines
    WithdrawnDownloadStops
    FetchEnds
