\* Two files on different flatpaks, one with two actions on the same flatpak.
SPECIFICATION FairSpec
CONSTANTS
    Process = {"boot", "fallback"}
    Once = {"boot"}
    Pulling = {"fallback"}
    Modes = {"perform", "stamp", "check"}
    Ref = {"app", "tool", "runtime"}
    Files <- MCTwoFiles
    Entries <- MCMixed
    Systems <- MCSystem
    Installations <- MCInstallations
    MaxEntries = 2
    MAXINT = 3
    Runtimes <- MCRuntime
    Extensions <- MCUnrelated

INVARIANTS
    NothingForgotten

PROPERTIES
    ProgressIsRight
    EventuallyApplied
