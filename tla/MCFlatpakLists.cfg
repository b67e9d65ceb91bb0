\* In one directory up to three actions on two applications that share a runtime,
\* one of them with an extension; in two directories up to two entries with
\* filters and faults.
CONSTANTS
  Ref = {"app", "game", "runtime", "app.Locale"}
  Files <- MCFiles
  MAXINT = 3
  Runtimes <- MCRuntime
  Extensions <- MCLocale
  Directories = {1, 2}
  Candidates <- MCEntries
  Computers <- MCAnySystem
  MaxCandidates <- MCSizes
SPECIFICATION ListsSpec

INVARIANTS
    ReadsWhatIsWanted
    SquashKeepsEffect
    SplitIsComplete
    DependenciesInPlace

CHECK_DEADLOCK FALSE
