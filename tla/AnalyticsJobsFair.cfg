\* One server process under fairness; a calculation started up to twice, across interruptions,
\* crashes and new managers; cleanups may fail, the store does not.
SPECIFICATION FairSpec
CONSTANTS
    p1 = p1  p2 = p2  j1 = j1  j2 = j2
    Process = {p1}
    Job = {j1}
    Report = {}
    Capacity = 1
    MaxRuns = 3
    StoreMayFail = FALSE
    CleanupMayFail = TRUE
INVARIANTS FinalizerOwnsRun
PROPERTIES JobEnds ShutdownEnds ImplementsJobLifecycle
