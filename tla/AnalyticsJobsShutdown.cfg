\* One server process and one calculation: a shutdown that closes the store beside a running worker.
SPECIFICATION Spec
CONSTANTS
    p1 = p1  p2 = p2  j1 = j1  j2 = j2
    Process = {p1}
    Job = {j1}
    Report = {}
    Capacity = 1
    MaxRuns = 1
    StoreMayFail = FALSE
    CleanupMayFail = FALSE
INVARIANTS ShutdownStopsWorkers
