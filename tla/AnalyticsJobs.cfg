\* One server process; a calculation and a report that compete for one slot; the store and the cleanups may fail.
SPECIFICATION Spec
CONSTANTS
    p1 = p1  p2 = p2  j1 = j1  j2 = j2
    Process = {p1}
    Job = {j1, j2}
    Report = {j2}
    Capacity = 1
    MaxRuns = 1
    StoreMayFail = TRUE
    CleanupMayFail = TRUE
INVARIANTS TypeOK ConclusionAtomic LiveTaskCounted NoJobStranded WaitsEnd
PROPERTIES StopIntentWins EndIsFinal
