\* One preview, one worker thread and one order-tool coroutine: enough for the race of two commits.
SPECIFICATION Spec
CONSTANTS
    t1 = t1  t2 = t2
    r1 = r1  r2 = r2  r3 = r3
    th1 = th1  th2 = th2  k1 = k1  k2 = k2
    Token = {t1}
    Request = {r1}
    Thread = {th1}
    Task = {k1}
    Config <- MCConfig
    Unroutable = {}
    Refused = {}
    NoToken = NoToken
    NoTask = NoTask
    NoPreview = NoPreview
    PreviewTTL = 4
    DupWindow = 2
    RateWindow = 1
    MaxTime = 2
INVARIANTS ApprovedOnce
