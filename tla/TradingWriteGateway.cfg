\* Two tokens, a money-moving request and another; one worker thread, two coroutines.
SPECIFICATION Spec
CONSTANTS
    t1 = t1  t2 = t2
    r1 = r1  r2 = r2
    th1 = th1  k1 = k1  k2 = k2
    Token = {t1, t2}
    Request = {r1, r2}
    MoneyMoving = {r1}
    Thread = {th1}
    Task = {k1, k2}
    Config <- MCConfig
    NoToken = NoToken
    NoTask = NoTask
    NoPreview = NoPreview
    NoReport = NoReport
    PreviewTTL = 1
    MaxTime = 1
SYMMETRY Symmetry
INVARIANTS TypeOK SafeRetryUnapplied
PROPERTIES NoSendWhileBlocked ImplementsOneShotWrite
