\* Two previews of three requests, r3 without its route key and r2 refused in LIVE;
\* one worker thread, two order-tool coroutines.
SPECIFICATION Spec
CONSTANTS
    t1 = t1  t2 = t2
    r1 = r1  r2 = r2  r3 = r3
    th1 = th1  th2 = th2  k1 = k1  k2 = k2
    Token = {t1, t2}
    Request = {r1, r2, r3}
    Thread = {th1}
    Task = {k1, k2}
    Config <- MCConfig
    Unroutable = {r3}
    Refused = {r2}
    NoToken = NoToken
    NoTask = NoTask
    NoPreview = NoPreview
    PreviewTTL = 3
    DupWindow = 2
    RateWindow = 1
    MaxTime = 3
SYMMETRY Symmetry
INVARIANTS TypeOK OneSendPerPreview SendsSpaced LiveSendsApproved
PROPERTIES NoSendWhileBlocked ImplementsOneShotWrite
