SPECIFICATION FairSpec
CONSTANTS
    k1 = k1  c1 = c1  u1 = u1
    Keepers = {k1}
    Tools = {c1}
    Users = {u1}
    NoOne = NoOne
    MaxLogins = 2
    MaxCalls = 1
    MaxAges = 2
    MaxFaults = 1
INVARIANTS TypeOK CachedTokenUsable KeeperGivesUp StoppedAtDeadToken
PROPERTIES RefreshReplacesItsOwn OneAttemptPerRevision PortalNeverDiscards LapsingSessionRefreshed
CHECK_DEADLOCK FALSE
