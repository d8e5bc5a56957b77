SPECIFICATION Spec
CONSTANTS
    o1 = o1  acc1 = acc1  c1 = c1
    Orders = {o1}
    Accounts = {acc1}
    Calls = {c1}
    Spellings = {"plain", "blanks"}
    TTL = 2
    MaxGeneration = 1
    MaxTime = 3
INVARIANTS OneTime
CHECK_DEADLOCK FALSE
