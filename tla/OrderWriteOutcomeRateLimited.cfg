\* As OrderWriteOutcome.cfg, with only a rate limit after the write boundary.
SPECIFICATION Spec
CONSTANTS
    o1 = o1  o2 = o2  o3 = o3
    OrderId = {o1, o2, o3}
    Ambiguous = {429}
    MaxWrites = 3
SYMMETRY Symmetry
INVARIANTS RateLimitedMayHaveMutated
CHECK_DEADLOCK FALSE
