\* Three order ids, three writes; the broker may answer 429 or 500 for a write it applied.
SPECIFICATION Spec
CONSTANTS
    o1 = o1  o2 = o2  o3 = o3
    OrderId = {o1, o2, o3}
    Ambiguous = {429, 500}
    MaxWrites = 3
SYMMETRY Symmetry
INVARIANTS TypeOK NoDoubleOrder NoOrphanOrder CancelledIsGone
CHECK_DEADLOCK FALSE
