CONSTANTS
    b1 = b1  b2 = b2  t1 = t1  t2 = t2
    Bulks = {b1, b2}  Completed = {t1}  Others = {t2}
    Lists <- MCLists  MaxBatch = 2
    MaxFaults = 2  MaxSignals = 1
SPECIFICATION Spec
INVARIANTS TypeOK CompletedCertified NoGhost
PROPERTY RowSettles
CHECK_DEADLOCK FALSE
