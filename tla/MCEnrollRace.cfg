CONSTANTS
    c1 = c1
    c2 = c2
    t1 = t1
    t2 = t2
    r1 = r1
    r2 = r2
    b1 = b1
    b2 = b2
    Codes = {c1}
    Threads = {t1, t2}
    Reports = {r1}
    Bodies = {b1}
    CodeLife = 2
    Freshness = 1
    Skew = 0
    Retention = 2
    MaxProbes = 3
    MaxTime = 3
SPECIFICATION Spec
INVARIANT SingleUse
CHECK_DEADLOCK FALSE
