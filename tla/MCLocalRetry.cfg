SPECIFICATION LongSpec
CONSTANTS
    Waits <- MCWaits
    NoWait = NoWait
    ArmMayFail = TRUE
    w1 = w1  w2 = w2  w3 = w3
    a1 = a1  a2 = a2
    c1 = c1  c2 = c2  ip = ip  s = s
    None = None
INVARIANT KeepsAccepting
CHECK_DEADLOCK FALSE
