CONSTANTS
    Threads = {t1, t2}
    Ids = {id1, id2}
    Unset = unset
    None = none
    Modes = {{"uds", "tcp"}}
    MaxFaults = 2
    MaxStarts = 2
SPECIFICATION FairSpec
INVARIANTS NeverStranded StoppedIsQuiet
PROPERTIES StopEnds Settles
CHECK_DEADLOCK FALSE
