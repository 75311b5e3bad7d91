SPECIFICATION FairSpec
CONSTANTS
    Threads = {w1, w2, w3}
    NoThread = NoThread
    MaxSubmits = 4
    HandlerMayRaise = TRUE
CHECK_DEADLOCK FALSE
INVARIANTS TypeOK NoLostWakeup NoDoubleRun
PROPERTIES SerialInOrder Served StopEnds
