\* Three starts, and a caller that samples by hand; joins may time out or not.
SPECIFICATION FairSpec
CONSTANTS
    Threads = {"t1", "t2", "t3"}
    Pollers = {}
    NoThread = "none"
    MaxTime = 3
INVARIANTS
    TypeOK
    OneMonitorThread
PROPERTIES
    OwnSamplesInOrder
    StopReturns
    StoppedComesToRest
    RunningGoesOn
