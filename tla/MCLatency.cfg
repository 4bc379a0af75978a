SPECIFICATION FairLatencySpec
CONSTANTS
    Main = Main
    Idle = Idle
    w1 = w1
    w2 = w2
    Workers <- MCWorkers
    MaxSleep = 3
    MaxNesting = 1
    LeakedDisables <- SerialMayFail
INVARIANTS
    QueueConsistent
    NoTaskLost
    DeltaExact
    NoEarlyReturn
    CriticalSectionsAtomic
    BoundedWait
PROPERTIES
    ServiceSpec
    SleepReturns
