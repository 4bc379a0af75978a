SPECIFICATION FairSpec
CONSTANTS
    s1 = s1
    SocketList <- OneSocket
    Isn <- OneIsn
    PeerBytes = 1
    MaxWrites = 1
    MaxWire = 1
    MayLose = FALSE
CHECK_DEADLOCK FALSE
PROPERTY QueueDrains
