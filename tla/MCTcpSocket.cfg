SPECIFICATION FairSpec
CONSTANTS
    s1 = s1
    SocketList <- OneSocket
    Isn <- OneIsn
    PeerBytes = 2
    MaxWrites = 2
    MaxWire = 1
    MayLose = TRUE
CHECK_DEADLOCK FALSE
INVARIANTS DeliveredInOrder AcksTaken SentInOrder
PROPERTIES ConnectReturns PeerBytesArrive
