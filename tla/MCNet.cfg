SPECIFICATION FairSpec
CONSTANTS
    NET_QUEUE_CAPACITY = 4
    Spare = Spare
    NET_QUEUE_LEN = 2
    EventCap = 1
    MaxPackets = 5
INVARIANTS
    RoomIsAnnounced
PROPERTIES
    RxInOrder
    TxInOrder
    RxServed
    TxServed
    CloseReturns
