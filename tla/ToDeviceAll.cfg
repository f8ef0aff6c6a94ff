SPECIFICATION FairSpec
CONSTANTS
    phone = phone
    laptop = laptop
    a = a
    b = b
    w1 = w1
    w2 = w2
    None = None
    Device = {phone, laptop}
    Online = {phone}
    Send = {a, b}
    Incoming = {b}
    Outgoing = {a}
    Target <- MCTarget
    Place <- MCPlace
    Id <- MCId
    Worker = {w1, w2}
    Limit = 1
    MaxPosition = 3
INVARIANTS
    PositionsDiffer
    AnsweredIsStored
    PassedIsReceived
PROPERTIES
    AtLeastOnceDelivery
    ReceivedOnce
    StoredIsReceived
CHECK_DEADLOCK FALSE
