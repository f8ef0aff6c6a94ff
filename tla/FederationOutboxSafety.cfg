SPECIFICATION Spec
CONSTANTS
    Dest = {d1}
    Pdu = {p1, p2}
    Edu = {e1}
    Run = {r1, r2}
    Txn = {t1, t2}
    Attempts = 2
    MaxBackoff = 1
    RetryCap = 1
    MaxCrashes = 1
    Inbound = {d1}
    Nobody = Nobody
    NoTxn = NoTxn
SYMMETRY Symmetry
INVARIANTS
    NothingLost
    DeliveredInOrder
PROPERTIES
    AtLeastOnceDelivery
    DeletedEduStaysDeleted
CHECK_DEADLOCK FALSE
