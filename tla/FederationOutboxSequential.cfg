SPECIFICATION HealthySpec
CONSTANTS
    Dest = {d1}
    Pdu = {p1, p2}
    Edu = {}
    Run = {r1}
    Txn = {t1}
    Attempts = 3
    MaxBackoff = 4
    RetryCap = 3
    MaxCrashes = 0
    Inbound = {}
    Nobody = Nobody
    NoTxn = NoTxn
INVARIANTS
    HeldHasWakeup
PROPERTIES
    EventuallyDelivered
CHECK_DEADLOCK FALSE
