SPECIFICATION FairSpec
CONSTANTS
    Dest = {d1, d2}
    Pdu = {p1}
    Edu = {}
    Run = {r1, r2}
    Txn = {t1, t2}
    Attempts = 2
    MaxBackoff = 1
    RetryCap = 1
    MaxCrashes = 0
    Inbound = {}
    Nobody = Nobody
    NoTxn = NoTxn
PROPERTIES
    EveryRunEnds
CHECK_DEADLOCK FALSE
