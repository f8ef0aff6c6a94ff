SPECIFICATION Spec
CONSTANTS
    root = root
    join = join
    leave = leave
    say = say
    blank = blank
    odd = odd
    stray = stray
    forged = forged
    barred = barred
    t1 = t1
    t2 = t2
    Pdu <- Room
    Txn = {t1, t2}
    Body <- InOrder
    Prev <- MCPrev
    Auth <- MCAuth
    Key <- MCKey
    NoKey = NoKey
    Known = {root}
    Fault <- MCFault
    Denies <- MCDenies
    Revokes <- MCRevokes
    Deferrable = {}
    MissingAnswers <- MCMissing
    AuthAnswers <- MCAuthAnswers
    Relations = {}
    Partial = FALSE
    Handler = {h1, h2}
    MaxDepth = 2
    Nobody = Nobody
SYMMETRY Handlers
INVARIANTS
    TypeOK
    AnsweredIsDecided
    AnswerIsComplete
    AppliedIsStored
PROPERTIES
    GrowsAlongAuth
CHECK_DEADLOCK FALSE
