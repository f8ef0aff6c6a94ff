SPECIFICATION FairSpec
CONSTANTS
    root = root
    join = join
    leave = leave
    say = say
    blank = blank
    odd = odd
    stray = stray
    forged = forged
    barred = barred
    t1 = t1
    t2 = t2
    Pdu <- WholeRoom
    Txn = {t1, t2}
    Body <- WithFaults
    Prev <- MCPrev
    Auth <- MCAuth
    Key <- MCKey
    NoKey = NoKey
    Known = {root}
    Fault <- MCFault
    Denies <- MCDenies
    Revokes <- MCRevokes
    Deferrable = {}
    MissingAnswers <- FaultyMissing
    AuthAnswers <- FaultyAuthAnswers
    Relations = {}
    Partial = FALSE
    Handler = {h1}
    MaxDepth = 4
    Nobody = Nobody
PROPERTIES
    
    HandlersEnd
CHECK_DEADLOCK FALSE
