SPECIFICATION Spec
CONSTANTS
    admin = admin
    bob = bob
    t1 = t1
    None = None
    User = {admin, bob}
    Founder = {admin}
    Power <- MCPower
    InvitePower = 0
    KickPower = 50
    BanPower = 50
    JoinRule = "knock"
    Txn = {t1}
    Request <- MCRequest
    Worker = {w1, w2}
    MaxEvents = 3
INVARIANTS
    AnsweredIsInEffect
    SentOnce
    AnswersAgree
    ForksOverlap
PROPERTY BanStands
SYMMETRY Workers
CHECK_DEADLOCK FALSE
