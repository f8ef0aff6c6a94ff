SPECIFICATION FairSpec
CONSTANTS
    alice = alice
    bob = bob
    carol = carol
    dora = dora
    aliceJoins = aliceJoins
    aliceLeft = aliceLeft
    bobJoins = bobJoins
    carolJoins = carolJoins
    doraJoins = doraJoins
    bobSays = bobSays
    bobLeaves = bobLeaves
    Base = Base
    None = None
    Joiner = {alice}
    Member <- MCMember
    Event <- MCEvent
    Sender <- MCSender
    Target <- MCTarget
    Kind <- MCKind
    Auth <- MCAuth
    JoinOf <- MCJoinOf
    Admin = {carol}
    First <- MCFirst
    Full <- MCFull
    Chain = {aliceLeft}
    Delivered <- MCDelivered
    Handler = {h1}
    Retries = 1
INVARIANTS
    PartialRoomIsMarked
    CompletionIsKept
    JoinIsInEffect
PROPERTIES
    FlaggedUntilComplete
    DeferredStaysDue
    DeferredIsJudged
CHECK_DEADLOCK FALSE
