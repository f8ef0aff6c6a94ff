---------------------------- MODULE RoomCommands ----------------------------
(***************************************************************************)
(* The commands of local clients on one room: messages with a transaction  *)
(* id, joins, leaves, knocks, invites, kicks, bans and unbans.  All go     *)
(* through the event pipeline: look at the room, look again and build the  *)
(* event, store it, and, for a membership, write the state pointer and the *)
(* membership row in statements of their own.                              *)
(*                                                                         *)
(* Every stage of the pipeline reads at once what it reads, every write is *)
(* a step, and workers interleave between steps.  A worker may stop after  *)
(* any of them, and a client may repeat any request at any time.           *)
(*                                                                         *)
(* What the commands hand on is in other modules: waking clients           *)
(* (IncrementalSync), other servers (FederationOutbox), positions of the   *)
(* stream (EventStream).                                                   *)
(***************************************************************************)
EXTENDS Naturals, Sequences

CONSTANTS User,
          Founder,      \* those joined when the model begins
          Power,        \* [User -> Nat]: m.room.power_levels
          InvitePower, KickPower, BanPower,
          JoinRule,     \* "public", "knock" or "invite"
          Txn,          \* transaction ids of clients
          Request,      \* the requests that clients make, see Command
          Worker,       \* requests handled at once
          MaxEvents,    \* bound: events stored
          None

Memberships == {"join", "invite", "leave", "ban", "knock"}

\* What a command makes of its target.
Asked == [join |-> "join", leave |-> "leave", knock |-> "knock", invite |-> "invite",
          kick |-> "leave", ban |-> "ban", unban |-> "leave"]
MemberKind == DOMAIN Asked

Command == [kind : MemberKind \cup {"send"}, actor : User, target : User,
            txn : Txn \cup {None}]

ASSUME Constants ==
    /\ Founder \subseteq User /\ Power \in [User -> Nat]
    /\ InvitePower \in Nat /\ KickPower \in Nat /\ BanPower \in Nat
    /\ JoinRule \in {"public", "knock", "invite"}
    /\ Request \subseteq Command /\ MaxEvents \in Nat /\ None \notin Txn
    /\ \A q \in Request : /\ q.kind = "send" <=> q.txn # None
                          /\ q.kind \in {"join", "leave", "knock", "send"} => q.target = q.actor

VARIABLES
    log,          \* events, in the order of their insertion
    row,          \* room_memberships
    state,        \* room_state, of m.room.member: what its event says, and who sent it
    transaction,  \* transaction_ids: the event of a response, 0 for none
    worker,
    told,         \* history: the answers to messages
    overlapped,   \* history: subjects of requests that overlapped
    lost          \* history: messages whose worker stopped before Put

tables == <<log, row, state, transaction>>
vars == <<tables, worker, told, overlapped, lost>>

\* A message is a matter of its sender and transaction id, a membership of
\* the user it is about.
Subjects == User \X (Txn \cup {None})
Subject(q) == <<q.target, q.txn>>

\* prev is the event before it, by number, 0 for the room's founding; built
\* is how many events there were when it was built.
Event == [subject : Subjects, prev : Nat, depth : Nat, built : Nat]
Place == {"idle", "lookup", "authorize", "build", "store", "point", "row", "repoint",
          "put", "answer"}
Handling == [at : Place, q : Request \cup {None}, prev : Nat, built : Nat, event : Nat]
Idle == [at |-> "idle", q |-> None, prev |-> 0, built |-> 0, event |-> 0]
StateEntry == [membership : Memberships \cup {"none"}, sender : User \cup {None}]

Busy(w) == worker[w].at # "idle"
At(w, place) == worker[w].at = place
GoTo(w, place) == worker' = [worker EXCEPT ![w].at = place]
Finish(w) == worker' = [worker EXCEPT ![w] = Idle]

\* getMembership: the row, or else what the room's state says.
MembershipOf(u) == IF row[u] # "none" THEN row[u] ELSE state[u].membership

Depth(n) == IF n = 0 THEN 0 ELSE log[n].depth

\* Slip: the latest state event.
IsLatestOfState(n) ==
    /\ n \in 0..Len(log) /\ (n # 0 => log[n].subject[2] = None)
    /\ \A m \in 0..Len(log) : (m # 0 => log[m].subject[2] = None) => m <= n

\* getLatestRoomEventsByDepth: ORDER BY depth DESC, stream_ordering DESC.
IsLatest(n) ==
    /\ n \in 0..Len(log)
    /\ \A m \in 0..Len(log) : Depth(m) < Depth(n) \/ (Depth(m) = Depth(n) /\ m <= n)

Init ==
    /\ log = <<>>
    /\ row = [u \in User |-> IF u \in Founder THEN "join" ELSE "none"]
    /\ state = [u \in User |-> IF u \in Founder
                                 THEN [membership |-> "join", sender |-> u]
                                 ELSE [membership |-> "none", sender |-> None]]
    /\ transaction = [s \in Subjects |-> 0]
    /\ worker = [w \in Worker |-> Idle]
    /\ told = {} /\ overlapped = {} /\ lost = {}

-----------------------------------------------------------------------------
\* A request reaches a worker.
Receive(w, q) ==
    /\ At(w, "idle")
    /\ worker' = [worker EXCEPT ![w] =
          [at |-> IF q.kind = "send" THEN "lookup" ELSE "authorize",
           q |-> q, prev |-> 0, built |-> 0, event |-> 0]]
    /\ overlapped' = overlapped \cup
          {Subject(worker[v].q) : v \in {v \in Worker : Busy(v) /\ Subject(worker[v].q) = Subject(q)}}
    /\ UNCHANGED <<tables, told, lost>>

\* withIdempotency: the response that is stored for the transaction id is
\* the answer.
LookUp(w) ==
    /\ At(w, "lookup")
    /\ LET s == Subject(worker[w].q)
       IN \/ /\ transaction[s] # 0
             /\ told' = told \cup {<<s, transaction[s]>>}
             /\ Finish(w)
          \/ /\ transaction[s] = 0
             /\ GoTo(w, "authorize")
             /\ UNCHANGED told
    /\ UNCHANGED <<tables, overlapped, lost>>

\* authorizeKick, with canRescindInvite by the state's event.
MayKick(actor, target) ==
    /\ MembershipOf(actor) = "join"
    /\ MembershipOf(target) \in {"join", "invite", "knock"}
    /\ MembershipOf(target) = "invite" => state[target].sender = actor
    /\ Power[actor] >= KickPower /\ Power[actor] > Power[target]

MayBan(actor, target) ==
    /\ MembershipOf(actor) = "join"
    /\ Power[actor] >= BanPower /\ Power[actor] > Power[target]

MayUnban(actor, target) ==
    /\ MembershipOf(actor) = "join" /\ MembershipOf(target) = "ban"
    /\ Power[actor] >= BanPower

\* Slip: the ban is not looked at.
MayInviteAnybody(actor, target) ==
    \/ MembershipOf(target) = "invite"
    \/ /\ MembershipOf(actor) = "join" /\ MembershipOf(target) # "join"
       /\ Power[actor] >= InvitePower

\* A second invite is let through, whoever sends it.
MayInvite(actor, target) ==
    \/ MembershipOf(target) = "invite"
    \/ /\ MembershipOf(actor) = "join" /\ MembershipOf(target) \notin {"join", "ban"}
       /\ Power[actor] >= InvitePower

MayJoin(u) == \/ MembershipOf(u) \in {"join", "invite"}
              \/ MembershipOf(u) # "ban" /\ JoinRule = "public"

MayKnock(u) == MembershipOf(u) \notin {"join", "invite", "ban"} /\ JoinRule = "knock"

MayLeave(u) == MembershipOf(u) \in {"join", "invite", "knock", "leave"}

Authorized(q) ==
    \/ q.kind = "send"   /\ MembershipOf(q.actor) = "join"
    \/ q.kind = "join"   /\ MayJoin(q.target)
    \/ q.kind = "knock"  /\ MayKnock(q.target)
    \/ q.kind = "leave"  /\ MayLeave(q.target)
    \/ q.kind = "invite" /\ MayInvite(q.actor, q.target)
    \/ q.kind = "kick"   /\ MayKick(q.actor, q.target)
    \/ q.kind = "ban"    /\ MayBan(q.actor, q.target)
    \/ q.kind = "unban"  /\ MayUnban(q.actor, q.target)

Authorize(w) ==
    /\ At(w, "authorize")
    /\ IF Authorized(worker[w].q) THEN GoTo(w, "build") ELSE Finish(w)
    /\ UNCHANGED <<tables, told, overlapped, lost>>

\* Slip: the room's state is looked at, and not the row.
NothingNewInState(q) ==
    q.kind \in {"join", "leave", "invite"} /\ state[q.target].membership = Asked[q.kind]

\* Joins, leaves and invites look again, and store nothing if there is
\* nothing to change.
NothingToDo(q) ==
    q.kind \in {"join", "leave", "invite"} /\ MembershipOf(q.target) = Asked[q.kind]

\* checkEventAuth, which only a knock goes through, on the state's event.
Rejected(q) == q.kind = "knock" /\ state[q.target].membership \in {"join", "ban"}

Build(w) ==
    /\ At(w, "build")
    /\ LET q == worker[w].q
       IN \/ /\ NothingToDo(q)
             /\ GoTo(w, "answer")
          \/ /\ Rejected(q)
             /\ Finish(w)
          \/ /\ ~NothingToDo(q) /\ ~Rejected(q)
             /\ \E n \in 0..Len(log) : /\ IsLatest(n)
                   /\ worker' = [worker EXCEPT ![w] =
                         [at |-> "store", q |-> q, prev |-> n, built |-> Len(log), event |-> 0]]
    /\ UNCHANGED <<tables, told, overlapped, lost>>

\* The invitee blocks the inviter, or the invitee's server refuses: both are
\* asked before the event is stored.
RefuseInvite(w) ==
    /\ At(w, "store") /\ worker[w].q.kind = "invite"
    /\ Finish(w)
    /\ UNCHANGED <<tables, told, overlapped, lost>>

\* Slip: a message is answered when it is stored.
StoreAndAnswer(w) ==
    /\ At(w, "store") /\ Len(log) < MaxEvents
    /\ LET me == worker[w]
       IN /\ log' = Append(log, [subject |-> Subject(me.q), prev |-> me.prev,
                                 depth |-> Depth(me.prev) + 1, built |-> me.built])
          /\ worker' = [worker EXCEPT ![w] =
                [at |-> IF me.q.kind = "send" THEN "put" ELSE "point",
                 q |-> me.q, prev |-> me.prev, built |-> me.built, event |-> Len(log) + 1]]
          /\ told' = IF me.q.kind = "send"
                       THEN told \cup {<<Subject(me.q), Len(log) + 1>>} ELSE told
    /\ UNCHANGED <<row, state, transaction, overlapped, lost>>

\* The event's row.
Store(w) ==
    /\ At(w, "store") /\ Len(log) < MaxEvents
    /\ LET me == worker[w]
       IN /\ log' = Append(log, [subject |-> Subject(me.q), prev |-> me.prev,
                                 depth |-> Depth(me.prev) + 1, built |-> me.built])
          /\ worker' = [worker EXCEPT ![w] =
                [at |-> IF me.q.kind = "send" THEN "put" ELSE "point",
                 q |-> me.q, prev |-> me.prev, built |-> me.built, event |-> Len(log) + 1]]
    /\ UNCHANGED <<row, state, transaction, told, overlapped, lost>>

SetState(q) ==
    state' = [state EXCEPT ![q.target] = [membership |-> Asked[q.kind], sender |-> q.actor]]

\* storeFederationEvent sets the state after the event's row ...
Point(w) ==
    /\ At(w, "point")
    /\ SetState(worker[w].q)
    /\ GoTo(w, "row")
    /\ UNCHANGED <<log, row, transaction, told, overlapped, lost>>

\* ... and the transition writes the membership ...
UpdateMembership(w) ==
    /\ At(w, "row")
    /\ row' = [row EXCEPT ![worker[w].q.target] = Asked[worker[w].q.kind]]
    /\ GoTo(w, "repoint")
    /\ UNCHANGED <<log, state, transaction, told, overlapped, lost>>

\* ... and sets the state again.
Repoint(w) ==
    /\ At(w, "repoint")
    /\ SetState(worker[w].q)
    /\ GoTo(w, "answer")
    /\ UNCHANGED <<log, row, transaction, told, overlapped, lost>>

\* Slip: the response is not recorded.
PutNothing(w) ==
    /\ At(w, "put")
    /\ told' = told \cup {<<Subject(worker[w].q), worker[w].event>>}
    /\ Finish(w)
    /\ UNCHANGED <<tables, overlapped, lost>>

\* The record of the response (the last one wins), and the answer.
Put(w) ==
    /\ At(w, "put")
    /\ LET s == Subject(worker[w].q)
       IN /\ transaction' = [transaction EXCEPT ![s] = worker[w].event]
          /\ told' = told \cup {<<s, worker[w].event>>}
    /\ Finish(w)
    /\ UNCHANGED <<log, row, state, overlapped, lost>>

\* The answer to a membership command; errors of the notifications before it
\* are swallowed.
Answer(w) ==
    /\ At(w, "answer")
    /\ Finish(w)
    /\ UNCHANGED <<tables, told, overlapped, lost>>

\* The worker stops, or a statement fails: the client gets no answer.
Stop(w) ==
    /\ Busy(w)
    /\ lost' = IF At(w, "put") THEN lost \cup {worker[w].event} ELSE lost
    /\ Finish(w)
    /\ UNCHANGED <<tables, told, overlapped>>

Membership(w) == Point(w) \/ UpdateMembership(w) \/ Repoint(w) \/ Answer(w)
Pipeline(w) == \/ LookUp(w) \/ Authorize(w) \/ Build(w) \/ RefuseInvite(w) \/ Store(w)
               \/ Membership(w) \/ Put(w) \/ Stop(w)

Next == \E w \in Worker : Pipeline(w) \/ \E q \in Request : Receive(w, q)

Spec == Init /\ [][Next]_vars

-----------------------------------------------------------------------------
(* Properties.                                                              *)

(* Tables and requests have their types.                                    *)
TypeOK ==
    /\ log \in Seq(Event)
    /\ row \in [User -> Memberships \cup {"none"}] /\ state \in [User -> StateEntry]
    /\ transaction \in [Subjects -> 0..Len(log)]
    /\ worker \in [Worker -> Handling]
    /\ \A w \in Worker : Busy(w) => worker[w].q \in Request
    /\ told \subseteq Subjects \X (1..Len(log)) /\ overlapped \subseteq Subjects
    /\ lost \subseteq 1..Len(log)

(* When a membership command is answered, its target has the membership it  *)
(* asked for, in the row and in the room's state if it stored an event,     *)
(* whatever earlier requests left half-written when they stopped; requests  *)
(* on other users may run beside it.                                        *)
AnsweredIsInEffect ==
    \A w \in Worker :
        LET q == worker[w].q
        IN At(w, "answer") /\ Subject(q) \notin overlapped =>
              /\ MembershipOf(q.target) = Asked[q.kind]
              /\ worker[w].event # 0 => row[q.target] = state[q.target].membership

(* A ban ends by an unban only: no join, invite, knock or kick that stopped *)
(* halfway, or comes later, takes it back (authorizeLocalJoin,              *)
(* authorizeLocalInvite, authorizeLocalKnock, authorizeKick).               *)
Unbanning(u) ==
    \E w \in Worker : worker[w].at \in {"point", "row"} /\ worker[w].q.kind = "unban"
                                                       /\ worker[w].q.target = u
BanStands ==
    [][\A u \in User : MembershipOf(u) = "ban" /\ <<u, None>> \notin overlapped =>
          MembershipOf(u)' = "ban" \/ Unbanning(u)]_vars

(* A message is stored twice for one transaction id only if a worker        *)
(* stopped between storing it and recording the response                    *)
(* (sendRoomEventCommand, withIdempotency).                                 *)
SentOnce ==
    \A m, n \in 1..Len(log) :
        LET s == log[m].subject
        IN s = log[n].subject /\ s[2] # None /\ s \notin overlapped
              /\ m \notin lost /\ n \notin lost => m = n

(* A client that repeats a request until it is answered, one at a time, is  *)
(* told the same event each time.                                           *)
AnswersAgree ==
    \A a, b \in told : a[1] = b[1] /\ a[1] \notin overlapped => a = b

(* Two events follow the same event only if the later was built before the  *)
(* earlier was stored: no order of depths hides an event that is there.     *)
ForksOverlap ==
    \A m, n \in 1..Len(log) : m < n /\ log[m].prev = log[n].prev => log[n].built < m

(* Of all orders of requests: a user who is banned stays so until an unban. *)
BansHold ==
    [][\A u \in User : MembershipOf(u) = "ban" => MembershipOf(u)' = "ban" \/ Unbanning(u)]_vars

(* "Check if a transaction has already been processed": of all orders of    *)
(* requests, a transaction id stands for one event.                         *)
OneEventPerTransaction ==
    \A a, b \in told : a[1] = b[1] => a = b

=============================================================================
