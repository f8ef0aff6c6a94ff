----------------------------- MODULE RemoteJoin -----------------------------
(***************************************************************************)
(* Joining a room through a remote server that may omit members            *)
(* (RoomJoinWorkflow), the partial-state markers in KV and D1 (tracker and *)
(* shared-servers), the snapshots of the room's state that the workflow    *)
(* persists, and what others do meanwhile: federation handlers that ingest *)
(* events of the room, deferring those the partial state cannot judge, and *)
(* the joining user's /sync.                                               *)
(*                                                                         *)
(* One room, public.  An event is a message or a membership change; what   *)
(* is no membership (create, power levels, join rules) is the one entry    *)
(* Base of a snapshot.  A position of a workflow is the statement it is    *)
(* about to run; the platform remembers the results of finished steps and  *)
(* starts an unfinished one again from its first statement.                *)
(***************************************************************************)
EXTENDS Naturals, FiniteSets

CONSTANTS Joiner,     \* local users that join through the workflow
          Member,     \* every user of the room
          Event,      \* messages and membership changes
          Base,       \* the state of the room that is no membership
          Sender, Target, Kind, \* of an event; a message has no Target
          Auth,       \* the membership events among an event's auth_events
          JoinOf,     \* the event with which a joiner joins
          Admin,      \* members with the power to kick
          First,      \* the state in an answer that omits members
          Full,       \* the state of the room before the join
          Chain,      \* membership events in the auth chains of the answers
          Delivered,  \* events that remote servers send
          Handler,    \* concurrent federation handlers
          Retries,    \* bound: how often a step is started again
          None

ASSUME Constants ==
    /\ Joiner \subseteq Member
    /\ Sender \in [Event -> Member]
    /\ Target \in [Event -> Member \cup {None}]
    /\ Kind \in [Event -> {"message", "join", "leave"}]
    /\ Auth \in [Event -> SUBSET Event]
    /\ JoinOf \in [Joiner -> Event]
    /\ First \subseteq Event \cup {Base} /\ Full \subseteq Event \cup {Base}
    /\ Chain \subseteq Event /\ Delivered \subseteq Event
    /\ Retries \in Nat
    /\ None \notin Event \cup Member \cup {"partial", "catchup_published", "complete"}
    /\ Base \notin Event
    /\ Joiner \cap Handler = {}

ASSUME Events ==
    /\ \A e \in Event : Kind[e] = "message" <=> Target[e] = None
    /\ \A e \in Event : Kind[e] = "join" => Target[e] = Sender[e]
    /\ \A u \in Joiner : Kind[JoinOf[u]] = "join" /\ Target[JoinOf[u]] = u
    /\ \A e \in (First \cup Full) \ {Base} : Kind[e] # "message"

VARIABLES
    room,      \* the row of rooms and the room's state that is no membership
    stored,    \* events: the rows
    deferred,  \* events whose row has the marker of a deferred check
    before,    \* events: the membership event the marker replaced
    decision,  \* processed_pdus
    pointer,   \* room_state: the membership event of a member
    row,       \* room_memberships: the event of a member's row
    writer,    \* per actor: the membership write it is in the middle of
    pos, attempt, omitted, todo, view, \* the workflows
    joinMark, roomMark, doneMark,      \* KV: join, room and completion marker
    meta,      \* account_data: the join metadata of a user in D1
    told       \* the joiners whose /sync has taken the completion

tables == <<room, stored, deferred, before, decision, pointer, row>>
markers == <<joinMark, roomMark, doneMark, meta>>
flow == <<pos, attempt, omitted, todo, view>>
vars == <<tables, writer, flow, markers, told>>

Actor == Joiner \cup Handler
Step == {"make_join", "create", "send_join", "remote_state", "persist",
         "mark_meta", "mark_cache", "fetch", "resync", "restore", "publish",
         "catchup_meta", "catchup_cache", "reevaluate", "settle",
         "complete_meta", "complete_cache", "clear", "notify"}
Phase == {None, "partial", "catchup_published", "complete"}
Idle == [at |-> "idle", event |-> None, seen |-> None, defer |-> FALSE,
         applies |-> FALSE]
Writing == [at : {"store", "row", "pointer"}, event : Event,
            seen : Event \cup {None}, defer : BOOLEAN, applies : BOOLEAN]

Membership(state, m) == IF state[m] = None THEN "none" ELSE Kind[state[m]]

\* checkEventAuth against the memberships of a state, with the room's rules.
Allowed(e, state) ==
    \/ Kind[e] = "join"
    \/ /\ Membership(state, Sender[e]) = "join"
       /\ Kind[e] = "message" \/ Target[e] = Sender[e] \/ Sender[e] \in Admin

Init ==
    /\ room = "unknown" /\ stored = {} /\ deferred = {}
    /\ before = [e \in Event |-> None]
    /\ decision = [e \in Event |-> "none"]
    /\ pointer = [m \in Member |-> None] /\ row = [m \in Member |-> None]
    /\ writer = [a \in Actor |-> Idle]
    /\ pos = [u \in Joiner |-> "make_join"]
    /\ attempt = [u \in Joiner |-> 0]
    /\ omitted = [u \in Joiner |-> FALSE]
    /\ todo = [u \in Joiner |-> {}]
    /\ view = [u \in Joiner |-> [m \in Member |-> None]]
    /\ joinMark = [u \in Joiner |-> None] /\ roomMark = None
    /\ doneMark = [u \in Joiner |-> FALSE] /\ meta = [u \in Joiner |-> None]
    /\ told = {}

-----------------------------------------------------------------------------
(* Membership writes.  The workflow's own join, a snapshot's membership     *)
(* events and ingested events all read the current state of the member      *)
(* first and write the event, the membership row and the state pointer      *)
(* later, in that order.                                                    *)

Seen(e) == IF Target[e] = None THEN None ELSE pointer[Target[e]]

Write(at, e, defer, applies) ==
    [at |-> at, event |-> e, seen |-> Seen(e), defer |-> defer,
     applies |-> applies]

PointTo(e) == pointer' = IF Target[e] = None THEN pointer
                         ELSE [pointer EXCEPT ![Target[e]] = e]

\* shouldApplyMembershipStateSnapshot, for the source "workflow".
SnapshotApplies(e) ==
    \/ Seen(e) \in {None, e}
    \/ Kind[e] = "join" /\ Seen(e) \in deferred

\* storeEvent: the event's row, with the marker if it is new and deferred,
\* and the state pointer.
Store(a) ==
    LET w == writer[a] IN
    /\ w.at = "store"
    /\ stored' = stored \cup {w.event}
    /\ IF w.defer /\ w.event \notin stored
         THEN /\ deferred' = deferred \cup {w.event}
              /\ before' = [before EXCEPT ![w.event] = w.seen]
         ELSE UNCHANGED <<deferred, before>>
    /\ PointTo(w.event)
    /\ writer' = [writer EXCEPT ![a] =
                    IF w.applies THEN [w EXCEPT !.at = "row"] ELSE Idle]
    /\ UNCHANGED <<room, decision, row, flow, markers, told>>

UpdateMembership(a) ==
    LET w == writer[a] IN
    /\ w.at = "row"
    /\ row' = [row EXCEPT ![Target[w.event]] = w.event]
    /\ writer' = [writer EXCEPT ![a].at = "pointer"]
    /\ UNCHANGED <<room, stored, deferred, before, decision, pointer, flow,
                   markers, told>>

UpsertRoomState(a) ==
    LET w == writer[a] IN
    /\ w.at = "pointer"
    /\ PointTo(w.event)
    /\ writer' = [writer EXCEPT ![a] = Idle]
    /\ UNCHANGED <<room, stored, deferred, before, decision, row, flow,
                   markers, told>>

-----------------------------------------------------------------------------
(* Federation handlers (pdu-ingest).  An event is judged once: its auth      *)
(* events must be there, and the state pointers must allow it.  Where they  *)
(* do not and the room's marker is in KV, it is accepted and marked as      *)
(* deferred: every failure that Allowed stands for is one of those that are *)
(* deferred.  An unknown room is created without a check.  In a room that   *)
(* is only a stub the create event alone decides, if it has come with the   *)
(* auth chain of an earlier event, and nothing passes if it has not.        *)

AllowedByCreate(e) == /\ Membership(pointer, Sender[e]) = "join"
                      /\ Target[e] \in {None, Sender[e]}

Permitted(e) == \/ room = "known" /\ Allowed(e, pointer)
                \/ room = "stub" /\ AllowedByCreate(e)

AuthEventsStored(e) == Auth[e] \subseteq stored

CanIngest(h, e) ==
    writer[h] = Idle /\ e \in Delivered /\ decision[e] = "none"

\* event_auth of the origin: an auth event is kept as history.
FetchAuthEvent(h, e) ==
    /\ CanIngest(h, e) /\ room # "unknown"
    /\ \E a \in Auth[e] \ stored :
         /\ decision[a] = "none"
         /\ stored' = stored \cup {a}
         /\ decision' = [decision EXCEPT ![a] = "accepted"]
    /\ UNCHANGED <<room, deferred, before, pointer, row, writer, flow, markers,
                   told>>

Accept(h, e) ==
    LET defer == room = "known" /\ ~Allowed(e, pointer) IN
    /\ CanIngest(h, e)
    /\ \/ room = "unknown"
       \/ AuthEventsStored(e) /\ (Permitted(e) \/ (defer /\ roomMark # None))
    /\ decision' = [decision EXCEPT ![e] = "accepted"]
    /\ room' = IF room = "unknown" THEN "stub" ELSE room
    /\ writer' = [writer EXCEPT ![h] =
                    Write("store", e, defer, Kind[e] # "message")]
    /\ UNCHANGED <<stored, deferred, before, pointer, row, flow, markers,
                   told>>

Reject(h, e) ==
    /\ CanIngest(h, e) /\ room # "unknown"
    /\ \/ ~AuthEventsStored(e)
       \/ room = "stub"
       \/ room = "known" /\ ~Allowed(e, pointer) /\ roomMark = None
    /\ decision' = [decision EXCEPT ![e] = "rejected"]
    /\ UNCHANGED <<room, stored, deferred, before, pointer, row, writer, flow,
                   markers, told>>

-----------------------------------------------------------------------------
(* The workflow.                                                            *)

At(u, p) == pos[u] = p /\ writer[u] = Idle

Arrive(u, p, entries) ==
    /\ pos' = [pos EXCEPT ![u] = p]
    /\ todo' = [todo EXCEPT ![u] = entries]
    /\ UNCHANGED <<omitted, view>>

NextStep(u, p, entries) ==
    Arrive(u, p, entries) /\ attempt' = [attempt EXCEPT ![u] = 0]

Continue(u, p, entries) == Arrive(u, p, entries) /\ UNCHANGED attempt

\* make_join at the candidates in turn: a template, or refusals only.
MakeJoin(u) ==
    /\ At(u, "make_join")
    /\ \E answer \in {"create", "failed"} : NextStep(u, answer, {})
    /\ UNCHANGED <<tables, writer, markers, told>>

CreateEvent(u) ==
    /\ At(u, "create")
    /\ NextStep(u, "send_join", {})
    /\ UNCHANGED <<tables, writer, markers, told>>

\* send_join: refused, or an answer with or without the members.
SendJoin(u) ==
    /\ At(u, "send_join")
    /\ \/ NextStep(u, "failed", {})
       \/ \E some \in BOOLEAN :
             /\ pos' = [pos EXCEPT ![u] = "remote_state"]
             /\ attempt' = [attempt EXCEPT ![u] = 0]
             /\ omitted' = [omitted EXCEPT ![u] = some]
             /\ todo' = [todo EXCEPT ![u] = IF some THEN First ELSE Full]
             /\ UNCHANGED view
    /\ UNCHANGED <<tables, writer, markers, told>>

\* persistFederationStateSnapshot: the room's stub and the auth chain, which
\* is history and sets no state ...
PersistAuthChain(u) ==
    /\ At(u, "remote_state") \/ At(u, "resync")
    /\ \E x \in Chain \ stored : stored' = stored \cup {x}
    /\ room' = IF room = "unknown" THEN "stub" ELSE room
    /\ UNCHANGED <<deferred, before, decision, pointer, row, writer, flow,
                   markers, told>>

\* ... then the state, entry by entry.
PersistSnapshot(u) ==
    /\ At(u, "remote_state") \/ At(u, "resync")
    /\ Chain \subseteq stored
    /\ \E x \in todo[u] :
         /\ todo' = [todo EXCEPT ![u] = @ \ {x}]
         /\ IF x = Base
              THEN room' = "known" /\ UNCHANGED writer
              ELSE /\ room' = IF room = "unknown" THEN "stub" ELSE room
                   /\ writer' =
                        [writer EXCEPT ![u] =
                           IF x \notin stored
                             THEN Write("store", x, FALSE, SnapshotApplies(x))
                           ELSE IF SnapshotApplies(x)
                             THEN Write("row", x, FALSE, TRUE) ELSE Idle]
    /\ UNCHANGED <<stored, deferred, before, decision, pointer, row, pos,
                   attempt, omitted, view, markers, told>>

SnapshotDone(u) == todo[u] = {} /\ Chain \subseteq stored

\* The snapshot is persisted; a partial answer needs a boundary event, the
\* first prev_event of the join.
RemoteStateDone(u) ==
    /\ At(u, "remote_state") /\ SnapshotDone(u)
    /\ \/ NextStep(u, "persist", {JoinOf[u]})
       \/ omitted[u] /\ NextStep(u, "failed", {})
    /\ UNCHANGED <<tables, writer, markers, told>>

\* The step "persist" reads the transition context and then writes.
Persist(u) ==
    /\ At(u, "persist") /\ todo[u] # {}
    /\ writer' = [writer EXCEPT ![u] = Write("store", JoinOf[u], FALSE, TRUE)]
    /\ Continue(u, "persist", {})
    /\ UNCHANGED <<tables, markers, told>>

PersistDone(u) ==
    /\ At(u, "persist") /\ todo[u] = {}
    /\ NextStep(u, IF omitted[u] THEN "mark_meta" ELSE "publish", {})
    /\ UNCHANGED <<tables, writer, markers, told>>

\* Slip: the join is flagged in KV only.
MarkMetaInCacheOnly(u) ==
    /\ At(u, "mark_meta")
    /\ Continue(u, "mark_cache", {})
    /\ UNCHANGED <<tables, writer, markers, told>>

\* mark-partial-state: D1 first, then the markers of the join and the room.
MarkMeta(u) ==
    /\ At(u, "mark_meta")
    /\ meta' = [meta EXCEPT ![u] = "partial"]
    /\ Continue(u, "mark_cache", {})
    /\ UNCHANGED <<tables, writer, joinMark, roomMark, doneMark, told>>

\* Slip: the room's marker is deleted with the join's, but not written.
MarkJoin(u, phase) ==
    /\ joinMark' = [joinMark EXCEPT ![u] = phase]
    /\ roomMark' = IF phase = None THEN None ELSE roomMark

Mark(u, phase) ==
    /\ joinMark' = [joinMark EXCEPT ![u] = phase]
    /\ roomMark' = phase

\* One of the two writes may be done alone when the step fails.
MarkPart(u) ==
    /\ At(u, "mark_cache") \/ At(u, "catchup_cache") \/ At(u, "clear")
    /\ LET phase == CASE pos[u] = "mark_cache" -> "partial"
                      [] pos[u] = "catchup_cache" -> "catchup_published"
                      [] OTHER -> None
       IN \/ joinMark' = [joinMark EXCEPT ![u] = phase] /\ UNCHANGED roomMark
          \/ roomMark' = phase /\ UNCHANGED joinMark
    /\ UNCHANGED <<tables, writer, flow, doneMark, meta, told>>

MarkCache(u) ==
    /\ At(u, "mark_cache")
    /\ Mark(u, "partial")
    /\ NextStep(u, "fetch", {})
    /\ UNCHANGED <<tables, writer, doneMark, meta, told>>

\* resync-partial-state: state_ids and state, the snapshot, the restoration.
Fetch(u) ==
    /\ At(u, "fetch")
    /\ Continue(u, "resync", Full)
    /\ UNCHANGED <<tables, writer, markers, told>>

ListMembers(u) ==
    /\ At(u, "resync") /\ SnapshotDone(u)
    /\ pos' = [pos EXCEPT ![u] = "restore"]
    /\ view' = [view EXCEPT ![u] = pointer]
    /\ todo' = [todo EXCEPT ![u] = {m \in Member : pointer[m] # None}]
    /\ UNCHANGED <<tables, writer, attempt, omitted, markers, told>>

\* A join that a deferred leave replaced is put back.
Restorable(e) == /\ e \in deferred /\ Kind[e] = "leave"
                 /\ before[e] \in stored /\ Kind[before[e]] = "join"

RestoreMember(u) ==
    /\ At(u, "restore")
    /\ \E m \in todo[u] :
         /\ todo' = [todo EXCEPT ![u] = @ \ {m}]
         /\ IF Restorable(view[u][m])
              THEN /\ pointer' = [pointer EXCEPT ![m] = before[view[u][m]]]
                   /\ row' = [row EXCEPT ![m] = before[view[u][m]]]
              ELSE UNCHANGED <<pointer, row>>
    /\ UNCHANGED <<room, stored, deferred, before, decision, writer, pos,
                   attempt, omitted, view, markers, told>>

RestoreDone(u) ==
    /\ At(u, "restore") /\ todo[u] = {}
    /\ NextStep(u, "publish", {})
    /\ UNCHANGED <<tables, writer, markers, told>>

\* publish-device-lists only reads these tables; it catches its errors.
Publish(u) ==
    /\ At(u, "publish")
    /\ NextStep(u, IF omitted[u] THEN "catchup_meta" ELSE "notify", {})
    /\ UNCHANGED <<tables, writer, markers, told>>

CatchupMeta(u) ==
    /\ At(u, "catchup_meta")
    /\ meta' = [meta EXCEPT ![u] = "catchup_published"]
    /\ Continue(u, "catchup_cache", {})
    /\ UNCHANGED <<tables, writer, joinMark, roomMark, doneMark, told>>

CatchupCache(u) ==
    /\ At(u, "catchup_cache")
    /\ Mark(u, "catchup_published")
    /\ NextStep(u, "reevaluate", {})
    /\ UNCHANGED <<tables, writer, doneMark, meta, told>>

\* Slip: the deferred membership events only.
ReevaluateMemberships(u) ==
    /\ At(u, "reevaluate")
    /\ pos' = [pos EXCEPT ![u] = "settle"]
    /\ todo' = [todo EXCEPT ![u] = {e \in deferred : Target[e] # None}]
    /\ view' = [view EXCEPT ![u] = pointer]
    /\ UNCHANGED <<tables, writer, attempt, omitted, markers, told>>

\* finalize-partial-state: the deferred events are judged against the state
\* that is current when the step begins ...
Reevaluate(u) ==
    /\ At(u, "reevaluate")
    /\ pos' = [pos EXCEPT ![u] = "settle"]
    /\ todo' = [todo EXCEPT ![u] = deferred]
    /\ view' = [view EXCEPT ![u] = pointer]
    /\ UNCHANGED <<tables, writer, attempt, omitted, markers, told>>

\* Slip: an event that is not allowed by now waits until it is.
SettleAllowed(u) ==
    /\ At(u, "settle")
    /\ \E e \in todo[u] :
         /\ Allowed(e, view[u])
         /\ todo' = [todo EXCEPT ![u] = @ \ {e}]
         /\ deferred' = deferred \ {e}
         /\ before' = [before EXCEPT ![e] = None]
         /\ pointer' = IF Target[e] = None THEN pointer
                       ELSE [pointer EXCEPT ![Target[e]] = e]
    /\ UNCHANGED <<room, stored, row, decision, writer, pos, attempt, omitted, view,
                   markers, told>>

\* ... one by one: the marker is cleared and the event is the state, or the
\* decision is reversed and the event it had replaced is the state again.
Settle(u) ==
    /\ At(u, "settle")
    /\ \E e \in todo[u] :
         LET m == Target[e]
             current == m # None /\ view[u][m] = e
         IN
         /\ todo' = [todo EXCEPT ![u] = @ \ {e}]
         /\ IF Allowed(e, view[u])
              THEN /\ deferred' = deferred \ {e}
                   /\ before' = [before EXCEPT ![e] = None]
                   /\ pointer' = IF m = None \/ current THEN pointer
                                 ELSE [pointer EXCEPT ![m] = e]
                   /\ UNCHANGED decision
              ELSE /\ decision' = [decision EXCEPT ![e] = "rejected"]
                   /\ pointer' = IF current
                                   THEN [pointer EXCEPT ![m] = before[e]]
                                   ELSE pointer
                   /\ UNCHANGED <<deferred, before>>
    /\ UNCHANGED <<room, stored, row, writer, pos, attempt, omitted, view,
                   markers, told>>

SettleDone(u) ==
    /\ At(u, "settle") /\ todo[u] = {}
    /\ Continue(u, "complete_meta", {})
    /\ UNCHANGED <<tables, writer, markers, told>>

\* Slip: the completion is not kept in D1.
CompleteInCacheOnly(u) ==
    /\ At(u, "complete_meta")
    /\ Continue(u, "complete_cache", {})
    /\ UNCHANGED <<tables, writer, markers, told>>

CompleteMeta(u) ==
    /\ At(u, "complete_meta")
    /\ meta' = [meta EXCEPT ![u] = "complete"]
    /\ Continue(u, "complete_cache", {})
    /\ UNCHANGED <<tables, writer, joinMark, roomMark, doneMark, told>>

CompleteCache(u) ==
    /\ At(u, "complete_cache")
    /\ doneMark' = [doneMark EXCEPT ![u] = TRUE]
    /\ Continue(u, "clear", {})
    /\ UNCHANGED <<tables, writer, joinMark, roomMark, meta, told>>

Clear(u) ==
    /\ At(u, "clear")
    /\ Mark(u, None)
    /\ NextStep(u, "notify", {})
    /\ UNCHANGED <<tables, writer, doneMark, meta, told>>

\* get-members and the batches only read these tables.
Notify(u) ==
    /\ At(u, "notify")
    /\ NextStep(u, "joined", {})
    /\ UNCHANGED <<tables, writer, markers, told>>

\* An unfinished step fails or loses its worker anywhere: it starts again,
\* or, after the last retry, the workflow answers that it failed.
StepStart(p) ==
    CASE p = "mark_cache" -> "mark_meta"
      [] p \in {"resync", "restore"} -> "fetch"
      [] p = "catchup_cache" -> "catchup_meta"
      [] p \in {"settle", "complete_meta", "complete_cache", "clear"}
           -> "reevaluate"
      [] OTHER -> p

\* Slip: a step goes on with the entries it had not reached.
StepEntriesLeft(u) == IF StepStart(pos[u]) = pos[u] THEN todo[u] ELSE {}

StepEntries(u) ==
    CASE pos[u] = "remote_state" -> IF omitted[u] THEN First ELSE Full
      [] pos[u] = "persist" -> {JoinOf[u]}
      [] OTHER -> {}

StepFails(u) ==
    /\ pos[u] \in Step
    /\ writer' = [writer EXCEPT ![u] = Idle]
    /\ IF attempt[u] < Retries
         THEN /\ Arrive(u, StepStart(pos[u]), StepEntries(u))
              /\ attempt' = [attempt EXCEPT ![u] = @ + 1]
         ELSE NextStep(u, "failed", {})
    /\ UNCHANGED <<tables, markers, told>>

-----------------------------------------------------------------------------
(* KV entries outlive the workflow that wrote them (their time to live is   *)
(* longer than its steps take) and expire some time after it.               *)

Ended(u) == pos[u] \in {"joined", "failed"}

Expire(u) ==
    /\ Ended(u)
    /\ \/ /\ joinMark[u] # None
          /\ joinMark' = [joinMark EXCEPT ![u] = None]
          /\ UNCHANGED <<roomMark, doneMark>>
       \/ /\ doneMark[u]
          /\ doneMark' = [doneMark EXCEPT ![u] = FALSE]
          /\ UNCHANGED <<joinMark, roomMark>>
       \/ /\ roomMark # None /\ \A v \in Joiner : Ended(v)
          /\ roomMark' = None
          /\ UNCHANGED <<joinMark, doneMark>>
    /\ UNCHANGED <<tables, writer, flow, meta, told>>

(* /sync of a joiner that does not lazy-load: the room is left out while its *)
(* status in KV, or else in D1, is partial, unless the completion is there, *)
(* which is taken from KV or else from D1.                                  *)

Partial(u) == \/ joinMark[u] \in {"partial", "catchup_published"}
              \/ joinMark[u] = None /\ meta[u] \in {"partial", "catchup_published"}

TakeCompletion(u) ==
    /\ Membership(row, u) = "join"
    /\ doneMark[u] \/ meta[u] = "complete"
    /\ doneMark' = [doneMark EXCEPT ![u] = FALSE]
    /\ meta' = [meta EXCEPT ![u] = IF doneMark[u] THEN @ ELSE None]
    /\ told' = told \cup {u}
    /\ UNCHANGED <<tables, writer, flow, joinMark, roomMark>>

-----------------------------------------------------------------------------
MembershipWrite(a) == Store(a) \/ UpdateMembership(a) \/ UpsertRoomState(a)

Advance(u) ==
    \/ MakeJoin(u) \/ CreateEvent(u) \/ SendJoin(u)
    \/ PersistAuthChain(u) \/ PersistSnapshot(u) \/ RemoteStateDone(u)
    \/ Persist(u) \/ PersistDone(u)
    \/ MarkMeta(u) \/ MarkCache(u)
    \/ Fetch(u) \/ ListMembers(u) \/ RestoreMember(u) \/ RestoreDone(u)
    \/ Publish(u) \/ CatchupMeta(u) \/ CatchupCache(u)
    \/ Reevaluate(u) \/ Settle(u) \/ SettleDone(u)
    \/ CompleteMeta(u) \/ CompleteCache(u) \/ Clear(u) \/ Notify(u)

Next ==
    \/ \E a \in Actor : MembershipWrite(a)
    \/ \E h \in Handler, e \in Event :
          FetchAuthEvent(h, e) \/ Accept(h, e) \/ Reject(h, e)
    \/ \E u \in Joiner : Advance(u) \/ MarkPart(u) \/ StepFails(u) \/ Expire(u)
                      \/ TakeCompletion(u)

Spec == Init /\ [][Next]_vars

(* Fairness.  The platform runs a workflow and a handler to their end; the  *)
(* client polls again and again.  Nothing makes a step fail, an entry       *)
(* expire or a remote server send.                                          *)
FairSpec ==
    /\ Spec
    /\ \A a \in Actor : WF_vars(MembershipWrite(a))
    /\ \A u \in Joiner : WF_vars(Advance(u)) /\ WF_vars(TakeCompletion(u))

-----------------------------------------------------------------------------
(* Properties.                                                              *)

Entries(p) == CASE p \in {"remote_state", "resync"} -> Event \cup {Base}
                [] p \in {"persist", "settle"} -> Event
                [] p = "restore" -> Member
                [] OTHER -> {}

TablesOK ==
    /\ room \in {"unknown", "stub", "known"}
    /\ stored \subseteq Event /\ deferred \subseteq Event
    /\ before \in [Event -> Event \cup {None}]
    /\ decision \in [Event -> {"none", "accepted", "rejected"}]
    /\ pointer \in [Member -> Event \cup {None}]
    /\ row \in [Member -> Event \cup {None}]

FlowOK ==
    /\ pos \in [Joiner -> Step \cup {"joined", "failed"}]
    /\ attempt \in [Joiner -> 0..Retries]
    /\ omitted \in [Joiner -> BOOLEAN]
    /\ todo \in [Joiner -> SUBSET (Event \cup {Base} \cup Member)]
    /\ \A u \in Joiner : todo[u] \subseteq Entries(pos[u])
    /\ view \in [Joiner -> [Member -> Event \cup {None}]]

MarkersOK ==
    /\ joinMark \in [Joiner -> Phase] /\ roomMark \in Phase
    /\ doneMark \in [Joiner -> BOOLEAN] /\ meta \in [Joiner -> Phase]

(* Every variable has the values of its table, marker or position.          *)
TypeOK ==
    /\ TablesOK /\ FlowOK /\ MarkersOK
    /\ writer \in [Actor -> {Idle} \cup Writing]
    /\ told \subseteq Joiner

(* From the first marker until the deferred events have been judged.        *)
Catching(u) ==
    \/ pos[u] \in {"fetch", "resync", "restore", "catchup_meta",
                   "catchup_cache", "reevaluate", "settle", "complete_meta"}
    \/ pos[u] = "publish" /\ omitted[u]

(* While a join catches up and its completion is not recorded, the marker   *)
(* that makes handlers defer instead of reject is in place, whatever is     *)
(* started again (RoomJoinWorkflow marks before it fetches, and clears      *)
(* after it has judged and recorded).  Of a room with one local joiner.     *)
Recorded(u) == meta[u] = "complete" \/ u \in told

PartialRoomIsMarked ==
    \A u \in Joiner : Catching(u) /\ ~Recorded(u) => roomMark # None

(* A room that is flagged as partial for its joiner stays flagged, through  *)
(* failures and through the expiry of the KV entries, until the completion  *)
(* is recorded; only then may /sync show it as any other room.              *)
FlaggedUntilComplete ==
    [][\A u \in Joiner :
          Partial(u) /\ ~Partial(u)' => Recorded(u) \/ Recorded(u)']_vars

(* A completed join is told: the completion waits in KV or in D1 until a    *)
(* /sync of the joiner has taken it, although the KV entry may expire first.*)
CompletionIsKept ==
    \A u \in Joiner : omitted[u] /\ pos[u] \in {"clear", "notify", "joined"}
                        => doneMark[u] \/ Recorded(u)

(* An event whose check was deferred before the join is finalised is judged *)
(* again, unless the workflow fails.                                        *)
Settled(e) == e \notin deferred \/ decision[e] = "rejected"
DeferredIsJudged ==
    \A e \in Event, u \in Joiner :
        (e \in deferred /\ Catching(u) /\ pos[u] \notin {"settle", "complete_meta"})
            ~> (Settled(e) \/ pos[u] = "failed")

(* On the way there no step loses it: it waits for the judgement of every   *)
(* join that catches up, also while that judgement goes through the others, *)
(* until it is settled by one of them.                                      *)
Due(u, e) ==
    /\ e \in deferred /\ Catching(u) /\ pos[u] # "complete_meta"
    /\ pos[u] = "settle" => e \in todo[u]

DeferredStaysDue ==
    [][\A u \in Joiner, e \in Event :
          Due(u, e) /\ ~Due(u, e)' => Settled(e)' \/ pos'[u] = "failed"]_vars

(* Once everybody has joined and nothing is being written, the membership   *)
(* rows are the state pointers in another form ("denormalized for fast      *)
(* lookups", schema.sql).                                                   *)
MembershipsAgree ==
    (\A a \in Actor : writer[a] = Idle) /\ (\A u \in Joiner : pos[u] = "joined")
        => row = pointer

(* A join that succeeds is in effect, in the membership row that /sync      *)
(* reads and in the state by which events are judged, whatever step was run *)
(* twice and although the snapshots hold what the joiner was before.        *)
InEffect(u) == row[u] = JoinOf[u] /\ pointer[u] = JoinOf[u]
JoinIsInEffect == \A u \in Joiner : pos[u] = "joined" => InEffect(u)

=============================================================================
