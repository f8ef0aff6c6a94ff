-------------------------- MODULE RemoteJoinProofs --------------------------
(***************************************************************************)
(* For every room, every set of joiners and handlers and every number of   *)
(* retries: the completion of a partial join is kept until it is told, and *)
(* a partial join stays flagged until then.  With one local joiner the     *)
(* room's marker is there whenever its join is catching up.  A join that   *)
(* ended well is in the row and the state, if nobody else changed the      *)
(* joiner's membership meanwhile.                                          *)
(***************************************************************************)
EXTENDS RemoteJoin, TLAPS

USE DEF tables, flow, markers

-----------------------------------------------------------------------------
(* Types.                                                                   *)

LEMMA ArriveType ==
  ASSUME FlowOK, NEW u \in Joiner,
         NEW p \in Step \cup {"joined", "failed"},
         NEW entries \in SUBSET (Event \cup {Base} \cup Member),
         entries \subseteq Entries(p),
         Arrive(u, p, entries),
         attempt' \in [Joiner -> 0..Retries]
  PROVE  FlowOK'
<1>1. pos' \in [Joiner -> Step \cup {"joined", "failed"}]
  BY DEF Arrive, FlowOK
<1>2. todo' \in [Joiner -> SUBSET (Event \cup {Base} \cup Member)]
  BY DEF Arrive, FlowOK
<1>3. ASSUME NEW v \in Joiner PROVE todo'[v] \subseteq Entries(pos'[v])
  <2>1. CASE v = u
    BY <2>1 DEF Arrive, FlowOK
  <2>2. CASE v # u
    BY <2>2 DEF Arrive, FlowOK
  <2> QED BY <2>1, <2>2
<1> QED BY <1>1, <1>2, <1>3 DEF Arrive, FlowOK, Entries

LEMMA NextStepType ==
  ASSUME FlowOK, NEW u \in Joiner,
         NEW p \in Step \cup {"joined", "failed"},
         NEW entries \in SUBSET (Event \cup {Base} \cup Member),
         entries \subseteq Entries(p),
         NextStep(u, p, entries)
  PROVE  FlowOK'
<1>1. attempt' \in [Joiner -> 0..Retries]
  BY Constants DEF NextStep, FlowOK
<1> QED BY <1>1, ArriveType DEF NextStep

LEMMA ContinueType ==
  ASSUME FlowOK, NEW u \in Joiner,
         NEW p \in Step \cup {"joined", "failed"},
         NEW entries \in SUBSET (Event \cup {Base} \cup Member),
         entries \subseteq Entries(p),
         Continue(u, p, entries)
  PROVE  FlowOK'
<1>1. attempt' \in [Joiner -> 0..Retries]
  BY DEF Continue, FlowOK
<1> QED BY <1>1, ArriveType DEF Continue

\* A member of a workflow's list is worked off, or the list and the view of
\* the state are read.
LEMMA WorkedOffType ==
  ASSUME FlowOK, NEW u \in Joiner, NEW some,
         todo' = [todo EXCEPT ![u] = @ \ some],
         UNCHANGED <<pos, attempt, omitted, view>>
  PROVE  FlowOK'
<1>1. todo' \in [Joiner -> SUBSET (Event \cup {Base} \cup Member)]
  BY DEF FlowOK
<1>2. ASSUME NEW v \in Joiner PROVE todo'[v] \subseteq todo[v]
  BY DEF FlowOK
<1> QED BY <1>1, <1>2 DEF FlowOK, Entries

LEMMA ListedType ==
  ASSUME FlowOK, TablesOK, NEW u \in Joiner, NEW p \in {"restore", "settle"},
         NEW entries \in SUBSET (Event \cup Member),
         p = "restore" => entries \subseteq Member,
         p = "settle" => entries \subseteq Event,
         pos' = [pos EXCEPT ![u] = p],
         todo' = [todo EXCEPT ![u] = entries],
         view' = [view EXCEPT ![u] = pointer],
         UNCHANGED <<attempt, omitted>>
  PROVE  FlowOK'
<1>1. pos' \in [Joiner -> Step \cup {"joined", "failed"}]
  BY DEF FlowOK, Step
<1>2. todo' \in [Joiner -> SUBSET (Event \cup {Base} \cup Member)]
  BY DEF FlowOK
<1>3. view' \in [Joiner -> [Member -> Event \cup {None}]]
  BY DEF FlowOK, TablesOK
<1>4. ASSUME NEW v \in Joiner PROVE todo'[v] \subseteq Entries(pos'[v])
  <2>1. CASE v = u
    BY <2>1 DEF FlowOK, Entries
  <2>2. CASE v # u
    BY <2>2 DEF FlowOK
  <2> QED BY <2>1, <2>2
<1> QED BY <1>1, <1>2, <1>3, <1>4 DEF FlowOK, Entries

LEMMA SeenType ==
  ASSUME TablesOK, NEW e \in Event PROVE Seen(e) \in Event \cup {None}
BY Constants DEF TablesOK, Seen

LEMMA WriteType ==
  ASSUME TablesOK, NEW e \in Event, NEW at \in {"store", "row", "pointer"},
         NEW defer \in BOOLEAN, NEW applies \in BOOLEAN
  PROVE  Write(at, e, defer, applies) \in Writing
BY SeenType DEF Write, Writing

LEMMA PointType ==
  ASSUME TablesOK, NEW e \in Event, PointTo(e)
  PROVE  pointer' \in [Member -> Event \cup {None}]
BY DEF TablesOK, PointTo

LEMMA WriterRecord ==
  ASSUME NEW w \in {Idle} \cup Writing, w.at # "idle"
  PROVE  w \in Writing
BY DEF Idle, Writing

LEMMA StoreType == ASSUME TypeOK, NEW a \in Actor, Store(a) PROVE TypeOK'
<1> DEFINE w == writer[a]
<1>1. w \in Writing
  BY WriterRecord DEF TypeOK, Store
<1>2. w.event \in Event /\ w.seen \in Event \cup {None}
  BY <1>1 DEF Writing
<1>3. pointer' \in [Member -> Event \cup {None}]
  BY <1>2, PointType DEF TypeOK, Store
<1>4. before' \in [Event -> Event \cup {None}]
  BY <1>2 DEF TypeOK, TablesOK, Store
<1>5. TablesOK'
  BY <1>2, <1>3, <1>4 DEF TypeOK, TablesOK, Store
<1>6. [w EXCEPT !.at = "row"] \in Writing
  BY <1>1 DEF Writing
<1>7. writer' \in [Actor -> {Idle} \cup Writing]
  BY <1>6 DEF TypeOK, Store
<1> QED BY <1>5, <1>7 DEF TypeOK, FlowOK, MarkersOK, Store, Entries

LEMMA UpdateMembershipType ==
  ASSUME TypeOK, NEW a \in Actor, UpdateMembership(a) PROVE TypeOK'
<1> DEFINE w == writer[a]
<1>1. w \in Writing
  BY WriterRecord DEF TypeOK, UpdateMembership
<1>2. row' \in [Member -> Event \cup {None}]
  BY <1>1 DEF TypeOK, TablesOK, UpdateMembership, Writing
<1>3. [w EXCEPT !.at = "pointer"] \in Writing
  BY <1>1 DEF Writing
<1>4. writer' \in [Actor -> {Idle} \cup Writing]
  BY <1>3 DEF TypeOK, UpdateMembership
<1> QED BY <1>2, <1>4 DEF TypeOK, TablesOK, FlowOK, MarkersOK, UpdateMembership, Entries

LEMMA UpsertRoomStateType ==
  ASSUME TypeOK, NEW a \in Actor, UpsertRoomState(a) PROVE TypeOK'
<1> DEFINE w == writer[a]
<1>1. w \in Writing
  BY WriterRecord DEF TypeOK, UpsertRoomState
<1>2. pointer' \in [Member -> Event \cup {None}]
  BY <1>1, PointType DEF TypeOK, UpsertRoomState, Writing
<1>3. writer' \in [Actor -> {Idle} \cup Writing]
  BY DEF TypeOK, UpsertRoomState
<1> QED BY <1>2, <1>3 DEF TypeOK, TablesOK, FlowOK, MarkersOK, UpsertRoomState, Entries

LEMMA HandlerType ==
  ASSUME TypeOK, NEW h \in Handler, NEW e \in Event,
         FetchAuthEvent(h, e) \/ Accept(h, e) \/ Reject(h, e)
  PROVE  TypeOK'
<1>1. CASE FetchAuthEvent(h, e)
  <2>1. PICK a \in Auth[e] \ stored :
            /\ stored' = stored \cup {a}
            /\ decision' = [decision EXCEPT ![a] = "accepted"]
    BY <1>1 DEF FetchAuthEvent
  <2>2. a \in Event
    BY Constants
  <2>3. TablesOK'
    BY <1>1, <2>1, <2>2 DEF FetchAuthEvent, TypeOK, TablesOK
  <2> QED BY <1>1, <2>3 DEF FetchAuthEvent, TypeOK, FlowOK, MarkersOK, Entries
<1>2. CASE Accept(h, e)
  <2>1. Write("store", e, room = "known" /\ ~Allowed(e, pointer), Kind[e] # "message")
           \in Writing
    BY WriteType DEF TypeOK
  <2>2. writer' \in [Actor -> {Idle} \cup Writing]
    BY <1>2, <2>1 DEF Accept, TypeOK, Actor
  <2> QED BY <1>2, <2>2 DEF Accept, TypeOK, TablesOK, FlowOK, MarkersOK, Entries
<1>3. CASE Reject(h, e)
  BY <1>3 DEF Reject, TypeOK, TablesOK, FlowOK, MarkersOK, Entries
<1> QED BY <1>1, <1>2, <1>3

(* Where a step of a workflow may leave it.                                 *)
LEMMA UnchangedTables == TablesOK /\ UNCHANGED tables => TablesOK'
BY DEF TablesOK

LEMMA UnchangedFlow == FlowOK /\ UNCHANGED flow => FlowOK'
BY DEF FlowOK, Entries

LEMMA UnchangedMarkers == MarkersOK /\ UNCHANGED markers => MarkersOK'
BY DEF MarkersOK

LEMMA NoEntries ==
  {} \in SUBSET (Event \cup {Base} \cup Member) /\ \A p : {} \subseteq Entries(p)
OBVIOUS

\* Steps that only move the workflow.
LEMMA MovesType ==
  ASSUME TypeOK, NEW u \in Joiner,
         \/ MakeJoin(u) \/ CreateEvent(u) \/ RemoteStateDone(u) \/ PersistDone(u)
         \/ Fetch(u) \/ RestoreDone(u) \/ Publish(u) \/ SettleDone(u) \/ Notify(u)
  PROVE  TypeOK'
<1>1. FlowOK'
  <2>1. CASE MakeJoin(u)
    BY <2>1, NoEntries, NextStepType DEF MakeJoin, TypeOK, Step
  <2>2. CASE CreateEvent(u)
    BY <2>2, NoEntries, NextStepType DEF CreateEvent, TypeOK, Step
  <2>3. CASE RemoteStateDone(u)
    <3>1. CASE NextStep(u, "persist", {JoinOf[u]})
      <4>1. {JoinOf[u]} \subseteq Entries("persist")
        BY Constants DEF Entries
      <4> QED BY <3>1, <4>1, Constants, NextStepType DEF TypeOK, Step
    <3>2. CASE NextStep(u, "failed", {})
      BY <3>2, NoEntries, NextStepType DEF TypeOK, Step
    <3> QED BY <2>3, <3>1, <3>2 DEF RemoteStateDone
  <2>4. CASE PersistDone(u)
    BY <2>4, NoEntries, NextStepType DEF PersistDone, TypeOK, Step
  <2>5. CASE Fetch(u)
    <3>1. Full \subseteq Entries("resync")
      BY Constants DEF Entries
    <3> QED BY <2>5, <3>1, Constants, ContinueType DEF Fetch, TypeOK, Step
  <2>6. CASE RestoreDone(u)
    BY <2>6, NoEntries, NextStepType DEF RestoreDone, TypeOK, Step
  <2>7. CASE Publish(u)
    BY <2>7, NoEntries, NextStepType DEF Publish, TypeOK, Step
  <2>8. CASE SettleDone(u)
    BY <2>8, NoEntries, ContinueType DEF SettleDone, TypeOK, Step
  <2>9. CASE Notify(u)
    BY <2>9, NoEntries, NextStepType DEF Notify, TypeOK, Step
  <2> QED BY <2>1, <2>2, <2>3, <2>4, <2>5, <2>6, <2>7, <2>8, <2>9
<1>2. UNCHANGED <<tables, writer, markers, told>>
  BY DEF MakeJoin, CreateEvent, RemoteStateDone, PersistDone, Fetch, RestoreDone,
         Publish, SettleDone, Notify
<1> QED BY <1>1, <1>2, UnchangedTables, UnchangedMarkers DEF TypeOK

LEMMA SendJoinType == ASSUME TypeOK, NEW u \in Joiner, SendJoin(u) PROVE TypeOK'
<1>1. CASE NextStep(u, "failed", {})
  <2>1. FlowOK'
    BY <1>1, NoEntries, NextStepType DEF TypeOK, Step
  <2> QED BY <2>1, UnchangedTables, UnchangedMarkers DEF SendJoin, TypeOK
<1>2. ASSUME NEW some \in BOOLEAN,
             pos' = [pos EXCEPT ![u] = "remote_state"],
             attempt' = [attempt EXCEPT ![u] = 0],
             omitted' = [omitted EXCEPT ![u] = some],
             todo' = [todo EXCEPT ![u] = IF some THEN First ELSE Full],
             UNCHANGED view
      PROVE  TypeOK'
  <2>1. First \cup Full \subseteq Entries("remote_state")
    BY Constants DEF Entries
  <2>2. \A v \in Joiner : todo'[v] \subseteq Entries(pos'[v])
    BY <1>2, <2>1 DEF TypeOK, FlowOK
  <2>3. todo' \in [Joiner -> SUBSET (Event \cup {Base} \cup Member)]
    BY <1>2, Constants DEF TypeOK, FlowOK
  <2>4. FlowOK'
    BY <1>2, <2>2, <2>3, Constants DEF TypeOK, FlowOK, Step, Entries
  <2> QED BY <2>4, UnchangedTables, UnchangedMarkers DEF SendJoin, TypeOK
<1> QED BY <1>1, <1>2 DEF SendJoin

LEMMA PersistSnapshotType ==
  ASSUME TypeOK, NEW u \in Joiner, PersistSnapshot(u) PROVE TypeOK'
<1>1. PICK x \in todo[u] :
         /\ todo' = [todo EXCEPT ![u] = @ \ {x}]
         /\ IF x = Base
              THEN room' = "known" /\ UNCHANGED writer
              ELSE /\ room' = IF room = "unknown" THEN "stub" ELSE room
                   /\ writer' =
                        [writer EXCEPT ![u] =
                           IF x \notin stored
                             THEN Write("store", x, FALSE, SnapshotApplies(x))
                           ELSE IF SnapshotApplies(x)
                             THEN Write("row", x, FALSE, TRUE) ELSE Idle]
  BY DEF PersistSnapshot
<1>2. x \in Event \cup {Base}
  BY DEF TypeOK, FlowOK, PersistSnapshot, At, Entries
<1>3. TablesOK'
  BY <1>1 DEF PersistSnapshot, TypeOK, TablesOK
<1>4. FlowOK'
  BY <1>1, WorkedOffType DEF PersistSnapshot, TypeOK
<1>5. writer' \in [Actor -> {Idle} \cup Writing]
  <2>1. CASE x = Base
    BY <1>1, <2>1 DEF TypeOK
  <2>2. CASE x # Base
    <3>1. SnapshotApplies(x) \in BOOLEAN
      BY DEF SnapshotApplies
    <3>2. /\ Write("store", x, FALSE, SnapshotApplies(x)) \in Writing
          /\ Write("row", x, FALSE, TRUE) \in Writing
      BY <1>2, <2>2, <3>1, WriteType DEF TypeOK
    <3> QED BY <1>1, <2>2, <3>2 DEF TypeOK
  <2> QED BY <2>1, <2>2
<1> QED BY <1>3, <1>4, <1>5, UnchangedMarkers DEF PersistSnapshot, TypeOK

LEMMA PersistAuthChainType ==
  ASSUME TypeOK, NEW u \in Joiner, PersistAuthChain(u) PROVE TypeOK'
<1>1. TablesOK'
  BY Constants DEF PersistAuthChain, TypeOK, TablesOK
<1> QED BY <1>1, UnchangedFlow, UnchangedMarkers DEF PersistAuthChain, TypeOK

LEMMA PersistType == ASSUME TypeOK, NEW u \in Joiner, Persist(u) PROVE TypeOK'
<1>1. FlowOK'
  BY NoEntries, ContinueType DEF Persist, TypeOK, Step
<1>2. Write("store", JoinOf[u], FALSE, TRUE) \in Writing
  BY Constants, WriteType DEF TypeOK
<1> QED BY <1>1, <1>2, UnchangedTables, UnchangedMarkers DEF Persist, TypeOK

\* Steps that write markers.
LEMMA MarksType ==
  ASSUME TypeOK, NEW u \in Joiner,
         \/ MarkMeta(u) \/ MarkCache(u) \/ CatchupMeta(u) \/ CatchupCache(u)
         \/ CompleteMeta(u) \/ CompleteCache(u) \/ Clear(u)
  PROVE  TypeOK'
<1>1. FlowOK'
  <2>1. CASE MarkMeta(u)
    BY <2>1, NoEntries, ContinueType DEF MarkMeta, TypeOK, Step
  <2>2. CASE MarkCache(u)
    BY <2>2, NoEntries, NextStepType DEF MarkCache, TypeOK, Step
  <2>3. CASE CatchupMeta(u)
    BY <2>3, NoEntries, ContinueType DEF CatchupMeta, TypeOK, Step
  <2>4. CASE CatchupCache(u)
    BY <2>4, NoEntries, NextStepType DEF CatchupCache, TypeOK, Step
  <2>5. CASE CompleteMeta(u)
    BY <2>5, NoEntries, ContinueType DEF CompleteMeta, TypeOK, Step
  <2>6. CASE CompleteCache(u)
    BY <2>6, NoEntries, ContinueType DEF CompleteCache, TypeOK, Step
  <2>7. CASE Clear(u)
    BY <2>7, NoEntries, NextStepType DEF Clear, TypeOK, Step
  <2> QED BY <2>1, <2>2, <2>3, <2>4, <2>5, <2>6, <2>7
<1>2. MarkersOK'
  BY DEF MarkMeta, MarkCache, CatchupMeta, CatchupCache, CompleteMeta, CompleteCache,
         Clear, Mark, TypeOK, MarkersOK, Phase
<1>3. UNCHANGED <<tables, writer, told>>
  BY DEF MarkMeta, MarkCache, CatchupMeta, CatchupCache, CompleteMeta, CompleteCache,
         Clear
<1> QED BY <1>1, <1>2, <1>3, UnchangedTables DEF TypeOK

LEMMA ListsType ==
  ASSUME TypeOK, NEW u \in Joiner, ListMembers(u) \/ Reevaluate(u)
  PROVE  TypeOK'
<1>1. CASE ListMembers(u)
  <2>1. FlowOK'
    <3> DEFINE members == {m \in Member : pointer[m] # None}
    <3>1. members \in SUBSET (Event \cup Member) /\ members \subseteq Member
      OBVIOUS
    <3> QED BY <1>1, <3>1, ListedType DEF ListMembers, TypeOK
  <2> QED BY <1>1, <2>1, UnchangedTables, UnchangedMarkers DEF ListMembers, TypeOK
<1>2. CASE Reevaluate(u)
  <2>1. FlowOK'
    <3>1. deferred \in SUBSET (Event \cup Member) /\ deferred \subseteq Event
      BY DEF TypeOK, TablesOK
    <3> QED BY <1>2, <3>1, ListedType DEF Reevaluate, TypeOK
  <2> QED BY <1>2, <2>1, UnchangedTables, UnchangedMarkers DEF Reevaluate, TypeOK
<1> QED BY <1>1, <1>2

LEMMA RestoreMemberType ==
  ASSUME TypeOK, NEW u \in Joiner, RestoreMember(u) PROVE TypeOK'
<1>1. PICK m \in todo[u] :
         /\ todo' = [todo EXCEPT ![u] = @ \ {m}]
         /\ IF Restorable(view[u][m])
              THEN /\ pointer' = [pointer EXCEPT ![m] = before[view[u][m]]]
                   /\ row' = [row EXCEPT ![m] = before[view[u][m]]]
              ELSE UNCHANGED <<pointer, row>>
  BY DEF RestoreMember
<1>2. Restorable(view[u][m]) => before[view[u][m]] \in Event
  BY DEF Restorable, TypeOK, TablesOK
<1>3. TablesOK'
  BY <1>1, <1>2 DEF RestoreMember, TypeOK, TablesOK
<1>4. FlowOK'
  BY <1>1, WorkedOffType DEF RestoreMember, TypeOK
<1> QED BY <1>3, <1>4, UnchangedMarkers DEF RestoreMember, TypeOK

LEMMA SettleType == ASSUME TypeOK, NEW u \in Joiner, Settle(u) PROVE TypeOK'
<1>1. PICK e \in todo[u] :
         /\ todo' = [todo EXCEPT ![u] = @ \ {e}]
         /\ IF Allowed(e, view[u])
              THEN /\ deferred' = deferred \ {e}
                   /\ before' = [before EXCEPT ![e] = None]
                   /\ pointer' = IF Target[e] = None
                                     \/ (Target[e] # None /\ view[u][Target[e]] = e)
                                   THEN pointer
                                   ELSE [pointer EXCEPT ![Target[e]] = e]
                   /\ UNCHANGED decision
              ELSE /\ decision' = [decision EXCEPT ![e] = "rejected"]
                   /\ pointer' = IF Target[e] # None /\ view[u][Target[e]] = e
                                   THEN [pointer EXCEPT ![Target[e]] = before[e]]
                                   ELSE pointer
                   /\ UNCHANGED <<deferred, before>>
  BY DEF Settle
<1>2. e \in Event
  BY DEF TypeOK, FlowOK, Settle, At, Entries
<1>3. TablesOK'
  BY <1>1, <1>2 DEF Settle, TypeOK, TablesOK
<1>4. FlowOK'
  BY <1>1, WorkedOffType DEF Settle, TypeOK
<1> QED BY <1>3, <1>4, UnchangedMarkers DEF Settle, TypeOK

LEMMA StepFailsType == ASSUME TypeOK, NEW u \in Joiner, StepFails(u) PROVE TypeOK'
<1>1. FlowOK'
  <2>1. CASE attempt[u] < Retries
    <3>1. attempt' \in [Joiner -> 0..Retries]
      <4>1. attempt[u] + 1 \in 0..Retries
        BY <2>1, Constants DEF TypeOK, FlowOK
      <4>2. attempt' = [attempt EXCEPT ![u] = @ + 1]
        BY <2>1 DEF StepFails
      <4> QED BY <4>1, <4>2 DEF TypeOK, FlowOK
    <3>2. StepStart(pos[u]) \in Step
      BY DEF StepFails, StepStart, Step
    <3>3. /\ StepEntries(u) \in SUBSET (Event \cup {Base} \cup Member)
          /\ StepEntries(u) \subseteq Entries(StepStart(pos[u]))
      BY Constants DEF StepEntries, StepStart, Entries
    <3> QED BY <2>1, <3>1, <3>2, <3>3, ArriveType DEF StepFails, TypeOK
  <2>2. CASE ~(attempt[u] < Retries)
    BY <2>2, NoEntries, NextStepType DEF StepFails, TypeOK
  <2> QED BY <2>1, <2>2
<1>2. writer' \in [Actor -> {Idle} \cup Writing]
  BY DEF StepFails, TypeOK
<1> QED BY <1>1, <1>2, UnchangedTables, UnchangedMarkers DEF StepFails, TypeOK

LEMMA MarkPartType == ASSUME TypeOK, NEW u \in Joiner, MarkPart(u) PROVE TypeOK'
<1>1. MarkersOK'
  BY DEF MarkPart, TypeOK, MarkersOK, Phase
<1> QED BY <1>1, UnchangedTables, UnchangedFlow DEF MarkPart, TypeOK

LEMMA ClientType ==
  ASSUME TypeOK, NEW u \in Joiner,
         Expire(u) \/ TakeCompletion(u)
  PROVE  TypeOK'
<1>1. UNCHANGED <<tables, writer, flow>>
  BY DEF Expire, TakeCompletion
<1>2. MarkersOK'
  BY DEF Expire, TakeCompletion, TypeOK, MarkersOK, Phase
<1>3. told' \subseteq Joiner
  BY DEF Expire, TakeCompletion, TypeOK
<1> QED BY <1>1, <1>2, <1>3, UnchangedTables, UnchangedFlow DEF TypeOK

LEMMA InitType == Init => TypeOK
BY Constants DEF Init, TypeOK, TablesOK, FlowOK, MarkersOK, Entries, Step, Phase

LEMMA StepType == TypeOK /\ [Next]_vars => TypeOK'
<1> SUFFICES ASSUME TypeOK, [Next]_vars PROVE TypeOK'
  OBVIOUS
<1>1. ASSUME NEW a \in Actor, MembershipWrite(a) PROVE TypeOK'
  BY <1>1, StoreType, UpdateMembershipType, UpsertRoomStateType DEF MembershipWrite
<1>2. ASSUME NEW h \in Handler, NEW e \in Event,
             FetchAuthEvent(h, e) \/ Accept(h, e) \/ Reject(h, e)
      PROVE  TypeOK'
  BY <1>2, HandlerType
<1>3. ASSUME NEW u \in Joiner, Advance(u) PROVE TypeOK'
  BY <1>3, MovesType, SendJoinType, PersistAuthChainType, PersistSnapshotType, PersistType, MarksType,
     ListsType, RestoreMemberType, SettleType DEF Advance
<1>4. ASSUME NEW u \in Joiner, MarkPart(u) \/ StepFails(u) \/ Expire(u) \/ TakeCompletion(u)
      PROVE  TypeOK'
  BY <1>4, StepFailsType, MarkPartType, ClientType
<1>5. CASE UNCHANGED vars
  BY <1>5, UnchangedTables, UnchangedFlow, UnchangedMarkers DEF vars, TypeOK
<1> QED BY <1>1, <1>2, <1>3, <1>4, <1>5 DEF Next

(* TypeOK holds for every room and every number of joiners: in particular a *)
(* workflow never settles or restores an entry that is not of its list's    *)
(* kind, however often a step is started again.                             *)
THEOREM TypeCorrect == Spec => []TypeOK
BY InitType, StepType, PTL DEF Spec
-----------------------------------------------------------------------------
(* The completion of a partial join.  From complete_cache on the completion *)
(* is recorded in D1 or taken; only /sync removes that record, and it tells *)
(* the user.  The expiry of the entry in KV is harmless for that reason,    *)
(* and so is a step that is started again: it only makes the record again.  *)

CompletionInv ==
    \A u \in Joiner :
        \/ pos[u] \in {"complete_cache", "clear"}
        \/ omitted[u] /\ pos[u] \in {"notify", "joined"}
        => Recorded(u)

\* The steps that change neither where a workflow is nor its record.
LEMMA CompletionElsewhere ==
  ASSUME CompletionInv, UNCHANGED <<pos, omitted, meta, told>>
  PROVE  CompletionInv'
BY DEF CompletionInv, Recorded

LEMMA CompletionStep == TypeOK /\ CompletionInv /\ [Next]_vars => CompletionInv'
<1> SUFFICES ASSUME TypeOK, CompletionInv, [Next]_vars PROVE CompletionInv'
  OBVIOUS
<1> USE DEF TypeOK, FlowOK, MarkersOK, CompletionInv, Recorded
<1>1. ASSUME NEW a \in Actor, MembershipWrite(a) PROVE CompletionInv'
  BY <1>1 DEF MembershipWrite, Store, UpdateMembership, UpsertRoomState
<1>2. ASSUME NEW h \in Handler, NEW e \in Event,
             FetchAuthEvent(h, e) \/ Accept(h, e) \/ Reject(h, e)
      PROVE  CompletionInv'
  BY <1>2 DEF FetchAuthEvent, Accept, Reject
<1>3. ASSUME NEW u \in Joiner, Advance(u) PROVE CompletionInv'
  <2> USE DEF At, NextStep, Continue, Arrive
  <2>1. CASE MakeJoin(u) \/ CreateEvent(u) \/ SendJoin(u) \/ RemoteStateDone(u)
    BY <2>1 DEF MakeJoin, CreateEvent, SendJoin, RemoteStateDone
  <2>2. CASE PersistAuthChain(u) \/ PersistSnapshot(u) \/ RestoreMember(u)
            \/ Settle(u)
    BY <2>2 DEF PersistAuthChain, PersistSnapshot, RestoreMember, Settle
  <2>3. CASE Persist(u) \/ PersistDone(u) \/ Fetch(u) \/ RestoreDone(u) \/ SettleDone(u)
    BY <2>3 DEF Persist, PersistDone, Fetch, RestoreDone, SettleDone
  <2>4. CASE ListMembers(u) \/ Reevaluate(u)
    BY <2>4 DEF ListMembers, Reevaluate
  <2>5. CASE Publish(u)
    BY <2>5 DEF Publish
  <2>6. CASE MarkMeta(u) \/ CatchupMeta(u)
    BY <2>6 DEF MarkMeta, CatchupMeta
  <2>7. CASE MarkCache(u) \/ CatchupCache(u)
    BY <2>7 DEF MarkCache, CatchupCache, Mark
  <2>8. CASE CompleteMeta(u) \/ CompleteCache(u)
    BY <2>8 DEF CompleteMeta, CompleteCache
  <2>9. CASE Clear(u) \/ Notify(u)
    BY <2>9 DEF Clear, Notify, Mark
  <2> QED BY <1>3, <2>1, <2>2, <2>3, <2>4, <2>5, <2>6, <2>7, <2>8, <2>9 DEF Advance
<1>4. ASSUME NEW u \in Joiner, StepFails(u) PROVE CompletionInv'
  BY <1>4 DEF StepFails, StepStart, Step, NextStep, Arrive
<1>5. ASSUME NEW u \in Joiner, MarkPart(u) \/ Expire(u) \/ TakeCompletion(u)
      PROVE  CompletionInv'
  BY <1>5 DEF MarkPart, Expire, TakeCompletion
<1>6. CASE UNCHANGED vars
  BY <1>6 DEF vars
<1> QED BY <1>1, <1>2, <1>3, <1>4, <1>5, <1>6 DEF Next

LEMMA CompletionInit == Init => CompletionInv
BY DEF Init, CompletionInv

LEMMA CompletionInductive == Spec => []CompletionInv
BY CompletionInit, CompletionStep, TypeCorrect, PTL DEF Spec

(* A partial join that is cleared or has ended well is told to its user, or *)
(* is still recorded for the next /sync, for any number of joiners and any  *)
(* number of restarts, although the entry in KV may have expired.           *)
THEOREM CompletionKept == Spec => []CompletionIsKept
<1>1. CompletionInv => CompletionIsKept
  BY DEF CompletionInv, CompletionIsKept
<1> QED BY <1>1, CompletionInductive, PTL
-----------------------------------------------------------------------------
(* The flag of a partial join.  Its entry in KV is there from the first mark*)
(* until it is cleared, and D1 is written before KV, so that what remains   *)
(* when the entry expires is the flag in D1.                                *)

Catchup == {"fetch", "resync", "restore", "catchup_meta", "catchup_cache"}
Finalising == {"reevaluate", "settle", "complete_meta"}

FlagInv ==
    \A u \in Joiner :
        /\ \/ joinMark[u] # None
           \/ pos[u] \in {"mark_cache", "catchup_cache"}
           => meta[u] # None \/ u \in told
        /\ pos[u] \in Catchup \/ (pos[u] = "publish" /\ omitted[u])
           => joinMark[u] # None
        /\ pos[u] \in Finalising => joinMark[u] # None \/ Recorded(u)

LEMMA FlagInit == Init => FlagInv
BY DEF Init, FlagInv, Catchup, Finalising

LEMMA FlagStep == TypeOK /\ CompletionInv /\ FlagInv /\ [Next]_vars => FlagInv'
<1> SUFFICES ASSUME TypeOK, CompletionInv, FlagInv, [Next]_vars PROVE FlagInv'
  OBVIOUS
<1> USE DEF TypeOK, FlowOK, MarkersOK, FlagInv, Recorded
<1>1. ASSUME NEW a \in Actor, MembershipWrite(a) PROVE FlagInv'
  BY <1>1 DEF MembershipWrite, Store, UpdateMembership, UpsertRoomState
<1>2. ASSUME NEW h \in Handler, NEW e \in Event,
             FetchAuthEvent(h, e) \/ Accept(h, e) \/ Reject(h, e)
      PROVE  FlagInv'
  BY <1>2 DEF FetchAuthEvent, Accept, Reject
<1>3. ASSUME NEW u \in Joiner, Advance(u) PROVE FlagInv'
  <2> USE DEF At, NextStep, Continue, Arrive, Catchup, Finalising
  <2>1. CASE MakeJoin(u) \/ CreateEvent(u) \/ SendJoin(u) \/ RemoteStateDone(u)
    BY <2>1 DEF MakeJoin, CreateEvent, SendJoin, RemoteStateDone
  <2>2. CASE PersistAuthChain(u) \/ PersistSnapshot(u) \/ RestoreMember(u)
            \/ Settle(u)
    BY <2>2 DEF PersistAuthChain, PersistSnapshot, RestoreMember, Settle
  <2>3. CASE Persist(u)
    BY <2>3 DEF Persist
  <2>10. CASE PersistDone(u)
    BY <2>10 DEF PersistDone
  <2>11. CASE Fetch(u) \/ RestoreDone(u) \/ SettleDone(u)
    BY <2>11 DEF Fetch, RestoreDone, SettleDone
  <2>4. CASE ListMembers(u) \/ Reevaluate(u)
    BY <2>4 DEF ListMembers, Reevaluate
  <2>5. CASE Publish(u)
    BY <2>5 DEF Publish
  <2>6. CASE MarkMeta(u) \/ CatchupMeta(u) \/ CompleteMeta(u)
    <3> DEFINE p == CASE MarkMeta(u) -> "mark_cache" [] CatchupMeta(u) -> "catchup_cache"
                      [] OTHER -> "complete_cache"
    <3>1. /\ meta'[u] # None
          /\ pos' = [pos EXCEPT ![u] = p]
          /\ \A v \in Joiner \ {u} : meta'[v] = meta[v]
          /\ UNCHANGED <<omitted, joinMark, told>>
      BY <2>6, Constants DEF MarkMeta, CatchupMeta, CompleteMeta
    <3>2. p = "catchup_cache" => joinMark[u] # None
      BY <2>6 DEF MarkMeta, CatchupMeta, CompleteMeta
    <3>3. p \in {"mark_cache", "catchup_cache", "complete_cache"}
      OBVIOUS
    <3> HIDE DEF p
    <3> QED BY <3>1, <3>2, <3>3
  <2>7. CASE MarkCache(u) \/ CatchupCache(u)
    BY <2>7, Constants DEF MarkCache, CatchupCache, Mark
  <2>8. CASE CompleteCache(u)
    BY <2>8 DEF CompleteCache
  <2>9. CASE Clear(u) \/ Notify(u)
    BY <2>9 DEF Clear, Notify, Mark
  <2> QED BY <1>3, <2>1, <2>2, <2>3, <2>4, <2>5, <2>6, <2>7, <2>8, <2>9, <2>10,
            <2>11 DEF Advance
<1>4. ASSUME NEW u \in Joiner, StepFails(u) PROVE FlagInv'
  BY <1>4 DEF StepFails, StepStart, Step, NextStep, Arrive, Catchup, Finalising, CompletionInv
<1>5. ASSUME NEW u \in Joiner, MarkPart(u) PROVE FlagInv'
  BY <1>5, Constants DEF MarkPart, At, Catchup, Finalising, CompletionInv
<1>6. ASSUME NEW u \in Joiner, Expire(u) \/ TakeCompletion(u) PROVE FlagInv'
  BY <1>6 DEF Expire, Ended, TakeCompletion, Catchup, Finalising
<1>7. CASE UNCHANGED vars
  BY <1>7 DEF vars
<1> QED BY <1>1, <1>2, <1>3, <1>4, <1>5, <1>6, <1>7 DEF Next

LEMMA FlagInductive == Spec => []FlagInv
BY FlagInit, FlagStep, TypeCorrect, CompletionInductive, PTL DEF Spec

\* What can take the flag away has the completion recorded.
LEMMA FlagStays ==
  ASSUME TypeOK, CompletionInv, FlagInv, [Next]_vars,
         NEW v \in Joiner, Partial(v), ~Partial(v)'
  PROVE  Recorded(v) \/ Recorded(v)'
<1> USE DEF TypeOK, FlowOK, MarkersOK, FlagInv, Recorded, Partial, Phase
<1>1. ASSUME NEW u \in Joiner, MarkMeta(u) \/ CatchupMeta(u) \/ CompleteMeta(u)
      PROVE  Recorded(v) \/ Recorded(v)'
  BY <1>1 DEF MarkMeta, CatchupMeta, CompleteMeta
<1>2. ASSUME NEW u \in Joiner, MarkCache(u) \/ CatchupCache(u) \/ Clear(u)
      PROVE  Recorded(v) \/ Recorded(v)'
  BY <1>2 DEF MarkCache, CatchupCache, Clear, Mark, At, CompletionInv
<1>3. ASSUME NEW u \in Joiner, MarkPart(u) PROVE Recorded(v) \/ Recorded(v)'
  BY <1>3 DEF MarkPart, At, CompletionInv
<1>4. ASSUME NEW u \in Joiner, Expire(u) PROVE Recorded(v) \/ Recorded(v)'
  BY <1>4 DEF Expire
<1>5. ASSUME NEW u \in Joiner, TakeCompletion(u) PROVE Recorded(v) \/ Recorded(v)'
  BY <1>5 DEF TakeCompletion
<1>6. CASE UNCHANGED <<joinMark, meta>>
  BY <1>6
<1>7. ASSUME NEW u \in Joiner,
             \/ MakeJoin(u) \/ CreateEvent(u) \/ SendJoin(u)
             \/ PersistAuthChain(u) \/ PersistSnapshot(u) \/ RemoteStateDone(u)
             \/ Persist(u) \/ PersistDone(u)
             \/ Fetch(u) \/ ListMembers(u) \/ RestoreMember(u) \/ RestoreDone(u)
             \/ Publish(u) \/ Reevaluate(u) \/ Settle(u) \/ SettleDone(u)
             \/ CompleteCache(u) \/ Notify(u) \/ StepFails(u)
      PROVE  UNCHANGED <<joinMark, meta>>
  BY <1>7 DEF MakeJoin, CreateEvent, SendJoin, PersistAuthChain, PersistSnapshot, RemoteStateDone,
              Persist, PersistDone, Fetch, ListMembers, RestoreMember, RestoreDone,
              Publish, Reevaluate, Settle, SettleDone, CompleteCache, Notify, StepFails
<1>8. ASSUME NEW a \in Actor, MembershipWrite(a) PROVE UNCHANGED <<joinMark, meta>>
  BY <1>8 DEF MembershipWrite, Store, UpdateMembership, UpsertRoomState
<1>9. ASSUME NEW h \in Handler, NEW e \in Event,
             FetchAuthEvent(h, e) \/ Accept(h, e) \/ Reject(h, e)
      PROVE  UNCHANGED <<joinMark, meta>>
  BY <1>9 DEF FetchAuthEvent, Accept, Reject
<1>10. UNCHANGED vars => UNCHANGED <<joinMark, meta>>
  BY DEF vars
<1> QED BY <1>1, <1>2, <1>3, <1>4, <1>5, <1>6, <1>7, <1>8, <1>9, <1>10 DEF Next, Advance

(* A partial join stays flagged for its user through every failure, restart *)
(* and expiry until its completion is recorded, for any number of joiners.  *)
THEOREM FlagKept == Spec => FlaggedUntilComplete
<1>1. TypeOK /\ CompletionInv /\ FlagInv /\ [Next]_vars =>
        [\A u \in Joiner : Partial(u) /\ ~Partial(u)' => Recorded(u) \/ Recorded(u)']_vars
  BY FlagStays
<1> QED BY <1>1, TypeCorrect, CompletionInductive, FlagInductive, PTL
        DEF Spec, FlaggedUntilComplete
-----------------------------------------------------------------------------
(* The marker of the room, which makes handlers defer.  It is written with  *)
(* the entry of the join and deleted with it; but the entry is the joiner's *)
(* own and the marker is the room's, and one joiner's completion deletes    *)
(* it.  So there must be one joiner.                                        *)

MarkedInv ==
    \A u \in Joiner :
        /\ pos[u] \in Catchup \/ (pos[u] = "publish" /\ omitted[u]) => roomMark # None
        /\ pos[u] \in Finalising => roomMark # None \/ Recorded(u)

LEMMA MarkedInit == Init => MarkedInv
BY DEF Init, MarkedInv, Catchup, Finalising

LEMMA MarkedStep ==
  ASSUME \A u, v \in Joiner : u = v
  PROVE  TypeOK /\ CompletionInv /\ MarkedInv /\ [Next]_vars => MarkedInv'
<1> SUFFICES ASSUME TypeOK, CompletionInv, MarkedInv, [Next]_vars PROVE MarkedInv'
  OBVIOUS
<1> USE DEF TypeOK, FlowOK, MarkersOK, MarkedInv, Recorded
<1>1. ASSUME NEW a \in Actor, MembershipWrite(a) PROVE MarkedInv'
  BY <1>1 DEF MembershipWrite, Store, UpdateMembership, UpsertRoomState
<1>2. ASSUME NEW h \in Handler, NEW e \in Event,
             FetchAuthEvent(h, e) \/ Accept(h, e) \/ Reject(h, e)
      PROVE  MarkedInv'
  BY <1>2 DEF FetchAuthEvent, Accept, Reject
<1>3. ASSUME NEW u \in Joiner, Advance(u) PROVE MarkedInv'
  <2> USE DEF At, NextStep, Continue, Arrive, Catchup, Finalising
  <2>1. CASE MakeJoin(u) \/ CreateEvent(u) \/ SendJoin(u) \/ RemoteStateDone(u)
    BY <2>1 DEF MakeJoin, CreateEvent, SendJoin, RemoteStateDone
  <2>2. CASE PersistAuthChain(u) \/ PersistSnapshot(u) \/ RestoreMember(u)
            \/ Settle(u)
    BY <2>2 DEF PersistAuthChain, PersistSnapshot, RestoreMember, Settle
  <2>3. CASE Persist(u)
    BY <2>3 DEF Persist
  <2>4. CASE PersistDone(u)
    BY <2>4 DEF PersistDone
  <2>5. CASE Fetch(u) \/ RestoreDone(u) \/ SettleDone(u)
    BY <2>5 DEF Fetch, RestoreDone, SettleDone
  <2>6. CASE ListMembers(u) \/ Reevaluate(u)
    BY <2>6 DEF ListMembers, Reevaluate
  <2>7. CASE Publish(u)
    BY <2>7 DEF Publish
  <2>8. CASE MarkMeta(u) \/ CatchupMeta(u) \/ CompleteMeta(u)
    <3>1. CASE MarkMeta(u)
      BY <3>1 DEF MarkMeta
    <3>2. CASE CatchupMeta(u)
      BY <3>2 DEF CatchupMeta
    <3>3. CASE CompleteMeta(u)
      BY <3>3 DEF CompleteMeta
    <3> QED BY <2>8, <3>1, <3>2, <3>3
  <2>9. CASE MarkCache(u) \/ CatchupCache(u)
    BY <2>9, Constants DEF MarkCache, CatchupCache, Mark
  <2>10. CASE CompleteCache(u)
    BY <2>10 DEF CompleteCache
  <2>11. CASE Clear(u) \/ Notify(u)
    BY <2>11 DEF Clear, Notify, Mark
  <2> QED BY <1>3, <2>1, <2>2, <2>3, <2>4, <2>5, <2>6, <2>7, <2>8, <2>9, <2>10,
            <2>11 DEF Advance
<1>4. ASSUME NEW u \in Joiner, StepFails(u) PROVE MarkedInv'
  BY <1>4 DEF StepFails, StepStart, Step, NextStep, Arrive, Catchup, Finalising,
              CompletionInv
<1>5. ASSUME NEW u \in Joiner, MarkPart(u) PROVE MarkedInv'
  BY <1>5, Constants DEF MarkPart, At, Catchup, Finalising, CompletionInv
<1>6. ASSUME NEW u \in Joiner, Expire(u) \/ TakeCompletion(u) PROVE MarkedInv'
  BY <1>6 DEF Expire, Ended, TakeCompletion, Catchup, Finalising
<1>7. CASE UNCHANGED vars
  BY <1>7 DEF vars
<1> QED BY <1>1, <1>2, <1>3, <1>4, <1>5, <1>6, <1>7 DEF Next

(* With one local joiner of the room, events that arrive while the join     *)
(* catches up find the room's marker and are deferred, never rejected for   *)
(* what the partial state does not know, whatever is started again.         *)
THEOREM RoomStaysMarked ==
  ASSUME \A u, v \in Joiner : u = v
  PROVE  Spec => []PartialRoomIsMarked
<1>1. MarkedInv => PartialRoomIsMarked
  BY DEF MarkedInv, PartialRoomIsMarked, Catching, Catchup, Finalising
<1>2. TypeOK /\ CompletionInv /\ MarkedInv /\ [Next]_vars => MarkedInv'
  BY MarkedStep
<1> QED BY <1>1, <1>2, MarkedInit, TypeCorrect, CompletionInductive, PTL DEF Spec

-----------------------------------------------------------------------------
(* Deferred events.  What a workflow does after its marks, it does for a    *)
(* partial answer; so from its first mark to its judgement no step goes     *)
(* round the judgement.                                                     *)

Marking == {"mark_meta", "mark_cache"} \cup Catchup \cup Finalising
             \cup {"complete_cache", "clear"}

OmittedInv == \A u \in Joiner : pos[u] \in Marking => omitted[u]

LEMMA OmittedInit == Init => OmittedInv
BY DEF Init, OmittedInv, Marking, Catchup, Finalising

\* The steps that change neither where a workflow is nor what is deferred.
LEMMA HandlersApart ==
  ASSUME NEW h \in Handler, NEW e \in Event,
         FetchAuthEvent(h, e) \/ Accept(h, e) \/ Reject(h, e)
  PROVE  UNCHANGED <<flow, deferred>>
BY DEF FetchAuthEvent, Accept, Reject

LEMMA WritesApart ==
  ASSUME TypeOK, NEW a \in Actor, MembershipWrite(a)
  PROVE  UNCHANGED flow /\ deferred \subseteq deferred'
BY DEF MembershipWrite, Store, UpdateMembership, UpsertRoomState

LEMMA MarksApart ==
  ASSUME NEW u \in Joiner, MarkPart(u) \/ Expire(u) \/ TakeCompletion(u)
  PROVE  UNCHANGED <<flow, deferred>>
BY DEF MarkPart, Expire, TakeCompletion

LEMMA OmittedStep == TypeOK /\ OmittedInv /\ [Next]_vars => OmittedInv'
<1> SUFFICES ASSUME TypeOK, OmittedInv, [Next]_vars PROVE OmittedInv'
  OBVIOUS
<1> USE DEF TypeOK, FlowOK, OmittedInv
<1>1. CASE UNCHANGED <<pos, omitted>>
  BY <1>1
<1>2. ASSUME NEW u \in Joiner, Advance(u) PROVE OmittedInv'
  <2> USE DEF At, NextStep, Continue, Arrive, Marking, Catchup, Finalising
  <2>1. CASE MakeJoin(u) \/ CreateEvent(u) \/ SendJoin(u) \/ RemoteStateDone(u)
    BY <2>1 DEF MakeJoin, CreateEvent, SendJoin, RemoteStateDone
  <2>2. CASE PersistAuthChain(u) \/ PersistSnapshot(u) \/ RestoreMember(u) \/ Settle(u)
    BY <2>2 DEF PersistAuthChain, PersistSnapshot, RestoreMember, Settle
  <2>3. CASE Persist(u) \/ PersistDone(u) \/ Publish(u)
    BY <2>3 DEF Persist, PersistDone, Publish
  <2>4. CASE Fetch(u) \/ RestoreDone(u) \/ SettleDone(u) \/ ListMembers(u) \/ Reevaluate(u)
    BY <2>4 DEF Fetch, RestoreDone, SettleDone, ListMembers, Reevaluate
  <2>5. CASE MarkMeta(u) \/ CatchupMeta(u) \/ CompleteMeta(u) \/ CompleteCache(u)
    BY <2>5 DEF MarkMeta, CatchupMeta, CompleteMeta, CompleteCache
  <2>6. CASE MarkCache(u) \/ CatchupCache(u) \/ Clear(u) \/ Notify(u)
    BY <2>6 DEF MarkCache, CatchupCache, Clear, Notify, Mark
  <2> QED BY <1>2, <2>1, <2>2, <2>3, <2>4, <2>5, <2>6 DEF Advance
<1>3. ASSUME NEW u \in Joiner, StepFails(u) PROVE OmittedInv'
  BY <1>3 DEF StepFails, StepStart, Step, NextStep, Arrive, Marking, Catchup, Finalising
<1> QED BY <1>1, <1>2, <1>3, HandlersApart, WritesApart, MarksApart DEF Next, vars

\* Where a step takes a join at which an event is due.
LEMMA DueOnward ==
  ASSUME TypeOK, OmittedInv, NEW u \in Joiner, NEW e \in Event, Due(u, e),
         Advance(u) \/ StepFails(u), e \in deferred'
  PROVE  Due(u, e)' \/ decision'[e] = "rejected" \/ pos'[u] = "failed"
<1> USE DEF TypeOK, TablesOK, FlowOK, Due, Catching, OmittedInv, Marking, Catchup, Finalising
<1>1. CASE StepFails(u)
  BY <1>1 DEF StepFails, StepStart, Step, NextStep, Arrive
<1> USE DEF At, NextStep, Continue, Arrive
<1>2. CASE MakeJoin(u) \/ CreateEvent(u) \/ SendJoin(u) \/ RemoteStateDone(u)
  BY <1>2 DEF MakeJoin, CreateEvent, SendJoin, RemoteStateDone
<1>3. CASE PersistAuthChain(u) \/ PersistSnapshot(u) \/ RestoreMember(u)
  BY <1>3 DEF PersistAuthChain, PersistSnapshot, RestoreMember
<1>4. CASE Settle(u)
  BY <1>4 DEF Settle
<1>5. CASE Persist(u) \/ PersistDone(u) \/ Publish(u)
  BY <1>5 DEF Persist, PersistDone, Publish
<1>6. CASE Fetch(u) \/ RestoreDone(u) \/ SettleDone(u) \/ ListMembers(u) \/ Reevaluate(u)
  BY <1>6 DEF Fetch, RestoreDone, SettleDone, ListMembers, Reevaluate
<1>7. CASE MarkMeta(u) \/ CatchupMeta(u) \/ CompleteMeta(u) \/ CompleteCache(u)
  BY <1>7 DEF MarkMeta, CatchupMeta, CompleteMeta, CompleteCache
<1>8. CASE MarkCache(u) \/ CatchupCache(u) \/ Clear(u) \/ Notify(u)
  BY <1>8 DEF MarkCache, CatchupCache, Clear, Notify, Mark
<1> QED BY <1>1, <1>2, <1>3, <1>4, <1>5, <1>6, <1>7, <1>8 DEF Advance

\* What another workflow does changes nothing about this one.
LEMMA OthersApart ==
  ASSUME TypeOK, NEW u \in Joiner, NEW v \in Joiner, u # v, Advance(v) \/ StepFails(v)
  PROVE  pos'[u] = pos[u] /\ todo'[u] = todo[u] /\ omitted'[u] = omitted[u]
<1> USE DEF TypeOK, FlowOK, At, NextStep, Continue, Arrive
<1>1. CASE StepFails(v)
  BY <1>1 DEF StepFails
<1>2. CASE MakeJoin(v) \/ CreateEvent(v) \/ SendJoin(v) \/ RemoteStateDone(v)
  BY <1>2 DEF MakeJoin, CreateEvent, SendJoin, RemoteStateDone
<1>3. CASE PersistAuthChain(v) \/ PersistSnapshot(v) \/ RestoreMember(v) \/ Settle(v)
  BY <1>3 DEF PersistAuthChain, PersistSnapshot, RestoreMember, Settle
<1>4. CASE Persist(v) \/ PersistDone(v) \/ Publish(v)
  BY <1>4 DEF Persist, PersistDone, Publish
<1>5. CASE Fetch(v) \/ RestoreDone(v) \/ SettleDone(v) \/ ListMembers(v) \/ Reevaluate(v)
  BY <1>5 DEF Fetch, RestoreDone, SettleDone, ListMembers, Reevaluate
<1>6. CASE MarkMeta(v) \/ CatchupMeta(v) \/ CompleteMeta(v) \/ CompleteCache(v)
  BY <1>6 DEF MarkMeta, CatchupMeta, CompleteMeta, CompleteCache
<1>7. CASE MarkCache(v) \/ CatchupCache(v) \/ Clear(v) \/ Notify(v)
  BY <1>7 DEF MarkCache, CatchupCache, Clear, Notify, Mark
<1> QED BY <1>1, <1>2, <1>3, <1>4, <1>5, <1>6, <1>7 DEF Advance

LEMMA DueStays ==
  ASSUME TypeOK, OmittedInv, [Next]_vars, NEW u \in Joiner, NEW e \in Event,
         Due(u, e), ~Due(u, e)'
  PROVE  Settled(e)' \/ pos'[u] = "failed"
<1> SUFFICES ASSUME e \in deferred' PROVE Settled(e)' \/ pos'[u] = "failed"
  BY DEF Settled
<1>1. CASE UNCHANGED flow
  BY <1>1 DEF Due, Catching
<1>2. ASSUME NEW v \in Joiner, Advance(v) \/ StepFails(v)
      PROVE  Settled(e)' \/ pos'[u] = "failed"
  <2>1. CASE v = u
    BY <1>2, <2>1, DueOnward DEF Settled
  <2>2. CASE v # u
    BY <1>2, <2>2, OthersApart DEF Due, Catching
  <2> QED BY <2>1, <2>2
<1> QED BY <1>1, <1>2, HandlersApart, WritesApart, MarksApart DEF Next, vars

(* A deferred event is lost to no join that catches up: its judgement comes *)
(* to it before the join is complete, whatever steps are started again and  *)
(* for any number of joiners, unless the workflow fails.                    *)
THEOREM DeferredIsKeptDue == Spec => DeferredStaysDue
<1>1. TypeOK /\ OmittedInv /\ [Next]_vars
        => [\A u \in Joiner, e \in Event :
              Due(u, e) /\ ~Due(u, e)' => Settled(e)' \/ pos'[u] = "failed"]_vars
  BY DueStays
<1> QED BY <1>1, OmittedInit, OmittedStep, TypeCorrect, PTL DEF Spec, DeferredStaysDue

-----------------------------------------------------------------------------
(* The end of a join.  What a workflow has before it is, first, the steps   *)
(* to come, then the attempts at the present step, then its statements, then*)
(* the entries of the present list, the auth chain and the writes of the    *)
(* present entry.                                                           *)

Place(p) ==
    CASE p = "make_join" -> 0       [] p = "create" -> 1
      [] p = "send_join" -> 2       [] p = "remote_state" -> 3
      [] p = "persist" -> 4         [] p = "mark_meta" -> 5
      [] p = "mark_cache" -> 6      [] p = "fetch" -> 7
      [] p = "resync" -> 8          [] p = "restore" -> 9
      [] p = "publish" -> 10        [] p = "catchup_meta" -> 11
      [] p = "catchup_cache" -> 12  [] p = "reevaluate" -> 13
      [] p = "settle" -> 14         [] p = "complete_meta" -> 15
      [] p = "complete_cache" -> 16 [] p = "clear" -> 17
      [] p = "notify" -> 18         [] OTHER -> 19

WritesLeft(w) == CASE w.at = "store" -> 3 [] w.at = "row" -> 2
                   [] w.at = "pointer" -> 1 [] OTHER -> 0

ListNearer(u) ==
    /\ pos'[u] = pos[u] /\ attempt'[u] = attempt[u]
    /\ todo'[u] \subseteq todo[u] /\ stored \subseteq stored'
    /\ \/ todo'[u] # todo[u]
       \/ Chain \ stored' # Chain \ stored
       \/ WritesLeft(writer'[u]) < WritesLeft(writer[u])

JoinNearer(u) ==
    \/ Place(StepStart(pos'[u])) > Place(StepStart(pos[u]))
    \/ /\ StepStart(pos'[u]) = StepStart(pos[u])
       /\ \/ attempt'[u] > attempt[u]
          \/ attempt'[u] = attempt[u] /\ Place(pos'[u]) > Place(pos[u])
    \/ ListNearer(u)

JoinAsFar(u) ==
    /\ pos'[u] = pos[u] /\ attempt'[u] = attempt[u]
    /\ todo'[u] = todo[u] /\ stored \subseteq stored'
    /\ writer'[u] = writer[u]

Works(u) == Advance(u) \/ StepFails(u) \/ MembershipWrite(u)

JoinsNearTheirEnd ==
    [][\A u \in Joiner :
          ~Ended(u) => IF Works(u) THEN JoinNearer(u)
                       ELSE JoinNearer(u) \/ JoinAsFar(u)]_vars

LEMMA WriteNears ==
  ASSUME TypeOK, NEW u \in Joiner, MembershipWrite(u)
  PROVE  JoinNearer(u)
<1> USE DEF TypeOK, TablesOK, FlowOK
<1>1. writer[u] \in Writing
  BY DEF MembershipWrite, Store, UpdateMembership, UpsertRoomState, Idle, Actor
<1>2. CASE Store(u)
  <2>1. PICK w : w = writer[u]
    OBVIOUS
  <2>2. writer'[u] = IF w.applies THEN [w EXCEPT !.at = "row"] ELSE Idle
    BY <1>2, <2>1 DEF Store, Actor
  <2>3. writer'[u].at \in {"row", "idle"}
    BY <1>1, <2>1, <2>2 DEF Writing, Idle
  <2> QED BY <1>2, <2>3 DEF Store, JoinNearer, ListNearer, WritesLeft
<1>3. CASE UpdateMembership(u)
  <2>1. writer'[u].at = "pointer"
    BY <1>1, <1>3 DEF UpdateMembership, Writing, Actor
  <2> QED BY <1>3, <2>1 DEF UpdateMembership, JoinNearer, ListNearer, WritesLeft
<1>4. CASE UpsertRoomState(u)
  <2>1. writer'[u].at = "idle"
    BY <1>4 DEF UpsertRoomState, Idle, Actor
  <2> QED BY <1>4, <2>1 DEF UpsertRoomState, JoinNearer, ListNearer, WritesLeft
<1> QED BY <1>2, <1>3, <1>4 DEF MembershipWrite

\* The steps that move a workflow on, and the start again of one that fails.
LEMMA AdvanceNears ==
  ASSUME TypeOK, OmittedInv, NEW u \in Joiner, Advance(u) \/ StepFails(u)
  PROVE  JoinNearer(u)
<1> USE DEF TypeOK, FlowOK, At, NextStep, Continue, Arrive
<1>1. CASE StepFails(u)
  <2>1. CASE attempt[u] < Retries
    <3>1. pos'[u] = StepStart(pos[u]) /\ attempt'[u] = attempt[u] + 1
      BY <1>1, <2>1 DEF StepFails
    <3>2. StepStart(pos'[u]) = StepStart(pos[u])
      BY <3>1 DEF StepStart
    <3>3. attempt'[u] > attempt[u]
      BY <3>1, Constants
    <3> QED BY <3>2, <3>3 DEF JoinNearer
  <2>2. CASE ~(attempt[u] < Retries)
    BY <1>1, <2>2 DEF StepFails, JoinNearer, Place, StepStart, Step
  <2> QED BY <2>1, <2>2
<1> USE DEF JoinNearer, Place, StepStart
<1>2. CASE MakeJoin(u) \/ CreateEvent(u) \/ SendJoin(u) \/ RemoteStateDone(u)
  BY <1>2 DEF MakeJoin, CreateEvent, SendJoin, RemoteStateDone
<1>3. CASE PersistAuthChain(u)
  BY <1>3 DEF PersistAuthChain, ListNearer
<1>4. CASE PersistSnapshot(u)
  BY <1>4 DEF PersistSnapshot, ListNearer
<1>5. CASE RestoreMember(u) \/ Settle(u) \/ Persist(u)
  BY <1>5 DEF RestoreMember, Settle, Persist, ListNearer
<1>6. CASE PersistDone(u) \/ Publish(u)
  BY <1>6 DEF PersistDone, Publish
<1>7. CASE Fetch(u) \/ RestoreDone(u) \/ SettleDone(u)
  BY <1>7 DEF Fetch, RestoreDone, SettleDone
<1>8. CASE ListMembers(u) \/ Reevaluate(u)
  BY <1>8 DEF ListMembers, Reevaluate
<1>9. CASE MarkMeta(u) \/ CatchupMeta(u) \/ CompleteMeta(u) \/ CompleteCache(u)
  BY <1>9 DEF MarkMeta, CatchupMeta, CompleteMeta, CompleteCache
<1>10. CASE MarkCache(u) \/ CatchupCache(u)
  BY <1>10 DEF MarkCache, CatchupCache, Mark
<1>11. CASE Clear(u) \/ Notify(u)
  BY <1>11 DEF Clear, Notify, Mark
<1> QED BY <1>1, <1>2, <1>3, <1>4, <1>5, <1>6, <1>7, <1>8, <1>9, <1>10, <1>11 DEF Advance

LEMMA OthersLeave ==
  ASSUME TypeOK, [Next]_vars, NEW u \in Joiner, ~Works(u)
  PROVE  JoinAsFar(u)
<1> USE DEF TypeOK, TablesOK, FlowOK, JoinAsFar
<1>1. ASSUME NEW h \in Handler, NEW e \in Event,
             FetchAuthEvent(h, e) \/ Accept(h, e) \/ Reject(h, e)
      PROVE  JoinAsFar(u)
  <2>1. h # u
    BY Constants
  <2> QED BY <1>1, <2>1 DEF FetchAuthEvent, Accept, Reject, Actor
<1>2. ASSUME NEW a \in Actor, MembershipWrite(a), a # u PROVE JoinAsFar(u)
  BY <1>2 DEF MembershipWrite, Store, UpdateMembership, UpsertRoomState, Actor
<1>3. ASSUME NEW v \in Joiner, MarkPart(v) \/ Expire(v) \/ TakeCompletion(v)
      PROVE  JoinAsFar(u)
  BY <1>3 DEF MarkPart, Expire, TakeCompletion
<1>4. ASSUME NEW v \in Joiner, Advance(v) \/ StepFails(v), v # u PROVE JoinAsFar(u)
  <2>1. attempt'[u] = attempt[u] /\ writer'[u] = writer[u] /\ stored \subseteq stored'
    <3> USE DEF Actor, At, NextStep, Continue, Arrive
    <3>1. CASE StepFails(v)
      BY <1>4, <3>1 DEF StepFails
    <3>2. CASE MakeJoin(v) \/ CreateEvent(v) \/ SendJoin(v) \/ RemoteStateDone(v)
      BY <1>4, <3>2 DEF MakeJoin, CreateEvent, SendJoin, RemoteStateDone
    <3>3. CASE PersistAuthChain(v) \/ PersistSnapshot(v)
      BY <1>4, <3>3 DEF PersistAuthChain, PersistSnapshot
    <3>4. CASE RestoreMember(v) \/ Settle(v) \/ Persist(v)
      BY <1>4, <3>4 DEF RestoreMember, Settle, Persist
    <3>5. CASE PersistDone(v) \/ Publish(v) \/ Fetch(v) \/ RestoreDone(v) \/ SettleDone(v)
      BY <1>4, <3>5 DEF PersistDone, Publish, Fetch, RestoreDone, SettleDone
    <3>6. CASE ListMembers(v) \/ Reevaluate(v)
      BY <1>4, <3>6 DEF ListMembers, Reevaluate
    <3>7. CASE MarkMeta(v) \/ CatchupMeta(v) \/ CompleteMeta(v) \/ CompleteCache(v)
      BY <1>4, <3>7 DEF MarkMeta, CatchupMeta, CompleteMeta, CompleteCache
    <3>8. CASE MarkCache(v) \/ CatchupCache(v) \/ Clear(v) \/ Notify(v)
      BY <1>4, <3>8 DEF MarkCache, CatchupCache, Clear, Notify, Mark
    <3> QED BY <1>4, <3>1, <3>2, <3>3, <3>4, <3>5, <3>6, <3>7, <3>8 DEF Advance
  <2> QED BY <1>4, <2>1, OthersApart
<1>5. CASE UNCHANGED vars
  BY <1>5 DEF vars
<1> QED BY <1>1, <1>2, <1>3, <1>4, <1>5 DEF Next, Works

\* Whatever a join's workflow does, a failure of a step included, brings it
\* nearer its end, and nobody else takes it farther: steps come in one order,
\* attempts are counted, and the list a step goes through never grows.  With
\* a platform that runs the workflow this is why a join ends, and why a
\* deferred event, which stays due, is judged.
THEOREM EveryJoinNearsItsEnd == Spec => JoinsNearTheirEnd
<1>1. TypeOK /\ OmittedInv /\ [Next]_vars
        => [\A u \in Joiner :
              ~Ended(u) => IF Works(u) THEN JoinNearer(u)
                           ELSE JoinNearer(u) \/ JoinAsFar(u)]_vars
  BY WriteNears, AdvanceNears, OthersLeave DEF Works
<1> QED BY <1>1, OmittedInit, OmittedStep, TypeCorrect, PTL DEF Spec, JoinsNearTheirEnd

-----------------------------------------------------------------------------
(* A join that succeeds is in effect.  Once the step "persist" has written  *)
(* it, three kinds of writes could replace it: an event about the joiner    *)
(* that a handler took, a snapshot's entry about what the joiner was        *)
(* before, and a restoration or a judgement of a deferred event.  The first *)
(* is another change of membership and is excluded by assumption; the       *)
(* others are not, and do no harm.                                          *)

Another(u, e) == Target[e] = u /\ e # JoinOf[u]
Came(e) == e \in Delivered /\ decision[e] # "none"
Undisturbed(u) == \A e \in Event : Another(u, e) => ~Came(e)

\* Only what a handler took is deferred, and never a join.
Deferrable(e) == Came(e) /\ Kind[e] # "join"

DeferredInv ==
    /\ \A e \in deferred : Deferrable(e)
    /\ \A u \in Joiner : pos[u] = "settle" => \A e \in todo[u] : Deferrable(e)
    /\ \A a \in Actor : writer[a] # Idle =>
          /\ a \in Handler => Came(writer[a].event)
          /\ writer[a].defer => Deferrable(writer[a].event)

\* The events kept for a member are about that member.
About(e, m) == e # None => Target[e] = m

AboutInv ==
    /\ \A m \in Member : About(pointer[m], m)
    /\ \A u \in Joiner, m \in Member : About(view[u][m], m)
    /\ \A e \in Event : About(before[e], Target[e])
    /\ \A a \in Actor : writer[a] # Idle => About(writer[a].seen, Target[writer[a].event])

Before == {"make_join", "create", "send_join", "remote_state", "persist", "failed"}

\* The write of the step "persist" has got this far.
Underway(u) ==
    /\ writer[u].event = JoinOf[u] /\ writer[u].applies
    /\ writer[u].at = "pointer" => row[u] = JoinOf[u]

InEffectInv(u) ==
    /\ \A a \in Actor :
          writer[a] # Idle /\ Another(u, writer[a].event)
            => a = u /\ pos[u] = "remote_state"
    /\ pos[u] = "persist" /\ todo[u] = {} =>
          IF writer[u] = Idle THEN InEffect(u) ELSE Underway(u)
    /\ pos[u] \notin Before => InEffect(u)

ListsInv(u) ==
    /\ pos[u] = "remote_state" => todo[u] \subseteq First \cup Full
    /\ pos[u] = "resync" => todo[u] \subseteq Full

EffectInv ==
    \A u \in Joiner : ListsInv(u) /\ (Undisturbed(u) => InEffectInv(u))

\* A decision may be reversed, but an event that came stays one that came.
LEMMA CameStays ==
  ASSUME TypeOK, [Next]_vars, NEW e \in Event, Came(e)
  PROVE  Came(e)'
<1> USE DEF TypeOK, TablesOK, Came
<1>1. ASSUME NEW a \in Actor, MembershipWrite(a) PROVE Came(e)'
  BY <1>1 DEF MembershipWrite, Store, UpdateMembership, UpsertRoomState
<1>2. ASSUME NEW h \in Handler, NEW d \in Event,
             FetchAuthEvent(h, d) \/ Accept(h, d) \/ Reject(h, d)
      PROVE  Came(e)'
  BY <1>2 DEF FetchAuthEvent, Accept, Reject
<1>3. ASSUME NEW u \in Joiner, Settle(u) PROVE Came(e)'
  BY <1>3 DEF Settle
<1>4. ASSUME NEW u \in Joiner,
             \/ MarkPart(u) \/ StepFails(u) \/ Expire(u) \/ TakeCompletion(u)
             \/ MakeJoin(u) \/ CreateEvent(u) \/ SendJoin(u)
             \/ PersistAuthChain(u) \/ PersistSnapshot(u) \/ RemoteStateDone(u)
             \/ Persist(u) \/ PersistDone(u) \/ MarkMeta(u) \/ MarkCache(u)
             \/ Fetch(u) \/ ListMembers(u) \/ RestoreMember(u) \/ RestoreDone(u)
             \/ Publish(u) \/ CatchupMeta(u) \/ CatchupCache(u) \/ Reevaluate(u)
             \/ SettleDone(u) \/ CompleteMeta(u) \/ CompleteCache(u) \/ Clear(u)
             \/ Notify(u)
      PROVE  UNCHANGED decision
  BY <1>4 DEF MarkPart, StepFails, Expire, TakeCompletion, MakeJoin, CreateEvent,
              SendJoin, PersistAuthChain, PersistSnapshot, RemoteStateDone, Persist,
              PersistDone, MarkMeta, MarkCache, Fetch, ListMembers, RestoreMember,
              RestoreDone, Publish, CatchupMeta, CatchupCache, Reevaluate, SettleDone,
              CompleteMeta, CompleteCache, Clear, Notify
<1>5. UNCHANGED vars => UNCHANGED decision
  BY DEF vars
<1> QED BY <1>1, <1>2, <1>3, <1>4, <1>5 DEF Next, Advance

LEMMA DeferrableStays ==
  ASSUME TypeOK, [Next]_vars, NEW e \in Event, Deferrable(e)
  PROVE  Deferrable(e)'
BY CameStays DEF Deferrable

\* The steps that move a workflow or a marker and leave the tables, the
\* writers and the lists alone.
Moves(u) ==
    \/ MakeJoin(u) \/ CreateEvent(u) \/ SendJoin(u) \/ RemoteStateDone(u)
    \/ PersistDone(u) \/ MarkMeta(u) \/ MarkCache(u) \/ Fetch(u) \/ RestoreDone(u)
    \/ Publish(u) \/ CatchupMeta(u) \/ CatchupCache(u) \/ SettleDone(u)
    \/ CompleteMeta(u) \/ CompleteCache(u) \/ Clear(u) \/ Notify(u)

LEMMA MovesLeave ==
  ASSUME TypeOK, NEW u \in Joiner, Moves(u)
  PROVE  /\ UNCHANGED <<tables, writer, view>>
         /\ pos'[u] # "settle"
         /\ \A v \in Joiner \ {u} : pos'[v] = pos[v] /\ todo'[v] = todo[v]
BY DEF Moves, MakeJoin, CreateEvent, SendJoin, RemoteStateDone, PersistDone, MarkMeta,
       MarkCache, Fetch, RestoreDone, Publish, CatchupMeta, CatchupCache, SettleDone,
       CompleteMeta, CompleteCache, Clear, Notify, NextStep, Continue, Arrive,
       TypeOK, FlowOK

LEMMA AdvanceCases ==
  ASSUME NEW u \in Joiner, Advance(u)
  PROVE  \/ Moves(u) \/ PersistAuthChain(u) \/ PersistSnapshot(u) \/ Persist(u)
         \/ ListMembers(u) \/ RestoreMember(u) \/ Reevaluate(u) \/ Settle(u)
BY DEF Advance, Moves

LEMMA DeferredStep == TypeOK /\ DeferredInv /\ [Next]_vars => DeferredInv'
<1> SUFFICES ASSUME TypeOK, DeferredInv, [Next]_vars PROVE DeferredInv'
  OBVIOUS
<1> USE DEF DeferredInv
<1>0. /\ \A e \in Event : Came(e) => Came(e)'
      /\ \A e \in Event : Deferrable(e) => Deferrable(e)'
      /\ deferred \subseteq Event
      /\ \A u \in Joiner : pos[u] = "settle" => todo[u] \subseteq Event
      /\ \A a \in Actor : writer[a] # Idle => writer[a].event \in Event
  BY CameStays, DeferrableStays DEF TypeOK, TablesOK, FlowOK, Entries, Writing
<1>1. ASSUME NEW a \in Actor, MembershipWrite(a) PROVE DeferredInv'
  <2> DEFINE w == writer[a]
  <2>1. w \in Writing /\ w # Idle
    BY <1>1, WriterRecord DEF TypeOK, MembershipWrite, Store, UpdateMembership,
       UpsertRoomState, Idle
  <2>2. deferred' \subseteq deferred \cup (IF w.defer THEN {w.event} ELSE {})
    BY <1>1 DEF MembershipWrite, Store, UpdateMembership, UpsertRoomState
  <2>3. writer'[a] # Idle => writer'[a].event = w.event /\ writer'[a].defer = w.defer
    BY <1>1, <2>1 DEF MembershipWrite, Store, UpdateMembership, UpsertRoomState,
       TypeOK, Writing
  <2>4. \A b \in Actor \ {a} : writer'[b] = writer[b]
    BY <1>1 DEF MembershipWrite, Store, UpdateMembership, UpsertRoomState, TypeOK
  <2>5. UNCHANGED <<pos, todo>>
    BY <1>1 DEF MembershipWrite, Store, UpdateMembership, UpsertRoomState
  <2> QED BY <1>0, <2>1, <2>2, <2>3, <2>4, <2>5
<1>2. ASSUME NEW h \in Handler, NEW e \in Event,
             FetchAuthEvent(h, e) \/ Accept(h, e) \/ Reject(h, e)
      PROVE  DeferredInv'
  <2>1. UNCHANGED <<deferred, pos, todo>>
    BY <1>2 DEF FetchAuthEvent, Accept, Reject
  <2>2. \/ UNCHANGED writer
        \/ /\ Came(e)'
           /\ writer' = [writer EXCEPT ![h] =
                Write("store", e, room = "known" /\ ~Allowed(e, pointer), Kind[e] # "message")]
    BY <1>2 DEF FetchAuthEvent, Accept, Reject, CanIngest, Came, TypeOK, TablesOK
  <2>3. room = "known" /\ ~Allowed(e, pointer) => Kind[e] # "join"
    BY DEF Allowed
  <2>4. CASE UNCHANGED writer
    BY <1>0, <2>1, <2>4
  <2>5. CASE ~UNCHANGED writer
    <3>1. \A b \in Actor \ {h} : writer'[b] = writer[b]
      BY <2>2, <2>5 DEF TypeOK
    <3>2. /\ writer'[h].event = e
          /\ writer'[h].defer = (room = "known" /\ ~Allowed(e, pointer))
          /\ Came(e)'
      <4> DEFINE d == room = "known" /\ ~Allowed(e, pointer)
                 n == Kind[e] # "message"
      <4>1. writer' = [writer EXCEPT ![h] = Write("store", e, d, n)] /\ Came(e)'
        BY <2>2, <2>5
      <4> HIDE DEF d, n
      <4>2. writer'[h].event = e /\ writer'[h].defer = d
        BY <4>1 DEF Write, TypeOK, Actor
      <4> QED BY <4>1, <4>2 DEF d
    <3>3. writer'[h].defer => Deferrable(e)'
      BY <2>3, <3>2 DEF Deferrable
    <3> QED BY <1>0, <2>1, <3>1, <3>2, <3>3
  <2> QED BY <2>4, <2>5
<1>3. ASSUME NEW u \in Joiner, Moves(u) PROVE DeferredInv'
  BY <1>0, <1>3, MovesLeave
<1>4. ASSUME NEW u \in Joiner, PersistAuthChain(u) PROVE DeferredInv'
  BY <1>0, <1>4 DEF PersistAuthChain
<1>5. ASSUME NEW u \in Joiner, PersistSnapshot(u) \/ Persist(u) PROVE DeferredInv'
  <2>1. u \notin Handler
    BY Constants
  <2>2. writer'[u] # Idle => ~writer'[u].defer
    BY <1>5 DEF PersistSnapshot, Persist, Write, At, TypeOK, Actor
  <2>3. \A b \in Actor \ {u} : writer'[b] = writer[b]
    BY <1>5 DEF PersistSnapshot, Persist, TypeOK
  <2>4. /\ UNCHANGED deferred
        /\ \A v \in Joiner : pos'[v] = pos[v] /\ (pos[v] = "settle" => todo'[v] = todo[v])
    BY <1>5 DEF PersistSnapshot, Persist, At, Continue, Arrive, TypeOK, FlowOK
  <2> QED BY <1>0, <2>1, <2>2, <2>3, <2>4
<1>6. ASSUME NEW u \in Joiner, ListMembers(u) \/ Reevaluate(u) PROVE DeferredInv'
  BY <1>0, <1>6 DEF ListMembers, Reevaluate, TypeOK, FlowOK
<1>7. ASSUME NEW u \in Joiner, RestoreMember(u) \/ Settle(u) PROVE DeferredInv'
  <2>1. /\ UNCHANGED <<pos, writer>> /\ deferred' \subseteq deferred
        /\ \A v \in Joiner : todo'[v] \subseteq todo[v]
    BY <1>7 DEF RestoreMember, Settle, TypeOK, FlowOK
  <2> QED BY <1>0, <2>1
<1>8. ASSUME NEW u \in Joiner, StepFails(u) PROVE DeferredInv'
  <2>1. pos'[u] # "settle" /\ UNCHANGED deferred
    BY <1>8 DEF StepFails, StepStart, NextStep, Arrive, TypeOK, FlowOK
  <2>2. \A v \in Joiner \ {u} : pos'[v] = pos[v] /\ todo'[v] = todo[v]
    BY <1>8 DEF StepFails, NextStep, Arrive, TypeOK, FlowOK
  <2>3. \A b \in Actor : writer'[b] \in {writer[b], Idle}
    BY <1>8 DEF StepFails, TypeOK
  <2> QED BY <1>0, <2>1, <2>2, <2>3
<1>9. ASSUME NEW u \in Joiner, MarkPart(u) \/ Expire(u) \/ TakeCompletion(u)
      PROVE  DeferredInv'
  BY <1>0, <1>9 DEF MarkPart, Expire, TakeCompletion
<1>10. CASE UNCHANGED vars
  BY <1>0, <1>10 DEF vars
<1> QED BY <1>1, <1>2, <1>3, <1>4, <1>5, <1>6, <1>7, <1>8, <1>9, <1>10, AdvanceCases
        DEF Next

LEMMA DeferredInit == Init => DeferredInv
BY DEF Init, DeferredInv

LEMMA DeferredInductive == Spec => []DeferredInv
BY DeferredInit, DeferredStep, TypeCorrect, PTL DEF Spec

LEMMA SeenAbout ==
  ASSUME TypeOK, AboutInv, NEW e \in Event PROVE About(Seen(e), Target[e])
BY Constants DEF AboutInv, About, Seen, TypeOK, TablesOK

LEMMA PointAbout ==
  ASSUME TypeOK, AboutInv, NEW e \in Event, PointTo(e)
  PROVE  \A m \in Member : About(pointer'[m], m)
BY DEF AboutInv, About, PointTo, TypeOK, TablesOK

LEMMA AboutStep == TypeOK /\ AboutInv /\ [Next]_vars => AboutInv'
<1> SUFFICES ASSUME TypeOK, AboutInv, [Next]_vars PROVE AboutInv'
  OBVIOUS
<1> USE DEF AboutInv
<1>1. ASSUME NEW a \in Actor, MembershipWrite(a) PROVE AboutInv'
  <2> DEFINE w == writer[a]
  <2>1. w \in Writing /\ w # Idle
    BY <1>1, WriterRecord DEF TypeOK, MembershipWrite, Store, UpdateMembership,
       UpsertRoomState, Idle
  <2>2. w.event \in Event /\ About(w.seen, Target[w.event])
    BY <2>1 DEF Writing
  <2>3. \A m \in Member : About(pointer'[m], m)
    <3>1. PointTo(w.event) \/ UNCHANGED pointer
      BY <1>1 DEF MembershipWrite, Store, UpdateMembership, UpsertRoomState
    <3> QED BY <2>2, <3>1, PointAbout
  <2>4. \A e \in Event : About(before'[e], Target[e])
    <3>1. before' = [before EXCEPT ![w.event] = w.seen] \/ UNCHANGED before
      BY <1>1 DEF MembershipWrite, Store, UpdateMembership, UpsertRoomState
    <3> QED BY <2>2, <3>1 DEF TypeOK, TablesOK
  <2>5. writer'[a] # Idle => writer'[a].event = w.event /\ writer'[a].seen = w.seen
    BY <1>1, <2>1 DEF MembershipWrite, Store, UpdateMembership, UpsertRoomState,
       TypeOK, Writing
  <2>6. \A b \in Actor \ {a} : writer'[b] = writer[b]
    BY <1>1 DEF MembershipWrite, Store, UpdateMembership, UpsertRoomState, TypeOK
  <2>7. UNCHANGED view
    BY <1>1 DEF MembershipWrite, Store, UpdateMembership, UpsertRoomState
  <2> QED BY <2>2, <2>3, <2>4, <2>5, <2>6, <2>7
<1>2. ASSUME NEW h \in Handler, NEW e \in Event,
             FetchAuthEvent(h, e) \/ Accept(h, e) \/ Reject(h, e)
      PROVE  AboutInv'
  <2>1. UNCHANGED <<pointer, view, before>>
    BY <1>2 DEF FetchAuthEvent, Accept, Reject
  <2>2. \A b \in Actor \ {h} : writer'[b] = writer[b]
    BY <1>2 DEF FetchAuthEvent, Accept, Reject, TypeOK
  <2>3. \/ UNCHANGED writer
        \/ writer'[h].event = e /\ writer'[h].seen = Seen(e)
    BY <1>2 DEF FetchAuthEvent, Accept, Reject, Write, TypeOK, Actor
  <2> QED BY <2>1, <2>2, <2>3, SeenAbout
<1>3. ASSUME NEW u \in Joiner, Moves(u) PROVE AboutInv'
  BY <1>3, MovesLeave
<1>4. ASSUME NEW u \in Joiner, PersistAuthChain(u) PROVE AboutInv'
  BY <1>4 DEF PersistAuthChain
<1>5. ASSUME NEW u \in Joiner, PersistSnapshot(u) \/ Persist(u) PROVE AboutInv'
  <2>1. UNCHANGED <<pointer, view, before>>
    BY <1>5 DEF PersistSnapshot, Persist, Continue, Arrive
  <2>2. \A b \in Actor \ {u} : writer'[b] = writer[b]
    BY <1>5 DEF PersistSnapshot, Persist, TypeOK
  <2>3. PICK e \in Event : writer'[u] # Idle =>
                              writer'[u].event = e /\ writer'[u].seen = Seen(e)
    <3>1. CASE PersistSnapshot(u)
      <4>1. todo[u] \subseteq Event \cup {Base}
        BY <3>1 DEF PersistSnapshot, At, TypeOK, FlowOK, Entries
      <4>2. PICK x \in todo[u] :
               IF x = Base THEN UNCHANGED writer
                 ELSE writer'[u] # Idle =>
                        writer'[u].event = x /\ writer'[u].seen = Seen(x)
        BY <3>1 DEF PersistSnapshot, Write, TypeOK, Actor
      <4>3. writer[u] = Idle
        BY <3>1 DEF PersistSnapshot, At
      <4> QED BY <4>1, <4>2, <4>3, Constants
    <3>2. CASE Persist(u)
      BY <3>2, Constants DEF Persist, Write, TypeOK, Actor
    <3> QED BY <1>5, <3>1, <3>2
  <2> QED BY <2>1, <2>2, <2>3, SeenAbout
<1>6. ASSUME NEW u \in Joiner, ListMembers(u) \/ Reevaluate(u) PROVE AboutInv'
  BY <1>6 DEF ListMembers, Reevaluate, TypeOK, TablesOK, FlowOK
<1>7. ASSUME NEW u \in Joiner, RestoreMember(u) PROVE AboutInv'
  <2>1. PICK m \in todo[u] :
           IF Restorable(view[u][m])
             THEN pointer' = [pointer EXCEPT ![m] = before[view[u][m]]]
             ELSE UNCHANGED pointer
    BY <1>7 DEF RestoreMember
  <2>2. m \in Member
    BY <1>7 DEF RestoreMember, At, TypeOK, FlowOK, Entries
  <2>3. Restorable(view[u][m]) => About(before[view[u][m]], m)
    BY <2>2, Constants DEF Restorable, About, TypeOK, TablesOK
  <2>4. \A n \in Member : About(pointer'[n], n)
    BY <2>1, <2>3 DEF TypeOK, TablesOK
  <2> QED BY <1>7, <2>4 DEF RestoreMember
<1>8. ASSUME NEW u \in Joiner, Settle(u) PROVE AboutInv'
  <2>1. PICK e \in todo[u] :
          \/ UNCHANGED pointer
          \/ Target[e] # None /\ pointer' = [pointer EXCEPT ![Target[e]] = e]
          \/ Target[e] # None /\ pointer' = [pointer EXCEPT ![Target[e]] = before[e]]
    BY <1>8 DEF Settle
  <2>2. e \in Event
    BY <1>8 DEF Settle, At, TypeOK, FlowOK, Entries
  <2>3. About(before[e], Target[e]) /\ About(e, Target[e])
    BY <2>2 DEF About
  <2>4. \A n \in Member : About(pointer'[n], n)
    BY <2>1, <2>3 DEF TypeOK, TablesOK
  <2>5. \A c \in Event : before'[c] \in {before[c], None}
    BY <1>8 DEF Settle, TypeOK, TablesOK
  <2>6. \A c \in Event : About(before'[c], Target[c])
    BY <2>5 DEF About
  <2> QED BY <1>8, <2>4, <2>6 DEF Settle
<1>9. ASSUME NEW u \in Joiner, StepFails(u) PROVE AboutInv'
  BY <1>9 DEF StepFails, NextStep, Arrive, TypeOK
<1>10. ASSUME NEW u \in Joiner, MarkPart(u) \/ Expire(u) \/ TakeCompletion(u)
      PROVE  AboutInv'
  BY <1>10 DEF MarkPart, Expire, TakeCompletion
<1>11. CASE UNCHANGED vars
  BY <1>11 DEF vars
<1> QED BY <1>1, <1>2, <1>3, <1>4, <1>5, <1>6, <1>7, <1>8, <1>9, <1>10, <1>11,
           AdvanceCases DEF Next

LEMMA AboutInit == Init => AboutInv
BY DEF Init, AboutInv, About

LEMMA AboutInductive == Spec => []AboutInv
BY AboutInit, AboutStep, TypeCorrect, PTL DEF Spec

-----------------------------------------------------------------------------
(* What the answers may say about a joiner besides its join.  Other joins   *)
(* of one room race with it if the same answer is written by both; alone,   *)
(* what is new in the full state about the joiner must be in the auth chain *)
(* of its join, where the rules of the room put the joiner's last event.    *)

AnswersFit ==
    \A u \in Joiner, e \in Event :
        Another(u, e) /\ e \in First \cup Full
          => Joiner = {u} /\ (e \in Full => e \in Chain)

LEMMA UndisturbedBefore ==
  ASSUME TypeOK, [Next]_vars, NEW v \in Joiner, Undisturbed(v)'
  PROVE  Undisturbed(v)
BY CameStays DEF Undisturbed

\* A deferred event is never about a joiner that nothing disturbs.
LEMMA DeferredElsewhere ==
  ASSUME NEW v \in Joiner, Undisturbed(v), NEW e \in Event, Deferrable(e)
  PROVE  Target[e] # v
BY Events DEF Undisturbed, Deferrable, Another

LEMMA EffectElsewhere ==
  ASSUME NEW v \in Joiner, InEffectInv(v), UNCHANGED <<row, pointer, writer>>,
         pos'[v] = pos[v], todo'[v] = todo[v]
  PROVE  InEffectInv(v)'
BY DEF InEffectInv, InEffect, Underway

LEMMA WriteKeepsEffect ==
  ASSUME TypeOK, NEW v \in Joiner, InEffectInv(v), NEW a \in Actor, MembershipWrite(a)
  PROVE  InEffectInv(v)'
<1> DEFINE w == writer[a]
<1>1. w \in Writing /\ w # Idle
  BY WriterRecord DEF TypeOK, MembershipWrite, Store, UpdateMembership,
     UpsertRoomState, Idle
<1>2. w.event \in Event /\ v \in Member /\ v # None /\ v \in Actor
  BY <1>1, Constants DEF Writing, Actor
<1>3. UNCHANGED <<pos, todo>>
  BY DEF MembershipWrite, Store, UpdateMembership, UpsertRoomState
<1>4. writer'[a] # Idle => writer'[a].event = w.event
  BY <1>1 DEF MembershipWrite, Store, UpdateMembership, UpsertRoomState, TypeOK, Writing
<1>5. \A b \in Actor \ {a} : writer'[b] = writer[b]
  BY DEF MembershipWrite, Store, UpdateMembership, UpsertRoomState, TypeOK
<1>6. row'[v] = row[v] \/ (Target[w.event] = v /\ row'[v] = w.event)
  BY <1>2 DEF MembershipWrite, Store, UpdateMembership, UpsertRoomState, TypeOK, TablesOK
<1>7. pointer'[v] = pointer[v] \/ (Target[w.event] = v /\ pointer'[v] = w.event)
  BY <1>2 DEF MembershipWrite, Store, UpdateMembership, UpsertRoomState, PointTo,
     TypeOK, TablesOK
<1>8. pos[v] # "remote_state" => /\ row'[v] \in {row[v], JoinOf[v]}
                                 /\ pointer'[v] \in {pointer[v], JoinOf[v]}
  BY <1>1, <1>6, <1>7 DEF InEffectInv, Another
<1>9. \A b \in Actor : writer'[b] # Idle /\ Another(v, writer'[b].event)
                         => b = v /\ pos'[v] = "remote_state"
  BY <1>1, <1>3, <1>4, <1>5 DEF InEffectInv
<1>10. pos[v] \notin Before => InEffect(v)'
  BY <1>8 DEF InEffectInv, InEffect, Before
<1>11. ASSUME pos[v] = "persist", todo[v] = {}
       PROVE  IF writer'[v] = Idle THEN InEffect(v)' ELSE Underway(v)'
  <2>1. CASE a # v
    BY <1>2, <1>5, <1>8, <1>11, <2>1 DEF InEffectInv, InEffect, Underway
  <2>2. CASE a = v
    <3>1. Underway(v) /\ Target[JoinOf[v]] = v
      BY <1>1, <1>11, <2>2, Events DEF InEffectInv
    <3>2. CASE Store(v)
      <4>1. writer'[v] = [w EXCEPT !.at = "row"]
        BY <2>2, <3>1, <3>2 DEF Store, Underway, TypeOK
      <4>2. /\ writer'[v].at = "row" /\ writer'[v].event = w.event
            /\ writer'[v].applies = w.applies
        BY <1>1, <4>1 DEF Writing
      <4>3. writer'[v] # Idle
        BY <4>2 DEF Idle
      <4> QED BY <2>2, <3>1, <4>2, <4>3 DEF Underway
    <3>3. CASE UpdateMembership(v)
      <4>1. writer'[v] = [w EXCEPT !.at = "pointer"]
        BY <1>2, <2>2, <3>3 DEF UpdateMembership, TypeOK
      <4>2. /\ writer'[v].at = "pointer" /\ writer'[v].event = w.event
            /\ writer'[v].applies = w.applies
        BY <1>1, <4>1 DEF Writing
      <4>3. writer'[v] # Idle
        BY <4>2 DEF Idle
      <4>4. row'[v] = JoinOf[v]
        BY <1>2, <2>2, <3>1, <3>3 DEF UpdateMembership, Underway, TypeOK, TablesOK
      <4> QED BY <2>2, <3>1, <4>2, <4>3, <4>4 DEF Underway
    <3>4. CASE UpsertRoomState(v)
      <4>1. writer'[v] = Idle
        BY <1>2, <3>4 DEF UpsertRoomState, TypeOK
      <4>2. row'[v] = JoinOf[v] /\ pointer'[v] = JoinOf[v]
        BY <1>2, <2>2, <3>1, <3>4 DEF UpsertRoomState, Underway, PointTo, TypeOK, TablesOK
      <4> QED BY <4>1, <4>2 DEF InEffect
    <3> QED BY <2>2, <3>2, <3>3, <3>4 DEF MembershipWrite
  <2> QED BY <2>1, <2>2
<1> QED BY <1>3, <1>9, <1>10, <1>11 DEF InEffectInv

\* What the steps that move a workflow do to one joiner's place.
LEMMA MovesFit ==
  ASSUME TypeOK, NEW u \in Joiner, Moves(u)
  PROVE  /\ writer[u] = Idle
         /\ pos'[u] = "persist" => todo'[u] # {}
         /\ pos'[u] = "remote_state" => todo'[u] \subseteq First \cup Full
         /\ pos'[u] = "resync" => todo'[u] \subseteq Full
         /\ pos'[u] \notin Before =>
               pos[u] \notin Before \/ (pos[u] = "persist" /\ todo[u] = {})
<1> USE DEF TypeOK, FlowOK, At, NextStep, Continue, Arrive, Before
<1>1. CASE MakeJoin(u) \/ CreateEvent(u) \/ PersistDone(u)
  BY <1>1 DEF MakeJoin, CreateEvent, PersistDone
<1>6. CASE RemoteStateDone(u)
  <2>1. /\ writer[u] = Idle
        /\ \/ pos'[u] = "persist" /\ todo'[u] = {JoinOf[u]}
           \/ pos'[u] = "failed"
    BY <1>6 DEF RemoteStateDone
  <2> QED BY <2>1
<1>2. CASE SendJoin(u)
  BY <1>2 DEF SendJoin
<1>3. CASE MarkMeta(u) \/ MarkCache(u) \/ Fetch(u) \/ RestoreDone(u) \/ Publish(u)
  BY <1>3 DEF MarkMeta, MarkCache, Fetch, RestoreDone, Publish
<1>4. CASE CatchupMeta(u) \/ CatchupCache(u) \/ SettleDone(u) \/ CompleteMeta(u)
  BY <1>4 DEF CatchupMeta, CatchupCache, SettleDone, CompleteMeta
<1>5. CASE CompleteCache(u) \/ Clear(u) \/ Notify(u)
  BY <1>5 DEF CompleteCache, Clear, Notify
<1> QED BY <1>1, <1>2, <1>3, <1>4, <1>5, <1>6 DEF Moves

LEMMA SnapshotKeepsEffect ==
  ASSUME AnswersFit, TypeOK, DeferredInv, NEW u \in Joiner, ListsInv(u),
         NEW v \in Joiner, InEffectInv(v), PersistSnapshot(u)
  PROVE  InEffectInv(v)'
<1>1. PICK x \in todo[u] :
         /\ todo' = [todo EXCEPT ![u] = @ \ {x}]
         /\ IF x = Base
              THEN room' = "known" /\ UNCHANGED writer
              ELSE /\ room' = IF room = "unknown" THEN "stub" ELSE room
                   /\ writer' =
                        [writer EXCEPT ![u] =
                           IF x \notin stored
                             THEN Write("store", x, FALSE, SnapshotApplies(x))
                           ELSE IF SnapshotApplies(x)
                             THEN Write("row", x, FALSE, TRUE) ELSE Idle]
  BY DEF PersistSnapshot
<1>2. /\ pos[u] \in {"remote_state", "resync"} /\ Chain \subseteq stored
      /\ UNCHANGED <<pos, row, pointer>>
      /\ u \in Actor /\ v \in Actor /\ v \in Member /\ v # None
  BY Constants DEF PersistSnapshot, At, Actor
<1>3. \A b \in Actor \ {u} : writer'[b] = writer[b]
  BY <1>1 DEF TypeOK
<1>4. writer'[u] # Idle => x \in Event /\ writer'[u].event = x
  <2>1. x \in Event \cup {Base}
    BY <1>2 DEF TypeOK, FlowOK, Entries
  <2>2. writer[u] = Idle
    BY DEF PersistSnapshot, At
  <2> QED BY <1>1, <1>2, <2>1, <2>2 DEF Write, TypeOK
<1>5. ASSUME writer'[u] # Idle, Another(v, x)
      PROVE  u = v /\ pos[v] = "remote_state"
  <2>1. x \in Event /\ x \in First \cup Full
    BY <1>2, <1>4, <1>5 DEF ListsInv
  <2>2. u = v /\ (x \in Full => x \in Chain)
    BY <1>5, <2>1 DEF AnswersFit
  <2>3. ASSUME pos[u] = "resync" PROVE FALSE
    <3>1. x \in stored
      BY <1>2, <2>2, <2>3 DEF ListsInv
    <3>2. pointer[v] = JoinOf[v]
      BY <2>2, <2>3 DEF InEffectInv, InEffect, Before
    <3>3. Seen(x) = JoinOf[v]
      BY <1>2, <1>5, <3>2 DEF Seen, Another
    <3>4. JoinOf[v] \notin deferred /\ JoinOf[v] \in Event
      BY Constants, Events DEF DeferredInv, Deferrable
    <3>5. ~SnapshotApplies(x)
      BY <1>5, <3>3, <3>4, Constants DEF SnapshotApplies, Another
    <3>6. x # Base
      BY <2>1, Constants
    <3> QED BY <1>1, <1>2, <1>5, <3>1, <3>5, <3>6 DEF TypeOK
  <2> QED BY <1>2, <2>2, <2>3
<1>6. \A b \in Actor : writer'[b] # Idle /\ Another(v, writer'[b].event)
                         => b = v /\ pos'[v] = "remote_state"
  BY <1>2, <1>3, <1>4, <1>5 DEF InEffectInv
<1>7. pos[v] = "persist" => writer'[v] = writer[v] /\ todo'[v] = todo[v]
  BY <1>1, <1>2, <1>3 DEF TypeOK, FlowOK
<1> QED BY <1>2, <1>6, <1>7 DEF InEffectInv, InEffect, Underway

LEMMA JudgedElsewhere ==
  ASSUME TypeOK, DeferredInv, AboutInv, NEW u \in Joiner, NEW v \in Joiner,
         Undisturbed(v), RestoreMember(u) \/ Settle(u)
  PROVE  row'[v] = row[v] /\ pointer'[v] = pointer[v]
<1>0. v \in Member /\ v # None
  BY Constants
<1>1. CASE RestoreMember(u)
  <2>1. PICK m \in todo[u] :
           IF Restorable(view[u][m])
              THEN /\ pointer' = [pointer EXCEPT ![m] = before[view[u][m]]]
                   /\ row' = [row EXCEPT ![m] = before[view[u][m]]]
              ELSE UNCHANGED <<pointer, row>>
    BY <1>1 DEF RestoreMember
  <2>2. ASSUME Restorable(view[u][v]) PROVE FALSE
    <3>1. view[u][v] \in deferred /\ view[u][v] \in Event
      BY <2>2 DEF Restorable, TypeOK, TablesOK
    <3>2. Target[view[u][v]] = v
      BY <1>0, <3>1, Constants DEF AboutInv, About
    <3> QED BY <3>1, <3>2, DeferredElsewhere DEF DeferredInv
  <2> QED BY <1>0, <2>1, <2>2 DEF TypeOK, TablesOK
<1>2. CASE Settle(u)
  <2>1. PICK e \in todo[u] :
          \/ UNCHANGED pointer
          \/ pointer' = [pointer EXCEPT ![Target[e]] = e]
          \/ pointer' = [pointer EXCEPT ![Target[e]] = before[e]]
    BY <1>2 DEF Settle
  <2>2. e \in Event /\ Deferrable(e)
    BY <1>2 DEF Settle, At, TypeOK, FlowOK, Entries, DeferredInv
  <2>3. Target[e] # v
    BY <2>2, DeferredElsewhere
  <2> QED BY <1>0, <1>2, <2>1, <2>3 DEF Settle, TypeOK, TablesOK
<1> QED BY <1>1, <1>2

LEMMA EffectStep ==
  ASSUME AnswersFit
  PROVE  TypeOK /\ DeferredInv /\ AboutInv /\ EffectInv /\ [Next]_vars => EffectInv'
<1> SUFFICES ASSUME TypeOK, DeferredInv, AboutInv, EffectInv, [Next]_vars,
                    NEW v \in Joiner
             PROVE  ListsInv(v)' /\ (Undisturbed(v)' => InEffectInv(v)')
  BY DEF EffectInv
<1>0. /\ ListsInv(v) /\ (Undisturbed(v)' => Undisturbed(v) /\ InEffectInv(v))
      /\ v \in Actor
  BY UndisturbedBefore DEF EffectInv, Actor
<1>1. ASSUME NEW a \in Actor, MembershipWrite(a)
      PROVE  ListsInv(v)' /\ (Undisturbed(v)' => InEffectInv(v)')
  <2>1. UNCHANGED <<pos, todo>>
    BY <1>1 DEF MembershipWrite, Store, UpdateMembership, UpsertRoomState
  <2> QED BY <1>0, <1>1, <2>1, WriteKeepsEffect DEF ListsInv
<1>2. ASSUME NEW h \in Handler, NEW e \in Event,
             FetchAuthEvent(h, e) \/ Accept(h, e) \/ Reject(h, e)
      PROVE  ListsInv(v)' /\ (Undisturbed(v)' => InEffectInv(v)')
  <2>1. UNCHANGED <<pos, todo, row, pointer>>
    BY <1>2 DEF FetchAuthEvent, Accept, Reject
  <2>2. h # v /\ h \in Actor
    BY Constants DEF Actor
  <2>3. \A b \in Actor \ {h} : writer'[b] = writer[b]
    BY <1>2 DEF FetchAuthEvent, Accept, Reject, TypeOK
  <2>4. \/ UNCHANGED writer
        \/ writer'[h].event = e /\ Came(e)'
    BY <1>2, <2>2 DEF FetchAuthEvent, Accept, Reject, CanIngest, Came, Write, TypeOK, TablesOK
  <2>5. ASSUME Undisturbed(v)' PROVE InEffectInv(v)'
    <3>1. UNCHANGED writer \/ ~Another(v, writer'[h].event)
      BY <2>4, <2>5 DEF Undisturbed
    <3> QED BY <1>0, <2>1, <2>2, <2>3, <2>5, <3>1 DEF InEffectInv, InEffect, Underway
  <2> QED BY <1>0, <2>1, <2>5 DEF ListsInv
<1>3. ASSUME NEW u \in Joiner, Moves(u)
      PROVE  ListsInv(v)' /\ (Undisturbed(v)' => InEffectInv(v)')
  <2>1. /\ UNCHANGED <<row, pointer, writer>>
        /\ v # u => pos'[v] = pos[v] /\ todo'[v] = todo[v]
    BY <1>3, MovesLeave
  <2>2. CASE v = u
    BY <1>0, <1>3, <2>1, <2>2, MovesFit DEF ListsInv, InEffectInv, InEffect, Underway
  <2>3. CASE v # u
    BY <1>0, <2>1, <2>3, EffectElsewhere DEF ListsInv
  <2> QED BY <2>2, <2>3
<1>4. ASSUME NEW u \in Joiner, PersistAuthChain(u)
      PROVE  ListsInv(v)' /\ (Undisturbed(v)' => InEffectInv(v)')
  BY <1>0, <1>4, EffectElsewhere DEF PersistAuthChain, ListsInv
<1>5. ASSUME NEW u \in Joiner, PersistSnapshot(u)
      PROVE  ListsInv(v)' /\ (Undisturbed(v)' => InEffectInv(v)')
  <2>1. todo'[v] \subseteq todo[v] /\ UNCHANGED pos
    BY <1>5 DEF PersistSnapshot, TypeOK, FlowOK
  <2>2. ListsInv(u)
    BY DEF EffectInv
  <2> QED BY <1>0, <1>5, <2>1, <2>2, SnapshotKeepsEffect DEF ListsInv
<1>6. ASSUME NEW u \in Joiner, Persist(u)
      PROVE  ListsInv(v)' /\ (Undisturbed(v)' => InEffectInv(v)')
  <2>1. /\ UNCHANGED <<row, pointer>> /\ pos'[v] = pos[v]
        /\ todo'[v] \subseteq todo[v] /\ (v # u => todo'[v] = todo[v])
        /\ pos[u] = "persist"
    BY <1>6 DEF Persist, At, Continue, Arrive, TypeOK, FlowOK
  <2>2. /\ \A b \in Actor \ {u} : writer'[b] = writer[b]
        /\ writer'[u].event = JoinOf[u] /\ writer'[u].applies /\ writer'[u].at = "store"
    BY <1>6 DEF Persist, Write, TypeOK, Actor
  <2>3. writer'[u] # Idle
    BY <2>2 DEF Idle
  <2>4. ~Another(v, JoinOf[u])
    BY Events DEF Another
  <2> QED BY <1>0, <2>1, <2>2, <2>3, <2>4 DEF ListsInv, InEffectInv, InEffect, Underway, Before
<1>7. ASSUME NEW u \in Joiner, ListMembers(u) \/ Reevaluate(u)
      PROVE  ListsInv(v)' /\ (Undisturbed(v)' => InEffectInv(v)')
  <2>1. /\ UNCHANGED <<row, pointer, writer>> /\ writer[u] = Idle
        /\ pos[u] \in {"resync", "reevaluate"} /\ pos'[u] \in {"restore", "settle"}
        /\ v # u => pos'[v] = pos[v] /\ todo'[v] = todo[v]
    BY <1>7 DEF ListMembers, Reevaluate, At, TypeOK, FlowOK
  <2>2. CASE v = u
    BY <1>0, <2>1, <2>2 DEF ListsInv, InEffectInv, InEffect, Before
  <2>3. CASE v # u
    BY <1>0, <2>1, <2>3, EffectElsewhere DEF ListsInv
  <2> QED BY <2>2, <2>3
<1>8. ASSUME NEW u \in Joiner, RestoreMember(u) \/ Settle(u)
      PROVE  ListsInv(v)' /\ (Undisturbed(v)' => InEffectInv(v)')
  <2>1. /\ UNCHANGED <<pos, writer>> /\ todo'[v] \subseteq todo[v]
        /\ pos[u] \in {"restore", "settle"} /\ (v # u => todo'[v] = todo[v])
    BY <1>8 DEF RestoreMember, Settle, At, TypeOK, FlowOK
  <2>2. Undisturbed(v)' => row'[v] = row[v] /\ pointer'[v] = pointer[v]
    BY <1>0, <1>8, JudgedElsewhere
  <2> QED BY <1>0, <2>1, <2>2 DEF ListsInv, InEffectInv, InEffect, Underway, Before
<1>9. ASSUME NEW u \in Joiner, StepFails(u)
      PROVE  ListsInv(v)' /\ (Undisturbed(v)' => InEffectInv(v)')
  <2>1. /\ UNCHANGED <<row, pointer>> /\ writer'[u] = Idle
        /\ \A b \in Actor \ {u} : writer'[b] = writer[b]
        /\ v # u => pos'[v] = pos[v] /\ todo'[v] = todo[v]
    BY <1>9 DEF StepFails, NextStep, Arrive, TypeOK, FlowOK, Actor
  <2>2. /\ pos'[u] = "remote_state" => todo'[u] \subseteq First \cup Full
        /\ pos'[u] = "persist" => todo'[u] # {}
        /\ pos'[u] # "resync"
        /\ pos'[u] \notin Before => pos[u] \notin Before
    <3>1. CASE attempt[u] < Retries
      <4>1. pos'[u] = StepStart(pos[u]) /\ todo'[u] = StepEntries(u)
        BY <1>9, <3>1 DEF StepFails, Arrive, TypeOK, FlowOK
      <4>2. /\ StepStart(pos[u]) \in {"remote_state", "persist"} => pos[u] = StepStart(pos[u])
            /\ StepStart(pos[u]) # "resync"
            /\ pos[u] \in Before => StepStart(pos[u]) = pos[u]
        BY DEF StepStart, Before
      <4>3. /\ pos[u] = "remote_state" => StepEntries(u) \subseteq First \cup Full
            /\ pos[u] = "persist" => StepEntries(u) # {}
        BY DEF StepEntries
      <4> QED BY <4>1, <4>2, <4>3
    <3>2. CASE ~(attempt[u] < Retries)
      BY <1>9, <3>2 DEF StepFails, NextStep, Arrive, TypeOK, FlowOK, Before
    <3> QED BY <3>1, <3>2
  <2>3. CASE v = u
    BY <1>0, <2>1, <2>2, <2>3 DEF ListsInv, InEffectInv, InEffect
  <2>4. CASE v # u
    BY <1>0, <2>1, <2>4 DEF ListsInv, InEffectInv, InEffect, Underway
  <2> QED BY <2>3, <2>4
<1>10. ASSUME NEW u \in Joiner, MarkPart(u) \/ Expire(u) \/ TakeCompletion(u)
      PROVE  ListsInv(v)' /\ (Undisturbed(v)' => InEffectInv(v)')
  BY <1>0, <1>10, EffectElsewhere DEF MarkPart, Expire, TakeCompletion, ListsInv
<1>11. CASE UNCHANGED vars
  BY <1>0, <1>11, EffectElsewhere DEF vars, ListsInv
<1> QED BY <1>1, <1>2, <1>3, <1>4, <1>5, <1>6, <1>7, <1>8, <1>9, <1>10, <1>11,
           AdvanceCases DEF Next

LEMMA EffectInit == Init => EffectInv
BY DEF Init, EffectInv, ListsInv, InEffectInv, Before

(* Whatever step of a join was started again, and whatever the answers hold *)
(* about what the joiner was before: once the join has succeeded, it is in  *)
(* effect until an event about the joiner comes from outside.               *)
LEMMA JoinLasts ==
  ASSUME AnswersFit
  PROVE  Spec => [](\A u \in Joiner :
                       pos[u] = "joined" /\ Undisturbed(u) => InEffect(u))
<1>1. EffectInv => \A u \in Joiner : pos[u] = "joined" /\ Undisturbed(u) => InEffect(u)
  BY DEF EffectInv, InEffectInv, Before
<1>2. TypeOK /\ DeferredInv /\ AboutInv /\ EffectInv /\ [Next]_vars => EffectInv'
  BY EffectStep
<1> QED BY <1>1, <1>2, EffectInit, TypeCorrect, DeferredInductive, AboutInductive, PTL
        DEF Spec

(* A join that succeeds is in effect, for any number of joiners, members,   *)
(* handlers and restarts, if no other event about a joiner is delivered.    *)
THEOREM JoinTakesEffect ==
  ASSUME AnswersFit, \A u \in Joiner, e \in Delivered : Target[e] = u => e = JoinOf[u]
  PROVE  Spec => []JoinIsInEffect
<1>1. \A u \in Joiner : Undisturbed(u)
  BY DEF Undisturbed, Another, Came
<1>2. (\A u \in Joiner : pos[u] = "joined" /\ Undisturbed(u) => InEffect(u))
        => JoinIsInEffect
  BY <1>1 DEF JoinIsInEffect
<1> QED BY <1>2, JoinLasts, PTL

=============================================================================
