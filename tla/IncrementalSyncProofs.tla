----------------------- MODULE IncrementalSyncProofs -----------------------
(***************************************************************************)
(* For every set of events, changes and concurrent handlers: the reader's  *)
(* token never goes back, and, while no more events are stored than        *)
(* getEventsSince returns, an answer covers what was stored when its token *)
(* was read.  With one handler at a time and no account data the answer    *)
(* covers everything at or below its token: no event is ever skipped.      *)
(*                                                                         *)
(* A token is a number that some row reaches (Reached), and the numbers of *)
(* rows never fall, so the latest position is never below a token that was *)
(* given out.  Nothing is skipped because a lone handler's number is above *)
(* all rows (NumberAhead), hence above every token, so that whatever is    *)
(* inserted after a position was read lies beyond it (SnapshotBelow).      *)
(***************************************************************************)
EXTENDS IncrementalSync, EventStreamProofs, FiniteSetTheorems

-----------------------------------------------------------------------------
(* What a handler's step does to the numbers.                               *)

Others(w) == \A v \in Writer : v # w => writers'[v] = writers[v]
SameItem(w) == writers'[w].item = writers[w].item
Numbers == <<ordering, changes>>

Passes(w) ==
    /\ UNCHANGED Numbers
    /\ writers'[w].at \notin {"insert", "changes", "put"}
    /\ SameItem(w) \/ writers'[w].item \notin Change

Numbered(w) ==
    /\ UNCHANGED Numbers
    /\ writers'[w].at = "insert" /\ SameItem(w)
    /\ writers[w].at = "number"
    /\ \A e \in Event : writers'[w].pos > ordering[e]

Inserts(w) ==
    /\ UNCHANGED changes
    /\ writers[w].at = "insert" /\ writers[w].item \in Event
    /\ writers'[w].at \notin {"insert", "changes", "put"} /\ SameItem(w)
    /\ ordering' = [ordering EXCEPT ![writers[w].item] = IF @ > 0 THEN @ ELSE writers[w].pos]

BeginsChange(w) ==
    /\ UNCHANGED Numbers
    /\ writers'[w].at = "changes"
    /\ writers'[w].item \in Change
    /\ changes[writers'[w].item] = 0
    /\ \A v \in Writer : writers[v].item # writers'[w].item

Positioned(w) ==
    /\ UNCHANGED Numbers
    /\ writers[w].at = "changes" /\ writers'[w].at = "put" /\ SameItem(w)

Changes(w) ==
    /\ UNCHANGED ordering
    /\ writers[w].at = "put" /\ writers[w].item \in Change
    /\ writers'[w].at = "notify" /\ SameItem(w)
    /\ changes' = [changes EXCEPT ![writers[w].item] = writers[w].pos]

Shape(w) ==
    /\ Others(w)
    /\ Passes(w) \/ Numbered(w) \/ Inserts(w) \/ BeginsChange(w) \/ Positioned(w) \/ Changes(w)

LEMMA TopBounds ==
  ASSUME NEW numbers \in SUBSET Nat, NEW n \in Top(numbers), NEW m \in numbers
  PROVE  m <= n /\ n \in numbers
  BY DEF Top

LEMMA OneWriterMoves ==
  ASSUME StreamTypeOK, NEW w \in Writer, NEW run, writers' = [writers EXCEPT ![w] = run]
  PROVE  Others(w) /\ writers'[w] = run
  BY DEF StreamTypeOK, Others

LEMMA GoToMoves ==
  ASSUME StreamTypeOK, NEW w \in Writer, NEW place \in Places, GoTo(w, place)
  PROVE  Others(w) /\ writers'[w].at = place /\ SameItem(w)
  <1>1. Others(w)
    BY DEF StreamTypeOK, GoTo, Others
  <1> QED BY <1>1, GoToStep DEF SameItem

LEMMA StepShape ==
  ASSUME StreamInv, StreamNext
  PROVE  \E w \in Writer : Shape(w)
  <1> USE DEF Places
  <1>0. /\ StreamTypeOK /\ Targets
        /\ \A w \in Writer : writers[w] \in WriterRecord
        /\ Orderings \in SUBSET Nat /\ Positions \in SUBSET Nat
    BY NumberSets DEF StreamInv, StreamTypeOK
  <1>1. ASSUME NEW w \in Writer, NEW e \in Event, NEW mode \in {"live", "historical"},
               StoreEvent(w, e, mode)
        PROVE  Shape(w)
    <2> DEFINE run == Handling("exists", e, mode, 0)
    <2>1. run.at = "exists" /\ run.item = e /\ e \notin Change
      BY HandlingType, StreamAssumption, "exists" \in Places
    <2>2. writers' = [writers EXCEPT ![w] = run] /\ UNCHANGED tables
      BY <1>1 DEF StoreEvent
    <2> HIDE DEF run
    <2> QED BY <1>0, <2>1, <2>2, OneWriterMoves DEF Shape, Passes, Numbers, tables
  <1>2. ASSUME NEW w \in Writer, NEW c \in Change, PutAccountData(w, c)
        PROVE  Shape(w)
    <2>1. PICK top \in Top(Orderings) :
              writers' = [writers EXCEPT ![w] = Handling("changes", c, "live", top)]
      BY <1>2 DEF PutAccountData
    <2> DEFINE run == Handling("changes", c, "live", top)
    <2>2. run.at = "changes" /\ run.item = c
      BY <1>0, <2>1, TopType, HandlingType, "changes" \in Places
    <2>3. writers' = [writers EXCEPT ![w] = run] /\ UNCHANGED tables
      BY <1>2, <2>1 DEF PutAccountData
    <2>4. changes[c] = 0 /\ \A v \in Writer : writers[v].item # c
      BY <1>2 DEF PutAccountData
    <2> HIDE DEF run
    <2> QED BY <1>0, <2>2, <2>3, <2>4, OneWriterMoves DEF Shape, BeginsChange, Numbers, tables
  <1>3. ASSUME NEW w \in Writer, LookUp(w)
        PROVE  Shape(w)
    <2> DEFINE place == IF ordering[writers[w].item] > 0 THEN AfterInsert(w) ELSE "number"
    <2>1. place \in {"number", "state", "notify"}
      BY AfterInsertType
    <2>2. GoTo(w, place) /\ UNCHANGED tables
      BY <1>3 DEF LookUp
    <2> HIDE DEF place
    <2>3. place \in Places
      BY <2>1
    <2> QED BY <1>0, <2>1, <2>2, <2>3, GoToMoves DEF Shape, Passes, Numbers, tables
  <1>4. ASSUME NEW w \in Writer, TakeNumber(w)
        PROVE  Shape(w)
    <2>1. PICK top \in Top(Orderings) :
              writers' = [writers EXCEPT ![w] = Handling("insert", @.item, @.mode, top + 1)]
      BY <1>4 DEF TakeNumber
    <2> DEFINE run == Handling("insert", writers[w].item, writers[w].mode, top + 1)
    <2>2. top \in Nat /\ writers[w].at = "number"
      BY <1>0, <1>4, <2>1, TopType DEF TakeNumber
    <2>3. run.at = "insert" /\ run.item = writers[w].item /\ run.pos = top + 1
      BY DEF Handling
    <2>4. writers' = [writers EXCEPT ![w] = run] /\ UNCHANGED tables
      BY <1>4, <2>1 DEF TakeNumber
    <2>5. \A e \in Event : run.pos > ordering[e]
      <3> TAKE e \in Event
      <3>1. ordering[e] \in Orderings /\ ordering[e] \in Nat
        BY <1>0 DEF Orderings, StreamTypeOK
      <3>2. ordering[e] <= top
        BY <1>0, <2>1, <3>1, TopBounds
      <3> HIDE DEF run
      <3> QED BY <2>2, <2>3, <3>1, <3>2
    <2> HIDE DEF run
    <2> QED BY <1>0, <2>2, <2>3, <2>4, <2>5, OneWriterMoves
            DEF Shape, Numbered, SameItem, Numbers, tables
  <1>5. ASSUME NEW w \in Writer, Insert(w)
        PROVE  Shape(w)
    <2>1. AfterInsert(w) \in {"state", "notify"} /\ writers[w].item \in Event
      BY <1>0, <1>5, AfterInsertType DEF Insert, Targets
    <2>2. Others(w) /\ writers'[w].at = AfterInsert(w) /\ SameItem(w)
      BY <1>0, <1>5, <2>1, GoToMoves DEF Insert
    <2> QED BY <1>5, <2>1, <2>2 DEF Insert, Shape, Inserts
  <1>6. ASSUME NEW w \in Writer, SetState(w)
        PROVE  Shape(w)
    BY <1>0, <1>6, GoToMoves, "notify" \in Places DEF SetState, Shape, Passes, Numbers
  <1>7. ASSUME NEW w \in Writer, TakePosition(w)
        PROVE  Shape(w)
    <2>1. PICK top \in Top(Positions \cup {writers[w].pos}) :
              writers' = [writers EXCEPT ![w] = Handling("put", @.item, @.mode, top + 1)]
      BY <1>7 DEF TakePosition
    <2>2. top \in Nat
      <3>1. Positions \cup {writers[w].pos} \in SUBSET Nat
        BY <1>0 DEF WriterRecord
      <3> QED BY <2>1, <3>1, TopType
    <2> DEFINE run == Handling("put", writers[w].item, writers[w].mode, top + 1)
    <2>3. run.at = "put" /\ run.item = writers[w].item
      BY DEF Handling
    <2>4. writers' = [writers EXCEPT ![w] = run] /\ UNCHANGED tables /\ writers[w].at = "changes"
      BY <1>7, <2>1 DEF TakePosition
    <2> HIDE DEF run
    <2> QED BY <1>0, <2>3, <2>4, OneWriterMoves DEF Shape, Positioned, SameItem, Numbers, tables
  <1>8. ASSUME NEW w \in Writer, PutBatch(w)
        PROVE  Shape(w)
    <2>1. writers[w].item \in Change
      BY <1>0, <1>8 DEF PutBatch, Targets
    <2> QED BY <1>0, <1>8, <2>1, GoToMoves, "notify" \in Places DEF PutBatch, Shape, Changes
  <1>9. ASSUME NEW w \in Writer, Notified(w) \/ Abandon(w)
        PROVE  Shape(w)
    <2>1. Free.at = "idle" /\ Free.item \notin Change
      BY FreeType, StreamAssumption DEF Free, Handling
    <2>2. writers' = [writers EXCEPT ![w] = Free] /\ UNCHANGED tables
      BY <1>9 DEF Notified, Abandon
    <2> QED BY <1>0, <2>1, <2>2, OneWriterMoves DEF Shape, Passes, Numbers, tables
  <1> QED BY <1>1, <1>2, <1>3, <1>4, <1>5, <1>6, <1>7, <1>8, <1>9
          DEF StreamNext, Statement

-----------------------------------------------------------------------------
(* The numbers of rows never fall.                                          *)

\* A handler about to record a change is alone with it.
ChangeFresh ==
    \A w \in Writer : writers[w].at \in {"changes", "put"} =>
        /\ changes[writers[w].item] = 0
        /\ \A v \in Writer : v # w => writers[v].item # writers[w].item

NumbersGrow ==
    /\ \A e \in Event : ordering[e] > 0 => ordering'[e] = ordering[e]
    /\ \A c \in Change : changes[c] > 0 => changes'[c] = changes[c]

LEMMA FreshInit == StreamInit => ChangeFresh
  BY FreeType DEF StreamInit, ChangeFresh

LEMMA FreshStep ==
  ASSUME StreamInv, ChangeFresh, [StreamNext]_streamVars
  PROVE  ChangeFresh' /\ NumbersGrow
  <1>0. /\ ordering \in [Event -> Nat] /\ changes \in [Change -> Nat]
        /\ \A w \in Writer : writers[w].at \in {"changes", "put"} => writers[w].item \in Change
    BY DEF StreamInv, StreamTypeOK, Targets
  <1>1. CASE UNCHANGED streamVars
    BY <1>1 DEF streamVars, tables, ChangeFresh, NumbersGrow
  <1>2. CASE StreamNext
    <2>1. PICK w \in Writer : Shape(w)
      BY <1>2, StepShape
    <2>2. CASE Passes(w) \/ Numbered(w)
      BY <1>0, <2>1, <2>2
         DEF Shape, Others, Passes, Numbered, SameItem, Numbers, ChangeFresh, NumbersGrow
    <2>3. CASE Inserts(w)
      BY <1>0, <2>1, <2>3 DEF Shape, Others, Inserts, SameItem, ChangeFresh, NumbersGrow
    <2>4. CASE BeginsChange(w)
      BY <1>0, <2>1, <2>4 DEF Shape, Others, BeginsChange, Numbers, ChangeFresh, NumbersGrow
    <2>5. CASE Positioned(w)
      BY <1>0, <2>1, <2>5
         DEF Shape, Others, Positioned, SameItem, Numbers, ChangeFresh, NumbersGrow
    <2>6. CASE Changes(w)
      BY <1>0, <2>1, <2>6 DEF Shape, Others, Changes, SameItem, ChangeFresh, NumbersGrow
    <2> QED BY <2>1, <2>2, <2>3, <2>4, <2>5, <2>6 DEF Shape
  <1> QED BY <1>1, <1>2

-----------------------------------------------------------------------------
(* The reader beside the stream: its steps leave the stream alone, and a    *)
(* handler's step is one of the stream.                                     *)

Asks == \/ \E patient \in BOOLEAN : Poll(patient)
        \/ Read \/ WaitFails \/ Respond \/ Lose

LEMMA NextIsStream == Next => [StreamNext]_streamVars
  <1> SUFFICES ASSUME Next PROVE [StreamNext]_streamVars
    OBVIOUS
  <1>1. ASSUME NEW w \in Writer, Handle(w)
        PROVE  StreamNext
    BY <1>1 DEF Handle, HandleSteadily, Notify, NotifyFails, StreamNext
  <1>2. CASE Asks
    BY <1>2 DEF Asks, Poll, Read, ReadPosition, ReadTimeline, ReadAccountData, WaitForEvents,
                TimeOut, WaitFails, Respond, Lose
  <1> QED BY <1>1, <1>2 DEF Next, Asks

LEMMA StepIsStream == [Next]_vars => [StreamNext]_streamVars
  BY NextIsStream DEF vars

\* /sync runs over the stream of EventStream: what is proved of that one holds
\* beside any number of polls.
THEOREM SyncKeepsStream == Spec => StreamSpec
  <1>1. Init => StreamInit
    BY DEF Init
  <1> QED BY <1>1, StepIsStream, PTL DEF Spec, StreamSpec

-----------------------------------------------------------------------------
(* Types.                                                                   *)

SyncTypeOK ==
    /\ since \in Nat
    /\ covered \subseteq Event
    /\ seen \subseteq Change
    /\ request \in RequestRecord
    /\ snapshot \subseteq Event

LEMMA LatestNumber ==
  ASSUME StreamTypeOK, NEW top \in LatestPosition
  PROVE  /\ top \in Nat
         /\ \A e \in Event : ordering[e] <= top
         /\ \A c \in Change : changes[c] <= top
         /\ top = 0 \/ (\E e \in Event : ordering[e] = top) \/ (\E c \in Change : changes[c] = top)
  <1>1. Orderings \cup Positions \in SUBSET Nat
    BY NumberSets
  <1> QED BY <1>1, TopBounds DEF LatestPosition, Orderings, Positions

LEMMA AssemblingType ==
  ASSUME NEW patient \in BOOLEAN
  PROVE  /\ Assembling(patient) \in RequestRecord /\ Assembling(patient).stage = "position"
         /\ NoRequest \in RequestRecord /\ NoRequest.stage = "idle"
  BY DEF Assembling, NoRequest, RequestRecord, Stages

LEMMA SyncTypeStep ==
  ASSUME StreamTypeOK, SyncTypeOK, [Next]_vars
  PROVE  SyncTypeOK'
  <1> USE DEF SyncTypeOK
  <1>1. ASSUME NEW w \in Writer, Handle(w)
        PROVE  SyncTypeOK'
    BY <1>1, AssemblingType DEF Handle, HandleSteadily, Notify, NotifyFails, syncVars
  <1>2. ASSUME NEW patient \in BOOLEAN, Poll(patient)
        PROVE  SyncTypeOK'
    BY <1>2, AssemblingType DEF Poll
  <1>3. CASE ReadPosition
    <2>1. PICK top \in LatestPosition :
              request' = [request EXCEPT !.stage = "timeline", !.pos = top]
      BY <1>3 DEF ReadPosition
    <2>2. top \in Nat
      BY <2>1, LatestNumber
    <2> QED BY <1>3, <2>1, <2>2 DEF ReadPosition, RequestRecord, Stages, Stored
  <1>4. CASE ReadTimeline
    BY <1>4 DEF ReadTimeline, RequestRecord, Stages, EventsSince, Stored
  <1>5. CASE ReadAccountData
    BY <1>5 DEF ReadAccountData, RequestRecord, Stages, ChangesSince, Changed
  <1>6. CASE WaitForEvents
    BY <1>6 DEF WaitForEvents, RequestRecord, Stages
  <1>7. CASE TimeOut \/ WaitFails \/ Lose
    BY <1>7, AssemblingType DEF TimeOut, WaitFails, Lose
  <1>8. CASE Respond
    BY <1>8, AssemblingType DEF Respond, RequestRecord
  <1>9. CASE UNCHANGED vars
    BY <1>9 DEF vars, syncVars
  <1> QED BY <1>1, <1>2, <1>3, <1>4, <1>5, <1>6, <1>7, <1>8, <1>9 DEF Next, Read

-----------------------------------------------------------------------------
(* The token.                                                               *)

\* Some row has the number p or a later one; or will have after the step.
Reached(p) ==
    \/ p = 0
    \/ \E e \in Event : ordering[e] >= p
    \/ \E c \in Change : changes[c] >= p

StillReached(p) ==
    \/ p = 0
    \/ \E e \in Event : ordering'[e] >= p
    \/ \E c \in Change : changes'[c] >= p

PositionRead == request.stage \notin {"idle", "position"}

TokenInv ==
    /\ Reached(since)
    /\ PositionRead => since <= request.pos /\ Reached(request.pos)

LEMMA ReachedStep ==
  ASSUME StreamTypeOK, NumbersGrow, NEW p \in Nat, Reached(p)
  PROVE  StillReached(p)
  BY DEF StreamTypeOK, NumbersGrow, Reached, StillReached

LEMMA LatestReached ==
  ASSUME StreamTypeOK, NEW top \in LatestPosition
  PROVE  /\ Reached(top)
         /\ \A p \in Nat : Reached(p) => p <= top
  BY LatestNumber DEF Reached, StreamTypeOK

\* The four things a step does to the request and the token.
NoNewPosition == since' = since /\ ~PositionRead'
SamePosition  == since' = since /\ PositionRead /\ PositionRead' /\ request'.pos = request.pos
NewPosition   == /\ since' = since
                 /\ request'.pos \in LatestPosition /\ UNCHANGED Numbers
NewToken      == since' = request.pos /\ PositionRead /\ ~PositionRead'

LEMMA RequestStep ==
  ASSUME SyncTypeOK, [Next]_vars
  PROVE  NoNewPosition \/ SamePosition \/ NewPosition \/ NewToken
                       \/ UNCHANGED <<since, request>>
  <1> USE DEF PositionRead
  <1>0. request \in RequestRecord
    BY DEF SyncTypeOK
  <1>1. ASSUME NEW w \in Writer, Handle(w)
        PROVE  NoNewPosition \/ UNCHANGED <<since, request>>
    BY <1>1, AssemblingType
       DEF Handle, HandleSteadily, Notify, NotifyFails, syncVars, NoNewPosition
  <1>2. ASSUME NEW patient \in BOOLEAN, Poll(patient)
        PROVE  NoNewPosition
    BY <1>2, AssemblingType DEF Poll, NoNewPosition
  <1>3. CASE ReadPosition
    BY <1>0, <1>3 DEF ReadPosition, RequestRecord, NewPosition, Numbers, streamVars, tables
  <1>4. CASE ReadTimeline \/ ReadAccountData \/ WaitForEvents
    BY <1>0, <1>4
       DEF ReadTimeline, ReadAccountData, WaitForEvents, RequestRecord, SamePosition
  <1>5. CASE TimeOut \/ WaitFails \/ Lose
    BY <1>5, AssemblingType DEF TimeOut, WaitFails, Lose, NoNewPosition
  <1>6. CASE Respond
    BY <1>6, AssemblingType DEF Respond, NewToken
  <1>7. CASE UNCHANGED vars
    BY <1>7 DEF vars, syncVars
  <1> QED BY <1>1, <1>2, <1>3, <1>4, <1>5, <1>6, <1>7 DEF Next, Read

LEMMA TokenStep ==
  ASSUME StreamTypeOK, SyncTypeOK, NumbersGrow, TokenInv, [Next]_vars
  PROVE  TokenInv' /\ since' >= since
  <1>0. since \in Nat /\ request.pos \in Nat
    BY DEF SyncTypeOK, RequestRecord
  <1>1. StillReached(since) /\ (PositionRead => StillReached(request.pos))
    BY <1>0, ReachedStep DEF TokenInv
  <1>2. CASE NoNewPosition
    BY <1>0, <1>1, <1>2 DEF NoNewPosition, TokenInv, Reached, StillReached
  <1>3. CASE SamePosition
    BY <1>0, <1>1, <1>3 DEF SamePosition, TokenInv, Reached, StillReached
  <1>4. CASE NewPosition
    <2>1. Reached(request'.pos) /\ since <= request'.pos
      BY <1>0, <1>4, LatestReached DEF NewPosition, TokenInv
    <2> QED BY <1>0, <1>1, <1>4, <2>1 DEF NewPosition, Numbers, TokenInv, Reached, StillReached
  <1>5. CASE NewToken
    BY <1>0, <1>1, <1>5 DEF NewToken, TokenInv, Reached, StillReached
  <1>6. CASE UNCHANGED <<since, request>>
    BY <1>0, <1>1, <1>6 DEF TokenInv, PositionRead, Reached, StillReached
  <1> QED BY <1>2, <1>3, <1>4, <1>5, <1>6, RequestStep

SyncInv == StreamInv /\ ChangeFresh /\ SyncTypeOK /\ TokenInv

LEMMA SyncInit == Init => SyncInv
  <1> SUFFICES ASSUME Init PROVE SyncInv
    OBVIOUS
  <1>1. StreamInv /\ ChangeFresh
    BY InitInv, FreshInit DEF Init
  <1>2. NoRequest \in RequestRecord /\ NoRequest.stage = "idle"
    BY AssemblingType
  <1> QED BY <1>1, <1>2 DEF Init, SyncInv, SyncTypeOK, TokenInv, Reached, PositionRead

LEMMA SyncStep ==
  ASSUME SyncInv, [Next]_vars
  PROVE  SyncInv' /\ NumbersGrow /\ since' >= since
  <1>1. StreamInv' /\ ChangeFresh' /\ NumbersGrow
    BY StepIsStream, StepInv, FreshStep DEF SyncInv
  <1>2. StreamTypeOK
    BY DEF SyncInv, StreamInv
  <1> QED BY <1>1, <1>2, SyncTypeStep, TokenStep DEF SyncInv

\* Tokens and positions stay numbers that rows have reached, from any reachable state.
THEOREM SyncInductive == Spec => []SyncInv
  <1>1. SyncInv /\ [Next]_vars => SyncInv'
    BY SyncStep
  <1> QED BY <1>1, SyncInit, PTL DEF Spec

\* Every variable of /sync and of the stream beside it keeps its type.
THEOREM SyncTypeCorrect == Spec => []TypeOK
  <1>1. SyncInv => TypeOK
    BY DEF SyncInv, StreamInv, SyncTypeOK, TypeOK
  <1> QED BY <1>1, SyncInductive, PTL

\* However many handlers number and insert at once, and whatever becomes of
\* requests and answers, the client's token never goes back.
THEOREM TokenNeverFalls == Spec => TokenAdvances
  <1>1. SyncInv /\ [Next]_vars => [since' >= since]_vars
    BY SyncStep
  <1> QED BY <1>1, SyncInductive, PTL DEF Spec, TokenAdvances

-----------------------------------------------------------------------------
(* What an answer covers.                                                   *)

TimelineRead == request.stage \in {"account", "wait", "waiting", "respond"}

SnapshotStored == snapshot \subseteq Stored

SnapshotReturned ==
    TimelineRead => \A e \in snapshot : ordering[e] > since => e \in request.events

\* While getEventsSince may return every event there is, it returns every
\* stored one after the token.
LEMMA AllReturned ==
  ASSUME Cardinality(Event) <= TimelineLimit, StreamTypeOK, SyncTypeOK, since > 0,
         NEW e \in Stored, ordering[e] > since
  PROVE  e \in EventsSince(since, TimelineLimit)
  <1> DEFINE later == {x \in Stored : ordering[x] > since}
             rank  == {x \in later : ordering[x] < ordering[e]}
  <1>1. e \in later /\ e \in Event /\ rank \subseteq Event \ {e}
    BY DEF Stored, StreamTypeOK
  <1>2. /\ IsFiniteSet(Event) /\ IsFiniteSet(Event \ {e})
        /\ Cardinality(Event \ {e}) = Cardinality(Event) - 1
    BY <1>1, StreamAssumption, FS_RemoveElement
  <1>3. Cardinality(rank) <= Cardinality(Event \ {e}) /\ Cardinality(rank) \in Nat
    BY <1>1, <1>2, FS_Subset, FS_CardinalityType
  <1>4. Cardinality(Event) \in Nat /\ TimelineLimit \in Nat
    BY <1>2, FS_CardinalityType, LimitAssumption
  <1>5. Cardinality(rank) < TimelineLimit
    BY <1>2, <1>3, <1>4
  <1> QED BY <1>1, <1>5 DEF EventsSince

LEMMA SnapshotStep ==
  ASSUME SyncInv, SnapshotStored, [Next]_vars
  PROVE  SnapshotStored'
  <1>1. NumbersGrow /\ StreamTypeOK /\ StreamTypeOK'
    BY SyncStep DEF SyncInv, StreamInv
  <1>2. \A e \in Stored : e \in Stored' /\ ordering'[e] = ordering[e]
    BY <1>1 DEF Stored, NumbersGrow
  <1>3. snapshot' = snapshot \/ snapshot' = Stored
    BY DEF Next, vars, Handle, HandleSteadily, Notify, NotifyFails, Poll, Read, ReadPosition,
           ReadTimeline, ReadAccountData, WaitForEvents, TimeOut, WaitFails, Respond, Lose,
           syncVars
  <1> QED BY <1>2, <1>3 DEF SnapshotStored

\* What each step does to the timeline of the request.
LEMMA TimelineStep ==
  ASSUME SyncTypeOK, [Next]_vars
  PROVE  \/ ~TimelineRead'
         \/ /\ ReadTimeline /\ UNCHANGED <<streamVars, since, snapshot>>
            /\ request'.events = IF since > 0 THEN EventsSince(since, TimelineLimit) ELSE Stored
         \/ TimelineRead /\ request'.events = request.events /\ UNCHANGED <<since, snapshot>>
            /\ request'.pos = request.pos
  <1> USE DEF TimelineRead
  <1>0. request \in RequestRecord
    BY DEF SyncTypeOK
  <1>1. ASSUME NEW w \in Writer, Handle(w)
        PROVE  ~TimelineRead' \/ UNCHANGED <<since, snapshot, request>>
    BY <1>1, AssemblingType DEF Handle, HandleSteadily, Notify, NotifyFails, syncVars
  <1>2. ASSUME NEW patient \in BOOLEAN, Poll(patient)
        PROVE  ~TimelineRead'
    BY <1>2, AssemblingType DEF Poll
  <1>3. CASE ReadPosition
    <2>1. request'.stage = "timeline"
      BY <1>0, <1>3 DEF ReadPosition, RequestRecord
    <2> QED BY <2>1
  <1>4. CASE ReadTimeline
    BY <1>0, <1>4 DEF ReadTimeline, RequestRecord
  <1>5. CASE ReadAccountData \/ WaitForEvents
    BY <1>0, <1>5 DEF ReadAccountData, WaitForEvents, RequestRecord
  <1>6. CASE TimeOut \/ WaitFails \/ Lose \/ Respond
    BY <1>6, AssemblingType DEF TimeOut, WaitFails, Lose, Respond
  <1>7. CASE UNCHANGED vars
    BY <1>7 DEF vars, syncVars
  <1> QED BY <1>1, <1>2, <1>3, <1>4, <1>5, <1>6, <1>7 DEF Next, Read

LEMMA ReturnedStep ==
  ASSUME Cardinality(Event) <= TimelineLimit, SyncInv, SnapshotStored, SnapshotReturned,
         [Next]_vars
  PROVE  SnapshotReturned'
  <1>0. /\ StreamTypeOK /\ SyncTypeOK /\ NumbersGrow
        /\ \A e \in Stored : ordering'[e] = ordering[e]
    BY SyncStep DEF SyncInv, StreamInv, NumbersGrow, Stored
  <1>1. CASE /\ UNCHANGED <<streamVars, since, snapshot>>
             /\ request'.events = IF since > 0 THEN EventsSince(since, TimelineLimit) ELSE Stored
    <2>1. \A e \in Stored : ordering[e] > since => e \in request'.events
      BY <1>0, <1>1, AllReturned DEF SyncTypeOK
    <2> QED BY <1>1, <2>1 DEF SnapshotReturned, SnapshotStored, streamVars, tables
  <1>2. CASE TimelineRead /\ request'.events = request.events /\ UNCHANGED <<since, snapshot>>
    BY <1>0, <1>2 DEF SnapshotReturned, SnapshotStored
  <1>3. CASE ~TimelineRead'
    BY <1>3 DEF SnapshotReturned
  <1> QED BY <1>0, <1>1, <1>2, <1>3, TimelineStep

CoverInv == SyncInv /\ SnapshotStored /\ SnapshotReturned

LEMMA CoverInductive ==
  ASSUME Cardinality(Event) <= TimelineLimit
  PROVE  Spec => []CoverInv
  <1>1. Init => CoverInv
    BY SyncInit, AssemblingType
       DEF Init, CoverInv, SnapshotStored, SnapshotReturned, TimelineRead
  <1>2. CoverInv /\ [Next]_vars => CoverInv'
    BY SyncStep, SnapshotStep, ReturnedStep DEF CoverInv
  <1> QED BY <1>1, <1>2, PTL DEF Spec

\* An answer is the only step that moves the token.
LEMMA OnlyAnswersMove ==
  ASSUME SyncTypeOK, [Next]_vars, since' # since
  PROVE  Respond
  BY DEF Next, vars, Handle, HandleSteadily, Notify, NotifyFails, Poll, Read, ReadPosition,
         ReadTimeline, ReadAccountData, WaitForEvents, TimeOut, WaitFails, Lose, syncVars

\* While there are no more events than getEventsSince returns, an answer covers
\* every event that was stored when its token was read, whatever other
\* handlers have stored, numbered or abandoned meanwhile.
THEOREM AnswersCoverSnapshot ==
  ASSUME Cardinality(Event) <= TimelineLimit
  PROVE  Spec => TokenCoversSnapshot
  <1>1. CoverInv /\ [Next]_vars =>
            [since' # since => \A e \in snapshot : ordering[e] > since => e \in covered']_vars
    <2> SUFFICES ASSUME CoverInv, [Next]_vars, since' # since,
                        NEW e \in snapshot, ordering[e] > since
                 PROVE  e \in covered'
      OBVIOUS
    <2>1. Respond
      BY OnlyAnswersMove DEF CoverInv, SyncInv
    <2> QED BY <2>1 DEF Respond, CoverInv, SnapshotReturned, TimelineRead
  <1> QED BY <1>1, CoverInductive, PTL DEF Spec, TokenCoversSnapshot

-----------------------------------------------------------------------------
(* One handler at a time, and no account data.                              *)

NumberAhead ==
    \A w \in Writer : writers[w].at = "insert" => \A e \in Event : writers[w].pos > ordering[e]

\* What is stored at or below the position that was read was stored then.
SnapshotBelow ==
    PositionRead => \A e \in Stored : ordering[e] <= request.pos => e \in snapshot

SkipInv == NumberAhead /\ SnapshotBelow /\ NothingSkipped

\* One handler stores events; there are no account data changes.
Alone == (\A v, w \in Writer : v = w) /\ Change = {}

\* What becomes stored has a number beyond every one that a row has reached.
LEMMA NewIsBeyond ==
  ASSUME Alone, StreamInv, NumberAhead, [StreamNext]_streamVars
  PROVE  /\ NumberAhead'
         /\ \A e \in Event : ordering'[e] # ordering[e] =>
                /\ ordering[e] = 0
                /\ \A f \in Event : ordering'[e] > ordering[f]
  <1>0. ordering \in [Event -> Nat]
    BY DEF StreamInv, StreamTypeOK
  <1>1. CASE UNCHANGED streamVars
    BY <1>1 DEF streamVars, tables, NumberAhead
  <1>2. CASE StreamNext
    <2>1. PICK w \in Writer : Shape(w)
      BY <1>2, StepShape
    <2>2. \A v \in Writer : v = w
      BY DEF Alone
    <2>3. CASE Passes(w)
      BY <2>2, <2>3 DEF Passes, Numbers, NumberAhead
    <2>4. CASE Numbered(w)
      BY <2>2, <2>4 DEF Numbered, Numbers, NumberAhead
    <2>5. CASE Inserts(w)
      BY <1>0, <2>2, <2>5 DEF Inserts, NumberAhead
    <2>6. CASE BeginsChange(w) \/ Positioned(w) \/ Changes(w)
      BY <2>2, <2>6 DEF BeginsChange, Positioned, Changes, Numbers, NumberAhead
    <2> QED BY <2>1, <2>3, <2>4, <2>5, <2>6 DEF Shape
  <1> QED BY <1>1, <1>2

\* An event whose number is at or below a token was stored before the step.
LEMMA OldBelow ==
  ASSUME Alone, StreamInv, StreamTypeOK', NumberAhead, [StreamNext]_streamVars, NumbersGrow,
         NEW p \in Nat, Reached(p), NEW e \in Stored', ordering'[e] <= p
  PROVE  e \in Stored /\ ordering[e] = ordering'[e]
  <1>1. ordering \in [Event -> Nat] /\ ordering' \in [Event -> Nat]
        /\ e \in Event /\ ordering'[e] > 0
    BY DEF StreamInv, StreamTypeOK, Stored
  <1>2. SUFFICES ASSUME ordering'[e] # ordering[e] PROVE FALSE
    BY <1>1 DEF Stored
  <1>3. \A f \in Event : ordering'[e] > ordering[f]
    BY <1>1, <1>2, NewIsBeyond
  <1>4. p # 0 /\ Change = {}
    BY <1>1 DEF Alone
  <1>5. PICK f \in Event : ordering[f] >= p
    BY <1>4 DEF Reached
  <1> QED BY <1>1, <1>3, <1>5

LEMMA BelowStep ==
  ASSUME Alone, SyncInv, SkipInv, [Next]_vars
  PROVE  SnapshotBelow'
  <1>0. /\ StreamInv /\ StreamTypeOK /\ StreamTypeOK' /\ SyncTypeOK /\ TokenInv /\ NumbersGrow
        /\ NumberAhead /\ [StreamNext]_streamVars /\ SnapshotBelow
        /\ since \in Nat /\ request.pos \in Nat
    BY SyncStep, StepIsStream DEF SyncInv, StreamInv, SkipInv, SyncTypeOK, RequestRecord
  <1>1. CASE ReadPosition
    BY <1>1 DEF ReadPosition, SnapshotBelow, streamVars, tables, Stored
  <1>2. CASE ~PositionRead'
    BY <1>2 DEF SnapshotBelow
  <1>3. CASE PositionRead /\ request'.pos = request.pos /\ UNCHANGED snapshot
    <2> SUFFICES ASSUME NEW e \in Stored', ordering'[e] <= request.pos
                 PROVE  e \in snapshot
      BY <1>3 DEF SnapshotBelow
    <2>1. e \in Stored /\ ordering[e] <= request.pos
      BY <1>0, <1>3, OldBelow DEF TokenInv
    <2> QED BY <1>0, <1>3, <2>1 DEF SnapshotBelow
  <1>4. ReadPosition \/ ~PositionRead' \/
            (PositionRead /\ request'.pos = request.pos /\ UNCHANGED snapshot)
    <2> USE DEF PositionRead
    <2>0. request \in RequestRecord
      BY <1>0 DEF SyncTypeOK
    <2>1. ASSUME NEW w \in Writer, Handle(w)
          PROVE  ~PositionRead' \/ UNCHANGED <<snapshot, request>>
      BY <2>1, AssemblingType DEF Handle, HandleSteadily, Notify, NotifyFails, syncVars
    <2>2. ASSUME NEW patient \in BOOLEAN, Poll(patient)
          PROVE  ~PositionRead'
      BY <2>2, AssemblingType DEF Poll
    <2>3. CASE ReadTimeline \/ ReadAccountData \/ WaitForEvents
      BY <2>0, <2>3 DEF ReadTimeline, ReadAccountData, WaitForEvents, RequestRecord
    <2>4. CASE TimeOut \/ WaitFails \/ Lose \/ Respond
      BY <2>4, AssemblingType DEF TimeOut, WaitFails, Lose, Respond
    <2>5. CASE UNCHANGED vars
      BY <2>5 DEF vars, syncVars
    <2> QED BY <2>1, <2>2, <2>3, <2>4, <2>5 DEF Next, Read
  <1> QED BY <1>1, <1>2, <1>3, <1>4

LEMMA SkippedStep ==
  ASSUME Alone, CoverInv, SkipInv, [Next]_vars
  PROVE  NothingSkipped'
  <1>0. /\ StreamInv /\ StreamTypeOK /\ StreamTypeOK' /\ SyncTypeOK /\ TokenInv /\ NumbersGrow
        /\ NumberAhead /\ [StreamNext]_streamVars /\ Change = {}
        /\ since \in Nat /\ request.pos \in Nat
    BY SyncStep, StepIsStream
       DEF CoverInv, SyncInv, StreamInv, SkipInv, SyncTypeOK, RequestRecord, Alone
  <1>1. CASE since' # since
    <2>1. Respond
      BY <1>0, <1>1, OnlyAnswersMove
    <2> SUFFICES ASSUME NEW e \in Stored, ordering[e] <= request.pos
                 PROVE  e \in covered'
      BY <1>0, <2>1 DEF Respond, NothingSkipped, Changed, streamVars, tables, Stored
    <2>2. e \in snapshot
      BY <2>1 DEF Respond, SkipInv, SnapshotBelow, PositionRead
    <2>3. CASE ordering[e] <= since
      BY <2>1, <2>3 DEF Respond, SkipInv, NothingSkipped
    <2>4. CASE ordering[e] > since
      BY <2>1, <2>2, <2>4 DEF Respond, CoverInv, SnapshotReturned, TimelineRead
    <2> QED BY <1>0, <2>3, <2>4 DEF StreamTypeOK, Stored
  <1>2. CASE since' = since
    <2>1. covered \subseteq covered'
      BY DEF Next, vars, Handle, HandleSteadily, Notify, NotifyFails, Poll, Read, ReadPosition,
             ReadTimeline, ReadAccountData, WaitForEvents, TimeOut, WaitFails, Respond, Lose,
             syncVars
    <2>2. ASSUME NEW e \in Stored', ordering'[e] <= since
          PROVE  e \in covered
      <3>1. e \in Stored /\ ordering[e] <= since
        BY <1>0, <2>2, OldBelow DEF TokenInv
      <3> QED BY <3>1 DEF SkipInv, NothingSkipped
    <2> QED BY <1>0, <1>2, <2>1, <2>2 DEF NothingSkipped, Changed
  <1> QED BY <1>1, <1>2

\* With one handler at a time, no account data and no more events than
\* getEventsSince returns, a client that polls never skips an event: whatever
\* lies at or below its token was given or announced to it.
THEOREM NothingIsSkipped ==
  ASSUME \A v, w \in Writer : v = w, Change = {}, Cardinality(Event) <= TimelineLimit
  PROVE  Spec => []NothingSkipped
  <1>1. Alone
    BY DEF Alone
  <1>2. Init => SkipInv
    <2> SUFFICES ASSUME Init PROVE SkipInv
      OBVIOUS
    <2>1. /\ \A w \in Writer : writers[w].at = "idle"
          /\ request.stage = "idle"
      BY FreeType, AssemblingType DEF Init, StreamInit
    <2>2. Stored = {} /\ Changed = {}
      BY DEF Init, StreamInit, Stored, Changed
    <2> QED BY <2>1, <2>2 DEF SkipInv, NumberAhead, SnapshotBelow, PositionRead, NothingSkipped
  <1>3. CoverInv /\ SkipInv /\ [Next]_vars => SkipInv'
    <2> SUFFICES ASSUME CoverInv, SkipInv, [Next]_vars PROVE SkipInv'
      OBVIOUS
    <2>1. NumberAhead'
      BY <1>1, NewIsBeyond, StepIsStream DEF CoverInv, SyncInv, SkipInv
    <2> QED BY <1>1, <2>1, BelowStep, SkippedStep DEF CoverInv, SkipInv
  <1>4. SkipInv => NothingSkipped
    BY DEF SkipInv
  <1> QED BY <1>2, <1>3, <1>4, CoverInductive, PTL DEF Spec

=============================================================================
