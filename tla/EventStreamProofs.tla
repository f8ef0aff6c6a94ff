------------------------- MODULE EventStreamProofs -------------------------
(***************************************************************************)
(* For every set of events, changes and concurrent handlers: the place of  *)
(* an event in the stream never changes, and the room's state never names  *)
(* an event without a row.                                                 *)
(*                                                                         *)
(* A handler that has come to the room_state upsert has seen, or made, the *)
(* row of its event, and rows are never deleted: that is RowFirst.         *)
(***************************************************************************)
EXTENDS EventStream, TLAPS

\* The place a handler is about to use is a place of the stream, and the
\* handlers of the first kind hold an event, those of the second a change.
Targets ==
    \A w \in Writer :
        /\ writers[w].at \in {"exists", "number", "insert", "state"} => writers[w].item \in Event
        /\ writers[w].at \in {"changes", "put"} => writers[w].item \in Change
        /\ writers[w].at = "insert" => writers[w].pos > 0
        /\ writers[w].at = "state" => writers[w].item \in StateEvent

RowFirst == \A w \in Writer : writers[w].at = "state" => ordering[writers[w].item] > 0

StreamInv == StreamTypeOK /\ Targets /\ RowFirst /\ StateHasEvent

LEMMA TopType ==
  ASSUME NEW numbers \in SUBSET Nat, NEW n \in Top(numbers)
  PROVE  n \in Nat
  BY DEF Top

LEMMA NumberSets ==
  ASSUME StreamTypeOK
  PROVE  Orderings \in SUBSET Nat /\ Positions \in SUBSET Nat
  BY DEF StreamTypeOK, Orderings, Positions

LEMMA HandlingType ==
  ASSUME NEW place \in Places, NEW item \in Event \cup Change \cup {Nothing},
         NEW mode \in {"live", "historical"}, NEW pos \in Nat
  PROVE  /\ Handling(place, item, mode, pos) \in WriterRecord
         /\ Handling(place, item, mode, pos).at = place
         /\ Handling(place, item, mode, pos).item = item
         /\ Handling(place, item, mode, pos).pos = pos
  BY DEF Handling, WriterRecord

LEMMA FreeType == Free \in WriterRecord /\ Free.at = "idle"
  BY HandlingType DEF Free, Places

LEMMA MovedType ==
  ASSUME NEW run \in WriterRecord, NEW place \in Places
  PROVE  /\ [run EXCEPT !.at = place] \in WriterRecord
         /\ [run EXCEPT !.at = place].at = place
         /\ [run EXCEPT !.at = place].item = run.item
         /\ [run EXCEPT !.at = place].pos = run.pos
  BY DEF WriterRecord

LEMMA InitInv == StreamInit => StreamInv
  <1> SUFFICES ASSUME StreamInit PROVE StreamInv
    OBVIOUS
  <1>1. \A w \in Writer : writers[w].at = "idle"
    BY FreeType DEF StreamInit
  <1> QED BY <1>1, FreeType DEF StreamInit, StreamInv, StreamTypeOK, Targets, RowFirst, StateHasEvent

-----------------------------------------------------------------------------
\* A handler that moves without touching a table, to a place where it keeps
\* what the invariant asks of it.
LEMMA MoveStep ==
  ASSUME StreamInv, UNCHANGED tables, NEW w \in Writer, NEW run \in WriterRecord,
         writers' = [writers EXCEPT ![w] = run],
         run.at \in {"exists", "number", "insert", "state"} => run.item \in Event,
         run.at \in {"changes", "put"} => run.item \in Change,
         run.at = "insert" => run.pos > 0,
         run.at = "state" => run.item \in StateEvent /\ ordering[run.item] > 0
  PROVE  StreamInv'
  <1>1. StreamTypeOK'
    BY DEF StreamInv, StreamTypeOK, tables
  <1>2. \A v \in Writer : writers'[v] = IF v = w THEN run ELSE writers[v]
    BY DEF StreamInv, StreamTypeOK
  <1>3. Targets' /\ RowFirst' /\ StateHasEvent'
    BY <1>2 DEF StreamInv, Targets, RowFirst, StateHasEvent, Stored, tables
  <1> QED BY <1>1, <1>3 DEF StreamInv

\* What GoTo leaves of the handlers.
LEMMA GoToStep ==
  ASSUME StreamTypeOK, NEW w \in Writer, NEW place \in Places, GoTo(w, place)
  PROVE  \A v \in Writer : /\ writers'[v] \in WriterRecord
                          /\ writers'[v].item = writers[v].item
                          /\ writers'[v].pos = writers[v].pos
                          /\ writers'[v].at = IF v = w THEN place ELSE writers[v].at
  <1> TAKE v \in Writer
  <1>1. writers[v] \in WriterRecord
    BY DEF StreamTypeOK
  <1>2. CASE v # w
    <2>1. writers'[v] = writers[v]
      BY <1>2 DEF GoTo, StreamTypeOK
    <2> QED BY <1>1, <1>2, <2>1
  <1>3. CASE v = w
    <2>1. writers'[v] = [writers[v] EXCEPT !.at = place]
      BY <1>3 DEF GoTo, StreamTypeOK
    <2> QED BY <1>1, <1>3, <2>1, MovedType
  <1> QED BY <1>2, <1>3

LEMMA AfterInsertType ==
  ASSUME NEW w
  PROVE  /\ AfterInsert(w) \in {"state", "notify"}
         /\ AfterInsert(w) = "state" => writers[w].item \in StateEvent
  BY DEF AfterInsert

LEMMA StepInv == StreamInv /\ [StreamNext]_streamVars => StreamInv'
  <1> SUFFICES ASSUME StreamInv, [StreamNext]_streamVars PROVE StreamInv'
    OBVIOUS
  <1> USE DEF Places
  <1>0. /\ StreamTypeOK /\ Targets /\ RowFirst /\ StateHasEvent
        /\ \A w \in Writer : writers[w] \in WriterRecord
        /\ Orderings \in SUBSET Nat /\ Positions \in SUBSET Nat
    BY NumberSets DEF StreamInv, StreamTypeOK
  <1>1. ASSUME NEW w \in Writer, NEW e \in Event, NEW mode \in {"live", "historical"},
               StoreEvent(w, e, mode)
        PROVE  StreamInv'
    <2> DEFINE run == Handling("exists", e, mode, 0)
    <2>1. run \in WriterRecord /\ run.at = "exists" /\ run.item = e
      BY HandlingType, "exists" \in Places
    <2>2. writers' = [writers EXCEPT ![w] = run] /\ UNCHANGED tables
      BY <1>1 DEF StoreEvent
    <2> HIDE DEF run
    <2> QED BY <2>1, <2>2, MoveStep
  <1>2. ASSUME NEW w \in Writer, NEW c \in Change, PutAccountData(w, c)
        PROVE  StreamInv'
    <2>1. PICK top \in Top(Orderings) :
              writers' = [writers EXCEPT ![w] = Handling("changes", c, "live", top)]
      BY <1>2 DEF PutAccountData
    <2>2. top \in Nat
      BY <1>0, <2>1, TopType
    <2> DEFINE run == Handling("changes", c, "live", top)
    <2>3. run \in WriterRecord /\ run.at = "changes" /\ run.item = c
      BY <2>2, HandlingType, "changes" \in Places
    <2>4. writers' = [writers EXCEPT ![w] = run] /\ UNCHANGED tables
      BY <1>2, <2>1 DEF PutAccountData
    <2> HIDE DEF run
    <2> QED BY <2>3, <2>4, MoveStep
  <1>3. ASSUME NEW w \in Writer, LookUp(w)
        PROVE  StreamInv'
    <2> DEFINE place == IF ordering[writers[w].item] > 0 THEN AfterInsert(w) ELSE "number"
    <2>1. place \in {"number", "state", "notify"} /\ writers[w].item \in Event
      BY <1>0, <1>3, AfterInsertType DEF LookUp, Targets
    <2>2. place = "state" => writers[w].item \in StateEvent /\ ordering[writers[w].item] > 0
      BY AfterInsertType
    <2>3. writers' = [writers EXCEPT ![w] = [writers[w] EXCEPT !.at = place]]
      BY <1>3 DEF LookUp, GoTo
    <2> HIDE DEF place
    <2> DEFINE run == [writers[w] EXCEPT !.at = place]
    <2>4. run \in WriterRecord /\ run.at = place /\ run.item = writers[w].item
      <3>1. writers[w] \in WriterRecord /\ place \in Places
        BY <1>0, <2>1
      <3> QED BY <3>1, MovedType
    <2>5. UNCHANGED tables
      BY <1>3 DEF LookUp
    <2> HIDE DEF run
    <2>6. writers' = [writers EXCEPT ![w] = run]
      BY <2>3 DEF run
    <2> QED BY <2>1, <2>2, <2>4, <2>5, <2>6, MoveStep
  <1>4. ASSUME NEW w \in Writer, TakeNumber(w)
        PROVE  StreamInv'
    <2>1. PICK top \in Top(Orderings) :
              writers' = [writers EXCEPT ![w] = Handling("insert", @.item, @.mode, top + 1)]
      BY <1>4 DEF TakeNumber
    <2>2. /\ top + 1 \in Nat /\ top + 1 > 0
          /\ writers[w].item \in Event /\ writers[w].mode \in {"live", "historical"}
      <3>1. top \in Nat
        BY <1>0, TopType
      <3> QED BY <1>0, <1>4, <3>1 DEF TakeNumber, Targets, WriterRecord
    <2> DEFINE run == Handling("insert", writers[w].item, writers[w].mode, top + 1)
    <2>3. /\ run \in WriterRecord /\ run.at = "insert"
          /\ run.item = writers[w].item /\ run.pos = top + 1
      BY <2>2, HandlingType, "insert" \in Places
    <2>4. writers' = [writers EXCEPT ![w] = run] /\ UNCHANGED tables
      BY <1>4, <2>1 DEF TakeNumber
    <2> HIDE DEF run
    <2> QED BY <2>2, <2>3, <2>4, MoveStep
  <1>5. ASSUME NEW w \in Writer, Insert(w)
        PROVE  StreamInv'
    <2>1. writers[w].item \in Event /\ writers[w].pos \in Nat /\ writers[w].pos > 0
      BY <1>0, <1>5 DEF Insert, Targets, WriterRecord
    <2>2. /\ ordering' \in [Event -> Nat]
          /\ \A e \in Event : ordering[e] > 0 => ordering'[e] > 0
          /\ ordering'[writers[w].item] > 0
      BY <1>0, <1>5, <2>1 DEF Insert, StreamTypeOK
    <2>3. writers' \in [Writer -> WriterRecord]
      <3>1. writers' = [v \in Writer |-> writers'[v]]
        BY <1>5, <1>0 DEF Insert, GoTo, StreamTypeOK
      <3>2. AfterInsert(w) \in Places /\ GoTo(w, AfterInsert(w))
        BY <1>5, AfterInsertType DEF Insert
      <3>3. \A v \in Writer : writers'[v] \in WriterRecord
        BY <1>0, <3>2, GoToStep
      <3> QED BY <3>1, <3>3
    <2>4. \A v \in Writer : /\ writers'[v] \in WriterRecord
                            /\ writers'[v].item = writers[v].item
                            /\ writers'[v].pos = writers[v].pos
                            /\ writers'[v].at = IF v = w THEN AfterInsert(w) ELSE writers[v].at
      <3>1. AfterInsert(w) \in Places /\ GoTo(w, AfterInsert(w))
        BY <1>5, AfterInsertType DEF Insert
      <3> QED BY <1>0, <3>1, GoToStep
    <2>5. StreamTypeOK'
      BY <1>0, <1>5, <2>2, <2>3 DEF Insert, StreamTypeOK
    <2>6. Targets'
      BY <1>0, <2>1, <2>4, AfterInsertType DEF Targets
    <2>7. RowFirst' /\ StateHasEvent'
      BY <1>0, <1>5, <2>2, <2>4 DEF Insert, RowFirst, StateHasEvent, Stored, Targets
    <2> QED BY <2>5, <2>6, <2>7 DEF StreamInv
  <1>6. ASSUME NEW w \in Writer, SetState(w)
        PROVE  StreamInv'
    <2>1. writers[w].item \in StateEvent /\ writers[w].item \in Event
          /\ ordering[writers[w].item] > 0
      BY <1>0, <1>6 DEF SetState, Targets, RowFirst
    <2>2. GoTo(w, "notify") /\ "notify" \in Places
      BY <1>6 DEF SetState
    <2>3. \A v \in Writer : /\ writers'[v] \in WriterRecord
                            /\ writers'[v].item = writers[v].item
                            /\ writers'[v].pos = writers[v].pos
                            /\ writers'[v].at = IF v = w THEN "notify" ELSE writers[v].at
      BY <1>0, <2>2, GoToStep
    <2>4. StreamTypeOK'
      <3>1. writers' = [v \in Writer |-> writers'[v]]
        BY <1>0, <2>2 DEF GoTo, StreamTypeOK
      <3> QED BY <1>0, <1>6, <2>1, <2>3, <3>1 DEF SetState, StreamTypeOK
    <2>5. Targets' /\ RowFirst' /\ StateHasEvent'
      BY <1>0, <1>6, <2>1, <2>3 DEF SetState, Targets, RowFirst, StateHasEvent, Stored
    <2> QED BY <2>4, <2>5 DEF StreamInv
  <1>7. ASSUME NEW w \in Writer, TakePosition(w)
        PROVE  StreamInv'
    <2>1. PICK top \in Top(Positions \cup {writers[w].pos}) :
              writers' = [writers EXCEPT ![w] = Handling("put", @.item, @.mode, top + 1)]
      BY <1>7 DEF TakePosition
    <2>2. /\ top + 1 \in Nat
          /\ writers[w].item \in Change /\ writers[w].mode \in {"live", "historical"}
      <3>1. Positions \cup {writers[w].pos} \in SUBSET Nat
        BY <1>0 DEF WriterRecord
      <3>2. top \in Nat
        BY <3>1, TopType
      <3> QED BY <1>0, <1>7, <3>2 DEF TakePosition, Targets, WriterRecord
    <2> DEFINE run == Handling("put", writers[w].item, writers[w].mode, top + 1)
    <2>3. run \in WriterRecord /\ run.at = "put" /\ run.item = writers[w].item
      BY <2>2, HandlingType, "put" \in Places
    <2>4. writers' = [writers EXCEPT ![w] = run] /\ UNCHANGED tables
      BY <1>7, <2>1 DEF TakePosition
    <2> HIDE DEF run
    <2> QED BY <2>2, <2>3, <2>4, MoveStep
  <1>8. ASSUME NEW w \in Writer, PutBatch(w)
        PROVE  StreamInv'
    <2>1. writers[w].item \in Change /\ writers[w].pos \in Nat
      BY <1>0, <1>8 DEF PutBatch, Targets, WriterRecord
    <2>2. GoTo(w, "notify") /\ "notify" \in Places
      BY <1>8 DEF PutBatch
    <2>3. \A v \in Writer : /\ writers'[v] \in WriterRecord
                            /\ writers'[v].item = writers[v].item
                            /\ writers'[v].pos = writers[v].pos
                            /\ writers'[v].at = IF v = w THEN "notify" ELSE writers[v].at
      BY <1>0, <2>2, GoToStep
    <2>4. StreamTypeOK'
      <3>1. writers' = [v \in Writer |-> writers'[v]]
        BY <1>0, <2>2 DEF GoTo, StreamTypeOK
      <3> QED BY <1>0, <1>8, <2>1, <2>3, <3>1 DEF PutBatch, StreamTypeOK
    <2>5. Targets' /\ RowFirst' /\ StateHasEvent'
      BY <1>0, <1>8, <2>3 DEF PutBatch, Targets, RowFirst, StateHasEvent, Stored
    <2> QED BY <2>4, <2>5 DEF StreamInv
  <1>9. ASSUME NEW w \in Writer, Notified(w) \/ Abandon(w)
        PROVE  StreamInv'
    BY <1>9, FreeType, MoveStep DEF Notified, Abandon
  <1>10. CASE UNCHANGED streamVars
    BY <1>10 DEF streamVars, tables, StreamInv, StreamTypeOK, Targets, RowFirst,
                 StateHasEvent, Stored
  <1> QED BY <1>1, <1>2, <1>3, <1>4, <1>5, <1>6, <1>7, <1>8, <1>9, <1>10
          DEF StreamNext, Statement

LEMMA StreamInductive == StreamSpec => []StreamInv
  BY InitInv, StepInv, PTL DEF StreamSpec

\* Every variable of the stream keeps its type.
THEOREM StreamTypeCorrect == StreamSpec => []StreamTypeOK
  <1>1. StreamInv => StreamTypeOK
    BY DEF StreamInv
  <1> QED BY <1>1, StreamInductive, PTL

\* The room's state always names an event that has a row.
THEOREM StateIsStored == StreamSpec => []StateHasEvent
  <1>1. StreamInv => StateHasEvent
    BY DEF StreamInv
  <1> QED BY <1>1, StreamInductive, PTL

LEMMA StepKeepsOrdering ==
  StreamInv /\ [StreamNext]_streamVars =>
      [\A e \in Event : ordering[e] > 0 => ordering'[e] = ordering[e]]_streamVars
  <1> SUFFICES ASSUME StreamInv, StreamNext
               PROVE  \A e \in Event : ordering[e] > 0 => ordering'[e] = ordering[e]
    OBVIOUS
  <1>1. ASSUME NEW w \in Writer, Insert(w)
        PROVE  \A e \in Event : ordering[e] > 0 => ordering'[e] = ordering[e]
    BY <1>1 DEF Insert, StreamInv, StreamTypeOK
  <1>2. ASSUME UNCHANGED ordering
        PROVE  \A e \in Event : ordering[e] > 0 => ordering'[e] = ordering[e]
    BY <1>2
  <1> QED BY <1>1, <1>2
          DEF StreamNext, Statement, StoreEvent, PutAccountData, LookUp, TakeNumber,
              SetState, TakePosition, PutBatch, Notified, Abandon, tables

\* However many handlers store an event at once, it keeps its first place.
THEOREM OrderingIsFinal == StreamSpec => OrderingNeverMoves
  BY StreamInductive, StepKeepsOrdering, PTL DEF StreamSpec, OrderingNeverMoves

=============================================================================
