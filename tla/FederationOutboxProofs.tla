----------------------- MODULE FederationOutboxProofs -----------------------
(***************************************************************************)
(* For every set of destinations, items and handlers, every number of      *)
(* attempts and every number of restarts: but for items that shared a      *)
(* transaction id with a different snapshot, the outbox loses nothing and  *)
(* keeps the order of each destination; it implements the at-least-once    *)
(* channel and keeps a deleted EDU deleted; every step of a run takes it   *)
(* nearer to its end; and under OneAtATime whatever is held has a wake-up. *)
(*                                                                         *)
(* The inductive invariant says what an interleaved handler's snapshot is  *)
(* still worth when its answer comes: it holds only stored items           *)
(* (SnapshotStored), all of them processed once a 2xx can arrive           *)
(* (ProcessedReceived), and whatever was stored before one of them is in   *)
(* the same snapshot or already processed (SnapshotClosed); in both, items *)
(* that one id stood for in part are excepted.  What the exception is      *)
(* worth is kept by the ids (IdsInv): two runs under one id differ in      *)
(* mixed items only, and what a run would be answered from the cache for   *)
(* has been processed but for mixed items.                                 *)
(***************************************************************************)
EXTENDS FederationOutbox, TLAPS

USE DEF transport, Ids

\* What d processed, and what it may have taken for processed.
Accounted(d) == received[d] \cup mixed[d]

SnapshotStored ==
    \A r \in Run : Transmitting(r) => Snapshot(r) \subseteq enqueued[runs[r].dest]

ProcessedReceived ==
    \A r \in Run : runs[r].pc = "processed" =>
        Snapshot(r) \subseteq Accounted(runs[r].dest)

SnapshotClosed ==
    \A r \in Run : Transmitting(r) =>
        \A i \in Snapshot(r) :
            before[runs[r].dest][i] \subseteq Snapshot(r) \cup Accounted(runs[r].dest)

SameIdMixed ==
    \A q, r \in Run :
        /\ Transmitting(q) /\ Transmitting(r)
        /\ runs[q].dest = runs[r].dest /\ txn[q] = txn[r]
        => Snapshot(q) \subseteq Snapshot(r) \cup mixed[runs[r].dest]

AnsweredAccounted ==
    \A r \in Run : Transmitting(r) /\ txn[r] \in answered[runs[r].dest] =>
        Snapshot(r) \subseteq Accounted(runs[r].dest)

IdsInv == SameIdMixed /\ AnsweredAccounted

OnlyStored ==
    \A d \in Dest : /\ Held(d) \subseteq enqueued[d]
                    /\ Accounted(d) \subseteq enqueued[d]
                    /\ \A i \in enqueued[d] : before[d][i] \subseteq enqueued[d]

RunsInv == SnapshotStored /\ ProcessedReceived /\ SnapshotClosed

SafeInv == RunsInv /\ IdsInv /\ OnlyStored /\ NothingLost /\ DeliveredInOrder

IInv == TypeOK /\ SafeInv

-----------------------------------------------------------------------------
(* Types.                                                                   *)

LEMMA TimerType == 0 \in Timer /\ Never \in Timer /\ 0 \in 0..RetryCap
  BY OutboxAssumption DEF Timer, Never

LEMMA IdleType == Idle \in RunState /\ Idle.pc = "idle"
  BY OutboxAssumption, TimerType DEF Idle, At, RunState, RunRecord, NoVisits

LEMMA LoopingType ==
  ASSUME NEW a \in {"request", "alarm"}, NEW visits \in [Dest -> Timer]
  PROVE  /\ Looping(a, visits) \in RunState
         /\ Looping(a, visits).pc = "loop"
  BY OutboxAssumption DEF Looping, At, RunState, RunRecord

LEMMA SendingType ==
  ASSUME NEW run \in RunState, NEW d \in Dest,
         NEW ps \in SUBSET Pdu, NEW es \in SUBSET Edu
  PROVE  /\ Sending(run, d, ps, es) \in RunState
         /\ Sending(run, d, ps, es).pc = "sending"
         /\ Sending(run, d, ps, es).dest = d
         /\ Sending(run, d, ps, es).pdus = ps
         /\ Sending(run, d, ps, es).edus = es
  <1>1. [run.due EXCEPT ![d] = Never] \in [Dest -> Timer]
    BY TimerType DEF RunState, RunRecord
  <1> QED BY <1>1, OutboxAssumption DEF Sending, RunState, RunRecord

LEMMA VisitedType ==
  ASSUME NEW run \in RunState
  PROVE  /\ Visited(run) \in RunState
         /\ Visited(run).pc = "loop"
  BY LoopingType DEF Visited, RunState, RunRecord

LEMMA BackoffType == \A n : Backoff(n) \in 1..MaxBackoff
  BY OutboxAssumption DEF Backoff

LEMMA NextCountType ==
  ASSUME TypeOK, NEW d \in Dest
  PROVE  NextCount(d) \in 0..RetryCap
  BY OutboxAssumption DEF TypeOK, NextCount

LEMMA PutServerType ==
  ASSUME TypeOK, NEW d \in Dest, NEW n \in 0..RetryCap, NEW t \in Timer, PutServer(d, n, t)
  PROVE  /\ known' \in SUBSET Dest
         /\ retryCount' \in [Dest -> 0..RetryCap]
         /\ nextRetry' \in [Dest -> Timer]
  BY DEF TypeOK, PutServer

LEMMA RecordType ==
  ASSUME TypeOK, NEW d \in Dest, NEW i \in Item, Record(d, i)
  PROVE  /\ enqueued' \in [Dest -> SUBSET Item]
         /\ before' \in [Dest -> [Item -> SUBSET Item]]
  BY DEF TypeOK, Record

LEMMA FieldTypes ==
  ASSUME NEW run \in RunState
  PROVE  /\ run.by \in {"request", "alarm"}
         /\ run.pdus \in SUBSET Pdu
         /\ run.edus \in SUBSET Edu
         /\ run.due \in [Dest -> Timer]
         /\ run.attempt \in 1..Attempts
         /\ run.pc \in {"sending", "processed"} => run.dest \in Dest
  BY DEF RunState, RunRecord

LEMMA ProcessedType ==
  ASSUME NEW run \in RunState, run.pc = "sending"
  PROVE  [run EXCEPT !.pc = "processed"] \in RunState
  BY DEF RunState, RunRecord

LEMMA NextAttemptType ==
  ASSUME NEW run \in RunState, run.pc \in {"sending", "processed"}, NEW n \in 1..Attempts
  PROVE  [run EXCEPT !.pc = "sending", !.attempt = n] \in RunState
  BY DEF RunState, RunRecord

LEMMA ElapsedType ==
  ASSUME NEW run \in RunState, NEW visits \in [Dest -> Timer]
  PROVE  [run EXCEPT !.due = visits] \in RunState
  BY DEF RunState, RunRecord

LEMMA StruckOffType ==
  ASSUME NEW run \in RunState, NEW d \in Dest
  PROVE  Looping(run.by, [run.due EXCEPT ![d] = Never]) \in RunState
  <1>1. [run.due EXCEPT ![d] = Never] \in [Dest -> Timer]
    BY TimerType DEF RunState, RunRecord
  <1>2. run.by \in {"request", "alarm"}
    BY DEF RunState, RunRecord
  <1> QED BY <1>1, <1>2, LoopingType

LEMMA SnapshotType ==
  ASSUME NEW r \in Run, runs[r] \in RunState
  PROVE  Snapshot(r) \in SUBSET Item
  BY FieldTypes DEF Snapshot, Item

LEMMA ForgetType ==
  ASSUME TypeOK, NEW r \in Run, Forget(r)
  PROVE  /\ answered' \in [Dest -> SUBSET Ids]
         /\ \A d \in Dest : answered'[d] \subseteq answered[d]
  BY DEF TypeOK, Forget

LEMMA DrawType ==
  ASSUME TypeOK, NEW r \in Run, NEW d \in Dest, NEW attempt, NEW items \in SUBSET Item,
         Draw(r, d, attempt, items)
  PROVE  /\ answered' \in [Dest -> SUBSET Ids]
         /\ txn' \in [Run -> Ids]
         /\ mixed' \in [Dest -> SUBSET Item]
  <1>1. answered' \in [Dest -> SUBSET Ids]
    BY ForgetType DEF Draw
  <1>2. ASSUME NEW q \in Run, txn' = [txn EXCEPT ![r] = txn[q]],
               mixed' = [mixed EXCEPT ![d] = @ \cup (items \ Snapshot(q))
                                               \cup (Snapshot(q) \ items)]
        PROVE  txn' \in [Run -> Ids] /\ mixed' \in [Dest -> SUBSET Item]
    <2>1. Snapshot(q) \in SUBSET Item
      BY SnapshotType DEF TypeOK
    <2> QED BY <1>2, <2>1 DEF TypeOK
  <1>3. ASSUME NEW t \in Txn, txn' = [txn EXCEPT ![r] = t], UNCHANGED mixed
        PROVE  txn' \in [Run -> Ids] /\ mixed' \in [Dest -> SUBSET Item]
    BY <1>3 DEF TypeOK
  <1> QED BY <1>1, <1>2, <1>3 DEF Draw

LEMMA SettleType ==
  ASSUME TypeOK, NEW r \in Run, Settle(r)
  PROVE  /\ answered' \in [Dest -> SUBSET Ids]
         /\ txn' \in [Run -> Ids]
         /\ UNCHANGED mixed
  BY ForgetType DEF TypeOK, Settle

LEMMA RestartType ==
  ASSUME TypeOK, Restart
  PROVE  /\ runs' \in [Run -> RunState]
         /\ \A r \in Run : runs'[r].pc = "idle"
         /\ alarm' \in Timer
         /\ crashes' \in 0..MaxCrashes
         /\ answered' \in [Dest -> SUBSET Ids]
         /\ txn' \in [Run -> Ids]
         /\ UNCHANGED mixed
  <1>1. runs' \in [Run -> RunState] /\ \A r \in Run : runs'[r].pc = "idle"
    BY IdleType DEF Restart, Idle
  <1>2. alarm' \in Timer /\ crashes' \in 0..MaxCrashes
    BY OutboxAssumption DEF Restart, TypeOK, Timer, Never
  <1> QED BY <1>1, <1>2 DEF Restart

LEMMA InitType == Init => TypeOK
  <1> SUFFICES ASSUME Init PROVE TypeOK
    OBVIOUS
  <1>1. runs \in [Run -> RunState]
    BY IdleType DEF Init
  <1> QED BY <1>1, OutboxAssumption DEF Init, TypeOK, NoVisits, Timer, Item

LEMMA StepType == TypeOK /\ [Next]_vars => TypeOK'
  <1> SUFFICES ASSUME TypeOK, [Next]_vars PROVE TypeOK'
    OBVIOUS
  <1> USE TimerType DEF TypeOK, storage, history
  <1>1. ASSUME NEW r \in Run, NEW d \in Dest, NEW p \in Pdu, HandleSend(r, d, p)
        PROVE  TypeOK'
    <2>1. Sending(Idle, d, queue[d] \cup {p}, edus[d]) \in RunState
      BY IdleType, SendingType
    <2>2. enqueued' \in [Dest -> SUBSET Item] /\ before' \in [Dest -> [Item -> SUBSET Item]]
      BY <1>1, RecordType DEF HandleSend, Item
    <2>3. /\ answered' \in [Dest -> SUBSET Ids]
          /\ txn' \in [Run -> Ids]
          /\ mixed' \in [Dest -> SUBSET Item]
      <3>1. queue[d] \cup {p} \cup edus[d] \in SUBSET Item
        BY DEF Item
      <3> QED BY <1>1, <3>1, DrawType DEF HandleSend
    <2> QED BY <1>1, <2>1, <2>2, <2>3 DEF HandleSend, PutPdus
  <1>2. ASSUME NEW d \in Dest, NEW e \in Edu,
               HandleSendEdu(d, e) \/ HandleSendEduInterrupted(d, e)
        PROVE  TypeOK'
    <2>1. /\ enqueued' \in [Dest -> SUBSET Item]
          /\ before' \in [Dest -> [Item -> SUBSET Item]]
      BY <1>2, RecordType DEF HandleSendEdu, HandleSendEduInterrupted, Item
    <2>3. edus' \in [Dest -> SUBSET Edu]
      <3>1. PutEdu(d, e)
        BY <1>2 DEF HandleSendEdu, HandleSendEduInterrupted
      <3> QED BY <3>1 DEF PutEdu
    <2>2. /\ known' \in SUBSET Dest
          /\ retryCount' \in [Dest -> 0..RetryCap]
          /\ nextRetry' \in [Dest -> Timer]
      BY <1>2, PutServerType DEF HandleSendEdu, HandleSendEduInterrupted
    <2> QED BY <1>2, <2>1, <2>2, <2>3, RestartType
            DEF HandleSendEdu, HandleSendEduInterrupted
  <1>3. ASSUME NEW d \in Dest, HandleReceive(d)
        PROVE  TypeOK'
    BY <1>3, PutServerType DEF HandleReceive
  <1>4. ASSUME NEW r \in Run, HandleRecover(r)
        PROVE  TypeOK'
    <2>1. [x \in Dest |-> IF x \in known THEN 0 ELSE Never] \in [Dest -> Timer]
      OBVIOUS
    <2> QED BY <1>4, <2>1, LoopingType DEF HandleRecover
  <1>5. ASSUME NEW r \in Run, Alarm(r)
        PROVE  TypeOK'
    BY <1>5, LoopingType DEF Alarm
  <1>6. ASSUME NEW r \in Run, Step(r)
        PROVE  TypeOK'
    <2>1. ASSUME NEW d \in Dest, Visit(r, d)
          PROVE  TypeOK'
      <3>1. Sending(runs[r], d, queue[d], edus[d]) \in RunState
        BY SendingType
      <3>2. /\ answered' \in [Dest -> SUBSET Ids]
            /\ txn' \in [Run -> Ids]
            /\ mixed' \in [Dest -> SUBSET Item]
        <4>1. Held(d) \in SUBSET Item
          BY DEF Held, Item
        <4> QED BY <2>1, <4>1, DrawType DEF Visit
      <3>3. runs' \in [Run -> RunState]
        <4>1. \/ runs' = [runs EXCEPT ![r] = Looping(@.by, [@.due EXCEPT ![d] = Never])]
              \/ runs' = [runs EXCEPT ![r] = Sending(@, d, queue[d], edus[d])]
          BY <2>1 DEF Visit
        <4>2. PICK run \in RunState : runs' = [runs EXCEPT ![r] = run]
          BY <3>1, <4>1, StruckOffType
        <4> QED BY <4>2
      <3> QED BY <2>1, <3>2, <3>3 DEF Visit
    <2>2. ASSUME NEW d \in Dest, PassOver(r, d)
          PROVE  TypeOK'
      BY <2>2, StruckOffType DEF PassOver
    <2>3. CASE Finish(r)
      BY <2>3, IdleType DEF Finish
    <2>4. CASE RemoteProcesses(r)
      <3>1. [runs[r] EXCEPT !.pc = "processed"] \in RunState
        BY <2>4, ProcessedType DEF RemoteProcesses
      <3>2. Snapshot(r) \in SUBSET Item
        BY SnapshotType
      <3>3. received' \in [Dest -> SUBSET Item]
        <4>1. \/ received' = [received EXCEPT ![runs[r].dest] = @ \cup Snapshot(r)]
              \/ UNCHANGED received
          BY <2>4 DEF RemoteProcesses
        <4>2. CASE received' = [received EXCEPT ![runs[r].dest] = @ \cup Snapshot(r)]
          BY <3>2, <4>2
        <4>3. CASE UNCHANGED received
          BY <4>3
        <4> QED BY <4>1, <4>2, <4>3
      <3>4. answered' \in [Dest -> SUBSET Ids]
        <4>1. answered' = [answered EXCEPT ![runs[r].dest] = @ \cup {txn[r]}]
          BY <2>4 DEF RemoteProcesses
        <4> QED BY <4>1
      <3> QED BY <2>4, <3>1, <3>3, <3>4 DEF RemoteProcesses
    <2>5. CASE Acknowledged(r)
      <3>1. Visited(runs[r]) \in RunState
        BY VisitedType
      <3>2. runs[r].dest \in Dest
        BY <2>5, FieldTypes DEF Acknowledged
      <3>3. queue' \in [Dest -> SUBSET Pdu] /\ edus' \in [Dest -> SUBSET Edu]
        BY <2>5 DEF Acknowledged, DeleteSent
      <3> QED BY <2>5, <3>1, <3>2, <3>3, PutServerType, SettleType DEF Acknowledged
    <2>6. CASE AttemptFails(r)
      <3>1. runs[r].attempt + 1 \in 1..Attempts
        BY <2>6, FieldTypes, OutboxAssumption DEF AttemptFails
      <3>2. [runs[r] EXCEPT !.pc = "sending", !.attempt = runs[r].attempt + 1] \in RunState
        <4>1. runs[r] \in RunState /\ runs[r].pc \in {"sending", "processed"}
          BY <2>6 DEF AttemptFails, Transmitting
        <4> QED BY <3>1, <4>1, NextAttemptType
      <3>3. Snapshot(r) \in SUBSET Item /\ runs[r].dest \in Dest
        BY <2>6, SnapshotType, FieldTypes DEF AttemptFails, Transmitting
      <3>4. /\ answered' \in [Dest -> SUBSET Ids]
            /\ txn' \in [Run -> Ids]
            /\ mixed' \in [Dest -> SUBSET Item]
        BY <2>6, <3>3, DrawType DEF AttemptFails
      <3> QED BY <2>6, <3>2, <3>4 DEF AttemptFails
    <2>7. CASE ScheduleRetry(r)
      <3> DEFINE d == runs[r].dest
      <3>1. Visited(runs[r]) \in RunState /\ runs[r].pdus \in SUBSET Pdu /\ d \in Dest
        BY <2>7, VisitedType, FieldTypes DEF ScheduleRetry, Transmitting
      <3>2. NextCount(d) \in 0..RetryCap /\ Backoff(NextCount(d)) \in Timer
        BY <3>1, NextCountType, BackoffType DEF Timer
      <3> QED BY <2>7, <3>1, <3>2, PutServerType, SettleType DEF ScheduleRetry, PutPdus
    <2> QED BY <1>6, <2>1, <2>2, <2>3, <2>4, <2>5, <2>6, <2>7 DEF Step
  <1>7. ASSUME NEW r \in Run, AcknowledgedInterrupted(r)
        PROVE  TypeOK'
    <2>1. PICK ps \in SUBSET runs[r].pdus, es \in SUBSET runs[r].edus :
              DeleteSent(runs[r].dest, ps, es)
      BY <1>7 DEF AcknowledgedInterrupted
    <2>2. queue' \in [Dest -> SUBSET Pdu] /\ edus' \in [Dest -> SUBSET Edu]
      BY <2>1 DEF DeleteSent
    <2> QED BY <1>7, <2>2, RestartType DEF AcknowledgedInterrupted
  <1>8. ASSUME NEW r \in Run, ScheduleRetryInterrupted(r)
        PROVE  TypeOK'
    <2> DEFINE d == runs[r].dest
    <2>1. runs[r].pdus \in SUBSET Pdu /\ d \in Dest
      BY <1>8, FieldTypes DEF ScheduleRetryInterrupted, Transmitting
    <2>2. NextCount(d) \in 0..RetryCap /\ Backoff(NextCount(d)) \in Timer
      BY <2>1, NextCountType, BackoffType DEF Timer
    <2>3. PICK ps \in SUBSET runs[r].pdus : PutPdus(d, ps)
      BY <1>8 DEF ScheduleRetryInterrupted
    <2>4. queue' \in [Dest -> SUBSET Pdu]
      BY <2>1, <2>3 DEF PutPdus
    <2> QED BY <1>8, <2>1, <2>2, <2>4, RestartType, PutServerType
            DEF ScheduleRetryInterrupted
  <1>9. CASE Crash
    BY <1>9, RestartType DEF Crash
  <1>10. CASE Tick
    <2>1. \A t \in Timer : Elapse(t) \in Timer
      BY OutboxAssumption DEF Elapse, Timer, Never
    <2>2. ASSUME NEW r \in Run
          PROVE  [runs[r] EXCEPT !.due = [d \in Dest |-> Elapse(runs[r].due[d])]]
                     \in RunState
      <3>1. [d \in Dest |-> Elapse(runs[r].due[d])] \in [Dest -> Timer]
        BY <2>1, FieldTypes
      <3> QED BY <3>1, ElapsedType
    <2> QED BY <1>10, <2>1, <2>2 DEF Tick
  <1>11. CASE UNCHANGED vars
    BY <1>11 DEF vars
  <1> QED BY <1>1, <1>2, <1>3, <1>4, <1>5, <1>6, <1>7, <1>8, <1>9, <1>10, <1>11 DEF Next

\* Every variable keeps its type.
THEOREM TypeCorrect == Spec => []TypeOK
  BY InitType, StepType, PTL DEF Spec

-----------------------------------------------------------------------------
(* What a step may do to what is held, recorded and received, and the runs  *)
(* and ids it leaves behind: enough for everything below.                   *)

\* An item that was never stored for d is stored and held.
Stored(d, i) ==
    /\ i \in Item
    /\ i \notin enqueued[d]
    /\ Record(d, i)
    /\ \A x \in Dest : Held(x)' = IF x = d THEN Held(d) \cup {i} ELSE Held(x)

\* Nothing is stored; only items that are accounted for leave or come back.
Kept ==
    /\ UNCHANGED history
    /\ \A d \in Dest : /\ Held(d)' \subseteq enqueued[d]
                       /\ Held(d) \subseteq Held(d)' \cup Accounted(d)

\* A run that is still what it was, or no longer transmits.
Ongoing(r) ==
    \/ ~Transmitting(r)'
    \/ /\ Transmitting(r)
       /\ runs'[r].pc \in {runs[r].pc, "sending"}
       /\ runs'[r].dest = runs[r].dest
       /\ runs'[r].pdus = runs[r].pdus
       /\ runs'[r].edus = runs[r].edus

\* A run that has just taken everything held for its destination.
Starting(r) == Snapshot(r)' = Held(runs[r].dest)'

\* No run transmits anew, and no destination processes anything.
Steady ==
    /\ UNCHANGED <<received, mixed>>
    /\ \A d \in Dest : answered'[d] \subseteq answered[d]
    /\ \A r \in Run : Ongoing(r) /\ (Transmitting(r)' => txn'[r] = txn[r])

\* Run r transmits under an id that it draws, and the others go on.
Draws(r) ==
    /\ UNCHANGED received
    /\ runs'[r].pc = "sending" /\ runs'[r].dest \in Dest
    /\ Starting(r) \/ Ongoing(r)
    /\ \E attempt : Draw(r, runs'[r].dest, attempt, Snapshot(r)')
    /\ \A q \in Run \ {r} : Ongoing(q)

Moves == Steady \/ \E r \in Run : Draws(r)

\* Drawing an id mixes items of the run's destination only.
LEMMA Mixing ==
  ASSUME TypeOK, NEW r \in Run, Draws(r)
  PROVE  \A x \in Dest : /\ mixed[x] \subseteq mixed'[x]
                         /\ x # runs'[r].dest => mixed'[x] = mixed[x]
  <1>1. CASE UNCHANGED mixed
    BY <1>1
  <1>2. ASSUME NEW a, NEW b, mixed' = [mixed EXCEPT ![runs'[r].dest] = @ \cup a \cup b]
        PROVE  \A x \in Dest : /\ mixed[x] \subseteq mixed'[x]
                               /\ x # runs'[r].dest => mixed'[x] = mixed[x]
    BY <1>2 DEF TypeOK
  <1> QED BY <1>1, <1>2 DEF Draws, Draw

LEMMA MovesGrow ==
  ASSUME TypeOK, Moves
  PROVE  /\ UNCHANGED received
         /\ \A d \in Dest : Accounted(d) \subseteq Accounted(d)'
         /\ \A r \in Run : Ongoing(r) \/ (Starting(r) /\ runs'[r].pc = "sending"
                                                      /\ runs'[r].dest \in Dest)
  <1>1. CASE Steady
    BY <1>1 DEF Steady, Accounted
  <1>2. CASE \E r \in Run : Draws(r)
    BY <1>2, Mixing DEF Draws, Accounted
  <1> QED BY <1>1, <1>2 DEF Moves

\* What a run transmits was stored, and so was what became mixed with it.
LEMMA MixedStored ==
  ASSUME TypeOK, SafeInv, Moves, SnapshotStored', NEW d \in Dest,
         enqueued[d] \subseteq enqueued'[d]
  PROVE  mixed'[d] \subseteq enqueued'[d]
  <1>1. mixed[d] \subseteq enqueued'[d]
    BY DEF SafeInv, OnlyStored, Accounted
  <1>2. CASE Steady
    BY <1>1, <1>2 DEF Steady
  <1>3. ASSUME NEW r \in Run, Draws(r) PROVE mixed'[d] \subseteq enqueued'[d]
    <2> DEFINE x == runs'[r].dest
               items == Snapshot(r)'
    <2>1. items \subseteq enqueued'[x] /\ x \in Dest
      BY <1>3 DEF Draws, SnapshotStored, Transmitting
    <2>2. CASE UNCHANGED mixed
      BY <1>1, <2>2
    <2>3. ASSUME NEW q \in Run, Transmitting(q), runs[q].dest = x,
                 mixed' = [mixed EXCEPT ![x] = @ \cup (items \ Snapshot(q))
                                                 \cup (Snapshot(q) \ items)]
          PROVE  mixed'[d] \subseteq enqueued'[d]
      <3>1. Snapshot(q) \subseteq enqueued[x]
        BY <2>3 DEF SafeInv, RunsInv, SnapshotStored
      <3>2. mixed'[d] \subseteq IF d = x THEN mixed[d] \cup items \cup Snapshot(q) ELSE mixed[d]
        BY <2>3 DEF TypeOK
      <3> QED BY <1>1, <2>1, <3>1, <3>2
    <2> QED BY <1>3, <2>2, <2>3 DEF Draws, Draw
  <1> QED BY <1>2, <1>3 DEF Moves

\* A new id is nobody else's; an id that is shared is shared by runs that differ
\* in mixed items only.
LEMMA IdsStep ==
  ASSUME TypeOK, SafeInv, Moves
  PROVE  IdsInv'
  <1>1. CASE Steady
    <2>1. ASSUME NEW r \in Run, Transmitting(r)'
          PROVE  /\ Transmitting(r) /\ runs'[r].dest = runs[r].dest /\ runs[r].dest \in Dest
                 /\ Snapshot(r)' = Snapshot(r) /\ txn'[r] = txn[r]
      BY <1>1, <2>1, FieldTypes DEF Steady, Ongoing, Snapshot, Transmitting, TypeOK
    <2>2. SameIdMixed'
      BY <1>1, <2>1 DEF Steady, SafeInv, IdsInv, SameIdMixed
    <2>3. AnsweredAccounted'
      BY <1>1, <2>1 DEF Steady, SafeInv, IdsInv, AnsweredAccounted, Accounted
    <2> QED BY <2>2, <2>3 DEF IdsInv
  <1>2. ASSUME NEW r \in Run, Draws(r) PROVE IdsInv'
    <2> DEFINE d == runs'[r].dest
               items == Snapshot(r)'
    <2>1. d \in Dest /\ UNCHANGED received /\ \A x \in Dest : mixed[x] \subseteq mixed'[x]
      BY <1>2 DEF Draws, Draw, TypeOK
    <2>2. ASSUME NEW q \in Run, q # r, Transmitting(q)'
          PROVE  /\ Transmitting(q) /\ runs'[q].dest = runs[q].dest /\ runs[q].dest \in Dest
                 /\ Snapshot(q)' = Snapshot(q) /\ txn'[q] = txn[q]
      <3>1. Ongoing(q) /\ txn'[q] = txn[q]
        BY <1>2, <2>2 DEF Draws, Draw, TypeOK
      <3> QED BY <2>2, <3>1, FieldTypes DEF Ongoing, Snapshot, Transmitting, TypeOK
    <2>3. \A x \in Dest : answered'[x] = {t \in answered[x] : \E q \in Run \ {r} : txn[q] = t}
      BY <1>2 DEF Draws, Draw, Forget
    <2>4. ASSUME NEW p \in Run, NEW q \in Run, p # r, q # r,
                 Transmitting(p)', Transmitting(q)',
                 runs'[p].dest = runs'[q].dest, txn'[p] = txn'[q]
          PROVE  Snapshot(p)' \subseteq Snapshot(q)' \cup mixed'[runs'[q].dest]
      <3>1. Snapshot(p) \subseteq Snapshot(q) \cup mixed[runs[q].dest]
        BY <2>2, <2>4 DEF SafeInv, IdsInv, SameIdMixed
      <3> QED BY <2>1, <2>2, <2>4, <3>1
    <2>5. ASSUME NEW q \in Run, q # r, Transmitting(q)', txn'[q] \in answered'[runs'[q].dest]
          PROVE  Snapshot(q)' \subseteq received'[runs'[q].dest] \cup mixed'[runs'[q].dest]
      <3>1. Snapshot(q) \subseteq Accounted(runs[q].dest)
        BY <2>2, <2>3, <2>5 DEF SafeInv, IdsInv, AnsweredAccounted
      <3> QED BY <2>1, <2>2, <2>5, <3>1 DEF Accounted
    <2>6. ASSUME NEW t \in Txn, \A q \in Run \ {r} : txn[q] # t,
                 txn' = [txn EXCEPT ![r] = t]
          PROVE  IdsInv'
      <3>1. txn'[r] = t /\ txn'[r] \notin answered'[d]
        BY <2>1, <2>3, <2>6 DEF TypeOK
      <3>2. \A q \in Run : q # r => txn'[q] # t
        BY <2>6 DEF TypeOK
      <3>3. SameIdMixed'
        BY <2>4, <3>1, <3>2 DEF SameIdMixed
      <3>4. AnsweredAccounted'
        BY <2>5, <3>1 DEF AnsweredAccounted, Accounted
      <3> QED BY <3>3, <3>4 DEF IdsInv
    <2>7. ASSUME NEW s \in Run, s # r, Transmitting(s), runs[s].dest = d,
                 txn' = [txn EXCEPT ![r] = txn[s]],
                 mixed' = [mixed EXCEPT ![d] = @ \cup (items \ Snapshot(s))
                                                 \cup (Snapshot(s) \ items)]
          PROVE  IdsInv'
      <3>1. /\ items \subseteq Snapshot(s) \cup mixed'[d]
            /\ Snapshot(s) \subseteq items \cup mixed'[d]
            /\ txn'[r] = txn[s]
        BY <2>1, <2>7 DEF TypeOK
      <3>2. ASSUME NEW q \in Run, q # r, Transmitting(q)', runs'[q].dest = d, txn'[q] = txn'[r]
            PROVE  /\ items \subseteq Snapshot(q)' \cup mixed'[d]
                   /\ Snapshot(q)' \subseteq items \cup mixed'[d]
        <4>1. Transmitting(q) /\ runs[q].dest = d /\ Snapshot(q)' = Snapshot(q) /\ txn[q] = txn[s]
          BY <2>2, <3>1, <3>2
        <4>2. /\ Snapshot(q) \subseteq Snapshot(s) \cup mixed[d]
              /\ Snapshot(s) \subseteq Snapshot(q) \cup mixed[d]
          BY <2>7, <4>1 DEF SafeInv, IdsInv, SameIdMixed
        <4>3. mixed[d] \subseteq mixed'[d]
          BY <2>1
        <4> HIDE DEF items, d
        <4> QED BY <3>1, <4>1, <4>2, <4>3
      <3>3. SameIdMixed'
        BY <2>4, <3>2 DEF SameIdMixed
      <3>4. ASSUME txn'[r] \in answered'[d]
            PROVE  items \subseteq received'[d] \cup mixed'[d]
        <4>1. txn[s] \in answered[d]
          BY <2>1, <2>3, <3>1, <3>4
        <4>2. Snapshot(s) \subseteq received[d] \cup mixed[d]
          BY <2>7, <4>1 DEF SafeInv, IdsInv, AnsweredAccounted, Accounted
        <4>3. mixed[d] \subseteq mixed'[d] /\ received' = received
          BY <2>1
        <4> HIDE DEF items, d
        <4> QED BY <3>1, <4>2, <4>3
      <3>5. AnsweredAccounted'
        BY <2>5, <3>4 DEF AnsweredAccounted, Accounted
      <3> QED BY <3>3, <3>5 DEF IdsInv
    <2> QED BY <1>2, <2>6, <2>7 DEF Draws, Draw
  <1> QED BY <1>1, <1>2 DEF Moves

\* What the runs may do once the rest of the invariant holds of what is stored.
LEMMA RunsStep ==
  ASSUME TypeOK, SafeInv, Moves, NothingLost',
         \A d \in Dest :
             /\ enqueued[d] \subseteq enqueued'[d]
             /\ Held(d)' \subseteq enqueued'[d]
             /\ \A i \in enqueued[d] : before'[d][i] = before[d][i]
             /\ \A i \in enqueued'[d] : before'[d][i] \subseteq enqueued'[d]
  PROVE  RunsInv'
  <1>1. ASSUME NEW r \in Run, Ongoing(r), Transmitting(r)'
        PROVE  /\ Snapshot(r)' \subseteq enqueued'[runs'[r].dest]
               /\ runs'[r].pc = "processed" => Snapshot(r)' \subseteq Accounted(runs[r].dest)'
               /\ \A j \in Snapshot(r)' :
                      before'[runs'[r].dest][j] \subseteq
                          Snapshot(r)' \cup Accounted(runs[r].dest)'
    <2> DEFINE d == runs[r].dest
    <2>1. d \in Dest /\ runs'[r].dest = d /\ Snapshot(r)' = Snapshot(r) /\ Transmitting(r)
      BY <1>1, FieldTypes DEF Ongoing, Transmitting, Snapshot, TypeOK
    <2>2. /\ Snapshot(r) \subseteq enqueued[d]
          /\ \A j \in Snapshot(r) : before[d][j] \subseteq Snapshot(r) \cup Accounted(d)
      BY <2>1 DEF SafeInv, RunsInv, SnapshotStored, SnapshotClosed
    <2>3. runs'[r].pc = "processed" => Snapshot(r) \subseteq Accounted(d)
      BY <1>1 DEF Ongoing, SafeInv, RunsInv, ProcessedReceived
    <2>4. Accounted(d) \subseteq received'[d] \cup mixed'[d]
      BY <2>1, MovesGrow DEF Accounted
    <2>5. Accounted(runs[r].dest)' = received'[d] \cup mixed'[d]
      BY <2>1 DEF Accounted
    <2> HIDE DEF d
    <2> QED BY <2>1, <2>2, <2>3, <2>4, <2>5
  <1>2. ASSUME NEW r \in Run, Starting(r), runs'[r].pc = "sending", runs'[r].dest \in Dest
        PROVE  /\ Snapshot(r)' \subseteq enqueued'[runs'[r].dest]
               /\ \A j \in Snapshot(r)' :
                      before'[runs'[r].dest][j] \subseteq
                          Snapshot(r)' \cup Accounted(runs[r].dest)'
    BY <1>2 DEF Starting, NothingLost, Held, Accounted
  <1> QED BY <1>1, <1>2, MovesGrow
          DEF Transmitting, RunsInv, SnapshotStored, ProcessedReceived, SnapshotClosed

LEMMA StoredStep ==
  ASSUME TypeOK, SafeInv, NEW d \in Dest, NEW i, Stored(d, i), TypeOK', Moves
  PROVE  SafeInv'
  <1>1. /\ \A x \in Dest : enqueued'[x] = IF x = d THEN enqueued[d] \cup {i} ELSE enqueued[x]
        /\ \A x \in Dest : \A j \in enqueued[x] : before'[x][j] = before[x][j]
        /\ before'[d][i] = enqueued[d]
    BY DEF Stored, Record, TypeOK
  <1>2. /\ received' = received
        /\ \A x \in Dest : Accounted(x) \subseteq received'[x] \cup mixed'[x]
    BY MovesGrow DEF Accounted
  <1>3. NothingLost'
    BY <1>1, <1>2 DEF SafeInv, NothingLost, Stored, Accounted
  <1>4. DeliveredInOrder'
    BY <1>1, <1>2 DEF SafeInv, OnlyStored, DeliveredInOrder, Accounted
  <1>5. \A x \in Dest : /\ enqueued[x] \subseteq enqueued'[x]
                        /\ Held(x)' \subseteq enqueued'[x]
                        /\ \A j \in enqueued'[x] : before'[x][j] \subseteq enqueued'[x]
    BY <1>1 DEF SafeInv, OnlyStored, Stored
  <1>6. RunsInv'
    BY <1>1, <1>3, <1>5, RunsStep
  <1>7. OnlyStored'
    BY <1>2, <1>5, <1>6, MixedStored DEF SafeInv, RunsInv, OnlyStored, Accounted
  <1> QED BY <1>3, <1>4, <1>6, <1>7, IdsStep DEF SafeInv

LEMMA KeptStep ==
  ASSUME TypeOK, SafeInv, Kept, TypeOK', Moves
  PROVE  SafeInv'
  <1>1. enqueued' = enqueued /\ before' = before
    BY DEF Kept, history
  <1>2. /\ received' = received
        /\ \A x \in Dest : Accounted(x) \subseteq received'[x] \cup mixed'[x]
    BY MovesGrow DEF Accounted
  <1>3. NothingLost' /\ DeliveredInOrder'
    BY <1>1, <1>2 DEF SafeInv, NothingLost, DeliveredInOrder, Kept, Accounted
  <1>4. \A x \in Dest : /\ Held(x)' \subseteq enqueued'[x]
                        /\ \A j \in enqueued'[x] : before'[x][j] \subseteq enqueued'[x]
    BY <1>1 DEF SafeInv, OnlyStored, Kept
  <1>5. RunsInv'
    BY <1>1, <1>3, <1>4, RunsStep
  <1>6. OnlyStored'
    BY <1>1, <1>2, <1>4, <1>5, MixedStored DEF SafeInv, RunsInv, OnlyStored, Accounted
  <1> QED BY <1>3, <1>5, <1>6, IdsStep DEF SafeInv

\* The destination of r processes its snapshot, whose predecessors it has, or
\* answers from its cache for a run under the same id.
LEMMA ReceivedStep ==
  ASSUME TypeOK, SafeInv, NEW r \in Run, RemoteProcesses(r), TypeOK'
  PROVE  SafeInv'
  <1> DEFINE d == runs[r].dest
  <1>1. d \in Dest /\ Transmitting(r)
    BY FieldTypes DEF RemoteProcesses, Transmitting, TypeOK
  <1>2. /\ Snapshot(r) \subseteq enqueued[d]
        /\ \A j \in Snapshot(r) : before[d][j] \subseteq Snapshot(r) \cup Accounted(d)
    BY <1>1 DEF SafeInv, RunsInv, SnapshotStored, SnapshotClosed
  <1>3. UNCHANGED <<queue, edus, enqueued, before, txn, mixed>>
    BY DEF RemoteProcesses, storage, history
  <1>4. \/ \A x \in Dest :
              received'[x] = IF x = d THEN received[d] \cup Snapshot(r) ELSE received[x]
        \/ received' = received /\ txn[r] \in answered[d]
    BY <1>1 DEF RemoteProcesses, TypeOK
  <1>5. /\ \A x \in Dest : received[x] \subseteq received'[x]
        /\ Snapshot(r) \subseteq received'[d] \cup mixed[d]
    BY <1>1, <1>4 DEF SafeInv, IdsInv, AnsweredAccounted, Accounted
  <1>6. OnlyStored' /\ NothingLost' /\ DeliveredInOrder'
    <2>1. CASE \A x \in Dest :
              received'[x] = IF x = d THEN received[d] \cup Snapshot(r) ELSE received[x]
      BY <1>2, <1>3, <2>1 DEF SafeInv, OnlyStored, NothingLost, DeliveredInOrder, Held, Accounted
    <2>2. CASE received' = received
      BY <1>3, <2>2 DEF SafeInv, OnlyStored, NothingLost, DeliveredInOrder, Held, Accounted
    <2> QED BY <1>4, <2>1, <2>2
  <1>7. ASSUME NEW q \in Run
        PROVE  /\ runs'[q].pc = IF q = r THEN "processed" ELSE runs[q].pc
               /\ runs'[q].dest = runs[q].dest
               /\ Snapshot(q)' = Snapshot(q)
    <2>1. runs[q] \in RunRecord
      BY DEF TypeOK, RunState
    <2> QED BY <2>1 DEF RemoteProcesses, Snapshot, RunRecord, TypeOK
  <1>8. \A q \in Run : Transmitting(q)' => Transmitting(q) /\ runs[q].dest \in Dest
    BY <1>1, <1>7, FieldTypes DEF Transmitting, TypeOK
  <1>9. RunsInv'
    <2>1. SnapshotStored'
      BY <1>3, <1>7, <1>8 DEF SafeInv, RunsInv, SnapshotStored
    <2>2. ASSUME NEW q \in Run, runs'[q].pc = "processed"
          PROVE  Snapshot(q)' \subseteq received'[runs'[q].dest] \cup mixed'[runs'[q].dest]
      <3>1. CASE q = r
        BY <1>3, <1>5, <1>7, <3>1
      <3>2. CASE q # r
        <4>1. runs[q].dest \in Dest /\ Snapshot(q) \subseteq Accounted(runs[q].dest)
          BY <1>7, <1>8, <2>2, <3>2 DEF SafeInv, RunsInv, ProcessedReceived, Transmitting
        <4> QED BY <1>3, <1>5, <1>7, <4>1 DEF Accounted
      <3> QED BY <3>1, <3>2
    <2>3. ASSUME NEW q \in Run, Transmitting(q)', NEW j \in Snapshot(q)'
          PROVE  before'[runs'[q].dest][j] \subseteq
                     Snapshot(q)' \cup received'[runs'[q].dest] \cup mixed'[runs'[q].dest]
      <3>1. /\ runs[q].dest \in Dest
            /\ before[runs[q].dest][j] \subseteq Snapshot(q) \cup Accounted(runs[q].dest)
        BY <1>7, <1>8, <2>3 DEF SafeInv, RunsInv, SnapshotClosed
      <3> QED BY <1>3, <1>5, <1>7, <3>1 DEF Accounted
    <2> QED BY <2>1, <2>2, <2>3 DEF RunsInv, ProcessedReceived, SnapshotClosed, Accounted
  <1>10. SameIdMixed'
    BY <1>3, <1>7, <1>8 DEF SafeInv, IdsInv, SameIdMixed
  <1>11. ASSUME NEW q \in Run, Transmitting(q)', txn[q] \in answered'[runs[q].dest]
         PROVE  Snapshot(q) \subseteq received'[runs[q].dest] \cup mixed[runs[q].dest]
    <2>1. Transmitting(q) /\ runs[q].dest \in Dest
      BY <1>8, <1>11
    <2>2. txn[q] \in answered[runs[q].dest] \/ (runs[q].dest = d /\ txn[q] = txn[r])
      BY <1>1, <1>11, <2>1 DEF RemoteProcesses, TypeOK
    <2>3. CASE txn[q] \in answered[runs[q].dest]
      BY <1>5, <2>1, <2>3 DEF SafeInv, IdsInv, AnsweredAccounted, Accounted
    <2>4. CASE runs[q].dest = d /\ txn[q] = txn[r]
      <3>1. Snapshot(q) \subseteq Snapshot(r) \cup mixed[d]
        BY <1>1, <2>1, <2>4 DEF SafeInv, IdsInv, SameIdMixed
      <3> QED BY <1>5, <2>4, <3>1
    <2> QED BY <2>2, <2>3, <2>4
  <1>12. AnsweredAccounted'
    BY <1>3, <1>7, <1>8, <1>11 DEF AnsweredAccounted, Accounted
  <1> QED BY <1>6, <1>9, <1>10, <1>12 DEF SafeInv, IdsInv

\* A run that stops transmitting, a restart, and a step that moves no run.
LEMMA QuietSteady ==
  ASSUME TypeOK, NEW r \in Run, NEW run \in RunState,
         runs' = [runs EXCEPT ![r] = run], ~(run.pc \in {"sending", "processed"}),
         UNCHANGED received, UNCHANGED <<answered, txn, mixed>> \/ Settle(r)
  PROVE  Steady
  <1>1. \A q \in Run : Ongoing(q)
    BY DEF TypeOK, Ongoing, Transmitting
  <1>2. ~Transmitting(r)'
    BY DEF TypeOK, Transmitting
  <1>3. CASE UNCHANGED <<answered, txn, mixed>>
    BY <1>1, <1>3 DEF Steady
  <1>4. CASE Settle(r)
    <2>1. \A q \in Run : q # r => txn'[q] = txn[q]
      BY <1>4 DEF Settle, TypeOK
    <2>2. UNCHANGED mixed /\ \A d \in Dest : answered'[d] \subseteq answered[d]
      BY <1>4, ForgetType DEF Settle
    <2> QED BY <1>1, <1>2, <2>1, <2>2 DEF Steady
  <1> QED BY <1>3, <1>4

LEMMA RestartSteady ==
  ASSUME TypeOK, Restart, UNCHANGED received
  PROVE  Steady
  <1>1. \A q \in Run : ~Transmitting(q)'
    BY RestartType DEF Transmitting
  <1> QED BY <1>1 DEF Restart, Steady, Ongoing

LEMMA SameSteady ==
  ASSUME UNCHANGED <<runs, transport>>
  PROVE  Steady
  BY DEF Steady, Ongoing, Transmitting

LEMMA UnchangedHeld ==
  ASSUME SafeInv, UNCHANGED <<queue, edus, history>>
  PROVE  Kept /\ \A x \in Dest : Held(x)' = Held(x)
  BY DEF SafeInv, OnlyStored, Kept, Held, history

\* What any step amounts to: a destination processes or answers; an item is
\* stored, to be transmitted along or not; a run draws an id for a transmission;
\* or what is held for one destination changes by items accounted for.
Processing == \E r \in Run : RemoteProcesses(r)

Storing == \E d \in Dest, i \in Item :
              /\ Stored(d, i)
              /\ Steady \/ \E r \in Run : Draws(r) /\ runs'[r].dest = d

Transmission == /\ \E r \in Run : Draws(r)
                /\ Kept
                /\ \A x \in Dest : Held(x)' = Held(x)

Bookkeeping == /\ Steady
               /\ Kept
               /\ \E d : \A x \in Dest : x # d => Held(x)' = Held(x)

LEMMA StepEffect ==
  ASSUME TypeOK, TypeOK', SafeInv, [Next]_vars
  PROVE  Processing \/ Storing \/ Transmission \/ Bookkeeping
  <1>1. ASSUME NEW r \in Run, NEW d \in Dest, NEW p \in Pdu, HandleSend(r, d, p)
        PROVE  Storing
    <2> DEFINE run == Sending(Idle, d, queue[d] \cup {p}, edus[d])
    <2>1. Stored(d, p)
      BY <1>1 DEF HandleSend, Stored, PutPdus, Held, Item, TypeOK
    <2>2. runs'[r] = run /\ \A q \in Run : q # r => runs'[q] = runs[q]
      BY <1>1 DEF HandleSend, TypeOK
    <2>3. run.pc = "sending" /\ run.dest = d /\ run.pdus = queue[d] \cup {p} /\ run.edus = edus[d]
      <3>1. queue[d] \cup {p} \in SUBSET Pdu /\ edus[d] \in SUBSET Edu
        BY DEF TypeOK
      <3> QED BY <3>1, IdleType, SendingType
    <2>4. queue'[d] = queue[d] \cup {p} /\ edus'[d] = edus[d]
      BY <1>1 DEF HandleSend, PutPdus, TypeOK
    <2> HIDE DEF run
    <2>5. Starting(r) /\ Snapshot(r)' = queue[d] \cup {p} \cup edus[d]
      BY <2>2, <2>3, <2>4 DEF Starting, Snapshot, Held
    <2>6. \A q \in Run \ {r} : Ongoing(q)
      BY <2>2 DEF Ongoing, Transmitting
    <2>7. Draw(r, runs'[r].dest, 1, Snapshot(r)')
      BY <1>1, <2>2, <2>3, <2>5 DEF HandleSend
    <2>8. Draws(r) /\ runs'[r].dest = d
      BY <1>1, <2>2, <2>3, <2>5, <2>6, <2>7 DEF Draws, HandleSend
    <2> QED BY <2>1, <2>8 DEF Storing, Item
  <1>2. ASSUME NEW d \in Dest, NEW e \in Edu,
               HandleSendEdu(d, e) \/ HandleSendEduInterrupted(d, e)
        PROVE  Storing
    <2>1. Stored(d, e)
      BY <1>2 DEF HandleSendEdu, HandleSendEduInterrupted, Stored, PutEdu, Held, Item, TypeOK
    <2>2. Steady
      BY <1>2, RestartSteady, SameSteady DEF HandleSendEdu, HandleSendEduInterrupted
    <2> QED BY <2>1, <2>2 DEF Storing, Item
  <1>3. ASSUME NEW d \in Dest, HandleReceive(d)
        PROVE  Bookkeeping
    BY <1>3, SameSteady, UnchangedHeld DEF HandleReceive, Bookkeeping
  <1>4. ASSUME NEW r \in Run, HandleRecover(r) \/ Alarm(r) \/ Finish(r)
        PROVE  Bookkeeping
    <2>1. UNCHANGED <<queue, edus, history, transport>>
      BY <1>4 DEF HandleRecover, Alarm, Finish, storage
    <2>2. PICK run \in RunState : /\ runs' = [runs EXCEPT ![r] = run]
                                  /\ ~(run.pc \in {"sending", "processed"})
      <3>1. [x \in Dest |-> IF x \in known THEN 0 ELSE Never] \in [Dest -> Timer]
        BY TimerType
      <3>2. nextRetry \in [Dest -> Timer]
        BY DEF TypeOK
      <3> QED BY <1>4, <3>1, <3>2, IdleType, LoopingType DEF HandleRecover, Alarm, Finish
    <2> QED BY <2>1, <2>2, QuietSteady, UnchangedHeld DEF Bookkeeping
  <1>5. ASSUME NEW r \in Run, NEW d \in Dest, Visit(r, d)
        PROVE  Transmission \/ Bookkeeping
    <2>1. UNCHANGED <<queue, edus, history, received>>
      BY <1>5 DEF Visit, storage
    <2>2. CASE /\ runs' = [runs EXCEPT ![r] = Looping(@.by, [@.due EXCEPT ![d] = Never])]
               /\ UNCHANGED <<answered, txn, mixed>>
      <3>1. PICK run \in RunState : runs' = [runs EXCEPT ![r] = run] /\ run.pc = "loop"
        <4>1. [runs[r].due EXCEPT ![d] = Never] \in [Dest -> Timer]
          BY TimerType, FieldTypes DEF TypeOK
        <4>2. runs[r].by \in {"request", "alarm"}
          BY FieldTypes DEF TypeOK
        <4> QED BY <2>2, <4>1, <4>2, LoopingType
      <3> QED BY <2>1, <2>2, <3>1, QuietSteady, UnchangedHeld DEF Bookkeeping
    <2>3. CASE /\ runs' = [runs EXCEPT ![r] = Sending(@, d, queue[d], edus[d])]
               /\ Draw(r, d, 1, Held(d))
      <3> DEFINE run == Sending(runs[r], d, queue[d], edus[d])
      <3>1. runs'[r] = run /\ \A q \in Run : q # r => runs'[q] = runs[q]
        BY <2>3 DEF TypeOK
      <3>2. run.pc = "sending" /\ run.dest = d /\ run.pdus = queue[d] /\ run.edus = edus[d]
        <4>1. runs[r] \in RunState /\ queue[d] \in SUBSET Pdu /\ edus[d] \in SUBSET Edu
          BY DEF TypeOK
        <4> QED BY <4>1, SendingType
      <3> HIDE DEF run
      <3>3. Starting(r) /\ Snapshot(r)' = Held(d)
        BY <2>1, <3>1, <3>2 DEF Starting, Snapshot, Held
      <3>4. \A q \in Run \ {r} : Ongoing(q)
        BY <3>1 DEF Ongoing, Transmitting
      <3>5. Draws(r)
        BY <2>1, <2>3, <3>1, <3>2, <3>3, <3>4 DEF Draws
      <3> QED BY <2>1, <3>5, UnchangedHeld DEF Transmission
    <2> QED BY <1>5, <2>2, <2>3 DEF Visit
  <1>6. ASSUME NEW r \in Run, NEW d \in Dest, PassOver(r, d)
        PROVE  Bookkeeping
    <2>1. UNCHANGED <<queue, edus, history, transport>>
      BY <1>6 DEF PassOver, storage
    <2>2. PICK run \in RunState : runs' = [runs EXCEPT ![r] = run] /\ run.pc = "loop"
      <3>1. [runs[r].due EXCEPT ![d] = Never] \in [Dest -> Timer]
        BY TimerType, FieldTypes DEF TypeOK
      <3>2. runs[r].by \in {"request", "alarm"}
        BY FieldTypes DEF TypeOK
      <3> QED BY <1>6, <3>1, <3>2, LoopingType DEF PassOver
    <2> QED BY <2>1, <2>2, QuietSteady, UnchangedHeld DEF Bookkeeping
  <1>7. ASSUME NEW r \in Run, Acknowledged(r) \/ AcknowledgedInterrupted(r)
        PROVE  Bookkeeping
    <2> DEFINE d == runs[r].dest
    <2>1. d \in Dest /\ Snapshot(r) \subseteq Accounted(d)
      BY <1>7, FieldTypes
      DEF Acknowledged, AcknowledgedInterrupted, TypeOK, SafeInv, RunsInv, ProcessedReceived
    <2>2. PICK ps \in SUBSET runs[r].pdus, es \in SUBSET runs[r].edus : DeleteSent(d, ps, es)
      BY <1>7 DEF Acknowledged, AcknowledgedInterrupted
    <2>3. \A x \in Dest : /\ Held(x)' \subseteq Held(x)
                          /\ x # d => Held(x)' = Held(x)
                          /\ Held(x) \subseteq Held(x)' \cup Accounted(x)
      BY <2>1, <2>2 DEF DeleteSent, Held, Snapshot, TypeOK
    <2>4. Kept
      BY <1>7, <2>3
      DEF Kept, SafeInv, OnlyStored, Acknowledged, AcknowledgedInterrupted, history
    <2>5. Steady
      <3>1. CASE Acknowledged(r)
        BY <3>1, VisitedType, QuietSteady DEF Acknowledged, TypeOK
      <3>2. CASE AcknowledgedInterrupted(r)
        BY <3>2, RestartSteady DEF AcknowledgedInterrupted
      <3> QED BY <1>7, <3>1, <3>2
    <2> QED BY <2>3, <2>4, <2>5 DEF Bookkeeping
  <1>8. ASSUME NEW r \in Run, AttemptFails(r)
        PROVE  Transmission
    <2>1. UNCHANGED <<queue, edus, history, received>>
      BY <1>8 DEF AttemptFails, storage
    <2>2. runs[r] \in RunRecord /\ Transmitting(r) /\ runs[r].dest \in Dest
      BY <1>8, FieldTypes DEF TypeOK, RunState, AttemptFails, Transmitting
    <2>3. /\ runs'[r].pc = "sending" /\ runs'[r].dest = runs[r].dest
          /\ runs'[r].pdus = runs[r].pdus /\ runs'[r].edus = runs[r].edus
          /\ \A q \in Run : q # r => runs'[q] = runs[q]
      BY <1>8, <2>2 DEF AttemptFails, TypeOK, RunRecord
    <2>4. Ongoing(r) /\ \A q \in Run \ {r} : Ongoing(q)
      BY <2>2, <2>3 DEF Ongoing, Transmitting
    <2>5. Draws(r)
      <3>1. Snapshot(r)' = Snapshot(r)
        BY <2>3 DEF Snapshot
      <3> QED BY <1>8, <2>1, <2>2, <2>3, <2>4, <3>1 DEF Draws, AttemptFails
    <2> QED BY <2>1, <2>5, UnchangedHeld DEF Transmission
  <1>9. ASSUME NEW r \in Run, ScheduleRetry(r) \/ ScheduleRetryInterrupted(r)
        PROVE  Bookkeeping
    <2> DEFINE d == runs[r].dest
    <2>1. d \in Dest /\ Transmitting(r) /\ Snapshot(r) \subseteq enqueued[d]
      BY <1>9, FieldTypes DEF ScheduleRetry, ScheduleRetryInterrupted, Transmitting,
                              TypeOK, SafeInv, RunsInv, SnapshotStored
    <2>2. PICK ps \in SUBSET runs[r].pdus : PutPdus(d, ps)
      BY <1>9 DEF ScheduleRetry, ScheduleRetryInterrupted
    <2>3. \A x \in Dest : /\ Held(x) \subseteq Held(x)' /\ Held(x)' \subseteq enqueued[x]
                          /\ x # d => Held(x)' = Held(x)
      BY <1>9, <2>1, <2>2 DEF PutPdus, Held, Snapshot, SafeInv, OnlyStored, TypeOK,
                              ScheduleRetry, ScheduleRetryInterrupted
    <2>4. Kept
      BY <1>9, <2>3 DEF Kept, ScheduleRetry, ScheduleRetryInterrupted, history
    <2>5. Steady
      <3>1. CASE ScheduleRetry(r)
        BY <3>1, VisitedType, QuietSteady DEF ScheduleRetry, TypeOK
      <3>2. CASE ScheduleRetryInterrupted(r)
        BY <3>2, RestartSteady DEF ScheduleRetryInterrupted
      <3> QED BY <1>9, <3>1, <3>2
    <2> QED BY <2>3, <2>4, <2>5 DEF Bookkeeping
  <1>10. CASE Crash
    BY <1>10, RestartSteady, UnchangedHeld DEF Crash, storage, Bookkeeping
  <1>11. CASE Tick
    <2>1. \A q \in Run : runs[q] \in RunRecord
      BY DEF TypeOK, RunState
    <2>2. Steady
      BY <1>11, <2>1 DEF Tick, Steady, Ongoing, Transmitting, RunRecord
    <2> QED BY <1>11, <2>2, UnchangedHeld DEF Tick, Bookkeeping
  <1>12. CASE UNCHANGED vars
    BY <1>12, SameSteady, UnchangedHeld DEF vars, storage, Bookkeeping
  <1> QED BY <1>1, <1>2, <1>3, <1>4, <1>5, <1>6, <1>7, <1>8, <1>9, <1>10, <1>11, <1>12
          DEF Next, Step, Processing

LEMMA InitSafe == Init => SafeInv
  <1> SUFFICES ASSUME Init PROVE SafeInv
    OBVIOUS
  <1>1. \A r \in Run : ~Transmitting(r)
    BY IdleType DEF Init, Transmitting
  <1>2. RunsInv /\ IdsInv
    BY <1>1 DEF RunsInv, SnapshotStored, ProcessedReceived, SnapshotClosed, Transmitting,
                IdsInv, SameIdMixed, AnsweredAccounted
  <1>3. OnlyStored /\ NothingLost /\ DeliveredInOrder
    BY DEF Init, OnlyStored, NothingLost, DeliveredInOrder, Held, Accounted
  <1> QED BY <1>2, <1>3 DEF SafeInv

LEMMA StepSafe == TypeOK /\ TypeOK' /\ SafeInv /\ [Next]_vars => SafeInv'
  <1> SUFFICES ASSUME TypeOK, TypeOK', SafeInv, [Next]_vars PROVE SafeInv'
    OBVIOUS
  <1>1. CASE Processing
    BY <1>1, ReceivedStep DEF Processing
  <1>2. CASE Storing
    BY <1>2, StoredStep DEF Storing, Moves
  <1>3. CASE Transmission \/ Bookkeeping
    BY <1>3, KeptStep DEF Transmission, Bookkeeping, Moves
  <1> QED BY <1>1, <1>2, <1>3, StepEffect

LEMMA Inductive == Spec => []IInv
  <1>1. Init => IInv
    BY InitType, InitSafe DEF IInv
  <1>2. IInv /\ [Next]_vars => IInv'
    BY StepType, StepSafe DEF IInv
  <1> QED BY <1>1, <1>2, PTL DEF Spec

\* Nothing stored for a destination is lost: it is held until it was processed
\* there, or shared its transaction id with a different snapshot.
THEOREM NothingIsLost == Spec => []NothingLost
  <1>1. IInv => NothingLost
    BY DEF IInv, SafeInv
  <1> QED BY <1>1, Inductive, PTL

\* No destination processes an item before an earlier one, but for those that
\* shared a transaction id with a different snapshot.
THEOREM OrderIsKept == Spec => []DeliveredInOrder
  <1>1. IInv => DeliveredInOrder
    BY DEF IInv, SafeInv
  <1> QED BY <1>1, Inductive, PTL

-----------------------------------------------------------------------------
(* Refinement: every step of the outbox submits an item, confuses items that
   share an id, lets a destination receive a part of what was submitted,
   rebooks accounted items of one destination, or changes nothing the channel
   sees.                                                                    *)

\* An id that is drawn again confuses items that were handed over, or none.
LEMMA DrawConfuses ==
  ASSUME TypeOK, IInv', NEW r \in Run, Draws(r)
  PROVE  Channel!MayConfuse(runs'[r].dest)
  <1> DEFINE d == runs'[r].dest
             items == mixed'[d]
  <1>1. d \in Dest
    BY DEF Draws
  <1>2. mixed' = [mixed EXCEPT ![d] = @ \cup items]
    <2>1. mixed[d] \subseteq mixed'[d]
      BY <1>1, Mixing
    <2>2. \A x \in Dest : x # d => mixed'[x] = mixed[x]
      BY Mixing
    <2>3. mixed \in [Dest -> SUBSET Item] /\ mixed' \in [Dest -> SUBSET Item]
      BY DEF TypeOK, IInv
    <2> QED BY <1>1, <2>1, <2>2, <2>3
  <1>3. items \subseteq enqueued'[d]
    BY <1>1 DEF IInv, SafeInv, OnlyStored, Accounted
  <1> QED BY <1>2, <1>3 DEF Channel!MayConfuse

LEMMA StepImplements == IInv /\ IInv' /\ [Next]_vars => [Channel!Next]_Channel!vars
  <1> SUFFICES ASSUME IInv, IInv', [Next]_vars PROVE [Channel!Next]_Channel!vars
    OBVIOUS
  <1>0. TypeOK /\ SafeInv /\ TypeOK'
    BY DEF IInv
  <1> DEFINE held == [x \in Dest |-> Held(x)]
  <1>1. ASSUME NEW r \in Run, RemoteProcesses(r)
        PROVE  [Channel!Next]_Channel!vars
    <2> DEFINE d == runs[r].dest
    <2>1. d \in Dest /\ Transmitting(r)
      BY <1>0, <1>1, FieldTypes DEF RemoteProcesses, Transmitting, TypeOK
    <2>2. Snapshot(r) \subseteq enqueued[d] /\ Snapshot(r) \in SUBSET Item
      BY <1>0, <2>1, SnapshotType DEF SafeInv, RunsInv, SnapshotStored, TypeOK
    <2>3. UNCHANGED <<enqueued, mixed>> /\ held' = held
      BY <1>1 DEF RemoteProcesses, storage, history, Held
    <2>4. CASE received' = [received EXCEPT ![d] = @ \cup Snapshot(r)]
      <3>1. Channel!Receive(d, Snapshot(r))
        BY <2>2, <2>3, <2>4 DEF Channel!Receive
      <3> QED BY <2>1, <2>2, <3>1 DEF Channel!Next
    <2>5. CASE UNCHANGED received
      BY <2>3, <2>5 DEF Channel!vars
    <2> QED BY <1>1, <2>4, <2>5 DEF RemoteProcesses
  <1>2. ASSUME NEW d \in Dest, NEW i \in Item, Stored(d, i),
               Steady \/ \E r \in Run : Draws(r) /\ runs'[r].dest = d
        PROVE  [Channel!Next]_Channel!vars
    <2>1. enqueued' = [enqueued EXCEPT ![d] = @ \cup {i}]
      BY <1>2 DEF Stored, Record
    <2>2. held' = [held EXCEPT ![d] = @ \cup {i}]
      BY <1>2 DEF Stored
    <2>3. Channel!MayConfuse(d)
      <3>1. CASE Steady
        <4>1. mixed' = [mixed EXCEPT ![d] = @ \cup {}]
          BY <1>0, <3>1 DEF Steady, TypeOK
        <4> QED BY <4>1 DEF Channel!MayConfuse
      <3> QED BY <1>0, <1>2, <3>1, DrawConfuses
    <2>4. UNCHANGED received
      BY <1>2 DEF Steady, Draws
    <2>5. Channel!Submit(d, i)
      BY <2>1, <2>2, <2>3, <2>4 DEF Channel!Submit
    <2> QED BY <2>5 DEF Channel!Next
  <1>3. ASSUME NEW r \in Run, Draws(r), Kept, \A x \in Dest : Held(x)' = Held(x)
        PROVE  [Channel!Next]_Channel!vars
    <2>1. UNCHANGED <<enqueued, received>> /\ held' = held
      BY <1>3 DEF Kept, history, Draws
    <2>2. Channel!Confuse(runs'[r].dest)
      BY <1>0, <1>3, <2>1, DrawConfuses DEF Channel!Confuse
    <2> QED BY <1>3, <2>2 DEF Draws, Channel!Next
  <1>4. ASSUME NEW d, Steady, Kept, \A x \in Dest : x # d => Held(x)' = Held(x)
        PROVE  [Channel!Next]_Channel!vars
    <2>1. UNCHANGED <<enqueued, received, mixed>>
      BY <1>4 DEF Steady, Kept, history
    <2>2. CASE d \in Dest
      <3>1. Held(d)' \subseteq enqueued[d]
        BY <1>4, <2>2 DEF Kept
      <3>2. enqueued[d] \ (received[d] \cup mixed[d]) \subseteq Held(d)'
        BY <1>0, <1>4, <2>2 DEF SafeInv, NothingLost, Kept, Accounted
      <3>3. Held(d)' \in SUBSET Item
        BY <1>0, <2>2, <3>1 DEF TypeOK
      <3>4. held' = [held EXCEPT ![d] = Held(d)']
        BY <1>4
      <3>5. Channel!Rebook(d, Held(d)')
        BY <2>1, <3>1, <3>2, <3>4 DEF Channel!Rebook
      <3> QED BY <2>2, <3>3, <3>5 DEF Channel!Next
    <2>3. CASE d \notin Dest
      <3>1. held' = held
        BY <1>4, <2>3
      <3> QED BY <2>1, <3>1 DEF Channel!vars
    <2> QED BY <2>2, <2>3
  <1>5. CASE Processing
    BY <1>1, <1>5 DEF Processing
  <1>6. CASE Storing
    BY <1>2, <1>6 DEF Storing
  <1>7. CASE Transmission
    BY <1>3, <1>7 DEF Transmission
  <1>8. CASE Bookkeeping
    BY <1>4, <1>8 DEF Bookkeeping
  <1> QED BY <1>0, <1>5, <1>6, <1>7, <1>8, StepEffect

\* The outbox, with its runs, its alarm and its restarts, implements the
\* at-least-once channel: what it deletes its destination has processed, or may
\* have confused with another transmission under the same id, what it transmits
\* was handed to it, and it forgets nothing else.
THEOREM Implements == Spec => AtLeastOnceDelivery
  <1>1. Init => Channel!Init
    BY DEF Init, Channel!Init, Held
  <1>2. IInv /\ IInv' /\ [Next]_vars => [Channel!Next]_Channel!vars
    BY StepImplements
  <1> QED BY <1>1, <1>2, Inductive, PTL DEF Spec, AtLeastOnceDelivery, Channel!Spec

-----------------------------------------------------------------------------
(* EDUs: the only write of an EDU's key is the one that stores it.          *)

LEMMA EdusGrow ==
  ASSUME TypeOK, [Next]_vars, NEW d \in Dest, edus'[d] \ edus[d] # {}
  PROVE  \E e \in Edu : e \notin enqueued[d] /\ edus'[d] = edus[d] \cup {e}
  <1>1. ASSUME NEW x \in Dest, NEW e \in Edu,
               HandleSendEdu(x, e) \/ HandleSendEduInterrupted(x, e)
        PROVE  e \notin enqueued[d] /\ edus'[d] = edus[d] \cup {e}
    BY <1>1 DEF HandleSendEdu, HandleSendEduInterrupted, PutEdu, TypeOK
  <1>2. ASSUME UNCHANGED edus PROVE FALSE
    BY <1>2
  <1>3. ASSUME NEW r \in Run, Acknowledged(r) \/ AcknowledgedInterrupted(r) PROVE FALSE
    <2>1. PICK x, ps, es : DeleteSent(x, ps, es)
      BY <1>3 DEF Acknowledged, AcknowledgedInterrupted
    <2>2. edus'[d] \subseteq edus[d]
      BY <2>1 DEF DeleteSent, TypeOK
    <2> QED BY <2>2
  <1>4. ASSUME NEW r \in Run, NEW x \in Dest, NEW p \in Pdu, HandleSend(r, x, p)
        PROVE  UNCHANGED edus
    BY <1>4 DEF HandleSend
  <1>5. ASSUME NEW r \in Run,
               \/ HandleRecover(r) \/ Alarm(r) \/ Finish(r) \/ RemoteProcesses(r)
               \/ AttemptFails(r) \/ ScheduleRetry(r) \/ ScheduleRetryInterrupted(r)
               \/ \E x \in Dest : Visit(r, x) \/ PassOver(r, x)
        PROVE  UNCHANGED edus
    BY <1>5 DEF HandleRecover, Alarm, Finish, RemoteProcesses, AttemptFails, ScheduleRetry,
                ScheduleRetryInterrupted, Visit, PassOver, storage
  <1>6. ASSUME Crash \/ Tick \/ UNCHANGED vars \/ \E x \in Dest : HandleReceive(x)
        PROVE  UNCHANGED edus
    BY <1>6 DEF Crash, Tick, HandleReceive, vars, storage
  <1>7. CASE \E x \in Dest, e \in Edu : HandleSendEdu(x, e) \/ HandleSendEduInterrupted(x, e)
    BY <1>1, <1>7
  <1>8. CASE \E r \in Run : Acknowledged(r) \/ AcknowledgedInterrupted(r)
    BY <1>3, <1>8
  <1>9. CASE \E r \in Run, x \in Dest, p \in Pdu : HandleSend(r, x, p)
    BY <1>2, <1>4, <1>9
  <1> QED BY <1>2, <1>5, <1>6, <1>7, <1>8, <1>9 DEF Next, Step

\* An EDU whose key was deleted is never transmitted again by a retry, however
\* many runs hold it in their snapshots: its key is written once.
THEOREM EdusStayDeleted == Spec => DeletedEduStaysDeleted
  <1>1. TypeOK /\ [Next]_vars
           => [\A d \in Dest : (edus'[d] \ edus[d]) \cap enqueued[d] = {}]_vars
    <2> SUFFICES ASSUME TypeOK, [Next]_vars, NEW d \in Dest
                 PROVE  (edus'[d] \ edus[d]) \cap enqueued[d] = {}
      OBVIOUS
    <2>1. CASE edus'[d] \ edus[d] = {}
      BY <2>1
    <2>2. CASE edus'[d] \ edus[d] # {}
      BY <2>2, EdusGrow
    <2> QED BY <2>1, <2>2
  <1> QED BY <1>1, TypeCorrect, PTL DEF Spec, DeletedEduStaysDeleted

-----------------------------------------------------------------------------
(* A run ends: it has destinations left to visit, and transmissions left of *)
(* the one it is at, and each of its steps uses some of them up.            *)

ToVisit(r) == {d \in Dest : runs[r].due[d] # Never}

\* Outcomes that the run still waits for at its destination, at most.
Outcomes(r) ==
    IF runs[r].pc = "sending" THEN 2 * (Attempts - runs[r].attempt) + 2
    ELSE IF runs[r].pc = "processed" THEN 2 * (Attempts - runs[r].attempt) + 1
    ELSE 0

Nearer(r) ==
    \/ runs'[r].pc = "idle"
    \/ ToVisit(r)' \subseteq ToVisit(r) /\ ToVisit(r)' # ToVisit(r)
    \/ ToVisit(r)' = ToVisit(r) /\ Outcomes(r)' < Outcomes(r)

SameDistance(r) ==
    runs'[r].pc = runs[r].pc /\ ToVisit(r)' = ToVisit(r) /\ Outcomes(r)' = Outcomes(r)

RunsNearTheirEnd ==
    [][\A r \in Run : runs[r].pc # "idle" =>
           IF Step(r) THEN Nearer(r) ELSE Nearer(r) \/ SameDistance(r)]_vars

\* Handler r goes on as run, which has less to do.
LEMMA GoesOn ==
  ASSUME TypeOK, NEW r \in Run, NEW run \in RunState, runs' = [runs EXCEPT ![r] = run]
  PROVE  runs'[r] = run /\ ToVisit(r)' = {d \in Dest : run.due[d] # Never}
  BY DEF TypeOK, ToVisit

LEMMA StruckOff ==
  ASSUME TypeOK, NEW r \in Run, NEW d \in Dest, runs[r].due[d] # Never,
         NEW run \in RunState, run.due = [runs[r].due EXCEPT ![d] = Never],
         runs' = [runs EXCEPT ![r] = run]
  PROVE  Nearer(r)
  <1>1. runs[r].due \in [Dest -> Timer]
    BY FieldTypes DEF TypeOK
  <1>2. ToVisit(r)' = {x \in Dest : run.due[x] # Never}
    BY GoesOn
  <1>3. \A x \in Dest : run.due[x] = IF x = d THEN Never ELSE runs[r].due[x]
    BY <1>1
  <1>4. ToVisit(r)' = ToVisit(r) \ {d} /\ d \in ToVisit(r)
    BY <1>2, <1>3 DEF ToVisit
  <1> QED BY <1>4 DEF Nearer

LEMMA FewerOutcomes ==
  ASSUME TypeOK, NEW r \in Run, NEW run \in RunState, run.due = runs[r].due,
         runs' = [runs EXCEPT ![r] = run], Outcomes(r)' < Outcomes(r)
  PROVE  Nearer(r)
  BY GoesOn DEF Nearer, ToVisit

LEMMA StepNears ==
  ASSUME TypeOK, NEW r \in Run, Step(r)
  PROVE  Nearer(r)
  <1>1. runs[r] \in RunState /\ runs[r].attempt \in 1..Attempts /\ Attempts \in Nat
    BY FieldTypes, OutboxAssumption DEF TypeOK
  <1>2. ASSUME NEW d \in Dest, Visit(r, d) PROVE Nearer(r)
    <2>1. runs[r].due[d] # Never
      BY <1>2 DEF Visit, Never
    <2>2. CASE Held(d) = {}
      <3>1. PICK run \in RunState : run = Looping(runs[r].by, [runs[r].due EXCEPT ![d] = Never])
        BY <1>1, StruckOffType
      <3>2. run.due = [runs[r].due EXCEPT ![d] = Never]
        BY <3>1 DEF Looping, At
      <3> QED BY <1>2, <2>1, <2>2, <3>1, <3>2, StruckOff DEF Visit
    <2>3. CASE Held(d) # {}
      <3>1. PICK run \in RunState : run = Sending(runs[r], d, queue[d], edus[d])
        BY <1>1, SendingType DEF TypeOK
      <3>2. run.due = [runs[r].due EXCEPT ![d] = Never]
        BY <3>1 DEF Sending
      <3> QED BY <1>2, <2>1, <2>3, <3>1, <3>2, StruckOff DEF Visit
    <2> QED BY <2>2, <2>3
  <1>3. ASSUME NEW d \in Dest, PassOver(r, d) PROVE Nearer(r)
    <2>1. runs[r].due[d] # Never
      BY <1>3 DEF PassOver, Never
    <2>2. PICK run \in RunState : run = Looping(runs[r].by, [runs[r].due EXCEPT ![d] = Never])
      BY <1>1, StruckOffType
    <2>3. run.due = [runs[r].due EXCEPT ![d] = Never]
      BY <2>2 DEF Looping, At
    <2> QED BY <1>3, <2>1, <2>2, <2>3, StruckOff DEF PassOver
  <1>4. CASE Finish(r)
    BY <1>4, IdleType DEF Finish, Nearer, TypeOK
  <1>5. CASE RemoteProcesses(r)
    <2>1. PICK run \in RunState : run = [runs[r] EXCEPT !.pc = "processed"]
      BY <1>1, <1>5, ProcessedType DEF RemoteProcesses
    <2>2. run.due = runs[r].due /\ run.pc = "processed" /\ run.attempt = runs[r].attempt
      BY <1>1, <2>1 DEF RunState, RunRecord
    <2>3. runs' = [runs EXCEPT ![r] = run] /\ runs'[r] = run /\ runs[r].pc = "sending"
      BY <1>5, <2>1 DEF RemoteProcesses, TypeOK
    <2>4. Outcomes(r)' < Outcomes(r)
      BY <1>1, <2>2, <2>3 DEF Outcomes
    <2> QED BY <2>2, <2>3, <2>4, FewerOutcomes
  <1>6. CASE AttemptFails(r)
    <2>1. runs[r].attempt + 1 \in 1..Attempts /\ runs[r].pc \in {"sending", "processed"}
      BY <1>1, <1>6 DEF AttemptFails, Transmitting
    <2>2. PICK run \in RunState :
             run = [runs[r] EXCEPT !.pc = "sending", !.attempt = runs[r].attempt + 1]
      BY <1>1, <2>1, NextAttemptType
    <2>3. /\ run.due = runs[r].due /\ run.pc = "sending"
          /\ run.attempt = runs[r].attempt + 1
      BY <1>1, <2>2 DEF RunState, RunRecord
    <2>4. runs' = [runs EXCEPT ![r] = run] /\ runs'[r] = run
      BY <1>6, <2>2 DEF AttemptFails, TypeOK
    <2>5. Outcomes(r)' < Outcomes(r)
      BY <1>1, <2>1, <2>3, <2>4 DEF Outcomes
    <2> QED BY <2>3, <2>4, <2>5, FewerOutcomes
  <1>7. CASE Acknowledged(r) \/ ScheduleRetry(r)
    <2>1. runs[r].pc \in {"sending", "processed"} /\ runs' = [runs EXCEPT ![r] = Visited(runs[r])]
      BY <1>7 DEF Acknowledged, ScheduleRetry, Transmitting
    <2>2. PICK run \in RunState : run = Visited(runs[r]) /\ run.pc = "loop"
      BY <1>1, VisitedType
    <2>3. run.due = runs[r].due
      BY <2>2 DEF Visited, Looping, At
    <2>4. runs' = [runs EXCEPT ![r] = run] /\ runs'[r] = run
      BY <2>1, <2>2 DEF TypeOK
    <2>5. Outcomes(r)' < Outcomes(r)
      BY <1>1, <2>1, <2>2, <2>4 DEF Outcomes
    <2> QED BY <2>3, <2>4, <2>5, FewerOutcomes
  <1> QED BY <1>2, <1>3, <1>4, <1>5, <1>6, <1>7 DEF Step

\* Time passes, and no visit is struck off or added.
LEMMA TickNears ==
  ASSUME TypeOK, NEW r \in Run, Tick
  PROVE  SameDistance(r)
  <1>1. runs[r] \in RunState /\ runs[r].due \in [Dest -> Timer]
    BY FieldTypes DEF TypeOK
  <1>2. runs'[r] = [runs[r] EXCEPT !.due = [d \in Dest |-> Elapse(runs[r].due[d])]]
    BY DEF Tick
  <1>3. /\ runs'[r].pc = runs[r].pc /\ runs'[r].attempt = runs[r].attempt
        /\ runs'[r].due = [d \in Dest |-> Elapse(runs[r].due[d])]
    BY <1>1, <1>2 DEF RunState, RunRecord
  <1>4. \A t \in Timer : Elapse(t) = Never <=> t = Never
    BY OutboxAssumption DEF Elapse, Timer, Never
  <1>5. \A d \in Dest : runs'[r].due[d] # Never <=> runs[r].due[d] # Never
    BY <1>1, <1>3, <1>4
  <1> QED BY <1>3, <1>5 DEF SameDistance, ToVisit, Outcomes

\* Nothing the other handlers, the environment or a restart do gives it more to do.
LEMMA OthersNear ==
  ASSUME TypeOK, [Next]_vars, NEW r \in Run, runs[r].pc # "idle"
  PROVE  Nearer(r) \/ SameDistance(r)
  <1>1. ASSUME runs'[r] = runs[r] PROVE SameDistance(r)
    BY <1>1 DEF SameDistance, ToVisit, Outcomes
  <1>2. ASSUME Restart PROVE Nearer(r)
    BY <1>2, RestartType DEF Nearer
  <1>3. ASSUME NEW q \in Run, q # r, NEW run, runs' = [runs EXCEPT ![q] = run]
        PROVE  SameDistance(r)
    BY <1>1, <1>3 DEF TypeOK
  <1>4. ASSUME NEW q \in Run, NEW d \in Dest, NEW p \in Pdu, HandleSend(q, d, p)
        PROVE  SameDistance(r)
    BY <1>3, <1>4 DEF HandleSend
  <1>5. ASSUME NEW q \in Run, HandleRecover(q) \/ Alarm(q)
        PROVE  SameDistance(r)
    BY <1>3, <1>5 DEF HandleRecover, Alarm
  <1>6. ASSUME NEW q \in Run, Step(q)
        PROVE  Nearer(r) \/ SameDistance(r)
    <2>1. \E run : runs' = [runs EXCEPT ![q] = run]
      BY <1>6 DEF Step, Visit, PassOver, Finish, RemoteProcesses, Acknowledged, AttemptFails,
                  ScheduleRetry
    <2> QED BY <1>3, <1>6, <2>1, StepNears
  <1>7. ASSUME NEW q \in Run, AcknowledgedInterrupted(q) \/ ScheduleRetryInterrupted(q)
        PROVE  Nearer(r)
    BY <1>2, <1>7 DEF AcknowledgedInterrupted, ScheduleRetryInterrupted
  <1>8. ASSUME NEW d \in Dest, NEW e \in Edu,
               HandleSendEdu(d, e) \/ HandleSendEduInterrupted(d, e)
        PROVE  Nearer(r) \/ SameDistance(r)
    BY <1>1, <1>2, <1>8 DEF HandleSendEdu, HandleSendEduInterrupted
  <1>9. ASSUME Crash \/ UNCHANGED vars \/ \E d \in Dest : HandleReceive(d)
        PROVE  Nearer(r) \/ SameDistance(r)
    BY <1>1, <1>2, <1>9 DEF Crash, vars, HandleReceive
  <1> QED BY <1>4, <1>5, <1>6, <1>7, <1>8, <1>9, TickNears DEF Next

\* Every step of a handler brings it nearer its end, and nothing that happens
\* meanwhile takes it farther: attempts are counted, a destination is visited
\* once, and new items for a destination give no running handler more to do.
\* This is why EveryRunEnds needs only that handlers go on.
THEOREM EveryRunNearsItsEnd == Spec => RunsNearTheirEnd
  <1>1. TypeOK /\ [Next]_vars
           => [\A r \in Run : runs[r].pc # "idle" =>
                   IF Step(r) THEN Nearer(r) ELSE Nearer(r) \/ SameDistance(r)]_vars
    BY StepNears, OthersNear
  <1> QED BY <1>1, TypeCorrect, PTL DEF Spec, RunsNearTheirEnd

-----------------------------------------------------------------------------
(* What is held has a transmission under way, a visit to come or an alarm   *)
(* not before its instant, with one remote server, one handler at a time,   *)
(* no EDUs and no restarts.  Each condition is needed: see                  *)
(* PendingRetryHasAlarm, HeldEduIsScheduled and RecoverFindsHeld; and of    *)
(* two handlers, the success of the older one clears the retry that the     *)
(* other one scheduled for a newer event.                                   *)

OneAtATime ==
    /\ \A d, e \in Dest : d = e
    /\ \A q, r \in Run : q = r
    /\ Edu = {} /\ Inbound = {} /\ MaxCrashes = 0

\* Nothing is stored for a destination while its handler transmits.
SnapshotIsAll == \A r \in Run : Transmitting(r) => Held(runs[r].dest) \subseteq Snapshot(r)

WakeInv == HeldHasWakeup /\ SnapshotIsAll

\* Handler r goes on as run, which still attends to what r attended to.
LEMMA StaysAttended ==
  ASSUME OneAtATime, TypeOK, WakeInv, NEW r \in Run, NEW run \in RunState,
         runs' = [runs EXCEPT ![r] = run],
         UNCHANGED <<queue, edus, nextRetry, alarm>>,
         \A d \in Dest : Held(d) # {} /\ Attended(r, d) => Attended(r, d)' \/ Timed(d),
         Transmitting(r)' => \A d \in Dest : runs'[r].dest = d => Held(d) \subseteq Snapshot(r)'
  PROVE  WakeInv'
  <1>1. \A d \in Dest : Held(d)' = Held(d) /\ (Timed(d)' <=> Timed(d))
    BY DEF Held, Timed
  <1>2. HeldHasWakeup'
    <2> SUFFICES ASSUME NEW d \in Dest, Held(d)' # {}
                 PROVE  Timed(d)' \/ \E q \in Run : Attended(q, d)'
      BY DEF HeldHasWakeup
    <2>1. Timed(d) \/ Attended(r, d)
      BY <1>1 DEF WakeInv, HeldHasWakeup, OneAtATime
    <2> QED BY <1>1, <2>1
  <1>3. ASSUME NEW q \in Run, Transmitting(q)'
        PROVE  (Held(runs[q].dest) \subseteq Snapshot(q))'
    <2>1. q = r /\ runs'[r] = run
      BY DEF OneAtATime, TypeOK
    <2>2. PICK d \in Dest : d = run.dest
      BY <1>3, <2>1 DEF RunState, Transmitting
    <2>3. Held(d)' = Held(d) /\ Held(d) \subseteq Snapshot(r)'
      BY <1>1, <1>3, <2>1, <2>2
    <2>4. Held(runs[q].dest)' = Held(d)'
      BY <2>1, <2>2 DEF Held
    <2> QED BY <2>1, <2>3, <2>4
  <1>4. SnapshotIsAll'
    BY <1>3 DEF SnapshotIsAll
  <1> QED BY <1>2, <1>4 DEF WakeInv

LEMMA HandlersWake ==
  ASSUME OneAtATime, TypeOK, WakeInv, NEW r \in Run,
         HandleRecover(r) \/ Finish(r) \/ RemoteProcesses(r) \/ AttemptFails(r)
  PROVE  WakeInv'
  <1>1. runs[r] \in RunState /\ runs \in [Run -> RunState]
    BY DEF TypeOK
  <1>2. UNCHANGED <<queue, edus, nextRetry, alarm>>
    BY DEF HandleRecover, Finish, RemoteProcesses, AttemptFails, storage
  <1>3. CASE HandleRecover(r)
    <2>1. [d \in Dest |-> IF d \in known THEN 0 ELSE Never] \in [Dest -> Timer]
      BY TimerType
    <2>2. PICK run \in RunState : run.pc = "loop" /\ runs' = [runs EXCEPT ![r] = run]
      BY <1>3, <2>1, LoopingType DEF HandleRecover
    <2>3. runs'[r] = run
      BY <1>1, <2>2
    <2> QED BY <1>2, <1>3, <2>2, <2>3, StaysAttended DEF HandleRecover, Attended, Transmitting
  <1>4. CASE Finish(r)
    <2>1. PICK run \in RunState : run.pc = "idle" /\ runs' = [runs EXCEPT ![r] = run]
      BY <1>4, IdleType DEF Finish
    <2>2. runs'[r] = run
      BY <1>1, <2>1
    <2>3. \A d \in Dest : ~Attended(r, d)
      BY <1>4 DEF Finish, Attended, Transmitting, NoVisits, Never
    <2> QED BY <1>2, <2>1, <2>2, <2>3, StaysAttended DEF Transmitting
  <1>5. CASE RemoteProcesses(r) \/ AttemptFails(r)
    <2>1. runs[r].pc \in {"sending", "processed"}
      BY <1>5 DEF RemoteProcesses, AttemptFails, Transmitting
    <2>2. PICK run \in RunState :
             /\ runs' = [runs EXCEPT ![r] = run] /\ run.pc \in {"sending", "processed"}
             /\ run.dest = runs[r].dest /\ run.pdus = runs[r].pdus /\ run.edus = runs[r].edus
      <3>1. CASE RemoteProcesses(r)
        <4>1. PICK run \in RunState : run = [runs[r] EXCEPT !.pc = "processed"]
          BY <1>1, <3>1, ProcessedType DEF RemoteProcesses
        <4>2. /\ run.pc = "processed" /\ run.dest = runs[r].dest
              /\ run.pdus = runs[r].pdus /\ run.edus = runs[r].edus
          BY <1>1, <4>1 DEF RunState, RunRecord
        <4> QED BY <3>1, <4>1, <4>2 DEF RemoteProcesses
      <3>2. CASE AttemptFails(r)
        <4>1. runs[r].attempt + 1 \in 1..Attempts
          BY <1>1, <3>2, FieldTypes, OutboxAssumption DEF AttemptFails
        <4>2. PICK run \in RunState :
                 run = [runs[r] EXCEPT !.pc = "sending", !.attempt = runs[r].attempt + 1]
          BY <1>1, <2>1, <4>1, NextAttemptType
        <4>3. /\ run.pc = "sending" /\ run.dest = runs[r].dest
              /\ run.pdus = runs[r].pdus /\ run.edus = runs[r].edus
          BY <1>1, <4>2 DEF RunState, RunRecord
        <4> QED BY <3>2, <4>2, <4>3 DEF AttemptFails
      <3> QED BY <1>5, <3>1, <3>2
    <2>3. runs'[r] = run
      BY <1>1, <2>2
    <2>4. \A d \in Dest : Attended(r, d) <=> Attended(r, d)'
      BY <2>1, <2>2, <2>3 DEF Attended, Transmitting
    <2>5. \A d \in Dest : runs'[r].dest = d => Held(d) \subseteq Snapshot(r)'
      BY <2>1, <2>2, <2>3 DEF WakeInv, SnapshotIsAll, Transmitting, Snapshot
    <2> QED BY <1>2, <2>2, <2>4, <2>5, StaysAttended
  <1> QED BY <1>3, <1>4, <1>5

LEMMA LoopWakes ==
  ASSUME OneAtATime, TypeOK, WakeInv, NEW r \in Run, NEW d \in Dest,
         Visit(r, d) \/ PassOver(r, d)
  PROVE  WakeInv'
  <1>1. runs[r] \in RunState /\ runs \in [Run -> RunState] /\ \A e \in Dest : e = d
    BY DEF TypeOK, OneAtATime
  <1>2. UNCHANGED <<queue, edus, nextRetry, alarm>>
    BY DEF Visit, PassOver, storage
  <1>3. CASE PassOver(r, d) \/ (Visit(r, d) /\ Held(d) = {})
    <2>1. PICK run \in RunState : run = Looping(runs[r].by, [runs[r].due EXCEPT ![d] = Never])
      BY <1>1, StruckOffType
    <2>2. run.pc = "loop" /\ runs' = [runs EXCEPT ![r] = run]
      BY <1>3, <2>1 DEF PassOver, Visit, Looping, At, Held
    <2>3. runs'[r] = run
      BY <1>1, <2>2
    <2>4. Held(d) = {} \/ ~Attended(r, d)
      BY <1>3 DEF PassOver, Visit, Attended, Transmitting, Held
    <2> QED BY <1>1, <1>2, <2>2, <2>3, <2>4, StaysAttended DEF Transmitting
  <1>4. CASE Visit(r, d) /\ Held(d) # {}
    <2>1. queue[d] \in SUBSET Pdu /\ edus[d] \in SUBSET Edu
      BY DEF TypeOK
    <2>2. PICK run \in RunState :
             /\ run = Sending(runs[r], d, queue[d], edus[d]) /\ run.pc = "sending"
             /\ run.dest = d /\ run.pdus = queue[d] /\ run.edus = edus[d]
      BY <1>1, <2>1, SendingType
    <2>3. runs' = [runs EXCEPT ![r] = run]
      BY <1>4, <2>2 DEF Visit, Held
    <2>4. runs'[r] = run
      BY <1>1, <2>3
    <2>5. Attended(r, d)' /\ Held(d) = Snapshot(r)'
      BY <2>2, <2>4 DEF Attended, Transmitting, Held, Snapshot
    <2> QED BY <1>1, <1>2, <2>3, <2>5, StaysAttended
  <1> QED BY <1>3, <1>4

LEMMA OutcomeWakes ==
  ASSUME OneAtATime, TypeOK, WakeInv, NEW r \in Run, Acknowledged(r) \/ ScheduleRetry(r)
  PROVE  WakeInv'
  <1>1. /\ runs[r] \in RunState /\ runs \in [Run -> RunState]
        /\ runs[r].pc \in {"sending", "processed"}
    BY DEF TypeOK, Acknowledged, ScheduleRetry, Transmitting
  <1>2. PICK d \in Dest : d = runs[r].dest
    BY <1>1, FieldTypes
  <1>3. \A e \in Dest : e = d
    BY DEF OneAtATime
  <1>4. PICK run \in RunState : run = Visited(runs[r]) /\ run.pc = "loop"
    BY <1>1, VisitedType
  <1>5. runs'[r] = run /\ \A q \in Run : q = r
    BY <1>1, <1>4 DEF Acknowledged, ScheduleRetry, OneAtATime
  <1>6. SnapshotIsAll'
    BY <1>4, <1>5 DEF SnapshotIsAll, Transmitting
  <1>7. CASE Acknowledged(r)
    <2>1. DeleteSent(d, runs[r].pdus, runs[r].edus)
      BY <1>2, <1>7 DEF Acknowledged
    <2>2. Held(d) \subseteq runs[r].pdus \cup runs[r].edus
      BY <1>1, <1>2 DEF WakeInv, SnapshotIsAll, Transmitting, Snapshot
    <2>3. queue \in [Dest -> SUBSET Pdu] /\ edus \in [Dest -> SUBSET Edu] /\ Edu = {}
      BY DEF TypeOK, OneAtATime
    <2>4. runs[r].edus = {} /\ edus[d] = {}
      BY <1>1, <2>3, FieldTypes
    <2>5. Held(d)' = {}
      BY <2>1, <2>2, <2>3, <2>4 DEF DeleteSent, Held
    <2>6. HeldHasWakeup'
      BY <1>3, <2>5 DEF HeldHasWakeup
    <2> QED BY <1>6, <2>6 DEF WakeInv
  <1>8. CASE ScheduleRetry(r)
    <2>1. PICK delay \in 1..MaxBackoff : delay = Backoff(NextCount(d))
      BY BackoffType
    <2>2. nextRetry'[d] = delay /\ alarm' = delay
      BY <1>2, <1>8, <2>1 DEF ScheduleRetry, PutServer, TypeOK
    <2>3. delay # Never /\ delay <= delay
      BY OutboxAssumption DEF Never
    <2>4. Timed(d)'
      BY <2>2, <2>3 DEF Timed
    <2> QED BY <1>3, <1>6, <2>4 DEF WakeInv, HeldHasWakeup
  <1> QED BY <1>7, <1>8

LEMMA RequestWakes ==
  ASSUME OneAtATime, TypeOK, WakeInv, NEW r \in Run, NEW d \in Dest, NEW p \in Pdu,
         HandleSend(r, d, p)
  PROVE  WakeInv'
  <1>1. runs \in [Run -> RunState] /\ queue \in [Dest -> SUBSET Pdu] /\ edus[d] \in SUBSET Edu
    BY DEF TypeOK
  <1>2. PICK run \in RunState :
           /\ run = Sending(Idle, d, queue[d] \cup {p}, edus[d])
           /\ run.pc = "sending" /\ run.dest = d
           /\ run.pdus = queue[d] \cup {p} /\ run.edus = edus[d]
    <2>1. queue[d] \cup {p} \in SUBSET Pdu
      BY <1>1
    <2> QED BY <1>1, <2>1, IdleType, SendingType
  <1>3. runs'[r] = run /\ (\A q \in Run : q = r) /\ (\A e \in Dest : e = d)
    BY <1>1, <1>2 DEF HandleSend, OneAtATime
  <1>4. Held(d)' = Snapshot(r)' /\ Attended(r, d)'
    BY <1>1, <1>2, <1>3 DEF HandleSend, PutPdus, Held, Snapshot, Attended, Transmitting
  <1>5. HeldHasWakeup'
    BY <1>3, <1>4 DEF HeldHasWakeup
  <1>6. Held(runs[r].dest)' = Held(d)'
    BY <1>2, <1>3 DEF Held
  <1>7. SnapshotIsAll'
    BY <1>3, <1>4, <1>6 DEF SnapshotIsAll
  <1> QED BY <1>5, <1>7 DEF WakeInv

\* The alarm finds what it was set for due.
LEMMA AlarmWakes ==
  ASSUME OneAtATime, TypeOK, WakeInv, NEW r \in Run, Alarm(r)
  PROVE  WakeInv'
  <1>1. runs \in [Run -> RunState] /\ nextRetry \in [Dest -> Timer] /\ \A q \in Run : q = r
    BY DEF TypeOK, OneAtATime
  <1>2. PICK run \in RunState : run = Looping("alarm", nextRetry) /\ run.pc = "loop"
    BY <1>1, LoopingType
  <1>3. runs'[r] = run /\ run.due = nextRetry
    BY <1>1, <1>2 DEF Alarm, Looping, At
  <1>4. SnapshotIsAll'
    BY <1>1, <1>2, <1>3 DEF SnapshotIsAll, Transmitting
  <1>5. ASSUME NEW d \in Dest, Held(d)' # {} PROVE Attended(r, d)'
    <2>1. Held(d) # {} /\ alarm = 0 /\ ~Attended(r, d)
      BY <1>5 DEF Alarm, storage, Held, Attended, Transmitting
    <2>2. nextRetry[d] # Never /\ nextRetry[d] <= 0
      BY <1>1, <2>1 DEF WakeInv, HeldHasWakeup, Timed
    <2>3. nextRetry[d] = 0
      BY <1>1, <2>2, OutboxAssumption DEF Timer, Never
    <2> QED BY <1>2, <1>3, <2>3 DEF Attended
  <1> QED BY <1>4, <1>5 DEF WakeInv, HeldHasWakeup

LEMMA TickWakes ==
  ASSUME OneAtATime, TypeOK, WakeInv, Tick
  PROVE  WakeInv'
  <1>1. ASSUME NEW r \in Run
        PROVE  /\ runs'[r].pc = runs[r].pc /\ runs'[r].dest = runs[r].dest
               /\ runs'[r].pdus = runs[r].pdus /\ runs'[r].edus = runs[r].edus
               /\ \A d \in Dest : runs[r].due[d] = 0 => runs'[r].due[d] = 0
    <2>1. runs[r] \in RunState
      BY DEF TypeOK
    <2>2. runs'[r] = [runs[r] EXCEPT !.due = [d \in Dest |-> Elapse(runs[r].due[d])]]
      BY DEF Tick
    <2> QED BY <2>1, <2>2 DEF RunState, RunRecord, Elapse
  <1>2. \A d \in Dest : Held(d)' = Held(d)
    BY DEF Tick, Held
  <1>3. ASSUME NEW d \in Dest, Timed(d) PROVE Timed(d)'
    <2>1. nextRetry[d] \in Timer /\ alarm \in Timer
      BY DEF TypeOK
    <2>2. nextRetry'[d] = Elapse(nextRetry[d]) /\ alarm' = Elapse(alarm)
      BY DEF Tick
    <2> QED BY <1>3, <2>1, <2>2, OutboxAssumption DEF Timed, Elapse, Timer, Never
  <1>4. \A r \in Run, d \in Dest : Attended(r, d) => Attended(r, d)'
    BY <1>1 DEF Attended, Transmitting
  <1>5. HeldHasWakeup'
    BY <1>2, <1>3, <1>4 DEF WakeInv, HeldHasWakeup
  <1>6. ASSUME NEW r \in Run, Transmitting(r)'
        PROVE  (Held(runs[r].dest) \subseteq Snapshot(r))'
    <2>1. Transmitting(r) /\ Snapshot(r)' = Snapshot(r)
      BY <1>1, <1>6 DEF Transmitting, Snapshot
    <2>2. Held(runs[r].dest)' = Held(runs[r].dest)
      BY <1>1 DEF Tick, Held
    <2> QED BY <2>1, <2>2 DEF WakeInv, SnapshotIsAll
  <1>7. SnapshotIsAll'
    BY <1>6 DEF SnapshotIsAll
  <1> QED BY <1>5, <1>7 DEF WakeInv

LEMMA WakeNext ==
  ASSUME OneAtATime, TypeOK, WakeInv, [Next]_vars
  PROVE  WakeInv'
  <1>1. crashes \in 0..0 /\ ~Restart
    BY DEF OneAtATime, TypeOK, Restart
  <1>2. ASSUME NEW r \in Run, Step(r) PROVE WakeInv'
    BY <1>2, HandlersWake, LoopWakes, OutcomeWakes DEF Step
  <1>3. CASE UNCHANGED vars
    BY <1>3 DEF vars, storage, WakeInv, HeldHasWakeup, SnapshotIsAll, Held, Timed, Attended,
                Transmitting, Snapshot
  <1>4. ~Crash /\ \A r \in Run : ~AcknowledgedInterrupted(r) /\ ~ScheduleRetryInterrupted(r)
    BY <1>1 DEF Crash, AcknowledgedInterrupted, ScheduleRetryInterrupted
  <1>5. Edu = {} /\ \A d \in Dest : ~HandleReceive(d)
    BY DEF OneAtATime, HandleReceive
  <1> QED BY <1>2, <1>3, <1>4, <1>5, HandlersWake, AlarmWakes, RequestWakes, TickWakes DEF Next

\* The retry mechanism never forgets a queue: one server, one handler at a
\* time, for any number of events, attempts and failures.  It is the safety
\* half of EventuallyDelivered: the alarm handler finds what is held due.
THEOREM HeldIsWokenUp ==
  ASSUME OneAtATime
  PROVE  Spec => []HeldHasWakeup
  <1>1. Init => WakeInv
    BY DEF Init, WakeInv, HeldHasWakeup, SnapshotIsAll, Held, Transmitting, Idle, At
  <1>2. TypeOK /\ WakeInv /\ [Next]_vars => WakeInv'
    BY WakeNext
  <1>3. WakeInv => HeldHasWakeup
    BY DEF WakeInv
  <1> QED BY <1>1, <1>2, <1>3, TypeCorrect, PTL DEF Spec

=============================================================================
