-------------------------- MODULE FederationOutbox --------------------------
(***************************************************************************)
(* FederationDurableObject: the one durable object ("outbound") through    *)
(* which every PDU and EDU for a remote server leaves this homeserver.     *)
(*                                                                         *)
(* A durable object is single threaded and its input gate holds back every *)
(* other event while a storage call is pending, so the storage section of  *)
(* a handler is one step here.  Handlers interleave where they await       *)
(* anything else: the transmission to the remote server and the pauses     *)
(* between its attempts.  Storage and the alarm survive a restart, running *)
(* handlers do not; a restart may also strike inside a storage section,    *)
(* after a part of its writes (the ...Interrupted actions).                *)
(*                                                                         *)
(* A transmission carries a transaction id, made of the millisecond and    *)
(* the attempt.  Two runs that overlap may draw the same one, and the      *)
(* remote server then answers the later of them from its cache,            *)
(* unprocessed.                                                            *)
(*                                                                         *)
(* Time: one tick is the base retry delay (1000 ms).  A timer counts the   *)
(* ticks left until its instant; 0 is "now or in the past".                *)
(***************************************************************************)
EXTENDS Integers, FiniteSets

CONSTANTS Dest,        \* remote servers
          Pdu,         \* events, by event id
          Edu,         \* ephemeral units, one storage key each
          Run,         \* handler invocations that may be in progress at once
          Txn,         \* transaction ids, no fewer than runs: see Draw
          NoTxn,       \* the id of a run that does not transmit
          Attempts,    \* transmissions per run (length of retryDelays)
          MaxBackoff,  \* the longest retry delay, in ticks
          RetryCap,    \* bound: retry counts are not told apart beyond it
          MaxCrashes,  \* bound: restarts of the object
          Inbound,     \* origins that post to /receive (no caller in src)
          Nobody       \* the destination of a run that has none

ASSUME OutboxAssumption ==
    /\ Attempts \in Nat \ {0}
    /\ MaxBackoff \in Nat \ {0}
    /\ RetryCap \in Nat \ {0}
    /\ MaxCrashes \in Nat
    /\ Inbound \subseteq Dest
    /\ Pdu \cap Edu = {}
    /\ Nobody \notin Dest

Never == -1
Timer == {Never} \cup 0..MaxBackoff
Item  == Pdu \cup Edu
Ids   == Txn \cup {NoTxn}

VARIABLES
    queue,       \* [Dest -> SUBSET Pdu]: the keys queue:<dest>:<event_id>
    edus,        \* [Dest -> SUBSET Edu]: the keys edu:<dest>:...
    known,       \* destinations with a server:<dest> record
    retryCount,  \* that record's retryCount (0 where there is none)
    nextRetry,   \* that record's nextRetry (Never for null or no record)
    alarm,       \* the object's only alarm
    runs,        \* the handler invocations in progress
    crashes,     \* restarts so far
    enqueued,    \* history: what was stored for each destination
    before,      \* history: what had been stored for it before each item
    received,    \* the remote servers: items of transactions they processed
    answered,    \* the remote servers: ids they answer from their cache
    txn,         \* the id that each run transmits under
    mixed        \* history: items of one transmission under an id and not of
                 \* another under the same id

storage == <<queue, edus, known, retryCount, nextRetry>>
history == <<enqueued, before>>
transport == <<received, answered, txn, mixed>>
vars == <<storage, alarm, runs, crashes, history, transport>>

-----------------------------------------------------------------------------
(* A run: where it is ("idle", "loop" between destinations, "sending" while
   a transmission is under way, "processed" once the remote processed it but
   before the answer is known), what started it, its destination, the
   snapshot it transmits, its attempt, and the destinations it has yet to
   visit, each with the instant it is due.                                  *)

NoVisits == [d \in Dest |-> Never]

RunRecord == [pc : {"idle", "loop", "sending", "processed"}, by : {"request", "alarm"},
              dest : Dest \cup {Nobody}, pdus : SUBSET Pdu, edus : SUBSET Edu,
              attempt : 1..Attempts, due : [Dest -> Timer]]

RunState == {run \in RunRecord : run.pc \in {"sending", "processed"} => run.dest \in Dest}

At(pc, origin, visits) ==
    [pc |-> pc, by |-> origin, dest |-> Nobody, pdus |-> {}, edus |-> {},
     attempt |-> 1, due |-> visits]

Idle == At("idle", "request", NoVisits)

\* A run that loops over the destinations of due, as alarm and /recover do.
Looping(origin, visits) == At("loop", origin, visits)

\* run is about to transmit the snapshot (ps, es) to d.
Sending(run, d, ps, es) ==
    [pc |-> "sending", by |-> run.by, dest |-> d, pdus |-> ps, edus |-> es,
     attempt |-> 1, due |-> [run.due EXCEPT ![d] = Never]]

\* run is done with its destination and turns to the next one.
Visited(run) == Looping(run.by, run.due)

\* What is stored for d.
Held(d) == queue[d] \cup edus[d]

HandlingAlarm == \E r \in Run : runs[r].by = "alarm"
Transmitting(r) == runs[r].pc \in {"sending", "processed"}
Snapshot(r) == runs[r].pdus \cup runs[r].edus

\* The remote's cache, as far as it matters to the runs other than r.  An id that
\* none of them transmits under is forgotten, and serves again as a new one.
Forget(r) ==
    answered' = [d \in Dest |-> {t \in answered[d] : \E q \in Run \ {r} : txn[q] = t}]

\* `${Date.now()}-${attempt}`: run r draws the id under which it transmits items
\* to d: a new one, or that of a run q whose transmission overlaps, which drew it
\* for the same attempt in the same millisecond (when the clock last moved is
\* left open).
Draw(r, d, attempt, items) ==
    /\ Forget(r)
    /\ \/ /\ \E t \in Txn : /\ \A q \in Run \ {r} : txn[q] # t
                          /\ txn' = [txn EXCEPT ![r] = t]
          /\ UNCHANGED mixed
       \/ \E q \in Run \ {r} :
             /\ Transmitting(q) /\ runs[q].dest = d /\ runs[q].attempt = attempt
             /\ txn' = [txn EXCEPT ![r] = txn[q]]
             /\ mixed' = [mixed EXCEPT ![d] = @ \cup (items \ Snapshot(q))
                                             \cup (Snapshot(q) \ items)]

\* Run r transmits no more.
Settle(r) ==
    /\ Forget(r)
    /\ txn' = [txn EXCEPT ![r] = NoTxn]
    /\ UNCHANGED mixed

-----------------------------------------------------------------------------
(* The writes the handlers are made of.                                     *)

PutPdus(d, ps) == queue' = [queue EXCEPT ![d] = @ \cup ps]
PutEdu(d, e)   == edus'  = [edus  EXCEPT ![d] = @ \cup {e}]

\* Slip: everything held for d is deleted, not only the snapshot.
DeleteHeld(d, ps, es) ==
    /\ queue' = [queue EXCEPT ![d] = @ \ (ps \cup queue[d])]
    /\ edus'  = [edus  EXCEPT ![d] = @ \ es]

DeleteSent(d, ps, es) ==
    /\ queue' = [queue EXCEPT ![d] = @ \ ps]
    /\ edus'  = [edus  EXCEPT ![d] = @ \ es]

PutServer(d, count, next) ==
    /\ known' = known \cup {d}
    /\ retryCount' = [retryCount EXCEPT ![d] = count]
    /\ nextRetry'  = [nextRetry  EXCEPT ![d] = next]

Record(d, i) ==
    /\ enqueued' = [enqueued EXCEPT ![d] = @ \cup {i}]
    /\ before'   = [before EXCEPT ![d] = [@ EXCEPT ![i] = enqueued[d]]]

\* The delay before the n-th retry: min(2^(n-1), MaxBackoff).
Backoff(n) == IF 2^(n-1) \in 1..MaxBackoff THEN 2^(n-1) ELSE MaxBackoff

\* One more failed run for d, counted up to RetryCap.
NextCount(d) == IF retryCount[d] < RetryCap THEN retryCount[d] + 1 ELSE retryCount[d]

\* The object restarts: its handlers are gone, and an alarm that was being
\* handled is delivered again unless another one was set meanwhile.
Restart ==
    /\ crashes < MaxCrashes
    /\ crashes' = crashes + 1
    /\ runs' = [r \in Run |-> Idle]
    /\ alarm' = IF alarm = Never /\ HandlingAlarm THEN 0 ELSE alarm
    /\ txn' = [r \in Run |-> NoTxn]
    /\ answered' = [d \in Dest |-> {}]
    /\ UNCHANGED mixed

-----------------------------------------------------------------------------
Init ==
    /\ queue      = [d \in Dest |-> {}]
    /\ edus       = [d \in Dest |-> {}]
    /\ known      = {}
    /\ retryCount = [d \in Dest |-> 0]
    /\ nextRetry  = NoVisits
    /\ alarm      = Never
    /\ runs       = [r \in Run |-> Idle]
    /\ crashes    = 0
    /\ enqueued   = [d \in Dest |-> {}]
    /\ before     = [d \in Dest |-> [i \in Item |-> {}]]
    /\ received   = [d \in Dest |-> {}]
    /\ answered   = [d \in Dest |-> {}]
    /\ txn        = [r \in Run |-> NoTxn]
    /\ mixed      = [d \in Dest |-> {}]

\* Slip: only the new event is transmitted, not what waits before it.
HandleSendAlone(r, d, p) ==
    /\ runs[r].pc = "idle"
    /\ p \notin enqueued[d]
    /\ PutPdus(d, {p})
    /\ Record(d, p)
    /\ runs' = [runs EXCEPT ![r] = Sending(Idle, d, {p}, edus[d])]
    /\ Draw(r, d, 1, {p} \cup edus[d])
    /\ UNCHANGED <<edus, known, retryCount, nextRetry, alarm, crashes, received>>

\* POST /send: store the event, then process the queue of its destination.
\* The room pipelines fan an event out to a destination once.
HandleSend(r, d, p) ==
    /\ runs[r].pc = "idle"
    /\ p \notin enqueued[d]
    /\ PutPdus(d, {p})
    /\ Record(d, p)
    /\ runs' = [runs EXCEPT ![r] = Sending(Idle, d, queue[d] \cup {p}, edus[d])]
    /\ Draw(r, d, 1, queue[d] \cup {p} \cup edus[d])
    /\ UNCHANGED <<edus, known, retryCount, nextRetry, alarm, crashes, received>>

\* POST /send-edu: store the unit, reset the destination's record to "due
\* now" and move the alarm to now.
HandleSendEdu(d, e) ==
    /\ e \notin enqueued[d]
    /\ PutEdu(d, e)
    /\ Record(d, e)
    /\ PutServer(d, 0, 0)
    /\ alarm' = 0
    /\ UNCHANGED <<queue, runs, crashes, transport>>

HandleSendEduInterrupted(d, e) ==
    /\ e \notin enqueued[d]
    /\ PutEdu(d, e)
    /\ Record(d, e)
    /\ PutServer(d, 0, 0) \/ UNCHANGED <<known, retryCount, nextRetry>>
    /\ Restart
    /\ UNCHANGED <<queue, received>>

\* POST /receive: the origin was heard of, its record is reset.
HandleReceive(d) ==
    /\ d \in Inbound
    /\ PutServer(d, 0, Never)
    /\ UNCHANGED <<queue, edus, alarm, runs, crashes, history, transport>>

\* POST /recover: visit every destination on record.
HandleRecover(r) ==
    /\ runs[r].pc = "idle"
    /\ runs' = [runs EXCEPT ![r] =
                   Looping("request", [d \in Dest |-> IF d \in known THEN 0 ELSE Never])]
    /\ UNCHANGED <<storage, alarm, crashes, history, transport>>

\* Slip: a destination that is due at this very instant is not due.
AlarmLater(r) ==
    /\ alarm = 0
    /\ runs[r].pc = "idle"
    /\ ~HandlingAlarm
    /\ alarm' = Never
    /\ runs' = [runs EXCEPT ![r] =
                   Looping("alarm", [d \in Dest |-> IF nextRetry[d] = 0 THEN 1 ELSE nextRetry[d]])]
    /\ UNCHANGED <<storage, crashes, history, transport>>

\* The alarm: visit every destination whose nextRetry, as listed now, is due
\* when its turn comes.  At most one alarm handler runs at a time.
Alarm(r) ==
    /\ alarm = 0
    /\ runs[r].pc = "idle"
    /\ ~HandlingAlarm
    /\ alarm' = Never
    /\ runs' = [runs EXCEPT ![r] = Looping("alarm", nextRetry)]
    /\ UNCHANGED <<storage, crashes, history, transport>>

\* The loop reaches d: process its queue, unless it is empty.
Visit(r, d) ==
    /\ runs[r].pc = "loop"
    /\ runs[r].due[d] = 0
    /\ \/ /\ Held(d) = {}
          /\ runs' = [runs EXCEPT ![r] = Looping(@.by, [@.due EXCEPT ![d] = Never])]
          /\ UNCHANGED <<answered, txn, mixed>>
       \/ /\ Held(d) # {}
          /\ runs' = [runs EXCEPT ![r] = Sending(@, d, queue[d], edus[d])]
          /\ Draw(r, d, 1, Held(d))
    /\ UNCHANGED <<storage, alarm, crashes, history, received>>

\* The loop reaches d before it is due, and does not come back to it.
PassOver(r, d) ==
    /\ runs[r].pc = "loop"
    /\ runs[r].due[d] > 0
    /\ runs' = [runs EXCEPT ![r] = Looping(@.by, [@.due EXCEPT ![d] = Never])]
    /\ UNCHANGED <<storage, alarm, crashes, history, transport>>

Finish(r) ==
    /\ runs[r].pc = "loop"
    /\ runs[r].due = NoVisits
    /\ runs' = [runs EXCEPT ![r] = Idle]
    /\ UNCHANGED <<storage, alarm, crashes, history, transport>>

\* The remote server processes the transmission in flight, or has answered its
\* id before and does so again.
RemoteProcesses(r) ==
    LET d == runs[r].dest
    IN /\ runs[r].pc = "sending"
       /\ runs' = [runs EXCEPT ![r].pc = "processed"]
       /\ \/ received' = [received EXCEPT ![d] = @ \cup Snapshot(r)]
          \/ txn[r] \in answered[d] /\ UNCHANGED received
       /\ answered' = [answered EXCEPT ![d] = @ \cup {txn[r]}]
       /\ UNCHANGED <<storage, alarm, crashes, history, txn, mixed>>

\* Slip: any answer counts as a success.
AnsweredAnyhow(r) ==
    /\ Transmitting(r)
    /\ DeleteSent(runs[r].dest, runs[r].pdus, runs[r].edus)
    /\ PutServer(runs[r].dest, 0, Never)
    /\ runs' = [runs EXCEPT ![r] = Visited(@)]
    /\ Settle(r)
    /\ UNCHANGED <<alarm, crashes, history, received>>

\* A 2xx arrives: forget what was transmitted, clear the record.
Acknowledged(r) ==
    /\ runs[r].pc = "processed"
    /\ DeleteSent(runs[r].dest, runs[r].pdus, runs[r].edus)
    /\ PutServer(runs[r].dest, 0, Never)
    /\ runs' = [runs EXCEPT ![r] = Visited(@)]
    /\ Settle(r)
    /\ UNCHANGED <<alarm, crashes, history, received>>

AcknowledgedInterrupted(r) ==
    /\ runs[r].pc = "processed"
    /\ \E ps \in SUBSET runs[r].pdus, es \in SUBSET runs[r].edus :
          DeleteSent(runs[r].dest, ps, es)
    /\ Restart
    /\ UNCHANGED <<known, retryCount, nextRetry, history, received>>

\* Slip: the attempts are not counted.
AttemptFailsForever(r) ==
    /\ Transmitting(r)
    /\ runs[r].attempt < Attempts
    /\ runs' = [runs EXCEPT ![r].pc = "sending"]
    /\ Draw(r, runs[r].dest, runs[r].attempt, Snapshot(r))
    /\ UNCHANGED <<storage, alarm, crashes, history, received>>

\* Any other outcome, a lost answer included, with an attempt left.
AttemptFails(r) ==
    /\ Transmitting(r)
    /\ runs[r].attempt < Attempts
    /\ runs' = [runs EXCEPT ![r].pc = "sending", ![r].attempt = @ + 1]
    /\ Draw(r, runs[r].dest, runs[r].attempt + 1, Snapshot(r))
    /\ UNCHANGED <<storage, alarm, crashes, history, received>>

\* Slip: the units of the snapshot are written again like its events.
ScheduleRetryOfAll(r) ==
    LET d == runs[r].dest
    IN /\ Transmitting(r)
       /\ runs[r].attempt = Attempts
       /\ PutServer(d, NextCount(d), Backoff(NextCount(d)))
       /\ PutPdus(d, runs[r].pdus)
       /\ edus' = [edus EXCEPT ![d] = @ \cup runs[r].edus]
       /\ alarm' = Backoff(NextCount(d))
       /\ runs' = [runs EXCEPT ![r] = Visited(@)]
       /\ Settle(r)
       /\ UNCHANGED <<crashes, history, received>>

\* Slip: the alarm is not set.
ScheduleRetryUnalarmed(r) ==
    LET d == runs[r].dest
    IN /\ Transmitting(r)
       /\ runs[r].attempt = Attempts
       /\ PutServer(d, NextCount(d), Backoff(NextCount(d)))
       /\ PutPdus(d, runs[r].pdus)
       /\ runs' = [runs EXCEPT ![r] = Visited(@)]
       /\ Settle(r)
       /\ UNCHANGED <<edus, alarm, crashes, history, received>>

\* The last attempt fails: back off, write the snapshot's events again (they
\* carry the retry count) and move the alarm to this destination's instant.
ScheduleRetry(r) ==
    LET d == runs[r].dest
    IN /\ Transmitting(r)
       /\ runs[r].attempt = Attempts
       /\ PutServer(d, NextCount(d), Backoff(NextCount(d)))
       /\ PutPdus(d, runs[r].pdus)
       /\ alarm' = Backoff(NextCount(d))
       /\ runs' = [runs EXCEPT ![r] = Visited(@)]
       /\ Settle(r)
       /\ UNCHANGED <<edus, crashes, history, received>>

ScheduleRetryInterrupted(r) ==
    LET d == runs[r].dest
    IN /\ Transmitting(r)
       /\ runs[r].attempt = Attempts
       /\ PutServer(d, NextCount(d), Backoff(NextCount(d)))
       /\ \E ps \in SUBSET runs[r].pdus : PutPdus(d, ps)
       /\ Restart
       /\ UNCHANGED <<edus, history, received>>

Crash ==
    /\ Restart
    /\ UNCHANGED <<storage, history, received>>

Elapse(t) == IF t > 0 THEN t - 1 ELSE t

\* A tick passes while some timer is running.
Tick ==
    /\ alarm > 0 \/ \E d \in Dest : nextRetry[d] > 0
    /\ alarm' = Elapse(alarm)
    /\ nextRetry' = [d \in Dest |-> Elapse(nextRetry[d])]
    /\ runs' = [r \in Run |->
                   [runs[r] EXCEPT !.due = [d \in Dest |-> Elapse(runs[r].due[d])]]]
    /\ UNCHANGED <<queue, edus, known, retryCount, crashes, history, transport>>

-----------------------------------------------------------------------------
Step(r) ==
    \/ \E d \in Dest : Visit(r, d) \/ PassOver(r, d)
    \/ Finish(r)
    \/ RemoteProcesses(r)
    \/ Acknowledged(r)
    \/ AttemptFails(r)
    \/ ScheduleRetry(r)

Next ==
    \/ \E r \in Run, d \in Dest, p \in Pdu : HandleSend(r, d, p)
    \/ \E d \in Dest, e \in Edu : HandleSendEdu(d, e) \/ HandleSendEduInterrupted(d, e)
    \/ \E d \in Dest : HandleReceive(d)
    \/ \E r \in Run : \/ HandleRecover(r)
                      \/ Alarm(r)
                      \/ Step(r)
                      \/ AcknowledgedInterrupted(r)
                      \/ ScheduleRetryInterrupted(r)
    \/ Crash
    \/ Tick

Spec == Init /\ [][Next]_vars

(* Fairness.  The platform runs a handler to its end, delivers a due alarm
   and time passes; a transmission ends, with an answer or without (weak
   fairness of Step: the code sets no limit to it, the platform does).  The
   environment's requests, the restarts and the remote's behaviour are not
   fair.                                                                    *)
Fairness ==
    /\ WF_vars(Tick)
    /\ \A r \in Run : WF_vars(Step(r)) /\ WF_vars(Alarm(r))

\* A remote server that is asked again and again answers in time now and then.
RemoteFairness ==
    \A r \in Run : SF_vars(RemoteProcesses(r)) /\ SF_vars(Acknowledged(r))

FairSpec == Spec /\ Fairness
HealthySpec == FairSpec /\ RemoteFairness

-----------------------------------------------------------------------------
(* Properties.                                                              *)

TypeOK ==
    /\ queue \in [Dest -> SUBSET Pdu]
    /\ edus \in [Dest -> SUBSET Edu]
    /\ known \in SUBSET Dest
    /\ retryCount \in [Dest -> 0..RetryCap]
    /\ nextRetry \in [Dest -> Timer]
    /\ alarm \in Timer
    /\ runs \in [Run -> RunState]
    /\ crashes \in 0..MaxCrashes
    /\ enqueued \in [Dest -> SUBSET Item]
    /\ before \in [Dest -> [Item -> SUBSET Item]]
    /\ received \in [Dest -> SUBSET Item]
    /\ answered \in [Dest -> SUBSET Ids]
    /\ txn \in [Run -> Ids]
    /\ mixed \in [Dest -> SUBSET Item]

\* Whatever was stored for a destination is still stored, or was processed by
\* it, or was transmitted under an id together with a different snapshot:
\* concurrent runs that delete and rewrite each other's snapshots, lost answers
\* and restarts inside a handler never lose an item in any other way.
NothingLost == \A d \in Dest : enqueued[d] \subseteq Held(d) \cup received[d] \cup mixed[d]

\* A destination never processes an item before one that was stored for it
\* earlier, although several runs transmit to it at the same time: whatever a
\* snapshot leaves out has already been processed, or shared an id with it.
DeliveredInOrder ==
    \A d \in Dest : \A i \in received[d] : before[d][i] \subseteq received[d] \cup mixed[d]

\* The outbox is an at-least-once channel, which confuses the items that one id
\* stood for in part: see AtLeastOnce.
Channel == INSTANCE AtLeastOnce WITH
               submitted   <- enqueued,
               outstanding <- [d \in Dest |-> Held(d)],
               received    <- received,
               doubtful    <- mixed
AtLeastOnceDelivery == Channel!Spec

\* Without the exception: an id stands for one transmission.
NeverLost == \A d \in Dest : enqueued[d] \subseteq Held(d) \cup received[d]

\* The key of an EDU that was deleted is never written again, unlike the key
\* of a PDU, which the retry of an older run may write after a newer run's
\* success deleted it.
DeletedEduStaysDeleted ==
    [][\A d \in Dest : (edus'[d] \ edus[d]) \cap enqueued[d] = {}]_vars

\* Every handler ends: three attempts per destination and each destination
\* visited once, however the remote servers behave.
EveryRunEnds == \A r \in Run : runs[r].pc # "idle" ~> runs[r].pc = "idle"

Quiet == \A r \in Run : runs[r].pc = "idle"

\* Whatever is stored is processed by its destination in the end.
EventuallyDelivered ==
    \A d \in Dest, i \in Item : i \in enqueued[d] ~> i \in received[d]

\* Its record names an instant that the alarm does not come before.
Timed(d) == nextRetry[d] # Never /\ alarm # Never /\ nextRetry[d] <= alarm

Attended(r, d) ==
    \/ Transmitting(r) /\ runs[r].dest = d
    \/ runs[r].pc = "loop" /\ runs[r].due[d] = 0

\* Whatever is held for a destination is on its way out: a run transmits to it
\* or is about to visit it, or an alarm will.  Of one destination, one run at a
\* time and events only.
HeldHasWakeup ==
    \A d \in Dest : Held(d) # {} => Timed(d) \/ \E r \in Run : Attended(r, d)

\* "Set alarm for retry", "Process all destinations with pending retries": a
\* destination whose record names a retry has an alarm to come, or an alarm
\* handler in progress.
PendingRetryHasAlarm ==
    \A d \in Dest : nextRetry[d] # Never =>
        alarm # Never \/ HandlingAlarm

\* "Register the destination for retry processing and schedule delivery
\* asynchronously": between handlers, a destination that an EDU is held for
\* has a record that schedules it.
HeldEduIsScheduled == Quiet => \A d \in Dest : edus[d] # {} => nextRetry[d] # Never

\* "Complement startup hook to re-arm outbound federation retries after a
\* worker restart": between handlers, /recover would visit every destination
\* that something is held for.
RecoverFindsHeld == Quiet => \A d \in Dest : Held(d) # {} => d \in known

=============================================================================
