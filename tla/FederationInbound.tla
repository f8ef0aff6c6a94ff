------------------------- MODULE FederationInbound -------------------------
(***************************************************************************)
(* Inbound federation transactions of one room: processFederationTransaction*)
(* and, for each PDU, ingestFederationPdu.  A missing prev or auth event   *)
(* is asked of the origin, and what it answers is processed as a nested    *)
(* transaction before the event itself goes on, so a handler is a stack of *)
(* transactions in progress, the innermost first.                          *)
(*                                                                         *)
(* Handlers run concurrently in separate workers and share only the        *)
(* database.  A write is a step of its own; the reads between two writes   *)
(* are one step where they are a single decision.  A worker may stop after *)
(* any step (an exception ends a transaction in the same way), and the     *)
(* origin may send a transaction any number of times.                      *)
(***************************************************************************)
EXTENDS Integers, Sequences, FiniteSets

CONSTANTS Pdu,             \* events, by event id
          Txn,             \* transaction ids of the origin
          Body,            \* [Txn -> Seq(Pdu)]
          Prev, Auth,      \* [Pdu -> SUBSET Pdu]: prev_events, auth_events
          Key,             \* [Pdu -> state key, or NoKey]
          NoKey,
          Known,           \* events of the room this server already has
          Fault,           \* [Pdu -> Faults]: what is wrong with the event itself
          Denies,          \* <<s, p>>: the server ACL s does not admit p
          Revokes,         \* <<s, p>>: p is not allowed while s is in the state
          Deferrable,      \* those of them a partial join may put off
          MissingAnswers,  \* [Pdu -> set of sequences]: get_missing_events
          AuthAnswers,     \* [Pdu -> set of sequences]: event_auth
          Relations,       \* events that relate to another one (m.relates_to)
          Partial,         \* TRUE while the room's join is partial
          Handler,         \* transactions processed at once
          MaxDepth,        \* how deep transactions nest (the code has no bound)
          Nobody           \* no event

(* A malformed event ("form") has no sender or type, or no id can be computed
   for it; "number" is a number canonical JSON does not allow; "sender" names
   no server; and a flawed event fails the signature or the hash check.      *)
Faults == {"none", "form", "number", "sender", "flawed"}

ASSUME InboundAssumption ==
    /\ Body \in [Txn -> Seq(Pdu)]
    /\ Prev \in [Pdu -> SUBSET Pdu]
    /\ Auth \in [Pdu -> SUBSET Pdu]
    /\ MissingAnswers \in [Pdu -> SUBSET Seq(Pdu)]
    /\ AuthAnswers \in [Pdu -> SUBSET Seq(Pdu)]
    /\ Known \subseteq Pdu
    /\ Fault \in [Pdu -> Faults]
    /\ MaxDepth \in Nat
    /\ Nobody \notin Pdu

VARIABLES
    processed,  \* [Pdu -> ...]: processed_pdus.accepted, "none" for no row
    stored,     \* the events that have a row
    state,      \* [state key -> event or Nobody]: room_state
    forwarded,  \* events handed to the fanout
    cached,     \* federation_transactions: transaction names and responses
    stacks      \* [Handler -> Seq(Frame)]: transactions in progress

tables == <<processed, stored, state, forwarded, cached>>
vars == <<tables, stacks>>

StateKey == {Key[p] : p \in Pdu} \ {NoKey}

\* A transaction's id, and those derived from it: `<id>:missing:<event>` and
\* `<id>:auth:<event>`.
Name == [txn : Txn, path : Seq({"missing", "auth"} \X Pdu)]

Outcomes == [Pdu -> {"none", "ok", "error"}]
NoOutcome == [p \in Pdu |-> "none"]

Places == {"begin", "prev", "filled", "auth", "look", "lost", "check", "record",
           "store", "state", "apply", "merge", "forward"}

\* A state for some of the keys.
PartOfState == [StateKey -> Pdu \cup {Nobody}]
NoState == [k \in StateKey |-> Nobody]

(* A transaction in progress: the events still to process, the head of todo
   being the current one, and where that one is.  Mode "live" is the origin's
   transaction, "fill" one of missing events (disableGapFill), "history" one
   of auth events (disableGapFill and historicalOnly).  gap is "open" when a
   missing prev event could not be resolved; fetched are the events of the
   last nested transaction, and resolved is what is left to write of a
   resolved state.                                                          *)
Frame == [name : Name, mode : {"live", "fill", "history"}, todo : Seq(Pdu),
          at : Places, gap : {"closed", "open"}, fetched : SUBSET Pdu,
          verdict : {"none", "accept", "defer", "soft_fail", "reject"},
          resolved : PartOfState, results : Outcomes]

Begin(name, mode, pdus) ==
    [name |-> name, mode |-> mode, todo |-> pdus, at |-> "begin", gap |-> "closed",
     fetched |-> {}, verdict |-> "none", resolved |-> NoState, results |-> NoOutcome]

\* Slip: the nested transactions of all events share their names.
NestedByKind(name, kind, p) == [name EXCEPT !.path = Append(@, kind)]

Nested(name, kind, p) == [name EXCEPT !.path = Append(@, <<kind, p>>)]

Busy(h) == stacks[h] # <<>>
Current(h) == Head(stacks[h])
At(h, place) == Busy(h) /\ Current(h).at = place
Event(h) == Head(Current(h).todo)

\* Handler h goes on with its innermost transaction as frame; or with a nested
\* transaction inside it.
Continue(h, frame) == stacks' = [stacks EXCEPT ![h] = <<frame>> \o Tail(@)]
Nest(h, frame, inner) == stacks' = [stacks EXCEPT ![h] = <<inner, frame>> \o Tail(@)]

Moved(frame, place)     == [frame EXCEPT !.at = place]
WithGap(frame, gap)     == [frame EXCEPT !.gap = gap]
Judged(frame, verdict)  == [frame EXCEPT !.verdict = verdict]
Resolved(frame, part)   == [frame EXCEPT !.resolved = part]

GoTo(h, place) == Continue(h, Moved(Current(h), place))

Unknown(events) == {q \in events : q \notin stored /\ processed[q] = "none"}

-----------------------------------------------------------------------------
Init ==
    /\ processed = [p \in Pdu |-> "none"]
    /\ stored    = Known
    /\ state     = [k \in StateKey |-> Nobody]
    /\ forwarded = {}
    /\ cached    = {}
    /\ stacks    = [h \in Handler |-> <<>>]

\* A worker starts on a transaction the origin sent, for the first time or again.
Deliver(h, t) ==
    /\ ~Busy(h)
    /\ stacks' = [stacks EXCEPT ![h] =
                     <<Begin([txn |-> t, path |-> <<>>], "live", Body[t])>>]
    /\ UNCHANGED tables

\* The transaction is over with these results: its caller learns which events
\* were in it.
Return(h, results) ==
    LET rest == Tail(stacks[h])
    IN stacks' = [stacks EXCEPT ![h] =
           IF rest = <<>> THEN <<>>
           ELSE <<[Head(rest) EXCEPT !.fetched = {p \in Pdu : results[p] # "none"}]>>
                    \o Tail(rest)]

\* A transaction that was answered before is answered from the cache.
AnswerAgain(h) ==
    /\ At(h, "begin")
    /\ \E answer \in cached : /\ answer.name = Current(h).name
                              /\ Return(h, answer.results)
    /\ UNCHANGED tables

StartEvents(h) ==
    /\ At(h, "begin")
    /\ \A answer \in cached : answer.name # Current(h).name
    /\ GoTo(h, "prev")
    /\ UNCHANGED tables

\* Every event is processed: store the response and return it.
Answer(h) ==
    /\ At(h, "prev")
    /\ Current(h).todo = <<>>
    /\ cached' = {answer \in cached : answer.name # Current(h).name}
                     \cup {[name |-> Current(h).name, results |-> Current(h).results]}
    /\ Return(h, Current(h).results)
    /\ UNCHANGED <<processed, stored, state, forwarded>>

\* The current event is done with, and the next one's turn has come.
Advanced(frame, results) ==
    [name |-> frame.name, mode |-> frame.mode, todo |-> Tail(frame.todo), at |-> "prev",
     gap |-> "closed", fetched |-> {}, verdict |-> "none", resolved |-> NoState,
     results |-> results]

\* Slip: a rejected event is left out of the response.
DoneSilently(h, outcome) ==
    Continue(h, Advanced(Current(h), [Current(h).results EXCEPT ![Event(h)] =
                                          IF outcome = "ok" THEN "ok" ELSE @]))

Done(h, outcome) ==
    Continue(h, Advanced(Current(h), [Current(h).results EXCEPT ![Event(h)] = outcome]))

-----------------------------------------------------------------------------
(* The faults that end an event's processing at once.  A malformed event,   *)
(* and one whose sender names no server, is answered without a decision.    *)

EventTurn(h) == At(h, "prev") /\ Current(h).todo # <<>>

RejectMalformed(h) ==
    /\ EventTurn(h)
    /\ Fault[Event(h)] = "form"
    /\ Done(h, "error")
    /\ UNCHANGED tables

\* Recorded without a look at an earlier decision.
RejectNumber(h) ==
    /\ EventTurn(h)
    /\ Fault[Event(h)] = "number"
    /\ processed' = [processed EXCEPT ![Event(h)] = "rejected"]
    /\ Done(h, "error")
    /\ UNCHANGED <<stored, state, forwarded, cached>>

\* The sender is looked at once the event's prev and auth events are there.
RejectSender(h) ==
    /\ At(h, "look")
    /\ processed[Event(h)] = "none"
    /\ Fault[Event(h)] = "sender"
    /\ Done(h, "error")
    /\ UNCHANGED tables

-----------------------------------------------------------------------------
(* fetchMissingPrevEventsIfNeeded.                                          *)

AtPrev(h) == EventTurn(h) /\ Fault[Event(h)] \notin {"form", "number"}

Complete(p) == Partial \/ p \in Relations \/ Unknown(Prev[p]) = {}

NoGap(h) ==
    /\ AtPrev(h)
    /\ Complete(Event(h))
    /\ GoTo(h, "auth")
    /\ UNCHANGED tables

Gap(h) == AtPrev(h) /\ ~Complete(Event(h))

\* Inside a nested transaction the gap is compared with the origin's state_ids
\* and not filled: it stays open if the origin names events this server lacks,
\* or does not answer.
AskStateIds(h) ==
    /\ Gap(h)
    /\ Current(h).mode # "live"
    /\ \E gap \in {"closed", "open"} :
          Continue(h, Moved(WithGap(Current(h), gap), "auth"))
    /\ UNCHANGED tables

\* get_missing_events; an error or an empty answer leaves the event as it is.
AskMissingEvents(h) ==
    /\ Gap(h)
    /\ Current(h).mode = "live"
    /\ \/ GoTo(h, "auth")
       \/ \E pdus \in MissingAnswers[Event(h)] :
             Nest(h, Moved(Current(h), "filled"),
                  Begin(Nested(Current(h).name, "missing", Event(h)), "fill", pdus))
    /\ UNCHANGED tables

\* Slip: the missing events are asked for until none is missing.
FilledAgain(h) ==
    /\ At(h, "filled")
    /\ GoTo(h, "prev")
    /\ UNCHANGED tables

\* The gap stays open if one of the events that came was rejected.
Filled(h) ==
    /\ At(h, "filled")
    /\ LET gap == IF \E q \in Current(h).fetched : processed[q] = "rejected"
                  THEN "open" ELSE "closed"
       IN Continue(h, Moved(WithGap(Current(h), gap), "auth"))
    /\ UNCHANGED tables

\* fetchMissingAuthEventsIfNeeded.  The answer may name the event itself, or
\* one that this handler is fetching auth events for already.
AskAuthEvents(h) ==
    /\ At(h, "auth")
    /\ \/ GoTo(h, "look")
       \/ /\ Unknown(Auth[Event(h)]) # {}
          /\ Len(Current(h).name.path) < MaxDepth
          /\ \E pdus \in AuthAnswers[Event(h)] :
                Nest(h, Moved(Current(h), "look"),
                     Begin(Nested(Current(h).name, "auth", Event(h)), "history", pdus))
    /\ UNCHANGED tables

\* Deeper than MaxDepth the handler is not followed: it may never come back.
LoseTrack(h) ==
    /\ At(h, "auth")
    /\ Unknown(Auth[Event(h)]) # {} /\ AuthAnswers[Event(h)] # {}
    /\ Len(Current(h).name.path) >= MaxDepth
    /\ GoTo(h, "lost")
    /\ UNCHANGED tables

-----------------------------------------------------------------------------
(* The decision.                                                            *)

Decide(h, verdict) == Continue(h, Moved(Judged(Current(h), verdict), "record"))

\* An event that has a decision keeps it.
AlreadyDecided(h) ==
    /\ At(h, "look")
    /\ processed[Event(h)] # "none"
    /\ Done(h, IF processed[Event(h)] = "accepted" THEN "ok" ELSE "error")
    /\ UNCHANGED tables

\* Slip: an earlier decision does not end the processing.
LookAnyway(h) ==
    /\ At(h, "look")
    /\ Fault[Event(h)] # "sender"
    /\ IF Current(h).gap = "open" /\ Current(h).mode # "history"
       THEN Decide(h, "soft_fail")
       ELSE GoTo(h, "check")
    /\ UNCHANGED tables

\* An event without one goes on to its checks; with a gap open it fails softly.
Look(h) ==
    /\ At(h, "look")
    /\ processed[Event(h)] = "none"
    /\ Fault[Event(h)] # "sender"
    /\ IF Current(h).gap = "open" /\ Current(h).mode # "history"
       THEN Decide(h, "soft_fail")
       ELSE GoTo(h, "check")
    /\ UNCHANGED tables

\* Slip: an auth event that was accepted need not have a row yet.
AuthAccepted(p) ==
    \A a \in Auth[p] : processed[a] # "rejected" /\ (a \in stored \/ processed[a] = "accepted")

\* validateAuthEventDependencies: no auth event is rejected, and each has a row.
AuthHolds(p) == \A a \in Auth[p] : processed[a] # "rejected" /\ a \in stored

\* The server ACL, and what checkEventAuth refuses p for, by the state of this
\* moment.
Denied(p) == \E k \in StateKey : <<state[k], p>> \in Denies
Refusals(p) == {<<state[k], p>> : k \in StateKey} \cap Revokes

(* What the checks may come to; those of the room's state are left out for a
   historical event.  An event that checkEventAuth refuses is put off if the
   join is partial and the refusal one that full state may lift; an exception
   in that part accepts the event.                                           *)
Verdicts(p, mode) ==
    IF Fault[p] = "flawed" \/ ~AuthHolds(p) THEN {"reject"}
    ELSE IF mode = "history" THEN {"accept"}
    ELSE IF Denied(p) THEN {"reject"}
    ELSE {"accept"} \cup {IF Partial /\ refusal \in Deferrable THEN "defer" ELSE "reject" :
                              refusal \in Refusals(p)}

Check(h) ==
    /\ At(h, "check")
    /\ \E verdict \in Verdicts(Event(h), Current(h).mode) : Decide(h, verdict)
    /\ UNCHANGED tables

\* Slip: a soft failure is not recorded.
RecordHardDecision(h) ==
    LET accepted == Current(h).verdict \in {"accept", "defer"}
    IN /\ At(h, "record")
       /\ processed' = [processed EXCEPT ![Event(h)] =
                           IF accepted THEN "accepted"
                           ELSE IF Current(h).verdict = "reject" THEN "rejected" ELSE @]
       /\ IF accepted THEN GoTo(h, "store")
          ELSE Done(h, IF Current(h).verdict = "soft_fail" THEN "ok" ELSE "error")
       /\ UNCHANGED <<stored, state, forwarded, cached>>

\* INSERT OR REPLACE INTO processed_pdus.
RecordDecision(h) ==
    LET accepted == Current(h).verdict \in {"accept", "defer"}
    IN /\ At(h, "record")
       /\ processed' = [processed EXCEPT ![Event(h)] =
                           IF accepted THEN "accepted" ELSE "rejected"]
       /\ IF accepted THEN GoTo(h, "store")
          ELSE Done(h, IF Current(h).verdict = "soft_fail" THEN "ok" ELSE "error")
       /\ UNCHANGED <<stored, state, forwarded, cached>>

-----------------------------------------------------------------------------
(* storeAcceptedPdu and the fanout.                                         *)

\* Slip: an accepted event is taken to have its row.
StoreRowOnce(h) ==
    /\ At(h, "store")
    /\ stored' = IF processed[Event(h)] = "accepted" THEN stored ELSE stored \cup {Event(h)}
    /\ \/ Current(h).mode = "history" /\ Done(h, "ok")
       \/ Current(h).mode # "history" /\ Key[Event(h)] = NoKey /\ GoTo(h, "forward")
       \/ Current(h).mode # "history" /\ Key[Event(h)] # NoKey /\ GoTo(h, "state")
    /\ UNCHANGED <<processed, state, forwarded, cached>>

\* The row.  A historical event has only that.
StoreRow(h) ==
    /\ At(h, "store")
    /\ stored' = stored \cup {Event(h)}
    /\ \/ Current(h).mode = "history" /\ Done(h, "ok")
       \/ Current(h).mode # "history" /\ Key[Event(h)] = NoKey /\ GoTo(h, "forward")
       \/ Current(h).mode # "history" /\ Key[Event(h)] # NoKey /\ GoTo(h, "state")
    /\ UNCHANGED <<processed, state, forwarded, cached>>

PointState(h) == state' = [state EXCEPT ![Key[Event(h)]] = Event(h)]

\* storeEvent points the room's state at the event ...
SetState(h) ==
    /\ At(h, "state")
    /\ PointState(h)
    /\ GoTo(h, "apply")
    /\ UNCHANGED <<processed, stored, forwarded, cached>>

\* ... and, once the members are notified, storeAcceptedPdu does so again: on
\* its own, unless the event merges branches of the room ...
ApplyState(h) ==
    /\ At(h, "apply")
    /\ Cardinality(Prev[Event(h)]) <= 1
    /\ PointState(h)
    /\ GoTo(h, "forward")
    /\ UNCHANGED <<processed, stored, forwarded, cached>>

\* ... and then as a part of the state that resolveState makes of the current
\* one and the event.  A key gets an event it has, or stays out: events that
\* are not allowed next to the others are left out of a resolved state.
Resolve(h) ==
    /\ At(h, "apply")
    /\ Cardinality(Prev[Event(h)]) > 1
    /\ \E part \in PartOfState :
          /\ \A k \in StateKey :
                \/ part[k] \in {Nobody, state[k]}
                \/ k = Key[Event(h)] /\ part[k] = Event(h)
          /\ Continue(h, Moved(Resolved(Current(h), part), "merge"))
    /\ UNCHANGED tables

\* Its keys are written one at a time, from what was read above.
WriteResolved(h) ==
    /\ At(h, "merge")
    /\ \E k \in StateKey :
          /\ Current(h).resolved[k] # Nobody
          /\ state' = [state EXCEPT ![k] = Current(h).resolved[k]]
          /\ Continue(h, Resolved(Current(h), [Current(h).resolved EXCEPT ![k] = Nobody]))
    /\ UNCHANGED <<processed, stored, forwarded, cached>>

\* An exception before the last of them sets the event's own key after all.
EndResolved(h) ==
    /\ At(h, "merge")
    /\ \/ Current(h).resolved = NoState /\ UNCHANGED state
       \/ Current(h).resolved # NoState /\ PointState(h)
    /\ GoTo(h, "forward")
    /\ UNCHANGED <<processed, stored, forwarded, cached>>

\* The event goes to the other servers of the room, unless its check was put off.
Forward(h) ==
    /\ At(h, "forward")
    /\ forwarded' = IF Current(h).verdict = "defer" THEN forwarded
                    ELSE forwarded \cup {Event(h)}
    /\ Done(h, "ok")
    /\ UNCHANGED <<processed, stored, state, cached>>

\* The worker stops, or an exception ends the transaction.
Crash(h) ==
    /\ Busy(h)
    /\ stacks' = [stacks EXCEPT ![h] = <<>>]
    /\ UNCHANGED tables

-----------------------------------------------------------------------------
Fetch(h) == NoGap(h) \/ AskStateIds(h) \/ AskMissingEvents(h) \/ Filled(h)
                \/ AskAuthEvents(h) \/ LoseTrack(h)

Judge(h) == AlreadyDecided(h) \/ Look(h) \/ Check(h) \/ RecordDecision(h)

Merge(h) == Resolve(h) \/ WriteResolved(h) \/ EndResolved(h)

Apply(h) == StoreRow(h) \/ SetState(h) \/ ApplyState(h) \/ Merge(h) \/ Forward(h)

Refuse(h) == RejectMalformed(h) \/ RejectNumber(h) \/ RejectSender(h)

Step(h) ==
    \/ AnswerAgain(h) \/ StartEvents(h) \/ Answer(h)
    \/ Refuse(h) \/ Fetch(h) \/ Judge(h) \/ Apply(h)

Next == \E h \in Handler :
    \/ \E t \in Txn : Deliver(h, t)
    \/ Step(h)
    \/ Crash(h)

Spec == Init /\ [][Next]_vars

\* A worker goes on while it runs, and the origin's answers end in time.
FairSpec == Spec /\ \A h \in Handler : WF_vars(Step(h))

\* A worker that neither stops nor meets an exception.
SteadyNext == \E h \in Handler : Step(h) \/ \E t \in Txn : Deliver(h, t)
SteadySpec == Init /\ [][SteadyNext]_vars

-----------------------------------------------------------------------------
(* Properties.                                                              *)

TypeOK ==
    /\ processed \in [Pdu -> {"none", "accepted", "rejected"}]
    /\ stored \subseteq Pdu
    /\ state \in [StateKey -> Pdu \cup {Nobody}]
    /\ forwarded \subseteq Pdu
    /\ cached \subseteq [name : Name, results : Outcomes]
    /\ stacks \in [Handler -> Seq(Frame)]

\* The store of events is one that only grows along its auth chains: see
\* AuthDag.  Neither concurrent handlers, nor nested transactions in any
\* order, nor a worker that stops between a decision and its row, puts an
\* event in before its auth events.
Dag == INSTANCE AuthDag
GrowsAlongAuth == Dag!Spec

\* Every event of an answered transaction has a decision, so that the origin,
\* which will not send it again, lost nothing undecided; but for the events
\* that cannot have one, and those are answered with an error.
Undecidable(p) == Fault[p] \in {"form", "sender"}
AnsweredIsDecided ==
    \A answer \in cached : \A p \in Pdu :
        answer.results[p] # "none" =>
            processed[p] # "none" \/ (Undecidable(p) /\ answer.results[p] = "error")

\* An answer to the origin speaks of every event of its transaction.
AnswerIsComplete ==
    \A answer \in cached : answer.name.path = <<>> =>
        \A i \in DOMAIN Body[answer.name.txn] :
            answer.results[Body[answer.name.txn][i]] # "none"

\* The room's state and the fanout name stored events only.
AppliedIsStored ==
    /\ \A k \in StateKey : state[k] \in stored \cup {Nobody}
    /\ forwarded \subseteq stored

\* A decision is never changed: "Replay protection and transaction
\* idempotency are enforced for inbound federation transactions".
DecisionIsFinal ==
    [][\A p \in Pdu : processed[p] # "none" => processed'[p] = processed[p]]_vars

\* Handler h is inside a transaction of auth events for an event whose auth
\* events it is fetching further out: nothing in the code ends that.
Regress(h) ==
    /\ Busy(h)
    /\ \E i, j \in DOMAIN Current(h).name.path :
          i # j /\ Current(h).name.path[i] = Current(h).name.path[j]

\* A handler ends, however often the events it asks for make it ask for more,
\* unless the origin's answers lead it back to an event it is fetching for.
HandlersEnd == \A h \in Handler : Busy(h) ~> ~Busy(h) \/ Regress(h)

Settled == \A h \in Handler : ~Busy(h)

\* "Partial federation failures do not leave room state half-applied": between
\* handlers, an accepted event is stored, whatever became of its handler.
AcceptedIsStored ==
    Settled => \A p \in Pdu : processed[p] = "accepted" => p \in stored

\* "Backfill and missing-event handling do not create invalid local state":
\* a state event that the origin delivered and that was accepted has set its
\* key, or another event has.
DeliveredStateIsSet ==
    Settled => \A answer \in cached : answer.name.path = <<>> =>
        \A p \in Pdu :
            answer.results[p] = "ok" /\ processed[p] = "accepted" /\ Key[p] # NoKey =>
                state[Key[p]] # Nobody

=============================================================================
