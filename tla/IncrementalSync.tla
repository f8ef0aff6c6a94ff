-------------------------- MODULE IncrementalSync --------------------------
(***************************************************************************)
(* /sync over the event stream: one device of the reader polls with the    *)
(* token of its last answer, the assembler reads the latest position and   *)
(* then the rooms, each by a query of its own, and a poll that finds       *)
(* nothing waits in the reader's SyncDurableObject until a handler         *)
(* notifies it or 25 seconds pass, then assembles once more.               *)
(*                                                                         *)
(* Events older than an answer's timeline (cut at a fork or at the         *)
(* filter's limit) count as covered: limited: true tells the client that   *)
(* there are such events, though not where they are, since prev_batch is   *)
(* the since position and paging back from it starts below them.  Those    *)
(* that the query's LIMIT cuts off are newer than the timeline and at or   *)
(* below the new token: nothing tells of them.  A since of 0 stands for no *)
(* token and for the token 0.                                              *)
(***************************************************************************)
EXTENDS EventStream

CONSTANTS TimelineLimit   \* the LIMIT of getEventsSince

ASSUME LimitAssumption == TimelineLimit \in Nat \ {0}

VARIABLES
    since,      \* the client's token: the events position of next_batch
    covered,    \* events the client was given or told are missing
    seen,       \* account data changes the client was given
    request,    \* its request in progress
    snapshot    \* history: what was stored when the request read its position

syncVars == <<since, covered, seen, request, snapshot>>
vars == <<streamVars, syncVars>>

Stages == {"idle", "position", "timeline", "account", "wait", "waiting", "respond"}
RequestRecord == [stage : Stages, patient : BOOLEAN, pos : Nat,
                  events : SUBSET Event, changes : SUBSET Change]

NoRequest == [stage |-> "idle", patient |-> FALSE, pos |-> 0, events |-> {}, changes |-> {}]

\* The assembler starts over; a patient one waits if it finds nothing.
Assembling(patient) == [NoRequest EXCEPT !.stage = "position", !.patient = patient]

-----------------------------------------------------------------------------
Init ==
    /\ StreamInit
    /\ since    = 0
    /\ covered  = {}
    /\ seen     = {}
    /\ request  = NoRequest
    /\ snapshot = {}

\* The client polls with its token and a timeout; without a token the answer
\* does not wait.
Poll(patient) ==
    /\ request.stage = "idle"
    /\ request' = Assembling(patient)
    /\ UNCHANGED <<streamVars, since, covered, seen, snapshot>>

\* getLatestStreamPosition, which next_batch will carry.
ReadPosition ==
    /\ request.stage = "position"
    /\ \E top \in LatestPosition :
          request' = [request EXCEPT !.stage = "timeline", !.pos = top]
    /\ snapshot' = Stored
    /\ UNCHANGED <<streamVars, since, covered, seen>>

\* getEventsSince: the oldest events after the token.  Without one it is the
\* newest events of the room, and limited tells that there are older ones.
ReadTimeline ==
    /\ request.stage = "timeline"
    /\ request' = [request EXCEPT !.stage = "account",
                                  !.events = IF since > 0 THEN EventsSince(since, TimelineLimit)
                                                          ELSE Stored]
    /\ UNCHANGED <<streamVars, since, covered, seen, snapshot>>

\* Account data since the token, then wait or answer.  A receipt, a typing
\* user or presence makes an answer without events worth sending.
ReadAccountData ==
    /\ request.stage = "account"
    /\ LET found == ChangesSince(since)
           empty == request.events = {} /\ found = {}
       IN \E stage \in IF empty /\ request.patient THEN {"wait", "respond"} ELSE {"respond"} :
              request' = [request EXCEPT !.stage = stage, !.changes = found]
    /\ UNCHANGED <<streamVars, since, covered, seen, snapshot>>

\* POST /wait-for-events reaches the object, which registers a resolver.  It
\* does not look at the notifications it has already stored.
WaitForEvents ==
    /\ request.stage = "wait"
    /\ request' = [request EXCEPT !.stage = "waiting"]
    /\ UNCHANGED <<streamVars, since, covered, seen, snapshot>>

\* The timeout wins the race against the resolver.
TimeOut ==
    /\ request.stage = "waiting"
    /\ request' = Assembling(FALSE)
    /\ UNCHANGED <<streamVars, since, covered, seen, snapshot>>

\* The object is evicted, and the request fails with it.
WaitFails ==
    /\ request.stage \in {"wait", "waiting"}
    /\ request' = NoRequest
    /\ UNCHANGED <<streamVars, since, covered, seen, snapshot>>

\* Slip: next_batch is the position when the answer is built.
RespondWithLatest ==
    /\ request.stage = "respond"
    /\ \E top \in LatestPosition : since' = top
    /\ covered' = covered \cup request.events
    /\ seen' = seen \cup request.changes
    /\ request' = NoRequest
    /\ UNCHANGED <<streamVars, snapshot>>

\* The answer reaches the client, which goes on from its next_batch.
Respond ==
    /\ request.stage = "respond"
    /\ since' = request.pos
    /\ covered' = covered \cup request.events
    /\ seen' = seen \cup request.changes
    /\ request' = NoRequest
    /\ UNCHANGED <<streamVars, snapshot>>

\* The answer, or the worker that assembles it, is lost.
Lose ==
    /\ request.stage # "idle"
    /\ request' = NoRequest
    /\ UNCHANGED <<streamVars, since, covered, seen, snapshot>>

\* A handler's notification wakes the registered request; without one it is
\* only stored.
Notify(w) ==
    /\ writers[w].mode = "live"
    /\ Notified(w)
    /\ request' = IF request.stage = "waiting" THEN Assembling(FALSE) ELSE request
    /\ UNCHANGED <<since, covered, seen, snapshot>>

\* A historical event notifies nobody; or the notification fails, and its
\* error is swallowed.
NotifyFails(w) ==
    /\ Notified(w)
    /\ UNCHANGED syncVars

-----------------------------------------------------------------------------
Read == ReadPosition \/ ReadTimeline \/ ReadAccountData \/ WaitForEvents \/ TimeOut

HandleSteadily(w) ==
    \/ /\ \/ \E e \in Event : StoreEvent(w, e, "live")
          \/ \E c \in Change : PutAccountData(w, c)
          \/ Statement(w)
       /\ UNCHANGED syncVars
    \/ Notify(w)

Handle(w) ==
    \/ HandleSteadily(w)
    \/ /\ \/ \E e \in Event : StoreEvent(w, e, "historical")
          \/ Abandon(w)
       /\ UNCHANGED syncVars
    \/ NotifyFails(w)

Next ==
    \/ \E w \in Writer : Handle(w)
    \/ \E patient \in BOOLEAN : Poll(patient)
    \/ Read
    \/ WaitFails
    \/ Respond
    \/ Lose

Spec == Init /\ [][Next]_vars

\* No worker stops, and every request, answer and notification arrives.
SteadyNext ==
    \/ \E w \in Writer : HandleSteadily(w)
    \/ \E patient \in BOOLEAN : Poll(patient)
    \/ Read
    \/ Respond

SteadySpec == Init /\ [][SteadyNext]_vars

(* Fairness: the assembler's queries return and its wait times out, and a
   client that polls forever gets through each stage of a poll, and gets its
   answer, now and then.  No handler has to go on, and no notification has to
   arrive.                                                                   *)
FairSpec ==
    /\ Spec
    /\ WF_vars(Read) /\ WF_vars(\E patient \in BOOLEAN : Poll(patient))
    /\ SF_vars(ReadPosition) /\ SF_vars(ReadTimeline) /\ SF_vars(ReadAccountData)
    /\ SF_vars(Respond)

-----------------------------------------------------------------------------
(* Properties.                                                              *)

TypeOK ==
    /\ StreamTypeOK
    /\ since \in Nat
    /\ covered \subseteq Event
    /\ seen \subseteq Change
    /\ request \in RequestRecord
    /\ snapshot \subseteq Event

\* "Clients calling /sync never silently skip events": whatever lies at or
\* below the client's token was given to it, or told to be missing.
NothingSkipped ==
    /\ \A e \in Stored : ordering[e] <= since => e \in covered
    /\ \A c \in Changed : changes[c] <= since => c \in seen

\* An answer covers every event that was stored, and lay after the client's
\* token, when the answer's own token was read: concurrent handlers may make
\* an answer carry more than its token says, never less.
TokenCoversSnapshot ==
    [][since' # since =>
           \A e \in snapshot : ordering[e] > since => e \in covered']_vars

\* The client's token never goes back.
TokenAdvances == [][since' >= since]_vars

\* A stored event reaches the client in the end, although notifications are
\* lost, come before the wait or are never sent.
EventsArrive == \A e \in Event : ordering[e] > 0 ~> e \in covered

\* "This wakes up long-polling sync requests waiting for events": no request
\* waits while an event it would return has been stored and its handler has
\* finished notifying.
WaitersAreWoken ==
    request.stage = "waiting" /\ Settled => EventsSince(since, TimelineLimit) = {}

=============================================================================
