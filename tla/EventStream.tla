---------------------------- MODULE EventStream ----------------------------
(***************************************************************************)
(* The event stream of the D1 database: how storeEvent numbers an event    *)
(* and points the room's state at it, and how an account data change takes *)
(* its place in the same numbering.  Workers run concurrently and share    *)
(* only the database; every statement is atomic (a batch is one            *)
(* statement), and a handler that issues several is as many steps.  A      *)
(* worker may stop after any statement.                                    *)
(*                                                                         *)
(* One room, whose joined members include the reader of IncrementalSync,   *)
(* and one state key in it that the state events compete for.              *)
(***************************************************************************)
EXTENDS Integers, FiniteSets

CONSTANTS Event,       \* events, by event id
          StateEvent,  \* those that carry the state key
          Change,      \* account data writes of the reader
          Writer,      \* handlers in progress at once
          Nothing      \* no event, no change

ASSUME StreamAssumption ==
    /\ IsFiniteSet(Event) /\ IsFiniteSet(Change)
    /\ StateEvent \subseteq Event
    /\ Event \cap Change = {}
    /\ Nothing \notin Event \cup Change

VARIABLES
    ordering,   \* [Event -> Nat]: events.stream_ordering, 0 where there is no row
    state,      \* the event_id of the key's room_state row
    changes,    \* [Change -> Nat]: account_data_changes.stream_position, 0 for none
    writers     \* the handlers in progress

tables == <<ordering, state, changes>>
streamVars == <<tables, writers>>

Places == {"idle", "exists", "number", "insert", "state", "changes", "put", "notify"}
WriterRecord == [at : Places, item : Event \cup Change \cup {Nothing},
                 mode : {"live", "historical"}, pos : Nat]

Handling(place, item, mode, pos) == [at |-> place, item |-> item, mode |-> mode, pos |-> pos]

Free == Handling("idle", Nothing, "live", 0)

-----------------------------------------------------------------------------
(* The queries.                                                             *)

Stored == {e \in Event : ordering[e] > 0}
Changed == {c \in Change : changes[c] > 0}

Orderings == {ordering[e] : e \in Event} \cup {0}
Positions == {changes[c] : c \in Change} \cup {0}

\* SELECT MAX(...): the one greatest number of a set of numbers.
Top(numbers) == {n \in numbers : \A m \in numbers : m <= n}

\* Slip: once there are changes, the latest position is theirs.
LatestChange == Top(IF Changed = {} THEN Orderings ELSE Positions)

\* getLatestStreamPosition: the top of both tables.
LatestPosition == Top(Orderings \cup Positions)

\* Slip: the event right after the token is left out.
EventsBeyond(since, limit) ==
    LET later == {e \in Stored : ordering[e] > since + 1}
    IN {e \in later : Cardinality({x \in later : ordering[x] < ordering[e]}) < limit}

\* getEventsSince: the oldest limit events after since; from the beginning of
\* the stream, the newest ones.
EventsSince(since, limit) ==
    LET later == {e \in Stored : ordering[e] > since}
        Rank(e) == IF since > 0 THEN {x \in later : ordering[x] < ordering[e]}
                                ELSE {x \in later : ordering[x] > ordering[e]}
    IN {e \in later : Cardinality(Rank(e)) < limit}

ChangesSince(since) == {c \in Changed : changes[c] > since}

-----------------------------------------------------------------------------
StreamInit ==
    /\ ordering = [e \in Event |-> 0]
    /\ state    = Nothing
    /\ changes  = [c \in Change |-> 0]
    /\ writers  = [w \in Writer |-> Free]

GoTo(w, place) == writers' = [writers EXCEPT ![w].at = place]

\* Where a handler goes once the row of its event exists.
AfterInsert(w) ==
    IF writers[w].item \in StateEvent /\ writers[w].mode = "live" THEN "state" ELSE "notify"

\* A handler is about to store an event: a new one, or one it retries or
\* received twice.  A historical one (skipRoomState) leaves room_state alone.
StoreEvent(w, e, mode) ==
    /\ writers[w].at = "idle"
    /\ writers' = [writers EXCEPT ![w] = Handling("exists", e, mode, 0)]
    /\ UNCHANGED tables

\* SELECT ... WHERE event_id: an event with a row keeps it.
LookUp(w) ==
    /\ writers[w].at = "exists"
    /\ GoTo(w, IF ordering[writers[w].item] > 0 THEN AfterInsert(w) ELSE "number")
    /\ UNCHANGED tables

\* Slip: the room's state follows the event before its row is there.
SetStateFirst(w) ==
    /\ writers[w].at = "number"
    /\ \E top \in Top(Orderings) :
          writers' = [writers EXCEPT ![w] = Handling("insert", @.item, @.mode, top + 1)]
    /\ state' = IF writers[w].item \in StateEvent THEN writers[w].item ELSE state
    /\ UNCHANGED <<ordering, changes>>

\* SELECT MAX(stream_ordering) FROM events.
TakeNumber(w) ==
    /\ writers[w].at = "number"
    /\ \E top \in Top(Orderings) :
          writers' = [writers EXCEPT ![w] = Handling("insert", @.item, @.mode, top + 1)]
    /\ UNCHANGED tables

\* Slip: the row of a concurrent handler is replaced.
InsertOrReplace(w) ==
    /\ writers[w].at = "insert"
    /\ ordering' = [ordering EXCEPT ![writers[w].item] = writers[w].pos]
    /\ GoTo(w, AfterInsert(w))
    /\ UNCHANGED <<state, changes>>

\* INSERT OR IGNORE INTO events: the first row of an event stays.
Insert(w) ==
    /\ writers[w].at = "insert"
    /\ ordering' = [ordering EXCEPT ![writers[w].item] = IF @ > 0 THEN @ ELSE writers[w].pos]
    /\ GoTo(w, AfterInsert(w))
    /\ UNCHANGED <<state, changes>>

\* INSERT OR REPLACE INTO room_state, whatever the row names now.
SetState(w) ==
    /\ writers[w].at = "state"
    /\ state' = writers[w].item
    /\ GoTo(w, "notify")
    /\ UNCHANGED <<ordering, changes>>

\* An account data write is about to take its position:
\* SELECT max(stream_ordering) FROM events ...
PutAccountData(w, c) ==
    /\ writers[w].at = "idle"
    /\ changes[c] = 0
    /\ \A v \in Writer : writers[v].item # c
    /\ \E top \in Top(Orderings) :
          writers' = [writers EXCEPT ![w] = Handling("changes", c, "live", top)]
    /\ UNCHANGED tables

\* ... then SELECT max(stream_position) FROM account_data_changes ...
TakePosition(w) ==
    /\ writers[w].at = "changes"
    /\ \E top \in Top(Positions \cup {writers[w].pos}) :
          writers' = [writers EXCEPT ![w] = Handling("put", @.item, @.mode, top + 1)]
    /\ UNCHANGED tables

\* ... then the batch that writes the data and records the change.
PutBatch(w) ==
    /\ writers[w].at = "put"
    /\ changes' = [changes EXCEPT ![writers[w].item] = writers[w].pos]
    /\ GoTo(w, "notify")
    /\ UNCHANGED <<ordering, state>>

\* The handler has told the reader's SyncDurableObject, or failed to.
Notified(w) ==
    /\ writers[w].at = "notify"
    /\ writers' = [writers EXCEPT ![w] = Free]
    /\ UNCHANGED tables

\* The worker stops.
Abandon(w) ==
    /\ writers[w].at # "idle"
    /\ writers' = [writers EXCEPT ![w] = Free]
    /\ UNCHANGED tables

-----------------------------------------------------------------------------
\* The statements of a handler up to its notification.
Statement(w) ==
    \/ LookUp(w) \/ TakeNumber(w) \/ Insert(w) \/ SetState(w)
    \/ TakePosition(w) \/ PutBatch(w)

StreamNext == \E w \in Writer :
    \/ \E e \in Event, mode \in {"live", "historical"} : StoreEvent(w, e, mode)
    \/ \E c \in Change : PutAccountData(w, c)
    \/ Statement(w)
    \/ Notified(w)
    \/ Abandon(w)

StreamSpec == StreamInit /\ [][StreamNext]_streamVars

-----------------------------------------------------------------------------
(* Properties.                                                              *)

StreamTypeOK ==
    /\ ordering \in [Event -> Nat]
    /\ state \in StateEvent \cup {Nothing}
    /\ changes \in [Change -> Nat]
    /\ writers \in [Writer -> WriterRecord]

\* The place of an event in the stream never changes, however many handlers
\* store it at the same time: no client sees it move across its token.
OrderingNeverMoves ==
    [][\A e \in Event : ordering[e] > 0 => ordering'[e] = ordering[e]]_streamVars

\* The room's state never names an event that has no row: a join of room_state
\* with events, which every read of the state is, does not drop the key.
StateHasEvent == state # Nothing => state \in Stored

Settled == \A w \in Writer : writers[w].at = "idle"

\* "`persist` is the only in-transaction state mutation step": between
\* handlers the room's state is the newest state event of the stream.
StateIsNewest ==
    Settled => \A e \in StateEvent \cap Stored :
                   state # Nothing /\ ordering[e] <= ordering[state]

\* "Events persisted concurrently ... maintain a strict, contiguous
\* stream_ordering": no two events share a place.
OrderingIsStrict ==
    \A e, f \in Stored : e # f => ordering[e] # ordering[f]

=============================================================================
