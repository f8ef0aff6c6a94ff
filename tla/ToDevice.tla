------------------------------ MODULE ToDevice ------------------------------
(***************************************************************************)
(* To-device messages: PUT /sendToDevice and the m.direct_to_device EDUs   *)
(* of other servers store one row per device, each under a position of the *)
(* "to_device" stream that was taken by a statement before; /sync gives a  *)
(* device the rows above its token and marks those at or below it as       *)
(* delivered.                                                              *)
(*                                                                         *)
(* A request is answered with success although a part of it is missing in  *)
(* two cases: the error of an EDU of another server is caught and its      *)
(* transaction goes on, and the status of the outbox is not looked at when *)
(* an EDU is queued there (skipped and refused).                           *)
(*                                                                         *)
(* Every statement is atomic and workers interleave between statements.  A *)
(* worker may stop after any of them, a client that got no answer sends    *)
(* its request again, and an answer to a /sync may be lost.                *)
(***************************************************************************)
EXTENDS Naturals, FiniteSets

CONSTANTS Device,    \* local devices
          Online,    \* those that poll
          Send,      \* requests to send: a user and a transaction id (no other
                     \* request of the user has it), or an EDU
          Incoming,  \* those that are EDUs of other servers
          Outgoing,  \* those with recipients on other servers
          Target,    \* [Send -> SUBSET Device]: the local devices
          Place,     \* [Send -> [Device -> Nat]]: their order in the request,
                     \* left open where it is the same
          Id,        \* [Send -> Send]: stands for the message_id of its rows
          Worker,    \* requests handled at once
          Limit,     \* LIMIT of the query for messages
          MaxPosition, \* bound: positions taken
          None

ASSUME Constants ==
    /\ IsFiniteSet(Device) /\ IsFiniteSet(Send) /\ Online \subseteq Device
    /\ Incoming \subseteq Send /\ Outgoing \subseteq Send \ Incoming
    /\ Target \in [Send -> SUBSET Device] /\ Id \in [Send -> Send]
    /\ Limit \in Nat \ {0} /\ MaxPosition \in Nat /\ None \notin Device \cup Send

ASSUME Places == Place \in [Send -> [Device -> Nat]]

VARIABLES
    counter,    \* stream_positions: the last position of "to_device"
    position,   \* to_device_messages: [Send \X Device -> Nat], 0 for no row
    delivered,  \* rows with delivered = 1
    answered,   \* transaction_ids, federation_transactions: requests whose
                \* response is stored
    queued,     \* requests whose EDUs have been handed to federation
    worker,     \* the requests being handled
    since,      \* per device: the to-device part of its /sync token
    sync,       \* per device: its /sync in progress
    told,       \* history: senders that were answered
    received,   \* history: what a device was given
    late,       \* history: rows stored too late, see Late
    skipped,    \* history: rows given up when an EDU failed
    refused     \* history: requests of which the outbox refused an EDU

tables == <<counter, position, delivered, answered, queued>>
lost == <<skipped, refused>>
vars == <<tables, worker, since, sync, told, received, late, lost>>

Row == Send \X Device
Handling == [at : {"idle", "number", "insert", "queue", "answer"},
             send : Send \cup {None}, left : SUBSET Device,
             device : Device \cup {None}, pos : Nat]
Idle == [at |-> "idle", send |-> None, left |-> {}, device |-> None, pos |-> 0]

Syncing == [at : {"idle", "mark", "top", "respond"}, found : SUBSET Row, next : Nat]
NoSync == [at |-> "idle", found |-> {}, next |-> 0]

Stored == {x \in Row : position[x] > 0}
Top(numbers) == {n \in numbers : \A m \in numbers : m <= n}
HighestStored == Top({position[x] : x \in Stored} \cup {0})

\* The rows of device d that its next answer starts from.
Waiting(d) == {x \in Stored \ delivered : x[2] = d /\ position[x] > since[d]}

\* ORDER BY stream_position LIMIT n.
Oldest(rows) ==
    {x \in rows : Cardinality({y \in rows : position[y] < position[x]}) < Limit}

Init ==
    /\ counter = 0 /\ position = [x \in Row |-> 0]
    /\ delivered = {} /\ answered = {} /\ queued = {}
    /\ worker = [w \in Worker |-> Idle]
    /\ since = [d \in Device |-> 0] /\ sync = [d \in Device |-> NoSync]
    /\ told = {} /\ received = {} /\ late = {} /\ skipped = {} /\ refused = {}

-----------------------------------------------------------------------------
(* Sending.                                                                 *)

\* Request s, of which the rows for the devices in left are missing.
Planned(s, left) == [at |-> IF left # {} THEN "number"
                            ELSE IF s \in Outgoing THEN "queue" ELSE "answer",
                     send |-> s, left |-> left, device |-> None, pos |-> 0]

\* Slip: the response is stored before the messages are.
BeginAnswered(w, s) ==
    /\ worker[w].at = "idle"
    /\ s \notin answered
    /\ answered' = answered \cup {s}
    /\ worker' = [worker EXCEPT ![w] = Planned(s, Target[s])]
    /\ UNCHANGED <<counter, position, delivered, queued, since, sync, told, received, late, lost>>

\* sendToDeviceEffect, or processFederationTransaction, finds no response for
\* the transaction id; the messages are planned.  (An EDU that comes again under
\* another id is another request with its message ids.)
Begin(w, s) ==
    /\ worker[w].at = "idle"
    /\ s \notin answered
    /\ worker' = [worker EXCEPT ![w] = Planned(s, Target[s])]
    /\ UNCHANGED <<tables, since, sync, told, received, late, lost>>

\* It finds one, and answers with it.
AnswerAgain(s) ==
    /\ s \in answered
    /\ told' = told \cup {s}
    /\ UNCHANGED <<tables, worker, since, sync, received, late, lost>>

Numbered(w, d, pos) == [at |-> "insert", send |-> worker[w].send, left |-> worker[w].left,
                        device |-> d, pos |-> pos]

\* The message for d is the next of what worker w has left.
IsNext(w, d) == \A e \in worker[w].left : Place[worker[w].send][d] <= Place[worker[w].send][e]

\* Slip: the next position is read from the rows.
NumberFromRows(w) ==
    /\ worker[w].at = "number"
    /\ counter < MaxPosition
    /\ counter' = counter + 1
    /\ \E d \in worker[w].left, top \in HighestStored :
          IsNext(w, d) /\ worker' = [worker EXCEPT ![w] = Numbered(w, d, top + 1)]
    /\ UNCHANGED <<position, delivered, answered, queued, since, sync, told, received, late, lost>>

\* getNextNamedStreamPosition, for the next of the messages.
Number(w) ==
    /\ worker[w].at = "number"
    /\ counter < MaxPosition
    /\ counter' = counter + 1
    /\ \E d \in worker[w].left :
          IsNext(w, d) /\ worker' = [worker EXCEPT ![w] = Numbered(w, d, counter + 1)]
    /\ UNCHANGED <<position, delivered, answered, queued, since, sync, told, received, late, lost>>

\* A row with this message id exists for the device.
Known(s, d) == \E t \in Send : Id[t] = Id[s] /\ position[<<t, d>>] > 0

\* Stored below a row that is stored already, or while the device's request
\* is between the query for messages and the one for the highest position.
Late(s, d, pos) == \/ \E x \in Stored : position[x] > pos
                   \/ sync[d].at \in {"mark", "top"}

MoveOn(w, d) == worker' = [worker EXCEPT ![w] = Planned(@.send, @.left \ {d})]

\* Slip: a message that is stored again takes the new position.
InsertOrReplace(w) ==
    /\ worker[w].at = "insert"
    /\ LET s == worker[w].send
           d == worker[w].device
           pos == worker[w].pos
       IN /\ position' = [position EXCEPT ![<<s, d>>] = pos]
          /\ delivered' = delivered \ {<<s, d>>}
          /\ late' = IF Late(s, d, pos) THEN late \cup {<<s, d>>} ELSE late
          /\ MoveOn(w, d)
    /\ UNCHANGED <<counter, answered, queued, since, sync, told, received, lost>>

\* insertToDeviceMessage: nothing is stored if the message id is known.
Insert(w) ==
    /\ worker[w].at = "insert"
    /\ LET s == worker[w].send
           d == worker[w].device
           pos == worker[w].pos
       IN /\ \/ Known(s, d) /\ UNCHANGED <<position, late, lost>>
             \/ /\ ~Known(s, d)
                /\ position' = [position EXCEPT ![<<s, d>>] = pos]
                /\ late' = IF Late(s, d, pos) THEN late \cup {<<s, d>>} ELSE late
          /\ MoveOn(w, d)
    /\ UNCHANGED <<counter, delivered, answered, queued, since, sync, told, received, lost>>

\* The catch of processFederationTransaction: a statement fails for an EDU, what
\* is left of it is given up, and its transaction goes on to its response.
EduFails(w) ==
    /\ worker[w].at \in {"number", "insert"}
    /\ worker[w].send \in Incoming
    /\ skipped' = skipped \cup {<<worker[w].send, d>> : d \in worker[w].left}
    /\ worker' = [worker EXCEPT ![w] = Planned(@.send, {})]
    /\ UNCHANGED <<tables, since, sync, told, received, late, refused>>

\* The EDUs for other servers are given to the outbox, of which the status of
\* the answer is not looked at.
Queue(w) ==
    /\ worker[w].at = "queue"
    /\ LET s == worker[w].send
       IN \/ queued' = queued \cup {s} /\ UNCHANGED refused
          \/ refused' = refused \cup {s} /\ UNCHANGED queued
    /\ worker' = [worker EXCEPT ![w] = [@ EXCEPT !.at = "answer"]]
    /\ UNCHANGED <<counter, position, delivered, answered, since, sync, told, received, late, skipped>>

\* storeTransactionResponse or storeCachedTransaction, and the answer.
Answer(w) ==
    /\ worker[w].at = "answer"
    /\ answered' = answered \cup {worker[w].send}
    /\ told' = told \cup {worker[w].send}
    /\ worker' = [worker EXCEPT ![w] = Idle]
    /\ UNCHANGED <<counter, position, delivered, queued, since, sync, received, late, lost>>

\* The worker stops, or a statement fails that is not of an EDU (see EduFails);
\* the sender gets no answer.
Stop(w) ==
    /\ worker[w].at # "idle"
    /\ worker' = [worker EXCEPT ![w] = Idle]
    /\ UNCHANGED <<tables, since, sync, told, received, late, lost>>

-----------------------------------------------------------------------------
(* /sync of a device.                                                       *)

\* The device polls; loadToDeviceMessagesBatch, first statement.
Load(d) ==
    /\ sync[d].at = "idle"
    /\ sync' = [sync EXCEPT ![d] = [at |-> "mark", found |-> Oldest(Waiting(d)), next |-> 0]]
    /\ UNCHANGED <<tables, worker, since, told, received, late, lost>>

\* Slip: messages are marked when they are read, not when the token passed them.
MarkFound(d) ==
    /\ sync[d].at = "mark"
    /\ delivered' = delivered \cup sync[d].found
    /\ sync' = [sync EXCEPT ![d] = [@ EXCEPT !.at = "top"]]
    /\ UNCHANGED <<counter, position, answered, queued, worker, since, told, received, late, lost>>

\* Second statement: the rows at or below the token (none, for the token 0).
Mark(d) ==
    /\ sync[d].at = "mark"
    /\ delivered' = delivered \cup {x \in Stored : x[2] = d /\ position[x] <= since[d]}
    /\ sync' = [sync EXCEPT ![d] = [@ EXCEPT !.at = "top"]]
    /\ UNCHANGED <<counter, position, answered, queued, worker, since, told, received, late, lost>>

\* Slip: the token is the highest position even if there is more to give.
AlwaysHighest(d, next) == next \in HighestStored

\* Slip: the token is never moved.
SameToken(d, next) == next = since[d]

\* Third statement: the last position found, or else the highest position
\* stored for anybody; the token stays if there is none.
NextBatch(d, next) ==
    IF sync[d].found # {} THEN next \in Top({position[x] : x \in sync[d].found})
    ELSE IF Stored # {}   THEN next \in HighestStored
                          ELSE next = since[d]

ReadTop(d) ==
    /\ sync[d].at = "top"
    /\ \E next \in 0..MaxPosition + 1 :
         /\ NextBatch(d, next)
         /\ sync' = [sync EXCEPT ![d] = [at |-> "respond", found |-> sync[d].found, next |-> next]]
    /\ UNCHANGED <<tables, worker, since, told, received, late, lost>>

\* The answer reaches the device, which goes on from its token.
Respond(d) ==
    /\ sync[d].at = "respond"
    /\ received' = received \cup sync[d].found
    /\ since' = [since EXCEPT ![d] = sync[d].next]
    /\ sync' = [sync EXCEPT ![d] = NoSync]
    /\ UNCHANGED <<tables, worker, told, late, lost>>

\* The answer or its worker is lost, or the assembler found nothing and
\* starts over after its wait: the device's token is what it was.
StartOver(d) ==
    /\ sync[d].at # "idle"
    /\ sync' = [sync EXCEPT ![d] = NoSync]
    /\ UNCHANGED <<tables, worker, since, told, received, late, lost>>

-----------------------------------------------------------------------------
Sending(w) == \/ \E s \in Send : Begin(w, s)
              \/ Number(w) \/ Insert(w) \/ EduFails(w)
              \/ Queue(w) \/ Answer(w) \/ Stop(w)
Assembling(d) == Load(d) \/ Mark(d) \/ ReadTop(d)

Next == \/ \E w \in Worker : Sending(w)
        \/ \E s \in Send : AnswerAgain(s)
        \/ \E d \in Online : Assembling(d) \/ Respond(d) \/ StartOver(d)

Spec == Init /\ [][Next]_vars

\* A device keeps polling, and not all of its answers are lost.
FairSpec ==
    /\ Spec
    /\ \A d \in Online : /\ WF_vars(Load(d)) /\ SF_vars(Mark(d))
                         /\ SF_vars(ReadTop(d)) /\ SF_vars(Respond(d))

-----------------------------------------------------------------------------
(* Properties.                                                              *)

(* Tables and requests have their types, and tokens are positions that were *)
(* taken (loadToDeviceMessagesBatch).                                       *)
TypeOK ==
    /\ counter \in 0..MaxPosition /\ position \in [Row -> 0..counter]
    /\ delivered \subseteq Stored /\ answered \subseteq Send /\ queued \subseteq Outgoing
    /\ worker \in [Worker -> Handling]
    /\ since \in [Device -> 0..counter] /\ sync \in [Device -> Syncing]
    /\ told \subseteq Send /\ received \subseteq Row /\ late \subseteq Row
    /\ skipped \subseteq Row /\ refused \subseteq Outgoing

(* No two rows have the same position, however workers interleave: the      *)
(* order of a device's messages and its token rest on it                    *)
(* (getNextNamedStreamPosition).                                            *)
PositionsDiffer ==
    \A x, y \in Stored : position[x] = position[y] => x = y

(* A sender that was answered has a row for each device, but for the rows   *)
(* given up when its EDU failed, and its EDUs have been given to the        *)
(* outbox, whatever was tried, stopped and sent again before                *)
(* (sendToDeviceEffect, processFederationTransaction).                      *)
AnsweredIsStored ==
    \A s \in told :
        /\ \A d \in Target[s] : Known(s, d) \/ <<s, d>> \in skipped
        /\ s \in Outgoing => s \in queued \cup refused

(* A message that a device's token has passed was given to the device or    *)
(* was stored late: below a position stored before, or in the middle of the *)
(* device's request (loadToDeviceMessagesBatch).                            *)
PassedIsReceived ==
    \A x \in Stored : position[x] <= since[x[2]] => x \in received \cup late

(* A device is given a message once, also when the sender repeats the       *)
(* request or the device repeats a lost one.                                *)
ReceivedOnce ==
    [][\A d \in Device : Respond(d) => sync[d].found \cap received = {}]_vars

(* The table is an at-least-once channel to each device: see AtLeastOnce.   *)
(* A row that was not stored late is outstanding until it is marked as      *)
(* delivered, and it is not marked before the device has received it,       *)
(* however requests to send and to sync interleave, fail and come again; no *)
(* rows are confused.                                                       *)
Punctual(rows) == [d \in Device |-> {x \in rows \ late : x[2] = d}]

Channel == INSTANCE AtLeastOnce WITH
               Dest        <- Device,
               Item        <- Row,
               submitted   <- Punctual(Stored),
               outstanding <- Punctual(Stored \ delivered),
               received    <- Punctual(received),
               doubtful    <- [d \in Device |-> {}]
AtLeastOnceDelivery == Channel!Spec

(* A message that was not stored late reaches its device.                   *)
StoredIsReceived ==
    \A s \in Send, d \in Online :
        position[<<s, d>>] > 0 /\ <<s, d>> \notin late ~> <<s, d>> \in received

(* Of the column delivered, "Has been synced to device".                    *)
DeliveredIsReceived == delivered \subseteq received

(* The message itself is stored, not another with its message id.           *)
EachIsStored == \A s \in told : \A d \in Target[s] : position[<<s, d>>] > 0

(* Without the exceptions.                                                  *)
NothingMissing ==
    \A s \in told : /\ \A d \in Target[s] : Known(s, d)
                     /\ s \in Outgoing => s \in queued

=============================================================================
