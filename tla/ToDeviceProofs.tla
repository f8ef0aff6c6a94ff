--------------------------- MODULE ToDeviceProofs ---------------------------
(***************************************************************************)
(* Proofs about ToDevice, each invariant on top of the ones before:        *)
(* types, positions that differ, what an answered sender can rely on, that *)
(* tokens only pass what was given or stored late, that nothing is given   *)
(* twice, and that the table is an at-least-once channel.                  *)
(***************************************************************************)
EXTENDS ToDevice, FiniteSetTheorems, WellFoundedInduction, TLAPS

USE Constants DEF lost

LEMMA StepCases ==
    ASSUME Next
    PROVE  \/ \E w \in Worker, s \in Send : Begin(w, s)
           \/ \E w \in Worker : Number(w) \/ Insert(w) \/ EduFails(w)
           \/ \E w \in Worker : Queue(w) \/ Answer(w) \/ Stop(w)
           \/ \E s \in Send : AnswerAgain(s)
           \/ \E d \in Device : Load(d) \/ Mark(d) \/ ReadTop(d) \/ Respond(d) \/ StartOver(d)
  BY DEF Next, Sending, Assembling

-----------------------------------------------------------------------------
(* Types, with what the places of a worker and of a /sync say.             *)

WorkerOK(w) ==
    /\ worker[w].pos <= counter
    /\ worker[w].at = "insert" => /\ worker[w].send \in Send
                                  /\ worker[w].device \in worker[w].left
                                  /\ worker[w].pos > 0
    /\ worker[w].at \in {"number", "answer"} => worker[w].send \in Send
    /\ worker[w].at = "queue" => worker[w].send \in Outgoing

SyncOK(d) == sync[d].found \subseteq Stored /\ sync[d].next <= counter

TypeInv == /\ TypeOK
           /\ \A w \in Worker : WorkerOK(w)
           /\ \A d \in Device : SyncOK(d)

LEMMA IdleTyped ==
    /\ Idle \in Handling /\ Idle.at = "idle" /\ Idle.pos = 0
    /\ NoSync \in Syncing
  BY DEF Idle, Handling, NoSync, Syncing

LEMMA PlannedTyped ==
    ASSUME NEW s \in Send, NEW left \in SUBSET Device
    PROVE  LET new == Planned(s, left)
           IN /\ new \in Handling /\ new.pos = 0 /\ new.send = s /\ new.left = left
              /\ new.at \in {"number", "queue", "answer"}
              /\ new.at = "number" <=> left # {}
              /\ new.at = "queue" => s \in Outgoing
              /\ new.at = "answer" => s \notin Outgoing
  BY DEF Planned, Handling

LEMMA TypeInit == Init => TypeInv
<1> SUFFICES ASSUME Init PROVE TypeInv
  OBVIOUS
<1>1. TypeOK
  BY IdleTyped DEF Init, TypeOK, Stored, Row
<1>2. \A w \in Worker : WorkerOK(w)
  BY DEF Init, WorkerOK, Idle
<1>3. \A d \in Device : SyncOK(d)
  BY DEF Init, SyncOK, NoSync
<1> QED BY <1>1, <1>2, <1>3 DEF TypeInv

\* A step of worker w that leaves the stream, the rows and the devices alone.
LEMMA WorkerStep ==
    ASSUME TypeInv, NEW w \in Worker, NEW new \in Handling,
           worker' = [worker EXCEPT ![w] = new],
           new.pos <= counter, new.at # "insert",
           new.at \in {"number", "answer"} => new.send \in Send,
           new.at = "queue" => new.send \in Outgoing,
           UNCHANGED <<counter, position, delivered, since, sync, received, late>>,
           answered' \subseteq Send, queued' \subseteq Outgoing, told' \subseteq Send,
           skipped' \subseteq Row, refused' \subseteq Outgoing
    PROVE  TypeInv'
<1>1. TypeOK'
  BY DEF TypeInv, TypeOK, Stored
<1>2. \A v \in Worker : WorkerOK(v)'
  BY DEF TypeInv, TypeOK, WorkerOK
<1>3. \A d \in Device : SyncOK(d)'
  BY DEF TypeInv, SyncOK, Stored
<1> QED BY <1>1, <1>2, <1>3 DEF TypeInv

\* A step of device d that leaves the stream, the rows and the workers alone.
LEMMA SyncStep ==
    ASSUME TypeInv, NEW d \in Device, NEW new \in Syncing,
           sync' = [sync EXCEPT ![d] = new],
           new.found \subseteq Stored, new.next <= counter,
           UNCHANGED <<counter, position, answered, queued, worker, told, late, lost>>,
           delivered' \subseteq Stored, since' \in [Device -> 0..counter],
           received' \subseteq Row
    PROVE  TypeInv'
<1>1. TypeOK'
  BY DEF TypeInv, TypeOK, Stored
<1>2. \A w \in Worker : WorkerOK(w)'
  BY DEF TypeInv, WorkerOK
<1>3. \A e \in Device : SyncOK(e)'
  BY DEF TypeInv, TypeOK, SyncOK, Stored
<1> QED BY <1>1, <1>2, <1>3 DEF TypeInv

LEMMA InsertRow ==
    ASSUME TypeInv, NEW w \in Worker, Insert(w)
    PROVE  LET s == worker[w].send
               d == worker[w].device
               pos == worker[w].pos
           IN /\ s \in Send /\ d \in Device /\ d \in worker[w].left
              /\ pos \in 1..counter
              /\ \/ Known(s, d) /\ UNCHANGED <<position, late>>
                 \/ /\ ~Known(s, d)
                    /\ position' = [position EXCEPT ![<<s, d>>] = pos]
                    /\ late' = IF Late(s, d, pos) THEN late \cup {<<s, d>>} ELSE late
              /\ MoveOn(w, d)
<1>1. worker[w] \in Handling /\ worker[w].at = "insert"
  BY DEF TypeInv, TypeOK, Insert
<1> QED BY <1>1 DEF TypeInv, WorkerOK, TypeOK, Insert, Handling

LEMMA TypeStep == TypeInv /\ [Next]_vars => TypeInv'
<1> SUFFICES ASSUME TypeInv, [Next]_vars PROVE TypeInv'
  OBVIOUS
<1>1. CASE UNCHANGED vars
  BY <1>1 DEF vars, tables, TypeInv, TypeOK, WorkerOK, SyncOK, Stored
<1>2. ASSUME NEW w \in Worker, NEW s \in Send, Begin(w, s) PROVE TypeInv'
  <2> DEFINE new == Planned(s, Target[s])
  <2>1. /\ new \in Handling /\ new.pos = 0 /\ new.at # "insert"
        /\ new.send \in Send
        /\ new.at = "queue" => new.send \in Outgoing
    BY PlannedTyped
  <2>2. /\ 0 <= counter /\ answered \subseteq Send /\ queued \subseteq Outgoing
        /\ told \subseteq Send /\ skipped \subseteq Row /\ refused \subseteq Outgoing
    BY DEF TypeInv, TypeOK
  <2>3. worker' = [worker EXCEPT ![w] = new]
    BY <1>2 DEF Begin
  <2> HIDE DEF new
  <2> QED BY <1>2, <2>1, <2>2, <2>3, WorkerStep DEF Begin, tables
<1>3. ASSUME NEW w \in Worker, Number(w) PROVE TypeInv'
  <2>1. PICK d \in worker[w].left :
          worker' = [worker EXCEPT ![w] = Numbered(w, d, counter + 1)]
    BY <1>3 DEF Number
  <2>2. worker[w] \in Handling /\ worker[w].send \in Send /\ counter \in Nat
    BY <1>3 DEF TypeInv, TypeOK, WorkerOK, Number
  <2> DEFINE new == Numbered(w, d, counter + 1)
  <2>a. d \in Device
    BY <2>2 DEF Handling
  <2>b. new = [at |-> "insert", send |-> worker[w].send, left |-> worker[w].left,
               device |-> d, pos |-> counter + 1]
    BY DEF Numbered
  <2>c. worker' = [worker EXCEPT ![w] = new]
    BY <2>1
  <2> HIDE DEF new
  <2>3. /\ worker'[w] \in Handling /\ worker'[w].send = worker[w].send
        /\ worker'[w].at = "insert" /\ worker'[w].left = worker[w].left /\ worker'[w].device = d
        /\ worker'[w].pos = counter + 1
    BY <2>2, <2>a, <2>b, <2>c DEF TypeInv, TypeOK, Handling
  <2>4. \A v \in Worker : v # w => worker'[v] = worker[v]
    BY <2>c DEF TypeInv, TypeOK
  <2>5. worker' \in [Worker -> Handling]
    BY <2>c, <2>3, <2>4 DEF TypeInv, TypeOK
  <2>6. TypeOK'
    BY <1>3, <2>5 DEF Number, TypeInv, TypeOK, Stored
  <2>7. \A v \in Worker : WorkerOK(v)'
    <3>1. counter' = counter + 1 /\ d \in worker[w].left
      BY <1>3 DEF Number
    <3>2. WorkerOK(w)'
      BY <2>2, <2>3, <3>1 DEF WorkerOK
    <3>3. ASSUME NEW v \in Worker, v # w PROVE WorkerOK(v)'
      <4>1. worker'[v] = worker[v] /\ WorkerOK(v) /\ worker[v].pos \in Nat
        BY <2>4, <3>3 DEF TypeInv, TypeOK, Handling
      <4> QED BY <2>2, <3>1, <4>1 DEF WorkerOK
    <3> QED BY <3>2, <3>3
  <2>8. \A e \in Device : SyncOK(e)'
    BY <1>3 DEF Number, TypeInv, TypeOK, SyncOK, Stored, Syncing
  <2> QED BY <2>6, <2>7, <2>8 DEF TypeInv
<1>4. ASSUME NEW w \in Worker, Insert(w) PROVE TypeInv'
  <2> DEFINE s == worker[w].send
             d == worker[w].device
             pos == worker[w].pos
             new == Planned(s, worker[w].left \ {d})
  <2>1. /\ s \in Send /\ d \in Device /\ pos \in 1..counter
        /\ \/ UNCHANGED <<position, late>>
           \/ /\ position' = [position EXCEPT ![<<s, d>>] = pos]
              /\ late' = late \/ late' = late \cup {<<s, d>>}
    BY <1>4, InsertRow
  <2>2. worker[w].left \ {d} \in SUBSET Device
    BY DEF TypeInv, TypeOK, Handling
  <2>3. /\ new \in Handling /\ new.pos = 0 /\ new.send = s
        /\ new.at \in {"number", "queue", "answer"}
        /\ new.at = "queue" => s \in Outgoing
    BY <2>1, <2>2, PlannedTyped
  <2>4. worker' = [worker EXCEPT ![w] = new]
    BY <1>4, InsertRow DEF MoveOn, TypeInv, TypeOK
  <2> HIDE DEF s, d, pos
  <2>5. position' \in [Row -> 0..counter]
    BY <2>1 DEF TypeInv, TypeOK
  <2>6. \A x \in Row : position[x] > 0 => position'[x] > 0
    BY <2>1 DEF TypeInv, TypeOK
  <2>7. late' \subseteq Row
    BY <2>1 DEF TypeInv, TypeOK, Row
  <2> HIDE DEF new
  <2>8. TypeOK'
    BY <1>4, <2>3, <2>4, <2>5, <2>6, <2>7 DEF Insert, TypeInv, TypeOK, Stored
  <2>9. \A v \in Worker : WorkerOK(v)'
    <3>1. UNCHANGED counter /\ 0 <= counter
      BY <1>4 DEF Insert, TypeInv, TypeOK
    <3>2. worker'[w] = new /\ \A v \in Worker : v # w => worker'[v] = worker[v]
      BY <2>4 DEF TypeInv, TypeOK
    <3>3. WorkerOK(w)'
      BY <2>1, <2>3, <3>1, <3>2 DEF WorkerOK
    <3> QED BY <3>1, <3>2, <3>3 DEF TypeInv, WorkerOK
  <2>10. \A e \in Device : SyncOK(e)'
    BY <1>4, <2>6 DEF Insert, TypeInv, SyncOK, Stored
  <2> QED BY <2>8, <2>9, <2>10 DEF TypeInv
<1>5. ASSUME NEW w \in Worker, Queue(w) PROVE TypeInv'
  <2> DEFINE s == worker[w].send
             new == [worker[w] EXCEPT !.at = "answer"]
  <2>1. s \in Outgoing /\ worker[w] \in Handling
    BY <1>5 DEF Queue, TypeInv, TypeOK, WorkerOK
  <2>2. new \in Handling /\ new.at = "answer" /\ new.send = s /\ new.pos = worker[w].pos
    BY <2>1 DEF Handling
  <2>3. worker' = [worker EXCEPT ![w] = new]
    BY <1>5 DEF Queue
  <2> HIDE DEF new
  <2> QED BY <1>5, <2>1, <2>2, <2>3, WorkerStep DEF Queue, TypeInv, TypeOK, WorkerOK
<1>14. ASSUME NEW w \in Worker, EduFails(w) PROVE TypeInv'
  <2> DEFINE s == worker[w].send
             new == Planned(s, {})
  <2>1. s \in Send /\ worker[w].left \subseteq Device
    BY <1>14 DEF EduFails, TypeInv, TypeOK, WorkerOK, Handling
  <2>2. /\ new \in Handling /\ new.pos = 0 /\ new.at # "insert"
        /\ new.send \in Send
        /\ new.at = "queue" => new.send \in Outgoing
    BY <2>1, PlannedTyped
  <2>3. worker' = [worker EXCEPT ![w] = new]
    BY <1>14 DEF EduFails
  <2>4. skipped' \subseteq Row
    BY <1>14, <2>1 DEF EduFails, Row, TypeInv, TypeOK
  <2>5. /\ 0 <= counter /\ answered \subseteq Send /\ queued \subseteq Outgoing
        /\ told \subseteq Send /\ refused \subseteq Outgoing
    BY DEF TypeInv, TypeOK
  <2> HIDE DEF new
  <2> QED BY <1>14, <2>2, <2>3, <2>4, <2>5, WorkerStep DEF EduFails, tables
<1>6. ASSUME NEW w \in Worker, Answer(w) PROVE TypeInv'
  <2>1. worker[w].send \in Send
    BY <1>6 DEF Answer, TypeInv, WorkerOK
  <2>2. 0 <= counter
    BY DEF TypeInv, TypeOK
  <2> QED BY <1>6, <2>1, <2>2, IdleTyped, WorkerStep DEF Answer, TypeInv, TypeOK
<1>7. ASSUME NEW w \in Worker, Stop(w) PROVE TypeInv'
  <2>1. 0 <= counter
    BY DEF TypeInv, TypeOK
  <2> QED BY <1>7, <2>1, IdleTyped, WorkerStep DEF Stop, tables, TypeInv, TypeOK
<1>8. ASSUME NEW s \in Send, AnswerAgain(s) PROVE TypeInv'
  BY <1>8 DEF AnswerAgain, tables, TypeInv, TypeOK, WorkerOK, SyncOK, Stored
<1>9. ASSUME NEW d \in Device, Load(d) PROVE TypeInv'
  <2> DEFINE new == [at |-> "mark", found |-> Oldest(Waiting(d)), next |-> 0]
  <2>1. Oldest(Waiting(d)) \subseteq Stored /\ Stored \subseteq Row
    BY DEF Oldest, Waiting, Stored
  <2>2. new \in Syncing /\ new.found \subseteq Stored /\ new.next <= counter
    BY <2>1 DEF Syncing, TypeInv, TypeOK
  <2>3. sync' = [sync EXCEPT ![d] = new]
    BY <1>9 DEF Load
  <2> HIDE DEF new
  <2> QED BY <1>9, <2>2, <2>3, SyncStep DEF Load, tables, TypeInv, TypeOK
<1>10. ASSUME NEW d \in Device, Mark(d) PROVE TypeInv'
  <2> DEFINE new == [sync[d] EXCEPT !.at = "top"]
  <2>1. new \in Syncing /\ new.found = sync[d].found /\ new.next = sync[d].next
    BY DEF TypeInv, TypeOK, Syncing
  <2>2. sync' = [sync EXCEPT ![d] = new]
    BY <1>10 DEF Mark
  <2>3. delivered' \subseteq Stored
    BY <1>10 DEF Mark, TypeInv, TypeOK
  <2> HIDE DEF new
  <2> QED BY <1>10, <2>1, <2>2, <2>3, SyncStep DEF Mark, TypeInv, TypeOK, SyncOK
<1>11. ASSUME NEW d \in Device, ReadTop(d) PROVE TypeInv'
  <2>1. PICK next \in 0..MaxPosition + 1 :
          /\ NextBatch(d, next)
          /\ sync' = [sync EXCEPT ![d] = [at |-> "respond", found |-> sync[d].found, next |-> next]]
    BY <1>11 DEF ReadTop
  <2> DEFINE new == [at |-> "respond", found |-> sync[d].found, next |-> next]
  <2>a. sync[d] \in Syncing /\ next \in Nat
    BY DEF TypeInv, TypeOK
  <2>2. new \in Syncing /\ new.found = sync[d].found /\ new.next = next
    BY <2>a DEF Syncing
  <2>3. next <= counter
    <3>1. \A x \in Stored : position[x] <= counter /\ x \in Row
      BY DEF TypeInv, TypeOK, Stored
    <3>2. sync[d].found \subseteq Stored /\ since[d] <= counter /\ 0 <= counter
      BY DEF TypeInv, TypeOK, SyncOK
    <3> QED BY <2>1, <3>1, <3>2 DEF NextBatch, HighestStored, Top
  <2>4. sync' = [sync EXCEPT ![d] = new]
    BY <2>1
  <2> HIDE DEF new
  <2> QED BY <1>11, <2>2, <2>3, <2>4, SyncStep DEF ReadTop, tables, TypeInv, TypeOK, SyncOK
<1>12. ASSUME NEW d \in Device, Respond(d) PROVE TypeInv'
  <2>1. sync[d].next \in 0..counter /\ sync[d].found \subseteq Row
    BY DEF TypeInv, TypeOK, SyncOK, Syncing
  <2>2. since' \in [Device -> 0..counter] /\ received' \subseteq Row
    BY <1>12, <2>1 DEF Respond, TypeInv, TypeOK
  <2>3. NoSync.found \subseteq Stored /\ NoSync.next <= counter
    BY DEF NoSync, TypeInv, TypeOK
  <2> QED BY <1>12, <2>2, <2>3, IdleTyped, SyncStep DEF Respond, tables, TypeInv, TypeOK
<1>13. ASSUME NEW d \in Device, StartOver(d) PROVE TypeInv'
  <2>1. NoSync.found \subseteq Stored /\ NoSync.next <= counter
    BY DEF NoSync, TypeInv, TypeOK
  <2> QED BY <1>13, <2>1, IdleTyped, SyncStep DEF StartOver, tables, TypeInv, TypeOK
<1> QED
  BY StepCases, <1>1, <1>2, <1>3, <1>4, <1>5, <1>6, <1>7, <1>8, <1>9, <1>10, <1>11,
     <1>12, <1>13, <1>14

LEMMA Typed == Spec => []TypeInv
  BY TypeInit, TypeStep, PTL DEF Spec

(* Tables, requests and tokens keep their types in every instance.          *)
THEOREM TypeCorrect == Spec => []TypeOK
<1>1. TypeInv => TypeOK
  BY DEF TypeInv
<1> QED BY Typed, <1>1, PTL

-----------------------------------------------------------------------------
(* Positions: the ones that workers hold are not in the table yet.          *)

Holds(w) == worker[w].at = "insert"

PositionInv ==
    /\ PositionsDiffer
    /\ \A w \in Worker : Holds(w) => \A x \in Stored : position[x] # worker[w].pos
    /\ \A v, w \in Worker : Holds(v) /\ Holds(w) /\ v # w => worker[v].pos # worker[w].pos

\* A step after which no other worker holds a position and the rows are the same.
LEMMA NoPositionTaken ==
    ASSUME PositionInv, UNCHANGED position,
           \A v \in Worker : Holds(v)' => Holds(v) /\ worker'[v].pos = worker[v].pos
    PROVE  PositionInv'
  BY DEF PositionInv, PositionsDiffer, Holds, Stored

LEMMA PositionStep == TypeInv /\ TypeInv' /\ PositionInv /\ [Next]_vars => PositionInv'
<1> SUFFICES ASSUME TypeInv, TypeInv', PositionInv, [Next]_vars PROVE PositionInv'
  OBVIOUS
<1>1. CASE UNCHANGED vars
  BY <1>1, NoPositionTaken DEF vars, tables, Holds
<1>2. ASSUME NEW w \in Worker, NEW s \in Send, Begin(w, s) PROVE PositionInv'
  <2>1. worker'[w].at # "insert" /\ \A v \in Worker \ {w} : worker'[v] = worker[v]
    BY <1>2 DEF Begin, Planned, TypeInv, TypeOK
  <2> QED BY <1>2, <2>1, NoPositionTaken DEF Begin, tables, Holds
<1>3. ASSUME NEW w \in Worker, Number(w) PROVE PositionInv'
  <2>1. /\ worker'[w].at = "insert" /\ worker'[w].pos = counter + 1
        /\ \A v \in Worker \ {w} : worker'[v] = worker[v]
    BY <1>3 DEF Number, Numbered, TypeInv, TypeOK
  <2>2. counter \in Nat /\ \A v \in Worker : worker[v].pos <= counter /\ worker[v].pos \in Nat
    BY DEF TypeInv, TypeOK, WorkerOK, Handling
  <2>3. position' = position /\ \A x \in Stored : position[x] \in 0..counter
    BY <1>3 DEF Number, TypeInv, TypeOK, Stored
  <2> QED BY <2>1, <2>2, <2>3 DEF PositionInv, PositionsDiffer, Holds, Stored
<1>4. ASSUME NEW w \in Worker, Insert(w) PROVE PositionInv'
  <2> DEFINE x == <<worker[w].send, worker[w].device>>
             pos == worker[w].pos
  <2>1. Holds(w) /\ x \in Row
    BY <1>4, InsertRow DEF Insert, Holds, Row
  <2>2. worker'[w].at # "insert" /\ \A v \in Worker \ {w} : worker'[v] = worker[v]
    BY <1>4 DEF Insert, MoveOn, Planned, TypeInv, TypeOK
  <2>3. CASE UNCHANGED position
    BY <2>2, <2>3, NoPositionTaken DEF Holds
  <2>4. CASE position' = [position EXCEPT ![x] = pos]
    <3>1. \A y \in Row : position'[y] = IF y = x THEN pos ELSE position[y]
      BY <2>1, <2>4 DEF TypeInv, TypeOK
    <3> HIDE DEF x, pos
    <3>2. Stored' \subseteq Stored \cup {x}
      BY <3>1 DEF Stored
    <3>3. \A y \in Stored : position[y] # pos
      BY <2>1 DEF PositionInv, Holds, pos
    <3>4. Stored \subseteq Row
      BY DEF Stored
    <3>5. PositionsDiffer'
      BY <2>1, <3>1, <3>2, <3>3, <3>4 DEF PositionInv, PositionsDiffer
    <3>6. \A v \in Worker : Holds(v)' => v # w /\ Holds(v) /\ worker'[v].pos = worker[v].pos
      BY <2>2 DEF Holds
    <3>7. \A v \in Worker : Holds(v)' => worker'[v].pos # pos
      BY <2>1, <3>6 DEF PositionInv, pos
    <3>8. \A v \in Worker : Holds(v)' => \A y \in Stored' : position'[y] # worker'[v].pos
      BY <2>1, <3>1, <3>2, <3>4, <3>6, <3>7 DEF PositionInv
    <3>9. \A u, v \in Worker : Holds(u)' /\ Holds(v)' /\ u # v => worker'[u].pos # worker'[v].pos
      BY <3>6 DEF PositionInv
    <3> QED BY <3>5, <3>8, <3>9 DEF PositionInv, Holds
  <2> QED BY <1>4, <2>3, <2>4, InsertRow
<1>5. ASSUME NEW w \in Worker, EduFails(w) \/ Queue(w) \/ Answer(w) \/ Stop(w) PROVE PositionInv'
  <2>1. worker'[w].at # "insert" /\ \A v \in Worker \ {w} : worker'[v] = worker[v]
    BY <1>5 DEF EduFails, Planned, Queue, Answer, Stop, Idle, TypeInv, TypeOK, Handling
  <2> QED BY <1>5, <2>1, NoPositionTaken DEF EduFails, Queue, Answer, Stop, tables, Holds
<1>6. ASSUME NEW s \in Send, AnswerAgain(s) PROVE PositionInv'
  BY <1>6, NoPositionTaken DEF AnswerAgain, tables, Holds
<1>7. ASSUME NEW d \in Device, Load(d) \/ Mark(d) \/ ReadTop(d) \/ Respond(d) \/ StartOver(d)
      PROVE  PositionInv'
  BY <1>7, NoPositionTaken DEF Load, Mark, ReadTop, Respond, StartOver, tables, Holds
<1> QED BY StepCases, <1>1, <1>2, <1>3, <1>4, <1>5, <1>6, <1>7

LEMMA Positioned == Spec => []PositionInv
<1>1. Init => PositionInv
  BY DEF Init, PositionInv, PositionsDiffer, Stored, Holds, Idle
<1> QED BY <1>1, PositionStep, Typed, PTL DEF Spec

(* No two rows ever have the same position: a position comes from one       *)
(* statement and is used by the worker that took it                         *)
(* (getNextNamedStreamPosition).                                            *)
THEOREM PositionsAreUnique == Spec => []PositionsDiffer
<1>1. PositionInv => PositionsDiffer
  BY DEF PositionInv
<1> QED BY Positioned, <1>1, PTL

-----------------------------------------------------------------------------
(* Senders: what a worker has behind it is stored.                          *)

Settled(s, d) == Known(s, d) \/ <<s, d>> \in skipped
AllSettled(s) == \A d \in Target[s] : Settled(s, d)
Handed(s) == s \in Outgoing => s \in queued \cup refused

Behind(w) ==
    LET s == worker[w].send
    IN /\ worker[w].at \in {"number", "insert"} =>
             \A d \in Target[s] \ worker[w].left : Settled(s, d)
       /\ worker[w].at \in {"queue", "answer"} => AllSettled(s)
       /\ worker[w].at = "answer" => Handed(s)

SenderInv == /\ \A s \in answered \cup told : AllSettled(s) /\ Handed(s)
             /\ \A w \in Worker : Behind(w)

LEMMA KnownStays ==
    ASSUME NEW s \in Send, NEW d \in Device, Known(s, d),
           \A x \in Row : position[x] > 0 => position'[x] > 0
    PROVE  Known(s, d)'
  BY DEF Known, Row

LEMMA SettledStays ==
    ASSUME NEW s \in Send, NEW d \in Device, Settled(s, d), skipped \subseteq skipped',
           \A x \in Row : position[x] > 0 => position'[x] > 0
    PROVE  Settled(s, d)'
  BY KnownStays DEF Settled

\* A step of worker w after which the rows and EDUs of before are still there.
LEMMA SenderWorkerStep ==
    ASSUME TypeInv, SenderInv, NEW w \in Worker,
           \A v \in Worker \ {w} : worker'[v] = worker[v],
           \A x \in Row : position[x] > 0 => position'[x] > 0,
           queued \subseteq queued', skipped \subseteq skipped', refused \subseteq refused',
           \A s \in (answered' \cup told') \ (answered \cup told) : AllSettled(s)' /\ Handed(s)',
           Behind(w)'
    PROVE  SenderInv'
<1>1. \A s \in Send : (AllSettled(s) => AllSettled(s)') /\ (Handed(s) => Handed(s)')
  BY SettledStays DEF AllSettled, Handed
<1>2. answered \cup told \subseteq Send
  BY DEF TypeInv, TypeOK
<1>3. \A v \in Worker \ {w} : Behind(v)'
  <2> TAKE v \in Worker \ {w}
  <2>1. worker'[v] = worker[v] /\ Behind(v)
    BY DEF SenderInv
  <2>2. worker[v].at \in {"number", "insert", "queue", "answer"} => worker[v].send \in Send
    BY DEF TypeInv, WorkerOK
  <2>3. \A s \in Send : \A d \in Target[s] : Settled(s, d) => Settled(s, d)'
    BY SettledStays
  <2> QED BY <1>1, <2>1, <2>2, <2>3 DEF Behind
<1> QED BY <1>1, <1>2, <1>3 DEF SenderInv

LEMMA SenderStep == TypeInv /\ SenderInv /\ [Next]_vars => SenderInv'
<1> SUFFICES ASSUME TypeInv, SenderInv, [Next]_vars PROVE SenderInv'
  OBVIOUS
<1>1. CASE UNCHANGED vars
  BY <1>1 DEF vars, tables, SenderInv, AllSettled, Settled, Handed, Behind, Known
<1>2. ASSUME NEW w \in Worker, NEW s \in Send, Begin(w, s) PROVE SenderInv'
  <2>1. worker'[w] = Planned(s, Target[s]) /\ \A v \in Worker \ {w} : worker'[v] = worker[v]
    BY <1>2 DEF Begin, TypeInv, TypeOK
  <2>2. Behind(w)'
    BY <2>1 DEF Behind, Planned, AllSettled, Handed
  <2> QED BY <1>2, <2>1, <2>2, SenderWorkerStep DEF Begin, tables
<1>3. ASSUME NEW w \in Worker, Number(w) PROVE SenderInv'
  <2>1. /\ worker'[w].at = "insert" /\ worker'[w].send = worker[w].send
        /\ worker'[w].left = worker[w].left
        /\ \A v \in Worker \ {w} : worker'[v] = worker[v]
    BY <1>3 DEF Number, Numbered, TypeInv, TypeOK
  <2>2. Behind(w) /\ worker[w].at = "number" /\ UNCHANGED <<position, skipped>>
    BY <1>3 DEF Number, SenderInv
  <2>3. Behind(w)'
    BY <2>1, <2>2 DEF Behind, Settled, Known
  <2> QED BY <1>3, <2>1, <2>3, SenderWorkerStep DEF Number
<1>4. ASSUME NEW w \in Worker, Insert(w) PROVE SenderInv'
  <2>1. PICK s \in Send, d \in Device, pos \in 1..counter, left \in SUBSET Device :
          /\ s = worker[w].send /\ d = worker[w].device
          /\ pos = worker[w].pos /\ left = worker[w].left
          /\ \/ Known(s, d) /\ UNCHANGED position
             \/ position' = [position EXCEPT ![<<s, d>>] = pos]
          /\ MoveOn(w, d)
    BY <1>4, InsertRow DEF TypeInv, TypeOK, Handling
  <2> DEFINE new == Planned(s, left \ {d})
  <2>a. worker' = [worker EXCEPT ![w] = new]
    BY <2>1 DEF MoveOn
  <2>b. /\ new.at \in {"number", "queue", "answer"} /\ new.send = s /\ new.left = left \ {d}
        /\ new.at # "number" => left \ {d} = {}
        /\ new.at = "answer" => s \notin Outgoing
    BY DEF Planned
  <2> HIDE DEF new
  <2>2. worker'[w] = new /\ \A v \in Worker \ {w} : worker'[v] = worker[v]
    BY <2>a DEF TypeInv, TypeOK
  <2>4. \A e \in Target[s] \ left : Settled(s, e)
    BY <1>4, <2>1 DEF Insert, SenderInv, Behind
  <2>c. <<s, d>> \in Row
    BY DEF Row
  <2>5. \A x \in Row : position[x] > 0 => position'[x] > 0
    BY <2>1, <2>c DEF TypeInv, TypeOK
  <2>6. Known(s, d)'
    <3>1. CASE Known(s, d)
      BY <2>5, <3>1, KnownStays
    <3>2. CASE position' = [position EXCEPT ![<<s, d>>] = pos]
      <4>1. position'[<<s, d>>] = pos /\ pos > 0
        BY <2>c, <3>2 DEF TypeInv, TypeOK
      <4> QED BY <4>1 DEF Known
    <3> QED BY <2>1, <3>1, <3>2
  <2>7. \A e \in Target[s] \ (left \ {d}) : Settled(s, e)'
    <3> TAKE e \in Target[s] \ (left \ {d})
    <3>1. CASE e = d
      BY <2>6, <3>1 DEF Settled
    <3>2. CASE e # d
      <4>1. skipped' = skipped
        BY <1>4 DEF Insert
      <4> QED BY <2>4, <2>5, <3>2, <4>1, SettledStays
    <3> QED BY <3>1, <3>2
  <2>8. Behind(w)'
    BY <2>2, <2>b, <2>7 DEF Behind, AllSettled, Handed
  <2> QED BY <1>4, <2>2, <2>5, <2>8, SenderWorkerStep DEF Insert
<1>5. ASSUME NEW w \in Worker, Queue(w) PROVE SenderInv'
  <2>1. PICK s \in Send :
          /\ s = worker[w].send /\ AllSettled(s) /\ UNCHANGED <<position, skipped, answered, told>>
          /\ queued \subseteq queued' /\ refused \subseteq refused'
          /\ s \in queued' \cup refused'
          /\ worker'[w].at = "answer" /\ worker'[w].send = s
          /\ \A v \in Worker \ {w} : worker'[v] = worker[v]
    BY <1>5 DEF Queue, TypeInv, TypeOK, WorkerOK, SenderInv, Behind, Handling
  <2>2. AllSettled(s)' /\ Handed(s)'
    BY <2>1 DEF AllSettled, Settled, Known, Handed
  <2>3. Behind(w)'
    BY <2>1, <2>2 DEF Behind
  <2> QED BY <2>1, <2>2, <2>3, SenderWorkerStep
<1>10. ASSUME NEW w \in Worker, EduFails(w) PROVE SenderInv'
  <2>1. PICK s \in Send :
          /\ s = worker[w].send /\ s \notin Outgoing
          /\ UNCHANGED <<position, answered, queued, refused, told>>
          /\ skipped' = skipped \cup {<<s, d>> : d \in worker[w].left}
          /\ worker'[w].at = "answer" /\ worker'[w].send = s
          /\ \A v \in Worker \ {w} : worker'[v] = worker[v]
          /\ \A d \in Target[s] \ worker[w].left : Settled(s, d)
    BY <1>10 DEF EduFails, Planned, tables, TypeInv, TypeOK, WorkerOK, SenderInv, Behind
  <2>2. AllSettled(s)' /\ Handed(s)'
    BY <2>1 DEF AllSettled, Settled, Known, Handed
  <2>3. Behind(w)'
    BY <2>1, <2>2 DEF Behind
  <2> QED BY <2>1, <2>3, SenderWorkerStep
<1>6. ASSUME NEW w \in Worker, Answer(w) PROVE SenderInv'
  <2>1. PICK s \in Send :
          /\ s = worker[w].send /\ AllSettled(s) /\ Handed(s)
          /\ UNCHANGED <<position, queued, lost>>
          /\ worker'[w].at = "idle" /\ \A v \in Worker \ {w} : worker'[v] = worker[v]
    BY <1>6 DEF Answer, Idle, TypeInv, TypeOK, WorkerOK, SenderInv, Behind
  <2>2. AllSettled(s)' /\ Handed(s)'
    BY <2>1 DEF AllSettled, Settled, Known, Handed
  <2>3. \A t \in (answered' \cup told') \ (answered \cup told) : t = s
    BY <1>6, <2>1 DEF Answer
  <2>4. Behind(w)'
    BY <2>1 DEF Behind
  <2> QED BY <2>1, <2>2, <2>3, <2>4, SenderWorkerStep
<1>7. ASSUME NEW w \in Worker, Stop(w) PROVE SenderInv'
  <2>1. worker'[w].at = "idle" /\ \A v \in Worker \ {w} : worker'[v] = worker[v]
    BY <1>7 DEF Stop, Idle, TypeInv, TypeOK
  <2>2. Behind(w)'
    BY <2>1 DEF Behind
  <2> QED BY <1>7, <2>1, <2>2, SenderWorkerStep DEF Stop, tables
<1>8. ASSUME NEW s \in Send, AnswerAgain(s) PROVE SenderInv'
  BY <1>8 DEF AnswerAgain, tables, SenderInv, AllSettled, Settled, Handed, Behind, Known
<1>9. ASSUME NEW d \in Device, Load(d) \/ Mark(d) \/ ReadTop(d) \/ Respond(d) \/ StartOver(d)
      PROVE  SenderInv'
  <2>1. UNCHANGED <<position, answered, queued, worker, told, lost>>
    BY <1>9 DEF Load, Mark, ReadTop, Respond, StartOver, tables
  <2> QED BY <2>1 DEF SenderInv, AllSettled, Settled, Handed, Behind, Known
<1> QED BY StepCases, <1>1, <1>2, <1>3, <1>4, <1>5, <1>6, <1>7, <1>8, <1>9, <1>10

(* Every sender that is answered has a row for each device, but for those   *)
(* given up when its EDU failed, and its EDUs were given to the outbox, in  *)
(* every interleaving with stops and repeated requests (sendToDeviceEffect, *)
(* processFederationTransaction).                                           *)
THEOREM AnsweredIsKept == Spec => []AnsweredIsStored
<1>1. Init => SenderInv
  BY DEF Init, SenderInv, Behind, Idle
<1>2. SenderInv => AnsweredIsStored
  BY DEF SenderInv, AnsweredIsStored, AllSettled, Settled, Handed
<1> QED BY <1>1, <1>2, SenderStep, Typed, PTL DEF Spec

-----------------------------------------------------------------------------
(* Tokens: what a device's request has found is all there is above its      *)
(* token, up to the highest position found, but for the rows stored late.   *)

(* ORDER BY stream_position LIMIT n leaves out only rows above all of those *)
(* it returns, and returns some if there are any.                           *)
LEMMA OldestComeFirst ==
    ASSUME position \in [Row -> Nat], NEW rows \in SUBSET Row, NEW x \in rows \ Oldest(rows)
    PROVE  Oldest(rows) # {} /\ \A y \in Oldest(rows) : position[y] < position[x]
<1> DEFINE Below(z) == {y \in rows : position[y] < position[z]}
<1>1. IsFiniteSet(rows)
  BY FS_Product, FS_Subset DEF Row
<1>2. \A z \in rows : IsFiniteSet(Below(z)) /\ Cardinality(Below(z)) \in Nat
  BY <1>1, FS_Subset, FS_CardinalityType
<1>3. \A y, z \in rows :
          position[z] <= position[y] => Cardinality(Below(z)) <= Cardinality(Below(y))
  <2> SUFFICES ASSUME NEW y \in rows, NEW z \in rows, position[z] <= position[y]
               PROVE  Cardinality(Below(z)) <= Cardinality(Below(y))
    OBVIOUS
  <2>1. Below(z) \in SUBSET Below(y)
    OBVIOUS
  <2> HIDE DEF Below
  <2> QED BY <1>2, <2>1, FS_Subset
<1>4. Oldest(rows) = {z \in rows : Cardinality(Below(z)) < Limit}
  BY DEF Oldest
<1>5. PICK least \in rows : \A y \in rows : ~ position[y] < position[least]
  <2> DEFINE T == {position[y] : y \in rows}
  <2>1. T \subseteq Nat /\ T # {}
    OBVIOUS
  <2> HIDE DEF T
  <2>2. PICK n \in T : \A m \in T : ~ (<<m, n>> \in OpToRel(<, Nat))
    BY <2>1, NatLessThanWellFounded, WFMin
  <2>3. \A m \in T : ~ m < n
    BY <2>1, <2>2 DEF OpToRel
  <2> QED BY <2>3 DEF T
<1>6. Below(least) = {}
  BY <1>5
<1> HIDE DEF Below
<1>7. least \in Oldest(rows)
  <2>1. Cardinality(Below(least)) = 0
    BY <1>6, FS_EmptySet
  <2> QED BY <1>4, <2>1
<1>8. \A y \in Oldest(rows) : position[y] < position[x]
  <2> SUFFICES ASSUME NEW y \in Oldest(rows), ~ position[y] < position[x] PROVE FALSE
    OBVIOUS
  <2>1. y \in rows /\ x \in rows
    BY DEF Oldest
  <2>2. position[x] <= position[y]
    BY <2>1
  <2>3. Cardinality(Below(x)) <= Cardinality(Below(y))
    BY <1>3, <2>1, <2>2
  <2> QED BY <1>2, <1>4, <2>1, <2>3
<1> QED BY <1>7, <1>8

\* A number that is 0 or the position of a row.
Read(n) == n = 0 \/ \E x \in Stored : position[x] = n

Mine(d) == {x \in Stored : x[2] = d}

Token(d) ==
    /\ Read(since[d])
    /\ \A x \in delivered \cup received : x[2] = d => x \in Stored /\ position[x] <= since[d]
    /\ \A x \in Mine(d) : position[x] <= since[d] => x \in received \cup late

InFlight(d) ==
    /\ \A x \in sync[d].found : x \in Mine(d) /\ position[x] > since[d]
    /\ sync[d].at \in {"mark", "top"} =>
          \A x \in Mine(d) \ (received \cup late \cup sync[d].found) :
              /\ sync[d].found # {}
              /\ \A y \in sync[d].found : position[y] < position[x]
    /\ sync[d].at = "respond" =>
          /\ Read(sync[d].next) /\ since[d] <= sync[d].next
          /\ \A x \in sync[d].found : position[x] <= sync[d].next
          /\ \A x \in Mine(d) : position[x] <= sync[d].next => x \in received \cup late \cup sync[d].found

TokenInv == \A d \in Device : Token(d) /\ InFlight(d)

\* What the proofs use of the types.
LEMMA Shapes ==
    ASSUME TypeInv
    PROVE  /\ position \in [Row -> Nat] /\ counter \in Nat
           /\ \A x \in Row : x[2] \in Device
           /\ Stored \subseteq Row /\ delivered \subseteq Stored /\ received \subseteq Row
           /\ \A x \in Stored : position[x] \in Nat
           /\ \A d \in Device : /\ since[d] \in Nat /\ sync[d] \in Syncing
                                /\ sync[d].found \subseteq Stored /\ sync[d].next \in Nat
  BY DEF TypeInv, TypeOK, SyncOK, Syncing, Stored, Row

\* A step of device d: only its own token and answer change.
LEMMA TokenSyncStep ==
    ASSUME TypeInv, TokenInv, NEW d \in Device,
           UNCHANGED <<position, late>>,
           \A e \in Device \ {d} : since'[e] = since[e] /\ sync'[e] = sync[e],
           \A x \in (delivered \cup received)' \ (delivered \cup received) : x[2] = d,
           received \subseteq received',
           Token(d)', InFlight(d)'
    PROVE  TokenInv'
<1> SUFFICES ASSUME NEW e \in Device, e # d PROVE Token(e)' /\ InFlight(e)'
  BY DEF TokenInv
<1>1. Token(e) /\ InFlight(e) /\ since'[e] = since[e] /\ sync'[e] = sync[e]
  BY DEF TokenInv
<1>2. Stored' = Stored /\ Mine(e)' = Mine(e)
  BY DEF Stored, Mine
<1>3. Token(e)'
  BY <1>1, <1>2 DEF Token, Read
<1>4. InFlight(e)'
  BY <1>1, <1>2 DEF InFlight, Read
<1> QED BY <1>3, <1>4

\* A step that stores no row and changes no device.
LEMMA TokenIdle ==
    ASSUME TokenInv, UNCHANGED <<position, delivered, since, sync, received, late>>
    PROVE  TokenInv'
  BY DEF TokenInv, Token, InFlight, Mine, Read, Stored

LEMMA TokenInsert ==
    ASSUME TypeInv, PositionInv, TokenInv, NEW w \in Worker, Insert(w)
    PROVE  TokenInv'
<1>1. PICK s \in Send, d \in Device, pos \in 1..counter :
          /\ s = worker[w].send /\ d = worker[w].device /\ pos = worker[w].pos
          /\ \/ UNCHANGED <<position, late>>
             \/ /\ ~Known(s, d)
                /\ position' = [position EXCEPT ![<<s, d>>] = pos]
                /\ late' = IF Late(s, d, pos) THEN late \cup {<<s, d>>} ELSE late
  BY InsertRow
<1>2. UNCHANGED <<delivered, since, sync, received>>
  BY DEF Insert
<1>3. CASE UNCHANGED <<position, late>>
  BY <1>2, <1>3, TokenIdle
<1>4. CASE /\ ~Known(s, d)
           /\ position' = [position EXCEPT ![<<s, d>>] = pos]
           /\ late' = IF Late(s, d, pos) THEN late \cup {<<s, d>>} ELSE late
  <2> DEFINE new == <<s, d>>
  <2>1. new \in Row /\ new[2] = d /\ new \notin Stored /\ pos > 0 /\ pos \in Nat
    <3>1. ~ position[new] > 0
      BY <1>4 DEF Known
    <3> QED BY <3>1, Shapes DEF Row, Stored
  <2>2. \A y \in Row : position'[y] = IF y = new THEN pos ELSE position[y]
    BY <1>4, <2>1, Shapes
  <2>3. late \subseteq late' /\ (Late(s, d, pos) => new \in late')
    BY <1>4
  <2> HIDE DEF new
  <2>4. Stored' = Stored \cup {new} /\ \A y \in Stored : position'[y] = position[y]
    BY <2>1, <2>2 DEF Stored
  <2>5. \A n \in Nat : Read(n) => Read(n)' /\ (pos <= n => Late(s, d, pos))
    <3> SUFFICES ASSUME NEW n \in Nat, Read(n) PROVE Read(n)' /\ (pos <= n => Late(s, d, pos))
      OBVIOUS
    <3>1. Read(n)'
      BY <2>4 DEF Read
    <3>2. \A y \in Stored : position[y] # pos
      BY <1>1 DEF PositionInv, Holds, Insert
    <3>3. ASSUME pos <= n PROVE \E y \in Stored : position[y] > pos
      BY <2>1, <3>2, <3>3, Shapes DEF Read
    <3> QED BY <3>1, <3>3 DEF Late
  <2>6. ASSUME NEW e \in Device PROVE Token(e)' /\ InFlight(e)'
    <3>1. Token(e) /\ InFlight(e) /\ since'[e] = since[e] /\ sync'[e] = sync[e]
      BY <1>2, <2>6 DEF TokenInv
    <3>2. Mine(e)' = IF e = d THEN Mine(e) \cup {new} ELSE Mine(e)
      BY <2>1, <2>4 DEF Mine
    <3>3. Mine(e) \subseteq Stored /\ sync[e].found \subseteq Mine(e)
      BY <3>1 DEF Mine, InFlight
    <3>4. Read(since[e])' /\ (pos <= since[e] => Late(s, d, pos))
      BY <2>5, <3>1, Shapes DEF Token
    <3>5. Token(e)'
      BY <1>2, <2>2, <2>3, <2>4, <3>1, <3>2, <3>3, <3>4, <2>1 DEF Token
    <3>6. \A x \in sync[e].found : x \in Mine(e)' /\ position'[x] > since[e]
      BY <2>4, <3>1, <3>2, <3>3 DEF InFlight
    <3> DEFINE found == sync[e].found
               seen == received \cup late \cup found
               seenNow == received \cup late' \cup found
    <3>a. seen \subseteq seenNow
      BY <2>3
    <3>b. \A y \in Mine(e) : position'[y] = position[y]
      BY <2>4, <3>3
    <3>7. CASE sync[e].at \in {"mark", "top"}
      <4>1. e = d => new \in seenNow
        BY <2>3, <3>7 DEF Late
      <4>2. \A x \in Mine(e) \ seen : found # {} /\ \A y \in found : position[y] < position[x]
        BY <3>1, <3>7 DEF InFlight
      <4>3. \A x \in Mine(e)' \ seenNow : found # {} /\ \A y \in found : position'[y] < position'[x]
        BY <3>2, <3>3, <3>a, <3>b, <4>1, <4>2
      <4>4. found = sync'[e].found /\ seenNow = received' \cup late' \cup sync'[e].found
        BY <1>2
      <4> HIDE DEF found, seen, seenNow
      <4>5. /\ \A x \in sync'[e].found : x \in Mine(e)' /\ position'[x] > since'[e]
            /\ \A x \in Mine(e)' \ (received' \cup late' \cup sync'[e].found) :
                  /\ sync'[e].found # {}
                  /\ \A y \in sync'[e].found : position'[y] < position'[x]
        BY <3>1, <3>6, <4>3, <4>4 DEF found
      <4> QED BY <3>1, <3>5, <3>7, <4>5 DEF InFlight
    <3>8. CASE sync[e].at = "respond"
      <4>1. Read(sync[e].next)' /\ (pos <= sync[e].next => Late(s, d, pos))
        BY <2>5, <3>1, <3>8, Shapes DEF InFlight
      <4>2. \A x \in Mine(e)' : position'[x] <= sync[e].next => x \in seenNow
        BY <2>1, <2>2, <2>3, <3>1, <3>2, <3>3, <3>8, <3>a, <3>b, <4>1 DEF InFlight
      <4>3. /\ Read(sync[e].next)' /\ since[e] <= sync[e].next
            /\ \A x \in found : position'[x] <= sync[e].next
        BY <3>1, <3>3, <3>8, <3>b, <4>1 DEF InFlight
      <4> QED BY <1>2, <3>1, <3>5, <3>6, <3>8, <4>2, <4>3 DEF InFlight
    <3>9. CASE sync[e].at = "idle"
      BY <1>2, <3>1, <3>5, <3>6, <3>9 DEF InFlight
    <3> QED BY <3>1, <3>5, <3>7, <3>8, <3>9, Shapes DEF Syncing
  <2> QED BY <2>6 DEF TokenInv
<1> QED BY <1>1, <1>3, <1>4

LEMMA TokenStep == TypeInv /\ TypeInv' /\ PositionInv /\ TokenInv /\ [Next]_vars => TokenInv'
<1> SUFFICES ASSUME TypeInv, TypeInv', PositionInv, TokenInv, [Next]_vars PROVE TokenInv'
  OBVIOUS
<1>1. CASE UNCHANGED vars
  BY <1>1, TokenIdle DEF vars, tables
<1>2. ASSUME NEW w \in Worker, NEW s \in Send, Begin(w, s) PROVE TokenInv'
  BY <1>2, TokenIdle DEF Begin, tables
<1>3. ASSUME NEW w \in Worker, Insert(w) PROVE TokenInv'
  BY <1>3, TokenInsert
<1>4. ASSUME NEW w \in Worker, Number(w) \/ EduFails(w) \/ Queue(w) \/ Answer(w) \/ Stop(w)
      PROVE  TokenInv'
  BY <1>4, TokenIdle DEF Number, EduFails, Queue, Answer, Stop, tables
<1>5. ASSUME NEW s \in Send, AnswerAgain(s) PROVE TokenInv'
  BY <1>5, TokenIdle DEF AnswerAgain, tables
<1>6. ASSUME NEW d \in Device, Load(d) PROVE TokenInv'
  <2> DEFINE found == Oldest(Waiting(d))
  <2>1. /\ UNCHANGED <<position, delivered, since, received, late>>
        /\ sync'[d] = [at |-> "mark", found |-> found, next |-> 0]
        /\ \A e \in Device \ {d} : sync'[e] = sync[e]
    BY <1>6 DEF Load, tables, TypeInv, TypeOK
  <2>2. Token(d)
    BY DEF TokenInv
  <2>3. Stored' = Stored /\ Mine(d)' = Mine(d)
    BY <2>1 DEF Stored, Mine
  <2>4. Token(d)'
    BY <2>1, <2>2, <2>3 DEF Token, Read
  <2>5. Waiting(d) \in SUBSET Row /\ found \subseteq Waiting(d)
    BY DEF Waiting, Stored, Oldest
  <2>6. \A x \in Mine(d) \ (received \cup late) : x \in Waiting(d)
    BY <2>2, Shapes DEF Token, Waiting, Mine
  <2>7. \A x \in Waiting(d) \ found : found # {} /\ \A y \in found : position[y] < position[x]
    BY <2>5, OldestComeFirst, Shapes
  <2>8. \A x \in found : x \in Mine(d) /\ position[x] > since[d]
    BY <2>5 DEF Waiting, Mine
  <2> HIDE DEF found
  <2>9. InFlight(d)'
    BY <2>1, <2>3, <2>6, <2>7, <2>8 DEF InFlight
  <2> QED BY <2>1, <2>4, <2>9, TokenSyncStep
<1>7. ASSUME NEW d \in Device, Mark(d) PROVE TokenInv'
  <2>1. /\ UNCHANGED <<position, since, received, late>>
        /\ delivered' = delivered \cup {x \in Stored : x[2] = d /\ position[x] <= since[d]}
        /\ sync[d].at = "mark" /\ sync'[d].at = "top"
        /\ sync'[d].found = sync[d].found /\ sync'[d].next = sync[d].next
        /\ \A e \in Device \ {d} : sync'[e] = sync[e]
    BY <1>7, Shapes DEF Mark, TypeInv, TypeOK, Syncing
  <2>2. Token(d) /\ InFlight(d)
    BY DEF TokenInv
  <2>3. Stored' = Stored /\ Mine(d)' = Mine(d)
    BY <2>1 DEF Stored, Mine
  <2>4. Token(d)'
    BY <2>1, <2>2, <2>3 DEF Token, Read
  <2>5. InFlight(d)'
    BY <2>1, <2>2, <2>3 DEF InFlight
  <2> QED BY <2>1, <2>4, <2>5, TokenSyncStep
<1>8. ASSUME NEW d \in Device, ReadTop(d) PROVE TokenInv'
  <2>1. PICK next \in 0..MaxPosition + 1 :
          /\ NextBatch(d, next)
          /\ sync' = [sync EXCEPT ![d] = [at |-> "respond", found |-> sync[d].found, next |-> next]]
    BY <1>8 DEF ReadTop
  <2> DEFINE found == sync[d].found
  <2>2. /\ UNCHANGED <<position, delivered, since, received, late>>
        /\ sync[d].at = "top"
        /\ sync'[d] = [at |-> "respond", found |-> found, next |-> next]
        /\ \A e \in Device \ {d} : sync'[e] = sync[e]
    BY <1>8, <2>1 DEF ReadTop, tables, TypeInv, TypeOK
  <2>3. Token(d) /\ InFlight(d)
    BY DEF TokenInv
  <2>4. Stored' = Stored /\ Mine(d)' = Mine(d)
    BY <2>2 DEF Stored, Mine
  <2>5. Token(d)'
    BY <2>2, <2>3, <2>4 DEF Token, Read
  <2>6. /\ found \subseteq Mine(d) /\ Mine(d) \subseteq Stored
        /\ \A x \in found : position[x] > since[d]
        /\ \A x \in Mine(d) \ (received \cup late \cup found) :
              found # {} /\ \A y \in found : position[y] < position[x]
    BY <2>2, <2>3 DEF InFlight, Mine
  <2> HIDE DEF found
  <2>7. /\ Read(next) /\ since[d] <= next
        /\ \A x \in found : position[x] <= next
        /\ \A x \in Mine(d) : position[x] <= next => x \in received \cup late \cup found
    <3>1. CASE found # {}
      <4>1. PICK top \in found : next = position[top] /\ \A x \in found : position[x] <= next
        BY <2>1, <3>1 DEF NextBatch, Top, found
      <4>2. top \in Stored /\ position[top] \in Nat /\ since[d] \in Nat
        BY <2>6, Shapes
      <4>3. Read(next) /\ since[d] <= next
        BY <2>6, <4>1, <4>2 DEF Read
      <4>4. \A x \in Mine(d) : position[x] \in Nat
        BY <2>6, Shapes
      <4> QED BY <2>6, <4>1, <4>2, <4>3, <4>4
    <3>2. CASE found = {} /\ Stored # {}
      <4>1. next \in {position[x] : x \in Stored} \cup {0} /\ \A x \in Stored : position[x] <= next
        BY <2>1, <3>2 DEF NextBatch, HighestStored, Top, found
      <4>2. Read(next)
        BY <4>1 DEF Read
      <4>3. since[d] <= next
        BY <2>1, <2>3, <4>1, Shapes DEF Token, Read
      <4> QED BY <2>6, <3>2, <4>2, <4>3
    <3>3. CASE found = {} /\ Stored = {}
      BY <2>1, <2>3, <2>6, <3>3, Shapes DEF NextBatch, Token, found
    <3> QED BY <3>1, <3>2, <3>3
  <2>8. InFlight(d)'
    BY <2>2, <2>4, <2>6, <2>7 DEF InFlight, Read
  <2> QED BY <2>2, <2>5, <2>8, TokenSyncStep
<1>9. ASSUME NEW d \in Device, Respond(d) PROVE TokenInv'
  <2>1. /\ UNCHANGED <<position, delivered, late>>
        /\ sync[d].at = "respond"
        /\ received' = received \cup sync[d].found /\ since'[d] = sync[d].next
        /\ sync'[d] = NoSync
        /\ \A e \in Device \ {d} : sync'[e] = sync[e] /\ since'[e] = since[e]
    BY <1>9 DEF Respond, tables, TypeInv, TypeOK
  <2>2. Token(d) /\ InFlight(d)
    BY DEF TokenInv
  <2>3. Stored' = Stored /\ Mine(d)' = Mine(d)
    BY <2>1 DEF Stored, Mine
  <2>4. \A x \in sync[d].found : x \in Stored /\ x[2] = d
    BY <2>2 DEF InFlight, Mine
  <2>5. \A x \in delivered \cup received : x[2] = d => x \in Stored /\ position[x] <= sync[d].next
    BY <2>1, <2>2, Shapes DEF Token, InFlight
  <2>6. Token(d)'
    BY <2>1, <2>2, <2>3, <2>4, <2>5 DEF Token, InFlight, Read
  <2>7. InFlight(d)'
    BY <2>1 DEF InFlight, NoSync
  <2> QED BY <2>1, <2>4, <2>6, <2>7, TokenSyncStep
<1>10. ASSUME NEW d \in Device, StartOver(d) PROVE TokenInv'
  <2>1. /\ UNCHANGED <<position, delivered, since, received, late>>
        /\ sync'[d] = NoSync /\ \A e \in Device \ {d} : sync'[e] = sync[e]
    BY <1>10 DEF StartOver, tables, TypeInv, TypeOK
  <2>2. Token(d)'
    BY <2>1 DEF TokenInv, Token, Mine, Read, Stored
  <2>3. InFlight(d)'
    BY <2>1 DEF InFlight, NoSync
  <2> QED BY <2>1, <2>2, <2>3, TokenSyncStep
<1> QED BY StepCases, <1>1, <1>2, <1>3, <1>4, <1>5, <1>6, <1>7, <1>8, <1>9, <1>10

LEMMA Tokens == Spec => []TokenInv
<1>1. Init => TokenInv
  BY DEF Init, TokenInv, Token, InFlight, Mine, Read, Stored, NoSync
<1> QED BY <1>1, TokenStep, Typed, Positioned, PTL DEF Spec

(* A token never passes a message that the device was not given, unless the *)
(* message was stored late; it rests on positions that differ and on the    *)
(* order of the three statements (loadToDeviceMessagesBatch).               *)
THEOREM TokenPassesNothing == Spec => []PassedIsReceived
<1>1. TypeInv /\ TokenInv => PassedIsReceived
  BY Shapes DEF TokenInv, Token, Mine, PassedIsReceived
<1> QED BY <1>1, Tokens, Typed, PTL

(* No answer gives a device a message that an earlier answer gave it, in    *)
(* every interleaving of repeated sends, lost answers and repeated polls    *)
(* (insertToDeviceMessage, loadToDeviceMessagesBatch).                      *)
THEOREM NothingGivenTwice == Spec => ReceivedOnce
<1>1. TypeInv /\ TokenInv /\ [Next]_vars =>
          [\A d \in Device : Respond(d) => sync[d].found \cap received = {}]_vars
  <2> SUFFICES ASSUME TypeInv, TokenInv, NEW d \in Device
               PROVE  sync[d].found \cap received = {}
    OBVIOUS
  <2>1. Token(d) /\ InFlight(d)
    BY DEF TokenInv
  <2> QED BY <2>1, Shapes DEF Token, InFlight, Mine
<1> QED BY <1>1, Tokens, Typed, PTL DEF Spec, ReceivedOnce

-----------------------------------------------------------------------------
(* Refinement: a row stored in time is submitted to the channel, an answer  *)
(* that arrives receives, and marking rows as delivered rebooks.            *)

\* A step that stores, gives and marks nothing.
LEMMA ChannelStutters ==
    ASSUME UNCHANGED <<position, delivered, received, late>>
    PROVE  UNCHANGED Channel!vars
  BY DEF Channel!vars, Punctual, Stored

\* The rows of each device.
Shared(rows) == [d \in Device |-> {x \in rows : x[2] = d}]

LEMMA OneMore ==
    ASSUME NEW rows, NEW d \in Device, NEW x, x[2] = d
    PROVE  Shared(rows \cup {x}) = [Shared(rows) EXCEPT ![d] = Shared(rows)[d] \cup {x}]
<1>1. \A e \in Device :
          {y \in rows \cup {x} : y[2] = e} = IF e = d THEN {y \in rows : y[2] = d} \cup {x}
                                                      ELSE {y \in rows : y[2] = e}
  OBVIOUS
<1> QED BY <1>1 DEF Shared

LEMMA NothingConfused == ASSUME NEW d \in Device PROVE Channel!MayConfuse(d)
<1> DEFINE doubtful == [e \in Device |-> {}]
<1>1. doubtful = [doubtful EXCEPT ![d] = @ \cup {}]
  OBVIOUS
<1> QED BY <1>1 DEF Channel!MayConfuse

LEMMA ChannelSubmits ==
    ASSUME TypeInv, TokenInv, NEW w \in Worker, Insert(w)
    PROVE  [Channel!Next]_Channel!vars
<1> DEFINE s == worker[w].send
           d == worker[w].device
           pos == worker[w].pos
           x == <<s, d>>
<1>1. /\ s \in Send /\ d \in Device /\ pos \in 1..counter
      /\ \/ Known(s, d) /\ UNCHANGED <<position, late>>
         \/ /\ ~Known(s, d)
            /\ position' = [position EXCEPT ![x] = pos]
            /\ late' = IF Late(s, d, pos) THEN late \cup {x} ELSE late
  BY InsertRow
<1>2. UNCHANGED <<delivered, received>>
  BY DEF Insert
<1>3. CASE Known(s, d)
  BY <1>1, <1>2, <1>3, ChannelStutters
<1>4. CASE ~Known(s, d)
  <2>1. x \in Row /\ x[2] = d /\ counter \in Nat /\ position \in [Row -> Nat]
    BY <1>1, Shapes DEF Row
  <2>2. x \notin Stored
    BY <1>1, <1>4, <2>1 DEF Known, Stored
  <2>3. x \notin delivered /\ x \notin received
    <3>1. Token(d)
      BY <1>1 DEF TokenInv
    <3> QED BY <2>1, <2>2, <3>1 DEF Token
  <2>4. Stored' = Stored \cup {x}
    <3>1. \A y \in Row : position'[y] = IF y = x THEN pos ELSE position[y]
      BY <1>1, <1>4, <2>1
    <3>2. pos > 0
      BY <1>1, <2>1
    <3> HIDE DEF x, pos
    <3> QED BY <2>1, <3>1, <3>2 DEF Stored
  <2>5. late' = late \/ late' = late \cup {x}
    BY <1>1, <1>4
  <2> HIDE DEF x, s, d, pos
  <2>6. Punctual(received)' = Punctual(received)
    BY <1>2, <2>3, <2>5 DEF Punctual
  <2>7. CASE x \in late'
    <3>1. Stored' \ late' = Stored \ late /\ (Stored \ delivered)' \ late' = (Stored \ delivered) \ late
      BY <1>2, <2>2, <2>4, <2>5, <2>7
    <3>2. Punctual(Stored)' = Punctual(Stored) /\ Punctual(Stored \ delivered)' = Punctual(Stored \ delivered)
      BY <3>1 DEF Punctual
    <3> QED BY <2>6, <3>2 DEF Channel!vars
  <2>8. CASE x \notin late'
    <3>1. late' = late /\ x \notin late
      BY <2>5, <2>8
    <3>2. /\ d \in Device
          /\ Stored' \ late' = (Stored \ late) \cup {x}
          /\ (Stored \ delivered)' \ late' = ((Stored \ delivered) \ late) \cup {x}
      BY <1>1, <1>2, <2>3, <2>4, <3>1 DEF d
    <3>3. PICK dev \in Device, row \in Row : dev = d /\ row = x /\ row[2] = dev
      BY <2>1, <3>2
    <3>4. Punctual(Stored)' = [Punctual(Stored) EXCEPT ![dev] = @ \cup {row}]
      <4>1. PICK rows : rows = Stored \ late
        OBVIOUS
      <4>2. Punctual(Stored) = Shared(rows) /\ Punctual(Stored)' = Shared(rows \cup {row})
        BY <3>2, <3>3, <4>1 DEF Punctual, Shared
      <4>3. Shared(rows \cup {row}) = [Shared(rows) EXCEPT ![dev] = Shared(rows)[dev] \cup {row}]
        BY <3>3, OneMore
      <4> QED BY <4>2, <4>3
    <3>5. Punctual(Stored \ delivered)' = [Punctual(Stored \ delivered) EXCEPT ![dev] = @ \cup {row}]
      <4>1. PICK rows : rows = (Stored \ delivered) \ late
        OBVIOUS
      <4>2. /\ Punctual(Stored \ delivered) = Shared(rows)
            /\ Punctual(Stored \ delivered)' = Shared(rows \cup {row})
        BY <3>2, <3>3, <4>1 DEF Punctual, Shared
      <4>3. Shared(rows \cup {row}) = [Shared(rows) EXCEPT ![dev] = Shared(rows)[dev] \cup {row}]
        BY <3>3, OneMore
      <4> QED BY <4>2, <4>3
    <3>6. Channel!Submit(dev, row)
      BY <2>6, <3>4, <3>5, NothingConfused DEF Channel!Submit
    <3> QED BY <3>3, <3>6 DEF Channel!Next
  <2> QED BY <2>7, <2>8
<1> QED BY <1>3, <1>4

\* What is marked as delivered is at or below the token, and so was received.
LEMMA ChannelRebooks ==
    ASSUME TypeInv, TokenInv, NEW d \in Device, Mark(d)
    PROVE  [Channel!Next]_Channel!vars
<1> DEFINE held == Punctual(Stored \ delivered)'[d]
<1>1. /\ delivered' = delivered \cup {x \in Stored : x[2] = d /\ position[x] <= since[d]}
      /\ UNCHANGED <<position, received, late>>
  BY DEF Mark
<1>2. Stored' = Stored /\ Punctual(Stored)' = Punctual(Stored) /\ Punctual(received)' = Punctual(received)
  BY <1>1 DEF Punctual, Stored
<1>3. held = {x \in (Stored \ delivered') \ late : x[2] = d}
  BY <1>1, <1>2 DEF Punctual
<1>4. Punctual(Stored \ delivered)' = [Punctual(Stored \ delivered) EXCEPT ![d] = held]
  <2>1. ASSUME NEW e \in Device, e # d
        PROVE  {x \in (Stored \ delivered') \ late : x[2] = e} = {x \in (Stored \ delivered) \ late : x[2] = e}
    BY <1>1, <2>1
  <2> QED BY <1>1, <1>2, <1>3, <2>1 DEF Punctual
<1>5. held \subseteq Punctual(Stored)[d] /\ held \in SUBSET Row
  BY <1>3, Shapes DEF Punctual
<1>6. Punctual(Stored)[d] \ Punctual(received)[d] \subseteq held
  <2> SUFFICES ASSUME NEW x \in Stored \ late, x[2] = d, x \notin received
               PROVE  x \in held
    BY DEF Punctual
  <2>1. Token(d) /\ x \in Mine(d)
    BY DEF TokenInv, Mine
  <2>2. x \notin delivered'
    BY <1>1, <2>1 DEF Token
  <2> QED BY <1>3, <2>2
<1> HIDE DEF held
<1>7. Channel!Rebook(d, held)
  BY <1>2, <1>4, <1>5, <1>6 DEF Channel!Rebook
<1> QED BY <1>5, <1>7 DEF Channel!Next

LEMMA ChannelReceives ==
    ASSUME TypeInv, TokenInv, NEW d \in Device, Respond(d)
    PROVE  [Channel!Next]_Channel!vars
<1> DEFINE items == sync[d].found \ late
<1>1. received' = received \cup sync[d].found /\ UNCHANGED <<position, delivered, late>>
  BY DEF Respond, tables
<1>2. \A x \in sync[d].found : x \in Stored /\ x[2] = d
  BY DEF TokenInv, InFlight, Mine
<1>3. items \subseteq Punctual(Stored)[d] /\ items \in SUBSET Row
  BY <1>2, Shapes DEF Punctual
<1>4. Punctual(received)' = [Punctual(received) EXCEPT ![d] = @ \cup items]
  BY <1>1, <1>2 DEF Punctual
<1>5. Punctual(Stored)' = Punctual(Stored) /\ Punctual(Stored \ delivered)' = Punctual(Stored \ delivered)
  BY <1>1 DEF Punctual, Stored
<1> HIDE DEF items
<1>6. Channel!Receive(d, items)
  BY <1>3, <1>4, <1>5 DEF Channel!Receive
<1> QED BY <1>3, <1>6 DEF Channel!Next

(* The table of to-device messages implements the at-least-once channel     *)
(* between its senders and each device, but for the rows stored late: what  *)
(* is marked as delivered was received, and nothing else is taken back      *)
(* (insertToDeviceMessage, loadToDeviceMessagesBatch).                      *)
THEOREM TableIsChannel == Spec => AtLeastOnceDelivery
<1>1. Init => Channel!Init
  BY DEF Init, Channel!Init, Punctual, Stored
<1>2. TypeInv /\ TokenInv /\ [Next]_vars => [Channel!Next]_Channel!vars
  <2> SUFFICES ASSUME TypeInv, TokenInv, [Next]_vars PROVE [Channel!Next]_Channel!vars
    OBVIOUS
  <2>1. ASSUME NEW w \in Worker, Insert(w) PROVE [Channel!Next]_Channel!vars
    BY <2>1, ChannelSubmits
  <2>2. ASSUME NEW d \in Device, Mark(d) \/ Respond(d) PROVE [Channel!Next]_Channel!vars
    BY <2>2, ChannelRebooks, ChannelReceives
  <2>3. ASSUME UNCHANGED <<position, delivered, received, late>> PROVE [Channel!Next]_Channel!vars
    BY <2>3, ChannelStutters
  <2>4. ASSUME NEW w \in Worker, NEW s \in Send, Begin(w, s)
        PROVE  UNCHANGED <<position, delivered, received, late>>
    BY <2>4 DEF Begin, tables
  <2>5. ASSUME NEW w \in Worker, Number(w) \/ EduFails(w) \/ Queue(w) \/ Answer(w) \/ Stop(w)
        PROVE  UNCHANGED <<position, delivered, received, late>>
    BY <2>5 DEF Number, EduFails, Queue, Answer, Stop, tables
  <2>6. ASSUME NEW s \in Send, AnswerAgain(s)
        PROVE  UNCHANGED <<position, delivered, received, late>>
    BY <2>6 DEF AnswerAgain, tables
  <2>7. ASSUME NEW d \in Device, Load(d) \/ ReadTop(d) \/ StartOver(d)
        PROVE  UNCHANGED <<position, delivered, received, late>>
    BY <2>7 DEF Load, ReadTop, StartOver, tables
  <2>8. CASE UNCHANGED vars
    BY <2>3, <2>8 DEF vars, tables
  <2> QED BY StepCases, <2>1, <2>2, <2>3, <2>4, <2>5, <2>6, <2>7, <2>8
<1> QED BY <1>1, <1>2, Typed, Tokens, PTL DEF Spec, AtLeastOnceDelivery, Channel!Spec

=============================================================================
