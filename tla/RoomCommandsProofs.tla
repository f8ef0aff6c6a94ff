------------------------- MODULE RoomCommandsProofs -------------------------
(***************************************************************************)
(* Theorems about RoomCommands, for any users, power levels, requests and  *)
(* any number of concurrent workers.                                       *)
(***************************************************************************)
EXTENDS RoomCommands, SequenceTheorems, TLAPS

(* What a worker's place says of its request, beside n events.               *)
Sound(h, n) ==
    /\ h.at # "idle" => h.q \in Request
    /\ h.at \in {"lookup", "put"} => h.q.kind = "send"
    /\ h.at \in {"point", "row", "repoint", "answer"} => h.q.kind \in MemberKind
    /\ h.at \in {"idle", "lookup", "authorize", "build", "store"} => h.event = 0
    /\ h.at \in {"point", "row", "repoint", "put"} => h.event \in 1..n
    /\ h.event \in 0..n
    /\ h.at = "store" => h.prev \in 0..n /\ h.built \in 0..n

AllSound == \A w \in Worker : Sound(worker[w], Len(log))

TypeInv == TypeOK /\ AllSound

LEMMA AskedMembership == \A k \in MemberKind : Asked[k] \in Memberships
  BY DEF MemberKind, Asked, Memberships

LEMMA SubjectType == \A q \in Request : Subject(q) \in Subjects
  BY Constants DEF Subject, Subjects, Command

LEMMA TypeInit == Init => TypeInv
  BY DEF Init, TypeInv, TypeOK, AllSound, Sound, Idle, Handling, Place, StateEntry, Memberships, Busy,
         Subjects

LEMMA AppendGrows ==
    ASSUME NEW S, NEW s \in Seq(S), NEW e \in S
    PROVE  /\ Append(s, e) \in Seq(S) /\ Len(Append(s, e)) = Len(s) + 1
           /\ Append(s, e)[Len(s) + 1] = e
           /\ \A i \in 1..Len(s) : Append(s, e)[i] = s[i]
  BY AppendProperties

LEMMA DepthType == log \in Seq(Event) => \A n \in 0..Len(log) : Depth(n) \in Nat
  <1> SUFFICES ASSUME log \in Seq(Event), NEW n \in 0..Len(log) PROVE Depth(n) \in Nat
    OBVIOUS
  <1>1. CASE n = 0
    BY <1>1 DEF Depth
  <1>2. CASE n # 0
    <2>1. log[n] \in Event
      BY <1>2, ElementOfSeq, n \in 1..Len(log)
    <2> QED BY <2>1, <1>2 DEF Depth, Event
  <1> QED BY <1>1, <1>2

LEMMA IdleType == Idle \in Handling /\ Idle.at = "idle" /\ Idle.event = 0
  BY DEF Idle, Handling, Place

\* A step of worker w leaves the others alone.
Only(w, h) == /\ worker' \in [Worker -> Handling] /\ worker'[w] = h
              /\ \A v \in Worker : v # w => worker'[v] = worker[v]

Moved(h, place) == [at |-> place, q |-> h.q, prev |-> h.prev, built |-> h.built,
                    event |-> h.event]

LEMMA SetWorker ==
    ASSUME worker \in [Worker -> Handling], NEW w \in Worker, NEW h \in Handling,
           worker' = [worker EXCEPT ![w] = h]
    PROVE  Only(w, h)
  BY DEF Only

LEMMA FinishOnly ==
    ASSUME worker \in [Worker -> Handling], NEW w \in Worker, Finish(w)
    PROVE  Only(w, Idle)
  BY IdleType, SetWorker DEF Finish

LEMMA GoToOnly ==
    ASSUME worker \in [Worker -> Handling], NEW w \in Worker, NEW place \in Place,
           GoTo(w, place)
    PROVE  Only(w, Moved(worker[w], place))
  <1>1. worker[w] \in Handling
    OBVIOUS
  <1>2. Moved(worker[w], place) \in Handling
    BY <1>1 DEF Moved, Handling
  <1>3. [worker[w] EXCEPT !.at = place] = Moved(worker[w], place)
    BY <1>1 DEF Moved, Handling
  <1>4. worker' = [worker EXCEPT ![w] = Moved(worker[w], place)]
    BY <1>3 DEF GoTo
  <1> QED BY <1>2, <1>4, SetWorker

LEMMA SoundKept ==
    ASSUME AllSound, NEW w \in Worker, NEW h, Only(w, h), Sound(h, Len(log')),
           Len(log) \in Nat, Len(log') \in Nat, Len(log) <= Len(log')
    PROVE  AllSound'
  <1> SUFFICES ASSUME NEW v \in Worker PROVE Sound(worker'[v], Len(log'))
    BY DEF AllSound
  <1>1. CASE v = w
    BY <1>1 DEF Only
  <1>2. CASE v # w
    <2>1. worker'[v] = worker[v] /\ Sound(worker[v], Len(log))
      BY <1>2 DEF Only, AllSound
    <2> QED BY <2>1 DEF Sound
  <1> QED BY <1>1, <1>2

\* The workers keep their types, and so do the histories of answers.
LEMMA TypeKept ==
    ASSUME TypeInv, NEW w \in Worker, NEW h, Only(w, h), Sound(h, Len(log)),
           UNCHANGED log, row' \in [User -> Memberships \cup {"none"}],
           state' \in [User -> StateEntry], transaction' \in [Subjects -> 0..Len(log)],
           told' \subseteq Subjects \X (1..Len(log)), overlapped' \subseteq Subjects,
           lost' \subseteq 1..Len(log)
    PROVE  TypeInv'
  <1>1. Len(log) \in Nat
    BY LenProperties DEF TypeInv, TypeOK
  <1>2. AllSound'
    BY <1>1, SoundKept DEF TypeInv
  <1>3. \A v \in Worker : Busy(v)' => worker'[v].q \in Request
    BY <1>2 DEF AllSound, Sound, Busy
  <1> QED BY <1>2, <1>3 DEF TypeInv, TypeOK, Only

LEMMA IdleSound == \A n \in Nat : Sound(Idle, n)
  BY DEF Idle, Sound

\* The statements that only look, or give up.
LEMMA TypeLook ==
    ASSUME TypeInv, NEW w \in Worker,
           LookUp(w) \/ Authorize(w) \/ RefuseInvite(w) \/ Answer(w) \/ Stop(w)
    PROVE  TypeInv'
  <1>0. Len(log) \in Nat /\ worker \in [Worker -> Handling] /\ Sound(worker[w], Len(log))
    BY LenProperties DEF TypeInv, TypeOK, AllSound
  <1>1. UNCHANGED tables /\ UNCHANGED overlapped
    BY DEF LookUp, Authorize, RefuseInvite, Answer, Stop
  <1>2. told' \subseteq Subjects \X (1..Len(log)) /\ lost' \subseteq 1..Len(log)
    <2>1. CASE LookUp(w)
      <3>1. Subject(worker[w].q) \in Subjects
        BY <2>1, <1>0, SubjectType DEF LookUp, At, Sound
      <3> QED BY <2>1, <3>1, <1>0 DEF LookUp, TypeInv, TypeOK
    <2>2. CASE Stop(w)
      BY <2>2, <1>0 DEF Stop, TypeInv, TypeOK, At, Sound
    <2> QED BY <2>1, <2>2 DEF Authorize, RefuseInvite, Answer, TypeInv, TypeOK
  <1>3. CASE Finish(w)
    BY <1>0, <1>1, <1>2, <1>3, FinishOnly, IdleSound, TypeKept DEF tables, TypeInv, TypeOK
  <1>4. ASSUME NEW place \in {"authorize", "build"}, GoTo(w, place), worker[w].at # "idle",
               worker[w].event = 0
        PROVE  TypeInv'
    <2>1. Only(w, Moved(worker[w], place))
      BY <1>0, <1>4, GoToOnly DEF Place
    <2>2. Sound(Moved(worker[w], place), Len(log))
      BY <1>0, <1>4 DEF Sound, Moved
    <2> QED BY <1>1, <1>2, <2>1, <2>2, TypeKept DEF tables, TypeInv, TypeOK
  <1> QED BY <1>0, <1>3, <1>4 DEF LookUp, Authorize, RefuseInvite, Answer, Stop, At, Sound

LEMMA TypeReceive ==
    ASSUME TypeInv, NEW w \in Worker, NEW q \in Request, Receive(w, q)
    PROVE  TypeInv'
  <1>0. Len(log) \in Nat /\ worker \in [Worker -> Handling]
    BY LenProperties DEF TypeInv, TypeOK
  <1> DEFINE h == [at |-> IF q.kind = "send" THEN "lookup" ELSE "authorize",
                   q |-> q, prev |-> 0, built |-> 0, event |-> 0]
  <1>1. h \in Handling /\ Sound(h, Len(log))
    BY <1>0 DEF Handling, Place, Sound
  <1>2. Only(w, h)
    BY <1>0, <1>1, SetWorker DEF Receive
  <1>3. overlapped' \subseteq Subjects
    BY SubjectType DEF Receive, TypeInv, TypeOK
  <1> HIDE DEF h
  <1> QED BY <1>1, <1>2, <1>3, TypeKept DEF Receive, tables, TypeInv, TypeOK

LEMMA TypeBuild ==
    ASSUME TypeInv, NEW w \in Worker, Build(w)
    PROVE  TypeInv'
  <1>0. Len(log) \in Nat /\ worker \in [Worker -> Handling] /\ Sound(worker[w], Len(log))
    BY LenProperties DEF TypeInv, TypeOK, AllSound
  <1>1. UNCHANGED <<tables, told, overlapped, lost>> /\ worker[w].q \in Request
        /\ worker[w].event = 0
    BY <1>0 DEF Build, At, Sound
  <1>2. CASE Finish(w)
    BY <1>0, <1>1, <1>2, FinishOnly, IdleSound, TypeKept DEF tables, TypeInv, TypeOK
  <1>3. CASE NothingToDo(worker[w].q) /\ GoTo(w, "answer")
    <2>1. Only(w, Moved(worker[w], "answer"))
      BY <1>0, <1>3, GoToOnly DEF Place
    <2>2. worker[w].q.kind \in MemberKind
      BY <1>3 DEF NothingToDo, MemberKind, Asked
    <2>3. Sound(Moved(worker[w], "answer"), Len(log))
      BY <1>0, <1>1, <2>2 DEF Sound, Moved
    <2> QED BY <1>1, <2>1, <2>3, TypeKept DEF tables, TypeInv, TypeOK
  <1>4. ASSUME NEW n \in 0..Len(log),
               worker' = [worker EXCEPT ![w] = [at |-> "store", q |-> worker[w].q, prev |-> n,
                                                built |-> Len(log), event |-> 0]]
        PROVE  TypeInv'
    <2> DEFINE h == [at |-> "store", q |-> worker[w].q, prev |-> n, built |-> Len(log),
                     event |-> 0]
    <2>1. h \in Handling /\ Sound(h, Len(log))
      BY <1>0, <1>1 DEF Handling, Place, Sound
    <2>2. Only(w, h)
      BY <1>0, <1>4, <2>1, SetWorker
    <2> HIDE DEF h
    <2> QED BY <1>1, <2>1, <2>2, TypeKept DEF tables, TypeInv, TypeOK
  <1> QED BY <1>2, <1>3, <1>4 DEF Build

LEMMA TypeStore ==
    ASSUME TypeInv, NEW w \in Worker, Store(w)
    PROVE  TypeInv'
  <1> DEFINE me == worker[w]
             e == [subject |-> Subject(me.q), prev |-> me.prev,
                   depth |-> Depth(me.prev) + 1, built |-> me.built]
             h == [at |-> IF me.q.kind = "send" THEN "put" ELSE "point", q |-> me.q,
                   prev |-> me.prev, built |-> me.built, event |-> Len(log) + 1]
  <1>0. /\ Len(log) \in Nat /\ log \in Seq(Event) /\ worker \in [Worker -> Handling]
        /\ Sound(me, Len(log)) /\ me \in Handling /\ me.at = "store"
    BY LenProperties DEF TypeInv, TypeOK, AllSound, Store, At
  <1>1. e \in Event
    BY <1>0, SubjectType, DepthType DEF Sound, Event, Handling
  <1>2. log' = Append(log, e) /\ worker' = [worker EXCEPT ![w] = h]
    BY DEF Store
  <1>3. log' \in Seq(Event) /\ Len(log') = Len(log) + 1
    BY <1>0, <1>1, <1>2, AppendGrows
  <1>4. me.q.kind \in MemberKind \cup {"send"}
    BY <1>0, Constants DEF Sound, Command
  <1>5. h \in Handling /\ Sound(h, Len(log'))
    BY <1>0, <1>3, <1>4 DEF Handling, Place, Sound
  <1>6. Only(w, h)
    BY <1>0, <1>2, <1>5, SetWorker
  <1> HIDE DEF h, e, me
  <1>7. AllSound'
    BY <1>0, <1>3, <1>5, <1>6, SoundKept DEF TypeInv
  <1>8. \A v \in Worker : Busy(v)' => worker'[v].q \in Request
    BY <1>7 DEF AllSound, Sound, Busy
  <1> QED BY <1>0, <1>3, <1>6, <1>7, <1>8 DEF Store, TypeInv, TypeOK, Only

LEMMA TypeMembership ==
    ASSUME TypeInv, NEW w \in Worker, Point(w) \/ UpdateMembership(w) \/ Repoint(w)
    PROVE  TypeInv'
  <1>0. /\ Len(log) \in Nat /\ worker \in [Worker -> Handling] /\ Sound(worker[w], Len(log))
        /\ worker[w].at \in {"point", "row", "repoint"}
    BY LenProperties DEF TypeInv, TypeOK, AllSound, Point, UpdateMembership, Repoint, At
  <1>1. /\ worker[w].q.target \in User /\ worker[w].q.actor \in User
        /\ Asked[worker[w].q.kind] \in Memberships
    BY <1>0, Constants, AskedMembership DEF Sound, Command
  <1>2. state' \in [User -> StateEntry] /\ row' \in [User -> Memberships \cup {"none"}]
    BY <1>1 DEF Point, UpdateMembership, Repoint, SetState, StateEntry, TypeInv, TypeOK
  <1>3. PICK place \in {"row", "repoint", "answer"} : GoTo(w, place)
    BY DEF Point, UpdateMembership, Repoint
  <1>4. Only(w, Moved(worker[w], place))
    BY <1>0, <1>3, GoToOnly DEF Place
  <1>5. Sound(Moved(worker[w], place), Len(log))
    BY <1>0 DEF Sound, Moved
  <1>6. UNCHANGED <<log, transaction, told, overlapped, lost>>
    BY DEF Point, UpdateMembership, Repoint
  <1> QED BY <1>2, <1>4, <1>5, <1>6, TypeKept DEF TypeInv, TypeOK

LEMMA TypePut ==
    ASSUME TypeInv, NEW w \in Worker, Put(w)
    PROVE  TypeInv'
  <1>0. /\ Len(log) \in Nat /\ worker \in [Worker -> Handling] /\ Sound(worker[w], Len(log))
        /\ worker[w].at = "put"
    BY LenProperties DEF TypeInv, TypeOK, AllSound, Put, At
  <1>1. Subject(worker[w].q) \in Subjects /\ worker[w].event \in 1..Len(log)
    BY <1>0, SubjectType DEF Sound
  <1>2. /\ transaction' \in [Subjects -> 0..Len(log)]
        /\ told' \subseteq Subjects \X (1..Len(log))
    BY <1>0, <1>1 DEF Put, TypeInv, TypeOK
  <1>3. Only(w, Idle)
    BY <1>0, FinishOnly DEF Put
  <1> QED BY <1>0, <1>2, <1>3, IdleSound, TypeKept DEF Put, TypeInv, TypeOK

LEMMA TypeStep == TypeInv /\ [Next]_vars => TypeInv'
  <1>1. ASSUME TypeInv, UNCHANGED vars PROVE TypeInv'
    BY <1>1 DEF vars, tables, TypeInv, TypeOK, AllSound, Busy
  <1>2. ASSUME TypeInv, NEW w \in Worker, Pipeline(w) PROVE TypeInv'
    BY <1>2, TypeLook, TypeBuild, TypeStore, TypeMembership, TypePut
       DEF Pipeline, Membership
  <1> QED BY <1>1, <1>2, TypeReceive DEF Next

(* Tables, requests and histories have their types (RoomCommands!TypeOK).   *)
THEOREM TypeCorrect == Spec => []TypeInv
  BY TypeInit, TypeStep, PTL DEF Spec

-----------------------------------------------------------------------------
(* The graph of events.                                                     *)

LatestAmong(n, k) ==
    \A m \in 0..k : Depth(m) < Depth(n) \/ (Depth(m) = Depth(n) /\ m <= n)

\* n follows the event that was the latest of the first k.
Follows(n, k) == k \in 0..Len(log) /\ n \in 0..k /\ LatestAmong(n, k)

InOrder(n) == /\ Follows(log[n].prev, log[n].built) /\ log[n].built < n
              /\ log[n].depth = Depth(log[n].prev) + 1

Ready(h) == h.at = "store" => Follows(h.prev, h.built)

Ordered == /\ \A n \in 1..Len(log) : InOrder(n)
           /\ \A w \in Worker : Ready(worker[w])

LEMMA FollowsKept ==
    ASSUME NEW n, NEW k, Follows(n, k), Len(log) \in Nat, Len(log') \in Nat,
           Len(log) <= Len(log'), \A m \in 0..Len(log) : Depth(m)' = Depth(m)
    PROVE  Follows(n, k)'
  BY DEF Follows, LatestAmong

\* Every step but Store leaves the events, and a worker comes to Store by
\* Build.
LEMMA NoEvent ==
    ASSUME TypeInv, NEW w \in Worker,
           \/ \E q \in Request : Receive(w, q)
           \/ LookUp(w) \/ Authorize(w) \/ Build(w) \/ RefuseInvite(w) \/ Membership(w)
           \/ Put(w) \/ Stop(w)
    PROVE  /\ UNCHANGED log
           /\ \A v \in Worker : worker'[v] = worker[v] \/ Ready(worker'[v])
  <1>0. worker \in [Worker -> Handling] /\ Len(log) \in Nat
    BY LenProperties DEF TypeInv, TypeOK
  <1>1. UNCHANGED log
    BY DEF Receive, LookUp, Authorize, Build, RefuseInvite, Membership, Point,
           UpdateMembership, Repoint, Answer, Put, Stop, tables
  <1>2. CASE Finish(w)
    BY <1>0, <1>1, <1>2, FinishOnly, IdleType DEF Only, Ready
  <1>3. ASSUME NEW place \in Place \ {"store"}, GoTo(w, place)
        PROVE  \A v \in Worker : worker'[v] = worker[v] \/ Ready(worker'[v])
    <2>1. Only(w, Moved(worker[w], place))
      BY <1>0, <1>3, GoToOnly
    <2>2. Ready(Moved(worker[w], place))
      BY <1>3 DEF Ready, Moved
    <2> QED BY <2>1, <2>2 DEF Only
  <1>4. ASSUME NEW q \in Request, Receive(w, q)
        PROVE  \A v \in Worker : worker'[v] = worker[v] \/ Ready(worker'[v])
    BY <1>0, <1>4 DEF Receive, Ready
  <1>5. ASSUME NEW n \in 0..Len(log), IsLatest(n),
               worker' = [worker EXCEPT ![w] = [at |-> "store", q |-> worker[w].q, prev |-> n,
                                                built |-> Len(log), event |-> 0]]
        PROVE  \A v \in Worker : worker'[v] = worker[v] \/ Ready(worker'[v])
    <2>1. Follows(n, Len(log))
      BY <1>0, <1>5 DEF Follows, LatestAmong, IsLatest
    <2> QED BY <1>0, <1>5, <2>1 DEF Ready
  <1>6. CASE Build(w)
    <2>1. CASE GoTo(w, "answer")
      <3>1. "answer" \in Place \ {"store"}
        BY DEF Place
      <3> QED BY <1>1, <1>3, <2>1, <3>1
    <2>2. CASE \E n \in 0..Len(log) : IsLatest(n) /\ worker' =
                 [worker EXCEPT ![w] = [at |-> "store", q |-> worker[w].q, prev |-> n,
                                        built |-> Len(log), event |-> 0]]
      BY <1>1, <1>5, <2>2
    <2> QED BY <1>1, <1>2, <1>6, <2>1, <2>2 DEF Build
  <1>7. CASE Finish(w) \/ \E place \in Place \ {"store"} : GoTo(w, place)
    BY <1>1, <1>2, <1>3, <1>7
  <1>8. CASE LookUp(w) \/ Authorize(w) \/ RefuseInvite(w) \/ Membership(w) \/ Put(w) \/ Stop(w)
    <2>1. {"authorize", "build", "row", "repoint", "answer"} \subseteq Place \ {"store"}
      BY DEF Place
    <2>2. \/ Finish(w) \/ GoTo(w, "authorize") \/ GoTo(w, "build") \/ GoTo(w, "row")
          \/ GoTo(w, "repoint") \/ GoTo(w, "answer")
      BY <1>8 DEF LookUp, Authorize, RefuseInvite, Membership, Point, UpdateMembership,
                  Repoint, Answer, Put, Stop
    <2> QED BY <1>7, <2>1, <2>2
  <1> QED BY <1>1, <1>4, <1>6, <1>8

LEMMA OrderedInit == Init => Ordered
  BY IdleType DEF Init, Ordered, Ready

\* The event that Store appends, and what is there beside it.
LEMMA Stored ==
    ASSUME TypeInv, NEW w \in Worker, Store(w)
    PROVE  LET e == [subject |-> Subject(worker[w].q), prev |-> worker[w].prev,
                     depth |-> Depth(worker[w].prev) + 1, built |-> worker[w].built]
           IN /\ e \in Event /\ Len(log') = Len(log) + 1 /\ log'[Len(log) + 1] = e
              /\ \A n \in 1..Len(log) : log'[n] = log[n]
              /\ \A n \in 0..Len(log) : Depth(n)' = Depth(n)
  <1> DEFINE e == [subject |-> Subject(worker[w].q), prev |-> worker[w].prev,
                   depth |-> Depth(worker[w].prev) + 1, built |-> worker[w].built]
  <1>0. /\ Len(log) \in Nat /\ log \in Seq(Event) /\ worker \in [Worker -> Handling]
        /\ Sound(worker[w], Len(log)) /\ worker[w].at = "store"
    BY LenProperties DEF TypeInv, TypeOK, AllSound, Store, At
  <1>1. e \in Event
    BY <1>0, SubjectType, DepthType DEF Sound, Event, Handling
  <1>2. log' = Append(log, e)
    BY DEF Store
  <1> HIDE DEF e
  <1>3. /\ Len(log') = Len(log) + 1 /\ log'[Len(log) + 1] = e
        /\ \A n \in 1..Len(log) : log'[n] = log[n]
    BY <1>0, <1>1, <1>2, AppendGrows
  <1>4. \A n \in 0..Len(log) : Depth(n)' = Depth(n)
    BY <1>0, <1>3 DEF Depth
  <1> QED BY <1>1, <1>3, <1>4 DEF e

LEMMA OrderedStep == TypeInv /\ Ordered /\ [Next]_vars => Ordered'
  <1> SUFFICES ASSUME TypeInv, Ordered, [Next]_vars PROVE Ordered'
    OBVIOUS
  <1>0. Len(log) \in Nat /\ worker \in [Worker -> Handling]
    BY LenProperties DEF TypeInv, TypeOK
  <1>1. ASSUME UNCHANGED log,
               \A v \in Worker : worker'[v] = worker[v] \/ Ready(worker'[v])
        PROVE  Ordered'
    <2>1. \A n : Depth(n)' = Depth(n)
      BY <1>1 DEF Depth
    <2>2. \A n, k : Follows(n, k) => Follows(n, k)'
      BY <1>0, <1>1, <2>1, FollowsKept
    <2>3. \A n \in 1..Len(log') : InOrder(n)'
      BY <1>1, <2>1, <2>2 DEF Ordered, InOrder
    <2>4. \A v \in Worker : Ready(worker[v])'
      BY <1>1, <2>2 DEF Ordered, Ready
    <2> QED BY <2>3, <2>4 DEF Ordered
  <1>2. ASSUME NEW w \in Worker, Store(w) PROVE Ordered'
    <2>1. PICK e \in Event :
             /\ e.prev = worker[w].prev /\ e.built = worker[w].built
             /\ e.depth = Depth(worker[w].prev) + 1
             /\ Len(log') = Len(log) + 1 /\ log'[Len(log) + 1] = e
             /\ \A n \in 1..Len(log) : log'[n] = log[n]
             /\ \A n \in 0..Len(log) : Depth(n)' = Depth(n)
      BY <1>2, Stored
    <2>2. \A n, k : Follows(n, k) => Follows(n, k)'
      BY <1>0, <2>1, FollowsKept
    <2>3. Follows(e.prev, e.built)
      BY <1>2, <2>1 DEF Store, Ordered, Ready, At
    <2>4. \A v \in Worker : worker'[v].at = "store" => worker'[v] = worker[v]
      BY <1>0, <1>2 DEF Store
    <2>5. \A v \in Worker : Ready(worker[v])'
      BY <2>2, <2>4 DEF Ordered, Ready
    <2>6. ASSUME NEW n \in 1..Len(log') PROVE InOrder(n)'
      <3>1. CASE n = Len(log) + 1
        <4>1. log'[n] = e /\ e.built \in 0..Len(log) /\ e.prev \in 0..Len(log)
          BY <1>0, <2>1, <2>3, <3>1 DEF Follows
        <4>2. Follows(e.prev, e.built)' /\ Depth(e.prev)' = Depth(e.prev)
          BY <2>1, <2>2, <2>3, <4>1
        <4>3. e.built < n /\ e.depth = Depth(e.prev)'  + 1
          BY <1>0, <2>1, <3>1, <4>1, <4>2
        <4> QED BY <4>1, <4>2, <4>3 DEF InOrder
      <3>2. CASE n # Len(log) + 1
        <4>1. n \in 1..Len(log) /\ log'[n] = log[n]
          BY <1>0, <2>1, <3>2
        <4>2. InOrder(n)
          BY <4>1 DEF Ordered
        <4>3. PICK d : d = log[n]
          OBVIOUS
        <4>4. Depth(d.prev)' = Depth(d.prev) /\ Follows(d.prev, d.built)'
          BY <1>0, <2>1, <2>2, <4>2, <4>3 DEF Follows, InOrder
        <4> QED BY <4>1, <4>2, <4>3, <4>4 DEF InOrder
      <3> QED BY <3>1, <3>2
    <2> QED BY <2>5, <2>6 DEF Ordered
  <1>3. CASE UNCHANGED vars
    BY <1>1, <1>3 DEF vars, tables
  <1> QED BY <1>1, <1>2, <1>3, NoEvent DEF Next, Pipeline

LEMMA OrderedForks == TypeInv /\ Ordered => ForksOverlap
  <1> SUFFICES ASSUME TypeInv, Ordered, NEW m \in 1..Len(log), NEW n \in 1..Len(log),
                      m < n, log[m].prev = log[n].prev
               PROVE  log[n].built < m
    BY DEF ForksOverlap
  <1>0. Len(log) \in Nat /\ log \in Seq(Event)
    BY LenProperties DEF TypeInv, TypeOK
  <1>1. /\ Depth(m) = Depth(log[n].prev) + 1 /\ Follows(log[n].prev, log[n].built)
        /\ log[n].built \in 0..Len(log)
    BY DEF Ordered, InOrder, Follows, Depth
  <1>2. Depth(log[n].prev) \in Nat
    BY <1>0, <1>1, DepthType DEF Follows
  <1>3. SUFFICES ASSUME m <= log[n].built PROVE FALSE
    BY <1>0, <1>1
  <1>4. m \in 0..log[n].built
    BY <1>0, <1>1, <1>3
  <1> QED BY <1>1, <1>2, <1>4 DEF Follows, LatestAmong

(* Two events follow the same event only if the later was built before the  *)
(* earlier was stored (createPipelineEvent, getLatestRoomEventsByDepth).    *)
THEOREM ForksOnlyOverlap == Spec => []ForksOverlap
  BY TypeInit, TypeStep, OrderedInit, OrderedStep, OrderedForks, PTL DEF Spec

-----------------------------------------------------------------------------
(* Memberships.                                                             *)

\* Two requests on one subject are at work only if they overlapped.
Exclusive ==
    \A v, w \in Worker :
        /\ worker[v].at # "idle" /\ worker[w].at # "idle"
        /\ Subject(worker[v].q) = Subject(worker[w].q) /\ Subject(worker[v].q) \notin overlapped
        => v = w

\* What a worker that nothing overlapped has found, or made, of its target.
Found(h) ==
    /\ h.at \in {"build", "store", "point", "row", "repoint"}
          /\ h.q.kind \in MemberKind \ {"ban", "unban"} => MembershipOf(h.q.target) # "ban"
    /\ h.at = "repoint" => row[h.q.target] = Asked[h.q.kind]
    /\ h.at = "answer" => /\ MembershipOf(h.q.target) = Asked[h.q.kind]
                          /\ h.event # 0 => row[h.q.target] = state[h.q.target].membership
Findings == \A w \in Worker : Subject(worker[w].q) \notin overlapped => Found(worker[w])

LEMMA MemberSubject ==
    \A q \in Request : /\ q.kind \in MemberKind => Subject(q) = <<q.target, None>>
                       /\ q.kind \in MemberKind \cup {"send"} /\ q.target \in User
  BY Constants DEF Subject, Command, MemberKind, Asked

\* A worker that is at work has been, on the same request, or has received it.
LEMMA Continue ==
    ASSUME TypeInv, NEW w \in Worker, Pipeline(w)
    PROVE  /\ overlapped' = overlapped
           /\ \A v \in Worker : v # w => worker'[v] = worker[v]
           /\ \A v \in Worker : worker'[v].at # "idle" =>
                 worker[v].at # "idle" /\ worker'[v].q = worker[v].q
  <1>0. worker \in [Worker -> Handling]
    BY DEF TypeInv, TypeOK
  <1>1. overlapped' = overlapped /\ worker[w].at # "idle"
    BY DEF Pipeline, LookUp, Authorize, Build, RefuseInvite, Store, Membership, Point,
           UpdateMembership, Repoint, Answer, Put, Stop, At, Busy
  <1>2. CASE Finish(w)
    BY <1>0, <1>1, <1>2, FinishOnly, IdleType DEF Only
  <1>3. ASSUME NEW h, worker' = [worker EXCEPT ![w] = h], h.q = worker[w].q
        PROVE  /\ \A v \in Worker : v # w => worker'[v] = worker[v]
               /\ \A v \in Worker : worker'[v].at # "idle" =>
                     worker[v].at # "idle" /\ worker'[v].q = worker[v].q
    BY <1>0, <1>1, <1>3
  <1>4. ASSUME NEW place \in Place, GoTo(w, place)
        PROVE  /\ \A v \in Worker : v # w => worker'[v] = worker[v]
               /\ \A v \in Worker : worker'[v].at # "idle" =>
                     worker[v].at # "idle" /\ worker'[v].q = worker[v].q
    <2>1. Only(w, Moved(worker[w], place)) /\ Moved(worker[w], place).q = worker[w].q
      BY <1>0, <1>4, GoToOnly DEF Moved
    <2> QED BY <1>1, <2>1 DEF Only
  <1>5. CASE Store(w)
    BY <1>1, <1>3, <1>5 DEF Store
  <1>6. {"authorize", "build", "row", "repoint", "answer"} \subseteq Place
    BY DEF Place
  <1>7. CASE Build(w)
    <2>1. CASE \E n \in 0..Len(log) : worker' =
                 [worker EXCEPT ![w] = [at |-> "store", q |-> worker[w].q, prev |-> n,
                                        built |-> Len(log), event |-> 0]]
      BY <1>1, <1>3, <2>1
    <2>2. CASE GoTo(w, "answer")
      BY <1>1, <1>4, <1>6, <2>2
    <2> QED BY <1>1, <1>2, <1>7, <2>1, <2>2 DEF Build
  <1>8. CASE \E place \in {"authorize", "build", "row", "repoint", "answer"} : GoTo(w, place)
    BY <1>1, <1>4, <1>6, <1>8
  <1>9. CASE LookUp(w) \/ Authorize(w) \/ RefuseInvite(w) \/ Membership(w) \/ Put(w) \/ Stop(w)
    <2>1. Finish(w) \/ \E place \in {"authorize", "build", "row", "repoint", "answer"} : GoTo(w, place)
      BY <1>9 DEF LookUp, Authorize, RefuseInvite, Membership, Point, UpdateMembership, Repoint,
                  Answer, Put, Stop
    <2> QED BY <1>1, <1>2, <1>8, <2>1
  <1> QED BY <1>5, <1>7, <1>9 DEF Pipeline

LEMMA ExclusiveStep == TypeInv /\ Exclusive /\ [Next]_vars => Exclusive'
  <1> SUFFICES ASSUME TypeInv, Exclusive, [Next]_vars PROVE Exclusive'
    OBVIOUS
  <1>0. worker \in [Worker -> Handling]
    BY DEF TypeInv, TypeOK
  <1>1. ASSUME NEW w \in Worker, Pipeline(w) PROVE Exclusive'
    BY <1>1, Continue DEF Exclusive, Subject
  <1>2. ASSUME NEW w \in Worker, NEW q \in Request, Receive(w, q) PROVE Exclusive'
    <2>1. /\ worker'[w].q = q /\ \A v \in Worker : v # w => worker'[v] = worker[v]
          /\ overlapped \subseteq overlapped'
      BY <1>0, <1>2 DEF Receive
    <2>2. \A v \in Worker : v # w /\ worker[v].at # "idle" /\ Subject(worker[v].q) = Subject(q)
                               => Subject(q) \in overlapped'
      BY <1>2 DEF Receive, Busy
    <2>3. \A v \in Worker : Subject(worker[v].q)' = Subject(worker'[v].q)
      BY DEF Subject
    <2> QED BY <2>1, <2>2, <2>3 DEF Exclusive, Subject
  <1>3. CASE UNCHANGED vars
    BY <1>3 DEF vars, Exclusive, Subject
  <1> QED BY <1>1, <1>2, <1>3 DEF Next

\* Who writes a user's membership, and where.
Writes(w, u) == worker[w].at \in {"point", "row", "repoint"} /\ worker[w].q.target = u

LEMMA Untouched ==
    ASSUME TypeInv, NEW w \in Worker, Pipeline(w) \/ \E q \in Request : Receive(w, q),
           NEW u \in User, ~Writes(w, u)
    PROVE  row'[u] = row[u] /\ state'[u] = state[u]
  <1>1. row \in [User -> Memberships \cup {"none"}] /\ state \in [User -> StateEntry]
    BY DEF TypeInv, TypeOK
  <1>2. CASE Point(w) \/ UpdateMembership(w) \/ Repoint(w)
    BY <1>1, <1>2 DEF Point, UpdateMembership, Repoint, SetState, Writes, At
  <1>3. CASE UNCHANGED <<row, state>>
    BY <1>3
  <1> QED BY <1>2, <1>3 DEF Pipeline, Receive, LookUp, Authorize, Build, RefuseInvite, Store,
              Membership, Answer, Put, Stop, tables

LEMMA FoundKept ==
    ASSUME NEW h, Found(h), UNCHANGED <<row[h.q.target], state[h.q.target]>>
    PROVE  Found(h)'
  BY DEF Found, MembershipOf

\* The findings of the others stand.
LEMMA OthersFound ==
    ASSUME TypeInv, Exclusive, Findings, NEW w \in Worker,
           Pipeline(w) \/ \E q \in Request : Receive(w, q),
           NEW v \in Worker, v # w, worker'[v] = worker[v], overlapped \subseteq overlapped',
           Subject(worker[v].q) \notin overlapped'
    PROVE  Found(worker[v])'
  <1>0. Found(worker[v]) /\ Sound(worker[v], Len(log)) /\ Sound(worker[w], Len(log))
    BY DEF Findings, TypeInv, AllSound
  <1>1. CASE worker[v].at # "idle" /\ worker[v].q.kind \in MemberKind
    <2>1. worker[v].q.target \in User /\ Subject(worker[v].q) = <<worker[v].q.target, None>>
      BY <1>0, <1>1, MemberSubject DEF Sound
    <2>2. ~Writes(w, worker[v].q.target)
      <3> SUFFICES ASSUME Writes(w, worker[v].q.target) PROVE FALSE
        OBVIOUS
      <3>1. Subject(worker[w].q) = <<worker[w].q.target, None>> /\ worker[w].at # "idle"
        BY <1>0, MemberSubject DEF Sound, Writes
      <3> QED BY <1>1, <2>1, <3>1 DEF Exclusive, Writes
    <2>3. UNCHANGED <<row[worker[v].q.target], state[worker[v].q.target]>>
      BY <2>1, <2>2, Untouched
    <2>4. PICK h : h = worker[v]
      OBVIOUS
    <2>5. Found(h)'
      BY <1>0, <2>3, <2>4, FoundKept
    <2> QED BY <2>4, <2>5 DEF Found
  <1>2. CASE ~(worker[v].at # "idle" /\ worker[v].q.kind \in MemberKind)
    BY <1>0, <1>2 DEF Found, Sound
  <1> QED BY <1>1, <1>2

LEMMA AuthorizedFound ==
    \A q \in Request : Authorized(q) /\ q.kind \in MemberKind \ {"ban", "unban"}
                         => MembershipOf(q.target) # "ban"
  BY DEF Authorized, MayJoin, MayKnock, MayLeave, MayInvite, MayKick, MemberKind, Asked

\* The statements that write nothing about members: w goes to h.
LEMMA LookFound ==
    ASSUME NEW w \in Worker, NEW h, UNCHANGED <<row, state>>, Only(w, h), Found(h)
    PROVE  Found(worker[w])'
  BY DEF Found, MembershipOf, Only

LEMMA IdleFound == Found(Idle)
  BY DEF Found, Idle

\* The step's own worker.
LEMMA OwnLook ==
    ASSUME TypeInv, NEW w \in Worker, Found(worker[w]),
           LookUp(w) \/ Authorize(w) \/ RefuseInvite(w) \/ Answer(w) \/ Put(w) \/ Stop(w)
    PROVE  Found(worker[w])'
  <1>0. worker \in [Worker -> Handling] /\ Sound(worker[w], Len(log))
    BY DEF TypeInv, TypeOK, AllSound
  <1>1. UNCHANGED <<row, state>>
    BY DEF LookUp, Authorize, RefuseInvite, Answer, Put, Stop, tables
  <1>2. CASE Finish(w)
    BY <1>0, <1>1, <1>2, FinishOnly, IdleFound, LookFound
  <1>3. CASE LookUp(w) /\ GoTo(w, "authorize")
    <2>1. Only(w, Moved(worker[w], "authorize"))
      BY <1>0, <1>3, GoToOnly DEF Place
    <2>2. Found(Moved(worker[w], "authorize"))
      BY DEF Found, Moved
    <2> QED BY <1>1, <2>1, <2>2, LookFound
  <1>4. CASE Authorize(w) /\ Authorized(worker[w].q) /\ GoTo(w, "build")
    <2>1. Only(w, Moved(worker[w], "build"))
      BY <1>0, <1>4, GoToOnly DEF Place
    <2>2. Found(Moved(worker[w], "build"))
      BY <1>0, <1>4, AuthorizedFound DEF Found, Moved, Sound, Authorize, At
    <2> QED BY <1>1, <2>1, <2>2, LookFound
  <1> QED BY <1>2, <1>3, <1>4 DEF LookUp, Authorize, RefuseInvite, Answer, Put, Stop

LEMMA OwnBuild ==
    ASSUME TypeInv, NEW w \in Worker, Found(worker[w]), Build(w)
    PROVE  Found(worker[w])'
  <1>0. /\ worker \in [Worker -> Handling] /\ Sound(worker[w], Len(log))
        /\ worker[w].at = "build" /\ UNCHANGED <<row, state>> /\ Len(log) \in Nat
    BY LenProperties DEF TypeInv, TypeOK, AllSound, Build, At, tables
  <1>1. CASE Finish(w)
    BY <1>0, <1>1, FinishOnly, IdleFound, LookFound
  <1>2. CASE NothingToDo(worker[w].q) /\ GoTo(w, "answer")
    <2>1. Only(w, Moved(worker[w], "answer"))
      BY <1>0, <1>2, GoToOnly DEF Place
    <2>2. Found(Moved(worker[w], "answer"))
      BY <1>0, <1>2 DEF Found, Moved, NothingToDo, Sound
    <2> QED BY <1>0, <2>1, <2>2, LookFound
  <1>3. ASSUME NEW n \in 0..Len(log),
               worker' = [worker EXCEPT ![w] = [at |-> "store", q |-> worker[w].q, prev |-> n,
                                                built |-> Len(log), event |-> 0]]
        PROVE  Found(worker[w])'
    <2> DEFINE h == [at |-> "store", q |-> worker[w].q, prev |-> n, built |-> Len(log),
                     event |-> 0]
    <2>1. h \in Handling /\ Found(h)
      BY <1>0 DEF Handling, Place, Sound, Found
    <2>2. Only(w, h)
      BY <1>0, <1>3, <2>1, SetWorker
    <2> HIDE DEF h
    <2> QED BY <1>0, <2>1, <2>2, LookFound
  <1> QED BY <1>1, <1>2, <1>3 DEF Build

LEMMA OwnStore ==
    ASSUME TypeInv, NEW w \in Worker, Found(worker[w]), Store(w)
    PROVE  Found(worker[w])'
  <1>0. /\ worker \in [Worker -> Handling] /\ worker[w].at = "store"
        /\ UNCHANGED <<row, state>>
    BY DEF TypeInv, TypeOK, Store, At
  <1>1. worker'[w].at \in {"put", "point"} /\ worker'[w].q = worker[w].q
    BY <1>0 DEF Store
  <1> QED BY <1>0, <1>1 DEF Found, MembershipOf

LEMMA OwnMembership ==
    ASSUME TypeInv, NEW w \in Worker, Found(worker[w]),
           Point(w) \/ UpdateMembership(w) \/ Repoint(w)
    PROVE  Found(worker[w])'
  <1> DEFINE q == worker[w].q
  <1>0. /\ worker \in [Worker -> Handling] /\ row \in [User -> Memberships \cup {"none"}]
        /\ state \in [User -> StateEntry] /\ Sound(worker[w], Len(log))
        /\ worker[w].at \in {"point", "row", "repoint"}
    BY DEF TypeInv, TypeOK, AllSound, Point, UpdateMembership, Repoint, At
  <1>1. /\ q \in Request /\ q.kind \in MemberKind /\ q.target \in User
        /\ Asked[q.kind] \in Memberships
        /\ q.kind \in MemberKind \ {"ban", "unban"} => Asked[q.kind] # "ban"
    BY <1>0, MemberSubject, AskedMembership DEF Sound, MemberKind, Asked
  <1>2. Asked[q.kind] # "none"
    BY <1>1 DEF Memberships
  <1>3. ASSUME NEW place \in {"row", "repoint", "answer"}, GoTo(w, place)
        PROVE  worker'[w].at = place /\ worker'[w].q = q /\ worker'[w].event = worker[w].event
    <2>1. Only(w, Moved(worker[w], place))
      BY <1>0, <1>3, GoToOnly DEF Place
    <2>2. /\ Moved(worker[w], place).at = place /\ Moved(worker[w], place).q = q
          /\ Moved(worker[w], place).event = worker[w].event
      BY DEF Moved
    <2> QED BY <2>1, <2>2 DEF Only
  <1>4. CASE Point(w)
    <2>1. /\ row'[q.target] = row[q.target] /\ state'[q.target].membership = Asked[q.kind]
          /\ worker'[w].at = "row" /\ worker'[w].q = q /\ worker[w].at = "point"
      BY <1>0, <1>1, <1>3, <1>4 DEF Point, SetState, At
    <2> HIDE DEF q
    <2> QED BY <1>1, <2>1 DEF Found, MembershipOf, q
  <1>5. CASE UpdateMembership(w)
    <2>1. /\ row'[q.target] = Asked[q.kind]
          /\ worker'[w].at = "repoint" /\ worker'[w].q = q
      BY <1>0, <1>1, <1>3, <1>5 DEF UpdateMembership
    <2> HIDE DEF q
    <2> QED BY <1>1, <1>2, <2>1 DEF Found, MembershipOf
  <1>6. CASE Repoint(w)
    <2>1. /\ row'[q.target] = row[q.target] /\ state'[q.target].membership = Asked[q.kind]
          /\ worker'[w].at = "answer" /\ worker'[w].q = q /\ worker[w].at = "repoint"
      BY <1>0, <1>1, <1>3, <1>6 DEF Repoint, SetState, At
    <2>2. row[q.target] = Asked[q.kind]
      BY <2>1 DEF Found
    <2> HIDE DEF q
    <2> QED BY <1>1, <1>2, <2>1, <2>2 DEF Found, MembershipOf
  <1> QED BY <1>4, <1>5, <1>6

LEMMA FindingsStep == TypeInv /\ Exclusive /\ Findings /\ [Next]_vars => Findings'
  <1> SUFFICES ASSUME TypeInv, Exclusive, Findings, [Next]_vars PROVE Findings'
    OBVIOUS
  <1>0. worker \in [Worker -> Handling]
    BY DEF TypeInv, TypeOK
  <1>1. ASSUME NEW w \in Worker, Pipeline(w),
               NEW v \in Worker, Subject(worker'[v].q) \notin overlapped'
        PROVE  Found(worker[v])'
    <2>1. CASE worker'[v].at = "idle"
      BY <2>1 DEF Found
    <2>2. CASE worker'[v].at # "idle"
      <3>1. /\ overlapped' = overlapped /\ worker'[v].q = worker[v].q
            /\ v # w => worker'[v] = worker[v]
        BY <1>1, <2>2, Continue
      <3>2. Subject(worker[v].q) \notin overlapped /\ Found(worker[v])
        BY <1>1, <3>1 DEF Findings
      <3>3. CASE v = w
        BY <1>1, <3>2, <3>3, OwnLook, OwnBuild, OwnStore, OwnMembership DEF Pipeline, Membership
      <3>4. CASE v # w
        BY <1>1, <3>1, <3>2, <3>4, OthersFound
      <3> QED BY <3>3, <3>4
    <2> QED BY <2>1, <2>2
  <1>2. ASSUME NEW w \in Worker, NEW q \in Request, Receive(w, q),
               NEW v \in Worker, Subject(worker'[v].q) \notin overlapped'
        PROVE  Found(worker[v])'
    <2>1. /\ worker'[w].at \in {"lookup", "authorize"} /\ overlapped \subseteq overlapped'
          /\ v # w => worker'[v] = worker[v]
      BY <1>0, <1>2 DEF Receive
    <2>2. CASE v = w
      BY <2>1, <2>2 DEF Found
    <2>3. CASE v # w
      BY <1>2, <2>1, <2>3, OthersFound
    <2> QED BY <2>2, <2>3
  <1>3. CASE UNCHANGED vars
    BY <1>3 DEF vars, tables, Findings, Found, MembershipOf, Subject
  <1>4. CASE Next
    BY <1>1, <1>2, <1>4 DEF Next, Findings, Subject
  <1> QED BY <1>3, <1>4

LEMMA FindingsInit == Init => Exclusive /\ Findings
  <1> SUFFICES ASSUME Init PROVE Exclusive /\ Findings
    OBVIOUS
  <1>1. \A w \in Worker : worker[w] = Idle /\ worker[w].at = "idle"
    BY IdleType DEF Init
  <1>2. Exclusive
    BY <1>1 DEF Exclusive
  <1>3. Findings
    BY <1>1, IdleFound DEF Findings
  <1> QED BY <1>2, <1>3

(* What a command is answered is in effect, in the row and in the state, if *)
(* nothing overlapped it (updateMembership, applyMembershipTransition).     *)
THEOREM AnswersInEffect == Spec => []AnsweredIsInEffect
  <1>1. TypeInv /\ Exclusive /\ Findings => AnsweredIsInEffect
    BY DEF AnsweredIsInEffect, Findings, Found, At
  <1> QED BY <1>1, TypeInit, TypeStep, ExclusiveStep, FindingsInit, FindingsStep, PTL DEF Spec

LEMMA BanStep ==
    ASSUME TypeInv, Exclusive, Findings, [Next]_vars, NEW u \in User,
           MembershipOf(u) = "ban", <<u, None>> \notin overlapped
    PROVE  MembershipOf(u)' = "ban" \/ Unbanning(u)
  <1>0. /\ row \in [User -> Memberships \cup {"none"}] /\ state \in [User -> StateEntry]
        /\ worker \in [Worker -> Handling]
    BY DEF TypeInv, TypeOK
  <1>1. CASE row'[u] = row[u] /\ state'[u] = state[u]
    BY <1>1 DEF MembershipOf
  <1>2. ASSUME NEW w \in Worker, Pipeline(w), Writes(w, u)
        PROVE  MembershipOf(u)' = "ban" \/ Unbanning(u)
    <2> DEFINE q == worker[w].q
    <2>1. q \in Request /\ q.kind \in MemberKind /\ q.target = u /\ Subject(q) = <<u, None>>
      BY <1>2, MemberSubject DEF TypeInv, AllSound, Sound, Writes
    <2>2. Found(worker[w])
      BY <2>1 DEF Findings
    <2>3. q.kind \in {"ban", "unban"}
      BY <1>2, <2>1, <2>2 DEF Found, Writes
    <2>4. CASE q.kind = "unban"
      <3>1. Asked[q.kind] = "leave"
        BY <2>4 DEF Asked
      <3>2. worker[w].at # "repoint"
        BY <2>1, <2>2, <3>1 DEF Found, MembershipOf
      <3> QED BY <1>2, <2>4, <3>2 DEF Unbanning, Writes
    <2>5. CASE q.kind = "ban"
      <3>1. Asked[q.kind] = "ban"
        BY <2>5 DEF Asked
      <3>2. Point(w) \/ UpdateMembership(w) \/ Repoint(w) \/ UNCHANGED <<row, state>>
        BY <1>2 DEF Pipeline, Membership, LookUp, Authorize, Build, RefuseInvite, Store, Answer,
                    Put, Stop, tables
      <3>3. CASE UNCHANGED <<row, state>>
        BY <3>3 DEF MembershipOf
      <3>4. CASE Point(w) \/ Repoint(w)
        <4>1. row'[u] = row[u] /\ state'[u].membership = "ban"
          BY <1>0, <2>1, <3>1, <3>4 DEF Point, Repoint, SetState
        <4> QED BY <4>1 DEF MembershipOf
      <3>5. CASE UpdateMembership(w)
        <4>1. row'[u] = "ban"
          BY <1>0, <2>1, <3>1, <3>5 DEF UpdateMembership
        <4> QED BY <4>1 DEF MembershipOf
      <3> QED BY <3>2, <3>3, <3>4, <3>5
    <2> QED BY <2>3, <2>4, <2>5
  <1>3. CASE UNCHANGED vars
    BY <1>1, <1>3 DEF vars, tables
  <1>4. CASE Next
    <2>1. PICK w \in Worker : Pipeline(w) \/ \E q \in Request : Receive(w, q)
      BY <1>4 DEF Next
    <2>2. CASE ~Writes(w, u)
      BY <1>1, <2>1, <2>2, Untouched
    <2>3. CASE Writes(w, u) /\ Pipeline(w)
      BY <1>2, <2>3
    <2>4. CASE Writes(w, u) /\ \E q \in Request : Receive(w, q)
      BY <2>4 DEF Writes, Receive, At
    <2> QED BY <2>1, <2>2, <2>3, <2>4
  <1> QED BY <1>3, <1>4

(* A ban ends by an unban only, whatever stopped halfway, if nothing        *)
(* overlapped on that user (authorizeLocalJoin, authorizeLocalInvite,       *)
(* authorizeLocalKnock, authorizeKick).                                     *)
THEOREM BansStand == Spec => BanStands
  <1>1. TypeInv /\ Exclusive /\ Findings /\ [Next]_vars =>
          [\A u \in User : MembershipOf(u) = "ban" /\ <<u, None>> \notin overlapped =>
              MembershipOf(u)' = "ban" \/ Unbanning(u)]_vars
    BY BanStep
  <1> QED BY <1>1, TypeInit, TypeStep, ExclusiveStep, FindingsInit, FindingsStep, PTL
          DEF Spec, BanStands

-----------------------------------------------------------------------------
(* Messages.                                                                *)

Putting(h, s, n) == h.at = "put" /\ Subject(h.q) = s /\ h.event = n

\* The record stands for event n of subject s, or is about to.
Kept(s, n) ==
    s \notin overlapped /\ s[2] # None /\ n \notin lost =>
        transaction[s] = n \/ \E w \in Worker : Putting(worker[w], s, n)

\* Who sends has seen no record, and nobody has made one since.
Unrecorded(h) ==
    /\ h.at \in {"authorize", "build", "store", "put"} /\ h.q.kind = "send"
    /\ Subject(h.q) \notin overlapped
    => transaction[Subject(h.q)] = 0

ToldIsRecorded == \A a \in told : a[1] \notin overlapped => transaction[a[1]] = a[2]

Recorded == /\ \A n \in 1..Len(log) : Kept(log[n].subject, n)
            /\ \A w \in Worker : Unrecorded(worker[w])
            /\ ToldIsRecorded

LEMMA RecordedInit == Init => Recorded
  BY IdleType DEF Init, Recorded, Unrecorded, ToldIsRecorded

LEMMA IdleUnrecorded == Unrecorded(Idle)
  BY IdleType DEF Unrecorded

\* The steps that neither store an event nor record a response.
LEMMA Quiet ==
    ASSUME TypeInv, Recorded, NEW w \in Worker, NEW h, Only(w, h), Unrecorded(h),
           UNCHANGED <<log, transaction>>, overlapped \subseteq overlapped', lost \subseteq lost',
           worker[w].at = "put" => worker[w].event \in lost', ToldIsRecorded'
    PROVE  Recorded'
  <1>1. ASSUME NEW n \in 1..Len(log) PROVE Kept(log[n].subject, n)'
    <2>1. PICK s : s = log[n].subject
      OBVIOUS
    <2>2. Kept(s, n)
      BY <2>1 DEF Recorded
    <2>3. ASSUME NEW v \in Worker, Putting(worker[v], s, n), n \notin lost'
          PROVE  Putting(worker'[v], s, n)
      BY <2>3 DEF Only, Putting
    <2>4. Kept(s, n)'
      <3> SUFFICES ASSUME s \notin overlapped', s[2] # None, n \notin lost'
                   PROVE  transaction'[s] = n \/ \E v \in Worker : Putting(worker[v], s, n)'
        BY DEF Kept
      <3>1. transaction[s] = n \/ \E v \in Worker : Putting(worker[v], s, n)
        BY <2>2 DEF Kept
      <3> QED BY <2>3, <3>1 DEF Putting, Subject
    <2>5. log'[n].subject = s
      BY <2>1
    <2> QED BY <2>4, <2>5 DEF Kept, Putting, Subject
  <1>2. ASSUME NEW v \in Worker PROVE Unrecorded(worker[v])'
    <2>1. PICK g : g = worker'[v] /\ Unrecorded(g)
      BY DEF Only, Recorded
    <2> QED BY <2>1 DEF Unrecorded, Subject
  <1> QED BY <1>1, <1>2 DEF Recorded

LEMMA QuietStep ==
    ASSUME TypeInv, Recorded, NEW w \in Worker,
           \/ \E q \in Request : Receive(w, q)
           \/ LookUp(w) \/ Authorize(w) \/ Build(w) \/ RefuseInvite(w) \/ Membership(w)
           \/ Stop(w)
    PROVE  Recorded'
  <1>0. /\ worker \in [Worker -> Handling] /\ Sound(worker[w], Len(log)) /\ Len(log) \in Nat
        /\ Unrecorded(worker[w])
    BY LenProperties DEF TypeInv, TypeOK, AllSound, Recorded
  <1>1. UNCHANGED <<log, transaction>>
    BY DEF Receive, LookUp, Authorize, Build, RefuseInvite, Membership, Point,
           UpdateMembership, Repoint, Answer, Stop, tables
  <1>2. overlapped \subseteq overlapped' /\ lost \subseteq lost'
    BY DEF Receive, LookUp, Authorize, Build, RefuseInvite, Membership, Point,
           UpdateMembership, Repoint, Answer, Stop
  <1>3. worker[w].at = "put" => worker[w].event \in lost'
    BY DEF Receive, LookUp, Authorize, Build, RefuseInvite, Membership, Point,
           UpdateMembership, Repoint, Answer, Stop, At
  <1>4. ToldIsRecorded'
    <2>1. CASE told' = told
      BY <1>1, <1>2, <2>1 DEF Recorded, ToldIsRecorded
    <2>2. CASE told' = told \cup {<<Subject(worker[w].q), transaction[Subject(worker[w].q)]>>}
      BY <1>1, <1>2, <2>2 DEF Recorded, ToldIsRecorded
    <2> QED BY <2>1, <2>2 DEF Receive, LookUp, Authorize, Build, RefuseInvite, Membership, Point,
               UpdateMembership, Repoint, Answer, Stop
  <1>5. CASE Finish(w)
    BY <1>0, <1>1, <1>2, <1>3, <1>4, <1>5, FinishOnly, IdleUnrecorded, Quiet
  <1>6. ASSUME NEW place \in Place, GoTo(w, place), Unrecorded(Moved(worker[w], place))
        PROVE  Recorded'
    BY <1>0, <1>1, <1>2, <1>3, <1>4, <1>6, GoToOnly, Quiet
  <1>7. CASE \E q \in Request : Receive(w, q)
    <2>1. PICK q \in Request : Receive(w, q)
      BY <1>7
    <2> DEFINE h == [at |-> IF q.kind = "send" THEN "lookup" ELSE "authorize",
                     q |-> q, prev |-> 0, built |-> 0, event |-> 0]
    <2>2. h \in Handling /\ Unrecorded(h)
      BY DEF Unrecorded, Handling, Place
    <2>3. Only(w, h)
      BY <1>0, <2>1, <2>2, SetWorker DEF Receive
    <2> HIDE DEF h
    <2> QED BY <1>0, <1>1, <1>2, <1>3, <1>4, <2>2, <2>3, Quiet
  <1>8. CASE LookUp(w) \/ Authorize(w)
    <2>1. CASE LookUp(w) /\ transaction[Subject(worker[w].q)] = 0 /\ GoTo(w, "authorize")
      <3>1. Unrecorded(Moved(worker[w], "authorize")) /\ "authorize" \in Place
        BY <2>1 DEF Unrecorded, Moved, Place
      <3> QED BY <1>6, <2>1, <3>1
    <2>2. CASE Authorize(w) /\ GoTo(w, "build")
      <3>1. Unrecorded(Moved(worker[w], "build")) /\ "build" \in Place
        BY <1>0, <2>2 DEF Unrecorded, Moved, Place, Authorize, At
      <3> QED BY <1>6, <2>2, <3>1
    <2> QED BY <1>5, <1>8, <2>1, <2>2 DEF LookUp, Authorize
  <1>9. CASE Build(w)
    <2>1. CASE GoTo(w, "answer")
      <3>1. Unrecorded(Moved(worker[w], "answer")) /\ "answer" \in Place
        BY DEF Unrecorded, Moved, Place
      <3> QED BY <1>6, <2>1, <3>1
    <2>2. ASSUME NEW n \in 0..Len(log),
                 worker' = [worker EXCEPT ![w] = [at |-> "store", q |-> worker[w].q, prev |-> n,
                                                  built |-> Len(log), event |-> 0]]
          PROVE  Recorded'
      <3> DEFINE h == [at |-> "store", q |-> worker[w].q, prev |-> n, built |-> Len(log),
                       event |-> 0]
      <3>1. h \in Handling /\ Unrecorded(h)
        BY <1>0, <1>9 DEF Handling, Place, Unrecorded, Build, At
      <3>2. Only(w, h)
        BY <1>0, <2>2, <3>1, SetWorker
      <3> HIDE DEF h
      <3> QED BY <1>0, <1>1, <1>2, <1>3, <1>4, <3>1, <3>2, Quiet
    <2> QED BY <1>5, <1>9, <2>1, <2>2 DEF Build
  <1>10. CASE Membership(w)
    <2>1. ASSUME NEW place \in {"row", "repoint", "answer"}, GoTo(w, place) PROVE Recorded'
      <3>1. Unrecorded(Moved(worker[w], place)) /\ place \in Place
        BY DEF Unrecorded, Moved, Place
      <3> QED BY <1>6, <2>1, <3>1
    <2> QED BY <1>5, <1>10, <2>1 DEF Membership, Point, UpdateMembership, Repoint, Answer
  <1> QED BY <1>5, <1>7, <1>8, <1>9, <1>10 DEF RefuseInvite, Stop

LEMMA StoreRecorded ==
    ASSUME TypeInv, Recorded, NEW w \in Worker, Store(w)
    PROVE  Recorded'
  <1> DEFINE t == Subject(worker[w].q)
  <1>0. /\ worker \in [Worker -> Handling] /\ Len(log) \in Nat /\ worker[w].at = "store"
        /\ UNCHANGED <<transaction, told, overlapped, lost>> /\ worker[w].q \in Request
    BY LenProperties DEF TypeInv, TypeOK, AllSound, Sound, Store, At
  <1>1. /\ worker'[w].at = IF worker[w].q.kind = "send" THEN "put" ELSE "point"
        /\ worker'[w].q = worker[w].q /\ worker'[w].event = Len(log) + 1
        /\ \A v \in Worker : v # w => worker'[v] = worker[v]
    BY <1>0 DEF Store
  <1>2. /\ Len(log') = Len(log) + 1 /\ log'[Len(log) + 1].subject = t
        /\ \A n \in 1..Len(log) : log'[n] = log[n]
    <2>1. PICK e \in Event : /\ e.subject = Subject(worker[w].q)
                             /\ Len(log') = Len(log) + 1 /\ log'[Len(log) + 1] = e
                             /\ \A n \in 1..Len(log) : log'[n] = log[n]
      BY Stored
    <2> QED BY <2>1
  <1>3. ASSUME NEW n \in 1..Len(log) PROVE Kept(log[n].subject, n)'
    <2>1. PICK s : s = log[n].subject /\ s = log'[n].subject
      BY <1>2
    <2>2. Kept(s, n)
      BY <2>1 DEF Recorded
    <2>3. \A v \in Worker : Putting(worker[v], s, n) => Putting(worker[v], s, n)'
      BY <1>0, <1>1 DEF Putting, Subject
    <2>4. Kept(s, n)'
      BY <1>0, <2>2, <2>3 DEF Kept
    <2> QED BY <2>1, <2>4 DEF Kept, Putting, Subject
  <1>4. ASSUME NEW n, n = Len(log) + 1 PROVE Kept(log[n].subject, n)'
    <2>1. PICK s : s = t
      OBVIOUS
    <2>2. s[2] # None => worker[w].q.kind = "send"
      BY <1>0, <2>1, Constants DEF Subject, Command
    <2>3. s[2] # None => Putting(worker[w], s, n)'
      BY <1>1, <1>4, <2>1, <2>2 DEF Putting, Subject
    <2>4. Kept(s, n)'
      BY <2>3 DEF Kept
    <2>5. log'[n].subject = s
      BY <1>2, <1>4, <2>1
    <2> QED BY <2>4, <2>5 DEF Kept, Putting, Subject
  <1>5. ASSUME NEW v \in Worker PROVE Unrecorded(worker[v])'
    <2>1. Unrecorded(worker[v])
      BY DEF Recorded
    <2> QED BY <1>0, <1>1, <2>1 DEF Unrecorded, Subject
  <1>6. ToldIsRecorded'
    BY <1>0 DEF Recorded, ToldIsRecorded
  <1>7. \A n \in 1..Len(log') : Kept(log[n].subject, n)'
    <2>1. \A n \in 1..Len(log') : n \in 1..Len(log) \/ n = Len(log) + 1
      BY <1>0, <1>2
    <2> QED BY <1>3, <1>4, <2>1
  <1> QED BY <1>5, <1>6, <1>7 DEF Recorded

LEMMA PutRecorded ==
    ASSUME TypeInv, Exclusive, Recorded, NEW w \in Worker, Put(w)
    PROVE  Recorded'
  <1>0. /\ worker \in [Worker -> Handling] /\ Sound(worker[w], Len(log)) /\ Len(log) \in Nat
        /\ worker[w].at = "put" /\ UNCHANGED <<log, overlapped, lost>>
        /\ transaction \in [Subjects -> 0..Len(log)] /\ told \subseteq Subjects \X (1..Len(log))
    BY LenProperties DEF TypeInv, TypeOK, AllSound, Put, At
  <1>1. PICK t \in Subjects : t = Subject(worker[w].q)
    BY <1>0, SubjectType DEF Sound
  <1>2. PICK e : e = worker[w].event
    OBVIOUS
  <1>3. /\ transaction'[t] = e /\ \A s \in Subjects : s # t => transaction'[s] = transaction[s]
        /\ told' = told \cup {<<t, e>>}
    BY <1>0, <1>1, <1>2 DEF Put
  <1>4. t \notin overlapped => /\ transaction[t] = 0
                              /\ \A v \in Worker : worker[v].at # "idle" /\ Subject(worker[v].q) = t
                                                     => v = w
    BY <1>0, <1>1 DEF Recorded, Unrecorded, Exclusive, Sound
  <1>5. /\ worker'[w] = Idle /\ \A v \in Worker : v # w => worker'[v] = worker[v]
    BY <1>0, FinishOnly DEF Put, Only
  <1>6. ASSUME NEW n \in 1..Len(log) PROVE Kept(log[n].subject, n)'
    <2>1. PICK s \in Subjects : s = log[n].subject /\ s = log'[n].subject
      <3>1. log[n] \in Event
        BY ElementOfSeq DEF TypeInv, TypeOK
      <3> QED BY <1>0, <3>1 DEF Event
    <2>2. SUFFICES ASSUME s \notin overlapped', s[2] # None, n \notin lost'
                   PROVE  transaction'[s] = n \/ \E v \in Worker : Putting(worker[v], s, n)'
      BY <2>1 DEF Kept, Putting, Subject
    <2>3. transaction[s] = n \/ \E v \in Worker : Putting(worker[v], s, n)
      BY <1>0, <2>1, <2>2 DEF Recorded, Kept
    <2>4. CASE s = t
      <3>1. PICK v \in Worker : Putting(worker[v], s, n)
        BY <1>0, <1>4, <2>2, <2>3, <2>4
      <3>2. v = w
        BY <1>0, <1>4, <2>2, <2>4, <3>1 DEF Putting
      <3> QED BY <1>2, <1>3, <2>4, <3>1, <3>2 DEF Putting
    <2>5. CASE s # t
      <3>1. \A v \in Worker : Putting(worker[v], s, n) => Putting(worker[v], s, n)'
        BY <1>1, <1>5, <2>5 DEF Putting, Subject
      <3> QED BY <1>3, <2>3, <2>5, <3>1
    <2> QED BY <2>4, <2>5
  <1>7. ASSUME NEW v \in Worker PROVE Unrecorded(worker[v])'
    <2>1. CASE v = w
      BY <1>5, <2>1, IdleType DEF Unrecorded
    <2>2. CASE v # w
      <3>1. Unrecorded(worker[v]) /\ worker'[v] = worker[v] /\ Sound(worker[v], Len(log))
        BY <1>5, <2>2 DEF Recorded, TypeInv, AllSound
      <3>2. PICK g : g = worker[v]
        OBVIOUS
      <3>3. SUFFICES ASSUME g.at \in {"authorize", "build", "store", "put"}, g.q.kind = "send",
                            Subject(g.q) \notin overlapped
                     PROVE  transaction'[Subject(g.q)] = 0
        BY <1>0, <3>1, <3>2 DEF Unrecorded, Subject
      <3>4. Subject(g.q) \in Subjects /\ transaction[Subject(g.q)] = 0
        BY <3>1, <3>2, <3>3, SubjectType DEF Unrecorded, Sound
      <3>5. Subject(g.q) # t
        BY <1>4, <2>2, <3>2, <3>3
      <3> QED BY <1>3, <3>4, <3>5
    <2> QED BY <2>1, <2>2
  <1>8. ToldIsRecorded'
    <2> SUFFICES ASSUME NEW a \in told', a[1] \notin overlapped' PROVE transaction'[a[1]] = a[2]
      BY DEF ToldIsRecorded
    <2>1. CASE a = <<t, e>>
      BY <1>3, <2>1
    <2>2. CASE a \in told
      <3>1. transaction[a[1]] = a[2] /\ a[1] \in Subjects /\ a[2] \in 1..Len(log)
        BY <1>0, <2>2 DEF Recorded, ToldIsRecorded
      <3>2. a[1] # t
        BY <1>0, <1>4, <3>1
      <3> QED BY <1>3, <3>1, <3>2
    <2> QED BY <1>3, <2>1, <2>2
  <1>9. \A n \in 1..Len(log') : Kept(log[n].subject, n)'
    BY <1>0, <1>6
  <1> QED BY <1>7, <1>8, <1>9 DEF Recorded

LEMMA RecordedStep == TypeInv /\ Exclusive /\ Recorded /\ [Next]_vars => Recorded'
  <1>1. ASSUME UNCHANGED vars, Recorded PROVE Recorded'
    <2>1. UNCHANGED <<log, transaction, worker, told, overlapped, lost>>
      BY <1>1 DEF vars, tables
    <2> QED BY <1>1, <2>1 DEF Recorded, Kept, Unrecorded, ToldIsRecorded, Putting, Subject
  <1> QED BY <1>1, QuietStep, StoreRecorded, PutRecorded DEF Next, Pipeline

LEMMA RecordedSentOnce == TypeInv /\ Exclusive /\ Recorded => SentOnce
  <1> SUFFICES ASSUME TypeInv, Exclusive, Recorded,
                      NEW m \in 1..Len(log), NEW n \in 1..Len(log), NEW s,
                      s = log[m].subject, s = log[n].subject, s[2] # None,
                      s \notin overlapped, m \notin lost, n \notin lost
               PROVE  m = n
    BY DEF SentOnce
  <1>0. Len(log) \in Nat
    BY LenProperties DEF TypeInv, TypeOK
  <1>1. /\ transaction[s] = m \/ \E v \in Worker : Putting(worker[v], s, m)
        /\ transaction[s] = n \/ \E v \in Worker : Putting(worker[v], s, n)
    BY DEF Recorded, Kept
  <1>2. ASSUME NEW v \in Worker, NEW k, Putting(worker[v], s, k) PROVE transaction[s] = 0
    BY <1>2 DEF Putting, Recorded, Unrecorded, TypeInv, AllSound, Sound
  <1>3. CASE transaction[s] = m /\ transaction[s] = n
    BY <1>3
  <1>4. CASE \E v \in Worker : Putting(worker[v], s, m)
    <2>1. transaction[s] = 0
      BY <1>2, <1>4
    <2>2. \E v \in Worker : Putting(worker[v], s, n)
      BY <1>0, <1>1, <2>1
    <2> QED BY <1>4, <2>2 DEF Putting, Exclusive
  <1>5. CASE \E v \in Worker : Putting(worker[v], s, n)
    <2>1. transaction[s] = 0
      BY <1>2, <1>5
    <2>2. \E v \in Worker : Putting(worker[v], s, m)
      BY <1>0, <1>1, <2>1
    <2> QED BY <1>4, <2>2
  <1> QED BY <1>1, <1>3, <1>4, <1>5

(* A message is stored once for a transaction id, but for a worker that     *)
(* stopped before it recorded the response (sendRoomEventCommand).          *)
THEOREM MessagesSentOnce == Spec => []SentOnce
  BY TypeInit, TypeStep, FindingsInit, ExclusiveStep, RecordedInit, RecordedStep,
     RecordedSentOnce, PTL DEF Spec

(* A client that repeats a request until it is answered, one at a time, is  *)
(* told the same event each time (withIdempotency).                         *)
THEOREM AnswersStayEqual == Spec => []AnswersAgree
  <1>1. TypeInv /\ Recorded => AnswersAgree
    BY DEF AnswersAgree, Recorded, ToldIsRecorded, TypeInv, TypeOK
  <1> QED BY <1>1, TypeInit, TypeStep, FindingsInit, ExclusiveStep, RecordedInit, RecordedStep,
             PTL DEF Spec

=============================================================================
