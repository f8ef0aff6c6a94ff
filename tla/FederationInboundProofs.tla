---------------------- MODULE FederationInboundProofs ----------------------
(***************************************************************************)
(* For every set of events, transactions, concurrent handlers and answers  *)
(* of the origin: the events of the room are stored after their auth       *)
(* events, the room's state and the fanout name stored events only, and    *)
(* the answer to a transaction speaks of all its events, each decided.     *)
(*                                                                         *)
(* The argument is about the transactions in progress, wherever they are   *)
(* in a handler's stack: an event that passed its checks keeps its auth    *)
(* events in the store, since rows are never deleted, until it is stored   *)
(* itself, however long its handler is held up.  That is Sound.  For the   *)
(* answers to be complete, a transaction's events have a result or are     *)
(* still to process: that is Covered.  With one handler, a transaction that *)
(* waits for a nested one has decided nothing about its event yet, and an  *)
(* event to be recorded has no record: then a decision is final.  While    *)
(* nothing stops, an accepted event is stored or about to be: Accounted.   *)
(***************************************************************************)
EXTENDS FederationInbound, SequenceTheorems, TLAPS

Elements(s) == {s[i] : i \in 1..Len(s)}

Approved(f) ==
    \/ f.at \in {"store", "state", "apply", "merge", "forward"}
    \/ f.at = "record" /\ f.verdict \in {"accept", "defer"}

\* Results the origin may be told: what has one has a decision, or cannot.
Answerable(results) ==
    \A p \in Pdu : results[p] # "none" =>
        processed[p] # "none" \/ (Undecidable(p) /\ results[p] = "error")

Sound(f) ==
    /\ f.at \notin {"begin", "prev"} =>
          f.todo # <<>> /\ Fault[Head(f.todo)] \notin {"form", "number"}
    /\ Approved(f) => Auth[Head(f.todo)] \subseteq stored
    /\ f.at \in {"state", "apply", "merge"} => Key[Head(f.todo)] # NoKey
    /\ f.at = "merge" => \A k \in StateKey : f.resolved[k] \in stored \cup {Nobody}
    /\ f.at \in {"state", "apply", "merge", "forward"} => Head(f.todo) \in stored
    /\ f.at \in {"store", "state", "apply", "merge", "forward"} => processed[Head(f.todo)] # "none"
    /\ Answerable(f.results)

TablesOK ==
    /\ processed \in [Pdu -> {"none", "accepted", "rejected"}]
    /\ stored \subseteq Pdu
    /\ state \in [StateKey -> Pdu \cup {Nobody}]
    /\ forwarded \subseteq Pdu
    /\ cached \subseteq [name : Name, results : Outcomes]

StacksOK == stacks \in [Handler -> Seq(Frame)]

AllSound == \A h \in Handler : \A f \in Elements(stacks[h]) : Sound(f)

\* What an event's number is decides, whenever it is looked at.
NumbersRejected == \A p \in Pdu : Fault[p] = "number" => processed[p] # "accepted"

InboundInv ==
    /\ TablesOK /\ StacksOK /\ AllSound
    /\ AppliedIsStored /\ AnsweredIsDecided /\ NumbersRejected

\* What every step does to the tables: rows stay.
Grows ==
    /\ stored \subseteq stored'
    /\ \A p \in Pdu : processed[p] # "none" => processed'[p] # "none"

-----------------------------------------------------------------------------
(* Sequences.                                                               *)

LEMMA ConsElements ==
  ASSUME NEW S, NEW s \in Seq(S), NEW e \in S
  PROVE  /\ <<e>> \o s \in Seq(S)
         /\ <<e>> \o s # <<>>
         /\ Elements(<<e>> \o s) \subseteq Elements(s) \cup {e}
  <1>1. <<e>> \in Seq(S) /\ Len(<<e>>) = 1 /\ <<e>>[1] = e
    OBVIOUS
  <1>2. /\ <<e>> \o s \in Seq(S) /\ Len(<<e>> \o s) = 1 + Len(s)
        /\ \A i \in 1..(1 + Len(s)) : (<<e>> \o s)[i] = IF i <= 1 THEN e ELSE s[i - 1]
    BY <1>1, ConcatProperties
  <1>3. Len(s) \in Nat
    BY LenProperties
  <1>4. ASSUME NEW i \in 1..Len(<<e>> \o s)
        PROVE  (<<e>> \o s)[i] \in Elements(s) \cup {e}
    BY <1>2, <1>3 DEF Elements
  <1>5. <<e>> \o s # <<>>
    BY <1>2, <1>3
  <1> QED BY <1>2, <1>4, <1>5 DEF Elements

LEMMA TailElements ==
  ASSUME NEW S, NEW s \in Seq(S), s # <<>>
  PROVE  /\ Head(s) \in S /\ Head(s) \in Elements(s)
         /\ Tail(s) \in Seq(S) /\ Elements(Tail(s)) \subseteq Elements(s)
  <1>1. Len(s) \in Nat \ {0}
    BY EmptySeq, LenProperties
  <1>2. Head(s) = s[1] /\ Head(s) \in S /\ Tail(s) \in Seq(S)
    BY HeadTailProperties
  <1>3. Len(Tail(s)) = Len(s) - 1 /\ \A i \in 1..Len(Tail(s)) : Tail(s)[i] = s[i + 1]
    BY HeadTailProperties
  <1>4. ASSUME NEW i \in 1..Len(Tail(s)) PROVE Tail(s)[i] \in Elements(s)
    BY <1>1, <1>3 DEF Elements
  <1> QED BY <1>1, <1>2, <1>4 DEF Elements

-----------------------------------------------------------------------------
(* Frames.                                                                  *)

LEMMA MovedFields ==
  ASSUME NEW f \in Frame, NEW place \in Places
  PROVE  /\ Moved(f, place) \in Frame
         /\ Moved(f, place).at = place
         /\ Moved(f, place).todo = f.todo
         /\ Moved(f, place).verdict = f.verdict
         /\ Moved(f, place).resolved = f.resolved
         /\ Moved(f, place).results = f.results
  BY DEF Moved, Frame

LEMMA GapFields ==
  ASSUME NEW f \in Frame, NEW gap \in {"closed", "open"}
  PROVE  /\ WithGap(f, gap) \in Frame
         /\ WithGap(f, gap).todo = f.todo
         /\ WithGap(f, gap).results = f.results
  BY DEF WithGap, Frame

LEMMA JudgedFields ==
  ASSUME NEW f \in Frame, NEW verdict \in {"none", "accept", "defer", "soft_fail", "reject"}
  PROVE  /\ Judged(f, verdict) \in Frame
         /\ Judged(f, verdict).todo = f.todo
         /\ Judged(f, verdict).verdict = verdict
         /\ Judged(f, verdict).results = f.results
  BY DEF Judged, Frame

LEMMA ResolvedFields ==
  ASSUME NEW f \in Frame, NEW part \in PartOfState
  PROVE  /\ Resolved(f, part) \in Frame
         /\ Resolved(f, part).at = f.at
         /\ Resolved(f, part).todo = f.todo
         /\ Resolved(f, part).verdict = f.verdict
         /\ Resolved(f, part).resolved = part
         /\ Resolved(f, part).results = f.results
  BY DEF Resolved, Frame

LEMMA FetchedFields ==
  ASSUME NEW f \in Frame, NEW events \in SUBSET Pdu
  PROVE  /\ [f EXCEPT !.fetched = events] \in Frame
         /\ [f EXCEPT !.fetched = events].at = f.at
         /\ [f EXCEPT !.fetched = events].todo = f.todo
         /\ [f EXCEPT !.fetched = events].verdict = f.verdict
         /\ [f EXCEPT !.fetched = events].resolved = f.resolved
         /\ [f EXCEPT !.fetched = events].results = f.results
  BY DEF Frame

LEMMA AdvancedFields ==
  ASSUME NEW f \in Frame, f.todo # <<>>, NEW results \in Outcomes
  PROVE  /\ Advanced(f, results) \in Frame
         /\ Advanced(f, results).at = "prev"
         /\ Advanced(f, results).results = results
  <1>1. f.todo \in Seq(Pdu) /\ f.name \in Name /\ f.mode \in {"live", "fill", "history"}
    BY DEF Frame
  <1>2. Tail(f.todo) \in Seq(Pdu)
    BY <1>1, HeadTailProperties
  <1>3. NoState \in PartOfState
    BY DEF NoState, PartOfState
  <1> QED BY <1>1, <1>2, <1>3 DEF Advanced, Frame, Places

LEMMA BeginFields ==
  ASSUME NEW name \in Name, NEW mode \in {"live", "fill", "history"}, NEW pdus \in Seq(Pdu)
  PROVE  /\ Begin(name, mode, pdus) \in Frame
         /\ Begin(name, mode, pdus).at = "begin"
         /\ Begin(name, mode, pdus).results = NoOutcome
  <1>1. NoOutcome \in Outcomes
    BY DEF NoOutcome, Outcomes
  <1>2. NoState \in PartOfState
    BY DEF NoState, PartOfState
  <1> QED BY <1>1, <1>2 DEF Begin, Frame, Places

LEMMA NestedName ==
  ASSUME NEW name \in Name, NEW kind \in {"missing", "auth"}, NEW p \in Pdu
  PROVE  Nested(name, kind, p) \in Name
  <1>1. name.path \in Seq({"missing", "auth"} \X Pdu) /\ name.txn \in Txn
    BY DEF Name
  <1>2. Append(name.path, <<kind, p>>) \in Seq({"missing", "auth"} \X Pdu)
    BY <1>1, AppendProperties
  <1> QED BY <1>2 DEF Nested, Name

\* Two frames that agree on what Sound looks at.
LEMMA SoundKept ==
  ASSUME NEW f, NEW g, Sound(f), g.at = f.at, g.todo = f.todo, g.verdict = f.verdict,
         g.resolved = f.resolved, g.results = f.results
  PROVE  Sound(g)
  BY DEF Sound, Approved

LEMMA AnswerableGrows ==
  ASSUME NEW results, Grows, Answerable(results)
  PROVE  Answerable(results)'
  BY DEF Answerable, Grows, Undecidable

LEMMA SoundGrows ==
  ASSUME NEW f \in Frame, Sound(f), Grows
  PROVE  Sound(f)'
  <1>1. f.todo # <<>> => Head(f.todo) \in Pdu
    <2>1. f.todo \in Seq(Pdu)
      BY DEF Frame
    <2> QED BY <2>1, HeadTailProperties
  <1>2. Approved(f)' <=> Approved(f)
    BY DEF Approved
  <1>3. Approved(f) => f.todo # <<>>
    BY DEF Sound, Approved
  <1>4. Answerable(f.results)'
    BY AnswerableGrows DEF Sound
  <1> QED BY <1>1, <1>2, <1>3, <1>4 DEF Sound, Grows

\* A frame between events, or before its checks, is sound if its results are.
LEMMA EarlySound ==
  ASSUME NEW f, f.at \in {"begin", "prev", "filled", "auth", "look", "lost", "check"},
         f.at \notin {"begin", "prev"} =>
            f.todo # <<>> /\ Fault[Head(f.todo)] \notin {"form", "number"},
         Answerable(f.results)
  PROVE  Sound(f)
  BY DEF Sound, Approved

-----------------------------------------------------------------------------
(* Stacks: what a step leaves in them is what was there, and what it adds.  *)

LEMMA CurrentFrame ==
  ASSUME StacksOK, AllSound, NEW h \in Handler, Busy(h)
  PROVE  /\ Current(h) \in Frame /\ Sound(Current(h))
         /\ Current(h).at \notin {"begin", "prev"} =>
               Current(h).todo # <<>> /\ Fault[Event(h)] \notin {"form", "number"}
         /\ Current(h).todo # <<>> => Event(h) \in Pdu
  <1>1. stacks[h] \in Seq(Frame) /\ stacks[h] # <<>>
    BY DEF StacksOK, Busy
  <1>2. Current(h) \in Frame /\ Current(h) \in Elements(stacks[h])
    BY <1>1, TailElements DEF Current
  <1>3. Sound(Current(h))
    BY <1>2 DEF AllSound
  <1>4. Current(h).todo \in Seq(Pdu)
    BY <1>2 DEF Frame
  <1>5. Current(h).todo # <<>> => Event(h) \in Pdu
    BY <1>4, HeadTailProperties DEF Event
  <1> QED BY <1>2, <1>3, <1>5 DEF Sound, Event

\* Handler h's stack becomes new, whose frames are old ones or sound ones.
LEMMA StackStep ==
  ASSUME StacksOK, AllSound, Grows, NEW h \in Handler, NEW new \in Seq(Frame),
         \A f \in Elements(new) : f \in Elements(stacks[h]) \/ Sound(f)',
         stacks' = [stacks EXCEPT ![h] = new]
  PROVE  StacksOK' /\ AllSound'
  <1>1. StacksOK'
    BY DEF StacksOK
  <1>2. ASSUME NEW g \in Handler, NEW f \in Elements(stacks[g])
        PROVE  Sound(f)'
    <2>1. f \in Frame
      BY DEF StacksOK, Elements
    <2>2. Sound(f)
      BY DEF AllSound
    <2> QED BY <2>1, <2>2, SoundGrows
  <1>3. ASSUME NEW g \in Handler, NEW f \in Elements(stacks'[g])
        PROVE  f \in Elements(stacks[g]) \/ Sound(f)'
    <2>1. stacks'[g] = IF g = h THEN new ELSE stacks[g]
      BY DEF StacksOK
    <2> QED BY <2>1
  <1>4. AllSound'
    <2> SUFFICES ASSUME NEW g \in Handler, NEW f \in Elements(stacks'[g])
                 PROVE  Sound(f)'
      BY DEF AllSound, Elements
    <2> QED BY <1>2, <1>3
  <1> QED BY <1>1, <1>4

LEMMA ContinueStep ==
  ASSUME StacksOK, AllSound, NEW h \in Handler, Busy(h), Grows,
         NEW frame \in Frame, Sound(frame)', Continue(h, frame)
  PROVE  StacksOK' /\ AllSound'
  <1>1. stacks[h] \in Seq(Frame) /\ stacks[h] # <<>>
    BY DEF StacksOK, Busy
  <1>2. /\ Tail(stacks[h]) \in Seq(Frame)
        /\ Elements(Tail(stacks[h])) \subseteq Elements(stacks[h])
    BY <1>1, TailElements
  <1>3. PICK new : new = <<frame>> \o Tail(stacks[h])
    OBVIOUS
  <1>4. new \in Seq(Frame) /\ Elements(new) \subseteq Elements(stacks[h]) \cup {frame}
    BY <1>2, <1>3, ConsElements
  <1>5. stacks' = [stacks EXCEPT ![h] = new]
    BY <1>3 DEF Continue
  <1>6. \A f \in Elements(new) : f \in Elements(stacks[h]) \/ Sound(f)'
    BY <1>4
  <1> QED BY <1>4, <1>5, <1>6, StackStep

LEMMA NestStep ==
  ASSUME StacksOK, AllSound, NEW h \in Handler, Busy(h), Grows,
         NEW frame \in Frame, Sound(frame)', NEW inner \in Frame, Sound(inner)',
         Nest(h, frame, inner)
  PROVE  StacksOK' /\ AllSound'
  <1>1. stacks[h] \in Seq(Frame) /\ stacks[h] # <<>>
    BY DEF StacksOK, Busy
  <1>2. PICK rest \in Seq(Frame) :
           rest = Tail(stacks[h]) /\ Elements(rest) \subseteq Elements(stacks[h])
    BY <1>1, TailElements
  <1>3. PICK outer \in Seq(Frame) :
           outer = <<frame>> \o rest /\ Elements(outer) \subseteq Elements(rest) \cup {frame}
    BY ConsElements
  <1>4. PICK new \in Seq(Frame) :
           new = <<inner>> \o outer /\ Elements(new) \subseteq Elements(outer) \cup {inner}
    BY ConsElements
  <1>5. new = <<inner, frame>> \o rest
    BY <1>3, <1>4
  <1>6. stacks' = [stacks EXCEPT ![h] = new]
    BY <1>2, <1>5 DEF Nest
  <1>7. \A f \in Elements(new) : f \in Elements(stacks[h]) \/ Sound(f)'
    BY <1>2, <1>3, <1>4
  <1> QED BY <1>6, <1>7, StackStep

LEMMA ReturnStep ==
  ASSUME StacksOK, AllSound, NEW h \in Handler, Busy(h), Grows, NEW results, Return(h, results)
  PROVE  StacksOK' /\ AllSound'
  <1>1. stacks[h] \in Seq(Frame) /\ stacks[h] # <<>>
    BY DEF StacksOK, Busy
  <1>2. PICK rest \in Seq(Frame) :
           rest = Tail(stacks[h]) /\ Elements(rest) \subseteq Elements(stacks[h])
    BY <1>1, TailElements
  <1>3. CASE rest = <<>>
    <2>1. stacks' = [stacks EXCEPT ![h] = <<>>]
      BY <1>2, <1>3 DEF Return
    <2>2. <<>> \in Seq(Frame) /\ Elements(<<>>) = {}
      BY DEF Elements
    <2> QED BY <2>1, <2>2, StackStep
  <1>4. CASE rest # <<>>
    <2>1. /\ Head(rest) \in Frame /\ Head(rest) \in Elements(rest)
          /\ Tail(rest) \in Seq(Frame) /\ Elements(Tail(rest)) \subseteq Elements(rest)
      BY <1>4, TailElements
    <2>2. PICK events \in SUBSET Pdu : events = {p \in Pdu : results[p] # "none"}
      OBVIOUS
    <2>3. PICK caller \in Frame : caller = Head(rest)
      BY <2>1
    <2>4. PICK told \in Frame :
             /\ told = [caller EXCEPT !.fetched = events]
             /\ told.at = caller.at /\ told.todo = caller.todo
             /\ told.verdict = caller.verdict /\ told.resolved = caller.resolved
             /\ told.results = caller.results
      BY FetchedFields
    <2>5. Sound(caller)
      BY <1>2, <2>1, <2>3 DEF AllSound
    <2>6. Sound(told)
      BY <2>4, <2>5, SoundKept
    <2>7. Sound(told)'
      BY <2>6, SoundGrows
    <2>8. PICK new \in Seq(Frame) :
             new = <<told>> \o Tail(rest) /\ Elements(new) \subseteq Elements(Tail(rest)) \cup {told}
      BY <2>1, ConsElements
    <2>9. stacks' = [stacks EXCEPT ![h] = new]
      BY <1>2, <1>4, <2>2, <2>3, <2>4, <2>8 DEF Return
    <2>10. \A f \in Elements(new) : f \in Elements(stacks[h]) \/ Sound(f)'
      BY <1>2, <2>1, <2>7, <2>8
    <2> QED BY <2>9, <2>10, StackStep
  <1> QED BY <1>3, <1>4

-----------------------------------------------------------------------------
(* What the steps do to the frame they work on.                             *)

\* The current event is one whose processing goes on.
Whole(h) == Current(h).todo # <<>> /\ Fault[Event(h)] \notin {"form", "number"}

\* The current event's processing goes on, or its transaction does, with
\* nothing decided yet.
LEMMA EarlyStep ==
  ASSUME StacksOK, AllSound, NEW h \in Handler, Busy(h), Grows, NEW frame \in Frame,
         frame.at \in {"prev", "filled", "auth", "look", "lost", "check"},
         frame.at # "prev" => Whole(h),
         frame.todo = Current(h).todo, frame.results = Current(h).results
  PROVE  Sound(frame)' /\ (Continue(h, frame) => StacksOK' /\ AllSound')
  <1>1. Sound(Current(h)) /\ Current(h) \in Frame
    BY CurrentFrame
  <1>2. Answerable(frame.results)'
    BY <1>1, AnswerableGrows DEF Sound
  <1>3. Sound(frame)'
    BY <1>2 DEF Sound, Approved, Whole, Event
  <1> QED BY <1>3, ContinueStep

\* A transaction that starts has no results yet.
LEMMA BeginSound ==
  ASSUME NEW name \in Name, NEW mode \in {"live", "fill", "history"}, NEW pdus \in Seq(Pdu),
         NEW frame, frame = Begin(name, mode, pdus)
  PROVE  frame \in Frame /\ Sound(frame)'
  <1>1. frame \in Frame /\ frame.at = "begin" /\ frame.results = NoOutcome
    BY BeginFields
  <1>2. \A p \in Pdu : frame.results[p] = "none"
    BY <1>1 DEF NoOutcome
  <1>3. Answerable(frame.results)'
    BY <1>2 DEF Answerable
  <1> QED BY <1>1, <1>3 DEF Sound, Approved

LEMMA NestedStep ==
  ASSUME StacksOK, AllSound, NEW h \in Handler, Busy(h), Grows, Whole(h),
         NEW place \in {"filled", "look"}, NEW kind \in {"missing", "auth"},
         NEW mode \in {"fill", "history"}, NEW pdus \in Seq(Pdu),
         Nest(h, Moved(Current(h), place), Begin(Nested(Current(h).name, kind, Event(h)), mode, pdus))
  PROVE  StacksOK' /\ AllSound'
  <1>1. Current(h) \in Frame /\ Event(h) \in Pdu
    BY CurrentFrame DEF Whole
  <1>2. place \in Places
    BY DEF Places
  <1>3. PICK frame \in Frame :
           /\ frame = Moved(Current(h), place)
           /\ frame.at = place /\ frame.todo = Current(h).todo
           /\ frame.results = Current(h).results
    BY <1>1, <1>2, MovedFields
  <1>4. Sound(frame)'
    BY <1>3, EarlyStep
  <1>5. Current(h).name \in Name
    BY <1>1 DEF Frame
  <1>6. PICK name \in Name : name = Nested(Current(h).name, kind, Event(h))
    BY <1>1, <1>5, NestedName
  <1>7. PICK inner : inner = Begin(name, mode, pdus)
    OBVIOUS
  <1>8. inner \in Frame /\ Sound(inner)'
    BY <1>7, BeginSound
  <1>9. Nest(h, frame, inner)
    BY <1>3, <1>6, <1>7
  <1> QED BY <1>3, <1>4, <1>8, <1>9, NestStep

\* The current event's processing ends with an outcome: it has a decision.
LEMMA DoneStep ==
  ASSUME StacksOK, AllSound, NEW h \in Handler, Busy(h), Grows, Current(h).todo # <<>>,
         NEW outcome \in {"ok", "error"}, Done(h, outcome),
         processed'[Event(h)] # "none" \/ (Undecidable(Event(h)) /\ outcome = "error")
  PROVE  StacksOK' /\ AllSound'
  <1>1. Current(h) \in Frame /\ Sound(Current(h)) /\ Event(h) \in Pdu
    BY CurrentFrame
  <1>2. Current(h).results \in Outcomes
    BY <1>1 DEF Frame
  <1>3. PICK results \in Outcomes : results = [Current(h).results EXCEPT ![Event(h)] = outcome]
    BY <1>1, <1>2 DEF Outcomes
  <1>4. PICK frame \in Frame : /\ frame = Advanced(Current(h), results)
                               /\ frame.at = "prev" /\ frame.results = results
    BY <1>1, AdvancedFields
  <1>5. results[Event(h)] = outcome /\ \A p \in Pdu \ {Event(h)} : results[p] = Current(h).results[p]
    BY <1>1, <1>2, <1>3 DEF Outcomes
  <1>6. Answerable(results)'
    <2>1. PICK old \in Outcomes : old = Current(h).results
      BY <1>2
    <2>2. Answerable(old)'
      BY <1>1, <2>1, AnswerableGrows DEF Sound
    <2>3. results[Event(h)] = outcome /\ \A p \in Pdu \ {Event(h)} : results[p] = old[p]
      BY <1>5, <2>1
    <2>4. PICK e \in Pdu : /\ e = Event(h) /\ results[e] = outcome
                           /\ \A p \in Pdu \ {e} : results[p] = old[p]
                           /\ processed'[e] # "none" \/ (Undecidable(e) /\ outcome = "error")
      BY <1>1, <2>3
    <2> QED BY <2>2, <2>4 DEF Answerable, Undecidable
  <1>7. Sound(frame)'
    BY <1>4, <1>6 DEF Sound, Approved
  <1>8. Continue(h, frame)
    BY <1>3, <1>4 DEF Done
  <1> QED BY <1>4, <1>7, <1>8, ContinueStep

LEMMA DecideStep ==
  ASSUME StacksOK, AllSound, NEW h \in Handler, Busy(h), Grows, Current(h).todo # <<>>,
         NEW verdict \in {"accept", "defer", "soft_fail", "reject"},
         Fault[Event(h)] \notin {"form", "number"},
         verdict \in {"accept", "defer"} => Auth[Event(h)] \subseteq stored',
         Decide(h, verdict)
  PROVE  StacksOK' /\ AllSound'
  <1>1. Current(h) \in Frame /\ Sound(Current(h)) /\ Event(h) \in Pdu
    BY CurrentFrame
  <1>2. PICK judged \in Frame :
           /\ judged = Judged(Current(h), verdict) /\ judged.todo = Current(h).todo
           /\ judged.verdict = verdict /\ judged.results = Current(h).results
    BY <1>1, JudgedFields
  <1>3. PICK frame \in Frame :
           /\ frame = Moved(judged, "record") /\ frame.at = "record"
           /\ frame.todo = judged.todo /\ frame.verdict = verdict
           /\ frame.results = judged.results
    BY <1>2, MovedFields DEF Places
  <1>4. Answerable(frame.results)'
    BY <1>1, <1>2, <1>3, AnswerableGrows DEF Sound
  <1>5. Head(frame.todo) = Event(h)
    BY <1>2, <1>3 DEF Event
  <1>6. Sound(frame)'
    BY <1>2, <1>3, <1>4, <1>5 DEF Sound, Approved
  <1>7. Continue(h, frame)
    BY <1>2, <1>3 DEF Decide
  <1> QED BY <1>3, <1>6, <1>7, ContinueStep

\* An accepted event goes on to the next write.
LEMMA LateStep ==
  ASSUME StacksOK, AllSound, NEW h \in Handler, Busy(h), Grows, Current(h).todo # <<>>,
         NEW place \in {"store", "state", "apply", "forward"},
         Auth[Event(h)] \subseteq stored', processed'[Event(h)] # "none",
         Fault[Event(h)] \notin {"form", "number"},
         place \in {"state", "apply"} => Key[Event(h)] # NoKey,
         place # "store" => Event(h) \in stored',
         GoTo(h, place)
  PROVE  StacksOK' /\ AllSound'
  <1>1. Current(h) \in Frame /\ Sound(Current(h)) /\ Event(h) \in Pdu
    BY CurrentFrame
  <1>2. PICK frame \in Frame :
           /\ frame = Moved(Current(h), place) /\ frame.at = place
           /\ frame.todo = Current(h).todo /\ frame.results = Current(h).results
    <2>1. place \in Places
      BY DEF Places
    <2> QED BY <1>1, <2>1, MovedFields
  <1>3. Answerable(frame.results)'
    BY <1>1, <1>2, AnswerableGrows DEF Sound
  <1>4. Head(frame.todo) = Event(h)
    BY <1>2 DEF Event
  <1>5. Sound(frame)'
    BY <1>2, <1>3, <1>4 DEF Sound, Approved
  <1>6. Continue(h, frame)
    BY <1>2 DEF GoTo
  <1> QED BY <1>2, <1>5, <1>6, ContinueStep

\* A resolved state, of stored events, is what is left to write.
LEMMA MergeStep ==
  ASSUME StacksOK, AllSound, NEW h \in Handler, Busy(h), Grows, Current(h).todo # <<>>,
         Auth[Event(h)] \subseteq stored', processed'[Event(h)] # "none",
         Fault[Event(h)] \notin {"form", "number"},
         Key[Event(h)] # NoKey, Event(h) \in stored',
         NEW part \in PartOfState, \A k \in StateKey : part[k] \in stored' \cup {Nobody},
         NEW frame \in Frame, frame.at = "merge", frame.todo = Current(h).todo,
         frame.resolved = part, frame.results = Current(h).results, Continue(h, frame)
  PROVE  StacksOK' /\ AllSound'
  <1>1. Current(h) \in Frame /\ Sound(Current(h))
    BY CurrentFrame
  <1>2. Answerable(frame.results)'
    BY <1>1, AnswerableGrows DEF Sound
  <1>3. Head(frame.todo) = Event(h)
    BY DEF Event
  <1>4. Sound(frame)'
    BY <1>2, <1>3 DEF Sound, Approved
  <1> QED BY <1>4, ContinueStep

-----------------------------------------------------------------------------
(* The invariant, action by action.                                         *)

LEMMA InitInv == Init => InboundInv
  <1> SUFFICES ASSUME Init PROVE InboundInv
    OBVIOUS
  <1>1. TablesOK
    BY InboundAssumption DEF Init, TablesOK
  <1>2. StacksOK
    BY DEF Init, StacksOK
  <1>3. \A h \in Handler : Elements(stacks[h]) = {}
    BY DEF Init, Elements
  <1>4. AppliedIsStored /\ AnsweredIsDecided /\ NumbersRejected
    BY DEF Init, AppliedIsStored, AnsweredIsDecided, NumbersRejected
  <1> QED BY <1>1, <1>2, <1>3, <1>4 DEF InboundInv, AllSound

LEMMA TablesKept ==
  ASSUME InboundInv, UNCHANGED tables
  PROVE  Grows /\ TablesOK' /\ AppliedIsStored' /\ AnsweredIsDecided' /\ NumbersRejected'
  BY DEF InboundInv, tables, Grows, TablesOK, AppliedIsStored, AnsweredIsDecided, NumbersRejected,
         Undecidable

LEMMA DeliverInv ==
  ASSUME InboundInv, NEW h \in Handler, NEW t \in Txn, Deliver(h, t)
  PROVE  InboundInv'
  <1>1. Grows /\ TablesOK' /\ AppliedIsStored' /\ AnsweredIsDecided' /\ NumbersRejected'
    BY TablesKept DEF Deliver
  <1>2. PICK name \in Name : name = [txn |-> t, path |-> <<>>]
    <2>1. <<>> \in Seq({"missing", "auth"} \X Pdu)
      BY EmptySeq
    <2> QED BY <2>1 DEF Name
  <1>3. Body[t] \in Seq(Pdu)
    BY InboundAssumption
  <1>4. PICK frame : frame = Begin(name, "live", Body[t])
    OBVIOUS
  <1>5. frame \in Frame /\ Sound(frame)'
    BY <1>3, <1>4, BeginSound
  <1>6. PICK new \in Seq(Frame) : new = <<frame>> /\ Elements(new) = {frame}
    <2>1. <<frame>> \in Seq(Frame) /\ Len(<<frame>>) = 1 /\ <<frame>>[1] = frame
      BY <1>5
    <2>2. Elements(<<frame>>) = {frame}
      BY <2>1 DEF Elements
    <2> QED BY <2>1, <2>2
  <1>7. stacks' = [stacks EXCEPT ![h] = new]
    BY <1>2, <1>4, <1>6 DEF Deliver
  <1>8. StacksOK' /\ AllSound'
    BY <1>1, <1>5, <1>6, <1>7, StackStep DEF InboundInv
  <1> QED BY <1>1, <1>8 DEF InboundInv

LEMMA CrashInv ==
  ASSUME InboundInv, NEW h \in Handler, Crash(h)
  PROVE  InboundInv'
  <1>1. Grows /\ TablesOK' /\ AppliedIsStored' /\ AnsweredIsDecided' /\ NumbersRejected'
    BY TablesKept DEF Crash
  <1>2. <<>> \in Seq(Frame) /\ Elements(<<>>) = {}
    BY DEF Elements
  <1>3. stacks' = [stacks EXCEPT ![h] = <<>>]
    BY DEF Crash
  <1>4. StacksOK' /\ AllSound'
    BY <1>1, <1>2, <1>3, StackStep DEF InboundInv
  <1> QED BY <1>1, <1>4 DEF InboundInv

\* A step that goes on before the decision, the tables as they are.
LEMMA EarlyInv ==
  ASSUME InboundInv, NEW h \in Handler, Busy(h), UNCHANGED tables, NEW frame \in Frame,
         frame.at \in {"prev", "filled", "auth", "look", "lost", "check"},
         frame.at # "prev" => Whole(h),
         frame.todo = Current(h).todo, frame.results = Current(h).results,
         Continue(h, frame)
  PROVE  InboundInv'
  <1>1. Grows /\ TablesOK' /\ AppliedIsStored' /\ AnsweredIsDecided' /\ NumbersRejected'
    BY TablesKept
  <1> QED BY <1>1, EarlyStep DEF InboundInv

LEMMA GoToInv ==
  ASSUME InboundInv, NEW h \in Handler, Busy(h), UNCHANGED tables,
         NEW place \in {"prev", "filled", "auth", "look", "lost", "check"},
         place # "prev" => Whole(h), GoTo(h, place)
  PROVE  InboundInv'
  <1>1. Current(h) \in Frame
    BY CurrentFrame DEF InboundInv
  <1>2. place \in Places
    BY DEF Places
  <1>3. PICK frame \in Frame :
           /\ frame = Moved(Current(h), place) /\ frame.at = place
           /\ frame.todo = Current(h).todo /\ frame.results = Current(h).results
    BY <1>1, <1>2, MovedFields
  <1>4. Continue(h, frame)
    BY <1>3 DEF GoTo
  <1> QED BY <1>3, <1>4, EarlyInv

\* A step that settles whether the gap is open, and goes on to the auth events.
LEMMA GapInv ==
  ASSUME InboundInv, NEW h \in Handler, Busy(h), UNCHANGED tables, Whole(h),
         NEW gap \in {"closed", "open"},
         Continue(h, Moved(WithGap(Current(h), gap), "auth"))
  PROVE  InboundInv'
  <1>1. Current(h) \in Frame
    BY CurrentFrame DEF InboundInv
  <1>2. PICK known \in Frame :
           /\ known = WithGap(Current(h), gap) /\ known.todo = Current(h).todo
           /\ known.results = Current(h).results
    BY <1>1, GapFields
  <1>3. "auth" \in Places
    BY DEF Places
  <1>4. PICK frame \in Frame :
           /\ frame = Moved(known, "auth") /\ frame.at = "auth"
           /\ frame.todo = known.todo /\ frame.results = known.results
    BY <1>2, <1>3, MovedFields
  <1>5. Continue(h, frame)
    BY <1>2, <1>4
  <1> QED BY <1>2, <1>4, <1>5, EarlyInv

LEMMA NestedInv ==
  ASSUME InboundInv, NEW h \in Handler, Busy(h), UNCHANGED tables, Whole(h),
         NEW place \in {"filled", "look"}, NEW kind \in {"missing", "auth"},
         NEW mode \in {"fill", "history"}, NEW pdus \in Seq(Pdu),
         Nest(h, Moved(Current(h), place), Begin(Nested(Current(h).name, kind, Event(h)), mode, pdus))
  PROVE  InboundInv'
  <1>1. Grows /\ TablesOK' /\ AppliedIsStored' /\ AnsweredIsDecided' /\ NumbersRejected'
    BY TablesKept
  <1> QED BY <1>1, NestedStep DEF InboundInv

LEMMA DecideInv ==
  ASSUME InboundInv, NEW h \in Handler, Busy(h), UNCHANGED tables, Whole(h),
         NEW verdict \in {"accept", "defer", "soft_fail", "reject"},
         verdict \in {"accept", "defer"} => Auth[Event(h)] \subseteq stored,
         Decide(h, verdict)
  PROVE  InboundInv'
  <1>1. Grows /\ TablesOK' /\ AppliedIsStored' /\ AnsweredIsDecided' /\ NumbersRejected' /\ stored' = stored
    BY TablesKept DEF tables
  <1> QED BY <1>1, DecideStep DEF InboundInv, Whole

LEMMA AnswerAgainInv ==
  ASSUME InboundInv, NEW h \in Handler, AnswerAgain(h)
  PROVE  InboundInv'
  <1>1. Grows /\ TablesOK' /\ AppliedIsStored' /\ AnsweredIsDecided' /\ NumbersRejected'
    BY TablesKept DEF AnswerAgain
  <1>2. PICK answer \in cached : Return(h, answer.results)
    BY DEF AnswerAgain
  <1>3. PICK results : Return(h, results)
    BY <1>2
  <1>4. StacksOK' /\ AllSound'
    BY <1>1, <1>3, ReturnStep DEF InboundInv, AnswerAgain, At
  <1> QED BY <1>1, <1>4 DEF InboundInv

LEMMA AnswerInv ==
  ASSUME InboundInv, NEW h \in Handler, Answer(h)
  PROVE  InboundInv'
  <1>1. Grows
    BY DEF Answer, Grows
  <1>2. Current(h) \in Frame /\ Sound(Current(h))
    BY CurrentFrame DEF InboundInv, Answer, At
  <1>3. PICK answer \in [name : Name, results : Outcomes] :
           /\ answer = [name |-> Current(h).name, results |-> Current(h).results]
           /\ answer.results = Current(h).results
    <2>1. Current(h).name \in Name /\ Current(h).results \in Outcomes
      BY <1>2 DEF Frame
    <2>2. PICK name \in Name, results \in Outcomes :
             name = Current(h).name /\ results = Current(h).results
      BY <2>1
    <2>3. [name |-> name, results |-> results] \in [name : Name, results : Outcomes]
      OBVIOUS
    <2> QED BY <2>2, <2>3
  <1>4. cached' \subseteq cached \cup {answer}
    BY <1>3 DEF Answer
  <1>5. TablesOK'
    BY <1>4 DEF Answer, InboundInv, TablesOK
  <1>6. AnsweredIsDecided'
    <2>1. Answerable(answer.results)
      BY <1>2, <1>3 DEF Sound
    <2> QED BY <1>4, <2>1 DEF Answer, InboundInv, AnsweredIsDecided, Answerable, Undecidable
  <1>7. AppliedIsStored' /\ NumbersRejected'
    BY DEF Answer, InboundInv, AppliedIsStored, NumbersRejected
  <1>8. PICK results : Return(h, results)
    BY DEF Answer
  <1>9. StacksOK' /\ AllSound'
    BY <1>1, <1>8, ReturnStep DEF InboundInv, Answer, At
  <1> QED BY <1>5, <1>6, <1>7, <1>9 DEF InboundInv

LEMMA StartEventsInv ==
  ASSUME InboundInv, NEW h \in Handler, StartEvents(h)
  PROVE  InboundInv'
  BY GoToInv DEF StartEvents, At

LEMMA FetchInv ==
  ASSUME InboundInv, NEW h \in Handler, Fetch(h)
  PROVE  InboundInv'
  <1>1. Busy(h) /\ UNCHANGED tables
    BY DEF Fetch, NoGap, AskStateIds, AskMissingEvents, Filled, AskAuthEvents,
           LoseTrack, AtPrev, EventTurn, Gap, At
  <1>2. Whole(h)
    <2>1. Current(h).at \notin {"begin", "prev"} => Whole(h)
      BY <1>1, CurrentFrame DEF InboundInv, Whole
    <2> QED BY <2>1 DEF Fetch, NoGap, AskStateIds, AskMissingEvents, Filled, AskAuthEvents,
                        LoseTrack, AtPrev, EventTurn, Gap, At, Whole
  <1>3. Event(h) \in Pdu
    BY <1>1, <1>2, CurrentFrame DEF InboundInv, Whole
  <1>4. CASE NoGap(h)
    BY <1>1, <1>2, <1>4, GoToInv DEF NoGap
  <1>5. CASE AskStateIds(h)
    BY <1>1, <1>2, <1>5, GapInv DEF AskStateIds
  <1>6. CASE AskMissingEvents(h)
    <2>1. CASE GoTo(h, "auth")
      BY <1>1, <1>2, <2>1, GoToInv
    <2>2. ASSUME NEW pdus \in MissingAnswers[Event(h)],
                 Nest(h, Moved(Current(h), "filled"),
                      Begin(Nested(Current(h).name, "missing", Event(h)), "fill", pdus))
          PROVE  InboundInv'
      <3>1. pdus \in Seq(Pdu)
        BY <1>3, InboundAssumption
      <3> QED BY <1>1, <1>2, <2>2, <3>1, NestedInv
    <2> QED BY <1>6, <2>1, <2>2 DEF AskMissingEvents
  <1>7. CASE Filled(h)
    <2>1. PICK gap \in {"closed", "open"} : Continue(h, Moved(WithGap(Current(h), gap), "auth"))
      BY <1>7 DEF Filled
    <2> QED BY <1>1, <1>2, <2>1, GapInv
  <1>8. CASE AskAuthEvents(h)
    <2>1. CASE GoTo(h, "look")
      BY <1>1, <1>2, <2>1, GoToInv
    <2>2. ASSUME NEW pdus \in AuthAnswers[Event(h)],
                 Nest(h, Moved(Current(h), "look"),
                      Begin(Nested(Current(h).name, "auth", Event(h)), "history", pdus))
          PROVE  InboundInv'
      <3>1. pdus \in Seq(Pdu)
        BY <1>3, InboundAssumption
      <3> QED BY <1>1, <1>2, <2>2, <3>1, NestedInv
    <2> QED BY <1>8, <2>1, <2>2 DEF AskAuthEvents
  <1>9. CASE LoseTrack(h)
    BY <1>1, <1>2, <1>9, GoToInv DEF LoseTrack
  <1> QED BY <1>4, <1>5, <1>6, <1>7, <1>8, <1>9 DEF Fetch

\* A faulty event leaves the transaction with its error, recorded or not.
LEMMA RefuseInv ==
  ASSUME InboundInv, NEW h \in Handler, Refuse(h)
  PROVE  InboundInv'
  <1>1. Busy(h) /\ Current(h).at \in {"prev", "look"}
    BY DEF Refuse, RejectMalformed, RejectNumber, RejectSender, EventTurn, At
  <1>2. Current(h).todo # <<>> /\ Event(h) \in Pdu /\ Done(h, "error")
    <2>1. Current(h).at = "look" => Current(h).todo # <<>>
      BY <1>1, CurrentFrame DEF InboundInv
    <2>2. Current(h).todo # <<>> /\ Done(h, "error")
      BY <2>1 DEF Refuse, RejectMalformed, RejectNumber, RejectSender, EventTurn, At
    <2> QED BY <1>1, <2>2, CurrentFrame DEF InboundInv
  <1>3. CASE RejectMalformed(h) \/ RejectSender(h)
    <2>1. Undecidable(Event(h)) /\ UNCHANGED tables
      BY <1>3 DEF RejectMalformed, RejectSender, Undecidable
    <2>2. Grows /\ TablesOK' /\ AppliedIsStored' /\ AnsweredIsDecided' /\ NumbersRejected'
      BY <2>1, TablesKept
    <2> QED BY <1>1, <1>2, <2>1, <2>2, DoneStep DEF InboundInv
  <1>4. CASE RejectNumber(h)
    <2>1. /\ processed' \in [Pdu -> {"none", "accepted", "rejected"}]
          /\ processed'[Event(h)] = "rejected"
          /\ \A p \in Pdu \ {Event(h)} : processed'[p] = processed[p]
      BY <1>2, <1>4 DEF RejectNumber, InboundInv, TablesOK
    <2>2. Grows
      BY <1>4, <2>1 DEF RejectNumber, Grows
    <2>3. TablesOK' /\ AppliedIsStored' /\ NumbersRejected'
      BY <1>4, <2>1 DEF RejectNumber, InboundInv, TablesOK, AppliedIsStored, NumbersRejected
    <2>4. AnsweredIsDecided'
      BY <1>4, <2>1 DEF RejectNumber, InboundInv, AnsweredIsDecided, Undecidable
    <2>5. StacksOK' /\ AllSound'
      BY <1>1, <1>2, <2>1, <2>2, DoneStep DEF InboundInv
    <2> QED BY <2>3, <2>4, <2>5 DEF InboundInv
  <1> QED BY <1>3, <1>4 DEF Refuse

LEMMA VerdictKinds ==
  ASSUME NEW p, NEW mode, NEW verdict \in Verdicts(p, mode)
  PROVE  verdict \in {"accept", "defer", "reject"} /\ (verdict # "reject" => AuthHolds(p))
  BY DEF Verdicts

\* The decision is made on what the step looks at, and recorded by the next.
LEMMA JudgeInv ==
  ASSUME InboundInv, NEW h \in Handler, Judge(h)
  PROVE  InboundInv'
  <1>1. Busy(h) /\ Current(h).at \in {"look", "check", "record"}
    BY DEF Judge, AlreadyDecided, Look, Check, RecordDecision, At
  <1>2. Sound(Current(h)) /\ Current(h).todo # <<>> /\ Event(h) \in Pdu /\ Whole(h)
    BY <1>1, CurrentFrame DEF InboundInv, Whole
  <1>3. CASE AlreadyDecided(h)
    <2>1. Grows /\ TablesOK' /\ AppliedIsStored' /\ AnsweredIsDecided' /\ NumbersRejected' /\ processed' = processed
      BY <1>3, TablesKept DEF AlreadyDecided, tables
    <2>2. PICK outcome \in {"ok", "error"} : Done(h, outcome)
      BY <1>3 DEF AlreadyDecided
    <2>3. processed'[Event(h)] # "none"
      BY <1>3, <2>1 DEF AlreadyDecided
    <2>4. StacksOK' /\ AllSound'
      BY <1>1, <1>2, <2>1, <2>2, <2>3, DoneStep DEF InboundInv
    <2> QED BY <2>1, <2>4 DEF InboundInv
  <1>4. CASE Look(h)
    <2>1. CASE Decide(h, "soft_fail")
      BY <1>1, <1>2, <1>4, <2>1, DecideInv DEF Look
    <2>2. CASE GoTo(h, "check")
      BY <1>1, <1>2, <1>4, <2>2, GoToInv DEF Look
    <2> QED BY <1>4, <2>1, <2>2 DEF Look
  <1>5. CASE Check(h)
    <2>1. PICK verdict \in {"accept", "defer", "reject"} :
             /\ Decide(h, verdict)
             /\ verdict # "reject" => AuthHolds(Event(h))
      BY <1>5, VerdictKinds DEF Check
    <2>2. verdict \in {"accept", "defer"} => Auth[Event(h)] \subseteq stored
      BY <1>2, <2>1, InboundAssumption DEF AuthHolds
    <2> QED BY <1>1, <1>2, <1>5, <2>1, <2>2, DecideInv DEF Check
  <1>6. CASE RecordDecision(h)
    <2>1. /\ processed' \in [Pdu -> {"none", "accepted", "rejected"}]
          /\ processed'[Event(h)] # "none"
          /\ \A p \in Pdu : processed[p] # "none" => processed'[p] # "none"
      BY <1>2, <1>6 DEF RecordDecision, InboundInv, TablesOK
    <2>2. Grows
      BY <1>6, <2>1 DEF RecordDecision, Grows
    <2>3. TablesOK'
      BY <1>6, <2>1 DEF RecordDecision, InboundInv, TablesOK
    <2>4. AppliedIsStored' /\ NumbersRejected'
      BY <1>2, <1>6 DEF RecordDecision, InboundInv, AppliedIsStored, NumbersRejected, Whole, TablesOK
    <2>5. AnsweredIsDecided'
      BY <1>6, <2>1 DEF RecordDecision, InboundInv, AnsweredIsDecided, Undecidable
    <2>6. CASE Current(h).verdict \in {"accept", "defer"}
      <3>1. Auth[Event(h)] \subseteq stored'
        BY <1>2, <1>6, <2>6 DEF RecordDecision, At, Sound, Approved, Event
      <3>2. GoTo(h, "store")
        BY <1>6, <2>6 DEF RecordDecision
      <3>3. StacksOK' /\ AllSound'
        BY <1>1, <1>2, <2>1, <2>2, <3>1, <3>2, LateStep DEF InboundInv, Whole
      <3> QED BY <2>3, <2>4, <2>5, <3>3 DEF InboundInv
    <2>7. CASE Current(h).verdict \notin {"accept", "defer"}
      <3>1. PICK outcome \in {"ok", "error"} : Done(h, outcome)
        BY <1>6, <2>7 DEF RecordDecision
      <3>2. StacksOK' /\ AllSound'
        BY <1>1, <1>2, <2>1, <2>2, <3>1, DoneStep DEF InboundInv
      <3> QED BY <2>3, <2>4, <2>5, <3>2 DEF InboundInv
    <2> QED BY <2>6, <2>7
  <1> QED BY <1>3, <1>4, <1>5, <1>6 DEF Judge

\* The writes find the auth events where the check saw them.
LEMMA ApplyInv ==
  ASSUME InboundInv, NEW h \in Handler, Apply(h)
  PROVE  InboundInv'
  <1>1. Busy(h) /\ Current(h).at \in {"store", "state", "apply", "merge", "forward"}
    BY DEF Apply, StoreRow, SetState, ApplyState, Merge, Resolve, WriteResolved, EndResolved,
           Forward, At
  <1>2. /\ Sound(Current(h)) /\ Current(h).todo # <<>> /\ Event(h) \in Pdu
        /\ Fault[Event(h)] \notin {"form", "number"} /\ Current(h) \in Frame
    BY <1>1, CurrentFrame DEF InboundInv
  <1>3. /\ Auth[Event(h)] \subseteq stored /\ processed[Event(h)] # "none"
        /\ Current(h).at \in {"state", "apply", "merge"} => Key[Event(h)] # NoKey
        /\ Current(h).at = "merge" =>
              \A k \in StateKey : Current(h).resolved[k] \in stored \cup {Nobody}
        /\ Current(h).at # "store" => Event(h) \in stored
    BY <1>1, <1>2 DEF Sound, Approved, Event
  <1>4. CASE StoreRow(h)
    <2>1. Grows /\ stored' = stored \cup {Event(h)} /\ processed' = processed
      BY <1>4 DEF StoreRow, Grows
    <2>2. TablesOK' /\ AppliedIsStored' /\ AnsweredIsDecided' /\ NumbersRejected'
      BY <1>2, <1>4 DEF StoreRow, InboundInv, TablesOK, AppliedIsStored, AnsweredIsDecided,
             NumbersRejected, Undecidable
    <2>3. CASE Done(h, "ok")
      <3>1. StacksOK' /\ AllSound'
        BY <1>1, <1>2, <1>3, <2>1, <2>3, DoneStep DEF InboundInv
      <3> QED BY <2>2, <3>1 DEF InboundInv
    <2>4. CASE GoTo(h, "forward")
      <3>1. StacksOK' /\ AllSound'
        BY <1>1, <1>2, <1>3, <2>1, <2>4, LateStep DEF InboundInv
      <3> QED BY <2>2, <3>1 DEF InboundInv
    <2>5. CASE Key[Event(h)] # NoKey /\ GoTo(h, "state")
      <3>1. StacksOK' /\ AllSound'
        BY <1>1, <1>2, <1>3, <2>1, <2>5, LateStep DEF InboundInv
      <3> QED BY <2>2, <3>1 DEF InboundInv
    <2> QED BY <1>4, <2>3, <2>4, <2>5 DEF StoreRow
  <1>5. ASSUME NEW place \in {"apply", "forward"}, PointState(h), GoTo(h, place),
               UNCHANGED <<processed, stored, forwarded, cached>>, Key[Event(h)] # NoKey,
               Event(h) \in stored
        PROVE  InboundInv'
    <2>1. Grows
      BY <1>5 DEF Grows
    <2>2. TablesOK' /\ AppliedIsStored' /\ AnsweredIsDecided' /\ NumbersRejected'
      BY <1>2, <1>5 DEF PointState, InboundInv, TablesOK, AppliedIsStored, AnsweredIsDecided,
             NumbersRejected, Undecidable
    <2>3. StacksOK' /\ AllSound'
      BY <1>1, <1>2, <1>3, <1>5, <2>1, LateStep DEF InboundInv
    <2> QED BY <2>2, <2>3 DEF InboundInv
  <1>6. CASE SetState(h)
    BY <1>3, <1>5, <1>6 DEF SetState, At
  <1>7. CASE ApplyState(h)
    BY <1>3, <1>5, <1>7 DEF ApplyState, At
  <1>8. CASE Resolve(h)
    <2>1. PICK part \in PartOfState :
             /\ \A k \in StateKey :
                    \/ part[k] \in {Nobody, state[k]}
                    \/ k = Key[Event(h)] /\ part[k] = Event(h)
             /\ Continue(h, Moved(Resolved(Current(h), part), "merge"))
      BY <1>8 DEF Resolve
    <2>2. Grows /\ TablesOK' /\ AppliedIsStored' /\ AnsweredIsDecided' /\ NumbersRejected'
      BY <1>8, TablesKept DEF Resolve
    <2>3. stored' = stored /\ processed' = processed /\ Event(h) \in stored /\ Key[Event(h)] # NoKey
      BY <1>3, <1>8 DEF Resolve, tables, At
    <2>4. \A k \in StateKey : part[k] \in stored \cup {Nobody}
      BY <2>1, <2>3 DEF InboundInv, AppliedIsStored
    <2>5. PICK solved \in Frame :
             /\ solved = Resolved(Current(h), part) /\ solved.todo = Current(h).todo
             /\ solved.resolved = part /\ solved.results = Current(h).results
      BY <1>2, ResolvedFields
    <2>6. PICK frame \in Frame :
             /\ frame = Moved(solved, "merge") /\ frame.at = "merge"
             /\ frame.todo = solved.todo /\ frame.resolved = part
             /\ frame.results = solved.results
      BY <2>5, MovedFields DEF Places
    <2>7. Continue(h, frame)
      BY <2>1, <2>5, <2>6
    <2>8. StacksOK' /\ AllSound'
      BY <1>1, <1>2, <1>3, <2>2, <2>3, <2>4, <2>5, <2>6, <2>7, MergeStep DEF InboundInv
    <2> QED BY <2>2, <2>8 DEF InboundInv
  <1>9. CASE WriteResolved(h)
    <2>1. PICK k \in StateKey :
             /\ Current(h).resolved[k] # Nobody
             /\ state' = [state EXCEPT ![k] = Current(h).resolved[k]]
             /\ Continue(h, Resolved(Current(h), [Current(h).resolved EXCEPT ![k] = Nobody]))
      BY <1>9 DEF WriteResolved
    <2>2. /\ Current(h).at = "merge" /\ Event(h) \in stored /\ Key[Event(h)] # NoKey
          /\ Current(h).resolved[k] \in stored
      BY <1>3, <1>9, <2>1 DEF WriteResolved, At
    <2>3. Grows /\ stored' = stored /\ processed' = processed
      BY <1>9 DEF WriteResolved, Grows
    <2>4. TablesOK' /\ AppliedIsStored' /\ AnsweredIsDecided' /\ NumbersRejected'
      BY <1>9, <2>1, <2>2 DEF WriteResolved, InboundInv, TablesOK, AppliedIsStored,
                              AnsweredIsDecided, NumbersRejected, Undecidable
    <2>5. Current(h).resolved \in PartOfState
      BY <1>2 DEF Frame
    <2>6. PICK part \in PartOfState : part = [Current(h).resolved EXCEPT ![k] = Nobody]
      BY <2>5 DEF PartOfState
    <2>7. \A i \in StateKey : part[i] \in stored \cup {Nobody}
      BY <1>3, <2>2, <2>5, <2>6 DEF PartOfState
    <2>8. PICK frame \in Frame :
             /\ frame = Resolved(Current(h), part) /\ frame.at = "merge"
             /\ frame.todo = Current(h).todo /\ frame.resolved = part
             /\ frame.results = Current(h).results
      BY <1>2, <2>2, ResolvedFields
    <2>9. Continue(h, frame)
      BY <2>1, <2>6, <2>8
    <2>10. StacksOK' /\ AllSound'
      BY <1>1, <1>2, <1>3, <2>2, <2>3, <2>7, <2>8, <2>9, MergeStep DEF InboundInv
    <2> QED BY <2>4, <2>10 DEF InboundInv
  <1>10. CASE EndResolved(h)
    <2>1. /\ Current(h).at = "merge" /\ Event(h) \in stored /\ Key[Event(h)] # NoKey
          /\ GoTo(h, "forward")
      BY <1>3, <1>10 DEF EndResolved, At
    <2>2. Grows /\ stored' = stored /\ processed' = processed
      BY <1>10 DEF EndResolved, Grows
    <2>3. TablesOK' /\ AppliedIsStored' /\ AnsweredIsDecided' /\ NumbersRejected'
      BY <1>2, <1>10, <2>1 DEF EndResolved, PointState, InboundInv, TablesOK, AppliedIsStored,
                               AnsweredIsDecided, NumbersRejected, Undecidable
    <2>4. StacksOK' /\ AllSound'
      BY <1>1, <1>2, <1>3, <2>1, <2>2, LateStep DEF InboundInv
    <2> QED BY <2>3, <2>4 DEF InboundInv
  <1>11. CASE Forward(h)
    <2>1. Grows
      BY <1>11 DEF Forward, Grows
    <2>2. Event(h) \in stored
      BY <1>3, <1>11 DEF Forward, At
    <2>3. TablesOK' /\ AppliedIsStored' /\ AnsweredIsDecided' /\ NumbersRejected'
      BY <1>2, <1>11, <2>2 DEF Forward, InboundInv, TablesOK, AppliedIsStored, AnsweredIsDecided,
             NumbersRejected, Undecidable
    <2>4. Done(h, "ok") /\ processed' = processed
      BY <1>11 DEF Forward
    <2>5. StacksOK' /\ AllSound'
      BY <1>1, <1>2, <1>3, <2>1, <2>4, DoneStep DEF InboundInv
    <2> QED BY <2>3, <2>5 DEF InboundInv
  <1> QED BY <1>4, <1>6, <1>7, <1>8, <1>9, <1>10, <1>11 DEF Apply, Merge

LEMMA NextInv == InboundInv /\ [Next]_vars => InboundInv'
  <1> SUFFICES ASSUME InboundInv, [Next]_vars PROVE InboundInv'
    OBVIOUS
  <1>1. ASSUME NEW h \in Handler, Step(h) PROVE InboundInv'
    BY <1>1, AnswerAgainInv, AnswerInv, StartEventsInv, RefuseInv, FetchInv, JudgeInv,
       ApplyInv DEF Step
  <1>2. CASE UNCHANGED vars
    <2>1. Grows /\ TablesOK' /\ AppliedIsStored' /\ AnsweredIsDecided' /\ NumbersRejected'
      BY <1>2, TablesKept DEF vars
    <2>2. StacksOK'
      BY <1>2 DEF vars, StacksOK, InboundInv
    <2>3. ASSUME NEW h \in Handler, NEW f \in Elements(stacks[h]) PROVE Sound(f)'
      <3>1. f \in Frame /\ Sound(f)
        BY DEF InboundInv, StacksOK, AllSound, Elements
      <3> QED BY <2>1, <3>1, SoundGrows
    <2>4. AllSound'
      BY <1>2, <2>3 DEF vars, AllSound, Elements
    <2> QED BY <2>1, <2>2, <2>4 DEF InboundInv
  <1> QED BY <1>1, <1>2, DeliverInv, CrashInv DEF Next

-----------------------------------------------------------------------------
(* The theorems.                                                            *)

\* The invariant holds of every behaviour: each transaction in progress, at
\* whatever depth of its handler's stack, stands where its event's checks,
\* decision and row allow (see Sound).
THEOREM InboundInductive == Spec => []InboundInv
  <1> QED BY InitInv, NextInv, PTL DEF Spec

\* Rows, decisions, cached answers and stacks have the shapes the code gives
\* them, nested transactions of any depth included.
THEOREM InboundTypeCorrect == Spec => []TypeOK
  <1>1. InboundInv => TypeOK
    BY DEF InboundInv, TablesOK, StacksOK, TypeOK
  <1> QED BY <1>1, InboundInductive, PTL

\* No handler points the room's state at an event without a row, or hands one
\* to the fanout, whatever the others do and wherever workers stop.
THEOREM StateIsBacked == Spec => []AppliedIsStored
  <1>1. InboundInv => AppliedIsStored
    BY DEF InboundInv
  <1> QED BY <1>1, InboundInductive, PTL

\* A cached answer, which keeps its transaction from being processed again, has
\* a decision for each event it speaks of; or it gives an error for one that
\* is malformed or whose sender names no server, which the code never records.
THEOREM AnswersAreDecided == Spec => []AnsweredIsDecided
  <1>1. InboundInv => AnsweredIsDecided
    BY DEF InboundInv
  <1> QED BY <1>1, InboundInductive, PTL

\* Inbound processing implements AuthDag: an event's row comes after the rows
\* of its auth events, for any number of handlers and any answers of the
\* origin.  The check of the auth events and the insertion of the row are two
\* steps apart; Sound carries the first to the second.
THEOREM ImplementsAuthDag == Spec => GrowsAlongAuth
  <1>1. Init => Dag!Init
    BY DEF Init, Dag!Init
  <1>2. InboundInv /\ [Next]_vars => [Dag!Next]_stored
    <2> SUFFICES ASSUME InboundInv, [Next]_vars, stored' # stored
                 PROVE  Dag!Next
      OBVIOUS
    <2>1. PICK h \in Handler : StoreRow(h)
      BY DEF Next, vars, tables, Step, Deliver, Crash, AnswerAgain, StartEvents, Answer,
             Refuse, RejectMalformed, RejectNumber, RejectSender, Fetch, NoGap,
             AskStateIds, AskMissingEvents, Filled, AskAuthEvents, LoseTrack, Judge,
             AlreadyDecided,
             Look, Check, RecordDecision, Apply, SetState, ApplyState, Merge, Resolve,
             WriteResolved, EndResolved, Forward
    <2>2. Busy(h) /\ Current(h).at = "store"
      BY <2>1 DEF StoreRow, At
    <2>3. Sound(Current(h)) /\ Current(h).todo # <<>> /\ Event(h) \in Pdu
      BY <2>2, CurrentFrame DEF InboundInv
    <2>4. Auth[Event(h)] \subseteq stored
      BY <2>2, <2>3 DEF Sound, Approved, Event
    <2>5. Dag!Add(Event(h))
      BY <2>1, <2>4 DEF StoreRow, Dag!Add
    <2> QED BY <2>3, <2>5 DEF Dag!Next
  <1> QED BY <1>1, <1>2, InboundInductive, PTL DEF Spec, GrowsAlongAuth, Dag!Spec

-----------------------------------------------------------------------------
(* An answer to the origin is complete: between the events that have a      *)
(* result and those still to process, the origin's transaction is there.    *)

\* The transaction of the origin itself, not one nested in it.
Covered(f) ==
    f.name.path = <<>> =>
        \A i \in DOMAIN Body[f.name.txn] :
            \/ f.results[Body[f.name.txn][i]] # "none"
            \/ Body[f.name.txn][i] \in Elements(f.todo)

AllCovered == \A h \in Handler : \A f \in Elements(stacks[h]) : Covered(f)

SameTask(f, g) == g.name = f.name /\ g.todo = f.todo /\ g.results = f.results

LEMMA CoveredKept ==
  ASSUME NEW f, NEW g, SameTask(f, g), Covered(f)
  PROVE  Covered(g)
  BY DEF SameTask, Covered

LEMMA TaskKept ==
  ASSUME NEW f \in Frame, NEW place \in Places, NEW gap \in {"closed", "open"},
         NEW verdict \in {"none", "accept", "defer", "soft_fail", "reject"},
         NEW events \in SUBSET Pdu
  PROVE  /\ SameTask(f, Moved(f, place)) /\ SameTask(f, WithGap(f, gap))
         /\ SameTask(f, Judged(f, verdict)) /\ SameTask(f, [f EXCEPT !.fetched = events])
  BY DEF SameTask, Moved, WithGap, Judged, Frame

\* The keys of a resolved state that are still to write.
ToWrite(f) == {k \in StateKey : f.resolved[k] # Nobody}

\* The steps between the row's pointer and the fanout of an event that merges
\* branches: to the writing, a key of it, or past it.
LEMMA MergeGoesOn ==
  ASSUME NEW h \in Handler, Current(h) \in Frame, Merge(h)
  PROVE  \/ Current(h).at = "merge" /\ GoTo(h, "forward")
         \/ \E frame \in Frame :
               /\ frame.at = "merge" /\ SameTask(Current(h), frame) /\ Continue(h, frame)
               /\ \/ Current(h).at = "apply"
                  \/ /\ Current(h).at = "merge"
                     /\ ToWrite(frame) \subseteq ToWrite(Current(h))
                     /\ ToWrite(frame) # ToWrite(Current(h))
  <1>1. ASSUME NEW part \in PartOfState
        PROVE  Resolved(Current(h), part) \in Frame
               /\ SameTask(Current(h), Resolved(Current(h), part))
    BY ResolvedFields DEF SameTask, Resolved, Frame
  <1>2. CASE Resolve(h)
    <2>1. PICK part \in PartOfState :
             Continue(h, Moved(Resolved(Current(h), part), "merge"))
      BY <1>2 DEF Resolve
    <2>2. PICK f \in Frame : f = Resolved(Current(h), part) /\ SameTask(Current(h), f)
      BY <1>1
    <2>3. "merge" \in Places
      BY DEF Places
    <2>4. PICK frame \in Frame : frame = Moved(f, "merge") /\ frame.at = "merge"
      BY <2>3, MovedFields
    <2>5. SameTask(f, frame)
      BY <2>3, <2>4 DEF SameTask, Moved, Frame
    <2>6. SameTask(Current(h), frame)
      BY <2>2, <2>5 DEF SameTask
    <2> QED BY <1>2, <2>1, <2>2, <2>4, <2>6 DEF Resolve, At
  <1>3. CASE WriteResolved(h)
    <2>1. PICK k \in StateKey :
             /\ Current(h).resolved[k] # Nobody
             /\ Continue(h, Resolved(Current(h), [Current(h).resolved EXCEPT ![k] = Nobody]))
      BY <1>3 DEF WriteResolved
    <2>2. Current(h).resolved \in PartOfState
      BY DEF Frame
    <2>3. PICK part \in PartOfState : part = [Current(h).resolved EXCEPT ![k] = Nobody]
      BY <2>2 DEF PartOfState
    <2>4. PICK frame \in Frame : /\ frame = Resolved(Current(h), part)
                                 /\ SameTask(Current(h), frame)
                                 /\ frame.at = Current(h).at /\ frame.resolved = part
      BY <1>1, ResolvedFields
    <2>5. Current(h).at = "merge" /\ Continue(h, frame)
      BY <1>3, <2>1, <2>3, <2>4 DEF WriteResolved, At
    <2>6. k \in ToWrite(Current(h)) /\ k \notin ToWrite(frame)
      BY <2>1, <2>2, <2>3, <2>4 DEF ToWrite, PartOfState
    <2>7. ToWrite(frame) \subseteq ToWrite(Current(h))
      BY <2>2, <2>3, <2>4 DEF ToWrite, PartOfState
    <2> QED BY <2>4, <2>5, <2>6, <2>7
  <1>4. CASE EndResolved(h)
    BY <1>4 DEF EndResolved, At
  <1> QED BY <1>2, <1>3, <1>4 DEF Merge

\* A refused event is done with.
LEMMA RefuseEnds ==
  ASSUME StacksOK, AllSound, NEW h \in Handler, Refuse(h)
  PROVE  /\ Busy(h) /\ ~At(h, "store") /\ Current(h).todo # <<>> /\ Event(h) \in Pdu
         /\ Done(h, "error")
  <1>1. Busy(h) /\ Current(h).at \in {"prev", "look"}
    BY DEF Refuse, RejectMalformed, RejectNumber, RejectSender, EventTurn, At
  <1>2. Current(h).at = "look" => Current(h).todo # <<>>
    BY <1>1, CurrentFrame
  <1>3. Current(h).todo # <<>> /\ Done(h, "error")
    BY <1>2 DEF Refuse, RejectMalformed, RejectNumber, RejectSender, EventTurn, At
  <1> QED BY <1>1, <1>3, CurrentFrame DEF At

LEMMA RestElements ==
  ASSUME NEW S, NEW s \in Seq(S), s # <<>>
  PROVE  Elements(s) \subseteq Elements(Tail(s)) \cup {Head(s)}
  <1>1. Len(s) \in Nat \ {0}
    BY EmptySeq, LenProperties
  <1>2. Head(s) = s[1]
    BY HeadTailProperties
  <1>3. Len(Tail(s)) = Len(s) - 1 /\ \A i \in 1..Len(Tail(s)) : Tail(s)[i] = s[i + 1]
    BY HeadTailProperties
  <1>4. ASSUME NEW i \in 1..Len(s), i # 1 PROVE s[i] \in Elements(Tail(s))
    <2>1. i - 1 \in 1..Len(Tail(s)) /\ Tail(s)[i - 1] = s[i]
      BY <1>1, <1>3, <1>4
    <2> QED BY <2>1 DEF Elements
  <1> QED BY <1>2, <1>4 DEF Elements

LEMMA CoveredStep ==
  ASSUME StacksOK, AllCovered, NEW h \in Handler, NEW new \in Seq(Frame),
         \A f \in Elements(new) : f \in Elements(stacks[h]) \/ Covered(f),
         stacks' = [stacks EXCEPT ![h] = new]
  PROVE  AllCovered'
  <1>1. ASSUME NEW g \in Handler, NEW f \in Elements(stacks'[g])
        PROVE  Covered(f)
    <2>1. stacks'[g] = IF g = h THEN new ELSE stacks[g]
      BY DEF StacksOK
    <2> QED BY <2>1 DEF AllCovered
  <1> QED BY <1>1 DEF AllCovered, Elements

LEMMA ContinueCovers ==
  ASSUME StacksOK, AllCovered, NEW h \in Handler, Busy(h), NEW frame \in Frame,
         Covered(frame), Continue(h, frame)
  PROVE  AllCovered'
  <1>1. stacks[h] \in Seq(Frame) /\ stacks[h] # <<>>
    BY DEF StacksOK, Busy
  <1>2. PICK rest \in Seq(Frame) :
           rest = Tail(stacks[h]) /\ Elements(rest) \subseteq Elements(stacks[h])
    BY <1>1, TailElements
  <1>3. PICK new \in Seq(Frame) :
           new = <<frame>> \o rest /\ Elements(new) \subseteq Elements(rest) \cup {frame}
    BY ConsElements
  <1>4. stacks' = [stacks EXCEPT ![h] = new]
    BY <1>2, <1>3 DEF Continue
  <1>5. \A f \in Elements(new) : f \in Elements(stacks[h]) \/ Covered(f)
    BY <1>2, <1>3
  <1> QED BY <1>4, <1>5, CoveredStep

LEMMA NestCovers ==
  ASSUME StacksOK, AllCovered, NEW h \in Handler, Busy(h), NEW frame \in Frame,
         Covered(frame), NEW inner \in Frame, Covered(inner), Nest(h, frame, inner)
  PROVE  AllCovered'
  <1>1. stacks[h] \in Seq(Frame) /\ stacks[h] # <<>>
    BY DEF StacksOK, Busy
  <1>2. PICK rest \in Seq(Frame) :
           rest = Tail(stacks[h]) /\ Elements(rest) \subseteq Elements(stacks[h])
    BY <1>1, TailElements
  <1>3. PICK outer \in Seq(Frame) :
           outer = <<frame>> \o rest /\ Elements(outer) \subseteq Elements(rest) \cup {frame}
    BY ConsElements
  <1>4. PICK new \in Seq(Frame) :
           new = <<inner>> \o outer /\ Elements(new) \subseteq Elements(outer) \cup {inner}
    BY ConsElements
  <1>5. new = <<inner, frame>> \o rest
    BY <1>3, <1>4
  <1>6. stacks' = [stacks EXCEPT ![h] = new]
    BY <1>2, <1>5 DEF Nest
  <1>7. \A f \in Elements(new) : f \in Elements(stacks[h]) \/ Covered(f)
    BY <1>2, <1>3, <1>4
  <1> QED BY <1>6, <1>7, CoveredStep

LEMMA ReturnCovers ==
  ASSUME StacksOK, AllCovered, NEW h \in Handler, Busy(h), NEW results, Return(h, results)
  PROVE  AllCovered'
  <1>1. stacks[h] \in Seq(Frame) /\ stacks[h] # <<>>
    BY DEF StacksOK, Busy
  <1>2. PICK rest \in Seq(Frame) :
           rest = Tail(stacks[h]) /\ Elements(rest) \subseteq Elements(stacks[h])
    BY <1>1, TailElements
  <1>3. CASE rest = <<>>
    <2>1. stacks' = [stacks EXCEPT ![h] = <<>>]
      BY <1>2, <1>3 DEF Return
    <2>2. <<>> \in Seq(Frame) /\ Elements(<<>>) = {}
      BY DEF Elements
    <2> QED BY <2>1, <2>2, CoveredStep
  <1>4. CASE rest # <<>>
    <2>1. /\ Head(rest) \in Frame /\ Head(rest) \in Elements(rest)
          /\ Tail(rest) \in Seq(Frame) /\ Elements(Tail(rest)) \subseteq Elements(rest)
      BY <1>4, TailElements
    <2>2. PICK events \in SUBSET Pdu : events = {p \in Pdu : results[p] # "none"}
      OBVIOUS
    <2>3. PICK caller \in Frame : caller = Head(rest)
      BY <2>1
    <2>4. PICK told \in Frame :
             told = [caller EXCEPT !.fetched = events] /\ SameTask(caller, told)
      <3>1. "begin" \in Places
        BY DEF Places
      <3>2. SameTask(caller, [caller EXCEPT !.fetched = events])
        BY <3>1, TaskKept
      <3> QED BY <3>2, FetchedFields
    <2>5. Covered(told)
      BY <1>2, <2>1, <2>3, <2>4, CoveredKept DEF AllCovered
    <2>6. PICK new \in Seq(Frame) :
             new = <<told>> \o Tail(rest) /\ Elements(new) \subseteq Elements(Tail(rest)) \cup {told}
      BY <2>1, ConsElements
    <2>7. stacks' = [stacks EXCEPT ![h] = new]
      BY <1>2, <1>4, <2>2, <2>3, <2>4, <2>6 DEF Return
    <2>8. \A f \in Elements(new) : f \in Elements(stacks[h]) \/ Covered(f)
      BY <1>2, <2>1, <2>5, <2>6
    <2> QED BY <2>7, <2>8, CoveredStep
  <1> QED BY <1>3, <1>4

LEMMA CurrentCovered ==
  ASSUME StacksOK, AllCovered, NEW h \in Handler, Busy(h)
  PROVE  Current(h) \in Frame /\ Covered(Current(h))
  <1>1. stacks[h] \in Seq(Frame) /\ stacks[h] # <<>>
    BY DEF StacksOK, Busy
  <1>2. Current(h) \in Frame /\ Current(h) \in Elements(stacks[h])
    BY <1>1, TailElements DEF Current
  <1> QED BY <1>2 DEF AllCovered

\* A step within an event leaves the transaction's task as it is.
LEMMA WithinCovers ==
  ASSUME StacksOK, AllCovered, NEW h \in Handler, Busy(h),
         \/ \E place \in Places : GoTo(h, place)
         \/ \E gap \in {"closed", "open"} : Continue(h, Moved(WithGap(Current(h), gap), "auth"))
         \/ \E verdict \in {"accept", "defer", "soft_fail", "reject"} : Decide(h, verdict)
  PROVE  AllCovered'
  <1>1. Current(h) \in Frame /\ Covered(Current(h))
    BY CurrentCovered
  <1>2. "auth" \in Places /\ "record" \in Places
    BY DEF Places
  <1>3. ASSUME NEW f \in Frame, Covered(f), NEW place \in Places, Continue(h, Moved(f, place))
        PROVE  AllCovered'
    <2>1. Moved(f, place) \in Frame /\ SameTask(f, Moved(f, place))
      BY MovedFields, TaskKept
    <2> QED BY <1>3, <2>1, CoveredKept, ContinueCovers
  <1>4. ASSUME NEW place \in Places, GoTo(h, place) PROVE AllCovered'
    BY <1>1, <1>3, <1>4 DEF GoTo
  <1>5. ASSUME NEW gap \in {"closed", "open"},
               Continue(h, Moved(WithGap(Current(h), gap), "auth"))
        PROVE  AllCovered'
    <2>1. WithGap(Current(h), gap) \in Frame /\ SameTask(Current(h), WithGap(Current(h), gap))
      BY <1>1, <1>2, GapFields, TaskKept
    <2>2. Covered(WithGap(Current(h), gap))
      BY <1>1, <2>1, CoveredKept
    <2> QED BY <1>2, <1>3, <1>5, <2>1, <2>2
  <1>6. ASSUME NEW verdict \in {"accept", "defer", "soft_fail", "reject"}, Decide(h, verdict)
        PROVE  AllCovered'
    <2>1. Judged(Current(h), verdict) \in Frame /\ SameTask(Current(h), Judged(Current(h),
    verdict))
      BY <1>1, <1>2, JudgedFields, TaskKept
    <2>2. Covered(Judged(Current(h), verdict))
      BY <1>1, <2>1, CoveredKept
    <2> QED BY <1>2, <1>3, <1>6, <2>1, <2>2 DEF Decide
  <1> QED BY <1>4, <1>5, <1>6

\* An event that leaves the task gets its result at once.
LEMMA DoneCovers ==
  ASSUME StacksOK, AllCovered, NEW h \in Handler, Busy(h), Current(h).todo # <<>>,
         Event(h) \in Pdu, NEW outcome \in {"ok", "error"}, Done(h, outcome)
  PROVE  AllCovered'
  <1>1. Current(h) \in Frame /\ Covered(Current(h))
    BY CurrentCovered
  <1>2. Current(h).results \in Outcomes /\ Current(h).todo \in Seq(Pdu)
    BY <1>1 DEF Frame
  <1>3. PICK results \in Outcomes : results = [Current(h).results EXCEPT ![Event(h)] = outcome]
    BY <1>2 DEF Outcomes
  <1>4. /\ results[Event(h)] # "none"
        /\ \A p : Current(h).results[p] # "none" /\ p \in Pdu => results[p] # "none"
    BY <1>2, <1>3 DEF Outcomes
  <1>5. PICK frame \in Frame : /\ frame = Advanced(Current(h), results)
                               /\ frame.name = Current(h).name /\ frame.results = results
                               /\ frame.todo = Tail(Current(h).todo)
    BY <1>1, AdvancedFields DEF Advanced
  <1>6. Elements(Current(h).todo) \subseteq Elements(frame.todo) \cup {Event(h)}
    BY <1>2, <1>5, RestElements DEF Event
  <1>7. frame.name.txn \in Txn
    BY DEF Frame, Name
  <1>8. \A i \in DOMAIN Body[frame.name.txn] : Body[frame.name.txn][i] \in Pdu
    BY <1>7, InboundAssumption
  <1>9. Covered(frame)
    BY <1>1, <1>4, <1>5, <1>6, <1>8 DEF Covered
  <1>10. Continue(h, frame)
    BY <1>3, <1>5 DEF Done
  <1> QED BY <1>9, <1>10, ContinueCovers

LEMMA NestedCovers ==
  ASSUME StacksOK, AllCovered, NEW h \in Handler, Busy(h), Event(h) \in Pdu,
         NEW place \in {"filled", "look"}, NEW kind \in {"missing", "auth"},
         NEW mode \in {"fill", "history"}, NEW pdus \in Seq(Pdu),
         Nest(h, Moved(Current(h), place), Begin(Nested(Current(h).name, kind, Event(h)),
         mode, pdus))
  PROVE  AllCovered'
  <1>1. Current(h) \in Frame /\ Covered(Current(h)) /\ place \in Places
    BY CurrentCovered DEF Places
  <1>2. Moved(Current(h), place) \in Frame /\ Covered(Moved(Current(h), place))
    BY <1>1, MovedFields, TaskKept, CoveredKept
  <1>3. Current(h).name \in Name
    BY <1>1 DEF Frame
  <1>4. PICK name \in Name : name = Nested(Current(h).name, kind, Event(h))
    BY <1>3, NestedName
  <1>5. name.path # <<>>
    <2>1. Current(h).name.path \in Seq({"missing", "auth"} \X Pdu)
      BY <1>3 DEF Name
    <2>2. PICK path \in Seq({"missing", "auth"} \X Pdu) : path = Current(h).name.path
      BY <2>1
    <2>3. PICK step \in {"missing", "auth"} \X Pdu : step = <<kind, Event(h)>>
      OBVIOUS
    <2>4. Append(path, step) # <<>>
      BY AppendProperties
    <2>5. name.path = Append(path, step)
      BY <1>3, <1>4, <2>2, <2>3 DEF Nested, Name
    <2> QED BY <2>4, <2>5
  <1>6. Begin(name, mode, pdus) \in Frame
    BY BeginFields
  <1>7. Covered(Begin(name, mode, pdus))
    BY <1>5 DEF Begin, Covered
  <1> QED BY <1>2, <1>4, <1>6, <1>7, NestCovers

LEMMA DeliverCovers ==
  ASSUME StacksOK, AllCovered, NEW h \in Handler, NEW t \in Txn, Deliver(h, t)
  PROVE  AllCovered'
  <1>1. PICK name \in Name : name = [txn |-> t, path |-> <<>>]
    <2>1. <<>> \in Seq({"missing", "auth"} \X Pdu)
      BY EmptySeq
    <2> QED BY <2>1 DEF Name
  <1>2. Body[t] \in Seq(Pdu)
    BY InboundAssumption
  <1>3. PICK frame \in Frame : frame = Begin(name, "live", Body[t])
    BY <1>2, BeginFields
  <1>4. Covered(frame)
    <2>1. \A i \in DOMAIN Body[t] : Body[t][i] \in Elements(Body[t])
      BY <1>2 DEF Elements
    <2>2. frame.name.txn = t /\ frame.todo = Body[t]
      BY <1>1, <1>3 DEF Begin
    <2> QED BY <2>1, <2>2 DEF Covered
  <1>5. PICK new \in Seq(Frame) : new = <<frame>> /\ Elements(new) = {frame}
    <2>1. <<frame>> \in Seq(Frame) /\ Len(<<frame>>) = 1 /\ <<frame>>[1] = frame
      OBVIOUS
    <2>2. Elements(<<frame>>) = {frame}
      BY <2>1 DEF Elements
    <2> QED BY <2>1, <2>2
  <1>6. stacks' = [stacks EXCEPT ![h] = new]
    BY <1>1, <1>3, <1>5 DEF Deliver
  <1> QED BY <1>4, <1>5, <1>6, CoveredStep

LEMMA CrashCovers ==
  ASSUME StacksOK, AllCovered, NEW h \in Handler, Crash(h)
  PROVE  AllCovered'
  <1>1. <<>> \in Seq(Frame) /\ Elements(<<>>) = {}
    BY DEF Elements
  <1> QED BY <1>1, CoveredStep DEF Crash

LEMMA FetchCovers ==
  ASSUME InboundInv, AllCovered, NEW h \in Handler, Fetch(h)
  PROVE  AllCovered'
  <1>1. Busy(h) /\ StacksOK
    BY DEF InboundInv, Fetch, NoGap, AskStateIds, AskMissingEvents, Filled, AskAuthEvents,
           LoseTrack,
           AtPrev, EventTurn, Gap, At
  <1>2. Event(h) \in Pdu
    <2>1. Current(h).at \notin {"begin", "prev"} => Current(h).todo # <<>>
      BY <1>1, CurrentFrame DEF InboundInv
    <2>2. Current(h).todo # <<>>
      BY <2>1 DEF Fetch, NoGap, AskStateIds, AskMissingEvents, Filled, AskAuthEvents, LoseTrack,
                  AtPrev, EventTurn, Gap, At
    <2> QED BY <1>1, <2>2, CurrentFrame DEF InboundInv
  <1>3. ASSUME NEW place \in {"auth", "look", "lost"}, GoTo(h, place) PROVE AllCovered'
    BY <1>1, <1>3, WithinCovers DEF Places
  <1>4. ASSUME NEW gap \in {"closed", "open"},
               Continue(h, Moved(WithGap(Current(h), gap), "auth"))
        PROVE  AllCovered'
    BY <1>1, <1>4, WithinCovers
  <1>5. CASE NoGap(h)
    BY <1>3, <1>5 DEF NoGap
  <1>6. CASE AskStateIds(h)
    BY <1>4, <1>6 DEF AskStateIds
  <1>7. CASE Filled(h)
    <2>1. PICK gap \in {"closed", "open"} : Continue(h, Moved(WithGap(Current(h), gap), "auth"))
      BY <1>7 DEF Filled
    <2> QED BY <1>4, <2>1
  <1>8. CASE AskMissingEvents(h)
    <2>1. ASSUME NEW pdus \in MissingAnswers[Event(h)],
                 Nest(h, Moved(Current(h), "filled"),
                      Begin(Nested(Current(h).name, "missing", Event(h)), "fill", pdus))
          PROVE  AllCovered'
      <3>1. pdus \in Seq(Pdu)
        BY <1>2, InboundAssumption
      <3> QED BY <1>1, <1>2, <2>1, <3>1, NestedCovers
    <2> QED BY <1>3, <1>8, <2>1 DEF AskMissingEvents
  <1>9. CASE AskAuthEvents(h)
    <2>1. ASSUME NEW pdus \in AuthAnswers[Event(h)],
                 Nest(h, Moved(Current(h), "look"),
                      Begin(Nested(Current(h).name, "auth", Event(h)), "history", pdus))
          PROVE  AllCovered'
      <3>1. pdus \in Seq(Pdu)
        BY <1>2, InboundAssumption
      <3> QED BY <1>1, <1>2, <2>1, <3>1, NestedCovers
    <2> QED BY <1>3, <1>9, <2>1 DEF AskAuthEvents
  <1>10. CASE LoseTrack(h)
    BY <1>3, <1>10 DEF LoseTrack
  <1> QED BY <1>5, <1>6, <1>7, <1>8, <1>9, <1>10 DEF Fetch

LEMMA ProcessCovers ==
  ASSUME InboundInv, AllCovered, NEW h \in Handler, Judge(h) \/ Apply(h)
  PROVE  AllCovered'
  <1>1. Busy(h) /\ StacksOK /\ Current(h).at \notin {"begin", "prev"}
    BY DEF InboundInv, Judge, AlreadyDecided, Look, Check, RecordDecision, Apply, StoreRow,
           SetState, ApplyState, Merge, Resolve, WriteResolved, EndResolved, Forward, At
  <1>2. Current(h).todo # <<>> /\ Event(h) \in Pdu
    BY <1>1, CurrentFrame DEF InboundInv
  <1>3. ASSUME NEW place \in Places, GoTo(h, place) PROVE AllCovered'
    BY <1>1, <1>3, WithinCovers
  <1>4. ASSUME NEW verdict \in {"accept", "defer", "soft_fail", "reject"}, Decide(h, verdict)
        PROVE  AllCovered'
    BY <1>1, <1>4, WithinCovers
  <1>5. ASSUME NEW outcome \in {"ok", "error"}, Done(h, outcome) PROVE AllCovered'
    BY <1>1, <1>2, <1>5, DoneCovers
  <1>6. {"check", "store", "state", "apply", "forward"} \subseteq Places
    BY DEF Places
  <1>7. CASE AlreadyDecided(h) \/ RecordDecision(h)
    <2>1. (\E outcome \in {"ok", "error"} : Done(h, outcome)) \/ GoTo(h, "store")
      BY <1>7 DEF AlreadyDecided, RecordDecision
    <2> QED BY <1>3, <1>5, <1>6, <2>1
  <1>8. CASE Look(h) \/ Check(h)
    <2>1. \/ \E verdict \in {"accept", "defer", "soft_fail", "reject"} : Decide(h, verdict)
          \/ GoTo(h, "check")
      BY <1>8, VerdictKinds DEF Look, Check
    <2> QED BY <1>3, <1>4, <1>6, <2>1
  <1>9. CASE StoreRow(h) \/ SetState(h) \/ ApplyState(h) \/ Forward(h)
    BY <1>3, <1>5, <1>6, <1>9 DEF StoreRow, SetState, ApplyState, Forward
  <1>10. CASE Merge(h)
    <2>1. Current(h) \in Frame /\ Covered(Current(h))
      BY <1>1, CurrentCovered
    <2>2. CASE GoTo(h, "forward")
      BY <1>3, <1>6, <2>2
    <2>3. ASSUME NEW frame \in Frame, SameTask(Current(h), frame), Continue(h, frame)
          PROVE  AllCovered'
      BY <1>1, <2>1, <2>3, CoveredKept, ContinueCovers
    <2> QED BY <1>10, <2>1, <2>2, <2>3, MergeGoesOn
  <1> QED BY <1>7, <1>8, <1>9, <1>10 DEF Judge, Apply

LEMMA RefuseCovers ==
  ASSUME InboundInv, AllCovered, NEW h \in Handler, Refuse(h)
  PROVE  AllCovered'
  BY RefuseEnds, DoneCovers DEF InboundInv

\* Only Answer writes to the cache, and what it writes has nothing left to do.
LEMMA AnswerCovers ==
  ASSUME StacksOK, AllCovered, AnswerIsComplete, NEW h \in Handler, Answer(h)
  PROVE  AllCovered' /\ AnswerIsComplete'
  <1>1. Busy(h) /\ Current(h).todo = <<>>
    BY DEF Answer, At
  <1>2. Covered(Current(h)) /\ Elements(Current(h).todo) = {}
    BY <1>1, CurrentCovered DEF Elements
  <1>3. PICK answer : answer = [name |-> Current(h).name, results |-> Current(h).results]
    OBVIOUS
  <1>4. answer.name = Current(h).name /\ answer.results = Current(h).results
    BY <1>3
  <1>5. answer.name.path = <<>> =>
           \A i \in DOMAIN Body[answer.name.txn] :
               answer.results[Body[answer.name.txn][i]] # "none"
    BY <1>2, <1>4 DEF Covered
  <1>6. cached' \subseteq cached \cup {answer}
    BY <1>3 DEF Answer
  <1>7. AnswerIsComplete'
    BY <1>5, <1>6 DEF AnswerIsComplete
  <1>8. PICK results : Return(h, results)
    BY DEF Answer
  <1> QED BY <1>1, <1>7, <1>8, ReturnCovers

LEMMA StillCovered ==
  ASSUME AllCovered, stacks' = stacks
  PROVE  AllCovered'
  <1>1. ASSUME NEW g \in Handler, NEW f \in Elements(stacks'[g])
        PROVE  Covered(f)
    BY DEF AllCovered
  <1> QED BY <1>1 DEF AllCovered, Elements

LEMMA CoveredNext ==
  ASSUME InboundInv, AllCovered, AnswerIsComplete, [Next]_vars
  PROVE  AllCovered' /\ AnswerIsComplete'
  <1>1. StacksOK
    BY DEF InboundInv
  <1>2. ASSUME NEW h \in Handler, Answer(h) PROVE AllCovered' /\ AnswerIsComplete'
    BY <1>1, <1>2, AnswerCovers
  <1>3. AnswerIsComplete' \/ \E h \in Handler : Answer(h)
    <2>1. cached' = cached \/ \E h \in Handler : Answer(h)
      BY DEF Next, vars, tables, Step, Deliver, Crash, AnswerAgain, StartEvents,
             Refuse, RejectMalformed, RejectNumber, RejectSender, Fetch, NoGap,
             AskStateIds, AskMissingEvents, Filled, AskAuthEvents, LoseTrack, Judge,
             AlreadyDecided,
             Look, Check, RecordDecision, Apply, StoreRow, SetState, ApplyState, Merge,
             Resolve, WriteResolved, EndResolved, Forward
    <2> QED BY <2>1 DEF AnswerIsComplete
  <1>4. ASSUME NEW h \in Handler, AnswerAgain(h) PROVE AllCovered'
    <2>1. Busy(h) /\ \E results : Return(h, results)
      BY <1>4 DEF AnswerAgain, At
    <2> QED BY <1>1, <2>1, ReturnCovers
  <1>5. ASSUME NEW h \in Handler, StartEvents(h) PROVE AllCovered'
    <2>1. Busy(h) /\ GoTo(h, "prev") /\ "prev" \in Places
      BY <1>5 DEF StartEvents, At, Places
    <2> QED BY <1>1, <2>1, WithinCovers
  <1>6. ASSUME UNCHANGED vars PROVE AllCovered'
    BY <1>6, StillCovered DEF vars
  <1>7. ASSUME NEW h \in Handler, Step(h) PROVE AllCovered'
    BY <1>2, <1>4, <1>5, <1>7, RefuseCovers, FetchCovers, ProcessCovers DEF Step
  <1>8. AllCovered'
    BY <1>1, <1>6, <1>7, DeliverCovers, CrashCovers DEF Next
  <1> QED BY <1>2, <1>3, <1>8

\* Every event the origin put in a transaction is in the answer it gets, from
\* the first handler or from the cache, whatever was nested meanwhile and
\* however many handlers process the same transaction at once.
THEOREM AnswersAreComplete == Spec => []AnswerIsComplete
  <1>1. Init => AllCovered /\ AnswerIsComplete
    BY DEF Init, AllCovered, Elements, AnswerIsComplete
  <1>2. InboundInv /\ AllCovered /\ AnswerIsComplete /\ [Next]_vars
           => AllCovered' /\ AnswerIsComplete'
    BY CoveredNext
  <1> QED BY <1>1, <1>2, InboundInductive, PTL DEF Spec

-----------------------------------------------------------------------------
(* The top of a handler's stack, and what waits beneath it.                 *)

LEMMA ConsHeadTail ==
  ASSUME NEW S, NEW s \in Seq(S), NEW e \in S
  PROVE  /\ <<e>> \o s \in Seq(S) /\ <<e>> \o s # <<>>
         /\ Head(<<e>> \o s) = e /\ Tail(<<e>> \o s) = s
  <1>1. <<e>> \in Seq(S) /\ Len(<<e>>) = 1 /\ <<e>>[1] = e
    OBVIOUS
  <1>2. PICK r \in Seq(S) : r = <<e>> \o s
    BY <1>1, ConcatProperties
  <1>3. Len(r) = 1 + Len(s) /\ \A i \in 1..(1 + Len(s)) : r[i] = IF i <= 1 THEN e ELSE s[i - 1]
    BY <1>1, <1>2, ConcatProperties
  <1>4. Len(s) \in Nat /\ r # <<>>
    BY <1>3, LenProperties
  <1>5. /\ Head(r) = r[1] /\ Tail(r) \in Seq(S) /\ Len(Tail(r)) = Len(s)
        /\ \A i \in 1..Len(Tail(r)) : Tail(r)[i] = r[i + 1]
    BY <1>3, <1>4, HeadTailProperties
  <1>6. \A i \in 1..Len(s) : Tail(r)[i] = s[i]
    BY <1>3, <1>4, <1>5
  <1>7. Tail(r) = s
    BY <1>5, <1>6, SeqEqual
  <1> QED BY <1>2, <1>3, <1>4, <1>5, <1>7

LEMMA ContinueTop ==
  ASSUME StacksOK, NEW h \in Handler, Busy(h), NEW frame \in Frame, Continue(h, frame)
  PROVE  /\ stacks'[h] # <<>> /\ Head(stacks'[h]) = frame
         /\ Tail(stacks'[h]) = Tail(stacks[h])
  <1>1. stacks[h] \in Seq(Frame) /\ stacks[h] # <<>>
    BY DEF StacksOK, Busy
  <1>2. PICK rest \in Seq(Frame) : rest = Tail(stacks[h])
    BY <1>1, TailElements
  <1>3. stacks'[h] = <<frame>> \o rest
    BY <1>2 DEF Continue, StacksOK
  <1> QED BY <1>2, <1>3, ConsHeadTail

LEMMA NestTop ==
  ASSUME StacksOK, NEW h \in Handler, Busy(h), NEW frame \in Frame, NEW inner \in Frame,
         Nest(h, frame, inner)
  PROVE  /\ stacks'[h] # <<>> /\ Head(stacks'[h]) = inner
         /\ Elements(Tail(stacks'[h])) \subseteq Elements(Tail(stacks[h])) \cup {frame}
  <1>1. stacks[h] \in Seq(Frame) /\ stacks[h] # <<>>
    BY DEF StacksOK, Busy
  <1>2. PICK rest \in Seq(Frame) : rest = Tail(stacks[h])
    BY <1>1, TailElements
  <1>3. PICK outer \in Seq(Frame) :
           outer = <<frame>> \o rest /\ Elements(outer) \subseteq Elements(rest) \cup {frame}
    BY ConsElements
  <1>4. <<inner, frame>> \o rest = <<inner>> \o outer
    BY <1>3
  <1>5. stacks'[h] = <<inner>> \o outer
    BY <1>2, <1>4 DEF Nest, StacksOK
  <1>6. stacks'[h] # <<>> /\ Head(stacks'[h]) = inner /\ Tail(stacks'[h]) = outer
    BY <1>5, ConsHeadTail
  <1>7. Elements(Tail(stacks'[h])) \subseteq Elements(rest) \cup {frame}
    BY <1>3, <1>6
  <1> QED BY <1>2, <1>6, <1>7

\* What comes to the top when a transaction is over waited right beneath it.
LEMMA ReturnTop ==
  ASSUME StacksOK, NEW h \in Handler, Busy(h), NEW results, Return(h, results),
         stacks'[h] # <<>>
  PROVE  \E caller \in Elements(Tail(stacks[h])) :
            /\ Head(stacks'[h]).at = caller.at
            /\ Elements(Tail(stacks'[h])) \subseteq Elements(Tail(stacks[h]))
  <1>1. stacks[h] \in Seq(Frame) /\ stacks[h] # <<>>
    BY DEF StacksOK, Busy
  <1>2. PICK rest \in Seq(Frame) : rest = Tail(stacks[h])
    BY <1>1, TailElements
  <1>3. PICK events \in SUBSET Pdu : events = {p \in Pdu : results[p] # "none"}
    OBVIOUS
  <1>4. stacks'[h] = IF rest = <<>> THEN <<>>
                     ELSE <<[Head(rest) EXCEPT !.fetched = events]>> \o Tail(rest)
    BY <1>2, <1>3 DEF Return, StacksOK
  <1>5. /\ rest # <<>>
        /\ Head(rest) \in Frame /\ Head(rest) \in Elements(rest)
        /\ Tail(rest) \in Seq(Frame) /\ Elements(Tail(rest)) \subseteq Elements(rest)
    BY <1>4, TailElements
  <1>6. PICK caller \in Frame : caller = Head(rest)
    BY <1>5
  <1>7. PICK told \in Frame : told = [caller EXCEPT !.fetched = events] /\ told.at = caller.at
    BY FetchedFields
  <1>8. stacks'[h] = <<told>> \o Tail(rest)
    BY <1>4, <1>5, <1>6, <1>7
  <1>9. Head(stacks'[h]) = told /\ Tail(stacks'[h]) = Tail(rest)
    BY <1>5, <1>8, ConsHeadTail
  <1> QED BY <1>2, <1>5, <1>6, <1>7, <1>9

-----------------------------------------------------------------------------
(* A decision is final while one handler runs.  What it looked up before an *)
(* event's checks still holds when it records the decision, because nothing *)
(* nested is processed in between: a transaction that waits for a nested    *)
(* one has its look still before it.                                        *)

Waiting ==
    \A h \in Handler :
        Busy(h) => \A f \in Elements(Tail(stacks[h])) : f.at \in {"filled", "look"}

Undecided ==
    \A h \in Handler :
        Busy(h) /\ Current(h).at \in {"check", "record"} => processed[Event(h)] = "none"

FreshInv == Waiting /\ Undecided

\* There is one handler, and its stack becomes one with these properties.
LEMMA FreshStep ==
  ASSUME StacksOK, FreshInv, \A g, i \in Handler : g = i, NEW h \in Handler,
         \A f \in Elements(Tail(stacks'[h])) : f.at \in {"filled", "look"},
         /\ stacks'[h] # <<>>
         /\ Head(stacks'[h]).at \in {"check", "record"}
            => processed'[Head(Head(stacks'[h]).todo)] = "none"
  PROVE  FreshInv'
  BY DEF FreshInv, Waiting, Undecided, Busy, Current, Event, Elements

LEMMA FreshContinue ==
  ASSUME StacksOK, FreshInv, \A g, i \in Handler : g = i, NEW h \in Handler, Busy(h),
         NEW frame \in Frame, Continue(h, frame),
         frame.at \in {"check", "record"} => processed'[Head(frame.todo)] = "none"
  PROVE  FreshInv'
  <1>1. /\ stacks'[h] # <<>> /\ Head(stacks'[h]) = frame
        /\ Tail(stacks'[h]) = Tail(stacks[h])
    BY ContinueTop
  <1>2. \A f \in Elements(Tail(stacks'[h])) : f.at \in {"filled", "look"}
    BY <1>1 DEF FreshInv, Waiting
  <1> QED BY <1>1, <1>2, FreshStep

LEMMA FreshGoTo ==
  ASSUME StacksOK, AllSound, FreshInv, \A g, i \in Handler : g = i, NEW h \in Handler, Busy(h),
         NEW place \in Places, GoTo(h, place),
         place \in {"check", "record"} => processed'[Event(h)] = "none"
  PROVE  FreshInv'
  <1>1. Current(h) \in Frame
    BY CurrentFrame
  <1>2. PICK frame \in Frame : /\ frame = Moved(Current(h), place) /\ frame.at = place
                               /\ frame.todo = Current(h).todo
    BY <1>1, MovedFields
  <1>3. Continue(h, frame) /\ Head(frame.todo) = Event(h)
    BY <1>2 DEF GoTo, Event
  <1> QED BY <1>2, <1>3, FreshContinue

LEMMA FreshDecide ==
  ASSUME StacksOK, AllSound, FreshInv, \A g, i \in Handler : g = i, NEW h \in Handler, Busy(h),
         NEW verdict \in {"accept", "defer", "soft_fail", "reject"}, Decide(h, verdict),
         processed'[Event(h)] = "none"
  PROVE  FreshInv'
  <1>1. Current(h) \in Frame
    BY CurrentFrame
  <1>2. PICK judged \in Frame : judged = Judged(Current(h), verdict)
                                /\ judged.todo = Current(h).todo
    BY <1>1, JudgedFields
  <1>3. PICK frame \in Frame : frame = Moved(judged, "record") /\ frame.todo = judged.todo
    BY <1>2, MovedFields DEF Places
  <1>4. Continue(h, frame) /\ Head(frame.todo) = Event(h)
    BY <1>2, <1>3 DEF Decide, Event
  <1> QED BY <1>4, FreshContinue

LEMMA FreshDone ==
  ASSUME StacksOK, AllSound, FreshInv, \A g, i \in Handler : g = i, NEW h \in Handler, Busy(h),
         Current(h).todo # <<>>, NEW outcome \in {"ok", "error"}, Done(h, outcome)
  PROVE  FreshInv'
  <1>1. Current(h) \in Frame /\ Event(h) \in Pdu
    BY CurrentFrame
  <1>2. Current(h).results \in Outcomes
    BY <1>1 DEF Frame
  <1>3. PICK results \in Outcomes : results = [Current(h).results EXCEPT ![Event(h)] = outcome]
    BY <1>1, <1>2 DEF Outcomes
  <1>4. PICK frame \in Frame : frame = Advanced(Current(h), results) /\ frame.at = "prev"
    BY <1>1, AdvancedFields
  <1>5. Continue(h, frame)
    BY <1>3, <1>4 DEF Done
  <1> QED BY <1>4, <1>5, FreshContinue

LEMMA FreshNest ==
  ASSUME StacksOK, AllSound, FreshInv, \A g, i \in Handler : g = i, NEW h \in Handler, Busy(h),
         Current(h).todo # <<>>,
         NEW place \in {"filled", "look"}, NEW kind \in {"missing", "auth"},
         NEW mode \in {"fill", "history"}, NEW pdus \in Seq(Pdu),
         Nest(h, Moved(Current(h), place), Begin(Nested(Current(h).name, kind, Event(h)),
         mode, pdus))
  PROVE  FreshInv'
  <1>1. Current(h) \in Frame /\ Event(h) \in Pdu /\ place \in Places
    BY CurrentFrame DEF Places
  <1>2. PICK frame \in Frame : frame = Moved(Current(h), place) /\ frame.at = place
    BY <1>1, MovedFields
  <1>3. Current(h).name \in Name
    BY <1>1 DEF Frame
  <1>4. PICK name \in Name : name = Nested(Current(h).name, kind, Event(h))
    BY <1>1, <1>3, NestedName
  <1>5. PICK inner \in Frame : inner = Begin(name, mode, pdus) /\ inner.at = "begin"
    BY BeginFields
  <1>6. Nest(h, frame, inner)
    BY <1>2, <1>4, <1>5
  <1>7. /\ stacks'[h] # <<>> /\ Head(stacks'[h]) = inner
        /\ Elements(Tail(stacks'[h])) \subseteq Elements(Tail(stacks[h])) \cup {frame}
    BY <1>6, NestTop
  <1>8. \A f \in Elements(Tail(stacks'[h])) : f.at \in {"filled", "look"}
    BY <1>2, <1>7 DEF FreshInv, Waiting
  <1> QED BY <1>5, <1>7, <1>8, FreshStep

LEMMA FreshReturn ==
  ASSUME StacksOK, FreshInv, \A g, i \in Handler : g = i, NEW h \in Handler, Busy(h),
         NEW results, Return(h, results)
  PROVE  FreshInv'
  <1>1. CASE stacks'[h] = <<>>
    <2>1. \A g \in Handler : ~Busy(g)'
      BY <1>1 DEF Busy
    <2> QED BY <2>1 DEF FreshInv, Waiting, Undecided
  <1>2. CASE stacks'[h] # <<>>
    <2>1. PICK caller \in Elements(Tail(stacks[h])) :
             /\ Head(stacks'[h]).at = caller.at
             /\ Elements(Tail(stacks'[h])) \subseteq Elements(Tail(stacks[h]))
      BY <1>2, ReturnTop
    <2>2. Head(stacks'[h]).at \in {"filled", "look"}
      BY <2>1 DEF FreshInv, Waiting
    <2>3. \A f \in Elements(Tail(stacks'[h])) : f.at \in {"filled", "look"}
      BY <2>1 DEF FreshInv, Waiting
    <2> QED BY <1>2, <2>2, <2>3, FreshStep
  <1> QED BY <1>1, <1>2

\* An answer of the origin to a handler's question is a sequence of events.
LEMMA FreshFetch ==
  ASSUME InboundInv, FreshInv, \A g, i \in Handler : g = i, NEW h \in Handler, Fetch(h)
  PROVE  FreshInv'
  <1>1. Busy(h) /\ StacksOK /\ AllSound
    BY DEF InboundInv, Fetch, NoGap, AskStateIds, AskMissingEvents, Filled, AskAuthEvents,
           LoseTrack,
           AtPrev, EventTurn, Gap, At
  <1>2. Current(h).todo # <<>> /\ Event(h) \in Pdu /\ Current(h) \in Frame
    <2>1. Current(h).at \notin {"begin", "prev"} => Current(h).todo # <<>>
      BY <1>1, CurrentFrame
    <2>2. Current(h).todo # <<>>
      BY <2>1 DEF Fetch, NoGap, AskStateIds, AskMissingEvents, Filled, AskAuthEvents, LoseTrack,
                  AtPrev, EventTurn, Gap, At
    <2> QED BY <1>1, <2>2, CurrentFrame
  <1>3. ASSUME NEW place \in {"auth", "look", "lost"}, GoTo(h, place) PROVE FreshInv'
    BY <1>1, <1>3, FreshGoTo DEF Places
  <1>4. ASSUME NEW gap \in {"closed", "open"},
               Continue(h, Moved(WithGap(Current(h), gap), "auth"))
        PROVE  FreshInv'
    <2>1. WithGap(Current(h), gap) \in Frame /\ "auth" \in Places
      BY <1>2, GapFields DEF Places
    <2>2. PICK frame \in Frame : frame = Moved(WithGap(Current(h), gap), "auth")
                                 /\ frame.at = "auth"
      BY <2>1, MovedFields
    <2> QED BY <1>1, <1>4, <2>2, FreshContinue
  <1>5. CASE NoGap(h)
    BY <1>3, <1>5 DEF NoGap
  <1>6. CASE AskStateIds(h)
    BY <1>4, <1>6 DEF AskStateIds
  <1>7. CASE Filled(h)
    <2>1. PICK gap \in {"closed", "open"} : Continue(h, Moved(WithGap(Current(h), gap), "auth"))
      BY <1>7 DEF Filled
    <2> QED BY <1>4, <2>1
  <1>8. CASE AskMissingEvents(h)
    <2>1. ASSUME NEW pdus \in MissingAnswers[Event(h)],
                 Nest(h, Moved(Current(h), "filled"),
                      Begin(Nested(Current(h).name, "missing", Event(h)), "fill", pdus))
          PROVE  FreshInv'
      <3>1. pdus \in Seq(Pdu)
        BY <1>2, InboundAssumption
      <3> QED BY <1>1, <1>2, <2>1, <3>1, FreshNest
    <2> QED BY <1>3, <1>8, <2>1 DEF AskMissingEvents
  <1>9. CASE AskAuthEvents(h)
    <2>1. ASSUME NEW pdus \in AuthAnswers[Event(h)],
                 Nest(h, Moved(Current(h), "look"),
                      Begin(Nested(Current(h).name, "auth", Event(h)), "history", pdus))
          PROVE  FreshInv'
      <3>1. pdus \in Seq(Pdu)
        BY <1>2, InboundAssumption
      <3> QED BY <1>1, <1>2, <2>1, <3>1, FreshNest
    <2> QED BY <1>3, <1>9, <2>1 DEF AskAuthEvents
  <1>10. CASE LoseTrack(h)
    BY <1>3, <1>10 DEF LoseTrack
  <1> QED BY <1>5, <1>6, <1>7, <1>8, <1>9, <1>10 DEF Fetch

\* Only Look takes an event to its checks, and it has looked the event up; Check
\* leaves the decisions alone; and RecordDecision is the end of both.
LEMMA FreshProcess ==
  ASSUME InboundInv, FreshInv, \A g, i \in Handler : g = i, NEW h \in Handler,
         Judge(h) \/ Apply(h)
  PROVE  FreshInv'
  <1>1. Busy(h) /\ StacksOK /\ AllSound /\ Current(h).at \notin {"begin", "prev"}
    BY DEF InboundInv, Judge, AlreadyDecided, Look, Check, RecordDecision, Apply, StoreRow,
           SetState, ApplyState, Merge, Resolve, WriteResolved, EndResolved, Forward, At
  <1>2. Current(h).todo # <<>> /\ Event(h) \in Pdu
    BY <1>1, CurrentFrame
  <1>3. ASSUME NEW place \in {"store", "state", "apply", "merge", "forward"}, GoTo(h, place)
        PROVE  FreshInv'
    BY <1>1, <1>3, FreshGoTo DEF Places
  <1>4. ASSUME NEW verdict \in {"accept", "defer", "soft_fail", "reject"}, Decide(h, verdict),
               processed'[Event(h)] = "none"
        PROVE  FreshInv'
    BY <1>1, <1>4, FreshDecide
  <1>5. ASSUME NEW outcome \in {"ok", "error"}, Done(h, outcome) PROVE FreshInv'
    BY <1>1, <1>2, <1>5, FreshDone
  <1>6. CASE AlreadyDecided(h) \/ RecordDecision(h)
    <2>1. (\E outcome \in {"ok", "error"} : Done(h, outcome)) \/ GoTo(h, "store")
      BY <1>6 DEF AlreadyDecided, RecordDecision
    <2> QED BY <1>3, <1>5, <2>1
  <1>7. CASE Look(h)
    <2>1. processed'[Event(h)] = "none"
      BY <1>7 DEF Look, tables
    <2>2. (\E verdict \in {"accept", "defer", "soft_fail", "reject"} : Decide(h, verdict))
             \/ GoTo(h, "check")
      BY <1>7 DEF Look
    <2>3. "check" \in Places
      BY DEF Places
    <2> QED BY <1>1, <1>4, <2>1, <2>2, <2>3, FreshGoTo
  <1>8. CASE Check(h)
    <2>1. processed'[Event(h)] = "none"
      BY <1>1, <1>8 DEF Check, tables, At, FreshInv, Undecided
    <2>2. \E verdict \in {"accept", "defer", "soft_fail", "reject"} : Decide(h, verdict)
      BY <1>8, VerdictKinds DEF Check
    <2> QED BY <1>4, <2>1, <2>2
  <1>9. CASE StoreRow(h) \/ SetState(h) \/ ApplyState(h) \/ Forward(h)
    BY <1>3, <1>5, <1>9 DEF StoreRow, SetState, ApplyState, Forward
  <1>10. CASE Merge(h)
    <2>1. Current(h) \in Frame
      BY <1>1, CurrentFrame
    <2>2. CASE GoTo(h, "forward")
      BY <1>3, <2>2
    <2>3. ASSUME NEW frame \in Frame, frame.at = "merge", Continue(h, frame)
          PROVE  FreshInv'
      BY <1>1, <2>3, FreshContinue
    <2> QED BY <1>10, <2>1, <2>2, <2>3, MergeGoesOn
  <1> QED BY <1>6, <1>7, <1>8, <1>9, <1>10 DEF Judge, Apply

LEMMA FreshRefuse ==
  ASSUME InboundInv, FreshInv, \A g, i \in Handler : g = i, NEW h \in Handler, Refuse(h)
  PROVE  FreshInv'
  BY RefuseEnds, FreshDone DEF InboundInv

LEMMA FreshDeliver ==
  ASSUME StacksOK, FreshInv, \A g, i \in Handler : g = i, NEW h \in Handler, NEW t \in Txn,
         Deliver(h, t)
  PROVE  FreshInv'
  <1>1. <<>> \in Seq({"missing", "auth"} \X Pdu) /\ <<>> \in Seq(Frame)
    BY EmptySeq
  <1>2. PICK name \in Name : name = [txn |-> t, path |-> <<>>]
    BY <1>1 DEF Name
  <1>3. Body[t] \in Seq(Pdu)
    BY InboundAssumption
  <1>4. PICK frame \in Frame : frame = Begin(name, "live", Body[t]) /\ frame.at = "begin"
    BY <1>3, BeginFields
  <1>5. stacks'[h] = <<frame>> \o <<>>
    BY <1>2, <1>4 DEF Deliver, StacksOK
  <1>6. stacks'[h] # <<>> /\ Head(stacks'[h]) = frame /\ Tail(stacks'[h]) = <<>>
    BY <1>1, <1>5, ConsHeadTail
  <1>7. Elements(Tail(stacks'[h])) = {}
    <2>1. Elements(<<>>) = {}
      BY DEF Elements
    <2> QED BY <1>6, <2>1
  <1> QED BY <1>4, <1>6, <1>7, FreshStep

LEMMA FreshNext ==
  ASSUME InboundInv, FreshInv, \A g, i \in Handler : g = i, [Next]_vars
  PROVE  FreshInv'
  <1>1. StacksOK /\ AllSound
    BY DEF InboundInv
  <1>2. ASSUME NEW h \in Handler, Answer(h) \/ AnswerAgain(h) PROVE FreshInv'
    <2>1. Busy(h) /\ \E results : Return(h, results)
      BY <1>2 DEF Answer, AnswerAgain, At
    <2> QED BY <1>1, <2>1, FreshReturn
  <1>3. ASSUME NEW h \in Handler, StartEvents(h) PROVE FreshInv'
    <2>1. Busy(h) /\ GoTo(h, "prev") /\ "prev" \in Places
      BY <1>3 DEF StartEvents, At, Places
    <2> QED BY <1>1, <2>1, FreshGoTo
  <1>4. ASSUME NEW h \in Handler, Crash(h) PROVE FreshInv'
    BY <1>1, <1>4 DEF Crash, StacksOK, FreshInv, Waiting, Undecided, Busy
  <1>5. ASSUME UNCHANGED vars PROVE FreshInv'
    BY <1>5 DEF vars, tables, FreshInv, Waiting, Undecided, Busy, Current, Event, Elements
  <1>6. ASSUME NEW h \in Handler, Step(h) PROVE FreshInv'
    BY <1>2, <1>3, <1>6, FreshRefuse, FreshFetch, FreshProcess DEF Step
  <1> QED BY <1>1, <1>4, <1>5, <1>6, FreshDeliver DEF Next

\* A step that writes a decision writes one for an event that had none, or
\* rejects one that cannot have been accepted.
LEMMA DecidesOnce ==
  ASSUME InboundInv, FreshInv, [Next]_vars, NEW p \in Pdu, processed[p] # "none"
  PROVE  processed'[p] = processed[p]
  <1>1. processed \in [Pdu -> {"none", "accepted", "rejected"}]
    BY DEF InboundInv, TablesOK
  <1>2. CASE processed' = processed
    BY <1>2
  <1>3. CASE processed' # processed
    <2>1. PICK h \in Handler : RecordDecision(h) \/ RejectNumber(h)
      BY <1>3 DEF Next, vars, tables, Step, Deliver, Crash, AnswerAgain, StartEvents, Answer,
                  Refuse, RejectMalformed, RejectSender, Fetch, NoGap, AskStateIds,
                  AskMissingEvents, Filled, AskAuthEvents, LoseTrack, Judge,
                  AlreadyDecided, Look, Check, Apply, StoreRow, SetState, ApplyState, Merge,
                  Resolve, WriteResolved, EndResolved, Forward
    <2>2. CASE RecordDecision(h)
      <3>1. processed[Event(h)] = "none"
        BY <2>2 DEF RecordDecision, At, FreshInv, Undecided
      <3>2. p # Event(h)
        BY <3>1
      <3> QED BY <1>1, <2>2, <3>2 DEF RecordDecision
    <2>3. CASE RejectNumber(h)
      <3>1. processed' = [processed EXCEPT ![Event(h)] = "rejected"]
            /\ Fault[Event(h)] = "number"
        BY <2>3 DEF RejectNumber
      <3>2. p = Event(h) => processed[p] = "rejected"
        BY <1>1, <3>1 DEF InboundInv, NumbersRejected
      <3> QED BY <1>1, <3>1, <3>2
    <2> QED BY <2>1, <2>2, <2>3
  <1> QED BY <1>2, <1>3

\* While one handler runs, an event's decision never changes, however often
\* transactions come again, whatever is nested in them and wherever the worker
\* stops.  Two handlers can both look before either records (INSERT OR REPLACE
\* keeps the last), so the hypothesis is needed.
THEOREM OneHandlerDecidesOnce ==
  ASSUME \A g, i \in Handler : g = i
  PROVE  Spec => DecisionIsFinal
  <1>1. Init => FreshInv
    BY DEF Init, FreshInv, Waiting, Undecided, Busy
  <1>2. InboundInv /\ FreshInv /\ [Next]_vars => FreshInv'
    BY FreshNext
  <1>3. InboundInv /\ FreshInv /\ [Next]_vars
           => [\A p \in Pdu : processed[p] # "none" => processed'[p] = processed[p]]_vars
    BY DecidesOnce
  <1> QED BY <1>1, <1>2, <1>3, InboundInductive, PTL DEF Spec, DecisionIsFinal

-----------------------------------------------------------------------------
(* Only a worker that stops loses an accepted event's row: while none does, *)
(* an accepted event has its row, or a handler is about to store it.        *)

Accounted ==
    \A p \in Pdu : processed[p] = "accepted" =>
        p \in stored \/ \E h \in Handler : At(h, "store") /\ Event(h) = p

\* A handler that is not at its row's insertion leaves those that are.
LEMMA OthersStore ==
  ASSUME StacksOK, Accounted, Grows, NEW h \in Handler, ~At(h, "store"), NEW new,
         stacks' = [stacks EXCEPT ![h] = new],
         NEW p \in Pdu, processed[p] = "accepted"
  PROVE  p \in stored' \/ \E g \in Handler : At(g, "store")' /\ Event(g)' = p
  <1>1. CASE p \in stored
    BY <1>1 DEF Grows
  <1>2. CASE p \notin stored
    <2>1. PICK g \in Handler : At(g, "store") /\ Event(g) = p
      BY <1>2 DEF Accounted
    <2>2. stacks'[g] = stacks[g]
      BY <2>1 DEF StacksOK
    <2>3. At(g, "store")' /\ Event(g)' = p
      BY <2>1, <2>2 DEF At, Busy, Event, Current
    <2> QED BY <2>3
  <1> QED BY <1>1, <1>2

LEMMA DecisionsAccounted ==
  ASSUME InboundInv, Accounted, NEW h \in Handler, RecordDecision(h)
  PROVE  Accounted'
  <1>1. /\ StacksOK /\ AllSound /\ Busy(h) /\ ~At(h, "store") /\ Current(h).at = "record"
        /\ Current(h) \in Frame /\ Event(h) \in Pdu
    <2>1. StacksOK /\ AllSound /\ Busy(h) /\ Current(h).at = "record"
      BY DEF InboundInv, RecordDecision, At
    <2>2. Current(h).todo # <<>>
      BY <2>1, CurrentFrame
    <2> QED BY <2>1, <2>2, CurrentFrame DEF At
  <1>2. processed \in [Pdu -> {"none", "accepted", "rejected"}]
    BY DEF InboundInv, TablesOK
  <1>3. Grows
    BY <1>1, <1>2 DEF RecordDecision, Grows
  <1>4. PICK new : stacks' = [stacks EXCEPT ![h] = new]
    BY DEF RecordDecision, GoTo, Done, Continue
  <1>5. ASSUME NEW p \in Pdu, processed'[p] = "accepted", p # Event(h)
        PROVE  p \in stored' \/ \E g \in Handler : At(g, "store")' /\ Event(g)' = p
    <2>1. processed[p] = "accepted"
      BY <1>1, <1>2, <1>5 DEF RecordDecision
    <2> QED BY <1>1, <1>3, <1>4, <2>1, OthersStore
  <1>6. ASSUME processed'[Event(h)] = "accepted"
        PROVE  At(h, "store")' /\ Event(h)' = Event(h)
    <2>1. GoTo(h, "store")
      BY <1>1, <1>2, <1>6 DEF RecordDecision
    <2>2. PICK frame \in Frame : /\ frame = Moved(Current(h), "store") /\ frame.at = "store"
                                 /\ frame.todo = Current(h).todo
      BY <1>1, MovedFields DEF Places
    <2>3. stacks'[h] # <<>> /\ Head(stacks'[h]) = frame
      BY <1>1, <2>1, <2>2, ContinueTop DEF GoTo
    <2> QED BY <2>2, <2>3 DEF At, Busy, Event, Current
  <1> QED BY <1>5, <1>6 DEF Accounted

LEMMA RefuseAccounted ==
  ASSUME InboundInv, Accounted, NEW h \in Handler, Refuse(h)
  PROVE  Accounted'
  <1>1. /\ StacksOK /\ AllSound
        /\ processed \in [Pdu -> {"none", "accepted", "rejected"}]
    BY DEF InboundInv, TablesOK
  <1>2. ~At(h, "store") /\ Event(h) \in Pdu /\ Done(h, "error")
    BY <1>1, RefuseEnds
  <1>3. PICK new : stacks' = [stacks EXCEPT ![h] = new]
    BY <1>2 DEF Done, Continue
  <1>4. /\ stored' = stored
        /\ processed' = processed \/ processed' = [processed EXCEPT ![Event(h)] = "rejected"]
    BY DEF Refuse, RejectMalformed, RejectNumber, RejectSender, tables
  <1>5. Grows
    BY <1>1, <1>4 DEF Grows
  <1>6. \A p \in Pdu : processed'[p] = "accepted" => processed[p] = "accepted"
    BY <1>1, <1>4
  <1> QED BY <1>1, <1>2, <1>3, <1>5, <1>6, OthersStore DEF Accounted

LEMMA AccountedNext ==
  ASSUME InboundInv, Accounted, [SteadyNext]_vars
  PROVE  Accounted'
  <1>1. StacksOK /\ processed \in [Pdu -> {"none", "accepted", "rejected"}]
    BY DEF InboundInv, TablesOK
  <1>2. ASSUME UNCHANGED vars PROVE Accounted'
    BY <1>2 DEF vars, tables, Accounted, At, Busy, Event, Current
  <1>3. ASSUME NEW h \in Handler, RecordDecision(h) PROVE Accounted'
    BY <1>3, DecisionsAccounted
  <1>4. ASSUME NEW h \in Handler, StoreRow(h) PROVE Accounted'
    <2>1. stored' = stored \cup {Event(h)} /\ processed' = processed
      BY <1>4 DEF StoreRow
    <2>2. \A g \in Handler : g # h => stacks'[g] = stacks[g]
      BY <1>1, <1>4 DEF StoreRow, Done, GoTo, Continue, StacksOK
    <2>3. ASSUME NEW p \in Pdu, processed[p] = "accepted", p \notin stored'
          PROVE  \E g \in Handler : At(g, "store")' /\ Event(g)' = p
      <3>1. PICK g \in Handler : At(g, "store") /\ Event(g) = p
        BY <2>1, <2>3 DEF Accounted
      <3>2. g # h
        BY <2>1, <2>3, <3>1
      <3> QED BY <2>2, <3>1, <3>2 DEF At, Busy, Event, Current
    <2> QED BY <2>1, <2>3 DEF Accounted
  <1>5. ASSUME NEW h \in Handler, ~At(h, "store"), NEW new,
               stacks' = [stacks EXCEPT ![h] = new],
               processed' = processed, stored' = stored
        PROVE  Accounted'
    <2>1. Grows
      BY <1>5 DEF Grows
    <2> QED BY <1>1, <1>5, <2>1, OthersStore DEF Accounted
  <1>6. ASSUME NEW h \in Handler, NEW t \in Txn, Deliver(h, t) PROVE Accounted'
    <2>1. /\ ~At(h, "store") /\ processed' = processed /\ stored' = stored
          /\ \E new : stacks' = [stacks EXCEPT ![h] = new]
      BY <1>6 DEF Deliver, At, tables
    <2> QED BY <1>5, <2>1
  <1>7. ASSUME NEW h \in Handler, Answer(h) \/ AnswerAgain(h) PROVE Accounted'
    <2>1. ~At(h, "store") /\ processed' = processed /\ stored' = stored
      BY <1>7 DEF Answer, AnswerAgain, At, tables
    <2>2. PICK results : Return(h, results)
      BY <1>7 DEF Answer, AnswerAgain
    <2>3. \E new : stacks' = [stacks EXCEPT ![h] = new]
      BY <2>2 DEF Return
    <2> QED BY <1>5, <2>1, <2>3
  <1>8. ASSUME NEW h \in Handler, StartEvents(h) \/ Fetch(h) PROVE Accounted'
    <2>1. ~At(h, "store") /\ processed' = processed /\ stored' = stored
      BY <1>8 DEF StartEvents, Fetch, NoGap, AskStateIds, AskMissingEvents, Filled,
                  AskAuthEvents, LoseTrack, AtPrev, EventTurn, Gap, At, tables
    <2>2. \E new : stacks' = [stacks EXCEPT ![h] = new]
      BY <1>8 DEF StartEvents, Fetch, NoGap, AskStateIds, AskMissingEvents, Filled,
                  AskAuthEvents, LoseTrack, GoTo, Continue, Nest
    <2> QED BY <1>5, <2>1, <2>2
  <1>9. ASSUME NEW h \in Handler,
               \/ AlreadyDecided(h) \/ Look(h) \/ Check(h)
               \/ SetState(h) \/ ApplyState(h) \/ Merge(h) \/ Forward(h)
        PROVE  Accounted'
    <2>1. ~At(h, "store") /\ processed' = processed /\ stored' = stored
      BY <1>9 DEF AlreadyDecided, Look, Check, SetState, ApplyState, Merge, Resolve,
                  WriteResolved, EndResolved, Forward, At, tables
    <2>2. \E new : stacks' = [stacks EXCEPT ![h] = new]
      BY <1>9 DEF AlreadyDecided, Look, Check, SetState, ApplyState, Merge, Resolve,
                  WriteResolved, EndResolved, Forward, Decide, Done,
                  GoTo, Continue
    <2> QED BY <1>5, <2>1, <2>2
  <1>10. ASSUME NEW h \in Handler, Step(h) PROVE Accounted'
    <2>1. Refuse(h) => Accounted'
      BY <1>1, RefuseAccounted
    <2> QED BY <1>3, <1>4, <1>7, <1>8, <1>9, <1>10, <2>1 DEF Step, Judge, Apply
  <1> QED BY <1>2, <1>6, <1>10 DEF SteadyNext

\* While no worker stops, an accepted event has its row once no handler is
\* between its decision and its row, for any number of handlers and answers of
\* the origin: only a stop (or an exception) at that point loses it.
THEOREM SteadyStoresAccepted == SteadySpec => []AcceptedIsStored
  <1>1. Init => Accounted
    BY DEF Init, Accounted
  <1>2. [SteadyNext]_vars => [Next]_vars
    BY DEF SteadyNext, Next
  <1>3. InboundInv /\ Accounted /\ [SteadyNext]_vars => InboundInv' /\ Accounted'
    BY <1>2, NextInv, AccountedNext
  <1>4. Accounted => AcceptedIsStored
    BY DEF Accounted, AcceptedIsStored, Settled, At
  <1> QED BY <1>1, <1>3, <1>4, InitInv, PTL DEF SteadySpec

-----------------------------------------------------------------------------
(* The end of a handler.  A transaction's events are processed one after    *)
(* the other and each goes from place to place in one order, but for the    *)
(* keys of a resolved state, which are written one after the other in one   *)
(* place; a nested transaction is begun only by going on to the next place, *)
(* so that an event begins two of them at most.                             *)

Order(place) ==
    CASE place = "begin" -> 0  [] place = "prev" -> 1   [] place = "filled" -> 2
      [] place = "auth" -> 3   [] place = "look" -> 4   [] place = "check" -> 5
      [] place = "record" -> 6 [] place = "store" -> 7  [] place = "state" -> 8
      [] place = "apply" -> 9  [] place = "merge" -> 10
      [] OTHER -> 11

FrameNearer(f, g) ==
    \/ Len(g.todo) < Len(f.todo)
    \/ g.todo = f.todo /\ Order(g.at) > Order(f.at)
    \/ /\ g.todo = f.todo /\ g.at = "merge" /\ f.at = "merge"
       /\ ToWrite(g) \subseteq ToWrite(f) /\ ToWrite(g) # ToWrite(f)

\* The innermost transaction of h is over, and its caller is where it was; or
\* the transaction has gone on; or it has, and waits for a new one.
Returns(h) ==
    LET rest == Tail(stacks[h])
    IN IF rest = <<>> THEN stacks'[h] = <<>>
       ELSE /\ stacks'[h] # <<>> /\ Tail(stacks'[h]) = Tail(rest)
            /\ Head(stacks'[h]).at = Head(rest).at /\ Head(stacks'[h]).todo = Head(rest).todo

GoesOn(h) ==
    /\ stacks'[h] # <<>> /\ Tail(stacks'[h]) = Tail(stacks[h])
    /\ FrameNearer(Current(h), Head(stacks'[h]))

GoesInside(h) ==
    LET outer == Tail(stacks'[h])
    IN /\ stacks'[h] # <<>> /\ Head(stacks'[h]).at = "begin"
       /\ outer # <<>> /\ Tail(outer) = Tail(stacks[h])
       /\ FrameNearer(Current(h), Head(outer))

HandlersNearTheirEnd ==
    [][\A h \in Handler : Busy(h) =>
          \/ Returns(h) \/ GoesOn(h) \/ GoesInside(h)
          \/ ~Step(h) /\ stacks'[h] \in {stacks[h], <<>>}]_vars

LEMMA ReturnOver ==
  ASSUME StacksOK, NEW h \in Handler, Busy(h), NEW results, Return(h, results)
  PROVE  Returns(h)
  <1>1. stacks[h] \in Seq(Frame) /\ stacks[h] # <<>>
    BY DEF StacksOK, Busy
  <1>2. PICK rest \in Seq(Frame) : rest = Tail(stacks[h])
    BY <1>1, TailElements
  <1>3. PICK events \in SUBSET Pdu : events = {p \in Pdu : results[p] # "none"}
    OBVIOUS
  <1>4. stacks'[h] = IF rest = <<>> THEN <<>>
                     ELSE <<[Head(rest) EXCEPT !.fetched = events]>> \o Tail(rest)
    BY <1>2, <1>3 DEF Return, StacksOK
  <1>5. CASE rest # <<>>
    <2>1. Head(rest) \in Frame /\ Tail(rest) \in Seq(Frame)
      BY <1>5, TailElements
    <2>2. PICK caller \in Frame : caller = Head(rest)
      BY <2>1
    <2>3. PICK told \in Frame : /\ told = [caller EXCEPT !.fetched = events]
                                /\ told.at = caller.at /\ told.todo = caller.todo
      BY FetchedFields
    <2>4. stacks'[h] = <<told>> \o Tail(rest)
      BY <1>4, <1>5, <2>2, <2>3
    <2>5. stacks'[h] # <<>> /\ Head(stacks'[h]) = told /\ Tail(stacks'[h]) = Tail(rest)
      BY <2>1, <2>4, ConsHeadTail
    <2> QED BY <1>2, <1>5, <2>2, <2>3, <2>5 DEF Returns
  <1> QED BY <1>2, <1>4, <1>5 DEF Returns

LEMMA ContinueOn ==
  ASSUME StacksOK, NEW h \in Handler, Busy(h), NEW frame \in Frame, Continue(h, frame),
         FrameNearer(Current(h), frame)
  PROVE  GoesOn(h)
  BY ContinueTop DEF GoesOn

LEMMA NestInside ==
  ASSUME StacksOK, NEW h \in Handler, Busy(h), NEW frame \in Frame, NEW inner \in Frame,
         Nest(h, frame, inner), inner.at = "begin", FrameNearer(Current(h), frame)
  PROVE  GoesInside(h)
  <1>1. stacks[h] \in Seq(Frame) /\ stacks[h] # <<>>
    BY DEF StacksOK, Busy
  <1>2. PICK rest \in Seq(Frame) : rest = Tail(stacks[h])
    BY <1>1, TailElements
  <1>3. PICK outer \in Seq(Frame) : /\ outer = <<frame>> \o rest /\ outer # <<>>
                                    /\ Head(outer) = frame /\ Tail(outer) = rest
    BY ConsHeadTail
  <1>4. <<inner, frame>> \o rest = <<inner>> \o outer
    BY <1>3
  <1>5. stacks'[h] = <<inner>> \o outer
    BY <1>2, <1>4 DEF Nest, StacksOK
  <1>6. stacks'[h] # <<>> /\ Head(stacks'[h]) = inner /\ Tail(stacks'[h]) = outer
    BY <1>5, ConsHeadTail
  <1> QED BY <1>2, <1>3, <1>6 DEF GoesInside

LEMMA MovedNearer ==
  ASSUME NEW f \in Frame, NEW g \in Frame, g.todo = f.todo, NEW place \in Places,
         Order(place) > Order(f.at)
  PROVE  Moved(g, place) \in Frame /\ FrameNearer(f, Moved(g, place))
  BY MovedFields DEF FrameNearer

LEMMA GoToOn ==
  ASSUME StacksOK, AllSound, NEW h \in Handler, Busy(h), NEW place \in Places,
         Order(place) > Order(Current(h).at), GoTo(h, place)
  PROVE  GoesOn(h)
  BY CurrentFrame, MovedNearer, ContinueOn DEF GoTo

LEMMA DoneOn ==
  ASSUME StacksOK, AllSound, NEW h \in Handler, Busy(h), Current(h).todo # <<>>,
         NEW outcome \in {"ok", "error"}, Done(h, outcome)
  PROVE  GoesOn(h)
  <1>1. Current(h) \in Frame /\ Event(h) \in Pdu
    BY CurrentFrame
  <1>2. Current(h).results \in Outcomes
    BY <1>1 DEF Frame
  <1>3. PICK results \in Outcomes : results = [Current(h).results EXCEPT ![Event(h)] = outcome]
    BY <1>1, <1>2 DEF Outcomes
  <1>4. PICK frame \in Frame : frame = Advanced(Current(h), results)
    BY <1>1, AdvancedFields
  <1>5. Current(h).todo \in Seq(Pdu)
    BY <1>1 DEF Frame
  <1>6. Len(frame.todo) < Len(Current(h).todo)
    <2>1. frame.todo = Tail(Current(h).todo)
      BY <1>4 DEF Advanced
    <2>2. Len(Current(h).todo) \in Nat /\ Len(Tail(Current(h).todo)) = Len(Current(h).todo) - 1
      BY <1>5, HeadTailProperties, LenProperties
    <2> QED BY <2>1, <2>2
  <1>7. Continue(h, frame) /\ FrameNearer(Current(h), frame)
    BY <1>3, <1>4, <1>6 DEF Done, FrameNearer
  <1> QED BY <1>7, ContinueOn

LEMMA DecideOn ==
  ASSUME StacksOK, AllSound, NEW h \in Handler, Busy(h),
         NEW verdict \in {"none", "accept", "defer", "soft_fail", "reject"},
         Current(h).at \in {"look", "check"}, Decide(h, verdict)
  PROVE  GoesOn(h)
  <1>1. Current(h) \in Frame
    BY CurrentFrame
  <1>2. PICK judged \in Frame : judged = Judged(Current(h), verdict)
                                /\ judged.todo = Current(h).todo
    BY <1>1, JudgedFields
  <1>3. Order("record") > Order(Current(h).at) /\ "record" \in Places
    BY DEF Order, Places
  <1>4. Moved(judged, "record") \in Frame /\ FrameNearer(Current(h), Moved(judged, "record"))
    BY <1>1, <1>2, <1>3, MovedNearer
  <1> QED BY <1>2, <1>4, ContinueOn DEF Decide

LEMMA NestGoesInside ==
  ASSUME StacksOK, AllSound, NEW h \in Handler, Busy(h), Current(h).todo # <<>>,
         NEW place \in {"filled", "look"}, Order(place) > Order(Current(h).at),
         NEW kind \in {"missing", "auth"}, NEW mode \in {"fill", "history"},
         NEW pdus \in Seq(Pdu),
         Nest(h, Moved(Current(h), place),
              Begin(Nested(Current(h).name, kind, Event(h)), mode, pdus))
  PROVE  GoesInside(h)
  <1>1. Current(h) \in Frame /\ Event(h) \in Pdu /\ place \in Places
    BY CurrentFrame DEF Places
  <1>2. Moved(Current(h), place) \in Frame /\ FrameNearer(Current(h), Moved(Current(h), place))
    BY <1>1, MovedNearer
  <1>3. Current(h).name \in Name
    BY <1>1 DEF Frame
  <1>4. Nested(Current(h).name, kind, Event(h)) \in Name
    BY <1>1, <1>3, NestedName
  <1>5. PICK inner \in Frame :
           /\ inner = Begin(Nested(Current(h).name, kind, Event(h)), mode, pdus)
           /\ inner.at = "begin"
    BY <1>4, BeginFields
  <1> QED BY <1>2, <1>5, NestInside

LEMMA FetchOn ==
  ASSUME StacksOK, AllSound, NEW h \in Handler, Fetch(h)
  PROVE  GoesOn(h) \/ GoesInside(h)
  <1>0. Busy(h)
    BY DEF Fetch, NoGap, AskStateIds, AskMissingEvents, Gap, AtPrev, EventTurn, Filled,
           AskAuthEvents, LoseTrack, At
  <1>1. Current(h) \in Frame /\ (Current(h).todo # <<>> => Event(h) \in Pdu)
    BY <1>0, CurrentFrame
  <1>2. /\ Order("auth") > Order("prev") /\ Order("auth") > Order("filled")
        /\ Order("filled") > Order("prev") /\ Order("look") > Order("auth")
        /\ Order("lost") > Order("auth")
        /\ {"auth", "filled", "look", "lost"} \subseteq Places
    BY DEF Order, Places
  <1>3. CASE NoGap(h)
    BY <1>0, <1>2, <1>3, GoToOn DEF NoGap, AtPrev, EventTurn, At
  <1>4. ASSUME NEW gap \in {"closed", "open"}, Current(h).at \in {"prev", "filled"},
               Continue(h, Moved(WithGap(Current(h), gap), "auth"))
        PROVE  GoesOn(h)
    <2>1. WithGap(Current(h), gap) \in Frame /\ WithGap(Current(h), gap).todo = Current(h).todo
      BY <1>1, GapFields
    <2>2. Order("auth") > Order(Current(h).at)
      BY <1>2, <1>4
    <2>3. /\ Moved(WithGap(Current(h), gap), "auth") \in Frame
          /\ FrameNearer(Current(h), Moved(WithGap(Current(h), gap), "auth"))
      BY <1>1, <1>2, <2>1, <2>2, MovedNearer
    <2> QED BY <1>0, <1>4, <2>3, ContinueOn
  <1>5. CASE AskStateIds(h)
    BY <1>4, <1>5 DEF AskStateIds, Gap, AtPrev, EventTurn, At
  <1>6. CASE Filled(h)
    BY <1>4, <1>6 DEF Filled, At
  <1>7. CASE AskMissingEvents(h)
    <2>1. Current(h).at = "prev" /\ Current(h).todo # <<>>
      BY <1>7 DEF AskMissingEvents, Gap, AtPrev, EventTurn, At
    <2>2. CASE GoTo(h, "auth")
      BY <1>0, <1>2, <2>1, <2>2, GoToOn
    <2>3. ASSUME NEW pdus \in MissingAnswers[Event(h)],
                 Nest(h, Moved(Current(h), "filled"),
                      Begin(Nested(Current(h).name, "missing", Event(h)), "fill", pdus))
          PROVE  GoesInside(h)
      <3>1. pdus \in Seq(Pdu)
        BY <1>1, <2>1, <2>3, InboundAssumption
      <3> QED BY <1>0, <1>2, <2>1, <2>3, <3>1, NestGoesInside
    <2> QED BY <1>7, <2>2, <2>3 DEF AskMissingEvents
  <1>8. CASE AskAuthEvents(h)
    <2>1. Current(h).at = "auth" /\ Current(h).todo # <<>>
      BY <1>0, <1>8, CurrentFrame DEF AskAuthEvents, At
    <2>2. CASE GoTo(h, "look")
      BY <1>0, <1>2, <2>1, <2>2, GoToOn
    <2>3. ASSUME NEW pdus \in AuthAnswers[Event(h)],
                 Nest(h, Moved(Current(h), "look"),
                      Begin(Nested(Current(h).name, "auth", Event(h)), "history", pdus))
          PROVE  GoesInside(h)
      <3>1. pdus \in Seq(Pdu)
        BY <1>1, <2>1, <2>3, InboundAssumption
      <3> QED BY <1>0, <1>2, <2>1, <2>3, <3>1, NestGoesInside
    <2> QED BY <1>8, <2>2, <2>3 DEF AskAuthEvents
  <1>9. CASE LoseTrack(h)
    BY <1>0, <1>2, <1>9, GoToOn DEF LoseTrack, At
  <1> QED BY <1>3, <1>5, <1>6, <1>7, <1>8, <1>9 DEF Fetch

LEMMA JudgeOn ==
  ASSUME StacksOK, AllSound, NEW h \in Handler, Judge(h)
  PROVE  GoesOn(h)
  <1>0. /\ Busy(h) /\ Current(h).todo # <<>>
        /\ Order("check") > Order("look") /\ Order("store") > Order("record")
        /\ {"check", "store"} \subseteq Places
    BY CurrentFrame DEF Judge, AlreadyDecided, Look, Check, RecordDecision, At, Order, Places
  <1>1. CASE AlreadyDecided(h)
    BY <1>0, <1>1, DoneOn DEF AlreadyDecided
  <1>2. CASE Look(h)
    BY <1>0, <1>2, DecideOn, GoToOn DEF Look, At
  <1>3. CASE Check(h)
    <2>1. PICK verdict \in {"accept", "defer", "reject"} : Decide(h, verdict)
      BY <1>3, VerdictKinds DEF Check
    <2> QED BY <1>0, <1>3, <2>1, DecideOn DEF Check, At
  <1>4. CASE RecordDecision(h)
    <2>1. GoTo(h, "store") \/ \E outcome \in {"ok", "error"} : Done(h, outcome)
      BY <1>4 DEF RecordDecision
    <2> QED BY <1>0, <1>4, <2>1, DoneOn, GoToOn DEF RecordDecision, At
  <1> QED BY <1>1, <1>2, <1>3, <1>4 DEF Judge

LEMMA ApplyOn ==
  ASSUME StacksOK, AllSound, NEW h \in Handler, Apply(h)
  PROVE  GoesOn(h)
  <1>0. /\ Busy(h) /\ Current(h).todo # <<>>
        /\ Order("forward") > Order("store") /\ Order("state") > Order("store")
        /\ Order("apply") > Order("state") /\ Order("forward") > Order("apply")
        /\ Order("merge") > Order("apply") /\ Order("forward") > Order("merge")
        /\ {"forward", "state", "apply"} \subseteq Places
    BY CurrentFrame DEF Apply, StoreRow, SetState, ApplyState, Merge, Resolve, WriteResolved,
                        EndResolved, Forward, At, Order, Places
  <1>1. CASE StoreRow(h)
    BY <1>0, <1>1, DoneOn, GoToOn DEF StoreRow, At
  <1>2. CASE SetState(h) \/ ApplyState(h)
    BY <1>0, <1>2, GoToOn DEF SetState, ApplyState, At
  <1>3. CASE Forward(h)
    BY <1>0, <1>3, DoneOn DEF Forward
  <1>4. CASE Merge(h)
    <2>1. Current(h) \in Frame
      BY <1>0, CurrentFrame
    <2>2. CASE Current(h).at = "merge" /\ GoTo(h, "forward")
      BY <1>0, <2>2, GoToOn
    <2>3. ASSUME NEW frame \in Frame, frame.at = "merge", SameTask(Current(h), frame),
                 Continue(h, frame),
                 \/ Current(h).at = "apply"
                 \/ /\ Current(h).at = "merge"
                    /\ ToWrite(frame) \subseteq ToWrite(Current(h))
                    /\ ToWrite(frame) # ToWrite(Current(h))
          PROVE  GoesOn(h)
      <3>1. FrameNearer(Current(h), frame)
        BY <1>0, <2>3 DEF FrameNearer, SameTask
      <3> QED BY <1>0, <2>3, <3>1, ContinueOn
    <2> QED BY <1>4, <2>1, <2>2, <2>3, MergeGoesOn
  <1> QED BY <1>1, <1>2, <1>3, <1>4 DEF Apply

LEMMA StepOn ==
  ASSUME StacksOK, AllSound, NEW h \in Handler, Step(h)
  PROVE  Returns(h) \/ GoesOn(h) \/ GoesInside(h)
  <1>1. CASE AnswerAgain(h)
    <2>1. Busy(h) /\ \E answer \in cached : Return(h, answer.results)
      BY <1>1 DEF AnswerAgain, At
    <2> QED BY <2>1, ReturnOver
  <1>2. CASE StartEvents(h)
    <2>1. Busy(h) /\ Order("prev") > Order("begin") /\ "prev" \in Places
      BY <1>2 DEF StartEvents, At, Order, Places
    <2> QED BY <1>2, <2>1, GoToOn DEF StartEvents, At
  <1>3. CASE Answer(h)
    <2>1. Busy(h) /\ Return(h, Current(h).results)
      BY <1>3 DEF Answer, At
    <2> QED BY <2>1, ReturnOver
  <1>4. CASE Refuse(h)
    BY <1>4, RefuseEnds, DoneOn
  <1> QED BY <1>1, <1>2, <1>3, <1>4, FetchOn, JudgeOn, ApplyOn DEF Step

\* Only the handler itself works on its stack, until its worker stops.
LEMMA OthersApart ==
  ASSUME StacksOK, [Next]_vars, NEW h \in Handler, Busy(h), ~Step(h)
  PROVE  stacks'[h] \in {stacks[h], <<>>}
  <1>1. ASSUME NEW g \in Handler, Step(g) PROVE \E new : stacks' = [stacks EXCEPT ![g] = new]
    <2>1. \A frame : Continue(g, frame) => \E new : stacks' = [stacks EXCEPT ![g] = new]
      BY DEF Continue
    <2>2. \A frame, inner : Nest(g, frame, inner) => \E new : stacks' = [stacks EXCEPT ![g] = new]
      BY DEF Nest
    <2>3. \A results : Return(g, results) => \E new : stacks' = [stacks EXCEPT ![g] = new]
      BY DEF Return
    <2>4. CASE AnswerAgain(g) \/ StartEvents(g) \/ Answer(g)
      BY <2>1, <2>3, <2>4 DEF AnswerAgain, StartEvents, Answer, GoTo
    <2>5. CASE Fetch(g)
      BY <2>1, <2>2, <2>5 DEF Fetch, NoGap, AskStateIds, AskMissingEvents, Filled,
                              AskAuthEvents, LoseTrack, GoTo
    <2>6. CASE Judge(g)
      BY <2>1, <2>6 DEF Judge, AlreadyDecided, Look, Check, RecordDecision, GoTo, Decide, Done
    <2>7. CASE Apply(g)
      BY <2>1, <2>7 DEF Apply, StoreRow, SetState, ApplyState, Merge, Resolve, WriteResolved,
                        EndResolved, Forward, GoTo, Done
    <2>8. CASE Refuse(g)
      BY <2>1, <2>8 DEF Refuse, RejectMalformed, RejectNumber, RejectSender, Done
    <2> QED BY <1>1, <2>4, <2>5, <2>6, <2>7, <2>8 DEF Step
  <1>2. ASSUME NEW g \in Handler, g # h, NEW new, stacks' = [stacks EXCEPT ![g] = new]
        PROVE  stacks'[h] = stacks[h]
    BY <1>2 DEF StacksOK
  <1>3. ASSUME NEW g \in Handler, Step(g) PROVE stacks'[h] = stacks[h]
    BY <1>1, <1>2, <1>3
  <1>4. ASSUME NEW g \in Handler, NEW t \in Txn, Deliver(g, t) PROVE stacks'[h] = stacks[h]
    BY <1>2, <1>4 DEF Deliver
  <1>5. ASSUME NEW g \in Handler, Crash(g) PROVE stacks'[h] \in {stacks[h], <<>>}
    BY <1>5 DEF Crash, StacksOK
  <1> QED BY <1>3, <1>4, <1>5 DEF Next, vars

\* However transactions nest, every step of a handler brings its innermost one
\* nearer its end, ends it, or begins one that its event will not begin again:
\* so a handler ends, whatever happens to the tables meanwhile, unless what
\* the origin answers nests without end.  Where the model leaves a handler
\* (LoseTrack), it has gone on, and takes no further step.
THEOREM EveryStepNearsTheEnd == Spec => HandlersNearTheirEnd
  <1>1. InboundInv /\ [Next]_vars
          => [\A h \in Handler : Busy(h) =>
                 \/ Returns(h) \/ GoesOn(h) \/ GoesInside(h)
                 \/ ~Step(h) /\ stacks'[h] \in {stacks[h], <<>>}]_vars
    <2> SUFFICES ASSUME InboundInv, [Next]_vars, NEW h \in Handler, Busy(h)
                 PROVE  \/ Returns(h) \/ GoesOn(h) \/ GoesInside(h)
                        \/ ~Step(h) /\ stacks'[h] \in {stacks[h], <<>>}
      OBVIOUS
    <2>1. CASE Step(h)
      BY <2>1, StepOn DEF InboundInv
    <2>2. CASE ~Step(h)
      BY <2>2, OthersApart DEF InboundInv
    <2> QED BY <2>1, <2>2
  <1> QED BY <1>1, InboundInductive, PTL DEF Spec, HandlersNearTheirEnd

=============================================================================
