---------------------------- MODULE AtLeastOnce ----------------------------
(***************************************************************************)
(* What a queue of deliveries promises, whatever its mechanism: an item    *)
(* handed over for a destination stays outstanding until that destination  *)
(* has received it.  An item may be received several times, and may be     *)
(* kept outstanding, or become outstanding again, after it was received:   *)
(* the promise is at-least-once, never at-most-once.                       *)
(*                                                                         *)
(* The promise excepts items that the destination may have confused:       *)
(* deliveries that it cannot tell apart, it takes for one another.  A      *)
(* queue says which they are; one that never confuses any keeps the        *)
(* promise for all.  The outbound federation queues implement the channel, *)
(* and so does the table of to-device messages.                            *)
(***************************************************************************)
CONSTANTS Dest,     \* remote servers, or devices
          Item      \* PDUs and EDUs, or messages

VARIABLES submitted,    \* [Dest -> SUBSET Item], items ever handed over
          outstanding,  \* [Dest -> SUBSET Item], items the sender still holds
          received,     \* [Dest -> SUBSET Item], items the destination took
          doubtful      \* [Dest -> SUBSET Item], items it may have confused

vars == <<submitted, outstanding, received, doubtful>>

Init ==
    /\ submitted   = [d \in Dest |-> {}]
    /\ outstanding = [d \in Dest |-> {}]
    /\ received    = [d \in Dest |-> {}]
    /\ doubtful    = [d \in Dest |-> {}]

\* Items that were handed over become confused, or none.
MayConfuse(d) ==
    \E items \in SUBSET submitted'[d] : doubtful' = [doubtful EXCEPT ![d] = @ \cup items]

Submit(d, i) ==
    /\ submitted'   = [submitted EXCEPT ![d] = @ \cup {i}]
    /\ outstanding' = [outstanding EXCEPT ![d] = @ \cup {i}]
    /\ MayConfuse(d)
    /\ UNCHANGED received

Confuse(d) ==
    /\ MayConfuse(d)
    /\ UNCHANGED <<submitted, outstanding, received>>

\* The destination takes any part of what was submitted for it, first or again.
Receive(d, items) ==
    /\ items \subseteq submitted[d]
    /\ received' = [received EXCEPT ![d] = @ \cup items]
    /\ UNCHANGED <<submitted, outstanding, doubtful>>

\* The sender may drop or take back received and confused items, and only those.
Rebook(d, held) ==
    /\ held \subseteq submitted[d]
    /\ submitted[d] \ (received[d] \cup doubtful[d]) \subseteq held
    /\ outstanding' = [outstanding EXCEPT ![d] = held]
    /\ UNCHANGED <<submitted, received, doubtful>>

Next == \E d \in Dest :
            \/ \E i \in Item : Submit(d, i)
            \/ Confuse(d)
            \/ \E items \in SUBSET Item : Receive(d, items) \/ Rebook(d, items)

Spec == Init /\ [][Next]_vars
=============================================================================
