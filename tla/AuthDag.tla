------------------------------ MODULE AuthDag ------------------------------
(***************************************************************************)
(* What a room's event store promises to whoever walks its auth chains: it *)
(* only grows, and an event enters it after all of its auth events.  How   *)
(* events arrive, in which order, how often and through how many handlers, *)
(* is of no concern here.                                                  *)
(***************************************************************************)
CONSTANTS Pdu,    \* events, by event id
          Auth,   \* [Pdu -> SUBSET Pdu]: the auth_events of each
          Known   \* the events the store starts with

VARIABLE stored

Init == stored = Known

Add(p) ==
    /\ Auth[p] \subseteq stored
    /\ stored' = stored \cup {p}

Next == \E p \in Pdu : Add(p)

Spec == Init /\ [][Next]_stored
=============================================================================
