----------------------------- MODULE MCToDevice -----------------------------
(***************************************************************************)
(* ToDevice on two devices of which the phone is sent two messages: one by *)
(* a local user to both devices and to another server, with a transaction  *)
(* id that may be repeated, and one by a user elsewhere.                   *)
(***************************************************************************)
EXTENDS ToDevice

CONSTANTS phone, laptop, a, b, w1, w2

MCTarget == [s \in Send |-> IF s = a THEN {phone, laptop} ELSE {phone}]
MCPlace == [s \in Send |-> [d \in Device |-> IF d = phone THEN 1 ELSE 2]]
\* Every message id is of one request.
MCId == [s \in Send |-> s]
\* Two requests of users elsewhere use one message id.
MCSameId == [s \in Send |-> a]

=============================================================================
