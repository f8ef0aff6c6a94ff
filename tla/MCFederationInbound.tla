------------------------ MODULE MCFederationInbound ------------------------
(***************************************************************************)
(* FederationInbound on a small room.  root is what this server has of it; *)
(* join, made after it, is a state event that say needs in its auth chain; *)
(* leave, another event of the same key, merges two branches of the room,  *)
(* and say is not allowed while leave is in the state.  The others are at  *)
(* fault: blank is malformed, odd has a bad number, stray has no server in *)
(* its sender, forged fails its checks; and barred is not admitted by the  *)
(* server ACL once leave is in the state.                                  *)
(***************************************************************************)
EXTENDS FederationInbound, TLC

CONSTANTS root, join, leave, say, blank, odd, stray, forged, barred, t1, t2

Room == {root, join, leave, say, blank, stray}
WholeRoom == Room \cup {odd, forged, barred}

MCPrev == [p \in Pdu |-> CASE p = root -> {}
                           [] p = leave -> {root, join}
                           [] p = say -> {leave}
                           [] OTHER -> {root}]
MCAuth == [p \in Pdu |-> CASE p = root -> {}
                           [] p \in {say, stray} -> {join}
                           [] OTHER -> {root}]
MCKey == [p \in Pdu |-> IF p \in {join, leave} THEN "member" ELSE NoKey]
MCFault == [p \in Pdu |-> CASE p = blank -> "form"
                            [] p = odd -> "number"
                            [] p = stray -> "sender"
                            [] p = forged -> "flawed"
                            [] OTHER -> "none"]
MCRevokes == {<<leave, say>>}
MCDenies == {<<leave, barred>>}

\* What the origin may answer: some of the events before.
MCMissing == [p \in Pdu |-> CASE p = leave -> {<<join>>}
                              [] p = say -> {<<blank, leave, stray>>}
                              [] OTHER -> {}]
MCAuthAnswers == [p \in Pdu |-> CASE p = say -> {<<join>>}
                                   [] p = stray -> {<<join>>}
                                   [] OTHER -> {}]

\* Other answers: fewer events at a time, every fault, and events that lead
\* back to the one it was asked about.
FaultyMissing == [MCMissing EXCEPT ![say] = {<<join, stray>>, <<blank, leave>>,
                                             <<forged, odd, leave>>}]
FaultyAuthAnswers == [MCAuthAnswers EXCEPT ![say] = {<<root, join>>, <<stray>>},
                                           ![stray] = {<<say>>}]

\* The origin's transactions, and without the one in between.
InOrder == (t1 :> <<join, leave>>) @@ (t2 :> <<say>>)
WithFaults == (t1 :> <<join, odd, leave, barred>>) @@ (t2 :> <<say>>)
Apart == (t1 :> <<join>>) @@ (t2 :> <<say>>)

Handlers == Permutations(Handler)

=============================================================================
