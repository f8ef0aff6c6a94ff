---------------------------- MODULE MCRemoteJoin ----------------------------
(***************************************************************************)
(* RemoteJoin on a room of three: alice joins it from here (and dora, in   *)
(* one instance), carol is in every answer.  Bob's join and the leave with *)
(* which alice left the room before are in the full state only; alice's is *)
(* in the auth chain of her join too.  Bob sends a message and leaves while *)
(* the partial state does not know him, and both name his join as auth     *)
(* event.                                                                  *)
(***************************************************************************)
EXTENDS RemoteJoin

CONSTANTS alice, bob, carol, dora,
          aliceJoins, bobJoins, carolJoins, doraJoins, bobSays, bobLeaves, aliceLeft

MCJoinOf == [u \in Joiner |-> IF u = alice THEN aliceJoins ELSE doraJoins]
MCMember == Joiner \cup {bob, carol}
MCEvent == {MCJoinOf[u] : u \in Joiner} \cup
           {aliceLeft, bobJoins, carolJoins, bobSays, bobLeaves}
MCSender == [e \in MCEvent |->
    CASE e \in {aliceJoins, aliceLeft} -> alice [] e = carolJoins -> carol
      [] e = doraJoins -> dora [] OTHER -> bob]
MCTarget == [e \in MCEvent |-> IF e = bobSays THEN None ELSE MCSender[e]]
MCKind == [e \in MCEvent |->
    CASE e = bobSays -> "message" [] e \in {aliceLeft, bobLeaves} -> "leave" [] OTHER -> "join"]
MCAuth == [e \in MCEvent |-> IF e \in {bobSays, bobLeaves} THEN {bobJoins} ELSE {}]
MCFirst == {Base, carolJoins}
MCFull == {Base, carolJoins, bobJoins, aliceLeft}
MCDelivered == {bobSays, bobLeaves}

=============================================================================
