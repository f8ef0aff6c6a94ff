--------------------------- MODULE MCRoomCommands ---------------------------
(* A room of an administrator and a member, and a user who comes and goes.  *)
EXTENDS RoomCommands, TLC

CONSTANTS admin, bob, t1

MCPower == [u \in User |-> IF u = admin THEN 100 ELSE 0]

Of(kind, actor, target) == [kind |-> kind, actor |-> actor, target |-> target, txn |-> None]

MCRequest ==
    {Of(k, admin, bob) : k \in {"invite", "kick", "ban", "unban"}}
       \cup {Of(k, bob, bob) : k \in {"join", "leave", "knock"}}
       \cup {[kind |-> "send", actor |-> admin, target |-> admin, txn |-> t1]}

Workers == Permutations(Worker)

=============================================================================
