---------------------------- MODULE MCNydusServer ----------------------------
(* Values for the constants of NydusServer.                                *)
EXTENDS NydusServer, TLC

CONSTANTS u1, u2, c1, c2, t1, t2, k1, k2

MCUuidOf == [r \in Rows |-> IF r = 1 THEN u1 ELSE u2]
MCSameUuid == [r \in Rows |-> u1]

\* The administrator parks account 1: locks and unlocks it.
LockOps == [cmd : {"lock-uuid", "unlock-uuid"}, uuid : {u1}, client : Clients]
AllOps == [cmd : CliCommands, uuid : {u1}, client : Clients]
AllButAlloc == {op \in AllOps : op.cmd # "alloc"}
OnlyLock == [cmd : {"lock-uuid"}, uuid : {u1}, client : {c1}]
NoOps == {}

\* Threads of a kind and clients are interchangeable as far as safety goes.
Sym == Permutations({t1, t2}) \cup Permutations({k1, k2}) \cup Permutations({c1, c2})

==============================================================================
