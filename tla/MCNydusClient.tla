---------------------------- MODULE MCNydusClient ----------------------------
(***************************************************************************)
(* Values for the constants of NydusClient.                                *)
(***************************************************************************)
EXTENDS NydusClient, TLC

OneUuid == [r \in Rows |-> CHOOSE u \in Uuids : TRUE]

\* Clients are interchangeable.
Perms == Permutations(Clients)
==============================================================================
