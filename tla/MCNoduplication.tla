--------------------------- MODULE MCNoduplication ---------------------------
(***************************************************************************)
(* Values for the constants of Noduplication.                              *)
(***************************************************************************)
EXTENDS Noduplication, TLC

\* Process ids are interchangeable.
Perms == Permutations(Pids)
==============================================================================
