----------------------------- MODULE AccountPool -----------------------------
(***************************************************************************)
(* What the Nydus server promises about its accounts, with no threads, no  *)
(* lock and no file: a pool of accounts that changes by indivisible steps. *)
(* NydusServer is shown to implement this specification.                   *)
(***************************************************************************)
EXTENDS AllocDB

CONSTANT AdminOps   \* the commands the administrator issues, a subset of CliOps

VARIABLES pool, now

poolVars == <<pool, now>>

Init == pool = EmptyDB /\ now = 0

Tick == now' = now + 1 /\ UNCHANGED pool

-----------------------------------------------------------------------------
(* Clients: only unlocked accounts change hands, and nobody is given a     *)
(* second account.                                                         *)

Grant(c, r) ==
  /\ c \notin RootClients
  /\ HeldBy(pool, c) = {}
  /\ r \in Allocatable(pool)
  /\ pool' = [pool EXCEPT ![r].holder = c, ![r].alloc = now, ![r].renew = now]
  /\ UNCHANGED now

Extend(c, r) ==
  /\ r \in HeldBy(pool, c) /\ ~pool[r].locked
  /\ pool' = [pool EXCEPT ![r].renew = now]
  /\ UNCHANGED now

GiveBack(c, r) ==
  /\ r \in HeldBy(pool, c) /\ ~pool[r].locked
  /\ pool' = [pool EXCEPT ![r].holder = NoClient, ![r].alloc = 0, ![r].renew = 0]
  /\ UNCHANGED now

(***************************************************************************)
(* Cleanup takes back exactly the allocations that ran out, and the        *)
(* accounts of R get new tokens.                                           *)
(***************************************************************************)
Sweep(R) ==
  /\ pool' = [r \in DOMAIN pool |->
                [(IF AllocExpired(pool[r], now) THEN Released(pool[r]) ELSE pool[r])
                 EXCEPT !.tok = IF r \in R THEN @ + 1 ELSE @]]
  /\ UNCHANGED now

Administer(op) == pool' = CliApply(pool, op, now) /\ UNCHANGED now

\* A restart forgets every allocation; a crash in mid-write forgets the accounts.
Restart(S) == pool' = CreateDB(S) /\ UNCHANGED now
Lose == pool' = EmptyDB /\ UNCHANGED now

-----------------------------------------------------------------------------
Next ==
  \/ Tick
  \/ \E c \in Clients, r \in Rows : Grant(c, r) \/ Extend(c, r) \/ GiveBack(c, r)
  \/ \E R \in SUBSET Rows : Sweep(R)
  \/ \E op \in AdminOps : Administer(op)
  \/ \E S \in SUBSET Rows : Restart(S)
  \/ Lose

Spec == Init /\ [][Next]_poolVars
==============================================================================
