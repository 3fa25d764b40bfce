------------------------------- MODULE AllocDB -------------------------------
(***************************************************************************)
(* The allocation database of the Nydus server as AllocEngine              *)
(* (server/allocater.py) keeps it in memory: one entry per Minecraft       *)
(* account, and the operations on the entries.  Nothing here is a step:    *)
(* the modules that EXTEND this one say when the operations run and when   *)
(* their result reaches the file.                                          *)
(***************************************************************************)
EXTENDS Naturals

CONSTANTS
  Rows,          \* lines of the accounts file, numbered in the order of the file
  Clients,       \* (client IP, system username) pairs
  RootClients,   \* those whose username is "root"
  NoClient,      \* the blank IP and username of an unallocated entry
  Uuids,         \* Minecraft uuids
  UuidOf,        \* UuidOf[r] is the uuid of the account of row r
  AllocTimeout   \* cfg.get_alloc_timeout()

\* Two rows may carry the same uuid: the *_uuid methods provide for it.
ASSUME AllocDBAssumption ==
  /\ Rows \subseteq Nat
  /\ RootClients \subseteq Clients
  /\ NoClient \notin Clients
  /\ UuidOf \in [Rows -> Uuids]
  /\ AllocTimeout \in Nat

Holders == Clients \cup {NoClient}

(***************************************************************************)
(* An AllocAccount.  alloc and renew are the two timestamps, 0 when blank. *)
(* tok counts the Minecraft access tokens the entry has had.               *)
(***************************************************************************)
Entry == [holder : Holders, alloc : Nat, renew : Nat, locked : BOOLEAN, tok : Nat]

\* A database lists some of the accounts: those that were authenticated at
\* start-up, or none at all when the file was read while it was empty.
IsDB(db) == DOMAIN db \subseteq Rows /\ db \in [DOMAIN db -> Entry]

EmptyDB == [r \in {} |-> [holder |-> NoClient, alloc |-> 0, renew |-> 0,
                          locked |-> FALSE, tok |-> 0]]

-----------------------------------------------------------------------------
(* The methods of AllocAccount: they leave a locked entry as it is.        *)

IsAllocated(e) == e.holder # NoClient

Allocated(e, c, t) ==
  IF e.locked THEN e ELSE [e EXCEPT !.holder = c, !.alloc = t, !.renew = t]

\* Faulty variants like this one, here and below, drop or misplace something a
\* definition needs.  They are used nowhere: replacing the definition by its
\* variant shows which property notices.
RenewedThoughLocked(e, t) ==
  IF IsAllocated(e) THEN [e EXCEPT !.renew = t] ELSE e

Renewed(e, t) ==
  IF IsAllocated(e) /\ ~e.locked THEN [e EXCEPT !.renew = t] ELSE e

ReleasedThoughLocked(e) ==
  [e EXCEPT !.holder = NoClient, !.alloc = 0, !.renew = 0]

Released(e) ==
  IF e.locked THEN e ELSE [e EXCEPT !.holder = NoClient, !.alloc = 0, !.renew = 0]

AllocExpired(e, t) ==
  ~e.locked /\ IsAllocated(e) /\ t > e.renew + AllocTimeout

-----------------------------------------------------------------------------
(* The methods of AllocEngine that the server's threads call.              *)

HeldBy(db, c) == {r \in DOMAIN db : db[r].holder = c}

\* The client's oldest allocation (no row when it has none): the earliest alloc
\* time, and the first row of the file among equals.
Oldest(db, c) ==
  {r \in HeldBy(db, c) : \A q \in HeldBy(db, c) :
      db[r].alloc < db[q].alloc \/ (db[r].alloc = db[q].alloc /\ r <= q)}

Allocatable(db) == {r \in DOMAIN db : ~IsAllocated(db[r]) /\ ~db[r].locked}

FirstAllocatable(db) == {r \in Allocatable(db) : \A q \in Allocatable(db) : r <= q}

AnswerAnyFree(db, c) == IF c \in RootClients THEN {} ELSE FirstAllocatable(db)

\* The row allocate_one_account returns to client c, or no row.  A client whose
\* oldest allocation is locked gets nothing, whatever else is free.
Answer(db, c) ==
  IF c \in RootClients THEN {}
  ELSE IF HeldBy(db, c) # {} THEN {r \in Oldest(db, c) : ~db[r].locked}
  ELSE FirstAllocatable(db)

AllocateNothing(db, c, r, t) == [db EXCEPT ![r] = Renewed(@, t)]

\* The database after it has returned row r.
AllocateOne(db, c, r, t) ==
  [db EXCEPT ![r] = IF IsAllocated(@) THEN Renewed(@, t) ELSE Allocated(@, c, t)]

RenewEveryone(db, c, t) == [r \in DOMAIN db |-> Renewed(db[r], t)]

RenewOne(db, c, t) ==
  [r \in DOMAIN db |-> IF r \in Oldest(db, c) THEN Renewed(db[r], t) ELSE db[r]]

ReleaseOne(db, c) ==
  [r \in DOMAIN db |-> IF r \in Oldest(db, c) THEN Released(db[r]) ELSE db[r]]

RenewTokensUnchecked(db, R) ==
  [r \in DOMAIN db |-> [db[r] EXCEPT !.tok = IF r \in R THEN @ + 1 ELSE NoClient]]

\* cleanup: renew_tokens gives the rows of R a new Minecraft token ...
RenewTokens(db, R) ==
  [r \in DOMAIN db |-> IF r \in R THEN [db[r] EXCEPT !.tok = @ + 1] ELSE db[r]]

ReleaseByAllocTime(db, t) ==
  [r \in DOMAIN db |-> IF ~db[r].locked /\ t > db[r].alloc + AllocTimeout
                         THEN Released(db[r]) ELSE db[r]]

\* ... and release_expired frees the allocations that were not renewed in time.
ReleaseExpired(db, t) ==
  [r \in DOMAIN db |-> IF AllocExpired(db[r], t) THEN Released(db[r]) ELSE db[r]]

\* create_db: only the rows of S, those whose account was authenticated.
CreateDB(S) == [r \in S |-> [holder |-> NoClient, alloc |-> 0, renew |-> 0,
                             locked |-> FALSE, tok |-> 0]]

-----------------------------------------------------------------------------
(* The commands of nydus-cli that change the database: each acts on every  *)
(* row with the given uuid.                                                *)

CliCommands == {"alloc", "renew-uuid", "release-uuid", "lock-uuid", "unlock-uuid"}

CliOps == [cmd : CliCommands, uuid : Uuids, client : Clients]

CliEntry(e, op, t) ==
  CASE op.cmd = "alloc"        -> Allocated(e, op.client, t)
    [] op.cmd = "renew-uuid"   -> Renewed(e, t)
    [] op.cmd = "release-uuid" -> Released(e)
    [] op.cmd = "lock-uuid"    -> [e EXCEPT !.locked = TRUE]
    [] op.cmd = "unlock-uuid"  -> [e EXCEPT !.locked = FALSE]

CliApply(db, op, t) ==
  [r \in DOMAIN db |-> IF UuidOf[r] = op.uuid THEN CliEntry(db[r], op, t) ELSE db[r]]

-----------------------------------------------------------------------------
\* "It is intended that no IP/username combination should ever have more than
\* one account" (get_oldest_allocation).
AtMostOneEach(db) ==
  \A r, q \in DOMAIN db : IsAllocated(db[r]) /\ db[r].holder = db[q].holder => r = q
==============================================================================
