---------------------------- MODULE AllocDBProofs ----------------------------
(***************************************************************************)
(* Lemmas about the operations on an allocation database.                  *)
(***************************************************************************)
EXTENDS AllocDB, TLAPS

-----------------------------------------------------------------------------
(* They yield databases.                                                   *)

LEMMA EntryOfDB ==
  ASSUME NEW db, IsDB(db), NEW r \in DOMAIN db
  PROVE  r \in Rows /\ db[r] \in Entry
BY DEF IsDB

LEMMA EmptyIsDB == IsDB(EmptyDB)
BY DEF IsDB, EmptyDB, Entry, Holders

LEMMA CreateIsDB == ASSUME NEW S \in SUBSET Rows PROVE IsDB(CreateDB(S))
BY DEF IsDB, CreateDB, Entry, Holders

LEMMA EntryOps ==
  ASSUME NEW e \in Entry, NEW c \in Clients, NEW t \in Nat
  PROVE  /\ Allocated(e, c, t) \in Entry
         /\ Renewed(e, t) \in Entry
         /\ Released(e) \in Entry
BY DEF Entry, Holders, Allocated, Renewed, Released

LEMMA CliEntryType ==
  ASSUME NEW e \in Entry, NEW op \in CliOps, NEW t \in Nat
  PROVE  CliEntry(e, op, t) \in Entry
<1>1. op.cmd \in CliCommands /\ op.client \in Clients
  BY DEF CliOps
<1>2. /\ [e EXCEPT !.locked = TRUE] \in Entry
      /\ [e EXCEPT !.locked = FALSE] \in Entry
  BY DEF Entry
<1> QED BY <1>1, <1>2, EntryOps DEF CliEntry, CliCommands

LEMMA OpsIsDB ==
  ASSUME NEW db, IsDB(db), NEW c \in Clients, NEW t \in Nat
  PROVE  /\ \A r \in DOMAIN db : IsDB(AllocateOne(db, c, r, t))
         /\ IsDB(RenewOne(db, c, t))
         /\ IsDB(ReleaseOne(db, c))
<1>0. \A r \in DOMAIN db : db[r] \in Entry
  BY EntryOfDB
<1>1. ASSUME NEW r \in DOMAIN db PROVE IsDB(AllocateOne(db, c, r, t))
  BY <1>0, EntryOps DEF IsDB, AllocateOne
<1>2. IsDB(RenewOne(db, c, t))
  BY <1>0, EntryOps DEF IsDB, RenewOne
<1>3. IsDB(ReleaseOne(db, c))
  BY <1>0, EntryOps DEF IsDB, ReleaseOne
<1> QED BY <1>1, <1>2, <1>3

LEMMA TokensIsDB ==
  ASSUME NEW db, IsDB(db)
  PROVE  /\ \A R : IsDB(RenewTokens(db, R))
         /\ \A t \in Nat : IsDB(ReleaseExpired(db, t))
<1>0. \A r \in DOMAIN db : db[r] \in Entry
  BY EntryOfDB
<1>1. \A r \in DOMAIN db : [db[r] EXCEPT !.tok = @ + 1] \in Entry
  BY <1>0 DEF Entry
<1>2. \A r \in DOMAIN db : Released(db[r]) \in Entry
  BY <1>0 DEF Entry, Holders, Released
<1> QED BY <1>0, <1>1, <1>2 DEF IsDB, RenewTokens, ReleaseExpired

LEMMA CliIsDB ==
  ASSUME NEW db, IsDB(db), NEW op \in CliOps, NEW t \in Nat
  PROVE  IsDB(CliApply(db, op, t))
<1>0. \A r \in DOMAIN db : db[r] \in Entry
  BY EntryOfDB
<1> QED BY <1>0, CliEntryType DEF IsDB, CliApply

\* The server answers with a row of the database.
LEMMA AnswerInDB ==
  ASSUME NEW db, NEW c, NEW r \in Answer(db, c)
  PROVE  r \in DOMAIN db
BY DEF Answer, Oldest, HeldBy, FirstAllocatable, Allocatable

-----------------------------------------------------------------------------
(* They leave a client with one account at most.                           *)

\* An operation that leaves each account with its holder or with nobody.
LEMMA OneEachKept ==
  ASSUME NEW db, AtMostOneEach(db), NEW f, DOMAIN f = DOMAIN db,
         \A r \in DOMAIN db : f[r].holder = db[r].holder \/ f[r].holder = NoClient
  PROVE  AtMostOneEach(f)
BY DEF AtMostOneEach, IsAllocated

LEMMA OneEachEmpty == AtMostOneEach(EmptyDB)
BY DEF AtMostOneEach, EmptyDB

LEMMA OneEachOps ==
  ASSUME NEW db, IsDB(db), AtMostOneEach(db), NEW c, NEW t
  PROVE  /\ AtMostOneEach(RenewOne(db, c, t))
         /\ AtMostOneEach(ReleaseOne(db, c))
         /\ \A R : AtMostOneEach(RenewTokens(db, R))
         /\ AtMostOneEach(ReleaseExpired(db, t))
<1>0. \A r \in DOMAIN db : db[r] \in Entry
  BY EntryOfDB
<1>1. \A r \in DOMAIN db : /\ Renewed(db[r], t).holder = db[r].holder
                           /\ Released(db[r]).holder \in {db[r].holder, NoClient}
                           /\ [db[r] EXCEPT !.tok = @ + 1].holder = db[r].holder
  BY <1>0 DEF Entry, Renewed, Released
<1>2. AtMostOneEach(RenewOne(db, c, t))
  BY <1>1, OneEachKept DEF RenewOne
<1>3. AtMostOneEach(ReleaseOne(db, c))
  BY <1>1, OneEachKept DEF ReleaseOne
<1>4. ASSUME NEW R PROVE AtMostOneEach(RenewTokens(db, R))
  BY <1>1, OneEachKept DEF RenewTokens
<1>5. AtMostOneEach(ReleaseExpired(db, t))
  BY <1>1, OneEachKept DEF ReleaseExpired
<1> QED BY <1>2, <1>3, <1>4, <1>5

\* A client that holds nothing is given a free account, another one keeps its own.
LEMMA OneEachAllocate ==
  ASSUME NEW db, IsDB(db), AtMostOneEach(db), NEW c \in Clients, NEW t,
         NEW r \in Answer(db, c), AllocDBAssumption
  PROVE  AtMostOneEach(AllocateOne(db, c, r, t))
<1>0. r \in DOMAIN db /\ \A q \in DOMAIN db : db[q] \in Entry
  BY AnswerInDB, EntryOfDB
<1>1. CASE HeldBy(db, c) # {}
  <2>1. IsAllocated(db[r])
    BY <1>1, AllocDBAssumption DEF Answer, Oldest, HeldBy, IsAllocated, AllocDBAssumption
  <2>2. Renewed(db[r], t).holder = db[r].holder
    BY <1>0 DEF Entry, Renewed
  <2> QED BY <1>0, <2>1, <2>2, OneEachKept DEF AllocateOne
<1>2. CASE HeldBy(db, c) = {}
  <2>1. ~IsAllocated(db[r]) /\ ~db[r].locked
    BY <1>2 DEF Answer, FirstAllocatable, Allocatable
  <2>2. Allocated(db[r], c, t).holder = c
    BY <1>0, <2>1 DEF Allocated, Entry
  <2>3. \A q \in DOMAIN db : db[q].holder # c
    BY <1>2 DEF HeldBy
  <2>4. AllocateOne(db, c, r, t) = [db EXCEPT ![r] = Allocated(db[r], c, t)]
    BY <2>1 DEF AllocateOne
  <2> QED BY <1>0, <2>2, <2>3, <2>4 DEF AtMostOneEach, IsAllocated
<1> QED BY <1>1, <1>2

LEMMA OneEachCli ==
  ASSUME NEW db, IsDB(db), AtMostOneEach(db), NEW t, NEW op \in CliOps, op.cmd # "alloc"
  PROVE  AtMostOneEach(CliApply(db, op, t))
<1>0. \A r \in DOMAIN db : db[r] \in Entry
  BY EntryOfDB
<1>1. \A r \in DOMAIN db : /\ Renewed(db[r], t).holder = db[r].holder
                           /\ Released(db[r]).holder \in {db[r].holder, NoClient}
                           /\ [db[r] EXCEPT !.locked = TRUE].holder = db[r].holder
                           /\ [db[r] EXCEPT !.locked = FALSE].holder = db[r].holder
  BY <1>0 DEF Entry, Renewed, Released
<1>2. op.cmd \in CliCommands \ {"alloc"}
  BY DEF CliOps
<1>3. \A r \in DOMAIN db : CliEntry(db[r], op, t).holder \in {db[r].holder, NoClient}
  BY <1>1, <1>2 DEF CliEntry, CliCommands
<1> QED BY <1>3, OneEachKept DEF CliApply

-----------------------------------------------------------------------------
(* What they change.                                                       *)

LEMMA SameEntry ==
  ASSUME NEW e \in Entry
  PROVE  /\ [e EXCEPT !.tok = e.tok] = e
         /\ e.alloc \in Nat /\ e.tok \in Nat
BY DEF Entry

\* A client has one oldest allocation at most.
LEMMA OldestUnique ==
  ASSUME AllocDBAssumption, NEW db, IsDB(db), NEW c,
         NEW r \in Oldest(db, c), NEW q \in Oldest(db, c)
  PROVE  r = q
<1>1. r \in HeldBy(db, c) /\ q \in HeldBy(db, c)
  BY DEF Oldest
<1>2. r \in Nat /\ q \in Nat
  BY <1>1 DEF HeldBy, IsDB, AllocDBAssumption
<1>3. db[r].alloc \in Nat /\ db[q].alloc \in Nat
  BY <1>1, EntryOfDB, SameEntry DEF HeldBy
<1>4. /\ db[r].alloc < db[q].alloc \/ (db[r].alloc = db[q].alloc /\ r <= q)
      /\ db[q].alloc < db[r].alloc \/ (db[q].alloc = db[r].alloc /\ q <= r)
  BY <1>1 DEF Oldest
<1> QED BY <1>2, <1>3, <1>4

\* Changing the oldest allocation of a client changes one entry, or none.
LEMMA OldestOnly ==
  ASSUME AllocDBAssumption, NEW db, IsDB(db), NEW c, NEW f, DOMAIN f = DOMAIN db,
         f = [r \in DOMAIN f |-> f[r]],
         \A r \in DOMAIN db : r \notin Oldest(db, c) => f[r] = db[r]
  PROVE  f = db \/ \E r \in HeldBy(db, c) : r \in Oldest(db, c) /\ f = [db EXCEPT ![r] = f[r]]
<1>0. db = [r \in DOMAIN db |-> db[r]]
  BY DEF IsDB
<1>1. CASE Oldest(db, c) = {}
  BY <1>0, <1>1
<1>2. ASSUME NEW r \in Oldest(db, c)
      PROVE  r \in HeldBy(db, c) /\ f = [db EXCEPT ![r] = f[r]]
  <2>1. \A q \in Oldest(db, c) : q = r
    BY <1>2, OldestUnique
  <2>2. r \in HeldBy(db, c) /\ r \in DOMAIN db
    BY <1>2 DEF Oldest, HeldBy
  <2>3. \A q \in DOMAIN db : q # r => f[q] = db[q]
    BY <2>1
  <2> QED BY <1>0, <2>2, <2>3
<1> QED BY <1>1, <1>2

LEMMA RenewOneIs ==
  ASSUME AllocDBAssumption, NEW db, IsDB(db), NEW c \in Clients, NEW t
  PROVE  \/ RenewOne(db, c, t) = db
         \/ \E r \in HeldBy(db, c) :
              ~db[r].locked /\ RenewOne(db, c, t) = [db EXCEPT ![r].renew = t]
<1> DEFINE f == RenewOne(db, c, t)
<1>0. db = [r \in DOMAIN db |-> db[r]]
  BY DEF IsDB
<1>1. /\ DOMAIN f = DOMAIN db
      /\ f = [r \in DOMAIN f |-> f[r]]
      /\ \A r \in DOMAIN db : r \notin Oldest(db, c) => f[r] = db[r]
  BY DEF RenewOne
<1>2. f = db \/ \E r \in HeldBy(db, c) : r \in Oldest(db, c) /\ f = [db EXCEPT ![r] = f[r]]
  <2> HIDE DEF f
  <2> QED BY <1>1, OldestOnly
<1>3. ASSUME NEW r \in HeldBy(db, c), r \in Oldest(db, c), f = [db EXCEPT ![r] = f[r]]
      PROVE  f = db \/ (~db[r].locked /\ f = [db EXCEPT ![r].renew = t])
  <2>1. r \in DOMAIN db /\ IsAllocated(db[r])
    BY AllocDBAssumption DEF HeldBy, IsAllocated, AllocDBAssumption
  <2>2. f[r] = IF ~db[r].locked THEN [db[r] EXCEPT !.renew = t] ELSE db[r]
    BY <1>3, <2>1 DEF RenewOne, Renewed
  <2>3. CASE db[r].locked
    BY <1>0, <1>3, <2>2, <2>3
  <2>4. CASE ~db[r].locked
    <3>1. f[r] = [db[r] EXCEPT !.renew = t]
      BY <2>2, <2>4
    <3>2. f = [db EXCEPT ![r] = [db[r] EXCEPT !.renew = t]]
      BY <1>3, <3>1
    <3> HIDE DEF f
    <3> QED BY <2>4, <3>2
  <2> QED BY <2>3, <2>4
<1> HIDE DEF f
<1>4. f = db \/ \E r \in HeldBy(db, c) : ~db[r].locked /\ f = [db EXCEPT ![r].renew = t]
  BY <1>2, <1>3
<1> QED BY <1>4 DEF f

LEMMA ReleaseOneIs ==
  ASSUME AllocDBAssumption, NEW db, IsDB(db), NEW c \in Clients
  PROVE  \/ ReleaseOne(db, c) = db
         \/ \E r \in HeldBy(db, c) :
              /\ ~db[r].locked
              /\ ReleaseOne(db, c) =
                   [db EXCEPT ![r].holder = NoClient, ![r].alloc = 0, ![r].renew = 0]
<1> DEFINE f == ReleaseOne(db, c)
<1>0. db = [r \in DOMAIN db |-> db[r]]
  BY DEF IsDB
<1>1. /\ DOMAIN f = DOMAIN db
      /\ f = [r \in DOMAIN f |-> f[r]]
      /\ \A r \in DOMAIN db : r \notin Oldest(db, c) => f[r] = db[r]
  BY DEF ReleaseOne
<1>2. f = db \/ \E r \in HeldBy(db, c) : r \in Oldest(db, c) /\ f = [db EXCEPT ![r] = f[r]]
  <2> HIDE DEF f
  <2> QED BY <1>1, OldestOnly
<1>3. ASSUME NEW r \in HeldBy(db, c), r \in Oldest(db, c), f = [db EXCEPT ![r] = f[r]]
      PROVE  \/ f = db
             \/ /\ ~db[r].locked
                /\ f = [db EXCEPT ![r].holder = NoClient, ![r].alloc = 0, ![r].renew = 0]
  <2>1. r \in DOMAIN db
    BY DEF HeldBy
  <2>2. f[r] = IF db[r].locked THEN db[r]
                ELSE [db[r] EXCEPT !.holder = NoClient, !.alloc = 0, !.renew = 0]
    BY <1>3, <2>1 DEF ReleaseOne, Released
  <2>3. CASE db[r].locked
    BY <1>0, <1>3, <2>2, <2>3
  <2>4. CASE ~db[r].locked
    <3>1. f = [db EXCEPT ![r] = [db[r] EXCEPT !.holder = NoClient, !.alloc = 0, !.renew = 0]]
      BY <1>3, <2>2, <2>4
    <3> HIDE DEF f
    <3>2. f = [db EXCEPT ![r].holder = NoClient, ![r].alloc = 0, ![r].renew = 0]
      BY <1>0, <2>1, <3>1
    <3> QED BY <2>4, <3>2
  <2> QED BY <2>3, <2>4
<1> HIDE DEF f
<1>4. f = db \/ \E r \in HeldBy(db, c) :
         /\ ~db[r].locked
         /\ f = [db EXCEPT ![r].holder = NoClient, ![r].alloc = 0, ![r].renew = 0]
  BY <1>2, <1>3
<1> QED BY <1>4 DEF f

Granted(db, c, r, t) == [db EXCEPT ![r].holder = c, ![r].alloc = t, ![r].renew = t]
Extended(db, r, t)   == [db EXCEPT ![r].renew = t]

\* What is answered is the client's own account, or a free one if it has none.
LEMMA AllocateOneIs ==
  ASSUME AllocDBAssumption, NEW db, IsDB(db), NEW c \in Clients, NEW t,
         NEW r \in Answer(db, c)
  PROVE  /\ r \in DOMAIN db /\ ~db[r].locked /\ c \notin RootClients
         /\ \/ /\ r \in HeldBy(db, c)
               /\ AllocateOne(db, c, r, t) = Extended(db, r, t)
            \/ /\ HeldBy(db, c) = {} /\ r \in Allocatable(db)
               /\ AllocateOne(db, c, r, t) = Granted(db, c, r, t)
<1>0. r \in DOMAIN db /\ c \notin RootClients /\ db = [q \in DOMAIN db |-> db[q]]
  BY AnswerInDB DEF Answer, IsDB
<1>1. CASE HeldBy(db, c) # {}
  <2>1. r \in HeldBy(db, c) /\ ~db[r].locked
    BY <1>0, <1>1 DEF Answer, Oldest
  <2>2. IsAllocated(db[r])
    BY <2>1, AllocDBAssumption DEF HeldBy, IsAllocated, AllocDBAssumption
  <2>3. AllocateOne(db, c, r, t) = [db EXCEPT ![r] = [db[r] EXCEPT !.renew = t]]
    BY <2>1, <2>2 DEF AllocateOne, Renewed
  <2>4. AllocateOne(db, c, r, t) = Extended(db, r, t)
    BY <1>0, <2>3 DEF Extended
  <2> QED BY <1>0, <2>1, <2>4
<1>2. CASE HeldBy(db, c) = {}
  <2>1. r \in Allocatable(db)
    BY <1>0, <1>2 DEF Answer, FirstAllocatable
  <2>2. ~IsAllocated(db[r]) /\ ~db[r].locked
    BY <2>1 DEF Allocatable
  <2>3. AllocateOne(db, c, r, t) =
          [db EXCEPT ![r] = [db[r] EXCEPT !.holder = c, !.alloc = t, !.renew = t]]
    BY <2>2 DEF AllocateOne, Allocated
  <2>4. AllocateOne(db, c, r, t) = Granted(db, c, r, t)
    BY <1>0, <2>3 DEF Granted
  <2> QED BY <1>0, <1>2, <2>1, <2>2, <2>4
<1> QED BY <1>1, <1>2

\* Expiry looks at nothing that a new token changes.
LEMMA SweepIs ==
  ASSUME NEW db, IsDB(db), NEW R \in SUBSET DOMAIN db, NEW t
  PROVE  ReleaseExpired(RenewTokens(db, R), t) =
           [r \in DOMAIN db |->
              [(IF AllocExpired(db[r], t) THEN Released(db[r]) ELSE db[r])
               EXCEPT !.tok = IF r \in R THEN @ + 1 ELSE @]]
<1>1. ASSUME NEW r \in DOMAIN db
      PROVE  LET e == RenewTokens(db, R)[r] IN
             (IF AllocExpired(e, t) THEN Released(e) ELSE e)
               = [(IF AllocExpired(db[r], t) THEN Released(db[r]) ELSE db[r])
                  EXCEPT !.tok = IF r \in R THEN @ + 1 ELSE @]
  <2>1. db[r] \in Entry
    BY EntryOfDB
  <2>2. RenewTokens(db, R)[r] = IF r \in R THEN [db[r] EXCEPT !.tok = @ + 1] ELSE db[r]
    BY DEF RenewTokens
  <2>3. CASE r \in R
    BY <2>1, <2>2, <2>3 DEF Entry, AllocExpired, IsAllocated, Released
  <2>4. CASE r \notin R
    BY <2>1, <2>2, <2>4 DEF Entry, AllocExpired, IsAllocated, Released
  <2> QED BY <2>3, <2>4
<1>2. DOMAIN RenewTokens(db, R) = DOMAIN db
  BY DEF RenewTokens
<1> QED BY <1>1, <1>2 DEF ReleaseExpired
==============================================================================
