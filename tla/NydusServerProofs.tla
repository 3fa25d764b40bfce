-------------------------- MODULE NydusServerProofs --------------------------
(***************************************************************************)
(* Proofs about NydusServer, for every value of its constants.             *)
(***************************************************************************)
EXTENDS NydusServer, AllocDBProofs, TLAPS

-----------------------------------------------------------------------------
(* Type correctness.                                                       *)

\* Emptying the file and writing it keep file and copy well typed.
LEMMA TruncateType ==
  ASSUME TypeOK, NEW p \in Procs, NEW db, IsDB(db), Truncate(p, db)
  PROVE  /\ file' = Torn \/ IsDB(file')
         /\ DOMAIN copy' = Procs /\ \A q \in Procs : IsDB(copy'[q])
BY EmptyIsDB DEF TypeOK, Truncate

LEMMA OverwriteType ==
  ASSUME TypeOK, NEW p \in Procs, Overwrite(p)
  PROVE  /\ file' = Torn \/ IsDB(file')
         /\ DOMAIN copy' = Procs /\ \A q \in Procs : IsDB(copy'[q])
BY EmptyIsDB DEF TypeOK, Overwrite, Written

\* What dying processes leave: the file, something unreadable, or rows of a copy.
LEMMA RemainsAre ==
  ASSUME NEW P \in SUBSET Procs, NEW f \in Remains(P)
  PROVE  \/ f = file \/ f = Torn
         \/ \E p \in Procs : \E n \in DOMAIN copy[p] : f = FirstRows(copy[p], n)
BY DEF Remains, CutShort, Writing

LEMMA RemainsQuiet ==
  ASSUME ~FileTears, NEW P
  PROVE  Remains(P) = {file}
BY DEF Remains

LEMMA FirstRowsIsDB ==
  ASSUME NEW db, IsDB(db), NEW n
  PROVE  IsDB(FirstRows(db, n))
<1>1. DOMAIN FirstRows(db, n) \subseteq DOMAIN db /\ DOMAIN FirstRows(db, n) \subseteq Rows
  BY DEF FirstRows, IsDB
<1>2. \A r \in DOMAIN FirstRows(db, n) : FirstRows(db, n)[r] = db[r] /\ db[r] \in Entry
  BY EntryOfDB DEF FirstRows
<1>3. FirstRows(db, n) \in [DOMAIN FirstRows(db, n) -> Entry]
  BY <1>2 DEF FirstRows
<1> QED BY <1>1, <1>3 DEF IsDB

LEMMA RemainsType ==
  ASSUME TypeOK, NEW P \in SUBSET Procs, file' \in Remains(P)
  PROVE  file' = Torn \/ IsDB(file')
<1>1. \A p \in Procs : \A n \in DOMAIN copy[p] : IsDB(FirstRows(copy[p], n))
  BY FirstRowsIsDB DEF TypeOK
<1> QED BY <1>1, RemainsAre DEF TypeOK

\* What a thread, the main thread or nydus-cli does to its own copy.
LEMMA CopyType ==
  ASSUME TypeOK, NEW p \in Procs, NEW db, IsDB(db), copy' = [copy EXCEPT ![p] = db]
  PROVE  DOMAIN copy' = Procs /\ \A q \in Procs : IsDB(copy'[q])
BY DEF TypeOK

LEMMA ConnType ==
  ASSUME TypeOK, NEW t \in Conns, ConnStep(t)
  PROVE  TypeOK'
<1> USE DEF TypeOK
<1>0. t \in Threads /\ t \in Procs
  BY DEF Threads, Procs
<1>1. ASSUME Accept(t) PROVE TypeOK'
  BY <1>0, <1>1 DEF Accept
<1>2. ASSUME NEW m \in Messages, Receive(t, m) PROVE TypeOK'
  BY <1>0, <1>2 DEF Receive
<1>3. ASSUME Discard(t) PROVE TypeOK'
  BY <1>0, <1>3 DEF Discard
<1>4. ASSUME Load(t) PROVE TypeOK'
  <2>1. IsDB(file)
    BY <1>4 DEF Load
  <2>2. copy' = [copy EXCEPT ![t] = file]
    BY <1>4 DEF Load
  <2>3. DOMAIN copy' = Procs /\ \A q \in Procs : IsDB(copy'[q])
    BY <1>0, <2>1, <2>2, CopyType
  <2> QED BY <1>0, <1>4, <2>3 DEF Load
<1>5. ASSUME LoadFails(t) PROVE TypeOK'
  BY <1>0, <1>5 DEF LoadFails
<1>6. req[t].cmd \in {"REQUEST", "RENEW", "RELEASE"} => req[t].client \in Clients
  BY DEF Messages, NoReq, UsersReq
<1>7. ASSUME NEW db, IsDB(db), Commit(t, db), ans' \in [Conns -> Rows \cup {NoRow}]
      PROVE  TypeOK'
  <2>1. Truncate(t, db)
    BY <1>7 DEF Commit
  <2>2. /\ file' = Torn \/ IsDB(file')
        /\ DOMAIN copy' = Procs /\ \A q \in Procs : IsDB(copy'[q])
    BY <1>0, <1>7, <2>1, TruncateType
  <2> QED BY <1>0, <1>7, <2>2 DEF Commit
<1>8. ASSUME Request(t) PROVE TypeOK'
  <2>1. PICK r \in Answer(copy[t], req[t].client) :
             /\ Commit(t, AllocateOne(copy[t], req[t].client, r, now))
             /\ ans' = [ans EXCEPT ![t] = r]
    BY <1>8 DEF Request
  <2>2. req[t].client \in Clients
    BY <1>6, <1>8 DEF Request, Handles
  <2>3. IsDB(copy[t]) /\ r \in DOMAIN copy[t] /\ r \in Rows
    BY <1>0, AnswerInDB DEF IsDB
  <2>4. IsDB(AllocateOne(copy[t], req[t].client, r, now))
    BY <2>2, <2>3, OpsIsDB
  <2> QED BY <1>7, <2>1, <2>3, <2>4
<1>9. ASSUME Refuse(t) PROVE TypeOK'
  <2>1. DOMAIN copy' = Procs /\ \A q \in Procs : IsDB(copy'[q])
    BY <1>0, <1>9, CopyType, EmptyIsDB DEF Refuse
  <2> QED BY <1>0, <1>9, <2>1 DEF Refuse
<1>10. ASSUME Renew(t) PROVE TypeOK'
  <2>1. IsDB(RenewOne(copy[t], req[t].client, now))
    BY <1>0, <1>6, <1>10, OpsIsDB DEF Renew, Handles
  <2> QED BY <1>7, <1>10, <2>1 DEF Renew
<1>11. ASSUME Release(t) PROVE TypeOK'
  <2>1. IsDB(ReleaseOne(copy[t], req[t].client))
    BY <1>0, <1>6, <1>11, OpsIsDB DEF Release, Handles
  <2> QED BY <1>7, <1>11, <2>1 DEF Release
<1>12. ASSUME ShowUsers(t) PROVE TypeOK'
  <2>1. DOMAIN copy' = Procs /\ \A q \in Procs : IsDB(copy'[q])
    BY <1>0, <1>12, CopyType, EmptyIsDB DEF ShowUsers
  <2> QED BY <1>0, <1>12, <2>1 DEF ShowUsers
<1>13. ASSUME Write(t) PROVE TypeOK'
  <2>1. /\ file' = Torn \/ IsDB(file')
        /\ DOMAIN copy' = Procs /\ \A q \in Procs : IsDB(copy'[q])
    BY <1>0, <1>13, OverwriteType DEF Write
  <2> QED BY <1>0, <1>13, <2>1 DEF Write
<1>14. ASSUME Reply(t) PROVE TypeOK'
  BY <1>0, <1>14 DEF Reply
<1> QED
  BY <1>1, <1>2, <1>3, <1>4, <1>5, <1>8, <1>9, <1>10, <1>11, <1>12, <1>13, <1>14
     DEF ConnStep

LEMMA CleanerType ==
  ASSUME TypeOK, NEW k \in Cleaners, CleanerStep(k), NydusServerAssumption
  PROVE  TypeOK'
<1> USE DEF TypeOK
<1>0. k \in Threads /\ k \in Procs /\ k \notin Conns
  BY DEF Threads, Procs, NydusServerAssumption
<1>1. ASSUME Spawn(k) PROVE TypeOK'
  BY <1>0, <1>1 DEF Spawn
<1>2. ASSUME Load(k) PROVE TypeOK'
  <2>1. IsDB(file) /\ copy' = [copy EXCEPT ![k] = file]
    BY <1>2 DEF Load
  <2>2. DOMAIN copy' = Procs /\ \A q \in Procs : IsDB(copy'[q])
    BY <1>0, <2>1, CopyType
  <2> QED BY <1>0, <1>2, <2>2 DEF Load
<1>3. ASSUME LoadFails(k) PROVE TypeOK'
  BY <1>0, <1>3 DEF LoadFails
<1>4. ASSUME NEW R, NEW lim \in BOOLEAN, RenewAccess(k, R, lim) PROVE TypeOK'
  <2>1. IsDB(RenewTokens(copy[k], R)) /\ copy' = [copy EXCEPT ![k] = RenewTokens(@, R)]
    BY <1>0, <1>4, TokensIsDB DEF RenewAccess
  <2>2. DOMAIN copy' = Procs /\ \A q \in Procs : IsDB(copy'[q])
    BY <1>0, <2>1, CopyType
  <2> QED BY <1>0, <1>4, <2>2 DEF RenewAccess
<1>5. ASSUME Expire(k) PROVE TypeOK'
  <2>1. IsDB(ReleaseExpired(copy[k], now))
    BY <1>0, TokensIsDB
  <2>2. /\ file' = Torn \/ IsDB(file')
        /\ DOMAIN copy' = Procs /\ \A q \in Procs : IsDB(copy'[q])
    BY <1>0, <1>5, <2>1, TruncateType DEF Expire
  <2> QED BY <1>0, <1>5, <2>2 DEF Expire
<1>6. ASSUME WriteSwept(k) PROVE TypeOK'
  <2>1. /\ file' = Torn \/ IsDB(file')
        /\ DOMAIN copy' = Procs /\ \A q \in Procs : IsDB(copy'[q])
    BY <1>0, <1>6, OverwriteType DEF WriteSwept
  <2> QED BY <1>0, <1>6, <2>1 DEF WriteSwept
<1>7. ASSUME WakeUp(k) PROVE TypeOK'
  BY <1>0, <1>7 DEF WakeUp
<1> QED
  BY <1>1, <1>2, <1>3, <1>4, <1>5, <1>6, <1>7 DEF CleanerStep

LEMMA MainType ==
  ASSUME TypeOK, MainStep, NydusServerAssumption
  PROVE  TypeOK'
<1> USE DEF TypeOK
<1>0. Main \in Procs /\ Cli \in Procs
  BY DEF Procs
<1>1. ASSUME NEW S \in SUBSET Rows, Start(S) PROVE TypeOK'
  <2>1. /\ file' = Torn \/ IsDB(file')
        /\ DOMAIN copy' = Procs /\ \A q \in Procs : IsDB(copy'[q])
    BY <1>0, <1>1, CreateIsDB, TruncateType DEF Start
  <2> QED BY <1>0, <1>1, <2>1 DEF Start
<1>2. ASSUME WriteCreated PROVE TypeOK'
  <2>1. /\ file' = Torn \/ IsDB(file')
        /\ DOMAIN copy' = Procs /\ \A q \in Procs : IsDB(copy'[q])
    BY <1>0, <1>2, OverwriteType DEF WriteCreated
  <2> QED BY <1>0, <1>2, <2>1 DEF WriteCreated
<1>3. ASSUME StartAnyway PROVE TypeOK'
  <2>1. known' \subseteq Rows
    BY <1>3 DEF StartAnyway, IsDB
  <2> QED BY <1>0, <1>3, <2>1 DEF StartAnyway
<1>4. ASSUME Crash PROVE TypeOK'
  <2>1. DOMAIN copy' = Procs /\ \A q \in Procs : IsDB(copy'[q])
    BY <1>0, <1>4, EmptyIsDB DEF Crash
  <2>2. file' = Torn \/ IsDB(file')
    <3>1. file' \in Remains(Procs \ {Cli}) /\ Procs \ {Cli} \in SUBSET Procs
      BY <1>4 DEF Crash
    <3> QED BY <3>1, RemainsType
  <2> QED BY <1>0, <1>4, <2>1, <2>2 DEF Crash
<1> QED
  BY <1>1, <1>2, <1>3, <1>4 DEF MainStep

LEMMA CliType ==
  ASSUME TypeOK, CliStep, NydusServerAssumption
  PROVE  TypeOK'
<1> USE DEF TypeOK
<1>0. Cli \in Procs /\ AdminOps \subseteq CliOps
  BY DEF Procs, NydusServerAssumption
<1>1. ASSUME NEW op \in AdminOps, CliAlone(op) PROVE TypeOK'
  <2>1. IsDB(file) /\ file' = CliApply(file, op, now)
    BY <1>1 DEF CliAlone
  <2>2. IsDB(file')
    BY <1>0, <2>1, CliIsDB
  <2> QED BY <1>1, <2>2 DEF CliAlone
<1>2. ASSUME NEW op \in AdminOps, CliCommit(op) PROVE TypeOK'
  <2>1. IsDB(CliApply(copy[Cli], op, now))
    BY <1>0, CliIsDB
  <2>2. /\ file' = Torn \/ IsDB(file')
        /\ DOMAIN copy' = Procs /\ \A q \in Procs : IsDB(copy'[q])
    BY <1>0, <1>2, <2>1, TruncateType DEF CliCommit
  <2> QED BY <1>0, <1>2, <2>2 DEF CliCommit
<1>3. ASSUME CliLoad PROVE TypeOK'
  <2>1. IsDB(file) /\ copy' = [copy EXCEPT ![Cli] = file]
    BY <1>3 DEF CliLoad
  <2>2. DOMAIN copy' = Procs /\ \A q \in Procs : IsDB(copy'[q])
    BY <1>0, <2>1, CopyType
  <2> QED BY <1>0, <1>3, <2>2 DEF CliLoad
<1>4. ASSUME CliWrite PROVE TypeOK'
  <2>1. /\ file' = Torn \/ IsDB(file')
        /\ DOMAIN copy' = Procs /\ \A q \in Procs : IsDB(copy'[q])
    BY <1>0, <1>4, OverwriteType DEF CliWrite
  <2> QED BY <1>0, <1>4, <2>1 DEF CliWrite
<1>5. ASSUME CliKilled PROVE TypeOK'
  <2>1. DOMAIN copy' = Procs /\ \A q \in Procs : IsDB(copy'[q])
    BY <1>0, <1>5, EmptyIsDB, CopyType DEF CliKilled
  <2>2. file' = Torn \/ IsDB(file')
    <3>1. file' \in Remains({Cli}) /\ {Cli} \in SUBSET Procs
      BY <1>0, <1>5 DEF CliKilled
    <3> QED BY <3>1, RemainsType
  <2> QED BY <1>0, <1>5, <2>1, <2>2 DEF CliKilled
<1> QED
  BY <1>1, <1>2, <1>3, <1>4, <1>5 DEF CliStep

LEMMA TypeInit == ASSUME NydusServerAssumption, Init PROVE TypeOK
BY EmptyIsDB DEF Init, TypeOK, Threads, NydusServerAssumption

LEMMA TypeStep ==
  ASSUME NydusServerAssumption, TypeOK, [Next]_vars
  PROVE  TypeOK'
<1>1. CASE \E t \in Conns : ConnStep(t)
  BY <1>1, ConnType
<1>2. CASE \E k \in Cleaners : CleanerStep(k)
  BY <1>2, CleanerType
<1>3. CASE MainStep
  BY <1>3, MainType
<1>4. CASE CliStep
  BY <1>4, CliType
<1>5. CASE Tick
  BY <1>5 DEF TypeOK, Tick
<1>6. CASE UNCHANGED vars
  BY <1>6 DEF TypeOK, vars
<1> QED
  BY <1>1, <1>2, <1>3, <1>4, <1>5, <1>6 DEF Next

\* Every variable of the server keeps its type.
THEOREM TypeCorrect == Spec => []TypeOK
<1>1. Init => TypeOK
  BY NydusServerAssumption, TypeInit
<1>2. TypeOK /\ [Next]_vars => TypeOK'
  BY NydusServerAssumption, TypeStep
<1> QED BY <1>1, <1>2, PTL DEF Spec

-----------------------------------------------------------------------------
(* The lock.                                                               *)

LEMMA LockStep ==
  ASSUME NydusServerAssumption, TypeOK, LockOwned, [Next]_vars
  PROVE  LockOwned'
<1> USE DEF TypeOK, LockOwned
<1>0. /\ \A t \in Threads : t \in Procs /\ t # NoThread /\ t # Cli /\ t # Main
      /\ Conns \subseteq Threads /\ Cleaners \subseteq Threads
      /\ Main \in Procs /\ Cli \in Procs
  BY DEF NydusServerAssumption, Threads, Procs
<1>1. ASSUME NEW t \in Conns, ConnStep(t) PROVE LockOwned'
  <2>1. CASE Accept(t) BY <1>0, <2>1 DEF Accept
  <2>2. CASE \E m \in Messages : Receive(t, m) BY <1>0, <2>2 DEF Receive
  <2>3. CASE Discard(t) BY <1>0, <2>3 DEF Discard
  <2>4. CASE Load(t) BY <1>0, <2>4 DEF Load
  <2>5. CASE LoadFails(t) BY <1>0, <2>5 DEF LoadFails
  <2>6. CASE Request(t) BY <1>0, <2>6 DEF Request, Handles, Commit
  <2>7. CASE Refuse(t) BY <1>0, <2>7 DEF Refuse, Handles
  <2>8. CASE Renew(t) BY <1>0, <2>8 DEF Renew, Handles, Commit
  <2>9. CASE Release(t) BY <1>0, <2>9 DEF Release, Handles, Commit
  <2>10. CASE ShowUsers(t) BY <1>0, <2>10 DEF ShowUsers, Handles
  <2>11. CASE Write(t) BY <1>0, <2>11 DEF Write
  <2>12. CASE Reply(t) BY <1>0, <2>12 DEF Reply
  <2> QED BY <1>1, <2>1, <2>2, <2>3, <2>4, <2>5, <2>6, <2>7, <2>8, <2>9, <2>10,
             <2>11, <2>12 DEF ConnStep
<1>2. ASSUME NEW k \in Cleaners, CleanerStep(k) PROVE LockOwned'
  <2>1. CASE Spawn(k) BY <1>0, <2>1 DEF Spawn
  <2>2. CASE Load(k) BY <1>0, <2>2 DEF Load
  <2>3. CASE LoadFails(k) BY <1>0, <2>3 DEF LoadFails
  <2>4. CASE \E R \in SUBSET DOMAIN copy[k], lim \in BOOLEAN : RenewAccess(k, R, lim)
    BY <1>0, <2>4 DEF RenewAccess
  <2>5. CASE Expire(k) BY <1>0, <2>5 DEF Expire
  <2>6. CASE WriteSwept(k) BY <1>0, <2>6 DEF WriteSwept
  <2>7. CASE WakeUp(k) BY <1>0, <2>7 DEF WakeUp
  <2> QED BY <1>2, <2>1, <2>2, <2>3, <2>4, <2>5, <2>6, <2>7 DEF CleanerStep
<1>3. ASSUME MainStep PROVE LockOwned'
  BY <1>0, <1>3 DEF MainStep, Start, WriteCreated, StartAnyway, Crash
<1>4. ASSUME CliStep PROVE LockOwned'
  BY <1>0, <1>4 DEF CliStep, CliAlone, CliLoad, CliCommit, CliWrite, CliKilled
<1>5. CASE Tick BY <1>5 DEF Tick
<1>6. CASE UNCHANGED vars BY <1>6 DEF vars
<1> QED
  BY <1>1, <1>2, <1>3, <1>4, <1>5, <1>6 DEF Next

\* A thread holds ALLOCDB_LOCK exactly from its load to the end of its write,
\* whatever nydus-cli does to the file meanwhile.
THEOREM LockIsOwned == Spec => []LockOwned
<1>1. Init => LockOwned
  BY NydusServerAssumption DEF Init, LockOwned, NydusServerAssumption, Threads, Procs
<1>2. TypeOK /\ LockOwned /\ [Next]_vars => LockOwned'
  BY NydusServerAssumption, LockStep
<1> QED BY <1>1, <1>2, TypeCorrect, PTL DEF Spec

-----------------------------------------------------------------------------
(* At most one account for each client.                                    *)

NoManualAlloc == \A op \in AdminOps : op.cmd # "alloc"

\* What the file can be after the two halves of write_changes.
LEMMA OneEachTruncate ==
  ASSUME TypeOK, OneAccountEach, NEW p \in Procs, NEW db, AtMostOneEach(db),
         Truncate(p, db)
  PROVE  OneAccountEach'
BY OneEachEmpty DEF TypeOK, OneAccountEach, Truncate

LEMMA OneEachOverwrite ==
  ASSUME TypeOK, OneAccountEach, NEW p \in Procs, Overwrite(p)
  PROVE  OneAccountEach'
BY OneEachEmpty DEF TypeOK, OneAccountEach, Overwrite, Written

LEMMA OneEachRemains ==
  ASSUME TypeOK, OneAccountEach, NEW P \in SUBSET Procs, file' \in Remains(P),
         NEW died, copy' = [p \in Procs |-> IF p \in died THEN EmptyDB ELSE copy[p]]
  PROVE  OneAccountEach'
<1>1. ASSUME NEW p \in Procs, NEW n PROVE AtMostOneEach(FirstRows(copy[p], n))
  BY DEF OneAccountEach, AtMostOneEach, FirstRows, IsAllocated
<1>2. file' = Torn \/ AtMostOneEach(file')
  <2>1. CASE file' = file \/ file' = Torn
    BY <2>1 DEF OneAccountEach
  <2>2. CASE \E p \in Procs : \E n \in DOMAIN copy[p] : file' = FirstRows(copy[p], n)
    BY <1>1, <2>2
  <2> QED BY <2>1, <2>2, RemainsAre
<1>3. \A p \in Procs : AtMostOneEach(copy'[p])
  BY OneEachEmpty DEF OneAccountEach
<1> QED BY <1>2, <1>3 DEF OneAccountEach

\* The file stays as it is and one copy becomes db.
LEMMA OneEachCopy ==
  ASSUME TypeOK, OneAccountEach, NEW p \in Procs, NEW db, AtMostOneEach(db),
         file' = file, copy' = [copy EXCEPT ![p] = db]
  PROVE  OneAccountEach'
BY DEF TypeOK, OneAccountEach

LEMMA OneEachStep ==
  ASSUME AllocDBAssumption, NydusServerAssumption, NoManualAlloc,
         TypeOK, OneAccountEach, [Next]_vars
  PROVE  OneAccountEach'
<1>0. /\ \A t \in Threads : t \in Procs
      /\ Conns \subseteq Threads /\ Cleaners \subseteq Threads
      /\ Main \in Procs /\ Cli \in Procs
      /\ \A p \in Procs : IsDB(copy[p]) /\ AtMostOneEach(copy[p])
      /\ file # Torn => IsDB(file) /\ AtMostOneEach(file)
  BY DEF Threads, Procs, TypeOK, OneAccountEach
<1>a. ASSUME file' = file, copy' = copy PROVE OneAccountEach'
  BY <1>a DEF OneAccountEach
<1>b. ASSUME NEW t \in Threads, Load(t) PROVE OneAccountEach'
  <2>1. AtMostOneEach(file) /\ copy' = [copy EXCEPT ![t] = file] /\ file' = file
    BY <1>0, <1>b DEF Load
  <2> QED BY <1>0, <2>1, OneEachCopy
<1>1. ASSUME NEW t \in Conns, ConnStep(t) PROVE OneAccountEach'
  <2>0. t \in Procs /\ t \in Threads
    BY <1>0
  <2>1. CASE \/ Accept(t) \/ (\E m \in Messages : Receive(t, m)) \/ Discard(t)
             \/ LoadFails(t) \/ Reply(t)
    BY <1>a, <2>1 DEF Accept, Receive, Discard, LoadFails, Reply
  <2>2. CASE Load(t)
    BY <1>b, <2>0, <2>2
  <2>3. CASE Request(t)
    <3>1. PICK r \in Answer(copy[t], req[t].client) :
               Commit(t, AllocateOne(copy[t], req[t].client, r, now))
      BY <2>3 DEF Request
    <3>2. req[t].client \in Clients
      BY <2>3 DEF Request, Handles, TypeOK, Messages, NoReq, UsersReq
    <3>3. AtMostOneEach(AllocateOne(copy[t], req[t].client, r, now))
      BY <1>0, <2>0, <3>2, OneEachAllocate
    <3> QED BY <2>0, <3>1, <3>3, OneEachTruncate DEF Commit
  <2>4. CASE Refuse(t) \/ ShowUsers(t)
    BY <2>0, <2>4, OneEachCopy, OneEachEmpty DEF Refuse, ShowUsers
  <2>5. CASE Renew(t)
    BY <1>0, <2>0, <2>5, OneEachOps, OneEachTruncate DEF Renew, Commit
  <2>6. CASE Release(t)
    BY <1>0, <2>0, <2>6, OneEachOps, OneEachTruncate DEF Release, Commit
  <2>7. CASE Write(t)
    BY <2>0, <2>7, OneEachOverwrite DEF Write
  <2> QED BY <1>1, <2>1, <2>2, <2>3, <2>4, <2>5, <2>6, <2>7 DEF ConnStep
<1>2. ASSUME NEW k \in Cleaners, CleanerStep(k) PROVE OneAccountEach'
  <2>0. k \in Procs /\ k \in Threads
    BY <1>0
  <2>1. CASE Spawn(k) \/ LoadFails(k) \/ WakeUp(k)
    BY <1>a, <2>1 DEF Spawn, LoadFails, WakeUp
  <2>2. CASE Load(k)
    BY <1>b, <2>0, <2>2
  <2>3. ASSUME NEW R, NEW lim, RenewAccess(k, R, lim) PROVE OneAccountEach'
    <3>1. AtMostOneEach(RenewTokens(copy[k], R))
      BY <1>0, <2>0, OneEachOps
    <3>2. file' = file /\ copy' = [copy EXCEPT ![k] = RenewTokens(copy[k], R)]
      BY <2>0, <2>3 DEF RenewAccess, TypeOK
    <3> QED BY <2>0, <3>1, <3>2, OneEachCopy
  <2>4. CASE Expire(k)
    <3>1. AtMostOneEach(ReleaseExpired(copy[k], now))
      BY <1>0, <2>0, OneEachOps
    <3> QED BY <2>0, <2>4, <3>1, OneEachTruncate DEF Expire
  <2>5. CASE WriteSwept(k)
    BY <2>0, <2>5, OneEachOverwrite DEF WriteSwept
  <2> QED BY <1>2, <2>1, <2>2, <2>3, <2>4, <2>5 DEF CleanerStep
<1>3. ASSUME MainStep PROVE OneAccountEach'
  <2>1. ASSUME NEW S \in SUBSET Rows, Start(S) PROVE OneAccountEach'
    <3>1. AtMostOneEach(CreateDB(S))
      BY DEF AtMostOneEach, CreateDB, IsAllocated
    <3> QED BY <1>0, <2>1, <3>1, OneEachTruncate DEF Start
  <2>2. CASE WriteCreated
    BY <1>0, <2>2, OneEachOverwrite DEF WriteCreated
  <2>3. CASE StartAnyway
    BY <1>a, <2>3 DEF StartAnyway
  <2>4. CASE Crash
    <3>1. copy' = [p \in Procs |-> IF p \in Procs \ {Cli} THEN EmptyDB ELSE copy[p]]
      BY <1>0, <2>4 DEF Crash
    <3>2. file' \in Remains(Procs \ {Cli}) /\ Procs \ {Cli} \in SUBSET Procs
      BY <2>4 DEF Crash
    <3> QED BY <3>1, <3>2, OneEachRemains
  <2> QED BY <1>3, <2>1, <2>2, <2>3, <2>4 DEF MainStep
<1>4. ASSUME CliStep PROVE OneAccountEach'
  <2>0. \A op \in AdminOps : op \in CliOps /\ op.cmd # "alloc"
    BY DEF NoManualAlloc, NydusServerAssumption
  <2>1. ASSUME NEW op \in AdminOps, CliAlone(op) PROVE OneAccountEach'
    <3>1. file' = CliApply(file, op, now) /\ file # Torn /\ copy' = copy
      BY <2>1 DEF CliAlone
    <3>2. AtMostOneEach(CliApply(file, op, now))
      BY <1>0, <2>0, <3>1, OneEachCli
    <3> QED BY <1>0, <3>1, <3>2 DEF OneAccountEach
  <2>2. ASSUME NEW op \in AdminOps, CliCommit(op) PROVE OneAccountEach'
    <3>1. AtMostOneEach(CliApply(copy[Cli], op, now))
      BY <1>0, <2>0, OneEachCli
    <3> QED BY <1>0, <2>2, <3>1, OneEachTruncate DEF CliCommit
  <2>3. CASE CliLoad
    <3>1. AtMostOneEach(file) /\ copy' = [copy EXCEPT ![Cli] = file] /\ file' = file
      BY <1>0, <2>3 DEF CliLoad
    <3> QED BY <1>0, <3>1, OneEachCopy
  <2>4. CASE CliWrite
    BY <1>0, <2>4, OneEachOverwrite DEF CliWrite
  <2>5. CASE CliKilled
    <3>1. copy' = [p \in Procs |-> IF p \in {Cli} THEN EmptyDB ELSE copy[p]]
      BY <1>0, <2>5 DEF CliKilled, TypeOK
    <3>2. file' \in Remains({Cli}) /\ {Cli} \in SUBSET Procs
      BY <1>0, <2>5 DEF CliKilled
    <3> QED BY <3>1, <3>2, OneEachRemains
  <2> QED BY <1>4, <2>1, <2>2, <2>3, <2>4, <2>5 DEF CliStep
<1>5. CASE Tick
  BY <1>a, <1>5 DEF Tick
<1>6. CASE UNCHANGED vars
  BY <1>a, <1>6 DEF vars
<1> QED
  BY <1>1, <1>2, <1>3, <1>4, <1>5, <1>6 DEF Next

\* No client ever has two accounts, in the file or in a copy that is about to be
\* written, unless the administrator allocates one by hand.  It holds whatever
\* commands of nydus-cli overlap the server's work: a stale copy that overwrites
\* a newer file is still a copy in which nobody had two.
THEOREM OneAccountForEach ==
  ASSUME NoManualAlloc
  PROVE  Spec => []OneAccountEach
<1>1. Init => OneAccountEach
  BY OneEachEmpty DEF Init, OneAccountEach
<1>2. TypeOK /\ OneAccountEach /\ [Next]_vars => OneAccountEach'
  BY AllocDBAssumption, NydusServerAssumption, OneEachStep
<1> QED BY <1>1, <1>2, TypeCorrect, PTL DEF Spec

-----------------------------------------------------------------------------
(* While no command of nydus-cli overlaps the server's own work, no update *)
(* is lost and no account disappears.                                      *)

\* The strengthening: where a copy came from, and what a writer has done so far.
QuietInv ==
  /\ pc[Cli] = "idle"
  /\ file # Torn
  /\ pc[Main] \in {"down", "write", "running"}
  /\ ~Up => \A t \in Threads : pc[t] = "idle"
  /\ \A p \in Procs : pc[p] = "write" => file = EmptyDB
  /\ \A t \in Threads : pc[t] = "loaded" => copy[t] = file
  /\ \A t \in Threads : pc[t] = "renewed" =>
       \E R \in SUBSET DOMAIN file : copy[t] = RenewTokens(file, R)
  /\ Up /\ (\A t \in Threads : pc[t] # "write") => DOMAIN file = known
  /\ \A p \in Procs : pc[p] = "write" => DOMAIN copy[p] = known

Inv == TypeOK /\ LockOwned /\ QuietInv

LEMMA ProcFacts ==
  ASSUME NydusServerAssumption
  PROVE  /\ \A t \in Threads : t \in Procs /\ t # NoThread /\ t # Cli /\ t # Main
         /\ Conns \subseteq Threads /\ Cleaners \subseteq Threads
         /\ Conns \cap Cleaners = {}
         /\ Main \in Procs /\ Cli \in Procs /\ Main # Cli
         /\ \A p \in Procs : p \in Threads \/ p = Cli \/ p = Main
BY DEF NydusServerAssumption, Threads, Procs

\* The lock belongs to the one thread that is at work on the file.
LEMMA Alone ==
  ASSUME NydusServerAssumption, Inv, NEW t \in Threads,
         pc[t] \in {"loaded", "renewed", "write"}
  PROVE  /\ lock = t /\ Up
         /\ \A q \in Threads : q # t => pc[q] \notin {"loaded", "renewed", "write"}
         /\ \A p \in Procs : pc[p] = "write" => p = t
<1>1. lock = t /\ Up
  BY DEF Inv, LockOwned, QuietInv
<1>2. \A q \in Threads : q # t => pc[q] \notin {"loaded", "renewed", "write"}
  BY <1>1 DEF Inv, LockOwned
<1>3. pc[Cli] # "write" /\ pc[Main] # "write"
  BY <1>1 DEF Inv, QuietInv, Up
<1> QED BY <1>1, <1>2, <1>3, ProcFacts

\* No operation adds or drops an account.
SameRows(f, db) == DOMAIN f = DOMAIN db

LEMMA OpsDomain ==
  ASSUME NEW db, NEW c, NEW t
  PROVE  /\ SameRows(RenewOne(db, c, t), db)
         /\ SameRows(ReleaseOne(db, c), db)
         /\ SameRows(ReleaseExpired(db, t), db)
BY DEF RenewOne, ReleaseOne, ReleaseExpired, SameRows

LEMMA AllocateDomain ==
  ASSUME NEW db, NEW c, NEW r, NEW t PROVE SameRows(AllocateOne(db, c, r, t), db)
BY DEF AllocateOne, SameRows

LEMMA TokensDomain ==
  ASSUME NEW db, NEW R PROVE SameRows(RenewTokens(db, R), db)
BY DEF RenewTokens, SameRows

LEMMA CliDomain ==
  ASSUME NEW db, NEW op, NEW t PROVE SameRows(CliApply(db, op, t), db)
BY DEF CliApply, SameRows

LEMMA TornIsNoDB ==
  ASSUME NydusServerAssumption, NEW db, IsDB(db) PROVE db # Torn
BY DEF NydusServerAssumption, IsDB

-----------------------------------------------------------------------------
(* QuietInv is inductive together with TypeOK and LockOwned.               *)

LEMMA QuietLoad ==
  ASSUME NydusServerAssumption, Inv, NEW t \in Threads, Load(t)
  PROVE  QuietInv'
<1>0. t \in Procs /\ t # Cli /\ t # Main
  BY ProcFacts
<1>1. \A q \in Threads : pc[q] \notin {"loaded", "renewed", "write"}
  BY ProcFacts DEF Inv, LockOwned, Load
<1>2. Up
  BY DEF Inv, QuietInv, Load
<1>3. /\ pc' = [pc EXCEPT ![t] = "loaded"]
      /\ copy' = [copy EXCEPT ![t] = file]
      /\ file' = file /\ known' = known
  BY DEF Load
<1>4. DOMAIN file = known
  BY <1>1, <1>2 DEF Inv, QuietInv
<1> QED BY <1>0, <1>1, <1>2, <1>3, <1>4, ProcFacts DEF Inv, TypeOK, QuietInv, Up

LEMMA QuietTruncate ==
  ASSUME NydusServerAssumption, Inv, NEW t \in Threads, NEW db,
         pc[t] = "loaded" \/ pc[t] = "renewed", SameRows(db, copy[t]),
         Truncate(t, db), pc' = [pc EXCEPT ![t] = "write"], known' = known
  PROVE  QuietInv'
<1>0. t \in Procs /\ t # Cli /\ t # Main
  BY ProcFacts
<1>1. DOMAIN copy[t] = DOMAIN file
  BY TokensDomain DEF Inv, QuietInv, SameRows
<1>2. Up /\ \A q \in Threads : q # t => pc[q] \notin {"loaded", "renewed", "write"}
  BY Alone
<1>3. \A p \in Procs : pc[p] # "write"
  BY Alone
<1>4. DOMAIN file = known
  BY <1>2, <1>3, ProcFacts DEF Inv, QuietInv
<1>5. file' = EmptyDB /\ copy' = [copy EXCEPT ![t] = db]
  BY DEF Truncate
<1>6. EmptyDB # Torn
  BY EmptyIsDB, TornIsNoDB
<1> QED BY <1>0, <1>1, <1>2, <1>3, <1>4, <1>5, <1>6, ProcFacts
   DEF Inv, TypeOK, QuietInv, Up, SameRows

\* The write that ends a thread's access to the file.
LEMMA QuietOverwrite ==
  ASSUME NydusServerAssumption, Inv, NEW t \in Threads, pc[t] = "write",
         Overwrite(t), NEW next \in {"idle", "reply", "sleep"},
         pc' = [pc EXCEPT ![t] = next], known' = known
  PROVE  QuietInv'
<1>0. t \in Procs /\ t # Cli /\ t # Main
  BY ProcFacts
<1>1. Up /\ \A q \in Threads : q # t => pc[q] \notin {"loaded", "renewed", "write"}
  BY Alone
<1>2. DOMAIN copy[t] = known /\ file = EmptyDB
  BY <1>0 DEF Inv, QuietInv
<1>3. file' = copy[t] /\ copy' = [copy EXCEPT ![t] = EmptyDB]
  BY <1>2 DEF Overwrite, Written
<1>4. copy[t] # Torn
  BY <1>0, TornIsNoDB DEF Inv, TypeOK
<1> QED BY <1>0, <1>1, <1>2, <1>3, <1>4, ProcFacts DEF Inv, TypeOK, QuietInv, Up

\* A thread moves on without touching the file, from or to places where it has no
\* copy that matters.
LEMMA QuietMove ==
  ASSUME NydusServerAssumption, Inv, NEW t \in Threads, pc[t] # "write", Up,
         file' = file, known' = known,
         NEW next \in {"idle", "recv", "acquire", "reply", "sleep"},
         pc' = [pc EXCEPT ![t] = next],
         \A p \in Procs : p # t => copy'[p] = copy[p]
  PROVE  QuietInv'
<1>0. t \in Procs /\ t # Cli /\ t # Main
  BY ProcFacts
<1>1. DOMAIN file = known \/ \E q \in Threads : q # t /\ pc[q] = "write"
  BY DEF Inv, QuietInv
<1> QED BY <1>0, <1>1, ProcFacts DEF Inv, TypeOK, QuietInv, Up

LEMMA QuietConn ==
  ASSUME NydusServerAssumption, Inv, NEW t \in Conns, ConnStep(t)
  PROVE  QuietInv'
<1>0. t \in Threads /\ t \in Procs
  BY ProcFacts
<1>1. pc[t] # "idle" => Up
  BY <1>0 DEF Inv, QuietInv
<1>2. CASE Accept(t)
  BY <1>0, <1>2, QuietMove DEF Accept
<1>3. CASE \E m \in Messages : Receive(t, m)
  BY <1>0, <1>1, <1>3, QuietMove DEF Receive
<1>4. CASE Discard(t)
  BY <1>0, <1>1, <1>4, QuietMove DEF Discard
<1>5. CASE Load(t)
  BY <1>0, <1>5, QuietLoad
<1>6. CASE LoadFails(t)
  BY <1>6 DEF LoadFails, Inv, QuietInv
<1>7. CASE Request(t)
  <2>1. PICK r : Commit(t, AllocateOne(copy[t], req[t].client, r, now))
    BY <1>7 DEF Request
  <2>2. SameRows(AllocateOne(copy[t], req[t].client, r, now), copy[t])
    BY AllocateDomain
  <2>3. /\ Truncate(t, AllocateOne(copy[t], req[t].client, r, now))
        /\ pc[t] = "loaded" /\ pc' = [pc EXCEPT ![t] = "write"] /\ known' = known
    BY <1>7, <2>1 DEF Commit, Request, Handles
  <2> QED BY <1>0, <2>2, <2>3, QuietTruncate
<1>8. CASE Refuse(t) \/ ShowUsers(t)
  <2>1. pc[t] = "loaded" /\ file' = file /\ known' = known
        /\ (pc' = [pc EXCEPT ![t] = "idle"] \/ pc' = [pc EXCEPT ![t] = "reply"])
        /\ \A p \in Procs : p # t => copy'[p] = copy[p]
    BY <1>8 DEF Refuse, ShowUsers, Handles, Inv, TypeOK
  <2> QED BY <1>0, <1>1, <2>1, QuietMove
<1>9. CASE Renew(t)
  <2>1. SameRows(RenewOne(copy[t], req[t].client, now), copy[t])
    BY OpsDomain
  <2>2. /\ Truncate(t, RenewOne(copy[t], req[t].client, now))
        /\ pc[t] = "loaded" /\ pc' = [pc EXCEPT ![t] = "write"] /\ known' = known
    BY <1>9 DEF Commit, Renew, Handles
  <2> QED BY <1>0, <2>1, <2>2, QuietTruncate
<1>10. CASE Release(t)
  <2>1. SameRows(ReleaseOne(copy[t], req[t].client), copy[t])
    BY OpsDomain
  <2>2. /\ Truncate(t, ReleaseOne(copy[t], req[t].client))
        /\ pc[t] = "loaded" /\ pc' = [pc EXCEPT ![t] = "write"] /\ known' = known
    BY <1>10 DEF Commit, Release, Handles
  <2> QED BY <1>0, <2>1, <2>2, QuietTruncate
<1>11. CASE Write(t)
  <2>1. PICK next \in {"idle", "reply"} : pc' = [pc EXCEPT ![t] = next]
    BY <1>11 DEF Write
  <2> QED BY <1>0, <1>11, <2>1, QuietOverwrite DEF Write
<1>12. CASE Reply(t)
  BY <1>0, <1>1, <1>12, QuietMove DEF Reply
<1> QED
  BY <1>2, <1>3, <1>4, <1>5, <1>6, <1>7, <1>8, <1>9, <1>10, <1>11, <1>12 DEF ConnStep

LEMMA QuietCleaner ==
  ASSUME NydusServerAssumption, Inv, NEW k \in Cleaners, CleanerStep(k)
  PROVE  QuietInv'
<1>0. k \in Threads /\ k \in Procs /\ k # Main /\ k # Cli
  BY ProcFacts
<1>1. pc[k] # "idle" => Up
  BY <1>0 DEF Inv, QuietInv
<1>2. CASE Spawn(k)
  BY <1>0, <1>2, QuietMove DEF Spawn
<1>3. CASE Load(k)
  BY <1>0, <1>3, QuietLoad
<1>4. CASE LoadFails(k)
  BY <1>4 DEF LoadFails, Inv, QuietInv
<1>5. ASSUME NEW R \in SUBSET DOMAIN copy[k], NEW lim \in BOOLEAN, RenewAccess(k, R, lim)
      PROVE  QuietInv'
  <2>1. Up /\ (\A q \in Threads : q # k => pc[q] \notin {"loaded", "renewed", "write"})
        /\ \A p \in Procs : pc[p] # "write"
    BY <1>0, <1>5, Alone DEF RenewAccess
  <2>2. copy[k] = file /\ DOMAIN file = known
    BY <1>0, <1>5, <2>1 DEF RenewAccess, Inv, QuietInv
  <2>3. /\ pc' = [pc EXCEPT ![k] = "renewed"]
        /\ copy' = [copy EXCEPT ![k] = RenewTokens(file, R)]
        /\ R \in SUBSET DOMAIN file
        /\ file' = file /\ known' = known
    BY <1>0, <1>5, <2>2 DEF RenewAccess, Inv, TypeOK
  <2> QED BY <1>0, <2>1, <2>2, <2>3, ProcFacts DEF Inv, TypeOK, QuietInv, Up
<1>6. CASE Expire(k)
  <2>1. SameRows(ReleaseExpired(copy[k], now), copy[k])
    BY OpsDomain
  <2>2. /\ Truncate(k, ReleaseExpired(copy[k], now))
        /\ pc[k] = "renewed" /\ pc' = [pc EXCEPT ![k] = "write"] /\ known' = known
    BY <1>6 DEF Expire
  <2> QED BY <1>0, <2>1, <2>2, QuietTruncate
<1>7. CASE WriteSwept(k)
  <2>1. PICK next \in {"idle", "sleep"} : pc' = [pc EXCEPT ![k] = next]
    BY <1>7 DEF WriteSwept
  <2> QED BY <1>0, <1>7, <2>1, QuietOverwrite DEF WriteSwept
<1>8. CASE WakeUp(k)
  BY <1>0, <1>1, <1>8, QuietMove DEF WakeUp
<1> QED
  BY <1>2, <1>3, <1>4, <1>5, <1>6, <1>7, <1>8 DEF CleanerStep

LEMMA QuietMain ==
  ASSUME NydusServerAssumption, ~FileTears, Inv, MainStep
  PROVE  QuietInv'
<1>0. Main \in Procs /\ Main # Cli /\ Main \notin Threads
  BY ProcFacts DEF NydusServerAssumption
<1>1. ~Up => /\ \A t \in Threads : pc[t] = "idle"
             /\ \A p \in Procs : pc[p] = "write" => p = Main
  BY ProcFacts DEF Inv, QuietInv
<1>2. ASSUME NEW S \in SUBSET Rows, Start(S) PROVE QuietInv'
  <2>1. /\ file' = EmptyDB /\ copy' = [copy EXCEPT ![Main] = CreateDB(S)]
        /\ pc' = [pc EXCEPT ![Main] = "write"] /\ known' = S
        /\ pc[Main] = "down"
    BY <1>2 DEF Start, Truncate
  <2>2. DOMAIN CreateDB(S) = S /\ EmptyDB # Torn
    BY EmptyIsDB, TornIsNoDB DEF CreateDB
  <2> QED BY <1>0, <1>1, <2>1, <2>2, ProcFacts DEF Inv, TypeOK, QuietInv, Up
<1>3. CASE WriteCreated
  <2>1. pc[Main] = "write" /\ file = EmptyDB /\ DOMAIN copy[Main] = known
    BY <1>0, <1>3 DEF WriteCreated, Inv, QuietInv
  <2>2. /\ file' = copy[Main] /\ copy' = [copy EXCEPT ![Main] = EmptyDB]
        /\ pc' = [pc EXCEPT ![Main] = "running"] /\ known' = known
    BY <1>3, <2>1 DEF WriteCreated, Overwrite, Written
  <2>3. copy[Main] # Torn
    BY <1>0, TornIsNoDB DEF Inv, TypeOK
  <2> QED BY <1>0, <1>1, <2>1, <2>2, <2>3, ProcFacts DEF Inv, TypeOK, QuietInv, Up
<1>4. CASE StartAnyway
  <2>1. /\ file' = file /\ copy' = copy /\ known' = DOMAIN file
        /\ pc' = [pc EXCEPT ![Main] = "running"] /\ pc[Main] = "down"
    BY <1>4 DEF StartAnyway, Inv, QuietInv
  <2> QED BY <1>0, <1>1, <2>1, ProcFacts DEF Inv, TypeOK, QuietInv, Up
<1>5. CASE Crash
  <2>1. /\ file' = file
        /\ \A p \in Procs : pc'[p] = IF p = Main THEN "down"
                                    ELSE IF p = Cli THEN pc[Cli] ELSE "idle"
    BY <1>5, RemainsQuiet DEF Crash
  <2> QED BY <1>0, <2>1, ProcFacts DEF Inv, QuietInv, Up
<1> QED
  BY <1>2, <1>3, <1>4, <1>5 DEF MainStep

\* Without racing commands, nydus-cli acts only while nobody else is at work.
LEMMA QuietCli ==
  ASSUME NydusServerAssumption, Inv, ~FileTears, CliStep
  PROVE  \E op \in AdminOps : CliAlone(op)
BY DEF CliStep, CliLoad, CliCommit, CliWrite, CliKilled, Inv, QuietInv

LEMMA QuietCliAlone ==
  ASSUME NydusServerAssumption, Inv, NEW op \in AdminOps, CliAlone(op)
  PROVE  QuietInv' /\ \A p \in Procs : pc[p] # "write"
<1>1. \A t \in Threads : pc[t] \notin {"loaded", "renewed", "write"}
  BY ProcFacts DEF CliAlone, Inv, LockOwned
<1>2. \A p \in Procs : pc[p] # "write"
  BY <1>1, ProcFacts DEF CliAlone, Inv, QuietInv
<1>3. file' = CliApply(file, op, now) /\ pc' = pc /\ copy' = copy /\ known' = known
  BY DEF CliAlone
<1>4. file' # Torn
  <2>1. IsDB(file) /\ op \in CliOps /\ now \in Nat
    BY DEF CliAlone, Inv, TypeOK, NydusServerAssumption
  <2> QED BY <1>3, <2>1, CliIsDB, TornIsNoDB
<1> QED BY <1>1, <1>2, <1>3, <1>4, CliDomain DEF Inv, QuietInv, Up, SameRows

LEMMA QuietStep ==
  ASSUME NydusServerAssumption, ~FileTears, Inv, [Next]_vars
  PROVE  QuietInv'
<1>1. CASE \E t \in Conns : ConnStep(t)
  BY <1>1, QuietConn
<1>2. CASE \E k \in Cleaners : CleanerStep(k)
  BY <1>2, QuietCleaner
<1>3. CASE MainStep
  BY <1>3, QuietMain
<1>4. CASE CliStep
  BY <1>4, QuietCli, QuietCliAlone
<1>5. CASE Tick \/ UNCHANGED vars
  BY <1>5 DEF Tick, vars, Inv, QuietInv, Up
<1> QED
  BY <1>1, <1>2, <1>3, <1>4, <1>5 DEF Next

LEMMA QuietInit == ASSUME NydusServerAssumption, Init PROVE Inv
<1>1. TypeOK
  BY TypeInit
<1>2. LockOwned
  BY ProcFacts DEF Init, LockOwned, NydusServerAssumption, Threads, Procs
<1>3. EmptyDB # Torn
  BY EmptyIsDB, TornIsNoDB
<1>4. \A p \in Procs : pc[p] = IF p = Main THEN "down" ELSE "idle"
  BY DEF Init
<1>5. QuietInv
  BY <1>3, <1>4, ProcFacts DEF Init, QuietInv, Up
<1> QED BY <1>1, <1>2, <1>5 DEF Inv

\* Where every copy came from, while no command of nydus-cli overlaps the server.
THEOREM QuietInvariant ==
  ASSUME ~FileTears
  PROVE  Spec => []Inv
<1>1. Init => Inv
  BY NydusServerAssumption, QuietInit
<1>2. Inv /\ [Next]_vars => Inv'
  <2>1. Inv /\ [Next]_vars => TypeOK' /\ LockOwned'
    BY NydusServerAssumption, TypeStep, LockStep DEF Inv
  <2>2. Inv /\ [Next]_vars => QuietInv'
    BY NydusServerAssumption, QuietStep
  <2> QED BY <2>1, <2>2 DEF Inv
<1> QED BY <1>1, <1>2, PTL DEF Spec

\* What a thread is going to write back is the file with its own change: cleanup's
\* long absence at the token services loses nobody's update.
THEOREM NothingIsLost ==
  ASSUME ~FileTears
  PROVE  Spec => []NoLostUpdate
<1>1. Inv => NoLostUpdate
  <2> SUFFICES ASSUME Inv, NEW t \in Threads, pc[t] \in {"loaded", "renewed"}
               PROVE  /\ DOMAIN copy[t] = DOMAIN file
                      /\ \A r \in DOMAIN file :
                           /\ [copy[t][r] EXCEPT !.tok = file[r].tok] = file[r]
                           /\ copy[t][r].tok >= file[r].tok
    BY DEF NoLostUpdate
  <2>1. \A r \in DOMAIN file : file[r] \in Entry
    BY EntryOfDB DEF Inv, QuietInv, TypeOK
  <2>2. \A r \in DOMAIN file : /\ file[r].tok \in Nat
                              /\ [file[r] EXCEPT !.tok = file[r].tok] = file[r]
    BY <2>1 DEF Entry
  <2>3. CASE copy[t] = file
    BY <2>2, <2>3
  <2>4. ASSUME NEW R \in SUBSET DOMAIN file, copy[t] = RenewTokens(file, R)
        PROVE  /\ DOMAIN copy[t] = DOMAIN file
               /\ \A r \in DOMAIN file :
                    /\ [copy[t][r] EXCEPT !.tok = file[r].tok] = file[r]
                    /\ copy[t][r].tok >= file[r].tok
    <3>1. DOMAIN copy[t] = DOMAIN file
      BY <2>4 DEF RenewTokens
    <3>2. ASSUME NEW r \in DOMAIN file
          PROVE  /\ [copy[t][r] EXCEPT !.tok = file[r].tok] = file[r]
                 /\ copy[t][r].tok >= file[r].tok
      <4>1. copy[t][r] = [file[r] EXCEPT !.tok = @ + 1] \/ copy[t][r] = file[r]
        BY <2>4 DEF RenewTokens
      <4> QED BY <2>1, <2>2, <4>1 DEF Entry
    <3> QED BY <3>1, <3>2
  <2> QED BY <2>3, <2>4 DEF Inv, QuietInv
<1> QED BY <1>1, QuietInvariant, PTL

\* No account disappears from the file, although every write empties it first.
THEOREM NoRowDisappears ==
  ASSUME ~FileTears
  PROVE  Spec => []RowsKept
<1>1. Inv => RowsKept
  BY NydusServerAssumption, ProcFacts DEF Inv, LockOwned, QuietInv, RowsKept
<1> QED BY <1>1, QuietInvariant, PTL

-----------------------------------------------------------------------------
(* While no command of nydus-cli overlaps the server's own work, the       *)
(* server implements AccountPool: each of its steps is a step of the pool  *)
(* or leaves the pool alone.                                               *)
(* The operators of AccountPool are those of AllocDB.                      *)

LEMMA SameOps ==
  /\ \A db, c : AP!HeldBy(db, c) = HeldBy(db, c)
  /\ \A db : AP!Allocatable(db) = Allocatable(db)
  /\ \A S : AP!CreateDB(S) = CreateDB(S)
  /\ \A db, op, t : AP!CliApply(db, op, t) = CliApply(db, op, t)
  /\ AP!EmptyDB = EmptyDB
  /\ \A e, t : AP!AllocExpired(e, t) = AllocExpired(e, t)
  /\ \A e : AP!Released(e) = Released(e)
<1>1. \A e, t : AP!AllocExpired(e, t) = AllocExpired(e, t)
  BY DEF AP!AllocExpired, AllocExpired, AP!IsAllocated, IsAllocated
<1>2. /\ \A e : AP!Released(e) = Released(e)
      /\ \A e, t : AP!Renewed(e, t) = Renewed(e, t)
      /\ \A e, c, t : AP!Allocated(e, c, t) = Allocated(e, c, t)
  BY DEF AP!Released, Released, AP!Renewed, Renewed, AP!Allocated, Allocated,
         AP!IsAllocated, IsAllocated
<1>3. \A e, op, t : AP!CliEntry(e, op, t) = CliEntry(e, op, t)
  BY <1>2 DEF AP!CliEntry, CliEntry
<1>4. \A db, op, t : AP!CliApply(db, op, t) = CliApply(db, op, t)
  BY <1>3 DEF AP!CliApply, CliApply
<1>5. /\ \A db, c : AP!HeldBy(db, c) = HeldBy(db, c)
      /\ \A db : AP!Allocatable(db) = Allocatable(db)
  BY DEF AP!HeldBy, HeldBy, AP!Allocatable, Allocatable, AP!IsAllocated, IsAllocated
<1>6. /\ \A S : AP!CreateDB(S) = CreateDB(S)
      /\ AP!EmptyDB = EmptyDB
  BY DEF AP!CreateDB, CreateDB, AP!EmptyDB, EmptyDB
<1> QED BY <1>1, <1>2, <1>4, <1>5, <1>6

-----------------------------------------------------------------------------
(* The pool before and after a step.                                       *)

LEMMA PoolAtRest ==
  ASSUME \A p \in Procs : pc[p] # "write" PROVE Pool = file
BY DEF Pool, Writing

LEMMA PoolAtRestNext ==
  ASSUME \A p \in Procs : pc'[p] # "write" PROVE Pool' = file'
BY DEF Pool, Writing

LEMMA PoolInWriter ==
  ASSUME NEW p \in Procs, pc[p] = "write", \A q \in Procs : pc[q] = "write" => q = p
  PROVE  Pool = copy[p]
<1>1. Writing = {p}
  BY DEF Writing
<1> QED BY <1>1 DEF Pool

LEMMA PoolInWriterNext ==
  ASSUME NEW p \in Procs, pc'[p] = "write", \A q \in Procs : pc'[q] = "write" => q = p
  PROVE  Pool' = copy'[p]
<1>1. Writing' = {p}
  BY DEF Writing
<1> QED BY <1>1 DEF Pool

\* A step that neither writes nor touches the copy of a writer.
LEMMA PoolKept ==
  ASSUME file' = file,
         \A p \in Procs : /\ pc'[p] = "write" <=> pc[p] = "write"
                          /\ pc[p] = "write" => copy'[p] = copy[p]
  PROVE  Pool' = Pool
<1>1. Writing' = Writing
  BY DEF Writing
<1>2. Writing # {} => (CHOOSE p \in Writing : TRUE) \in {p \in Procs : pc[p] = "write"}
  BY DEF Writing
<1> QED BY <1>1, <1>2 DEF Pool

\* A change takes effect when the file is emptied ...
LEMMA PoolTruncated ==
  ASSUME TypeOK, NEW p \in Procs, NEW db, \A q \in Procs : pc[q] # "write",
         Truncate(p, db), pc' = [pc EXCEPT ![p] = "write"]
  PROVE  Pool = file /\ Pool' = db
<1>1. pc'[p] = "write" /\ \A q \in Procs : pc'[q] = "write" => q = p
  BY DEF TypeOK
<1>2. copy'[p] = db
  BY DEF TypeOK, Truncate
<1> QED BY <1>1, <1>2, PoolAtRest, PoolInWriterNext

\* ... and the write that follows changes nothing.
LEMMA PoolWritten ==
  ASSUME TypeOK, NEW p \in Procs, pc[p] = "write", file = EmptyDB, Overwrite(p),
         \A q \in Procs : pc[q] = "write" => q = p,
         NEW next, next # "write", pc' = [pc EXCEPT ![p] = next]
  PROVE  Pool' = Pool
<1>1. Pool = copy[p]
  BY PoolInWriter
<1>2. file' = copy[p]
  BY DEF Overwrite, Written
<1>3. \A q \in Procs : pc'[q] # "write"
  BY DEF TypeOK
<1> QED BY <1>1, <1>2, <1>3, PoolAtRestNext

-----------------------------------------------------------------------------
(* Every step of the server, seen at the pool.                             *)

\* What the connection and cleanup threads do to the pool: whose account is given
\* back is said by the message in hand.
ThreadMapped ==
  \/ Pool' = Pool /\ now' = now
  \/ \E c \in Clients, r \in Rows : AP!Grant(c, r) \/ AP!Extend(c, r)
  \/ \E t \in Conns, r \in Rows :
       Handles(t, "RELEASE") /\ req[t].client \in Clients /\ AP!GiveBack(req[t].client, r)
  \/ \E R \in SUBSET Rows : AP!Sweep(R)

Mapped == [AP!Next]_(AP!poolVars)

LEMMA Stutter ==
  ASSUME Pool' = Pool, now' = now PROVE ThreadMapped /\ Mapped
BY DEF ThreadMapped, Mapped, AP!poolVars

LEMMA ThreadIsMapped == ASSUME ThreadMapped PROVE Mapped
BY DEF ThreadMapped, Mapped, AP!Next, AP!poolVars

LEMMA MapLoadedWrite ==
  ASSUME AllocDBAssumption, NydusServerAssumption, Inv, NEW t \in Threads, pc[t] = "loaded",
         NEW db, Truncate(t, db), pc' = [pc EXCEPT ![t] = "write"]
  PROVE  copy[t] = file /\ IsDB(file) /\ Pool = file /\ Pool' = db
<1>1. \A q \in Procs : pc[q] # "write"
  BY Alone
<1>2. copy[t] = file /\ IsDB(file)
  BY DEF Inv, QuietInv, TypeOK
<1> QED BY <1>1, <1>2, ProcFacts, PoolTruncated DEF Inv

\* A thread's last write.
LEMMA MapWrite ==
  ASSUME NydusServerAssumption, Inv, NEW t \in Threads, pc[t] = "write", Overwrite(t),
         NEW next \in {"idle", "reply", "sleep"}, pc' = [pc EXCEPT ![t] = next]
  PROVE  Pool' = Pool
<1>1. t \in Procs /\ file = EmptyDB
  BY ProcFacts DEF Inv, QuietInv
<1>2. \A q \in Procs : pc[q] = "write" => q = t
  BY Alone
<1> QED BY <1>1, <1>2, PoolWritten DEF Inv

LEMMA MapMove ==
  ASSUME NydusServerAssumption, Inv, NEW t \in Threads, pc[t] # "write", file' = file,
         NEW next, next # "write", pc' = [pc EXCEPT ![t] = next],
         \A p \in Procs : p # t => copy'[p] = copy[p]
  PROVE  Pool' = Pool
<1>1. \A p \in Procs : /\ pc'[p] = "write" <=> pc[p] = "write"
                       /\ pc[p] = "write" => copy'[p] = copy[p]
  BY ProcFacts DEF Inv, TypeOK
<1> QED BY <1>1, PoolKept

LEMMA MapRequest ==
  ASSUME AllocDBAssumption, NydusServerAssumption, Inv, NEW t \in Conns, Request(t)
  PROVE  ThreadMapped
<1>0. t \in Threads /\ pc[t] = "loaded"
  BY ProcFacts DEF Request, Handles
<1> DEFINE c == req[t].client
<1>1. c \in Clients
  BY DEF Request, Handles, Inv, TypeOK, Messages, NoReq, UsersReq
<1>2. PICK r \in Answer(copy[t], c) : Commit(t, AllocateOne(copy[t], c, r, now))
  BY DEF Request
<1>3. Truncate(t, AllocateOne(copy[t], c, r, now)) /\ pc' = [pc EXCEPT ![t] = "write"]
      /\ now' = now
  BY <1>2 DEF Commit
<1>4. copy[t] = file /\ IsDB(file) /\ Pool = file /\ Pool' = AllocateOne(copy[t], c, r, now)
  BY <1>0, <1>3, MapLoadedWrite
<1> HIDE DEF c
<1>5. r \in Answer(Pool, c) /\ IsDB(Pool) /\ Pool' = AllocateOne(Pool, c, r, now)
  BY <1>2, <1>4
<1>6. r \in Rows
  BY <1>5, AnswerInDB DEF IsDB
<1>7. /\ r \in DOMAIN Pool /\ ~Pool[r].locked /\ c \notin RootClients
      /\ \/ /\ r \in HeldBy(Pool, c)
            /\ AllocateOne(Pool, c, r, now) = Extended(Pool, r, now)
         \/ /\ HeldBy(Pool, c) = {} /\ r \in Allocatable(Pool)
            /\ AllocateOne(Pool, c, r, now) = Granted(Pool, c, r, now)
  BY <1>1, <1>5, AllocateOneIs
<1>8. AP!Grant(c, r) \/ AP!Extend(c, r)
  BY <1>3, <1>5, <1>7, SameOps DEF AP!Grant, AP!Extend, Granted, Extended
<1> QED BY <1>1, <1>6, <1>8 DEF ThreadMapped

LEMMA MapRenew ==
  ASSUME AllocDBAssumption, NydusServerAssumption, Inv, NEW t \in Conns, Renew(t)
  PROVE  ThreadMapped
<1>0. t \in Threads /\ pc[t] = "loaded"
  BY ProcFacts DEF Renew, Handles
<1> DEFINE c == req[t].client
<1>1. c \in Clients
  BY DEF Renew, Handles, Inv, TypeOK, Messages, NoReq, UsersReq
<1>2. Truncate(t, RenewOne(copy[t], c, now)) /\ pc' = [pc EXCEPT ![t] = "write"]
      /\ now' = now
  BY DEF Renew, Commit
<1>3. copy[t] = file /\ IsDB(file) /\ Pool = file /\ Pool' = RenewOne(copy[t], c, now)
  BY <1>0, <1>2, MapLoadedWrite
<1> HIDE DEF c
<1>4. CASE Pool' = Pool
  BY <1>2, <1>4, Stutter
<1>5. ASSUME NEW r \in HeldBy(Pool, c), ~Pool[r].locked, Pool' = [Pool EXCEPT ![r].renew = now]
      PROVE  ThreadMapped
  <2>1. r \in Rows
    BY <1>3 DEF HeldBy, IsDB
  <2>2. AP!Extend(c, r)
    BY <1>2, <1>5, SameOps DEF AP!Extend
  <2> QED BY <1>1, <2>1, <2>2 DEF ThreadMapped
<1> QED BY <1>1, <1>3, <1>4, <1>5, RenewOneIs

LEMMA MapRelease ==
  ASSUME AllocDBAssumption, NydusServerAssumption, Inv, NEW t \in Conns, Release(t)
  PROVE  ThreadMapped
<1>0. t \in Threads /\ pc[t] = "loaded"
  BY ProcFacts DEF Release, Handles
<1> DEFINE c == req[t].client
<1>1. c \in Clients
  BY DEF Release, Handles, Inv, TypeOK, Messages, NoReq, UsersReq
<1>2. Truncate(t, ReleaseOne(copy[t], c)) /\ pc' = [pc EXCEPT ![t] = "write"]
      /\ now' = now
  BY DEF Release, Commit
<1>3. copy[t] = file /\ IsDB(file) /\ Pool = file /\ Pool' = ReleaseOne(copy[t], c)
  BY <1>0, <1>2, MapLoadedWrite
<1> HIDE DEF c
<1>4. CASE Pool' = Pool
  BY <1>2, <1>4, Stutter
<1>5. ASSUME NEW r \in HeldBy(Pool, c), ~Pool[r].locked,
             Pool' = [Pool EXCEPT ![r].holder = NoClient, ![r].alloc = 0, ![r].renew = 0]
      PROVE  ThreadMapped
  <2>1. r \in Rows
    BY <1>3 DEF HeldBy, IsDB
  <2>2. AP!GiveBack(c, r)
    BY <1>2, <1>5, SameOps DEF AP!GiveBack
  <2>3. Handles(t, "RELEASE")
    BY DEF Release
  <2> QED BY <1>1, <2>1, <2>2, <2>3 DEF ThreadMapped, c
<1> QED BY <1>1, <1>3, <1>4, <1>5, ReleaseOneIs

\* Outside a commit a connection thread leaves the pool alone.
LEMMA ConnKeeps ==
  ASSUME NydusServerAssumption, Inv, NEW t \in Conns, ConnStep(t),
         ~Request(t), ~Renew(t), ~Release(t)
  PROVE  Pool' = Pool /\ now' = now
<1>0. t \in Threads /\ t \in Procs
  BY ProcFacts
<1>1. CASE Accept(t) \/ (\E m \in Messages : Receive(t, m)) \/ Discard(t) \/ Reply(t)
  <2>1. PICK next \in {"idle", "recv", "acquire"} : pc' = [pc EXCEPT ![t] = next]
    BY <1>1 DEF Accept, Receive, Discard, Reply
  <2>2. pc[t] # "write" /\ file' = file /\ copy' = copy /\ now' = now
    BY <1>1 DEF Accept, Receive, Discard, Reply
  <2> QED BY <1>0, <2>1, <2>2, MapMove
<1>2. CASE Load(t) \/ LoadFails(t) \/ Refuse(t) \/ ShowUsers(t)
  <2>1. PICK next \in {"idle", "loaded", "reply"} : pc' = [pc EXCEPT ![t] = next]
    BY <1>2 DEF Load, LoadFails, Refuse, ShowUsers
  <2>2. /\ pc[t] # "write" /\ file' = file /\ now' = now
        /\ \A p \in Procs : p # t => copy'[p] = copy[p]
    BY <1>2 DEF Load, LoadFails, Refuse, ShowUsers, Handles, Inv, TypeOK
  <2> QED BY <1>0, <2>1, <2>2, MapMove
<1>3. CASE Write(t)
  <2>1. PICK next \in {"idle", "reply"} : pc' = [pc EXCEPT ![t] = next]
    BY <1>3 DEF Write
  <2>2. pc[t] = "write" /\ Overwrite(t) /\ now' = now
    BY <1>3 DEF Write
  <2> QED BY <1>0, <2>1, <2>2, MapWrite
<1> QED BY <1>1, <1>2, <1>3 DEF ConnStep

LEMMA MapConn ==
  ASSUME AllocDBAssumption, NydusServerAssumption, Inv, NEW t \in Conns, ConnStep(t)
  PROVE  ThreadMapped
BY MapRequest, MapRenew, MapRelease, ConnKeeps, Stutter

\* A cleanup takes effect on the pool as it is, although its copy is old.
LEMMA ExpirePool ==
  ASSUME NydusServerAssumption, Inv, NEW k \in Cleaners, Expire(k)
  PROVE  /\ IsDB(Pool) /\ now' = now
         /\ \E R \in SUBSET DOMAIN Pool : Pool' = ReleaseExpired(RenewTokens(Pool, R), now)
<1>0. k \in Threads /\ k \in Procs /\ pc[k] = "renewed"
  BY ProcFacts DEF Expire
<1>1. \A q \in Procs : pc[q] # "write"
  BY <1>0, Alone
<1>2. /\ Truncate(k, ReleaseExpired(copy[k], now)) /\ now' = now
      /\ pc' = [pc EXCEPT ![k] = "write"]
  BY DEF Expire
<1>3. Pool = file /\ Pool' = ReleaseExpired(copy[k], now)
  BY <1>0, <1>1, <1>2, PoolTruncated DEF Inv
<1>4. IsDB(file)
  BY DEF Inv, QuietInv, TypeOK
<1>5. PICK R \in SUBSET DOMAIN file : copy[k] = RenewTokens(file, R)
  BY <1>0 DEF Inv, QuietInv
<1> QED BY <1>2, <1>3, <1>4, <1>5

LEMMA MapExpire ==
  ASSUME AllocDBAssumption, NydusServerAssumption, Inv, NEW k \in Cleaners, Expire(k)
  PROVE  ThreadMapped
<1>1. IsDB(Pool) /\ now' = now
  BY ExpirePool
<1>2. PICK R \in SUBSET DOMAIN Pool : Pool' = ReleaseExpired(RenewTokens(Pool, R), now)
  BY ExpirePool
<1>3. Pool' = [r \in DOMAIN Pool |->
                [(IF AllocExpired(Pool[r], now) THEN Released(Pool[r]) ELSE Pool[r])
                 EXCEPT !.tok = IF r \in R THEN @ + 1 ELSE @]]
  BY <1>1, <1>2, SweepIs
<1>4. AP!Sweep(R) /\ R \in SUBSET Rows
  BY <1>1, <1>3, SameOps DEF AP!Sweep, IsDB
<1> QED BY <1>4 DEF ThreadMapped

\* Outside Expire a cleanup thread leaves the pool alone.
LEMMA CleanerKeeps ==
  ASSUME NydusServerAssumption, Inv, NEW k \in Cleaners, CleanerStep(k), ~Expire(k)
  PROVE  Pool' = Pool /\ now' = now
<1>0. k \in Threads /\ k \in Procs
  BY ProcFacts
<1>1. CASE \/ Spawn(k) \/ Load(k) \/ LoadFails(k) \/ WakeUp(k)
           \/ \E R \in SUBSET DOMAIN copy[k], lim \in BOOLEAN : RenewAccess(k, R, lim)
  <2>1. PICK next \in {"acquire", "loaded", "idle", "renewed"} : pc' = [pc EXCEPT ![k] = next]
    BY <1>1 DEF Spawn, Load, LoadFails, WakeUp, RenewAccess
  <2>2. /\ pc[k] # "write" /\ file' = file /\ now' = now
        /\ \A p \in Procs : p # k => copy'[p] = copy[p]
    BY <1>1 DEF Spawn, Load, LoadFails, WakeUp, RenewAccess, Inv, TypeOK
  <2> QED BY <1>0, <2>1, <2>2, MapMove
<1>2. CASE WriteSwept(k)
  <2>1. PICK next \in {"idle", "sleep"} : pc' = [pc EXCEPT ![k] = next]
    BY <1>2 DEF WriteSwept
  <2>2. pc[k] = "write" /\ Overwrite(k) /\ now' = now
    BY <1>2 DEF WriteSwept
  <2> QED BY <1>0, <2>1, <2>2, MapWrite
<1> QED BY <1>1, <1>2 DEF CleanerStep

LEMMA MapCleaner ==
  ASSUME AllocDBAssumption, NydusServerAssumption, Inv, NEW k \in Cleaners, CleanerStep(k)
  PROVE  ThreadMapped
BY MapExpire, CleanerKeeps, Stutter

LEMMA MapMain ==
  ASSUME AllocDBAssumption, NydusServerAssumption, ~FileTears, Inv, MainStep
  PROVE  Mapped
<1>0. Main \in Procs
  BY ProcFacts
<1>1. ~Up => \A p \in Procs : pc[p] = "write" => p = Main
  BY ProcFacts DEF Inv, QuietInv
<1>2. ASSUME NEW S \in SUBSET Rows, Start(S) PROVE Mapped
  <2>1. \A p \in Procs : pc[p] # "write"
    BY <1>1, <1>2 DEF Start, Up
  <2>2. /\ Truncate(Main, CreateDB(S)) /\ pc' = [pc EXCEPT ![Main] = "write"]
        /\ now' = now
    BY <1>2 DEF Start
  <2>3. Pool' = CreateDB(S)
    BY <1>0, <2>1, <2>2, PoolTruncated DEF Inv
  <2>4. AP!Restart(S)
    BY <2>2, <2>3, SameOps DEF AP!Restart
  <2> QED BY <2>4 DEF Mapped, AP!Next
<1>3. CASE WriteCreated
  <2>1. pc[Main] = "write" /\ file = EmptyDB /\ \A p \in Procs : pc[p] = "write" => p = Main
    BY <1>0, <1>1, <1>3 DEF WriteCreated, Up, Inv, QuietInv
  <2>2. Overwrite(Main) /\ pc' = [pc EXCEPT ![Main] = "running"] /\ now' = now
    BY <1>3 DEF WriteCreated
  <2>3. Pool' = Pool
    BY <1>0, <2>1, <2>2, PoolWritten DEF Inv
  <2> QED BY <2>2, <2>3, Stutter
<1>4. CASE StartAnyway
  <2>1. /\ file' = file /\ copy' = copy /\ now' = now
        /\ pc[Main] = "down" /\ pc' = [pc EXCEPT ![Main] = "running"]
    BY <1>4 DEF StartAnyway
  <2>2. \A p \in Procs : pc'[p] = "write" <=> pc[p] = "write"
    BY <1>0, <2>1 DEF Inv, TypeOK
  <2> QED BY <2>1, <2>2, PoolKept, Stutter
<1>5. CASE Crash
  <2>1. \A p \in Procs : pc'[p] # "write"
    BY <1>5 DEF Crash, Inv, QuietInv
  <2>2. Pool' = file /\ now' = now
    BY <1>5, <2>1, PoolAtRestNext, RemainsQuiet DEF Crash
  <2>3. CASE \A p \in Procs : pc[p] # "write"
    BY <2>2, <2>3, PoolAtRest, Stutter
  <2>4. CASE \E p \in Procs : pc[p] = "write"
    <3>1. Pool' = EmptyDB
      BY <2>2, <2>4 DEF Inv, QuietInv
    <3>2. AP!Lose
      BY <2>2, <3>1, SameOps DEF AP!Lose
    <3> QED BY <3>2 DEF Mapped, AP!Next
  <2> QED BY <2>3, <2>4
<1> QED BY <1>2, <1>3, <1>4, <1>5 DEF MainStep

LEMMA MapCli ==
  ASSUME NydusServerAssumption, Inv, NEW op \in AdminOps, CliAlone(op)
  PROVE  Mapped
<1>1. \A p \in Procs : pc[p] # "write" /\ pc'[p] # "write"
  BY QuietCliAlone DEF CliAlone
<1>2. Pool = file /\ Pool' = CliApply(file, op, now) /\ now' = now
  BY <1>1, PoolAtRest, PoolAtRestNext DEF CliAlone
<1>3. AP!Administer(op)
  BY <1>2, SameOps DEF AP!Administer
<1> QED BY <1>3 DEF Mapped, AP!Next

LEMMA MapTick == ASSUME Tick PROVE Mapped
<1>1. Pool' = Pool
  BY DEF Tick, Pool, Writing
<1> QED BY <1>1 DEF Tick, Mapped, AP!Next, AP!Tick

\* The server gives out, extends and takes back accounts as if each of its operations
\* were one indivisible step, whatever its threads interleave and wherever it crashes.
THEOREM ServerImplementsPool ==
  ASSUME ~FileTears
  PROVE  Spec => ImplementsPool
<1>1. Init => AP!Init
  <2> SUFFICES ASSUME Init PROVE AP!Init
    OBVIOUS
  <2>1. \A p \in Procs : pc[p] # "write"
    BY DEF Init
  <2> QED BY <2>1, PoolAtRest, SameOps DEF Init, AP!Init
<1>2. Inv /\ [Next]_vars => Mapped
  <2> SUFFICES ASSUME Inv, [Next]_vars PROVE Mapped
    OBVIOUS
  <2>1. CASE \E t \in Conns : ConnStep(t)
    BY <2>1, AllocDBAssumption, NydusServerAssumption, MapConn, ThreadIsMapped
  <2>2. CASE \E k \in Cleaners : CleanerStep(k)
    BY <2>2, AllocDBAssumption, NydusServerAssumption, MapCleaner, ThreadIsMapped
  <2>3. CASE MainStep
    BY <2>3, AllocDBAssumption, NydusServerAssumption, MapMain
  <2>4. CASE CliStep
    BY <2>4, NydusServerAssumption, QuietCli, MapCli
  <2>5. CASE Tick
    BY <2>5, MapTick
  <2>6. CASE UNCHANGED vars
    <3>1. Pool' = Pool /\ now' = now
      BY <2>6 DEF vars, Pool, Writing
    <3> QED BY <3>1, Stutter
  <2> QED BY <2>1, <2>2, <2>3, <2>4, <2>5, <2>6 DEF Next
<1> QED BY <1>1, <1>2, QuietInvariant, PTL DEF Spec, ImplementsPool, AP!Spec, Mapped

-----------------------------------------------------------------------------
(* What no step of the server does to an account, and what an answer       *)
(* promises.                                                               *)

-----------------------------------------------------------------------------
(* The steps of the pool, entry by entry.                                  *)

PoolOK == IsDB(Pool)

LEMMA PoolIsDB == ASSUME NydusServerAssumption, Inv PROVE PoolOK
<1>1. CASE Writing = {}
  BY <1>1 DEF Pool, PoolOK, Inv, QuietInv, TypeOK
<1>2. CASE Writing # {}
  <2>1. (CHOOSE p \in Writing : TRUE) \in Procs
    BY <1>2 DEF Writing
  <2> QED BY <1>2, <2>1 DEF Pool, PoolOK, Inv, TypeOK
<1> QED BY <1>1, <1>2

\* Only an unlocked account changes hands; what else changes is its token.
EntryStep(e, f, c, t) ==
  \/ f = e
  \/ ~e.locked /\ ~IsAllocated(e) /\ f.tok = e.tok
  \/ ~e.locked /\ f.holder = e.holder /\ f.tok = e.tok
  \/ ~e.locked /\ e.holder = c /\ f.tok = e.tok
  \/ AllocExpired(e, t) /\ f.tok >= e.tok
  \/ f.tok >= e.tok /\ f = [e EXCEPT !.tok = f.tok]

LEMMA ThreadEntry ==
  ASSUME NydusServerAssumption, Inv, ThreadMapped, NEW r \in DOMAIN Pool
  PROVE  /\ r \in DOMAIN Pool'
         /\ \/ EntryStep(Pool[r], Pool'[r], NoClient, now)
            \/ \E t \in Conns :
                 /\ Handles(t, "RELEASE")
                 /\ EntryStep(Pool[r], Pool'[r], req[t].client, now)
<1>0. IsDB(Pool) /\ Pool[r] \in Entry
  BY PoolIsDB, EntryOfDB DEF PoolOK
<1>1. CASE Pool' = Pool
  BY <1>1 DEF EntryStep
<1>2. ASSUME NEW c \in Clients, NEW q \in Rows, AP!Grant(c, q)
      PROVE  r \in DOMAIN Pool' /\ EntryStep(Pool[r], Pool'[r], NoClient, now)
  <2>1. q \in Allocatable(Pool)
    BY <1>2, SameOps DEF AP!Grant
  <2>2. /\ r \in DOMAIN Pool'
        /\ Pool'[r] = IF r = q THEN [Pool[r] EXCEPT !.holder = c, !.alloc = now, !.renew = now]
                               ELSE Pool[r]
    BY <1>0, <1>2, <2>1 DEF AP!Grant, Allocatable, IsDB
  <2>3. r = q => ~IsAllocated(Pool[r]) /\ ~Pool[r].locked
    BY <2>1 DEF Allocatable
  <2>4. [Pool[r] EXCEPT !.holder = c, !.alloc = now, !.renew = now].tok = Pool[r].tok
    BY <1>0 DEF Entry
  <2> QED BY <2>2, <2>3, <2>4 DEF EntryStep
<1>3. ASSUME NEW c \in Clients, NEW q \in Rows, AP!Extend(c, q)
      PROVE  r \in DOMAIN Pool' /\ EntryStep(Pool[r], Pool'[r], NoClient, now)
  <2>1. q \in HeldBy(Pool, c) /\ ~Pool[q].locked
    BY <1>3, SameOps DEF AP!Extend
  <2>2. /\ r \in DOMAIN Pool'
        /\ Pool'[r] = IF r = q THEN [Pool[r] EXCEPT !.renew = now] ELSE Pool[r]
    BY <1>0, <1>3, <2>1 DEF AP!Extend, HeldBy, IsDB
  <2>3. /\ [Pool[r] EXCEPT !.renew = now].tok = Pool[r].tok
        /\ [Pool[r] EXCEPT !.renew = now].holder = Pool[r].holder
    BY <1>0 DEF Entry
  <2> QED BY <2>1, <2>2, <2>3 DEF EntryStep
<1>4. ASSUME NEW c \in Clients, NEW q \in Rows, AP!GiveBack(c, q)
      PROVE  r \in DOMAIN Pool' /\ EntryStep(Pool[r], Pool'[r], c, now)
  <2>1. q \in HeldBy(Pool, c) /\ ~Pool[q].locked
    BY <1>4, SameOps DEF AP!GiveBack
  <2>2. /\ r \in DOMAIN Pool'
        /\ Pool'[r] = IF r = q THEN [Pool[r] EXCEPT !.holder = NoClient, !.alloc = 0, !.renew = 0]
                               ELSE Pool[r]
    BY <1>0, <1>4, <2>1 DEF AP!GiveBack, HeldBy, IsDB
  <2>3. [Pool[r] EXCEPT !.holder = NoClient, !.alloc = 0, !.renew = 0].tok = Pool[r].tok
    BY <1>0 DEF Entry
  <2>4. r = q => Pool[r].holder = c
    BY <2>1 DEF HeldBy
  <2> QED BY <2>1, <2>2, <2>3, <2>4 DEF EntryStep
<1>5. ASSUME NEW R \in SUBSET Rows, AP!Sweep(R)
      PROVE  r \in DOMAIN Pool' /\ EntryStep(Pool[r], Pool'[r], NoClient, now)
  <2> DEFINE e == IF AllocExpired(Pool[r], now) THEN Released(Pool[r]) ELSE Pool[r]
  <2>1. /\ r \in DOMAIN Pool'
        /\ Pool'[r] = [e EXCEPT !.tok = IF r \in R THEN @ + 1 ELSE @]
    BY <1>5, SameOps DEF AP!Sweep
  <2>2. e \in Entry /\ e.tok = Pool[r].tok /\ e.tok \in Nat
    BY <1>0 DEF Entry, Released, Holders
  <2>3. Pool'[r].tok >= Pool[r].tok
    <3> HIDE DEF e
    <3> QED BY <2>1, <2>2 DEF Entry
  <2>4. CASE AllocExpired(Pool[r], now)
    BY <2>1, <2>3, <2>4 DEF EntryStep
  <2>5. CASE ~AllocExpired(Pool[r], now)
    <3>1. Pool'[r] = [Pool[r] EXCEPT !.tok = IF r \in R THEN @ + 1 ELSE @]
      BY <2>1, <2>5
    <3>2. Pool'[r] = [Pool[r] EXCEPT !.tok = Pool'[r].tok]
      BY <1>0, <3>1 DEF Entry
    <3> QED BY <2>1, <2>3, <3>2 DEF EntryStep
  <2> QED BY <2>4, <2>5
<1> QED BY <1>1, <1>2, <1>3, <1>4, <1>5 DEF ThreadMapped

\* A step that moves the server is a step of one of its threads.
LEMMA ServerStepMapped ==
  ASSUME AllocDBAssumption, NydusServerAssumption, ~FileTears, Inv, Next, ServerStep
  PROVE  ThreadMapped
<1>1. CASE \E t \in Conns : ConnStep(t)
  BY <1>1, MapConn
<1>2. CASE \E k \in Cleaners : CleanerStep(k)
  BY <1>2, MapCleaner
<1>3. ~MainStep
  BY ProcFacts DEF MainStep, Start, WriteCreated, StartAnyway, Crash, ServerStep, Up
<1>4. ~CliStep
  BY QuietCli DEF CliAlone, ServerStep
<1>5. ~Tick
  BY DEF Tick, ServerStep
<1> QED BY <1>1, <1>2, <1>3, <1>4, <1>5 DEF Next

-----------------------------------------------------------------------------
(* The action properties.                                                  *)

\* An account the administrator has locked is left as it is, but for its tokens.
THEOREM LockedIsFrozen ==
  ASSUME ~FileTears
  PROVE  Spec => LockedRowFrozen
<1> DEFINE A == ServerStep => \A r \in DOMAIN Pool :
                  Pool[r].locked => Pool'[r] = [Pool[r] EXCEPT !.tok = Pool'[r].tok]
<1>1. Inv /\ [Next]_vars => [A]_vars
  <2> SUFFICES ASSUME Inv, Next, ServerStep, NEW r \in DOMAIN Pool, Pool[r].locked
               PROVE  Pool'[r] = [Pool[r] EXCEPT !.tok = Pool'[r].tok]
    OBVIOUS
  <2>1. Pool[r] \in Entry
    BY NydusServerAssumption, PoolIsDB, EntryOfDB DEF PoolOK
  <2>2. \E c : EntryStep(Pool[r], Pool'[r], c, now)
    BY AllocDBAssumption, NydusServerAssumption, ServerStepMapped, ThreadEntry
  <2>3. Pool'[r] = Pool[r] \/ Pool'[r] = [Pool[r] EXCEPT !.tok = Pool'[r].tok]
    BY <2>2 DEF EntryStep, AllocExpired
  <2> QED BY <2>1, <2>3, SameEntry
<1> QED BY <1>1, QuietInvariant, PTL DEF Spec, LockedRowFrozen

\* An allocation that was renewed in time ends only by its client's own RELEASE.
THEOREM LiveIsKept ==
  ASSUME ~FileTears
  PROVE  Spec => LiveAllocationKept
<1> DEFINE A == ServerStep => \A r \in DOMAIN Pool :
                  IsAllocated(Pool[r]) /\ Pool'[r].holder # Pool[r].holder =>
                    \/ AllocExpired(Pool[r], now)
                    \/ \E t \in Conns : Handles(t, "RELEASE") /\ req[t].client = Pool[r].holder
<1>1. Inv /\ [Next]_vars => [A]_vars
  <2> SUFFICES ASSUME Inv, Next, ServerStep, NEW r \in DOMAIN Pool,
                      IsAllocated(Pool[r]), Pool'[r].holder # Pool[r].holder,
                      ~AllocExpired(Pool[r], now)
               PROVE  \E t \in Conns : Handles(t, "RELEASE") /\ req[t].client = Pool[r].holder
    OBVIOUS
  <2>1. Pool[r] \in Entry
    BY NydusServerAssumption, PoolIsDB, EntryOfDB DEF PoolOK
  <2>2. Pool'[r] = [Pool[r] EXCEPT !.tok = Pool'[r].tok] => Pool'[r].holder = Pool[r].holder
    BY <2>1 DEF Entry
  <2>3. ASSUME NEW c, EntryStep(Pool[r], Pool'[r], c, now) PROVE Pool[r].holder = c
    BY <2>2, <2>3 DEF EntryStep
  <2>4. Pool[r].holder # NoClient
    BY DEF IsAllocated
  <2> QED BY <2>3, <2>4, AllocDBAssumption, NydusServerAssumption, ServerStepMapped, ThreadEntry
<1> QED BY <1>1, QuietInvariant, PTL DEF Spec, LiveAllocationKept

-----------------------------------------------------------------------------
(* Every operation is one indivisible step on the accounts.                *)

\* What a thread has loaded is the pool.
LEMMA LoadedIsPool ==
  ASSUME NydusServerAssumption, Inv, NEW t \in Threads, pc[t] = "loaded"
  PROVE  Pool = copy[t]
<1>1. \A q \in Procs : pc[q] # "write"
  BY Alone
<1>2. copy[t] = file
  BY DEF Inv, QuietInv
<1> QED BY <1>1, <1>2, PoolAtRest

\* Each of the handlers, at the moment in which it leaves "loaded".
LEMMA ServedStep ==
  ASSUME AllocDBAssumption, NydusServerAssumption, Inv, NEW t \in Conns,
         Request(t) \/ Refuse(t) \/ Renew(t) \/ Release(t) \/ ShowUsers(t)
  PROVE  Served(t)
<1>0. t \in Threads /\ pc[t] = "loaded"
  BY ProcFacts DEF Request, Refuse, Renew, Release, ShowUsers, Handles
<1>1. Pool = copy[t]
  BY <1>0, LoadedIsPool
<1>2. CASE Request(t)
  <2>1. PICK r \in Answer(copy[t], req[t].client) :
          /\ Commit(t, AllocateOne(copy[t], req[t].client, r, now))
          /\ ans' = [ans EXCEPT ![t] = r]
    BY <1>2 DEF Request
  <2>2. ans'[t] = r
    BY <2>1 DEF Inv, TypeOK
  <2>3. Pool' = AllocateOne(copy[t], req[t].client, r, now)
    BY <1>0, <2>1, MapLoadedWrite DEF Commit
  <2> QED BY <1>1, <1>2, <2>1, <2>2, <2>3 DEF Served, Request, Handles
<1>3. CASE Refuse(t) \/ ShowUsers(t)
  <2>1. ~Request(t) /\ ~Renew(t) /\ ~Release(t)
    BY <1>3 DEF Refuse, ShowUsers, Request, Renew, Release, Handles
  <2>2. Pool' = Pool
    BY <1>3, <2>1, ConnKeeps DEF ConnStep
  <2>3. Refuse(t) => pc'[t] = "idle"
    BY <1>0, ProcFacts DEF Refuse, Inv, TypeOK
  <2> QED BY <1>1, <1>3, <2>2, <2>3 DEF Served, Refuse, ShowUsers, Handles
<1>4. CASE Renew(t)
  <2>1. Pool' = RenewOne(copy[t], req[t].client, now)
    BY <1>0, <1>4, MapLoadedWrite DEF Renew, Commit
  <2> QED BY <1>1, <1>4, <2>1 DEF Served, Renew, Handles
<1>5. CASE Release(t)
  <2>1. Pool' = ReleaseOne(copy[t], req[t].client)
    BY <1>0, <1>5, MapLoadedWrite DEF Release, Commit
  <2> QED BY <1>1, <1>5, <2>1 DEF Served, Release, Handles
<1> QED BY <1>2, <1>3, <1>4, <1>5

\* A thread leaves "loaded" or "renewed" only by its own step, while the server is up.
LEMMA LeavesByItself ==
  ASSUME NydusServerAssumption, ~FileTears, Inv, [Next]_vars, Up'
  PROVE  /\ \A t \in Conns : pc[t] = "loaded" /\ pc'[t] # "loaded" =>
              Request(t) \/ Refuse(t) \/ Renew(t) \/ Release(t) \/ ShowUsers(t)
         /\ \A k \in Cleaners : pc[k] = "renewed" /\ pc'[k] # "renewed" => Expire(k)
<1> DEFINE Goal ==
      /\ \A t \in Conns : pc[t] = "loaded" /\ pc'[t] # "loaded" =>
           Request(t) \/ Refuse(t) \/ Renew(t) \/ Release(t) \/ ShowUsers(t)
      /\ \A k \in Cleaners : pc[k] = "renewed" /\ pc'[k] # "renewed" => Expire(k)
<1>0. pc \in [Procs -> {"idle", "recv", "acquire", "loaded", "renewed", "write",
                        "reply", "sleep", "down", "running"}]
  BY DEF Inv, TypeOK
<1>1. ASSUME NEW s \in Conns, ConnStep(s) PROVE Goal
  <2>1. s \in Procs /\ \A x \in Conns \cup Cleaners : x \in Procs
    BY ProcFacts
  <2>2. PICK next : pc' = [pc EXCEPT ![s] = next]
    BY <1>1 DEF ConnStep, Accept, Receive, Discard, Load, LoadFails, Request, Refuse, Renew,
         Release, ShowUsers, Write, Reply, Commit
  <2>3. \A x \in Conns \cup Cleaners : x # s => pc'[x] = pc[x]
    BY <1>0, <2>1, <2>2
  <2>4. pc[s] = "loaded" =>
          Request(s) \/ Refuse(s) \/ Renew(s) \/ Release(s) \/ ShowUsers(s)
    BY <1>1 DEF ConnStep, Accept, Receive, Discard, Load, LoadFails, Write, Reply
  <2>5. s \notin Cleaners
    BY NydusServerAssumption DEF NydusServerAssumption
  <2> QED BY <2>3, <2>4, <2>5
<1>2. ASSUME NEW s \in Cleaners, CleanerStep(s) PROVE Goal
  <2>1. s \in Procs /\ \A x \in Conns \cup Cleaners : x \in Procs
    BY ProcFacts
  <2>2. PICK next : pc' = [pc EXCEPT ![s] = next]
    BY <1>2 DEF CleanerStep, Spawn, Load, LoadFails, RenewAccess, Expire, WriteSwept, WakeUp
  <2>3. \A x \in Conns \cup Cleaners : x # s => pc'[x] = pc[x]
    BY <1>0, <2>1, <2>2
  <2>4. pc[s] = "renewed" => Expire(s)
    BY <1>2 DEF CleanerStep, Spawn, Load, LoadFails, RenewAccess, WriteSwept, WakeUp
  <2>5. s \notin Conns
    BY NydusServerAssumption DEF NydusServerAssumption
  <2> QED BY <2>3, <2>4, <2>5
<1>3. CASE MainStep
  <2>1. ~Crash
    BY ProcFacts DEF Crash, Up
  <2>2. PICK next : pc' = [pc EXCEPT ![Main] = next]
    BY <1>3, <2>1 DEF MainStep, Start, WriteCreated, StartAnyway
  <2> QED BY <1>0, <2>2, ProcFacts
<1>4. CASE CliStep \/ Tick \/ UNCHANGED vars
  <2>1. pc' = pc
    BY <1>4, QuietCli DEF CliAlone, Tick, vars
  <2> QED BY <2>1
<1> QED BY <1>1, <1>2, <1>3, <1>4 DEF Next

\* While the server is up, what changes the accounts is a handler or a cleanup at its
\* commit, and each applies its operation to the accounts as they are at that moment.
THEOREM OperationsAreAtomic ==
  ASSUME ~FileTears
  PROVE  Spec => OperationsAtomic
<1> DEFINE Moved == \E t \in Threads : pc[t] \in {"loaded", "renewed"} /\ pc'[t] = "write"
           A == Up' => /\ \A t \in Conns : pc[t] = "loaded" /\ pc'[t] # "loaded" => Served(t)
                       /\ \A k \in Cleaners : pc[k] = "renewed" /\ pc'[k] # "renewed" => Swept
                       /\ ServerStep /\ Pool' # Pool => Moved
<1>1. ASSUME Inv, Next, Up', NEW t \in Conns, pc[t] = "loaded", pc'[t] # "loaded"
      PROVE  Served(t)
  BY <1>1, AllocDBAssumption, NydusServerAssumption, LeavesByItself, ServedStep
<1>2. ASSUME Inv, Next, Up', NEW k \in Cleaners, pc[k] = "renewed", pc'[k] # "renewed"
      PROVE  Swept
  <2>1. Expire(k)
    BY <1>2, NydusServerAssumption, LeavesByItself
  <2> QED BY <1>2, <2>1, NydusServerAssumption, ExpirePool DEF Swept
<1>3. ASSUME Inv, Next, ServerStep, Pool' # Pool
      PROVE  Moved
  <2>1. ~MainStep
    BY <1>3, NydusServerAssumption, ProcFacts
       DEF MainStep, Start, WriteCreated, StartAnyway, Crash, ServerStep, Up
  <2>2. ~CliStep /\ ~Tick
    BY <1>3, NydusServerAssumption, QuietCli DEF CliAlone, ServerStep, Tick
  <2>3. ASSUME NEW t \in Conns, ConnStep(t) PROVE Moved
    <3>1. Request(t) \/ Renew(t) \/ Release(t)
      BY <1>3, <2>3, NydusServerAssumption, ConnKeeps
    <3>2. pc[t] = "loaded" /\ pc' = [pc EXCEPT ![t] = "write"]
      BY <3>1 DEF Request, Renew, Release, Handles, Commit
    <3> QED BY <1>3, <3>2, NydusServerAssumption, ProcFacts DEF Inv, TypeOK
  <2>4. ASSUME NEW k \in Cleaners, CleanerStep(k) PROVE Moved
    <3>1. Expire(k)
      BY <1>3, <2>4, NydusServerAssumption, CleanerKeeps
    <3>2. pc[k] = "renewed" /\ pc' = [pc EXCEPT ![k] = "write"]
      BY <3>1 DEF Expire
    <3> QED BY <1>3, <3>2, NydusServerAssumption, ProcFacts DEF Inv, TypeOK
  <2> QED BY <1>3, <2>1, <2>2, <2>3, <2>4 DEF Next
<1>4. Inv /\ [Next]_vars => [A]_vars
  BY <1>1, <1>2, <1>3
<1> QED BY <1>4, QuietInvariant, PTL DEF Spec, OperationsAtomic

LEMMA CliTokens ==
  ASSUME NEW e \in Entry, NEW op \in CliOps, NEW t PROVE CliEntry(e, op, t).tok = e.tok
<1>1. op.cmd \in CliCommands
  BY DEF CliOps
<1>2. /\ Allocated(e, op.client, t).tok = e.tok
      /\ Renewed(e, t).tok = e.tok
      /\ Released(e).tok = e.tok
      /\ [e EXCEPT !.locked = TRUE].tok = e.tok
      /\ [e EXCEPT !.locked = FALSE].tok = e.tok
  BY DEF Entry, Allocated, Renewed, Released
<1> QED BY <1>1, <1>2 DEF CliEntry, CliCommands

\* No token is ever replaced by an older one while the server is up.
THEOREM TokensAreKept ==
  ASSUME ~FileTears
  PROVE  Spec => TokensKept
<1> DEFINE A == Up /\ Up' => \A r \in DOMAIN Pool : Pool'[r].tok >= Pool[r].tok
<1>1. Inv /\ [Next]_vars => [A]_vars
  <2> SUFFICES ASSUME Inv, Next, Up, Up', NEW r \in DOMAIN Pool
               PROVE  Pool'[r].tok >= Pool[r].tok
    OBVIOUS
  <2>0. IsDB(Pool) /\ Pool[r] \in Entry /\ Pool[r].tok \in Nat
    BY NydusServerAssumption, PoolIsDB, EntryOfDB, SameEntry DEF PoolOK
  <2>1. ASSUME ThreadMapped PROVE Pool'[r].tok >= Pool[r].tok
    <3>1. \E c : EntryStep(Pool[r], Pool'[r], c, now)
      BY <2>1, NydusServerAssumption, ThreadEntry
    <3>2. Pool'[r].tok = Pool[r].tok \/ Pool'[r].tok >= Pool[r].tok
      BY <3>1 DEF EntryStep
    <3> QED BY <2>0, <3>2
  <2>2. CASE \/ \E t \in Conns : ConnStep(t)
             \/ \E k \in Cleaners : CleanerStep(k)
    BY <2>1, <2>2, AllocDBAssumption, NydusServerAssumption, MapConn, MapCleaner
  <2>3. ~MainStep
    BY NydusServerAssumption, ProcFacts DEF MainStep, Start, WriteCreated, StartAnyway, Crash, Up
  <2>4. ASSUME NEW op \in AdminOps, CliAlone(op) PROVE Pool'[r].tok >= Pool[r].tok
    <3>1. \A p \in Procs : pc[p] # "write" /\ pc'[p] # "write"
      BY <2>4, NydusServerAssumption, QuietCliAlone DEF CliAlone
    <3>2. Pool = file /\ Pool' = CliApply(file, op, now)
      BY <2>4, <3>1, PoolAtRest, PoolAtRestNext DEF CliAlone
    <3>3. op \in CliOps
      BY NydusServerAssumption DEF NydusServerAssumption
    <3>4. CliEntry(Pool[r], op, now).tok = Pool[r].tok
      BY <2>0, <3>3, CliTokens
    <3>5. Pool'[r].tok = Pool[r].tok
      BY <3>2, <3>4 DEF CliApply
    <3> QED BY <2>0, <3>5
  <2>5. CASE Tick
    <3>1. Pool' = Pool
      BY <2>5 DEF Tick, Pool, Writing
    <3> QED BY <2>0, <3>1
  <2> QED BY <2>2, <2>3, <2>4, <2>5, NydusServerAssumption, QuietCli DEF Next
<1> QED BY <1>1, QuietInvariant, PTL DEF Spec, TokensKept

-----------------------------------------------------------------------------
(* The answer to a REQUEST.                                                *)

\* The strengthening: it holds from the moment the answer is chosen.
AnswerInv ==
  \A t \in Conns : pc[t] = "write" /\ req[t].cmd = "REQUEST" =>
    ans[t] \in DOMAIN copy[t] /\ copy[t][ans[t]].holder = req[t].client

LEMMA AnswerKept ==
  ASSUME NydusServerAssumption, TypeOK, AnswerInv,
         \A t \in Conns : \/ pc'[t] # "write" \/ req'[t].cmd # "REQUEST"
                          \/ /\ pc'[t] = pc[t] /\ req'[t] = req[t]
                             /\ ans'[t] = ans[t] /\ copy'[t] = copy[t]
  PROVE  AnswerInv'
BY DEF AnswerInv

LEMMA AnswerRequest ==
  ASSUME AllocDBAssumption, NydusServerAssumption, TypeOK, AnswerInv,
         NEW t \in Conns, Request(t)
  PROVE  AnswerInv'
<1>0. t \in Procs /\ \A q \in Conns : q \in Procs
  BY ProcFacts
<1> DEFINE c == req[t].client
<1>1. PICK r \in Answer(copy[t], c) : /\ Commit(t, AllocateOne(copy[t], c, r, now))
                                     /\ ans' = [ans EXCEPT ![t] = r]
  BY DEF Request
<1>2. c \in Clients /\ IsDB(copy[t])
  BY <1>0 DEF Request, Handles, TypeOK, Messages, NoReq, UsersReq
<1> DEFINE db == AllocateOne(copy[t], c, r, now)
<1>3. r \in DOMAIN db /\ db[r].holder = c
  <2>1. r \in DOMAIN copy[t] /\ copy[t][r] \in Entry
    BY <1>2, AnswerInDB, EntryOfDB
  <2>2. CASE IsAllocated(copy[t][r])
    <3>1. copy[t][r].holder = c
      BY <2>2 DEF Answer, Oldest, HeldBy, FirstAllocatable, Allocatable
    <3>2. Renewed(copy[t][r], now).holder = copy[t][r].holder
      BY <2>1 DEF Renewed, Entry
    <3> QED BY <2>1, <2>2, <3>1, <3>2 DEF AllocateOne
  <2>3. CASE ~IsAllocated(copy[t][r])
    <3>1. ~copy[t][r].locked
      BY <1>1, <1>2, <2>3, AllocDBAssumption
         DEF Answer, Oldest, HeldBy, FirstAllocatable, Allocatable
    <3>2. Allocated(copy[t][r], c, now).holder = c
      BY <2>1, <3>1 DEF Allocated, Entry
    <3> QED BY <2>1, <2>3, <3>2 DEF AllocateOne
  <2> QED BY <2>2, <2>3
<1> HIDE DEF db
<1>4. /\ copy' = [copy EXCEPT ![t] = db] /\ ans' = [ans EXCEPT ![t] = r]
      /\ req' = req /\ pc' = [pc EXCEPT ![t] = "write"]
  BY <1>1 DEF Commit, Truncate, db
<1> QED BY <1>0, <1>3, <1>4 DEF AnswerInv, TypeOK

LEMMA AnswerStep ==
  ASSUME AllocDBAssumption, NydusServerAssumption, TypeOK, AnswerInv, [Next]_vars
  PROVE  AnswerInv'
<1>0. \A t \in Conns : t \in Procs /\ t \in Threads /\ t # Cli /\ t # Main /\ t \notin Cleaners
  BY ProcFacts
<1>1. ASSUME NEW t \in Conns, ConnStep(t) PROVE AnswerInv'
  <2>1. CASE Request(t)
    BY <2>1, AnswerRequest
  <2>2. CASE \/ Accept(t) \/ (\E m \in Messages : Receive(t, m)) \/ Discard(t) \/ Reply(t)
    BY <1>0, <2>2, AnswerKept DEF TypeOK, Accept, Receive, Discard, Reply
  <2>3. CASE Load(t) \/ LoadFails(t)
    BY <1>0, <2>3, AnswerKept DEF TypeOK, Load, LoadFails
  <2>4. CASE Refuse(t) \/ ShowUsers(t)
    BY <1>0, <2>4, AnswerKept DEF TypeOK, Refuse, ShowUsers
  <2>5. CASE Renew(t) \/ Release(t)
    BY <1>0, <2>5, AnswerKept DEF TypeOK, Renew, Release, Handles, Commit, Truncate
  <2>6. CASE Write(t)
    BY <1>0, <2>6, AnswerKept DEF TypeOK, Write, Overwrite
  <2> QED BY <1>1, <2>1, <2>2, <2>3, <2>4, <2>5, <2>6 DEF ConnStep
<1>2. ASSUME NEW k \in Cleaners, CleanerStep(k) PROVE AnswerInv'
  <2>1. /\ \A t \in Conns : pc'[t] = pc[t] /\ copy'[t] = copy[t] /\ ans'[t] = ans[t]
                           /\ req'[t] = req[t]
    BY <1>0, <1>2 DEF TypeOK, CleanerStep, Spawn, Load, LoadFails, RenewAccess, Expire,
                      WriteSwept, WakeUp, Truncate, Overwrite
  <2> QED BY <2>1, AnswerKept
<1>3. CASE MainStep
  <2>1. CASE Crash
    BY <1>0, <2>1, AnswerKept DEF Crash
  <2>2. CASE (\E S \in SUBSET Rows : Start(S)) \/ WriteCreated \/ StartAnyway
    BY <1>0, <2>2, AnswerKept DEF TypeOK, Start, WriteCreated, StartAnyway, Truncate, Overwrite
  <2> QED BY <1>3, <2>1, <2>2 DEF MainStep
<1>4. CASE CliStep
  BY <1>0, <1>4, AnswerKept
     DEF TypeOK, CliStep, CliAlone, CliLoad, CliCommit, CliWrite, CliKilled, Truncate, Overwrite
<1>5. CASE Tick \/ UNCHANGED vars
  BY <1>5, AnswerKept DEF Tick, vars
<1> QED BY <1>1, <1>2, <1>3, <1>4, <1>5 DEF Next

\* The account named in an answer belongs, in the file, to the client that asked.
THEOREM AnswerIsRecorded ==
  ASSUME ~FileTears
  PROVE  Spec => AnswerRecorded
<1> DEFINE A == \A t \in Conns : pc[t] = "write" /\ pc'[t] = "reply" =>
                  ans[t] \in DOMAIN file' /\ file'[ans[t]].holder = req[t].client
<1>1. Init => AnswerInv
  BY NydusServerAssumption, ProcFacts DEF Init, AnswerInv
<1>2. Inv /\ AnswerInv /\ [Next]_vars => AnswerInv'
  BY AllocDBAssumption, NydusServerAssumption, AnswerStep DEF Inv
<1>3. Inv /\ AnswerInv /\ [Next]_vars => [A]_vars
  <2> SUFFICES ASSUME Inv, AnswerInv, Next, NEW t \in Conns, pc[t] = "write", pc'[t] = "reply"
               PROVE  ans[t] \in DOMAIN file' /\ file'[ans[t]].holder = req[t].client
    OBVIOUS
  <2>0. t \in Procs /\ t \in Threads
    BY NydusServerAssumption, ProcFacts
  <2>1. Write(t)
    <3>1. ASSUME NEW q \in Conns, ConnStep(q) PROVE q = t
      BY <2>0, <3>1, NydusServerAssumption, ProcFacts DEF Inv, TypeOK, ConnStep, Accept, Receive,
         Discard, Load, LoadFails, Request, Refuse, Renew, Release, ShowUsers, Write, Reply, Commit
    <3>2. ConnStep(t) => Write(t)
      BY DEF ConnStep, Accept, Receive, Discard, Load, LoadFails, Request, Refuse, Renew,
             Release, ShowUsers, Reply, Handles
    <3>3. ASSUME NEW k \in Cleaners, CleanerStep(k) PROVE FALSE
      BY <2>0, <3>3, NydusServerAssumption, ProcFacts DEF Inv, TypeOK, CleanerStep, Spawn, Load,
         LoadFails, RenewAccess, Expire, WriteSwept, WakeUp
    <3>4. ~MainStep
      BY <2>0, NydusServerAssumption, ProcFacts
         DEF Inv, TypeOK, MainStep, Start, WriteCreated, StartAnyway, Crash
    <3>5. ~CliStep
      BY NydusServerAssumption, QuietCli DEF CliAlone
    <3>6. ~Tick
      BY DEF Tick
    <3> QED BY <3>1, <3>2, <3>3, <3>4, <3>5, <3>6 DEF Next
  <2>2. req[t].cmd = "REQUEST"
    BY <2>0, <2>1 DEF Write, Inv, TypeOK
  <2>3. file' = copy[t]
    BY <2>0, <2>1 DEF Write, Overwrite, Written, Inv, QuietInv
  <2> QED BY <2>2, <2>3 DEF AnswerInv
<1> QED BY <1>1, <1>2, <1>3, QuietInvariant, PTL DEF Spec, AnswerRecorded
==============================================================================
