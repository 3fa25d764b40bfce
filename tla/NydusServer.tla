----------------------------- MODULE NydusServer -----------------------------
(***************************************************************************)
(* The Nydus server around its allocation file: the threads that serve     *)
(* connections (nydus-server, handle_connection), the cleanup threads      *)
(* (alloc_utils.cleanup), the main thread that creates the file at         *)
(* start-up, and the separate process nydus-cli, which reads and rewrites  *)
(* the same file and does not know ALLOCDB_LOCK.                           *)
(*                                                                         *)
(* Every change is load whole file, change the copy, truncate the file,    *)
(* write the copy: write_changes opens the file with "w" before it writes. *)
(***************************************************************************)
EXTENDS AllocDB

CONSTANTS
  Conns,       \* connection threads that may exist at once
  Cleaners,    \* cleanup threads that may exist at once: one is started every
               \* CLEANUP_PERIOD, whether or not the last one has finished
  Cli, Main,   \* the nydus-cli process and the server's main thread
  NoThread,    \* the owner of a lock that is free
  NoRow,       \* no account in the answer
  Torn,        \* a file that load_alloc_db refuses with a ValueError
  AdminOps,    \* the commands the administrator issues with nydus-cli
  FileTears,   \* may the file be torn: by a command that overlaps the server's own access
               \* to it, or by a process that dies within its write?
  MaxTime, MaxToken, MaxCrashes   \* bounds of the model

Threads == Conns \cup Cleaners
Procs   == Threads \cup {Cli, Main}

ASSUME NydusServerAssumption ==
  /\ Conns \cap Cleaners = {} /\ Cli # Main
  /\ Cli \notin Threads /\ Main \notin Threads
  /\ NoThread \notin Procs
  /\ NoRow \notin Rows
  /\ \A D \in SUBSET Rows : Torn \notin [D -> Entry]
  /\ AdminOps \subseteq CliOps
  /\ FileTears \in BOOLEAN
  /\ MaxTime \in Nat /\ MaxToken \in Nat /\ MaxCrashes \in Nat

VARIABLES
  file,     \* the allocation file
  lock,     \* ALLOCDB_LOCK
  now,      \* the clock
  pc,       \* where each process is
  req,      \* the message a connection thread has received
  copy,     \* the AllocEngine.accounts of each process
  ans,      \* the row a connection thread is going to answer with
  limited,  \* has a cleanup thread hit the rate limit of the token service?
  known,    \* history: the accounts the file had when the server came up
  crashes   \* history: how often the server went down

vars == <<file, lock, now, pc, req, copy, ans, limited, known, crashes>>

\* The client of a message is its peer's address with the username it names; a
\* USERS message names none.
NoReq    == [client |-> NoClient, cmd |-> "none"]
UsersReq == [client |-> NoClient, cmd |-> "USERS"]
Messages == [client : Clients, cmd : {"REQUEST", "RENEW", "RELEASE"}] \cup {UsersReq}

TypeOK ==
  /\ file = Torn \/ IsDB(file)
  /\ lock \in Threads \cup {NoThread}
  /\ now \in Nat
  /\ pc \in [Procs -> {"idle", "recv", "acquire", "loaded", "renewed", "write",
                       "reply", "sleep", "down", "running"}]
  /\ req \in [Conns -> Messages \cup {NoReq}]
  /\ DOMAIN copy = Procs /\ \A p \in Procs : IsDB(copy[p])
  /\ ans \in [Conns -> Rows \cup {NoRow}]
  /\ limited \in [Cleaners -> BOOLEAN]
  /\ known \subseteq Rows
  /\ crashes \in Nat

Init ==
  /\ file = EmptyDB /\ lock = NoThread /\ now = 0
  /\ pc = [p \in Procs |-> IF p = Main THEN "down" ELSE "idle"]
  /\ req = [t \in Conns |-> NoReq]
  /\ copy = [p \in Procs |-> EmptyDB]
  /\ ans = [t \in Conns |-> NoRow]
  /\ limited = [k \in Cleaners |-> FALSE]
  /\ known = {} /\ crashes = 0

Up == pc[Main] = "running"

-----------------------------------------------------------------------------
(* Access to the file.                                                     *)

LoadWithoutLock(t) ==
  /\ pc[t] = "acquire" /\ file # Torn
  /\ lock' = t
  /\ copy' = [copy EXCEPT ![t] = file]
  /\ pc' = [pc EXCEPT ![t] = "loaded"]
  /\ UNCHANGED <<file, now, req, ans, limited, known, crashes>>

\* with ALLOCDB_LOCK: AllocEngine(path) reads the whole file.
Load(t) ==
  /\ pc[t] = "acquire" /\ lock = NoThread /\ file # Torn
  /\ lock' = t
  /\ copy' = [copy EXCEPT ![t] = file]
  /\ pc' = [pc EXCEPT ![t] = "loaded"]
  /\ UNCHANGED <<file, now, req, ans, limited, known, crashes>>

LoadFailsLocked(t) ==
  /\ pc[t] = "acquire" /\ lock = NoThread /\ file = Torn
  /\ lock' = t
  /\ pc' = [pc EXCEPT ![t] = "idle"]
  /\ UNCHANGED <<file, now, req, copy, ans, limited, known, crashes>>

\* load_alloc_db raises: the with statement frees the lock, the connection is
\* closed, a cleanup thread dies.
LoadFails(t) ==
  /\ pc[t] = "acquire" /\ lock = NoThread /\ file = Torn
  /\ pc' = [pc EXCEPT ![t] = "idle"]
  /\ req' = IF t \in Conns THEN [req EXCEPT ![t] = NoReq] ELSE req
  /\ UNCHANGED <<file, lock, now, copy, ans, limited, known, crashes>>

\* open(path, "w"): the file is empty until the copy is written.
Truncate(p, db) ==
  /\ file' = EmptyDB
  /\ copy' = [copy EXCEPT ![p] = db]

\* The copy is written from offset 0.  When another process has written since the
\* file was truncated, the end of its text may be left behind the new one: all of its
\* rows, if the copy is but the header; otherwise a piece of a line, so that the file
\* cannot be read.
Written(p) ==
  IF file = EmptyDB THEN {copy[p]}
  ELSE IF copy[p] = EmptyDB THEN {file}
  ELSE {copy[p], Torn}

Overwrite(p) ==
  /\ file' \in Written(p)
  /\ copy' = [copy EXCEPT ![p] = EmptyDB]

\* What the processes of P leave when they die: the file as it is or, of a copy whose
\* write they were in, the first rows, with a piece of a line or without.
FirstRows(db, n) == [r \in {q \in DOMAIN db : q < n} |-> db[r]]
CutShort(p) ==
  {Torn} \cup IF file = EmptyDB THEN {FirstRows(copy[p], n) : n \in DOMAIN copy[p]} ELSE {}
Writing == {p \in Procs : pc[p] = "write"}
Remains(P) ==
  {file} \cup UNION {CutShort(p) : p \in {q \in P \cap Writing : FileTears /\ copy[q] # EmptyDB}}

-----------------------------------------------------------------------------
(* Connection threads.                                                     *)

Accept(t) ==
  /\ Up /\ pc[t] = "idle"
  /\ pc' = [pc EXCEPT ![t] = "recv"]
  /\ UNCHANGED <<file, lock, now, req, copy, ans, limited, known, crashes>>

\* A whole message has arrived from a user the server knows.
Receive(t, m) ==
  /\ pc[t] = "recv"
  /\ pc' = [pc EXCEPT ![t] = "acquire"]
  /\ req' = [req EXCEPT ![t] = m]
  /\ UNCHANGED <<file, lock, now, copy, ans, limited, known, crashes>>

\* Empty data, too slow, no such user, no such command: closed without a word.
Discard(t) ==
  /\ pc[t] = "recv"
  /\ pc' = [pc EXCEPT ![t] = "idle"]
  /\ UNCHANGED <<file, lock, now, req, copy, ans, limited, known, crashes>>

Handles(t, cmd) == pc[t] = "loaded" /\ req[t].cmd = cmd

CommitUnlocked(t, db) ==
  /\ Truncate(t, db)
  /\ lock' = NoThread
  /\ pc' = [pc EXCEPT ![t] = "write"]
  /\ UNCHANGED <<now, req, limited, known, crashes>>

\* The database copy is to be changed to db and written.
Commit(t, db) ==
  /\ Truncate(t, db)
  /\ pc' = [pc EXCEPT ![t] = "write"]
  /\ UNCHANGED <<lock, now, req, limited, known, crashes>>

Request(t) ==
  /\ Handles(t, "REQUEST")
  /\ \E r \in Answer(copy[t], req[t].client) :
       /\ Commit(t, AllocateOne(copy[t], req[t].client, r, now))
       /\ ans' = [ans EXCEPT ![t] = r]

RefuseLocked(t) ==
  /\ Handles(t, "REQUEST") /\ Answer(copy[t], req[t].client) = {}
  /\ pc' = [pc EXCEPT ![t] = "idle"]
  /\ req' = [req EXCEPT ![t] = NoReq]
  /\ UNCHANGED <<file, lock, now, copy, ans, limited, known, crashes>>

\* allocate_one_account raises for root and returns None when it has no account
\* to give; both end the connection and nothing is written.
Refuse(t) ==
  /\ Handles(t, "REQUEST") /\ Answer(copy[t], req[t].client) = {}
  /\ lock' = NoThread
  /\ pc' = [pc EXCEPT ![t] = "idle"]
  /\ req' = [req EXCEPT ![t] = NoReq]
  /\ copy' = [copy EXCEPT ![t] = EmptyDB]
  /\ UNCHANGED <<file, now, ans, limited, known, crashes>>

\* renew_one_account and release_one_account write the file even when the client
\* holds nothing.
Renew(t) ==
  /\ Handles(t, "RENEW")
  /\ Commit(t, RenewOne(copy[t], req[t].client, now))
  /\ UNCHANGED ans

Release(t) ==
  /\ Handles(t, "RELEASE")
  /\ Commit(t, ReleaseOne(copy[t], req[t].client))
  /\ UNCHANGED ans

ShowUsers(t) ==
  /\ Handles(t, "USERS")
  /\ lock' = NoThread
  /\ pc' = [pc EXCEPT ![t] = "reply"]
  /\ copy' = [copy EXCEPT ![t] = EmptyDB]
  /\ UNCHANGED <<file, now, req, ans, limited, known, crashes>>

\* The write ends inside the with statement; the answer is sent outside it.
Write(t) ==
  /\ pc[t] = "write"
  /\ Overwrite(t)
  /\ lock' = NoThread
  /\ pc' = [pc EXCEPT ![t] = IF req[t].cmd = "REQUEST" THEN "reply" ELSE "idle"]
  /\ req' = IF req[t].cmd = "REQUEST" THEN req ELSE [req EXCEPT ![t] = NoReq]
  /\ UNCHANGED <<now, ans, limited, known, crashes>>

\* The answer is sent, or conn.send raises: the connection is closed either way.
Reply(t) ==
  /\ pc[t] = "reply"
  /\ pc' = [pc EXCEPT ![t] = "idle"]
  /\ req' = [req EXCEPT ![t] = NoReq]
  /\ ans' = [ans EXCEPT ![t] = NoRow]
  /\ UNCHANGED <<file, lock, now, copy, limited, known, crashes>>

-----------------------------------------------------------------------------
(* Cleanup threads.                                                        *)

Spawn(k) ==
  /\ Up /\ pc[k] = "idle"
  /\ pc' = [pc EXCEPT ![k] = "acquire"]
  /\ UNCHANGED <<file, lock, now, req, copy, ans, limited, known, crashes>>

\* renew_tokens calls the authentication services while it holds the lock: time
\* passes.  The accounts of R get new tokens; lim says whether some account hit
\* the rate limit.  Any other failure is logged and the old token kept.
RenewAccess(k, R, lim) ==
  /\ pc[k] = "loaded"
  /\ \A r \in R : copy[k][r].tok < MaxToken
  /\ lim => R # DOMAIN copy[k]
  /\ copy' = [copy EXCEPT ![k] = RenewTokens(@, R)]
  /\ limited' = [limited EXCEPT ![k] = lim]
  /\ pc' = [pc EXCEPT ![k] = "renewed"]
  /\ UNCHANGED <<file, lock, now, req, ans, known, crashes>>

ExpireUnlessLimited(k) ==
  /\ pc[k] = "renewed"
  /\ Truncate(k, IF limited[k] THEN copy[k] ELSE ReleaseExpired(copy[k], now))
  /\ pc' = [pc EXCEPT ![k] = "write"]
  /\ UNCHANGED <<lock, now, req, ans, limited, known, crashes>>

Expire(k) ==
  /\ pc[k] = "renewed"
  /\ Truncate(k, ReleaseExpired(copy[k], now))
  /\ pc' = [pc EXCEPT ![k] = "write"]
  /\ UNCHANGED <<lock, now, req, ans, limited, known, crashes>>

WriteAndSleepLocked(k) ==
  /\ pc[k] = "write"
  /\ Overwrite(k)
  /\ lock' = IF limited[k] THEN lock ELSE NoThread
  /\ pc' = [pc EXCEPT ![k] = IF limited[k] THEN "sleep" ELSE "idle"]
  /\ limited' = [limited EXCEPT ![k] = FALSE]
  /\ UNCHANGED <<now, req, ans, known, crashes>>

\* After a rate limit the thread sleeps MC_WAIT_DURATION, without the lock, and
\* does the whole cleanup again.
WriteSwept(k) ==
  /\ pc[k] = "write"
  /\ Overwrite(k)
  /\ lock' = NoThread
  /\ pc' = [pc EXCEPT ![k] = IF limited[k] THEN "sleep" ELSE "idle"]
  /\ limited' = [limited EXCEPT ![k] = FALSE]
  /\ UNCHANGED <<now, req, ans, known, crashes>>

WakeUp(k) ==
  /\ pc[k] = "sleep"
  /\ pc' = [pc EXCEPT ![k] = "acquire"]
  /\ UNCHANGED <<file, lock, now, req, copy, ans, limited, known, crashes>>

-----------------------------------------------------------------------------
(* Start-up and crash of the server.                                       *)

\* initialise_accounts: a new database of the accounts S that authenticated.
Start(S) ==
  /\ pc[Main] = "down"
  /\ Truncate(Main, CreateDB(S))
  /\ pc' = [pc EXCEPT ![Main] = "write"]
  /\ known' = S
  /\ UNCHANGED <<lock, now, req, ans, limited, crashes>>

WriteCreated ==
  /\ pc[Main] = "write"
  /\ Overwrite(Main)
  /\ pc' = [pc EXCEPT ![Main] = "running"]
  /\ UNCHANGED <<lock, now, req, ans, limited, known, crashes>>

\* initialise_accounts raised: main logs it and serves from the file as it is.
StartAnyway ==
  /\ pc[Main] = "down"
  /\ pc' = [pc EXCEPT ![Main] = "running"]
  /\ known' = IF file = Torn THEN {} ELSE DOMAIN file
  /\ UNCHANGED <<file, lock, now, req, copy, ans, limited, crashes>>

Crash ==
  /\ pc[Main] # "down" /\ crashes < MaxCrashes
  /\ crashes' = crashes + 1
  /\ lock' = NoThread
  /\ pc' = [p \in Procs |-> IF p = Main THEN "down" ELSE IF p = Cli THEN pc[Cli] ELSE "idle"]
  /\ req' = [t \in Conns |-> NoReq]
  /\ copy' = [p \in Procs |-> IF p = Cli THEN copy[Cli] ELSE EmptyDB]
  /\ ans' = [t \in Conns |-> NoRow]
  /\ limited' = [k \in Cleaners |-> FALSE]
  /\ file' \in Remains(Procs \ {Cli})
  /\ UNCHANGED <<now, known>>

-----------------------------------------------------------------------------
(* nydus-cli: one command per run of the process.                          *)

\* A command that nothing overlaps.
CliAlone(op) ==
  /\ ~FileTears /\ lock = NoThread /\ pc[Main] # "write" /\ file # Torn
  /\ file' = CliApply(file, op, now)
  /\ UNCHANGED <<lock, now, pc, req, copy, ans, limited, known, crashes>>

\* The same command step by step, at any moment: it holds no lock.
CliLoad ==
  /\ FileTears /\ pc[Cli] = "idle" /\ file # Torn
  /\ copy' = [copy EXCEPT ![Cli] = file]
  /\ pc' = [pc EXCEPT ![Cli] = "loaded"]
  /\ UNCHANGED <<file, lock, now, req, ans, limited, known, crashes>>

CliCommit(op) ==
  /\ pc[Cli] = "loaded"
  /\ Truncate(Cli, CliApply(copy[Cli], op, now))
  /\ pc' = [pc EXCEPT ![Cli] = "write"]
  /\ UNCHANGED <<lock, now, req, ans, limited, known, crashes>>

CliWrite ==
  /\ pc[Cli] = "write"
  /\ Overwrite(Cli)
  /\ pc' = [pc EXCEPT ![Cli] = "idle"]
  /\ UNCHANGED <<lock, now, req, ans, limited, known, crashes>>

\* The process is killed before it has written.
CliKilled ==
  /\ pc[Cli] \in {"loaded", "write"}
  /\ copy' = [copy EXCEPT ![Cli] = EmptyDB]
  /\ pc' = [pc EXCEPT ![Cli] = "idle"]
  /\ file' \in Remains({Cli})
  /\ UNCHANGED <<lock, now, req, ans, limited, known, crashes>>

-----------------------------------------------------------------------------
Tick ==
  /\ now < MaxTime
  /\ now' = now + 1
  /\ UNCHANGED <<file, lock, pc, req, copy, ans, limited, known, crashes>>

ConnStep(t) ==
  \/ Accept(t) \/ (\E m \in Messages : Receive(t, m)) \/ Discard(t)
  \/ Load(t) \/ LoadFails(t)
  \/ Request(t) \/ Refuse(t) \/ Renew(t) \/ Release(t) \/ ShowUsers(t)
  \/ Write(t) \/ Reply(t)

CleanerStep(k) ==
  \/ Spawn(k) \/ Load(k) \/ LoadFails(k)
  \/ \E R \in SUBSET DOMAIN copy[k], lim \in BOOLEAN : RenewAccess(k, R, lim)
  \/ Expire(k) \/ WriteSwept(k) \/ WakeUp(k)

MainStep ==
  \/ \E S \in SUBSET Rows : Start(S)
  \/ WriteCreated \/ StartAnyway \/ Crash

CliStep ==
  \/ \E op \in AdminOps : CliAlone(op) \/ CliCommit(op)
  \/ CliLoad \/ CliWrite \/ CliKilled

Next ==
  \/ \E t \in Conns : ConnStep(t)
  \/ \E k \in Cleaners : CleanerStep(k)
  \/ MainStep \/ CliStep \/ Tick

Spec == Init /\ [][Next]_vars

\* A thread that has work goes on with it: the calls to the token services return,
\* the main loop keeps starting cleanup threads, and a thread that waits for
\* ALLOCDB_LOCK gets it if the lock is free again and again.  Nothing is assumed
\* of clients, of the administrator, or of an end to the rate limit.
Serve(t) == Request(t) \/ Refuse(t) \/ Renew(t) \/ Release(t) \/ ShowUsers(t)
            \/ Write(t) \/ Reply(t)
Sweep(k) == (\E R \in SUBSET DOMAIN copy[k], lim \in BOOLEAN : RenewAccess(k, R, lim))
            \/ Expire(k) \/ WriteSwept(k) \/ WakeUp(k)
Boot     == (\E S \in SUBSET Rows : Start(S)) \/ WriteCreated \/ StartAnyway

Fairness ==
  /\ \A t \in Threads : SF_vars(Load(t) \/ LoadFails(t))
  /\ \A t \in Conns : WF_vars(Serve(t))
  /\ \A k \in Cleaners : WF_vars(Sweep(k))
  /\ WF_vars(\E k \in Cleaners : Spawn(k))
  /\ WF_vars(Boot)

FairSpec == Spec /\ Fairness

-----------------------------------------------------------------------------
(* What the server promises.                                               *)

\* The database as the next process to load it undisturbed will find it.
Pool == IF Writing = {} THEN file ELSE copy[CHOOSE p \in Writing : TRUE]

\* While no command of nydus-cli overlaps it, the server implements AccountPool.
AP == INSTANCE AccountPool WITH pool <- Pool
ImplementsPool == AP!Spec

\* Exactly the thread that is between its load and the end of its write holds
\* ALLOCDB_LOCK: no path leaves it held, and a cleanup thread that waits out a
\* rate limit sleeps without it (alloc_utils.cleanup, nydus-server's handlers).
LockOwned ==
  \A t \in Threads : lock = t <=> pc[t] \in {"loaded", "renewed", "write"}

\* A thread changes the file as it is: what it is about to write back differs from
\* the file only by what the thread itself did, although cleanup's copy is as old
\* as its calls to the token services are long (cleanup_helper).
NoLostUpdate ==
  \A t \in Threads : pc[t] \in {"loaded", "renewed"} =>
    /\ DOMAIN copy[t] = DOMAIN file
    /\ \A r \in DOMAIN file :
         /\ [copy[t][r] EXCEPT !.tok = file[r].tok] = file[r]
         /\ copy[t][r].tok >= file[r].tok

\* Whenever no thread has the lock the file lists every account it had when the
\* server came up: the moments in which write_changes has emptied it are not seen.
RowsKept == Up /\ lock = NoThread => DOMAIN file = known

\* No client has two accounts (get_oldest_allocation's intention), neither in the
\* file nor in what any process is about to make of it, as long as the administrator
\* allocates none by hand.
OneAccountEach ==
  /\ file = Torn \/ AtMostOneEach(file)
  /\ \A p \in Procs : AtMostOneEach(copy[p])

\* The server's own steps, as opposed to the administrator's and to a restart.
ServerStep == Up /\ Up' /\ pc' # pc

\* An account that was renewed within the timeout stays with its client until that
\* client releases it: neither another client's request nor a cleanup that started
\* before the renewal takes it away (release_expired, write_changes).
LiveAllocationKept ==
  [][ServerStep => \A r \in DOMAIN Pool :
       IsAllocated(Pool[r]) /\ Pool'[r].holder # Pool[r].holder =>
         \/ AllocExpired(Pool[r], now)
         \/ \E t \in Conns : Handles(t, "RELEASE") /\ req[t].client = Pool[r].holder
    ]_vars

\* The server changes nothing but the tokens of an account the administrator has
\* locked (AllocAccount.is_locked), while no command overlaps its own work.
LockedRowFrozen ==
  [][ServerStep => \A r \in DOMAIN Pool :
       Pool[r].locked => Pool'[r] = [Pool[r] EXCEPT !.tok = Pool'[r].tok]]_vars

\* "Locking can only be set and unset by directly using nydus-cli": no thread of the
\* server writes back an account as unlocked that is locked in the file.
LockNeverUndone ==
  [][\A t \in Threads : pc[t] # "write" /\ pc'[t] = "write" /\ file # Torn =>
       \A r \in DOMAIN file \cap DOMAIN copy'[t] :
         file[r].locked => copy'[t][r].locked]_vars

\* A token that cleanup has obtained is never replaced by the older one that some
\* other thread had loaded before (renew_tokens, write_changes).
TokensKept ==
  [][Up /\ Up' => \A r \in DOMAIN Pool : Pool'[r].tok >= Pool[r].tok]_vars

\* When the lock is given up and the answer is on its way, the file says that the
\* account named in it belongs to the client that asked (allocate_account).
AnswerRecorded ==
  [][\A t \in Conns : pc[t] = "write" /\ pc'[t] = "reply" =>
       ans[t] \in DOMAIN file' /\ file'[ans[t]].holder = req[t].client]_vars

\* What the thread of a message does and answers is what the operation says of the
\* accounts as they are at that moment, not as they were when the thread read them.
Served(t) ==
  LET c == req[t].client
  IN  \/ /\ req[t].cmd = "REQUEST" /\ Answer(Pool, c) = {}
         /\ Pool' = Pool /\ pc'[t] = "idle"
      \/ /\ req[t].cmd = "REQUEST" /\ ans'[t] \in Answer(Pool, c)
         /\ Pool' = AllocateOne(Pool, c, ans'[t], now)
      \/ req[t].cmd = "RENEW" /\ Pool' = RenewOne(Pool, c, now)
      \/ req[t].cmd = "RELEASE" /\ Pool' = ReleaseOne(Pool, c)
      \/ req[t].cmd = "USERS" /\ Pool' = Pool

Swept == \E R \in SUBSET DOMAIN Pool : Pool' = ReleaseExpired(RenewTokens(Pool, R), now)

\* Each operation of AllocEngine is one indivisible step on the accounts, and happens
\* once for each message and each round of a cleanup: no other step of the server
\* changes them (the with ALLOCDB_LOCK of alloc_utils and nydus-server).
OperationsAtomic ==
  [][Up' => /\ \A t \in Conns : pc[t] = "loaded" /\ pc'[t] # "loaded" => Served(t)
            /\ \A k \in Cleaners : pc[k] = "renewed" /\ pc'[k] # "renewed" => Swept
            /\ ServerStep /\ Pool' # Pool =>
                 \E t \in Threads : pc[t] \in {"loaded", "renewed"} /\ pc'[t] = "write"
    ]_vars

\* Every message that was received is dealt with and its connection closed
\* (handle_connection), whatever the file looks like and the other threads do.
EveryRequestEnds ==
  \A t \in Conns : pc[t] = "acquire" ~> pc[t] = "idle"

\* An allocation that ran out is taken back, renewed after all, or locked, even if
\* the rate limit of the token service never ends (cleanup).
ExpiredReclaimed ==
  \A r \in Rows : (r \in DOMAIN Pool /\ AllocExpired(Pool[r], now))
                    ~> ~(r \in DOMAIN Pool /\ AllocExpired(Pool[r], now))
==============================================================================
