# Nydus Launcher: specifications and proofs

The Nydus Launcher shares a pool of Minecraft accounts among the users of a site.
`nydus-server` authenticates the accounts, keeps them in an *allocation file*, gives one to each
client that asks, and takes it back when the client is done or stops renewing. `nydus-client`
asks for an account, installs and starts the game, renews while it runs and releases at the end.
`nydus-cli` lets the administrator look at and change the allocation file; `nydus-users` prints
who plays. This directory holds TLA+ models of that program, TLC configurations that check them,
and proofs for TLAPS. Line numbers below refer to files under `nydus-launcher/`; `PY` stands for
`usr/lib/python3/dist-packages/nydus`.

## 1. The system

| Component | Code | State | Operations | Talks to |
|---|---|---|---|---|
| Allocation database | `PY/server/allocater.py` | list of accounts: holder (IP, user), allocation and renewal times, lock flag, tokens | allocate, renew, release, expire, lock, unlock, create | the file |
| Server threads | `usr/bin/nydus-server`, `PY/server/alloc_utils.py` | `ALLOCDB_LOCK`, one `AllocEngine` per operation, one thread per connection and per cleanup | REQUEST, RENEW, RELEASE, USERS; cleanup every 30 minutes; start-up | file, sockets, token services |
| nydus-cli | `usr/bin/nydus-cli` | its own `AllocEngine` | alloc, renew-uuid, release-uuid, lock-uuid, unlock-uuid and printing commands | the file, *without* the lock |
| Token services | `PY/server/netauth.py`, `AccessToken.py`, `AccountAuthTokens.py` | four tokens with expiry times per account | authenticate, renew, rate limit, interactive start in a subprocess | Microsoft, Xbox and Minecraft services |
| nydus-client | `usr/bin/nydus-client` | its account, the game thread | request, play, renew, release | server, installer, dialogs |
| Single instance | `PY/client/noduplication.py` | pidfile in `/tmp` | set up, delete | other clients of the same user |
| Dialogs | `PY/client/dialogs.py` | the sequence of windows, the Gtk main loop | show next, end Gtk | client thread, Gtk thread |
| Installer | `PY/client/DownloadFile.py`, `JavaRuntime.py` | files on disk with hashes | verify, download, chmod | mojang's servers |
| Version files | `PY/client/JSONVersion.py`, `MCLauncher.py`, `varstrings.py`, `utils.py` | one record per version file | rules, inheritance, substitution, launch command | installer |
| Configuration | `PY/common/*.py`, `PY/*/…Config.py` | none after start-up | validate, parse | all |

What is hard in it:

* **One file, many writers.** Each operation loads the whole file, changes a copy, empties the
  file and writes the copy (`write_changes`, allocater.py:880-886). Threads of the server are kept
  apart by `ALLOCDB_LOCK`; `nydus-cli` is a separate process and takes no lock.
* **Cleanup's copy is old.** `cleanup_helper` (alloc_utils.py:135-142) calls network services for
  every account between reading the file and writing it back, may be told to wait and then
  repeats everything, and is started again every period although the last one may still run.
* **Crashes.** The file is empty between truncation and write, and has only its beginning when a process dies within a
  write. A restart normally forgets all
  allocations (`create_db`), but when `initialise_accounts` raises, main logs it and serves whatever
  the file holds (nydus-server:263-271).
* **Ordering.** The answer to REQUEST is sent after the lock was released; messages of one user
  travel on separate connections, served by separate threads.
* **Time.** Allocations expire by a timeout of the server, renewals come by a period configured at
  the client; tokens expire by their own clocks.

What makes each component correct:

* database: only free, unlocked accounts are given out; a client never has two; a locked
  account is left as it is; only allocations that ran out are taken back.
* server: no update is lost, no account vanishes, the lock is always given back, every message
  is dealt with, an expired allocation is reclaimed, an answer agrees with the file.
* nydus-cli: what the administrator sets stays set.
* tokens: a token in use is renewed before it expires, one failure does not stop the others.
* client: while a game runs its user holds the account; at the end it is released, once.
* single instance: at most one client of a user runs; a dead one blocks nobody.
* installer: what is used has the right hash, and an interrupted installation is completed later.
* dialogs: one message at a time, none after an error, an error is seen, the process ends.
* version files: inheritance reaches every ancestor; rules allow exactly what their definition says.

The hazards, each at its line and with the property that covers it or the reason none does,
are listed in `PROJECT.json`. Those without a property are mostly what the code really does wrong: the models do the same,
so that a property against it would be false; section 3 lists them.

## 2. The modules

| Module | What it is |
|---|---|
| `AllocDB` | the database as values and operators: entries, allocate, renew, release, expire, create, the commands of nydus-cli. No state. |
| `AccountPool` | abstract specification: what the server promises about its accounts, as indivisible steps on a pool and a clock |
| `NydusServer` | the server's threads, lock and file, its crashes, and nydus-cli as a process of its own; defines the properties |
| `MCNydusServer` | values for the constants, for TLC |
| `NydusClient` | the clients of several users, the messages on their way, and the pool behind them; defines its properties |
| `MCNydusClient` | values for its constants |
| `Noduplication` | the pidfile of the clients of one user; defines its properties |
| `MCNoduplication` | values for its constants |
| `AccountTokens` | the four tokens of each account: sign-in in a subprocess, authentication, renewal in every cleanup, and time |
| `MCAccountTokens` | values for its constants |
| `VersionFile` | version files as values and operators: rules, inheritance, variables, the launch command. No state. |
| `Installer` | the files on the disk and the jobs of an installation, with kills and broken downloads |
| `GameStart` | the client from the server's answer to the running game: reads version files, installs, starts, tries again |
| `MCGameStart` | sixteen sets of version files, three runtimes and their manifests |
| `Dialogs` | the windows of a starting client, its three threads and the game |
| `MCDialogs` | its entry for TLC |
| `AllocDBProofs` | what the operations of `AllocDB` do to one entry; at most one account each |
| `NydusServerProofs` | type correctness, ownership of the lock, one account per client; while nydus-cli does not overlap the server: no lost update and no lost account, `NydusServer` implements `AccountPool`, each operation is indivisible, what no step does to an account, and what an answer promises |
| `NydusClientProofs` | a client holds what it plays on, and leaves nothing behind |
| `NoduplicationProofs` | at most one client of a user runs, and it deletes its own pidfile |
| `SequenceInduction` | induction over data, without an operator as a parameter: what `FlattenSeq` computes, what choosing elements of a sequence keeps |
| `GameStartProofs` | what was installed is intact, and stays so; inheritance, rules and the launch command, for any files and version files |
| `AccountTokensProofs` | types, no needed token runs out, and the sign-in's cache arrives whole |
| `DialogsProofs` | one message at a time, none after an error, and an early error stays, for any number of messages |

`VersionFile` and `Installer` are EXTENDed by `GameStart`; `NydusServer` and `NydusClient` EXTEND `AllocDB`.
`NydusServer` is shown to implement `AccountPool`, and
`NydusClient` applies the operations of `AllocDB` to its pool one at a time, as `OperationsAtomic` says the server does.

### State and actions of `NydusServer`

| TLA+ | Code |
|---|---|
| `file` | the allocation file: a database, or `Torn`, a text `load_alloc_db` refuses |
| `lock` | `ALLOCDB_LOCK` and its owner |
| `pc[t]` | where a thread is: `recv` reading the message, `acquire` at `with ALLOCDB_LOCK`, `loaded` after `AllocEngine(path)`, `renewed` after `renew_tokens`, `write` between truncation and write, `reply` sending, `sleep` waiting out the rate limit |
| `copy[p]` | the `AllocEngine.accounts` of a process |
| `Load`, `LoadFails` | `with ALLOCDB_LOCK: AllocEngine(...)`, which may raise |
| `Request`/`Refuse`, `Renew`, `Release`, `ShowUsers` | the four handlers, up to the truncation of the file |
| `Write`, `WriteSwept`, `WriteCreated`, `CliWrite` | the write itself and what follows it in the same thread up to its next interaction |
| `Spawn`, `RenewAccess`, `Expire`, `WriteSwept`, `WakeUp` | `cleanup`, `cleanup_helper` |
| `Start`, `WriteCreated`, `StartAnyway` | `initialise_accounts`, and main when it raises |
| `Crash`, `CliKilled` | the process is killed at any point; within a write it leaves what `Remains` says |
| `CliAlone` | a command that runs while nothing else accesses the file (`FileTears = FALSE`) |
| `CliLoad`, `CliCommit`, `CliWrite` | the same command, interleaved with everything (`FileTears = TRUE`) |

Abstractions. A client is its IP address and user name together. An account is its position in the accounts file;
two positions may share a uuid, which the `*_uuid` methods allow for. A timestamp is a natural number. Of the four
tokens of an account only the Minecraft token is kept, as the number of times it was renewed; which accounts need
and get one in a round of cleanup is free choice, as is hitting the rate limit. Reading a message is one step:
`Receive` (a whole, valid message) or `Discard` (everything that ends a connection without touching the file).
Writing is one step after the truncation. When two processes have written to a file that was truncated in between,
the longer text sticks out behind the shorter one (`Written`): the result is one of them or `Torn`, and a copy that
is but the header changes nothing. Two texts whose lines happen to have the same lengths could also mix into a
readable third; that is left out. A process that dies within its write leaves some of its first rows, with or
without a piece of a line (`Remains`). Both need `FileTears`, which the constant's comment explains. Without it a
death still leaves the file empty, but never in the middle of a line.

The history variables `known` (the accounts when the server came up) and `crashes` serve a property and a bound.
Operators such as `LoadWithoutLock` or `AnswerAnyFree` are faulty variants used nowhere in the specification; each
shows which property fails when the definition next to it is replaced by it.

### `AccountPool` and the refinement

`NydusServer` implements `AccountPool` with `pool <- Pool`: the file when nobody is
writing, otherwise the copy that is being written. A handler therefore takes effect at the truncation
(`Commit`), the write that follows is a stutter, a crash in between is `Lose`. The abstract
specification says what may happen to an account and to nothing else at the same moment: it is
granted to a client that has none, extended or given back by its holder, swept if and only
if it ran out, administered, or forgotten by a restart. `Lose` and `Restart` are always possible and `Administer` is any command, so
the refinement says nothing against a server that comes up with an empty file, nor against a second account given by `nydus-cli alloc`.

### State and actions of `NydusClient`

The server is reduced to the pool of `AllocDB`, changed by one indivisible step per message: that this is
what its threads amount to is `OperationsAtomic` of `NydusServer`, where a `Pool` in the place of `pool` is changed
by the same operators and at no other time. Of a cleanup only the expiry is kept, not the tokens.

| TLA+ | Code |
|---|---|
| `pool` | the allocation database |
| `stage[c]` | where `client_main` is: `asking` in `request`, `loading` in `start_game`, `playing` in the renewal loop, `ending` after the join; `off` and `failed` are a client that returned or raised |
| `play[c]` | the account of the answer, the server's epoch when it was given, the time by which installation ends or the next renewal is sent, and how many of its renewals were lost in a row |
| `orphans[c]` | games that run on although their client raised |
| `net[c]` | messages of one user that no thread of the server has handled yet, in the order in which threads will get `ALLOCDB_LOCK` |
| `Start`, `FailAsking` | `request`: sent, then a broken connection or a bad answer |
| `StartGame`, `FailLoading` | `start_game` |
| `Renew`, `FailRenew`, `GameEnds` | the loop of `client_main`: sent, not sent (it raises), the join returns |
| `Release`, `FailRelease` | the last connection of `client_main` |
| `Grant`, `Refuse`, `GrantUnheard`, `HandleRenew`, `HandleRelease` | the handlers; an answer may reach nobody |
| `LoseRenew`, `LoseRelease` | `client_exchange` drops a message that nobody waits to see answered: the connection is gone, the time or the length is exceeded, the name is unknown; a REQUEST that is dropped is `Refuse` |
| `Cleanup`, `Restart` | `cleanup_helper`; a crash followed by `create_db`, which breaks every connection |
| `Overtake` | two connection threads get the lock in the other order |
| `Tick` | the clock, which stops at a deadline until what is due has happened |

Abstractions. `MaxDelay` and `MaxLoad` stand for how late a message is handled (network, waiting for the lock
during a cleanup) and how long the answer and the installation take. The code bounds neither; the theorems
say what follows when something does. `MaxMisses` is how many renewals in a
row may be lost; `TimingFits` asks for periods that make up for them (`Slack`). A lost RELEASE leaves the client `failed`: nothing
but the timeout gives that account back. `MaxWaiting` says how patient a user is: with 1, the client is
started again only when nothing of its last run is left on its way. Cleanup may run at any time. Left out: root
users, locks and nydus-cli (checked in `NydusServer`), the tokens, and the start-up that fails and serves the
old file.

### State and actions of `Noduplication`

| TLA+ | Code |
|---|---|
| `pidfile` | `/tmp/<user>-nydus-client.pid`: absent, a pid, empty, or no number |
| `pc[p]` | what the process with id `p` is at; `free` if there is none, `other` for another program |
| `seen[p]` | `past_pid` |
| `Start`, `Die`, `OtherStarts`, `OtherEnds` | processes come and go, and ids are used again |
| `Look`, `Read`, `ReadRaises`, `Check` | `nydus_client_running`; two consecutive `isfile` are one step, since only their conjunction counts |
| `Open`, `Write`, `WriteUnlinked` | the rest of `setup_pidfile`; a file removed between the two is written in vain |
| `End`, `Examine`, `Remove`, `RemoveRaises` | the end of `client_main`, `delete_pidfile` |

`raced` is a history variable: set by a start during the set-up of another client, reset by a start when no
client is left. A file that two clients wrote over each other may be neither's (`Garbled`). A restart of the
machine is the death of every process; that it may also empty `/tmp` only makes the next start easier.

### State and actions of `AccountTokens`

| TLA+ | Code |
|---|---|
| `stage` | where `main` of nydus-server is: `off`, in `get_msal_cache_from_user` (`interactive`), in the loop of `auth_all` (`auth`, and `minecraft` or `details` while one of Minecraft's services is asked), `serving` |
| `sub`, `signed`, `sending` | the `multiprocessing.Process` of `msal_interactive`, the accounts in its own MSAL cache, the chunks it has still to `put` |
| `queue`, `heard` | the `multiprocessing.Queue` and `new_cache` |
| `cache` | the server's MSAL cache |
| `file`, `copy` | the tokens in the allocation file and in the cleanup's `AllocEngine` (during start-up, in the list `auth_all` builds) |
| `limited`, `sleeping`, `next` | the rate limit a round met; the cleanup threads that wait; the main loop's next turn |
| `since`, `troubled` | history: when an account was last gone over without a failure, and whether this round failed for it |
| `Start`, `SignIn`, `SerializeCache`, `Put`, `SubprocessDies` | the subprocess |
| `GetChunk`, `Deserialize` | the loop over `queue.get`, `p.join`, `deserialize` |
| `AuthXbox`, `GetTokMinecraft`, `GetMinecraftDetails`, `AuthFails` | `auth_stream` for one account of `auth_all`, which gives up on an account when anything raises |
| `RateLimited` | one wait of `get_tok_minecraft` or `get_minecraft_details` with `block_wait=True`: all tokens grow older, and nothing bounds how often |
| `CreateDB`, `StartAnyway` | `create_db`, and main when `initialise_accounts` raises |
| `StartCleanup`, `RenewAccount`, `NoRow`, `EndCleanup`, `Spawn` | `cleanup_helper`, `renew_tokens` account by account, the main loop |
| `RenewChain`, `RenewLink`, `NeedsRenewal` | the four `renew_*`, the windows of `AccessToken`, the token of one service as proof for the next |
| `Tick` | time |

Abstractions. A time is what is left until then, so the clock needs no bound; expired tokens all look alike after a
while (`Floor`). A cleanup takes no time against the period, only its wait for a rate limit does; of start-up, only
the waits for 429 of Minecraft's services do. Allocations and the lock are `NydusServer`'s; a crash is a new
behaviour, with what the last server left (`OldFiles`). The serialised cache has `Entry` characters for each
account, because the chunks are cut by length; the k-th character of an account is `<<account, k>>`, and what is not
an account's (`SEND_DONE`, brackets) is `None`'s. Reading it back accepts exactly the text of some set of accounts.
`MayFail` is the environment: the services fail for an account in any way and any order, but at most `Misses`
cleanups in a row. `Zone` is how far the server's clock is ahead of UTC: Xbox writes its expiry in UTC and the code
reads it as local time.

### State and actions of `Installer` and `GameStart`

| TLA+ | Code |
|---|---|
| `disk`, `execs`, `links`, `dirs` | files (absent, intact, or not what the hash says), the mark of an executable, links, directories |
| `jobs`, `pos`, `step` | the files that `download_all` goes through, and where it is in one of them |
| `Have`, `Fetch`, `Arrive`, `Mark` | `DownloadFile.download` (verify, make the directory, empty the file, write, `chmod`, verify) and what follows in `JavaRuntimeFile.install` |
| `NoAnswer`, `ArriveBroken`, `Kill` | `requests.get` raises; half a file or an error page; the process is killed |
| `Link`, `LinkRaises`, `Present`, `Refuse` | `install` of a link; `get_java` and directories that must be there; what cannot be downloaded or made |
| `ReadRaises` | `read_runtime_manifest` of a manifest that was downloaded and is of no use; it stays on the disk |
| `stage`, `list`, `current`, `target` | `MCLauncher` and `load_versions` |
| `Start`, `LoadVersion`, `Inherit` | `MCLauncher.__init__`, one turn of `load_versions`, the inheritance and the beginning of `download_all` |
| `Launch`, `LaunchRaises`, `GameEnds` | `make_launch_command` and the game thread |
| `Install`, `InstallFails`, `Killed` | steps of `Installer` within an installation |
| `DownloadAll` | the jobs of `download_all` in their order: `FileBelow` for the asset index and the log config, which need a directory that nothing makes (`MustBe`), `RuntimeOf`, `JarJobs` |

Abstractions. A version file is a record with a value or `None` for every key; an argument is a text and at most one
variable behind it. What a wrong type, hash or address in it does is `Malformed`: the reader raises. `list` is kept
up to `MaxVersions`; reading goes on. The objects behind the asset index are left out: the client downloads the
index only, the game the rest. `GameStartAssumption` says what the version files and manifests may be: nothing, a
file that is refused, or one whose every entry has the type that the readers and `sanity_check` ask for.

`RulesObeyed` is a statement of provenance: each argument and each job is traced back to an element of some version file
whose rules do not keep it for others. `CommandCarriesAccount` speaks of arguments in pairs (`InPairs`): the
flags `--username`, `--uuid` and `--accessToken` stand in front of their variables. Elsewhere nothing can be
promised, since the code removes a variable that it ignores together with whatever stands in front of it.

### State and actions of `Dialogs`

| TLA+ | Code |
|---|---|
| `level` | `Gtk.main_level()` |
| `win`, `err` | each message and the error window: `hidden`, `shown`, `closing` (`close()` was called, the main loop has not run yet), `gone` |
| `idx`, `locked` | `dialog_idx`, `DIAG_LOCK` |
| `main`, `timed` | the thread of `client_main` and that of `show_timed_dialogs` |
| `Ask`, `StartGame`, `Launch` | `show_next_dialog` at each stage |
| `Joined`, `EndGtk`, `Quit`, `Released` | the end of `client_main`: `main_level() > 0`, `end_gtk` |
| `Fail`, `StopMessages`, `ShowError` | `show_error_dialog`, called with whatever `client_main` raised |
| `Enter`, `MinecraftVisible`, `ShowTimed`, `WakeUp` | the loop of `show_timed_dialogs`, from taking the lock to the pause |
| `Destroy`, `Dismiss`, `GtkMain` | what only the thread in `Gtk.main` does |

Gtk and Wnck are external and modelled from their use: a call from another thread than the main loop's changes what
that loop will do next, a destroyed window does not come back, `main_iteration_do` does nothing while another thread
owns the main loop. The other thread is assumed to be in `Gtk.main` before the server has answered. `Launch` has no
case for the `ValueError` of `show_next_dialog` (dialogs.py:158-159): `start_game` passes it what
`get_version_numbers` returned, three numbers that `is_valid_minecraft_version` accepts, and where
`get_version_numbers` itself raises (client/utils.py:276-291) no message has been closed yet, which is `Fail`.

## 3. The runs

| Run | Instance | Shows |
|---|---|---|
| `server_threads` | 2 accounts, 2 clients, 2 connection threads, 1 cleanup thread, 1 crash | `TypeOK`, `LockOwned`, `NoLostUpdate`, `RowsKept`, `OperationsAtomic`, `OneAccountEach`, `LiveAllocationKept`, `TokensKept`, `AnswerRecorded`, `ImplementsPool` |
| `server_admin` | 2 accounts with one uuid, 2 clients, 1 connection thread, 2 cleanup threads, every command of nydus-cli | `LockedRowFrozen`, `ImplementsPool` |
| `server_live` | 1 account, 2 clients of which one is root, 1 connection thread, 2 cleanup threads, lock and unlock, 1 crash, fairness | `EveryRequestEnds`, `ExpiredReclaimed` |
| `cli_racing` | 2 accounts, 1 client, 1 connection thread, 1 cleanup thread, all commands but alloc, interleaved, 1 crash, files that are torn; fairness | `LockOwned`, `OneAccountEach`, `EveryRequestEnds` |
| `cli_lock_lost` | 1 account, 2 clients, 1 connection thread, 1 cleanup thread, lock-uuid interleaved | `LockNeverUndone` is violated |
| `client_holds` | 2 users, 1 account, timeout 4, period 1, delay 1, installation 1, 1 lost renewal in a row, 1 restart, `MaxWaiting = 1` | `TypeOK`, `PlaysWhatItHolds`, `ReleasedAtEnd` |
| `client_overtaken` | as above, timeout 2, no lost renewal and no restart, `MaxWaiting = 2` | `PlaysWhatItHolds` is violated |
| `one_client` | 4 process ids | `TypeOK`, `OneAtATime`, `DeletesItsOwn` |
| `two_clients` | 4 process ids | `OneClient` is violated |
| `game_start` | 16 sets of version files, 5 files, 2 links, 3 runtimes and one that is missing, 2 accounts, 2 faults; fairness | `TypeOK`, `InheritanceComplete`, `RulesObeyed`, `CommandCarriesAccount`, `InstalledIntact`, `IntactIsKept`, `LoadEnds`, `Completed` |
| `tokens` | 2 accounts, periods, lives and outages in units of 15 minutes; fairness | `TypeOK`, `CacheArrives`, `FreshTokens`, `StartsUp` |
| `windows` | 7 messages; fairness | `TypeOK`, `OneMessage`, `StartErrorStays`, `NoMessageAfterError`, `ProcessEnds` |

Bounds. `MaxTime = 2` with `AllocTimeout = 1` lets an allocation live, be renewed at the limit, and run out (1 in
`cli_racing`, whose properties do not depend on expiry); `MaxToken = 1` lets each token be renewed once, so an old
token can meet a newer one; one crash lets a restart meet every state of the first life. In `cli_racing` a process
may die in the middle of any write, which one crash of the server and any number of kills of nydus-cli give. Two
accounts and two clients are what "another account" and "another client" need; a lost update needs two threads and
the lock makes a third no different. Threads of a kind and clients are interchangeable, which `SYMMETRY` uses in the
larger runs; these check safety only. In `client_holds` the periods fit exactly (two periods and two delays, for the
renewal that may be lost and the one after it, are the timeout), so a cleanup that comes one moment too early, or a
renewal one moment too late, is seen; seven moments hold a whole session, its expiry and the next; one account makes
two users compete for everything. In `game_start` the version files are three that must start (alone, with one and
with two ancestors) and thirteen that each lack or pervert one thing; the disk starts without files and with
neither, one or both of the directories that the game's own launcher leaves, or complete with one damaged file; two
faults hit the same file twice or two files once each, and a third meets no new disk. In `tokens` a period is 2, an
MSAL, XSTS or Minecraft token lives 4 and an Xbox one 7: the least the look-ahead needs, so that one cleanup too few
or a window one period shorter lets a token expire; `Misses = 1` is the buffer AccessToken.py promises, the clock is
one unit east of UTC, and `u1` may lose any single link or all. Its serialised caches have lengths 2, 4 and 6
against chunks of 4: shorter than a chunk, just a chunk (the last is then empty) and longer. `windows` has the two
messages that wait for a stage, four timed ones and the last; the code has 18 timed ones, which differ in their
texts only. `one_client` has no bound but the number of ids: two for a race, one for a third client or another
program, and one to spare.

Fairness (`Fairness` in `NydusServer`). Weak fairness for the steps of a thread that has
work: the calls of the token services return, the main loop keeps starting cleanups, start-up ends.
Strong fairness for `Load`: a thread in `threading.Lock.acquire` is woken when the lock is free
again and again. Python's lock does not promise first come, first served, but the holders here do not
take it in a loop: each is a fresh thread or has slept, so nobody is passed over for ever by the
scheduler's choice alone. Nothing is assumed of clients, of the administrator, or of an end to the
rate limit. `requests.post` is called without a timeout, so "the calls return" is an assumption about
the services and not something this code enforces.

The other runs with liveness assume: in `game_start` that the client goes on and its user tries again (`Progress`),
with finitely many faults; in `tokens` that the two processes go on and users answer when asked to sign in, nothing
about the subprocess staying alive, nor about Minecraft's services ever answering otherwise than with 429; in
`windows` that each thread goes on, the server answers, the game is ended and an error window is dismissed. `tokens`
does not check for deadlock, since a server whose subprocess dies really waits for ever; all others do.

### What disagrees with the documentation

* `cli_lock_lost`: allocater.py:466-468 and nydus-cli.1:123-124 say that only nydus-cli unlocks an
  account. A thread of the server that had loaded the file before writes its copy back and unlocks it. The run shows
  a connection thread that loads the file for a REQUEST, lock-uuid, which loads, empties and writes it, and the connection thread that
  then empties it to write its own copy, in which the account is not locked. A cleanup, whose copy is older, can do the same.
* `client_overtaken`: src/README.md:38-41 says an account is allocated to one client at a time, until that
  client is finished. RELEASE is sent without an answer and handled by a thread of its own. If the user starts
  the next game at once, its REQUEST may get the lock first and is given the account still held; the late
  RELEASE then takes it away, and another user may be given the account of a running game.
* `two_clients`: noduplication.py:2-5 says that a second client of a user shuts down at once. Looking for the
  pidfile and writing it are separate steps, so two clients that are started together both run; the first
  to end releases the account of both, and one of the two raises in `delete_pidfile`.

Others were met while modelling and have no run of their own; the models do what the code does, and the properties state what holds in
spite of them.

* allocater.py:43-45 says that allocating releases the client's other accounts. `allocate_uuid` does not, so `nydus-cli alloc`
  leaves a client with two: `OneAccountEach` is claimed without that command (`NoManualAlloc`).
* nydus-server.conf.5:116-119 and nydus-client.conf.5:74-77 say that a client should have to fail to renew at least twice
  before its account expires. The first renewal that cannot connect raises out of `client_main`; Minecraft runs on
  (`orphans`), nobody renews again and nobody releases.
* The client looks for `~/.minecraft/assets` and `assets/log_configs` and raises without them (client/utils.py:115-135), but makes
  neither: where the game's own launcher has never run, every start fails, the log config's directory only after everything
  else was installed. `Completed` assumes both directories.
* A start-up at which Minecraft's services answer 429 waits, with `block_wait=True`, until they stop
  (netauth.py:273-286, 328-341): for as long the server accepts no connection. `StartsUp` assumes that it ends, and
  tokens of accounts that signed in long before are out of `FreshTokens` until the first cleanup, which starts with
  the server, has gone over them.
* A renewal or release that the server drops is lost silently, since neither is answered. `PlaysWhatItHolds` counts
  lost renewals against the periods (`TimingFits`); after a lost release the account stays allocated until it
  expires.
* After a crash that left the file empty, a server whose `initialise_accounts` raises serves an empty pool for good
  (allocater.py:882, nydus-server:263-271). `RowsKept` speaks of the accounts the server came up with.
* netauth.py:93 says that `parse_xbox_timestamp` returns the same time. It drops the `Z`, so a server west of
  Greenwich takes Xbox tokens for longer-lived than they are; `FreshTokens` needs `Zone >= 0` (`TimingFits`).
* A link of the Java runtime in a directory where no file comes before it raises `FileNotFoundError` at every start
  (JavaRuntime.py:51-53 against 180-182): `LinkRaises`.
* Two or more version files that inherit from each other in a circle are read for ever (MCLauncher.py:57);
  `sanity_check` only refuses one that inherits from itself. `LoadEnds` excludes them (`Circular`).
* A rule counts as matched if one of its keys matches, only the first pair beneath a key is looked at, and a rule that
  disallows, or allows everything, excludes (JSONVersion.py:602-653). `RulesObeyed` claims what survives: nothing that only
  other systems should get is used.
* `is_valid_minecraft_version` accepts names such as `X.Y-pre` (validity.py:182-209) for which `get_version_numbers` raises
  after everything was installed (client/utils.py:276-291): `LaunchRaises`.
* An error that is raised after the game appeared, or after `end_gtk`, shows no window, since Gtk's main loop has
  ended by then (dialogs.py:63-64). `StartErrorStays` speaks of the stages before.

## 4. What is proved

All theorems hold for every value of the constants that satisfies `AllocDBAssumption` and the assumption of the
module in question (`NydusServerAssumption`, `NydusClientAssumption`, `NoduplicationAssumption`,
`InstallerAssumption`, `GameStartAssumption`, `TokenAssumption`, `DialogAssumption`): any number of accounts,
clients and threads, unbounded time, any commands.

| Theorem | Assumes | States |
|---|---|---|
| `TypeCorrect` | | `Spec => []TypeOK` |
| `LockIsOwned` | | `Spec => []LockOwned` |
| `OneAccountForEach` | `NoManualAlloc` | `Spec => []OneAccountEach` |
| `QuietInvariant` | `~FileTears` | `Spec => []Inv` |
| `NothingIsLost` | `~FileTears` | `Spec => []NoLostUpdate` |
| `NoRowDisappears` | `~FileTears` | `Spec => []RowsKept` |
| `ServerImplementsPool` | `~FileTears` | `Spec => ImplementsPool` |
| `LockedIsFrozen` | `~FileTears` | `Spec => LockedRowFrozen` |
| `LiveIsKept` | `~FileTears` | `Spec => LiveAllocationKept` |
| `TokensAreKept` | `~FileTears` | `Spec => TokensKept` |
| `AnswerIsRecorded` | `~FileTears` | `Spec => AnswerRecorded` |
| `OperationsAreAtomic` | `~FileTears` | `Spec => OperationsAtomic` |
| `ClientTypeCorrect` | | `Spec => []TypeOK` (of `NydusClient`) |
| `ClientInvariant` | `MaxWaiting = 1` | `Spec => []Inv` |
| `NothingLeftBehind` | `MaxWaiting = 1` | `Spec => []ReleasedAtEnd` |
| `PidfileTypeCorrect` | | `Spec => []TypeOK` (of `Noduplication`) |
| `OneRunsAtATime` | | `Spec => []OneAtATime` |
| `PidfileIsItsOwn` | | `Spec => []DeletesItsOwn` |
| `InstallationInv`, `InstalledIntactHolds`, `IntactIsKeptHolds` | | `InstallerSpec` keeps its invariant, `InstalledIntact`, `IntactIsKept` |
| `StartInvHolds` | | `Spec => []GInv` (of `GameStart`, the inductive invariant) |
| `GameStartTypeCorrect`, `GameStartsIntact` | | `Spec => []TypeOK`, `[]InstalledIntact`, `IntactIsKept` (of `GameStart`) |
| `InheritanceIsComplete` | | `Spec => []InheritanceComplete` |
| `RulesAreObeyed` | | `Spec => []RulesObeyed` |
| `CommandIsForAccount` | `CommandCarriesAccount` itself assumes `InPairs` | `Spec => []CommandCarriesAccount` |
| `CacheAlwaysArrives` | | `Spec => []CacheArrives` |
| `TokensTypeCorrect` | | `Spec => []TypeOK` (of `AccountTokens`) |
| `TokensStayFresh` | `FreshTokens` itself assumes `TimingFits` | `Spec => []FreshTokens` |
| `WindowsTypeCorrect`, `OneMessageAtATime`, `ErrorStays` | | `Spec => []TypeOK`, `[]OneMessage`, `[]StartErrorStays` (of `Dialogs`) |
| `SilentAfterError` | | `Spec => NoMessageAfterError` |
| `AccountIsHeld` | `MaxWaiting = 1`; `PlaysWhatItHolds` itself assumes `TimingFits` | `Spec => []PlaysWhatItHolds` |

`~FileTears` says that no command of nydus-cli overlaps the server's own access to the file and that no process dies within a write;
it may die before or after one, and leave the file empty.

* `TypeOK` and `LockOwned` are inductive, the latter together with the former. The lock argument
  needs no assumption about nydus-cli: even the path on which the file cannot be read frees it.
* `OneAccountEach` is inductive because it speaks of every copy as well as of the file. A stale
  copy may overwrite a newer file, but it is a copy in which nobody had two accounts, and so are the first rows of one that
  was cut short (`OneEachRemains`); that is why
  the theorem survives racing commands and torn files. It needs `NoManualAlloc`: `nydus-cli alloc` gives a client a second account.
* `NoLostUpdate` and `RowsKept` are not inductive. `Inv` adds where a copy comes from: a `loaded`
  copy *is* the file, a `renewed` copy is the file with new tokens, a copy being written lists the accounts
  of start-up while the file is empty, and the server's threads are idle whenever the server is down. The
  lemma `Alone` (from `LockOwned`) gives the rest: while one thread is at work on the file no other
  process is.

* `ServerImplementsPool` maps every step under `Inv`. Three lemmas say what a step does to `Pool`:
  `PoolTruncated` (the file is emptied: the pool becomes the copy), `PoolWritten` (the copy is written:
  a stutter) and `PoolKept` (nothing is written). Four say what an operation does to a database, one
  entry at a time: `AllocateOneIs`, `RenewOneIs`, `ReleaseOneIs`, `SweepIs`. Then REQUEST is `Grant`
  or `Extend`, RENEW `Extend` or a stutter, RELEASE `GiveBack` or a stutter, a cleanup `Sweep`, a command
  `Administer`, the end of start-up `Restart`, a crash between truncation and write `Lose`.
* `LockedIsFrozen` is about the steps of the running server. A restart that creates the database anew unlocks every
  account, and is outside of it.
* `LockedIsFrozen`, `LiveIsKept` and `TokensAreKept` follow from that map: `ThreadEntry` reduces an
  abstract step to what it may do to one entry. The second also needs *whose* message the thread was
  serving, which is why `ThreadMapped` names it.
* `AnswerIsRecorded` needs `AnswerInv`: the answer was chosen together with the copy, before the file was
  emptied, so the claim must hold of the copy as long as the thread is at `write`.
* `OperationsAreAtomic` says more than the refinement: not that some client was granted some free account, but that
  the message in hand did to `Pool` what `AllocateOne`, `RenewOne` or `ReleaseOne` says of it, with the row that
  will be answered, and that a cleanup, whose copy is as old as its network calls, expired what had run out of the
  *current* accounts (`ExpirePool`). It needs that a loaded copy is the pool (`LoadedIsPool`), that every other step
  keeps it (`ConnKeeps`, `CleanerKeeps`), and that a thread leaves `loaded` by its own step only (`LeavesByItself`).
* `NothingLeftBehind` rests on three invariants. `MailInv` says which messages may be on their way in each stage
  and that none is older than `MaxDelay`; without `MaxWaiting = 1` it is false. `PoolInv` says that nobody
  has two accounts, so that one RELEASE gives back everything. `FreedInv` says that a client that is off
  holds nothing unless its RELEASE is still on its way.
* `AccountIsHeld` adds `LeaseInv`: the account is held, and it was last renewed late enough for the timeout to
  cover the next renewal *when that is handled*, and the ones after it as far as more may be lost (`Slack` of what was missed), or the
  message that renews it is already on its way and young enough. `LeaseLoss` is the step at which a renewal is lost: it uses up
  one of them. `LeaseHolds` then shows that a cleanup never comes too early. Every `epoch` is a lease of its own:
  after a restart the claim is about accounts given since.
* `OneRunsAtATime` and `PidfileIsItsOwn` come from one invariant, `Orderly`, which holds while `raced` is
  false: a client past its set-up is the one the file names, a client that found nobody is alone, and a pid
  that is being looked up is that of whoever is past its set-up. A start after a race with nobody left
  establishes it anew, whatever the file says.

* `InstalledIntactHolds` needs that an index passed by `pos` is in place and stays so: what one job does to the disk undoes
  no earlier job, because a file is emptied only when it is not intact, and only a manifest is deleted. `InstallerInv` is that
  invariant, `InstallationInv` its theorem. They are about every list of jobs. `GameStart`'s actions are `Installer`'s own as far as
  the disk goes, and `DownloadAll` gives it lists of jobs only (`JobsTyped`): the lemma `IsInstallation`, from which the theorems
  follow for `GameStart` (`GameStartsIntact`).
* The theorems about `GameStart` come from one invariant. `StartInv` says where the data comes from: the list was
  read from the version files of this disk, the target is made of the whole list, the jobs and the command are the
  target's. While it loads there is no target yet, and once it has read everything the list is not empty. `StageInv`
  ties the stages to the installer's steps. None of the properties is inductive without it: `RulesObeyed` of the
  jobs needs what the target is, and the target what the list is. The closed forms are lemmas about the operators:
  `InheritedIs` (the recursion of `InheritAll` over the list equals the concatenated lists and the nearest single
  value: the closed form is shown to solve the recursion, from the furthest ancestor down), `ArglistIs`,
  `LibrariesAre` and `IncludedIsForUs` (what passes the rules), `JobsAre` (what `DownloadAll` makes of a target),
  `RemovedIs` and `ReplacedIs` (what is left of the arguments: `NeighboursStay` says that choosing elements parts no
  two that are both chosen, so a flag keeps its value).
* `CacheAlwaysArrives`: `CacheOnItsWay` says that at any time what was heard, what is in the queue and what the subprocess still
  holds are, in this order, the text cut into chunks, and that a subprocess that is done holds nothing. When `SEND_DONE` is read, all
  chunks were heard. That the chunks put together are the text again, for any length and any size of a chunk, and that a text
  belongs to one set of accounts only, are lemmas by induction.
* The induction these need is over data, where the library's theorems take an operator that no prover instantiates.
  `SequenceInduction` states it in first order: a set of numbers that is not empty has a least element (`WFMin` of
  the library on the order of the naturals), so the set of lengths or indices at which a claim fails is empty if
  each failure has an earlier one. Every use names that set. From this come `FlattenSeqCons` (the fold of the
  community modules takes the first sequence and flattens the rest), what it contains, and the facts about chosen
  elements.
* `TokensStayFresh`: `IInv` says what is left of every needed token in terms of when its account was last gone over,
  `GoodFor(file[u], 2 * Period - since[u])`, in the file, in the running cleanup's copy, and (without `since`) for
  the accounts that cleanup has done undisturbed. `InTime` bounds `since` by the grace of `Misses + 1` periods.
  `ChainKeeps` shows that a renewal in which anything may fail leaves what was good for `n` good for `n` (as long as
  `n` is within the look-ahead of two periods), `ChainRenews` that one in which nothing fails leaves all good for
  two periods: each link finds the token before it fresh. With `Misses = 1` the margin is exactly zero, which is why
  the theorem needs passes that take no time. Start-up may take any time (`RateLimited`): `FreshStart` says what an
  account that has signed in has got so far and for how long it is good; the first cleanup, which is due at once,
  renews what has become old by then.
* The theorems of `DialogsProofs` come from one `IInv`: only the message that `dialog_idx` stands for is shown, and
  none while the timed thread looks for the game's window (`ShownOK`, which is what `DIAG_LOCK` is for);
  `dialog_idx` is past the end once the error path has run (`ErrorOK`), so that the timed thread gives up the next
  time it takes the lock; before the game starts nobody can end Gtk (`StageOK`). They cover the 21 messages of the
  code, where the run has 7.

Only model-checked: the liveness properties `EveryRequestEnds`, `ExpiredReclaimed`, `LoadEnds`, `Completed`,
`StartsUp` and `ProcessEnds` (liveness under fairness is beyond the prover), and the three runs whose properties are
violated. Every invariant and every action property of a passing run is a theorem.

## 5. Not modelled, and why

* Errors of the file system other than a crash (a full disk, lost permissions): nothing in the code
  handles them, and their effect on the file is that of a death between truncation and write, or within the write (`Remains`).
* The text of the file, of messages and of views; configuration; logs.
* The time a connection takes: accept and handshake in the listener's thread, `SRV_TIMEOUT`, the pieces of a message. In
  `NydusServer` all of that is `Receive` or `Discard`; a client that stays silent keeps its thread, which
  the hazards list.
* The objects of the asset index, which the client does not download, the merging of json texts, and the checks of
  types and formats of the services' answers and of version files, beyond that a refused one raises.
* `nydus-users` beyond its message, the log, packaging and tests: nothing in them changes state.

## 6. Plan

Done: everything in sections 2 to 4. What is left, in the order of its worth:

1. `ClientExchange`: the listener's accept and handshake, receive, timeout and limit of one connection, and the thread
   that waits for ever; then "a released account can be used again" under fairness in `NydusClient`.
2. In `AccountTokens`: cleanups that take time, and two that overlap (in `NydusServer` they do).
3. Proofs: the safety half of `LoadEnds`, that version files without a circle are never read twice; the theorems of
   `AccountTokens` for cleanups that take time, once 2. is done.
