----------------------------- MODULE NydusClient -----------------------------
(***************************************************************************)
(* The users' side: nydus-client asks for an account, installs and starts  *)
(* the game, renews its allocation while the game runs and releases it at  *)
(* the end.  The server is the pool of AllocDB, each of its operations one *)
(* indivisible step: NydusServer is shown to be that (OperationsAtomic).   *)
(* In between are messages that wait: each travels on a connection of its  *)
(* own, and a thread of its own takes it to ALLOCDB_LOCK.                  *)
(***************************************************************************)
EXTENDS AllocDB, Sequences

CONSTANTS
  NoRow,
  RenewalPeriod,  \* cfg.get_renewal_period()
  MaxDelay,       \* how long a message may take until it is handled
  MaxLoad,        \* how long the answer and the installation may take
  MaxMisses,      \* how many RENEWs in a row the server may drop
  MaxWaiting,     \* a user may start the client again while fewer messages than this
                  \* of earlier runs wait: 1 for a user who waits for all of them
  MaxTime, MaxRestarts   \* bounds, for model checking

ASSUME NydusClientAssumption ==
  /\ NoRow \notin Rows
  /\ RenewalPeriod \in Nat \ {0}
  /\ MaxDelay \in Nat /\ MaxLoad \in Nat /\ MaxMisses \in Nat
  /\ MaxWaiting \in Nat \ {0}
  /\ MaxTime \in Nat /\ MaxRestarts \in Nat

\* What the manual asks of the two periods, made exact: a renewal sent one period
\* after the last arrives before the timeout, and so does the first, although some
\* are lost before.
Slack(missed) == (MaxMisses - missed) * (RenewalPeriod + MaxDelay)
TimingFits == /\ RenewalPeriod + Slack(0) + MaxDelay <= AllocTimeout
              /\ MaxLoad + Slack(0) + MaxDelay <= AllocTimeout

VARIABLES
  pool,    \* the allocation database
  now,     \* the time
  epoch,   \* how often the server was restarted
  stage,   \* where each client is
  play,    \* the account a client was given, the epoch in which it was, when its
           \* installation ends or it renews next, and how many RENEWs were lost
           \* since the last that was not
  orphans, \* the accounts of games that run on though their client has failed
  net      \* each client's messages on their way

vars == <<pool, now, epoch, stage, play, orphans, net>>

\* "off": not running, and the last run ended as it should; "failed": client_main
\* has raised, the error window shows and the pidfile is gone, or the RELEASE it sent
\* was lost.
Stages == {"off", "asking", "loading", "playing", "ending", "failed"}

Plays == [row : Rows, epoch : Nat, due : Nat, missed : 0..MaxMisses]
NoPlay == [row |-> NoRow, epoch |-> 0, due |-> 0, missed |-> 0]

\* An "unheard" message is a REQUEST whose client no longer listens.
Messages == [cmd : {"REQUEST", "unheard", "RENEW", "RELEASE"}, sent : Nat]

TypeOK ==
  /\ IsDB(pool) /\ now \in Nat /\ epoch \in Nat
  /\ stage \in [Clients -> Stages]
  /\ play \in [Clients -> Plays \cup {NoPlay}]
  /\ \A c \in Clients : play[c] \in Plays <=> stage[c] \in {"loading", "playing", "ending"}
  /\ orphans \in [Clients -> SUBSET Rows]
  /\ net \in [Clients -> Seq(Messages)]

Init ==
  /\ pool = CreateDB(Rows) /\ now = 0 /\ epoch = 0
  /\ stage = [c \in Clients |-> "off"]
  /\ play = [c \in Clients |-> NoPlay]
  /\ orphans = [c \in Clients |-> {}]
  /\ net = [c \in Clients |-> <<>>]

-----------------------------------------------------------------------------
(* nydus-client.                                                           *)

Send(c, cmd) == net' = [net EXCEPT ![c] = Append(@, [cmd |-> cmd, sent |-> now])]

FailKeepingAccount(c) ==
  /\ stage' = [stage EXCEPT ![c] = "failed"]
  /\ UNCHANGED play

\* client_main raises: whatever the client held, nobody releases it.
Fail(c) ==
  /\ stage' = [stage EXCEPT ![c] = "failed"]
  /\ play' = [play EXCEPT ![c] = NoPlay]

\* A user starts the program; the pidfile keeps it from being started twice.
Start(c) ==
  /\ stage[c] \in {"off", "failed"} /\ Len(net[c]) < MaxWaiting
  /\ Send(c, "REQUEST")
  /\ stage' = [stage EXCEPT ![c] = "asking"]
  /\ UNCHANGED <<pool, now, epoch, play, orphans>>

\* request raises: the connection broke, or what came is no answer.  The server may
\* still deal with the message.
FailAsking(c) ==
  /\ stage[c] = "asking" /\ Fail(c)
  /\ net' = [net EXCEPT ![c] =
               [i \in DOMAIN @ |-> IF @[i].cmd = "REQUEST" THEN [@[i] EXCEPT !.cmd = "unheard"]
                                   ELSE @[i]]]
  /\ UNCHANGED <<pool, now, epoch, orphans>>

\* start_game: everything is installed and the game's thread started ...
StartGame(c) ==
  /\ stage[c] = "loading" /\ stage' = [stage EXCEPT ![c] = "playing"]
  /\ play' = [play EXCEPT ![c].due = now]
  /\ UNCHANGED <<pool, now, epoch, orphans, net>>

\* ... or a download raises, before there is a game.
FailLoading(c) ==
  /\ stage[c] = "loading" /\ Fail(c)
  /\ UNCHANGED <<pool, now, epoch, orphans, net>>

RenewAfterMinutes(c) ==
  /\ stage[c] = "playing" /\ now >= play[c].due /\ Send(c, "RENEW")
  /\ play' = [play EXCEPT ![c].due = now + 60 * RenewalPeriod]
  /\ UNCHANGED <<pool, now, epoch, stage, orphans>>

\* The loop of client_main: a renewal, then a wait of one period.
Renew(c) ==
  /\ stage[c] = "playing" /\ now >= play[c].due /\ Send(c, "RENEW")
  /\ play' = [play EXCEPT ![c].due = now + RenewalPeriod]
  /\ UNCHANGED <<pool, now, epoch, stage, orphans>>

\* The server cannot be reached for a renewal: client_main raises, once and for all,
\* and leaves the game running.
FailRenew(c) ==
  /\ stage[c] = "playing" /\ now >= play[c].due /\ Fail(c)
  /\ orphans' = [orphans EXCEPT ![c] = @ \cup {play[c].row}]
  /\ UNCHANGED <<pool, now, epoch, net>>

\* The game ends, by itself or by the user; the join returns.
GameEnds(c) ==
  /\ stage[c] = "playing" /\ stage' = [stage EXCEPT ![c] = "ending"]
  /\ UNCHANGED <<pool, now, epoch, play, orphans, net>>

OrphanEnds(c, r) ==
  /\ r \in orphans[c] /\ orphans' = [orphans EXCEPT ![c] = @ \ {r}]
  /\ UNCHANGED <<pool, now, epoch, stage, play, net>>

ReleaseNothing(c) ==
  /\ stage[c] = "ending" /\ stage' = [stage EXCEPT ![c] = "off"]
  /\ play' = [play EXCEPT ![c] = NoPlay]
  /\ UNCHANGED <<pool, now, epoch, orphans, net>>

Release(c) ==
  /\ stage[c] = "ending" /\ Send(c, "RELEASE")
  /\ stage' = [stage EXCEPT ![c] = "off"]
  /\ play' = [play EXCEPT ![c] = NoPlay]
  /\ UNCHANGED <<pool, now, epoch, orphans>>

FailRelease(c) ==
  /\ stage[c] = "ending" /\ Fail(c)
  /\ UNCHANGED <<pool, now, epoch, orphans, net>>

-----------------------------------------------------------------------------
(* nydus-server: the handlers, the cleanup, and a restart.                 *)

Handle(c, cmd) ==
  /\ net[c] # <<>> /\ Head(net[c]).cmd = cmd
  /\ net' = [net EXCEPT ![c] = Tail(@)]

\* REQUEST, answered.
Grant(c) ==
  /\ Handle(c, "REQUEST")
  /\ \E r \in Answer(pool, c) :
       /\ pool' = AllocateOne(pool, c, r, now)
       /\ play' = [play EXCEPT ![c] = [row |-> r, epoch |-> epoch, due |-> now + MaxLoad,
                                        missed |-> 0]]
  /\ stage' = [stage EXCEPT ![c] = "loading"]
  /\ UNCHANGED <<now, epoch, orphans>>

\* REQUEST without an account to give, or that client_exchange drops (the timeout, the
\* limit on its length, a broken read): the server closes and the client raises.
Refuse(c) ==
  /\ Handle(c, "REQUEST") /\ Fail(c)
  /\ UNCHANGED <<pool, now, epoch, orphans>>

\* REQUEST whose answer reaches nobody: the account is allocated all the same.
GrantUnheard(c) ==
  /\ Handle(c, "unheard")
  /\ \/ \E r \in Answer(pool, c) : pool' = AllocateOne(pool, c, r, now)
     \/ UNCHANGED pool
  /\ UNCHANGED <<now, epoch, stage, play, orphans>>

HandleRenew(c) ==
  /\ Handle(c, "RENEW") /\ pool' = RenewOne(pool, c, now)
  /\ play' = [play EXCEPT ![c].missed = 0]
  /\ UNCHANGED <<now, epoch, stage, orphans>>

HandleRelease(c) ==
  /\ Handle(c, "RELEASE") /\ pool' = ReleaseOne(pool, c)
  /\ UNCHANGED <<now, epoch, stage, play, orphans>>

\* RENEW and RELEASE are not answered: one that client_exchange drops is lost, and the
\* client goes on.
LoseRenew(c) ==
  /\ Handle(c, "RENEW")
  /\ \/ play[c] = NoPlay /\ UNCHANGED play
     \/ /\ play[c] # NoPlay /\ play[c].missed < MaxMisses
        /\ play' = [play EXCEPT ![c].missed = @ + 1]
  /\ UNCHANGED <<pool, now, epoch, stage, orphans>>

LoseRelease(c) ==
  /\ Handle(c, "RELEASE")
  /\ stage' = [stage EXCEPT ![c] = IF @ = "off" THEN "failed" ELSE @]
  /\ UNCHANGED <<pool, now, epoch, play, orphans>>

Cleanup ==
  /\ pool' = ReleaseExpired(pool, now) /\ pool' # pool
  /\ UNCHANGED <<now, epoch, stage, play, orphans, net>>

\* A crash and a restart: create_db forgets every allocation, connections break, and
\* a client that waits for an answer raises.  (A start-up that fails and serves the old
\* file, StartAnyway of NydusServer, is left out.)
Restart(S) ==
  /\ epoch < MaxRestarts /\ epoch' = epoch + 1 /\ pool' = CreateDB(S)
  /\ net' = [c \in Clients |-> <<>>]
  /\ stage' = [c \in Clients |-> IF stage[c] = "asking" THEN "failed" ELSE stage[c]]
  /\ UNCHANGED <<now, play, orphans>>

-----------------------------------------------------------------------------
(* The network and the clock.                                              *)

\* Two connection threads reach ALLOCDB_LOCK in the order they are scheduled in.
Overtake(c, i) ==
  /\ i \in 1..Len(net[c]) - 1
  /\ net' = [net EXCEPT ![c] = [@ EXCEPT ![i] = net[c][i + 1], ![i + 1] = net[c][i]]]
  /\ UNCHANGED <<pool, now, epoch, stage, play, orphans>>

\* Time does not pass a deadline: messages are handled within MaxDelay, a renewal is
\* tried when it is due, an installation ends within MaxLoad.
Tick ==
  /\ now < MaxTime /\ now' = now + 1
  /\ \A c \in Clients : /\ \A i \in DOMAIN net[c] : now < net[c][i].sent + MaxDelay
                        /\ stage[c] \in {"loading", "playing"} => now < play[c].due
  /\ UNCHANGED <<pool, epoch, stage, play, orphans, net>>

ClientStep(c) ==
  \/ Start(c) \/ FailAsking(c)
  \/ StartGame(c) \/ FailLoading(c)
  \/ Renew(c) \/ FailRenew(c)
  \/ GameEnds(c) \/ Release(c) \/ FailRelease(c)
  \/ \E r \in Rows : OrphanEnds(c, r)

ServerStep(c) ==
  \/ Grant(c) \/ Refuse(c) \/ GrantUnheard(c) \/ HandleRenew(c) \/ HandleRelease(c)
  \/ LoseRenew(c) \/ LoseRelease(c)

Next ==
  \/ \E c \in Clients : ClientStep(c) \/ ServerStep(c)
  \/ \E c \in Clients : \E i \in DOMAIN net[c] : Overtake(c, i)
  \/ Cleanup
  \/ \E S \in SUBSET Rows : Restart(S)
  \/ Tick

Spec == Init /\ [][Next]_vars

-----------------------------------------------------------------------------
(* Properties.                                                             *)

\* From the answer until its game ends, a client holds the account it plays on, so
\* nobody else is given it (client_main), if the periods fit, although up to MaxMisses
\* renewals in a row are lost.  A restart of the server ends that: create_db forgets who
\* plays.
PlaysWhatItHolds ==
  TimingFits =>
    \A c \in Clients : stage[c] \in {"loading", "playing"} /\ play[c].epoch = epoch =>
                         play[c].row \in HeldBy(pool, c)

\* A client that ended as it should, and whose RELEASE was not lost, leaves nothing
\* allocated behind, whatever its earlier runs left (release, release_one_account).
ReleasedAtEnd ==
  \A c \in Clients : stage[c] = "off" /\ net[c] = <<>> => HeldBy(pool, c) = {}
==============================================================================
