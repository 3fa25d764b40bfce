-------------------------- MODULE NydusClientProofs --------------------------
(***************************************************************************)
(* Proofs about NydusClient, for every value of its constants.             *)
(***************************************************************************)
EXTENDS NydusClient, AllocDBProofs, TLAPS

-----------------------------------------------------------------------------
(* Type correctness.                                                       *)

LEMMA MessageType ==
  ASSUME NEW t \in Nat, NEW cmd \in {"REQUEST", "unheard", "RENEW", "RELEASE"}
  PROVE  [cmd |-> cmd, sent |-> t] \in Messages
BY DEF Messages

LEMMA SendType ==
  ASSUME TypeOK, NEW c \in Clients, NEW cmd \in {"REQUEST", "RENEW", "RELEASE"}, Send(c, cmd)
  PROVE  net' \in [Clients -> Seq(Messages)]
<1>1. [cmd |-> cmd, sent |-> now] \in Messages
  BY MessageType DEF TypeOK
<1>2. Append(net[c], [cmd |-> cmd, sent |-> now]) \in Seq(Messages)
  BY <1>1 DEF TypeOK
<1> QED BY <1>2 DEF TypeOK, Send

LEMMA HandleType ==
  ASSUME TypeOK, NEW c \in Clients, NEW cmd, Handle(c, cmd)
  PROVE  net' \in [Clients -> Seq(Messages)]
<1>1. Tail(net[c]) \in Seq(Messages)
  BY DEF TypeOK, Handle
<1> QED BY <1>1 DEF TypeOK, Handle

LEMMA PlayFacts ==
  ASSUME NydusClientAssumption
  PROVE  NoPlay \notin Plays
BY DEF NydusClientAssumption, NoPlay, Plays

\* Where a client leaves its account behind.
LEMMA FailType ==
  ASSUME TypeOK, NydusClientAssumption, NEW c \in Clients, Fail(c),
         pool' = pool, now' = now, epoch' = epoch,
         orphans' \in [Clients -> SUBSET Rows], net' \in [Clients -> Seq(Messages)]
  PROVE  TypeOK'
BY PlayFacts DEF TypeOK, Fail, Stages

LEMMA ClientType ==
  ASSUME TypeOK, NydusClientAssumption, NEW c \in Clients, ClientStep(c)
  PROVE  TypeOK'
<1> USE DEF TypeOK
<1>0. play[c] \in Plays => play[c].row \in Rows
  BY DEF Plays
<1>1. CASE Start(c)
  <2>1. net' \in [Clients -> Seq(Messages)]
    BY <1>1, SendType DEF Start
  <2> QED BY <1>1, <2>1 DEF Start, Stages
<1>2. CASE FailAsking(c)
  <2>1. net' \in [Clients -> Seq(Messages)]
    <3> DEFINE s == [i \in DOMAIN net[c] |->
                       IF net[c][i].cmd = "REQUEST" THEN [net[c][i] EXCEPT !.cmd = "unheard"]
                       ELSE net[c][i]]
    <3>1. \A i \in DOMAIN net[c] : net[c][i] \in Messages
      OBVIOUS
    <3>2. \A m \in Messages : [m EXCEPT !.cmd = "unheard"] \in Messages
      BY DEF Messages
    <3>3. s \in [1..Len(net[c]) -> Messages]
      BY <3>1, <3>2
    <3>4. s \in Seq(Messages)
      <4>1. Len(net[c]) \in Nat
        OBVIOUS
      <4> QED BY <3>3, <4>1
    <3>5. net' = [net EXCEPT ![c] = s]
      BY <1>2 DEF FailAsking
    <3> QED BY <3>4, <3>5
  <2> QED BY <1>2, <2>1, FailType DEF FailAsking
<1>3. CASE StartGame(c)
  <2>1. [play[c] EXCEPT !.due = now] \in Plays
    BY <1>3 DEF StartGame, Plays
  <2> QED BY <1>3, <2>1 DEF StartGame, Stages
<1>4. CASE FailLoading(c)
  BY <1>4, FailType DEF FailLoading
<1>5. CASE Renew(c)
  <2>1. net' \in [Clients -> Seq(Messages)]
    BY <1>5, SendType DEF Renew
  <2>2. [play[c] EXCEPT !.due = now + RenewalPeriod] \in Plays
    <3>1. play[c] \in Plays /\ now + RenewalPeriod \in Nat
      BY <1>5 DEF Renew, NydusClientAssumption
    <3> QED BY <3>1 DEF Plays
  <2> QED BY <1>5, <2>1, <2>2 DEF Renew
<1>6. CASE FailRenew(c)
  <2>1. orphans' \in [Clients -> SUBSET Rows]
    BY <1>0, <1>6 DEF FailRenew
  <2> QED BY <1>6, <2>1, FailType DEF FailRenew
<1>7. CASE GameEnds(c)
  BY <1>7 DEF GameEnds, Stages
<1>8. CASE Release(c)
  <2>1. net' \in [Clients -> Seq(Messages)]
    BY <1>8, SendType DEF Release
  <2> QED BY <1>8, <2>1, PlayFacts DEF Release, Stages
<1>9. CASE FailRelease(c)
  BY <1>9, FailType DEF FailRelease
<1>10. CASE \E r \in Rows : OrphanEnds(c, r)
  BY <1>10 DEF OrphanEnds
<1> QED
  BY <1>1, <1>2, <1>3, <1>4, <1>5, <1>6, <1>7, <1>8, <1>9, <1>10 DEF ClientStep

\* A RENEW, handled or lost, is counted.
Counted(c, n) == n \in 0..MaxMisses /\ play' = [play EXCEPT ![c].missed = n]

LEMMA CountedType ==
  ASSUME TypeOK, NydusClientAssumption, NEW c \in Clients, NEW n, Counted(c, n), stage' = stage,
         n = 0 \/ play[c] \in Plays
  PROVE  /\ play' \in [Clients -> Plays \cup {NoPlay}]
         /\ \A d \in Clients :
              play'[d] \in Plays <=> stage'[d] \in {"loading", "playing", "ending"}
<1>1. /\ play'[c] = [play[c] EXCEPT !.missed = n]
      /\ \A d \in Clients : d # c => play'[d] = play[d]
  BY DEF TypeOK, Counted
<1>2. play[c] \in Plays => play'[c] \in Plays
  BY <1>1 DEF Counted, Plays
<1>3. play[c] \notin Plays => play'[c] = NoPlay
  BY <1>1 DEF TypeOK, NoPlay
<1> QED BY <1>1, <1>2, <1>3, PlayFacts DEF TypeOK, Counted

LEMMA ServerType ==
  ASSUME TypeOK, NydusClientAssumption, NEW c \in Clients, ServerStep(c)
  PROVE  TypeOK'
<1> USE DEF TypeOK
<1>0. \A r \in Answer(pool, c) : r \in DOMAIN pool /\ r \in Rows
  BY AnswerInDB DEF IsDB
<1>1. CASE Grant(c)
  <2>1. PICK r \in Answer(pool, c) :
               /\ pool' = AllocateOne(pool, c, r, now)
               /\ play' = [play EXCEPT ![c] = [row |-> r, epoch |-> epoch, due |-> now + MaxLoad,
                                                missed |-> 0]]
    BY <1>1 DEF Grant
  <2>2. IsDB(pool')
    BY <1>0, <2>1, OpsIsDB
  <2>3. [row |-> r, epoch |-> epoch, due |-> now + MaxLoad, missed |-> 0] \in Plays
    BY <1>0, NydusClientAssumption DEF Plays, NydusClientAssumption
  <2>4. net' \in [Clients -> Seq(Messages)]
    BY <1>1, HandleType DEF Grant
  <2>5. /\ stage' = [stage EXCEPT ![c] = "loading"]
        /\ now' = now /\ epoch' = epoch /\ orphans' = orphans
    BY <1>1 DEF Grant
  <2>6. stage' \in [Clients -> Stages] /\ play' \in [Clients -> Plays \cup {NoPlay}]
    BY <2>1, <2>3, <2>5 DEF Stages
  <2>7. \A d \in Clients :
          play'[d] \in Plays <=> stage'[d] \in {"loading", "playing", "ending"}
    BY <2>1, <2>3, <2>5
  <2> QED BY <2>2, <2>4, <2>5, <2>6, <2>7
<1>2. CASE Refuse(c)
  <2>1. net' \in [Clients -> Seq(Messages)]
    BY <1>2, HandleType DEF Refuse
  <2> QED BY <1>2, <2>1, FailType DEF Refuse
<1>3. CASE GrantUnheard(c)
  <2>1. IsDB(pool')
    BY <1>0, <1>3, OpsIsDB DEF GrantUnheard
  <2>2. net' \in [Clients -> Seq(Messages)]
    BY <1>3, HandleType DEF GrantUnheard
  <2> QED BY <1>3, <2>1, <2>2 DEF GrantUnheard
<1>4. CASE HandleRenew(c)
  <2>1. IsDB(pool')
    BY <1>4, OpsIsDB DEF HandleRenew
  <2>2. net' \in [Clients -> Seq(Messages)]
    BY <1>4, HandleType DEF HandleRenew
  <2>3. Counted(c, 0)
    BY <1>4 DEF HandleRenew, Counted, NydusClientAssumption
  <2> QED BY <1>4, <2>1, <2>2, <2>3, CountedType DEF HandleRenew
<1>5. CASE HandleRelease(c)
  <2>1. IsDB(pool')
    BY <1>5, OpsIsDB DEF HandleRelease
  <2>2. net' \in [Clients -> Seq(Messages)]
    BY <1>5, HandleType DEF HandleRelease
  <2> QED BY <1>5, <2>1, <2>2 DEF HandleRelease
<1>6. CASE LoseRenew(c)
  <2>1. net' \in [Clients -> Seq(Messages)]
    BY <1>6, HandleType DEF LoseRenew
  <2>2. CASE play' = play
    BY <1>6, <2>1, <2>2 DEF LoseRenew
  <2>3. CASE play' # play
    <3>1. /\ play[c] \in Plays /\ play[c].missed < MaxMisses
          /\ play' = [play EXCEPT ![c].missed = @ + 1]
      BY <1>6, <2>3 DEF LoseRenew
    <3>2. play[c].missed + 1 \in 0..MaxMisses
      BY <3>1 DEF Plays, NydusClientAssumption
    <3>3. Counted(c, play[c].missed + 1)
      BY <3>1, <3>2 DEF Counted
    <3> QED BY <1>6, <2>1, <3>3, CountedType DEF LoseRenew
  <2> QED BY <2>2, <2>3
<1>7. CASE LoseRelease(c)
  <2>1. net' \in [Clients -> Seq(Messages)]
    BY <1>7, HandleType DEF LoseRelease
  <2>2. stage' \in [Clients -> Stages]
    BY <1>7 DEF LoseRelease, Stages
  <2>3. \A d \in Clients : play[d] \in Plays <=> stage'[d] \in {"loading", "playing", "ending"}
    BY <1>7 DEF LoseRelease
  <2> QED BY <1>7, <2>1, <2>2, <2>3 DEF LoseRelease
<1> QED BY <1>1, <1>2, <1>3, <1>4, <1>5, <1>6, <1>7 DEF ServerStep

LEMMA TypeStep ==
  ASSUME TypeOK, NydusClientAssumption, [Next]_vars
  PROVE  TypeOK'
<1> USE DEF TypeOK
<1>1. CASE \E c \in Clients : ClientStep(c) \/ ServerStep(c)
  BY <1>1, ClientType, ServerType
<1>2. ASSUME NEW c \in Clients, NEW i \in DOMAIN net[c], Overtake(c, i) PROVE TypeOK'
  <2> DEFINE s == [net[c] EXCEPT ![i] = net[c][i + 1], ![i + 1] = net[c][i]]
  <2>1. Len(net[c]) \in Nat /\ i \in DOMAIN net[c] /\ i + 1 \in DOMAIN net[c]
    BY <1>2 DEF Overtake
  <2>2. net[c] \in [1..Len(net[c]) -> Messages]
    OBVIOUS
  <2>3. s \in [1..Len(net[c]) -> Messages]
    BY <2>1, <2>2
  <2>4. s \in Seq(Messages)
    BY <2>1, <2>3
  <2>5. net' = [net EXCEPT ![c] = s]
    BY <1>2 DEF Overtake
  <2> QED BY <1>2, <2>4, <2>5 DEF Overtake
<1>3. CASE Cleanup
  BY <1>3, TokensIsDB DEF Cleanup
<1>4. ASSUME NEW S \in SUBSET Rows, Restart(S) PROVE TypeOK'
  <2>1. IsDB(pool') /\ epoch' \in Nat
    BY <1>4, CreateIsDB DEF Restart
  <2>2. net' \in [Clients -> Seq(Messages)]
    BY <1>4 DEF Restart
  <2>3. stage' \in [Clients -> Stages]
    BY <1>4 DEF Restart, Stages
  <2>4. \A c \in Clients : play[c] \in Plays <=> stage'[c] \in {"loading", "playing", "ending"}
    BY <1>4 DEF Restart
  <2> QED BY <1>4, <2>1, <2>2, <2>3, <2>4 DEF Restart
<1>5. CASE Tick
  BY <1>5 DEF Tick
<1>6. CASE UNCHANGED vars
  BY <1>6 DEF vars
<1> QED BY <1>1, <1>2, <1>3, <1>4, <1>5, <1>6 DEF Next

\* Every variable keeps to its type, and a client has an account in hand exactly
\* while it installs, plays, or is about to release.
THEOREM ClientTypeCorrect == Spec => []TypeOK
<1>1. Init => TypeOK
  BY NydusClientAssumption, PlayFacts, CreateIsDB DEF Init, TypeOK, Stages
<1>2. TypeOK /\ [Next]_vars => TypeOK'
  BY NydusClientAssumption, TypeStep
<1> QED BY <1>1, <1>2, PTL DEF Spec

-----------------------------------------------------------------------------
(* The inductive invariant.  The user starts the client again only when    *)
(* the messages of its last run were handled (MaxWaiting = 1).             *)

Mail(c) == {net[c][i] : i \in DOMAIN net[c]}

\* What a client in stage s may have on its way.
Expected(s) ==
  CASE s = "asking" -> {"REQUEST"}
    [] s = "off"    -> {"RENEW", "RELEASE"}
    [] s = "failed" -> {"RENEW", "RELEASE", "unheard"}
    [] OTHER        -> {"RENEW"}

MailInv ==
  \A c \in Clients :
    /\ stage[c] = "asking" => Len(net[c]) = 1
    /\ \A m \in Mail(c) : /\ m.cmd \in Expected(stage[c])
                          /\ m.sent <= now /\ now <= m.sent + MaxDelay

\* Nobody locks an account here, and nobody has two.
PoolInv == AtMostOneEach(pool) /\ \A r \in DOMAIN pool : ~pool[r].locked

FreedInv ==
  \A c \in Clients :
    stage[c] = "off" => HeldBy(pool, c) = {} \/ \E m \in Mail(c) : m.cmd = "RELEASE"

\* A message or a deadline of time t comes to the server's knowledge before the
\* allocation of row r runs out.
InTime(t, r) == t + MaxDelay <= pool[r].renew + AllocTimeout

\* Either the next renewal will be in time, or one in time is on its way: in time even
\* if it is lost, and as many after it as may be.
Lease(c) ==
  /\ play[c].row \in HeldBy(pool, c)
  /\ \/ InTime(play[c].due + Slack(play[c].missed), play[c].row)
     \/ /\ stage[c] = "playing"
        /\ \E m \in Mail(c) : InTime(m.sent + Slack(play[c].missed), play[c].row)

LeaseInv ==
  \A c \in Clients : stage[c] \in {"loading", "playing"} =>
    /\ play[c].epoch <= epoch /\ now <= play[c].due
    /\ play[c].due <= now + (IF stage[c] = "playing" THEN RenewalPeriod ELSE MaxLoad)
    /\ play[c].epoch = epoch => Lease(c)

-----------------------------------------------------------------------------
(* What a step does to the messages on their way.                          *)

LEMMA MailSend ==
  ASSUME TypeOK, NEW c \in Clients, NEW cmd, Send(c, cmd)
  PROVE  /\ Mail(c)' = Mail(c) \cup {[cmd |-> cmd, sent |-> now]}
         /\ Len(net'[c]) = Len(net[c]) + 1
         /\ \A d \in Clients : d # c => net'[d] = net[d] /\ Mail(d)' = Mail(d)
<1> DEFINE m == [cmd |-> cmd, sent |-> now]
<1>1. net'[c] = Append(net[c], m) /\ \A d \in Clients : d # c => net'[d] = net[d]
  BY DEF Send, TypeOK
<1>2. net[c] \in Seq(Messages)
  BY DEF TypeOK
<1> HIDE DEF m
<1>3. /\ Len(Append(net[c], m)) = Len(net[c]) + 1 /\ Len(net[c]) \in Nat
      /\ \A i \in 1..Len(net[c]) : Append(net[c], m)[i] = net[c][i]
      /\ Append(net[c], m)[Len(net[c]) + 1] = m
  BY <1>2
<1>4. /\ DOMAIN net[c] = 1..Len(net[c])
      /\ DOMAIN Append(net[c], m) = 1..Len(net[c]) + 1
  BY <1>2, <1>3
<1>5. Mail(c)' \subseteq Mail(c) \cup {m}
  <2> SUFFICES ASSUME NEW i \in 1..Len(net[c]) + 1
               PROVE  Append(net[c], m)[i] \in Mail(c) \cup {m}
    BY <1>1, <1>4 DEF Mail
  <2>1. i \in 1..Len(net[c]) \/ i = Len(net[c]) + 1
    BY <1>3
  <2> QED BY <1>3, <1>4, <2>1 DEF Mail
<1>6. Mail(c) \cup {m} \subseteq Mail(c)'
  <2>1. ASSUME NEW i \in 1..Len(net[c])
        PROVE  i \in 1..Len(net[c]) + 1 /\ net[c][i] = Append(net[c], m)[i]
    BY <1>3
  <2>2. Len(net[c]) + 1 \in 1..Len(net[c]) + 1
    BY <1>3
  <2> QED BY <1>1, <1>3, <1>4, <2>1, <2>2 DEF Mail
<1>7. \A d \in Clients : d # c => Mail(d)' = Mail(d)
  BY <1>1 DEF Mail
<1> QED BY <1>1, <1>3, <1>5, <1>6, <1>7 DEF m

LEMMA MailHandle ==
  ASSUME TypeOK, NEW c \in Clients, NEW cmd, Handle(c, cmd)
  PROVE  /\ \E m \in Mail(c) : m.cmd = cmd /\ Mail(c) \subseteq Mail(c)' \cup {m}
         /\ Mail(c)' \subseteq Mail(c)
         /\ Len(net[c]) = 1 => Mail(c)' = {}
         /\ \A d \in Clients : d # c => net'[d] = net[d] /\ Mail(d)' = Mail(d)
<1>1. /\ net'[c] = Tail(net[c]) /\ net[c] # <<>> /\ Head(net[c]).cmd = cmd
      /\ \A d \in Clients : d # c => net'[d] = net[d]
  BY DEF Handle, TypeOK
<1>2. net[c] \in Seq(Messages)
  BY DEF TypeOK
<1> DEFINE n == Len(net[c])
<1>3. n \in Nat /\ n >= 1 /\ Head(net[c]) = net[c][1] /\ DOMAIN net[c] = 1..n
  BY <1>1, <1>2
<1>4. /\ Len(Tail(net[c])) = n - 1 /\ DOMAIN Tail(net[c]) = 1..n - 1
      /\ \A i \in 1..n - 1 : Tail(net[c])[i] = net[c][i + 1]
  BY <1>1, <1>2, <1>3
<1> HIDE DEF n
<1>5. Mail(c)' \subseteq Mail(c)
  <2>1. \A i \in 1..n - 1 : i + 1 \in 1..n
    BY <1>3
  <2> QED BY <1>1, <1>3, <1>4, <2>1 DEF Mail
<1>6. Mail(c) \subseteq Mail(c)' \cup {net[c][1]}
  <2> SUFFICES ASSUME NEW i \in 1..n, i # 1 PROVE net[c][i] \in Mail(c)'
    BY <1>3 DEF Mail
  <2>1. i - 1 \in 1..n - 1 /\ (i - 1) + 1 = i
    BY <1>3
  <2>2. Tail(net[c])[i - 1] = net[c][i]
    BY <1>4, <2>1
  <2> QED BY <1>1, <1>4, <2>1, <2>2 DEF Mail
<1>7. net[c][1] \in Mail(c)
  BY <1>3 DEF Mail
<1>8. n = 1 => Mail(c)' = {}
  <2>1. n = 1 => 1..n - 1 = {}
    OBVIOUS
  <2> QED BY <1>1, <1>4, <2>1 DEF Mail
<1>9. \A d \in Clients : d # c => Mail(d)' = Mail(d)
  BY <1>1 DEF Mail
<1> QED BY <1>1, <1>3, <1>5, <1>6, <1>7, <1>8, <1>9 DEF n

LEMMA MailOvertake ==
  ASSUME TypeOK, NEW c \in Clients, NEW i \in DOMAIN net[c], Overtake(c, i)
  PROVE  \A d \in Clients : Mail(d)' = Mail(d) /\ Len(net'[d]) = Len(net[d])
<1> DEFINE s == [net[c] EXCEPT ![i] = net[c][i + 1], ![i + 1] = net[c][i]]
<1>1. /\ Len(net[c]) \in Nat /\ DOMAIN net[c] = 1..Len(net[c])
      /\ i \in DOMAIN net[c] /\ i + 1 \in DOMAIN net[c] /\ i + 1 # i
  BY DEF Overtake, TypeOK
<1>2. net'[c] = s /\ \A d \in Clients : d # c => net'[d] = net[d]
  BY DEF Overtake, TypeOK
<1>3. /\ DOMAIN s = DOMAIN net[c] /\ s[i] = net[c][i + 1] /\ s[i + 1] = net[c][i]
      /\ \A j \in DOMAIN net[c] : j # i /\ j # i + 1 => s[j] = net[c][j]
  BY <1>1
<1>4. Len(s) = Len(net[c])
  BY <1>1, <1>3
<1> HIDE DEF s
<1>5. {s[j] : j \in DOMAIN s} = {net[c][j] : j \in DOMAIN net[c]}
  BY <1>1, <1>3
<1>6. Mail(c)' = Mail(c) /\ Len(net'[c]) = Len(net[c])
  BY <1>2, <1>4, <1>5 DEF Mail
<1>7. ASSUME NEW d \in Clients, d # c
      PROVE  Mail(d)' = Mail(d) /\ Len(net'[d]) = Len(net[d])
  BY <1>2, <1>7 DEF Mail
<1> QED BY <1>6, <1>7

-----------------------------------------------------------------------------
(* MailInv is inductive.                                                   *)

\* A step of one client, or of the server for it.
LEMMA MailKept ==
  ASSUME TypeOK, NydusClientAssumption, MailInv, NEW c \in Clients, now' = now,
         \A d \in Clients : d # c =>
           net'[d] = net[d] /\ Mail(d)' = Mail(d) /\ stage'[d] = stage[d],
         \A m \in Mail(c)' : /\ m.cmd \in Expected(stage'[c])
                             /\ m \in Mail(c) \/ m.sent = now,
         stage'[c] = "asking" => Len(net'[c]) = 1
  PROVE  MailInv'
<1>1. ASSUME NEW d \in Clients, d # c
      PROVE  /\ stage'[d] = "asking" => Len(net'[d]) = 1
             /\ \A m \in Mail(d)' : /\ m.cmd \in Expected(stage'[d])
                                   /\ m.sent <= now' /\ now' <= m.sent + MaxDelay
  BY <1>1 DEF MailInv
<1>2. ASSUME NEW m \in Mail(c)' PROVE m.sent <= now' /\ now' <= m.sent + MaxDelay
  BY <1>2 DEF MailInv, TypeOK, NydusClientAssumption
<1> QED BY <1>1, <1>2 DEF MailInv

LEMMA MailUnsent ==
  ASSUME TypeOK, NydusClientAssumption, MailInv, NEW c \in Clients, now' = now, net' = net,
         \A d \in Clients : d # c => stage'[d] = stage[d],
         stage'[c] # "asking", Expected(stage[c]) \subseteq Expected(stage'[c])
  PROVE  MailInv'
<1>1. \A d \in Clients : Mail(d)' = Mail(d)
  BY DEF Mail
<1> QED BY <1>1, MailKept DEF MailInv

\* After the last message of a kind was handled.
LEMMA MailHandled ==
  ASSUME TypeOK, NydusClientAssumption, MailInv, NEW c \in Clients, NEW cmd, Handle(c, cmd),
         now' = now, \A d \in Clients : d # c => stage'[d] = stage[d],
         \/ stage' = stage /\ stage[c] # "asking"
         \/ stage[c] = "asking" /\ stage'[c] # "asking"
  PROVE  MailInv'
<1>1. /\ Mail(c)' \subseteq Mail(c)
      /\ Len(net[c]) = 1 => Mail(c)' = {}
      /\ \A d \in Clients : d # c => net'[d] = net[d] /\ Mail(d)' = Mail(d)
  BY MailHandle
<1>2. stage[c] = "asking" => Mail(c)' = {}
  BY <1>1 DEF MailInv
<1>3. \A m \in Mail(c)' : m.cmd \in Expected(stage'[c]) /\ m \in Mail(c)
  BY <1>1, <1>2 DEF MailInv
<1> QED BY <1>1, <1>3, MailKept

LEMMA HandledStage ==
  ASSUME TypeOK, MailInv, NEW c \in Clients, NEW cmd, Handle(c, cmd)
  PROVE  cmd \in Expected(stage[c]) /\ (stage[c] = "asking" => cmd = "REQUEST")
<1>1. cmd \in Expected(stage[c])
  BY MailHandle DEF MailInv
<1> QED BY <1>1 DEF Expected

LEMMA MailClient ==
  ASSUME TypeOK, NydusClientAssumption, MaxWaiting = 1, MailInv, NEW c \in Clients, ClientStep(c)
  PROVE  MailInv'
<1>0. \A d \in Clients : d # c => stage'[d] = stage[d]
  BY DEF ClientStep, Start, FailAsking, Fail, StartGame, FailLoading, Renew, FailRenew,
         GameEnds, Release, FailRelease, OrphanEnds, TypeOK
<1>1. CASE Start(c)
  <2>1. /\ now' = now /\ stage'[c] = "asking" /\ Send(c, "REQUEST") /\ Len(net[c]) < 1
    BY <1>1 DEF Start, TypeOK
  <2>2. Len(net[c]) = 0 /\ DOMAIN net[c] = {}
    BY <2>1 DEF TypeOK
  <2>3. Mail(c) = {}
    BY <2>2 DEF Mail
  <2>4. Mail(c)' = {[cmd |-> "REQUEST", sent |-> now]} /\ Len(net'[c]) = 1
    <3>1. /\ Mail(c)' = Mail(c) \cup {[cmd |-> "REQUEST", sent |-> now]}
          /\ Len(net'[c]) = Len(net[c]) + 1
      BY <2>1, MailSend
    <3>2. Len(net'[c]) = 1
      BY <2>2, <3>1
    <3>3. Mail(c)' = {[cmd |-> "REQUEST", sent |-> now]}
      BY <2>3, <3>1, Zenon
    <3> QED BY <3>2, <3>3
  <2>5. \A d \in Clients : d # c => net'[d] = net[d] /\ Mail(d)' = Mail(d)
    BY <2>1, MailSend
  <2>6. \A m \in Mail(c)' : m.cmd \in Expected(stage'[c]) /\ m.sent = now
    BY <2>1, <2>4 DEF Expected
  <2> QED BY <1>0, <2>1, <2>4, <2>5, <2>6, MailKept
<1>2. CASE FailAsking(c)
  <2>1. /\ now' = now /\ stage[c] = "asking" /\ stage'[c] = "failed"
        /\ \A d \in Clients : d # c => net'[d] = net[d]
        /\ DOMAIN net'[c] = DOMAIN net[c]
        /\ \A i \in DOMAIN net[c] :
             net'[c][i] = IF net[c][i].cmd = "REQUEST" THEN [net[c][i] EXCEPT !.cmd = "unheard"]
                          ELSE net[c][i]
    BY <1>2 DEF FailAsking, Fail, TypeOK
  <2>2. \A d \in Clients : d # c => Mail(d)' = Mail(d)
    BY <2>1 DEF Mail
  <2>3. ASSUME NEW i \in DOMAIN net[c]
        PROVE  /\ net'[c][i].cmd = "unheard" /\ net'[c][i].sent = net[c][i].sent
               /\ net[c][i] \in Mail(c)
    <3>1. net[c][i] \in Mail(c)
      BY DEF Mail
    <3>2. net[c][i].cmd = "REQUEST"
      BY <2>1, <3>1 DEF MailInv, Expected
    <3>3. net[c][i] \in Messages
      BY DEF TypeOK
    <3> QED BY <2>1, <3>1, <3>2, <3>3 DEF Messages
  <2>4. \A m \in Mail(c)' : /\ m.cmd \in Expected(stage'[c])
                            /\ m.sent <= now' /\ now' <= m.sent + MaxDelay
    <3> SUFFICES ASSUME NEW i \in DOMAIN net[c]
                 PROVE  /\ net'[c][i].cmd \in Expected(stage'[c])
                        /\ net'[c][i].sent <= now' /\ now' <= net'[c][i].sent + MaxDelay
      BY <2>1 DEF Mail
    <3>1. net'[c][i].cmd \in Expected(stage'[c])
      BY <2>1, <2>3 DEF Expected
    <3> QED BY <2>1, <2>3, <3>1 DEF MailInv
  <2> QED BY <1>0, <2>1, <2>2, <2>4 DEF MailInv
<1>3. CASE StartGame(c) \/ FailLoading(c) \/ FailRenew(c) \/ GameEnds(c) \/ FailRelease(c)
  <2>1. /\ now' = now /\ net' = net
        /\ \/ stage[c] = "loading" /\ stage'[c] \in {"playing", "failed"}
           \/ stage[c] = "playing" /\ stage'[c] \in {"failed", "ending"}
           \/ stage[c] = "ending" /\ stage'[c] = "failed"
    BY <1>3 DEF StartGame, FailLoading, FailRenew, GameEnds, FailRelease, Fail, TypeOK
  <2>2. Expected(stage[c]) \subseteq Expected(stage'[c]) /\ stage'[c] # "asking"
    BY <2>1 DEF Expected
  <2> QED BY <1>0, <2>1, <2>2, MailUnsent
<1>4. CASE Renew(c) \/ Release(c)
  <2>1. PICK cmd \in {"RENEW", "RELEASE"} :
          /\ Send(c, cmd) /\ now' = now
          /\ \/ stage[c] = "playing" /\ stage'[c] = "playing" /\ cmd = "RENEW"
             \/ stage[c] = "ending" /\ stage'[c] = "off" /\ cmd = "RELEASE"
    BY <1>4 DEF Renew, Release, TypeOK
  <2>2. /\ Mail(c)' = Mail(c) \cup {[cmd |-> cmd, sent |-> now]}
        /\ \A d \in Clients : d # c => net'[d] = net[d] /\ Mail(d)' = Mail(d)
    BY <2>1, MailSend
  <2>3. Expected(stage[c]) \subseteq Expected(stage'[c]) /\ cmd \in Expected(stage'[c])
    BY <2>1 DEF Expected
  <2>4. \A m \in Mail(c)' : /\ m.cmd \in Expected(stage'[c])
                            /\ m \in Mail(c) \/ m.sent = now
    BY <2>2, <2>3 DEF MailInv
  <2> QED BY <1>0, <2>1, <2>2, <2>4, MailKept
<1>5. CASE \E r \in Rows : OrphanEnds(c, r)
  <2>1. now' = now /\ net' = net /\ stage' = stage
    BY <1>5 DEF OrphanEnds
  <2> QED BY <2>1 DEF MailInv, Mail
<1> QED BY <1>1, <1>2, <1>3, <1>4, <1>5 DEF ClientStep

LEMMA MailServer ==
  ASSUME TypeOK, NydusClientAssumption, MailInv, NEW c \in Clients, ServerStep(c)
  PROVE  MailInv'
<1>1. CASE Grant(c) \/ Refuse(c)
  <2>1. /\ Handle(c, "REQUEST") /\ now' = now /\ stage'[c] # "asking"
        /\ \A d \in Clients : d # c => stage'[d] = stage[d]
    BY <1>1 DEF Grant, Refuse, Fail, TypeOK
  <2>2. stage[c] = "asking"
    BY <2>1, HandledStage DEF Expected
  <2> QED BY <2>1, <2>2, MailHandled
<1>2. CASE GrantUnheard(c) \/ HandleRenew(c) \/ HandleRelease(c) \/ LoseRenew(c)
  <2>1. PICK cmd \in {"unheard", "RENEW", "RELEASE"} :
               Handle(c, cmd) /\ now' = now /\ stage' = stage
    BY <1>2 DEF GrantUnheard, HandleRenew, HandleRelease, LoseRenew
  <2>2. stage[c] # "asking"
    BY <2>1, HandledStage
  <2> QED BY <2>1, <2>2, MailHandled
<1>3. CASE LoseRelease(c)
  <2>1. /\ Handle(c, "RELEASE") /\ now' = now
        /\ \A d \in Clients : d # c => stage'[d] = stage[d]
        /\ stage'[c] = IF stage[c] = "off" THEN "failed" ELSE stage[c]
    BY <1>3 DEF LoseRelease, TypeOK
  <2>2. stage[c] \in {"off", "failed"}
    <3>1. "RELEASE" \in Expected(stage[c])
      BY <2>1, HandledStage
    <3> QED BY <3>1 DEF Expected
  <2>3. stage'[c] = "failed" /\ Expected(stage[c]) \subseteq Expected(stage'[c])
    BY <2>1, <2>2 DEF Expected
  <2>4. /\ Mail(c)' \subseteq Mail(c)
        /\ \A d \in Clients : d # c => net'[d] = net[d] /\ Mail(d)' = Mail(d)
    BY <2>1, MailHandle
  <2>5. \A m \in Mail(c)' : m.cmd \in Expected(stage'[c]) /\ m \in Mail(c)
    BY <2>3, <2>4 DEF MailInv
  <2> QED BY <2>1, <2>3, <2>4, <2>5, MailKept
<1> QED BY <1>1, <1>2, <1>3 DEF ServerStep

LEMMA MailStep ==
  ASSUME TypeOK, NydusClientAssumption, MaxWaiting = 1, MailInv, [Next]_vars
  PROVE  MailInv'
<1>1. CASE \E c \in Clients : ClientStep(c) \/ ServerStep(c)
  BY <1>1, MailClient, MailServer
<1>2. ASSUME NEW c \in Clients, NEW i \in DOMAIN net[c], Overtake(c, i) PROVE MailInv'
  <2>1. \A d \in Clients : Mail(d)' = Mail(d) /\ Len(net'[d]) = Len(net[d])
    BY <1>2, MailOvertake
  <2>2. now' = now /\ stage' = stage
    BY <1>2 DEF Overtake
  <2> QED BY <2>1, <2>2 DEF MailInv
<1>3. CASE Cleanup \/ UNCHANGED vars
  <2>1. now' = now /\ net' = net /\ stage' = stage
    BY <1>3 DEF Cleanup, vars
  <2> QED BY <2>1 DEF MailInv, Mail
<1>4. ASSUME NEW S \in SUBSET Rows, Restart(S) PROVE MailInv'
  <2>1. \A c \in Clients : stage'[c] # "asking" /\ Mail(c)' = {}
    BY <1>4 DEF Restart, Mail
  <2> QED BY <2>1 DEF MailInv
<1>5. CASE Tick
  <2>1. /\ net' = net /\ stage' = stage /\ now' = now + 1
        /\ \A c \in Clients : \A i \in DOMAIN net[c] : now < net[c][i].sent + MaxDelay
    BY <1>5 DEF Tick
  <2>2. ASSUME NEW c \in Clients, NEW m \in Mail(c)
        PROVE  m.sent <= now' /\ now' <= m.sent + MaxDelay
    <3>1. PICK i \in DOMAIN net[c] : m = net[c][i]
      BY DEF Mail
    <3>2. m \in Messages
      BY <3>1 DEF TypeOK
    <3>3. m.sent \in Nat /\ now < m.sent + MaxDelay /\ m.sent <= now
      BY <2>1, <3>1, <3>2 DEF Messages, MailInv
    <3> QED BY <2>1, <3>3 DEF TypeOK, NydusClientAssumption
  <2>3. \A c \in Clients : Mail(c)' = Mail(c)
    BY <2>1 DEF Mail
  <2> QED BY <2>1, <2>2, <2>3 DEF MailInv
<1> QED BY <1>1, <1>2, <1>3, <1>4, <1>5 DEF Next

-----------------------------------------------------------------------------
(* What the server's operations do to the pool.                            *)

SamePool(R) == DOMAIN pool' = DOMAIN pool /\ \A r \in R : pool'[r] = pool[r]

LEMMA GrantPool ==
  ASSUME TypeOK, PoolInv, NEW c \in Clients, NEW r \in Answer(pool, c),
         pool' = AllocateOne(pool, c, r, now)
  PROVE  /\ PoolInv' /\ SamePool(DOMAIN pool \ {r})
         /\ r \in HeldBy(pool', c) /\ pool'[r].renew = now
         /\ pool[r].holder \in {c, NoClient}
<1>1. /\ r \in DOMAIN pool /\ ~pool[r].locked /\ \A q \in DOMAIN pool : pool[q] \in Entry
      /\ \/ r \in HeldBy(pool, c) /\ AllocateOne(pool, c, r, now) = Extended(pool, r, now)
         \/ /\ HeldBy(pool, c) = {} /\ r \in Allocatable(pool)
            /\ AllocateOne(pool, c, r, now) = Granted(pool, c, r, now)
  BY AllocDBAssumption, AllocateOneIs, EntryOfDB DEF TypeOK
<1>2. AtMostOneEach(pool')
  BY AllocDBAssumption, OneEachAllocate DEF TypeOK, PoolInv
<1>3. SamePool(DOMAIN pool \ {r})
  BY <1>1 DEF SamePool, Extended, Granted
<1>4. /\ pool'[r].holder = c /\ pool'[r].renew = now /\ ~pool'[r].locked
      /\ pool[r].holder \in {c, NoClient}
  BY <1>1 DEF Extended, Granted, Entry, HeldBy, Allocatable, IsAllocated
<1>5. r \in HeldBy(pool', c)
  BY <1>1, <1>3, <1>4 DEF HeldBy, SamePool
<1>6. \A q \in DOMAIN pool' : ~pool'[q].locked
  BY <1>3, <1>4 DEF SamePool, PoolInv
<1> QED BY <1>2, <1>3, <1>4, <1>5, <1>6 DEF PoolInv

LEMMA OldestIsAll ==
  ASSUME TypeOK, PoolInv, NEW c \in Clients
  PROVE  Oldest(pool, c) = HeldBy(pool, c)
<1>1. \A r, q \in HeldBy(pool, c) : r = q
  BY AllocDBAssumption DEF PoolInv, AtMostOneEach, HeldBy, IsAllocated, AllocDBAssumption
<1>2. \A r \in HeldBy(pool, c) : r \in Nat
  BY AllocDBAssumption DEF TypeOK, IsDB, HeldBy, AllocDBAssumption
<1>3. \A r \in HeldBy(pool, c) : r <= r
  BY <1>2
<1> QED BY <1>1, <1>3 DEF Oldest

LEMMA RenewPool ==
  ASSUME TypeOK, PoolInv, NEW c \in Clients, pool' = RenewOne(pool, c, now)
  PROVE  /\ PoolInv' /\ SamePool(DOMAIN pool \ HeldBy(pool, c))
         /\ \A d : HeldBy(pool', d) = HeldBy(pool, d)
         /\ \A r \in HeldBy(pool, c) : pool'[r].renew = now
<1>0. \A r \in DOMAIN pool : pool[r] \in Entry
  BY EntryOfDB DEF TypeOK
<1>1. pool' = [r \in DOMAIN pool |-> IF r \in HeldBy(pool, c) THEN Renewed(pool[r], now)
                                     ELSE pool[r]]
  BY OldestIsAll DEF RenewOne
<1>2. SamePool(DOMAIN pool \ HeldBy(pool, c))
  BY <1>1 DEF SamePool
<1>3. \A r \in HeldBy(pool, c) : /\ pool'[r] = [pool[r] EXCEPT !.renew = now]
                                 /\ r \in DOMAIN pool
  BY <1>1, AllocDBAssumption
     DEF Renewed, HeldBy, IsAllocated, AllocDBAssumption, PoolInv
<1>4. \A r \in DOMAIN pool : /\ pool'[r].holder = pool[r].holder /\ ~pool'[r].locked
                             /\ r \in HeldBy(pool, c) => pool'[r].renew = now
  <2> SUFFICES ASSUME NEW r \in DOMAIN pool
               PROVE  /\ pool'[r].holder = pool[r].holder /\ ~pool'[r].locked
                      /\ r \in HeldBy(pool, c) => pool'[r].renew = now
    OBVIOUS
  <2>1. CASE r \in HeldBy(pool, c)
    BY <1>0, <1>3, <2>1 DEF Entry, PoolInv
  <2>2. CASE r \notin HeldBy(pool, c)
    BY <1>2, <2>2 DEF SamePool, PoolInv
  <2> QED BY <2>1, <2>2
<1>5. \A d : HeldBy(pool', d) = HeldBy(pool, d)
  BY <1>1, <1>4 DEF HeldBy
<1>6. AtMostOneEach(pool')
  BY OneEachOps DEF TypeOK, PoolInv
<1> QED BY <1>1, <1>2, <1>3, <1>4, <1>5, <1>6 DEF PoolInv

LEMMA ReleasePool ==
  ASSUME TypeOK, PoolInv, NEW c \in Clients, pool' = ReleaseOne(pool, c)
  PROVE  /\ PoolInv' /\ SamePool(DOMAIN pool \ HeldBy(pool, c))
         /\ HeldBy(pool', c) = {}
         /\ \A r \in HeldBy(pool, c) : pool'[r].holder = NoClient
<1>0. \A r \in DOMAIN pool : pool[r] \in Entry
  BY EntryOfDB DEF TypeOK
<1>1. pool' = [r \in DOMAIN pool |-> IF r \in HeldBy(pool, c) THEN Released(pool[r])
                                     ELSE pool[r]]
  BY OldestIsAll DEF ReleaseOne
<1>2. SamePool(DOMAIN pool \ HeldBy(pool, c))
  BY <1>1 DEF SamePool
<1>3. \A r \in HeldBy(pool, c) : pool'[r].holder = NoClient /\ ~pool'[r].locked
  BY <1>0, <1>1 DEF Released, HeldBy, PoolInv, Entry
<1>4. HeldBy(pool', c) = {}
  BY <1>1, <1>2, <1>3, AllocDBAssumption DEF HeldBy, SamePool, AllocDBAssumption
<1>5. \A r \in DOMAIN pool' : ~pool'[r].locked
  BY <1>1, <1>2, <1>3 DEF SamePool, PoolInv
<1>6. AtMostOneEach(pool')
  BY OneEachOps DEF TypeOK, PoolInv
<1> QED BY <1>2, <1>3, <1>4, <1>5, <1>6 DEF PoolInv

LEMMA SweepPool ==
  ASSUME TypeOK, PoolInv, pool' = ReleaseExpired(pool, now)
  PROVE  /\ PoolInv' /\ SamePool({r \in DOMAIN pool : ~AllocExpired(pool[r], now)})
         /\ \A d \in Clients : HeldBy(pool', d) \subseteq HeldBy(pool, d)
<1>0. \A r \in DOMAIN pool : pool[r] \in Entry
  BY EntryOfDB DEF TypeOK
<1>1. pool' = [r \in DOMAIN pool |-> IF AllocExpired(pool[r], now) THEN Released(pool[r])
                                     ELSE pool[r]]
  BY DEF ReleaseExpired
<1>2. SamePool({r \in DOMAIN pool : ~AllocExpired(pool[r], now)})
  BY <1>1 DEF SamePool
<1>3. \A r \in DOMAIN pool : pool'[r].holder \in {pool[r].holder, NoClient} /\ ~pool'[r].locked
  BY <1>0, <1>1 DEF Released, PoolInv, Entry
<1>4. \A d \in Clients : HeldBy(pool', d) \subseteq HeldBy(pool, d)
  BY <1>1, <1>3, AllocDBAssumption DEF HeldBy, AllocDBAssumption
<1>5. AtMostOneEach(pool')
  BY OneEachOps DEF TypeOK, PoolInv
<1> QED BY <1>1, <1>2, <1>3, <1>4, <1>5 DEF PoolInv

LEMMA FreshPool ==
  ASSUME NEW S \in SUBSET Rows
  PROVE  /\ AtMostOneEach(CreateDB(S)) /\ \A r \in DOMAIN CreateDB(S) : ~CreateDB(S)[r].locked
         /\ \A c \in Clients : HeldBy(CreateDB(S), c) = {}
BY AllocDBAssumption DEF CreateDB, AtMostOneEach, IsAllocated, HeldBy, AllocDBAssumption

LEMMA PoolStep ==
  ASSUME TypeOK, PoolInv, [Next]_vars
  PROVE  PoolInv'
<1>1. CASE pool' = pool
  BY <1>1 DEF PoolInv
<1>2. CASE \E c \in Clients : ServerStep(c)
  BY <1>1, <1>2, GrantPool, RenewPool, ReleasePool
     DEF ServerStep, Grant, Refuse, GrantUnheard, HandleRenew, HandleRelease, LoseRenew,
         LoseRelease
<1>3. CASE Cleanup
  BY <1>3, SweepPool DEF Cleanup
<1>4. CASE \E S \in SUBSET Rows : Restart(S)
  BY <1>4, FreshPool DEF Restart, PoolInv
<1>5. CASE \/ \E c \in Clients : ClientStep(c) \/ \E i \in DOMAIN net[c] : Overtake(c, i)
           \/ Tick \/ UNCHANGED vars
  <2>1. pool' = pool
    BY <1>5 DEF ClientStep, Start, FailAsking, StartGame, FailLoading, Renew, FailRenew,
         GameEnds, Release, FailRelease, OrphanEnds, Overtake, Tick, vars
  <2> QED BY <2>1, <1>1
<1> QED BY <1>2, <1>3, <1>4, <1>5 DEF Next

-----------------------------------------------------------------------------
(* FreedInv and LeaseInv are inductive.                                    *)

\* What a step of one client leaves of the others.
Untouched(d) == /\ stage'[d] = stage[d] /\ play'[d] = play[d]
                /\ net'[d] = net[d] /\ Mail(d)' = Mail(d)

LEMMA Others ==
  ASSUME TypeOK, NEW c \in Clients, NEW d \in Clients, d # c, ClientStep(c) \/ ServerStep(c)
  PROVE  Untouched(d) /\ now' = now /\ epoch' = epoch
<1>1. /\ stage'[d] = stage[d] /\ play'[d] = play[d] /\ net'[d] = net[d]
      /\ now' = now /\ epoch' = epoch
  BY DEF ClientStep, Start, FailAsking, Fail, StartGame, FailLoading, Renew, FailRenew,
         GameEnds, Release, FailRelease, OrphanEnds, Send, ServerStep, Grant, Refuse,
         GrantUnheard, HandleRenew, HandleRelease, LoseRenew, LoseRelease, Handle, TypeOK
<1> QED BY <1>1 DEF Untouched, Mail

\* No operation for one client touches what another one holds.
LEMMA OthersPool ==
  ASSUME TypeOK, PoolInv, NEW c \in Clients, NEW d \in Clients, d # c, ServerStep(c)
  PROVE  /\ HeldBy(pool', d) = HeldBy(pool, d)
         /\ \A r \in HeldBy(pool, d) : pool'[r] = pool[r]
<1>1. CASE pool' = pool
  BY <1>1
<1>2. ASSUME NEW r \in Answer(pool, c), pool' = AllocateOne(pool, c, r, now)
      PROVE  /\ HeldBy(pool', d) = HeldBy(pool, d)
             /\ \A q \in HeldBy(pool, d) : pool'[q] = pool[q]
  <2>1. /\ SamePool(DOMAIN pool \ {r}) /\ r \in HeldBy(pool', c)
        /\ pool[r].holder \in {c, NoClient}
    BY <1>2, GrantPool
  <2>2. r \notin HeldBy(pool, d) /\ r \notin HeldBy(pool', d)
    BY <2>1, AllocDBAssumption DEF HeldBy, AllocDBAssumption
  <2> QED BY <2>1, <2>2 DEF HeldBy, SamePool
<1>3. CASE HandleRenew(c)
  <2>1. SamePool(DOMAIN pool \ HeldBy(pool, c)) /\ HeldBy(pool', d) = HeldBy(pool, d)
    BY <1>3, RenewPool DEF HandleRenew
  <2> QED BY <2>1 DEF HeldBy, SamePool
<1>4. CASE HandleRelease(c)
  <2>1. SamePool(DOMAIN pool \ HeldBy(pool, c)) /\ HeldBy(pool', c) = {}
    BY <1>4, ReleasePool DEF HandleRelease
  <2>2. ASSUME NEW r \in DOMAIN pool
        PROVE  pool'[r].holder = d <=> pool[r].holder = d
    <3>1. CASE r \in HeldBy(pool, c)
      <4>1. pool'[r].holder # d
        BY <1>4, <3>1, ReleasePool, AllocDBAssumption DEF HandleRelease, AllocDBAssumption
      <4> QED BY <3>1, <4>1 DEF HeldBy
    <3>2. CASE r \notin HeldBy(pool, c)
      BY <2>1, <3>2 DEF SamePool
    <3> QED BY <3>1, <3>2
  <2> QED BY <2>1, <2>2 DEF HeldBy, SamePool
<1> QED
  BY <1>1, <1>2, <1>3, <1>4 DEF ServerStep, Grant, Refuse, GrantUnheard, LoseRenew, LoseRelease

LEMMA ClientPool ==
  ASSUME NEW c \in Clients, ClientStep(c)
  PROVE  pool' = pool /\ now' = now /\ epoch' = epoch
BY DEF ClientStep, Start, FailAsking, StartGame, FailLoading, Renew, FailRenew,
       GameEnds, Release, FailRelease, OrphanEnds

LEMMA FreedServer ==
  ASSUME TypeOK, PoolInv, MailInv, FreedInv, NEW c \in Clients, ServerStep(c)
  PROVE  FreedInv'
<1>1. ASSUME NEW d \in Clients, d # c, stage'[d] = "off"
      PROVE  HeldBy(pool', d) = {} \/ \E m \in Mail(d)' : m.cmd = "RELEASE"
  BY <1>1, Others, OthersPool DEF FreedInv, Untouched
<1>2. ASSUME stage'[c] = "off"
      PROVE  HeldBy(pool', c) = {} \/ \E m \in Mail(c)' : m.cmd = "RELEASE"
  <2>1. CASE Grant(c) \/ Refuse(c)
    BY <1>2, <2>1 DEF Grant, Refuse, Fail, TypeOK
  <2>2. CASE GrantUnheard(c)
    BY <1>2, <2>2, HandledStage DEF GrantUnheard, Expected
  <2>3. CASE HandleRenew(c)
    <3>1. HeldBy(pool', c) = HeldBy(pool, c) /\ stage[c] = "off"
      BY <1>2, <2>3, RenewPool DEF HandleRenew
    <3>2. \E m \in Mail(c) : m.cmd = "RENEW" /\ Mail(c) \subseteq Mail(c)' \cup {m}
      BY <2>3, MailHandle DEF HandleRenew
    <3> QED BY <3>1, <3>2 DEF FreedInv
  <2>4. CASE HandleRelease(c)
    BY <2>4, ReleasePool DEF HandleRelease
  <2>5. CASE LoseRenew(c)
    <3>1. pool' = pool /\ stage[c] = "off"
      BY <1>2, <2>5 DEF LoseRenew
    <3>2. \E m \in Mail(c) : m.cmd = "RENEW" /\ Mail(c) \subseteq Mail(c)' \cup {m}
      BY <2>5, MailHandle DEF LoseRenew
    <3> QED BY <3>1, <3>2 DEF FreedInv
  <2>6. CASE LoseRelease(c)
    BY <1>2, <2>6 DEF LoseRelease, TypeOK
  <2> QED BY <2>1, <2>2, <2>3, <2>4, <2>5, <2>6 DEF ServerStep
<1> QED BY <1>1, <1>2 DEF FreedInv

LEMMA FreedClient ==
  ASSUME TypeOK, PoolInv, MailInv, FreedInv, NEW c \in Clients, ClientStep(c)
  PROVE  FreedInv'
<1>0. pool' = pool
  BY ClientPool
<1>1. ASSUME NEW d \in Clients, d # c, stage'[d] = "off"
      PROVE  HeldBy(pool', d) = {} \/ \E m \in Mail(d)' : m.cmd = "RELEASE"
  BY <1>0, <1>1, Others DEF FreedInv, Untouched
<1>2. ASSUME stage'[c] = "off"
      PROVE  HeldBy(pool', c) = {} \/ \E m \in Mail(c)' : m.cmd = "RELEASE"
  <2>1. Release(c) \/ \E r \in Rows : OrphanEnds(c, r)
    BY <1>2 DEF ClientStep, Start, FailAsking, Fail, StartGame, FailLoading, Renew, FailRenew,
         GameEnds, FailRelease, TypeOK
  <2>2. CASE Release(c)
    <3>1. [cmd |-> "RELEASE", sent |-> now] \in Mail(c)'
      BY <2>2, MailSend DEF Release
    <3> QED BY <3>1
  <2>3. CASE \E r \in Rows : OrphanEnds(c, r)
    <3>1. stage' = stage /\ net' = net
      BY <2>3 DEF OrphanEnds
    <3>2. Mail(c)' = Mail(c)
      BY <3>1 DEF Mail
    <3> QED BY <1>0, <1>2, <3>1, <3>2 DEF FreedInv
  <2> QED BY <2>1, <2>2, <2>3
<1> QED BY <1>1, <1>2 DEF FreedInv

\* Steps that leave the clients and their messages as they are.
LEMMA QuietMail ==
  ASSUME TypeOK,
         \/ \E c \in Clients : \E i \in DOMAIN net[c] : Overtake(c, i)
         \/ Cleanup \/ Tick \/ UNCHANGED vars
  PROVE  /\ stage' = stage /\ play' = play /\ epoch' = epoch
         /\ \A c \in Clients : Mail(c)' = Mail(c)
         /\ Cleanup \/ pool' = pool
         /\ Tick \/ now' = now
<1>1. CASE \E c \in Clients : \E i \in DOMAIN net[c] : Overtake(c, i)
  BY <1>1, MailOvertake DEF Overtake
<1>2. CASE Cleanup \/ Tick \/ UNCHANGED vars
  <2>1. net' = net
    BY <1>2 DEF Cleanup, Tick, vars
  <2> QED BY <1>2, <2>1 DEF Cleanup, Tick, vars, Mail
<1> QED BY <1>1, <1>2

LEMMA FreedStep ==
  ASSUME TypeOK, PoolInv, MailInv, FreedInv, [Next]_vars
  PROVE  FreedInv'
<1>1. CASE \E c \in Clients : ClientStep(c) \/ ServerStep(c)
  BY <1>1, FreedClient, FreedServer
<1>2. CASE \E S \in SUBSET Rows : Restart(S)
  BY <1>2, FreshPool DEF Restart, FreedInv
<1>3. CASE \/ \E c \in Clients : \E i \in DOMAIN net[c] : Overtake(c, i)
           \/ Cleanup \/ Tick \/ UNCHANGED vars
  <2>1. \A c \in Clients : HeldBy(pool', c) \subseteq HeldBy(pool, c)
    BY <1>3, QuietMail, SweepPool DEF Cleanup
  <2> QED BY <1>3, <2>1, QuietMail DEF FreedInv
<1> QED BY <1>1, <1>2, <1>3 DEF Next

\* One renewal lost uses up one period and one delay.
LEMMA SlackFacts ==
  ASSUME NydusClientAssumption, NEW n \in 0..MaxMisses
  PROVE  /\ Slack(n) \in Nat
         /\ n < MaxMisses => Slack(n) = Slack(n + 1) + (RenewalPeriod + MaxDelay)
<1> DEFINE k == RenewalPeriod + MaxDelay
           Times(m) == m * k
<1>1. k \in Nat /\ MaxMisses \in Nat
  BY DEF NydusClientAssumption
<1>2. Slack(n) = Times(MaxMisses - n) /\ Slack(n + 1) = Times(MaxMisses - (n + 1))
  BY DEF Slack
<1> HIDE DEF k
<1>3. \A m \in Nat : Times(m) \in Nat /\ Times(m + 1) = Times(m) + k
  BY <1>1
<1>4. MaxMisses - n \in Nat
  BY <1>1
<1>5. n < MaxMisses =>
        MaxMisses - (n + 1) \in Nat /\ MaxMisses - n = (MaxMisses - (n + 1)) + 1
  BY <1>1
<1> HIDE DEF Times
<1>6. Slack(n) \in Nat
  BY <1>2, <1>3, <1>4
<1>7. n < MaxMisses => Slack(n) = Slack(n + 1) + k
  BY <1>2, <1>3, <1>5
<1> QED BY <1>6, <1>7 DEF k

\* What LeaseInv says of one client.
LeaseOK(c) ==
  stage[c] \in {"loading", "playing"} =>
    /\ play[c].epoch <= epoch /\ now <= play[c].due
    /\ play[c].due <= now + (IF stage[c] = "playing" THEN RenewalPeriod ELSE MaxLoad)
    /\ play[c].epoch = epoch => Lease(c)

LEMMA PlayType ==
  ASSUME TypeOK, NEW c \in Clients, stage[c] \in {"loading", "playing"}
  PROVE  /\ play[c] \in Plays /\ play[c].due \in Nat /\ play[c].epoch \in Nat
         /\ play[c].missed \in 0..MaxMisses
         /\ play[c].row \in DOMAIN pool => pool[play[c].row].renew \in Nat
<1>1. play[c] \in Plays
  BY DEF TypeOK
<1>2. \A r \in DOMAIN pool : pool[r].renew \in Nat
  BY EntryOfDB DEF TypeOK, Entry
<1> QED BY <1>1, <1>2 DEF Plays

\* A client that a step leaves alone, with the account it holds.
LEMMA LeaseKept ==
  ASSUME NEW c \in Clients, LeaseOK(c), now' = now, epoch' = epoch,
         stage'[c] = stage[c], play'[c] = play[c], Mail(c)' = Mail(c),
         HeldBy(pool, c) \subseteq HeldBy(pool', c),
         \A r \in HeldBy(pool, c) : pool'[r] = pool[r]
  PROVE  LeaseOK(c)'
BY DEF LeaseOK, Lease, InTime

LEMMA LeaseClient ==
  ASSUME TypeOK, NydusClientAssumption, TimingFits, MailInv, LeaseInv,
         NEW c \in Clients, ClientStep(c)
  PROVE  LeaseOK(c)'
<1> DEFINE k == Slack(play[c].missed)
<1>0. LeaseOK(c) /\ pool' = pool /\ now' = now /\ epoch' = epoch
  BY ClientPool DEF LeaseInv, LeaseOK
<1>1. CASE StartGame(c)
  <2>1. /\ stage[c] = "loading" /\ stage'[c] = "playing"
        /\ play'[c] = [play[c] EXCEPT !.due = now]
    BY <1>1 DEF StartGame, TypeOK
  <2>2. play[c] \in Plays /\ play[c].due \in Nat
    BY <2>1, PlayType
  <2>3. /\ play'[c].row = play[c].row /\ play'[c].epoch = play[c].epoch
        /\ play'[c].due = now /\ play'[c].missed = play[c].missed
    BY <2>1, <2>2 DEF Plays
  <2>4. ASSUME play[c].epoch = epoch PROVE Lease(c)'
    <3>1. play[c].row \in HeldBy(pool, c) /\ InTime(play[c].due + k, play[c].row)
      BY <1>0, <2>1, <2>4 DEF LeaseOK, Lease
    <3>2. pool[play[c].row].renew \in Nat
      BY <2>1, <3>1, PlayType DEF HeldBy
    <3>3. (now + k) + MaxDelay <= pool[play[c].row].renew + AllocTimeout
      <4>1. now <= play[c].due /\ now \in Nat /\ MaxDelay \in Nat /\ AllocTimeout \in Nat
        BY <1>0, <2>1, AllocDBAssumption
           DEF LeaseOK, TypeOK, NydusClientAssumption, AllocDBAssumption
      <4>2. k \in Nat
        BY <2>1, PlayType, SlackFacts
      <4> HIDE DEF k
      <4> QED BY <2>2, <3>1, <3>2, <4>1, <4>2 DEF InTime
    <3> QED BY <1>0, <2>3, <3>1, <3>3 DEF Lease, InTime
  <2>5. now <= now + RenewalPeriod /\ now <= now
    BY DEF TypeOK, NydusClientAssumption
  <2> QED BY <1>0, <2>1, <2>3, <2>4, <2>5 DEF LeaseOK
<1>2. CASE Renew(c)
  <2>1. /\ stage[c] = "playing" /\ stage' = stage /\ now >= play[c].due /\ Send(c, "RENEW")
        /\ play'[c] = [play[c] EXCEPT !.due = now + RenewalPeriod]
    BY <1>2 DEF Renew, TypeOK
  <2>2. play[c] \in Plays /\ play[c].due \in Nat
    BY <2>1, PlayType
  <2>3. /\ play'[c].row = play[c].row /\ play'[c].epoch = play[c].epoch
        /\ play'[c].due = now + RenewalPeriod /\ play'[c].missed = play[c].missed
    BY <2>1, <2>2 DEF Plays
  <2>4. Mail(c)' = Mail(c) \cup {[cmd |-> "RENEW", sent |-> now]}
    BY <2>1, MailSend
  <2>5. play[c].due = now
    BY <1>0, <2>1, <2>2 DEF LeaseOK, TypeOK
  <2>6. ASSUME play[c].epoch = epoch PROVE Lease(c)'
    <3>1. /\ play[c].row \in HeldBy(pool, c)
          /\ \/ InTime(now + k, play[c].row)
             \/ \E m \in Mail(c) : InTime(m.sent + k, play[c].row)
      BY <1>0, <2>1, <2>5, <2>6 DEF LeaseOK, Lease
    <3>2. \E m \in Mail(c)' : InTime(m.sent + k, play[c].row)
      <4> DEFINE sent == [cmd |-> "RENEW", sent |-> now]
      <4>1. sent \in Mail(c)' /\ sent.sent = now
        BY <2>4
      <4>2. CASE InTime(now + k, play[c].row)
        BY <4>1, <4>2
      <4>3. CASE \E m \in Mail(c) : InTime(m.sent + k, play[c].row)
        BY <2>4, <4>3
      <4> QED BY <3>1, <4>2, <4>3
    <3> QED BY <1>0, <2>1, <2>3, <3>1, <3>2 DEF Lease, InTime
  <2>7. now <= now + RenewalPeriod /\ now + RenewalPeriod <= now + RenewalPeriod
    BY DEF TypeOK, NydusClientAssumption
  <2> QED BY <1>0, <2>1, <2>3, <2>6, <2>7 DEF LeaseOK
<1>3. CASE \E r \in Rows : OrphanEnds(c, r)
  <2>1. stage' = stage /\ play' = play /\ net' = net
    BY <1>3 DEF OrphanEnds
  <2>2. Mail(c)' = Mail(c)
    BY <2>1 DEF Mail
  <2> QED BY <1>0, <2>1, <2>2, LeaseKept
<1>4. CASE \/ Start(c) \/ FailAsking(c) \/ FailLoading(c) \/ FailRenew(c)
           \/ GameEnds(c) \/ Release(c) \/ FailRelease(c)
  <2>1. stage'[c] \notin {"loading", "playing"}
    BY <1>4 DEF Start, FailAsking, Fail, FailLoading, FailRenew, GameEnds, Release,
         FailRelease, TypeOK
  <2> QED BY <2>1 DEF LeaseOK
<1> QED BY <1>1, <1>2, <1>3, <1>4 DEF ClientStep

LEMMA MailTimes ==
  ASSUME TypeOK, MailInv, NEW c \in Clients, NEW m \in Mail(c)
  PROVE  m.sent \in Nat /\ m.sent <= now /\ now <= m.sent + MaxDelay
<1>1. PICK i \in DOMAIN net[c] : m = net[c][i]
  BY DEF Mail
<1>2. net[c] \in Seq(Messages)
  BY DEF TypeOK
<1>3. m \in Messages
  BY <1>1, <1>2
<1> QED BY <1>3 DEF MailInv, Messages

\* A renewal is lost: the next one is due within a period.
LEMMA LeaseLoss ==
  ASSUME TypeOK, NydusClientAssumption, MailInv, LeaseInv, NEW c \in Clients, LoseRenew(c)
  PROVE  LeaseOK(c)'
<1>0. LeaseOK(c) /\ stage' = stage /\ now' = now /\ epoch' = epoch /\ pool' = pool
  BY DEF LeaseInv, LeaseOK, LoseRenew
<1> SUFFICES ASSUME stage[c] \in {"loading", "playing"} PROVE LeaseOK(c)'
  BY <1>0 DEF LeaseOK
<1> DEFINE n == play[c].missed
           R == pool[play[c].row].renew
           D == play[c].due
<1>1. play[c] \in Plays /\ play[c] # NoPlay
  BY PlayType, PlayFacts
<1>2. play[c].missed < MaxMisses /\ play'[c] = [play[c] EXCEPT !.missed = n + 1]
  BY <1>1 DEF LoseRenew, TypeOK
<1>3. /\ play'[c].row = play[c].row /\ play'[c].epoch = play[c].epoch
      /\ play'[c].due = play[c].due /\ play'[c].missed = n + 1
  BY <1>1, <1>2 DEF Plays
<1>4. /\ n \in 0..MaxMisses /\ n + 1 \in 0..MaxMisses
  BY <1>1, <1>2 DEF Plays, NydusClientAssumption
<1>5. /\ Slack(n + 1) \in Nat /\ Slack(n) \in Nat
      /\ Slack(n) = Slack(n + 1) + (RenewalPeriod + MaxDelay)
  BY <1>2, <1>4, SlackFacts
<1>6. /\ D \in Nat /\ now \in Nat /\ RenewalPeriod \in Nat /\ MaxDelay \in Nat
      /\ AllocTimeout \in Nat
      /\ play[c].row \in DOMAIN pool => R \in Nat
  BY PlayType, AllocDBAssumption DEF TypeOK, NydusClientAssumption, AllocDBAssumption
<1>7. ASSUME play[c].epoch = epoch PROVE Lease(c)'
  <2>1. /\ play[c].row \in HeldBy(pool, c)
        /\ \/ InTime(D + Slack(n), play[c].row)
           \/ stage[c] = "playing" /\ \E m \in Mail(c) : InTime(m.sent + Slack(n), play[c].row)
    BY <1>0, <1>7 DEF LeaseOK, Lease
  <2>2. R \in Nat
    BY <1>6, <2>1 DEF HeldBy
  <2>3. PICK lost \in Mail(c) : Mail(c) \subseteq Mail(c)' \cup {lost}
    BY MailHandle DEF LoseRenew
  <2>4. ASSUME NEW m \in Mail(c), InTime(m.sent + Slack(n), play[c].row)
        PROVE  InTime(m.sent + Slack(n + 1), play[c].row)
    <3>1. m.sent \in Nat /\ (m.sent + Slack(n)) + MaxDelay <= R + AllocTimeout
      BY <2>4, MailTimes DEF InTime
    <3> HIDE DEF R, n
    <3>2. (m.sent + Slack(n + 1)) + MaxDelay <= R + AllocTimeout
      BY <1>5, <1>6, <2>2, <3>1
    <3> QED BY <3>2 DEF InTime, R
  <2>5. CASE InTime(D + Slack(n), play[c].row)
    <3>1. (D + Slack(n)) + MaxDelay <= R + AllocTimeout
      BY <2>5 DEF InTime
    <3> HIDE DEF R, n, D
    <3>2. (D + Slack(n + 1)) + MaxDelay <= R + AllocTimeout
      BY <1>5, <1>6, <2>2, <3>1
    <3>3. InTime(D + Slack(n + 1), play[c].row)
      BY <3>2 DEF InTime, R
    <3> QED BY <1>0, <1>3, <2>1, <3>3 DEF Lease, InTime, D
  <2>6. CASE /\ stage[c] = "playing"
             /\ \E m \in Mail(c) : m # lost /\ InTime(m.sent + Slack(n), play[c].row)
    <3>1. PICK m \in Mail(c)' : InTime(m.sent + Slack(n + 1), play[c].row)
      BY <2>3, <2>4, <2>6
    <3> QED BY <1>0, <1>3, <2>1, <2>6, <3>1 DEF Lease, InTime
  <2>7. CASE stage[c] = "playing" /\ InTime(lost.sent + Slack(n), play[c].row)
    <3>1. (lost.sent + Slack(n)) + MaxDelay <= R + AllocTimeout
      BY <2>7 DEF InTime
    <3>2. lost.sent \in Nat /\ now <= lost.sent + MaxDelay
      BY <2>3, MailTimes
    <3>3. D <= now + RenewalPeriod
      BY <1>0, <2>7 DEF LeaseOK
    <3> HIDE DEF R, n, D
    <3>4. (D + Slack(n + 1)) + MaxDelay <= R + AllocTimeout
      BY <1>5, <1>6, <2>2, <3>1, <3>2, <3>3
    <3>5. InTime(D + Slack(n + 1), play[c].row)
      BY <3>4 DEF InTime, R
    <3> QED BY <1>0, <1>3, <2>1, <3>5 DEF Lease, InTime, D
  <2> QED BY <2>1, <2>5, <2>6, <2>7
<1> QED BY <1>0, <1>3, <1>7 DEF LeaseOK

LEMMA LeaseServer ==
  ASSUME TypeOK, NydusClientAssumption, TimingFits, PoolInv, MailInv, LeaseInv,
         NEW c \in Clients, ServerStep(c)
  PROVE  LeaseOK(c)'
<1>0. LeaseOK(c)
  BY DEF LeaseInv, LeaseOK
<1>z. Slack(0) \in Nat
  BY SlackFacts DEF NydusClientAssumption
<1>1. CASE Grant(c)
  <2>1. PICK r \in Answer(pool, c) :
               /\ pool' = AllocateOne(pool, c, r, now)
               /\ play'[c] = [row |-> r, epoch |-> epoch, due |-> now + MaxLoad, missed |-> 0]
    BY <1>1 DEF Grant, TypeOK
  <2>2. /\ stage'[c] = "loading" /\ now' = now /\ epoch' = epoch
    BY <1>1 DEF Grant, TypeOK
  <2>3. r \in HeldBy(pool', c) /\ pool'[r].renew = now
    BY <2>1, GrantPool
  <2>4. /\ ((now + MaxLoad) + Slack(0)) + MaxDelay <= now + AllocTimeout
        /\ now <= now + MaxLoad /\ epoch <= epoch
    BY <1>z, AllocDBAssumption DEF TypeOK, NydusClientAssumption, TimingFits, AllocDBAssumption
  <2>5. /\ play'[c].row = r /\ play'[c].epoch = epoch /\ play'[c].due = now + MaxLoad
        /\ play'[c].missed = 0
    BY <2>1
  <2>6. now + MaxLoad <= now + MaxLoad
    BY DEF TypeOK, NydusClientAssumption
  <2>7. Lease(c)'
    BY <2>3, <2>4, <2>5 DEF Lease, InTime
  <2> QED BY <2>2, <2>4, <2>5, <2>6, <2>7 DEF LeaseOK
<1>2. CASE Refuse(c)
  BY <1>2 DEF Refuse, Fail, LeaseOK, TypeOK
<1>3. CASE GrantUnheard(c)
  <2>1. stage'[c] = "failed"
    <3>1. Handle(c, "unheard") /\ stage' = stage
      BY <1>3 DEF GrantUnheard
    <3>2. "unheard" \in Expected(stage[c])
      BY <3>1, HandledStage
    <3>3. stage[c] = "failed"
      BY <3>2 DEF Expected
    <3> QED BY <3>1, <3>3
  <2> QED BY <2>1 DEF LeaseOK
<1>4. CASE HandleRelease(c)
  <2>1. stage'[c] \in {"off", "failed"}
    <3>1. Handle(c, "RELEASE") /\ stage' = stage
      BY <1>4 DEF HandleRelease
    <3>2. "RELEASE" \in Expected(stage[c])
      BY <3>1, HandledStage
    <3>3. stage[c] \in {"off", "failed"}
      BY <3>2 DEF Expected
    <3> QED BY <3>1, <3>3
  <2> QED BY <2>1 DEF LeaseOK
<1>5. CASE HandleRenew(c)
  <2>1. stage' = stage /\ now' = now /\ epoch' = epoch
    BY <1>5 DEF HandleRenew
  <2>p. ASSUME stage[c] \in {"loading", "playing"}
        PROVE  /\ play'[c].row = play[c].row /\ play'[c].epoch = play[c].epoch
               /\ play'[c].due = play[c].due /\ play'[c].missed = 0
    <3>1. play[c] \in Plays /\ play'[c] = [play[c] EXCEPT !.missed = 0]
      BY <1>5, <2>p, PlayType DEF HandleRenew, TypeOK
    <3> QED BY <3>1 DEF Plays
  <2>2. /\ HeldBy(pool', c) = HeldBy(pool, c)
        /\ \A r \in HeldBy(pool, c) : pool'[r].renew = now
    BY <1>5, RenewPool DEF HandleRenew
  <2>3. ASSUME stage[c] \in {"loading", "playing"}, play[c].epoch = epoch PROVE Lease(c)'
    <3>1. play[c].row \in HeldBy(pool', c) /\ pool'[play[c].row].renew = now
      BY <1>0, <2>2, <2>3 DEF LeaseOK, Lease
    <3>2. (play[c].due + Slack(0)) + MaxDelay <= now + AllocTimeout
      <4>1. play[c].due \in Nat
        BY <2>3, PlayType
      <4>2. play[c].due <= now + (IF stage[c] = "playing" THEN RenewalPeriod ELSE MaxLoad)
        BY <1>0, <2>3 DEF LeaseOK
      <4> QED BY <1>z, <4>1, <4>2, AllocDBAssumption
               DEF TypeOK, NydusClientAssumption, TimingFits, AllocDBAssumption
    <3> QED BY <2>1, <2>p, <2>3, <3>1, <3>2 DEF Lease, InTime
  <2> QED BY <1>0, <2>1, <2>p, <2>3 DEF LeaseOK
<1>6. CASE LoseRenew(c)
  BY <1>6, LeaseLoss
<1>7. CASE LoseRelease(c)
  <2>1. stage[c] \in {"off", "failed"}
    <3>1. "RELEASE" \in Expected(stage[c])
      BY <1>7, HandledStage DEF LoseRelease
    <3> QED BY <3>1 DEF Expected
  <2>2. stage'[c] = "failed"
    BY <1>7, <2>1 DEF LoseRelease, TypeOK
  <2> QED BY <2>2 DEF LeaseOK
<1> QED BY <1>1, <1>2, <1>3, <1>4, <1>5, <1>6, <1>7 DEF ServerStep

\* Cleanup comes too early for an account in use.
LEMMA LeaseHolds ==
  ASSUME TypeOK, NydusClientAssumption, MailInv, LeaseInv, NEW c \in Clients,
         stage[c] \in {"loading", "playing"}, play[c].epoch = epoch
  PROVE  play[c].row \in DOMAIN pool /\ ~AllocExpired(pool[play[c].row], now)
<1> DEFINE R == pool[play[c].row].renew
           k == Slack(play[c].missed)
<1>1. Lease(c) /\ now <= play[c].due
  BY DEF LeaseInv
<1>2. /\ play[c].row \in DOMAIN pool /\ R \in Nat /\ play[c].due \in Nat
      /\ now \in Nat /\ MaxDelay \in Nat /\ AllocTimeout \in Nat
  BY <1>1, PlayType, AllocDBAssumption
     DEF Lease, HeldBy, TypeOK, NydusClientAssumption, AllocDBAssumption
<1>s. k \in Nat
  BY PlayType, SlackFacts
<1> HIDE DEF k
<1>3. CASE InTime(play[c].due + k, play[c].row)
  <2>1. (play[c].due + k) + MaxDelay <= R + AllocTimeout
    BY <1>3 DEF InTime
  <2> HIDE DEF R
  <2>2. ~(now > R + AllocTimeout)
    BY <1>s, <1>1, <1>2, <2>1
  <2> QED BY <1>2, <2>2 DEF AllocExpired, R
<1>4. ASSUME NEW m \in Mail(c), InTime(m.sent + k, play[c].row)
      PROVE  ~AllocExpired(pool[play[c].row], now)
  <2>1. (m.sent + k) + MaxDelay <= R + AllocTimeout
    BY <1>4 DEF InTime
  <2>2. m.sent \in Nat /\ now <= m.sent + MaxDelay
    BY MailTimes
  <2> HIDE DEF R
  <2>3. ~(now > R + AllocTimeout)
    BY <1>s, <1>2, <2>1, <2>2
  <2> QED BY <2>3 DEF AllocExpired, R
<1> QED BY <1>1, <1>2, <1>3, <1>4 DEF Lease, k

LEMMA LeaseStep ==
  ASSUME TypeOK, NydusClientAssumption, TimingFits, PoolInv, MailInv, LeaseInv, [Next]_vars
  PROVE  LeaseInv'
<1> SUFFICES ASSUME NEW d \in Clients PROVE LeaseOK(d)'
  BY DEF LeaseInv, LeaseOK
<1>0. LeaseOK(d)
  BY DEF LeaseInv, LeaseOK
<1>1. ASSUME NEW c \in Clients, ClientStep(c) PROVE LeaseOK(d)'
  <2>1. CASE d = c
    BY <1>1, <2>1, LeaseClient
  <2>2. CASE d # c
    BY <1>0, <1>1, <2>2, Others, ClientPool, LeaseKept DEF Untouched
  <2> QED BY <2>1, <2>2
<1>2. ASSUME NEW c \in Clients, ServerStep(c) PROVE LeaseOK(d)'
  <2>1. CASE d = c
    BY <1>2, <2>1, LeaseServer
  <2>2. CASE d # c
    BY <1>0, <1>2, <2>2, Others, OthersPool, LeaseKept DEF Untouched
  <2> QED BY <2>1, <2>2
<1>3. CASE Cleanup
  <2>1. /\ stage' = stage /\ play' = play /\ epoch' = epoch /\ now' = now
        /\ Mail(d)' = Mail(d)
    BY <1>3, QuietMail DEF Cleanup
  <2>2. ASSUME stage[d] \in {"loading", "playing"}, play[d].epoch = epoch PROVE Lease(d)'
    <3>1. play[d].row \in DOMAIN pool /\ ~AllocExpired(pool[play[d].row], now)
      BY <2>2, LeaseHolds
    <3>2. pool'[play[d].row] = pool[play[d].row] /\ DOMAIN pool' = DOMAIN pool
      BY <1>3, <3>1, SweepPool DEF Cleanup, SamePool
    <3>3. Lease(d)
      BY <1>0, <2>2 DEF LeaseOK
    <3> QED BY <2>1, <3>1, <3>2, <3>3 DEF Lease, InTime, HeldBy
  <2> QED BY <1>0, <2>1, <2>2 DEF LeaseOK
<1>4. CASE \E S \in SUBSET Rows : Restart(S)
  <2>1. /\ epoch' = epoch + 1 /\ now' = now /\ play' = play
        /\ stage'[d] \in {"loading", "playing"} => stage'[d] = stage[d]
    BY <1>4 DEF Restart, TypeOK
  <2>2. stage[d] \in {"loading", "playing"} =>
          play[d].epoch <= epoch + 1 /\ play[d].epoch # epoch + 1
    BY <1>0, PlayType DEF LeaseOK, TypeOK
  <2> QED BY <1>0, <2>1, <2>2 DEF LeaseOK
<1>5. CASE Tick
  <2>1. /\ stage' = stage /\ play' = play /\ epoch' = epoch /\ now' = now + 1
        /\ Mail(d)' = Mail(d) /\ pool' = pool
        /\ stage[d] \in {"loading", "playing"} => now < play[d].due
    BY <1>5, QuietMail DEF Tick
  <2>2. ASSUME stage[d] \in {"loading", "playing"}
        PROVE  /\ now + 1 <= play[d].due
               /\ play[d].due <= (now + 1) + (IF stage[d] = "playing" THEN RenewalPeriod ELSE MaxLoad)
    BY <1>0, <2>1, <2>2, PlayType DEF LeaseOK, TypeOK, NydusClientAssumption
  <2>3. Lease(d) => Lease(d)'
    BY <2>1 DEF Lease, InTime
  <2> QED BY <1>0, <2>1, <2>2, <2>3 DEF LeaseOK
<1>6. CASE \/ \E c \in Clients : \E i \in DOMAIN net[c] : Overtake(c, i)
           \/ UNCHANGED vars
  <2>1. /\ stage' = stage /\ play' = play /\ epoch' = epoch /\ now' = now
        /\ Mail(d)' = Mail(d) /\ pool' = pool
    BY <1>6, QuietMail DEF Overtake, vars
  <2> QED BY <1>0, <2>1, LeaseKept
<1> QED BY <1>1, <1>2, <1>3, <1>4, <1>5, <1>6 DEF Next

-----------------------------------------------------------------------------
(* The theorems.                                                           *)

Inv == TypeOK /\ PoolInv /\ MailInv /\ FreedInv

LEMMA InvInit == ASSUME NydusClientAssumption, Init PROVE PoolInv /\ MailInv /\ FreedInv /\ LeaseInv
<1>1. PoolInv /\ FreedInv
  BY FreshPool DEF Init, PoolInv, FreedInv
<1>2. \A c \in Clients : stage[c] = "off" /\ Mail(c) = {}
  BY DEF Init, Mail
<1> QED BY <1>1, <1>2 DEF MailInv, LeaseInv

\* The invariant that needs no condition on the periods.
THEOREM ClientInvariant ==
  ASSUME MaxWaiting = 1
  PROVE  Spec => []Inv
<1>1. Init => Inv
  BY NydusClientAssumption, InvInit, PlayFacts, CreateIsDB DEF Init, TypeOK, Stages, Inv
<1>2. Inv /\ [Next]_vars => Inv'
  BY NydusClientAssumption, TypeStep, PoolStep, MailStep, FreedStep DEF Inv
<1> QED BY <1>1, <1>2, PTL DEF Spec

\* A client that ended as it should leaves nothing allocated, provided its user does
\* not start it again before its last messages were handled.
THEOREM NothingLeftBehind ==
  ASSUME MaxWaiting = 1
  PROVE  Spec => []ReleasedAtEnd
<1>1. Inv => ReleasedAtEnd
  BY DEF Inv, FreedInv, Mail, ReleasedAtEnd
<1> QED BY <1>1, ClientInvariant, PTL

\* While it installs and plays, a client holds its account, if the renewal period and
\* the delays fit the timeout and its user does not start it again too early.
THEOREM AccountIsHeld ==
  ASSUME MaxWaiting = 1
  PROVE  Spec => []PlaysWhatItHolds
<1>1. CASE TimingFits
  <2>1. Init => LeaseInv
    BY NydusClientAssumption, InvInit
  <2>2. Inv /\ LeaseInv /\ [Next]_vars => LeaseInv'
    BY <1>1, NydusClientAssumption, LeaseStep DEF Inv
  <2>3. LeaseInv => PlaysWhatItHolds
    BY DEF LeaseInv, Lease, PlaysWhatItHolds
  <2> QED BY <2>1, <2>2, <2>3, ClientInvariant, PTL DEF Spec
<1>2. CASE ~TimingFits
  <2>1. PlaysWhatItHolds
    BY <1>2 DEF PlaysWhatItHolds
  <2> QED BY <2>1, PTL
<1> QED BY <1>1, <1>2
==============================================================================
