---------------------------- MODULE AccountTokens ----------------------------
(***************************************************************************)
(* The tokens of the accounts, from the sign-in at start-up to their       *)
(* renewal in every cleanup: MSAL gives the token that Xbox Live wants,    *)
(* Xbox Live the one for XSTS, XSTS the one for Minecraft, and the client  *)
(* is sent the Minecraft token of the row's account.                       *)
(*                                                                         *)
(* Times are what is left until then, so that the clock needs no bound.    *)
(* Allocations are NydusServer's subject and left out.                     *)
(***************************************************************************)
EXTENDS Integers, SequencesExt

CONSTANTS
    None,
    Users,          \* the lines of the accounts file
    Period,         \* CLEANUP_PERIOD
    Wait,           \* MC_WAIT_DURATION
    Life,           \* [link -> how long its tokens are good for]
    Zone,           \* how far the server's clock shows more than UTC
    Misses,         \* how many cleanups in a row may fail for an account
    Outages,        \* [account -> the sets of links that may fail together]
    ChunkSize,      \* CHUNK_SIZE
    OldFiles,       \* the tokens the last server may have left in the allocation file
    Entry           \* how much one account adds to the serialised cache

Links == <<"msal", "xboxlive", "xsts", "minecraft">>
Fields == Range(Links) \cup {"account"}
Xbox == {"xboxlive", "xsts"}
UserSet == Range(Users)

\* The tokens of some of the accounts.
IsRows(rows) == \E S \in SUBSET UserSet : rows \in [S -> [Fields -> Int]]

ASSUME TokenAssumption ==
    /\ Users \in Seq(UserSet) /\ \A rows \in OldFiles : IsRows(rows)
    /\ ~IsRows(None) /\ None \notin UserSet
    /\ Period \in Nat \ {0} /\ Wait \in Nat \ {0} /\ Misses \in Nat
    /\ Zone \in Int /\ ChunkSize \in Nat \ {0} /\ Entry \in Nat \ {0}
    /\ Life \in [Range(Links) -> Nat \ {0}]
    /\ Outages \in [UserSet -> SUBSET SUBSET Range(Links)]

VARIABLES
    stage,      \* of the main process: "off", "interactive", then for each account
                \* "auth", "minecraft", "details", and "serving"
    sub,        \* the process for signing in: "none", "signing", "sending", "done", "dead"
    todo,       \* what the sign-in, the authentication or the cleanup still has to do
    signed,     \* the accounts in the subprocess's own MSAL cache
    sending,    \* the chunks the subprocess has still to send
    queue,      \* the multiprocessing.Queue
    heard,      \* new_cache
    cache,      \* the MSAL cache of the server: [account -> what is left of its token]
    file,       \* the tokens in the allocation file
    copy,       \* the rows of the running cleanup (of auth_all), or None
    limited,    \* ~all_succeeded
    sleeping,   \* when the cleanup threads that wait will go on
    next,       \* when the main thread starts the next one
    since,      \* how long ago the account signed in, or the last cleanup began that
                \* nothing disturbed for it
    troubled    \* accounts disturbed in this cleanup

startup == <<sub, signed, sending, queue, heard>>
cleaning == <<limited, sleeping, next, since, troubled>>
vars == <<stage, todo, startup, cache, file, copy, cleaning>>

NoCache == [u \in {} |-> 0]

\* How long an account goes without a cleanup that nothing disturbs.
Grace == (Misses + 1) * Period

-----------------------------------------------------------------------------
(* Tokens. Xbox writes its expiry in UTC, and the server compares it with   *)
(* its own clock as if it were local time.                                  *)

ParseXboxTimestamp(left) == left - Zone

Recorded(l, left) == IF l \in Xbox THEN ParseXboxTimestamp(left) ELSE left
ReallyLeft(t, f) == IF f \in Xbox THEN t[f] + Zone ELSE t[f]

IsExpired(left) == left < 0

OneInterval(l) == 1
NumIntervals(l) == IF l = "msal" THEN 1 ELSE 2

NeedsRenewal(t, l) == IsExpired(t[l]) \/ NumIntervals(l) * Period > t[l]

\* Time goes by. Nothing distinguishes tokens that expired some time ago, nor
\* accounts that have gone without a cleanup for longer than the grace.
Floor == IF Zone > 0 THEN -1 - Zone ELSE -1
Older(left) == IF left > Floor THEN left - 1 ELSE left
OlderRows(rows) == [u \in DOMAIN rows |-> [f \in Fields |-> Older(rows[u][f])]]
OlderCache == [u \in DOMAIN cache |-> Older(cache[u])]
Longer(n) == IF n > Grace THEN n ELSE n + 1

\* acquire_token_silent asks for a token only when its own is about to expire.
GetTokMsal(u) == IF cache[u] > 0 THEN cache[u] ELSE Life["msal"]

Updated(t, l, left) ==
    [f \in Fields |-> IF f = l \/ (l = "minecraft" /\ f = "account") THEN left ELSE t[f]]

\* Renewal of t by one link, given by its service unless that fails or the
\* token it wants as proof (what is before is left of that one) is no good.
RenewLink(t, l, before, fails, left) ==
    IF NeedsRenewal(t, l) /\ before >= 0 /\ l \notin fails THEN Updated(t, l, left) ELSE t

\* The links in their order, each with what the one before it has by then.
RenewChain(t, known, fails, left) ==
    LET m == RenewLink(t, "msal", IF known THEN 0 ELSE -1, fails, left)
        x == RenewLink(m, "xboxlive", m["msal"], fails, Recorded("xboxlive", Life["xboxlive"]))
        s == RenewLink(x, "xsts", ReallyLeft(x, "xboxlive"), fails, Recorded("xsts", Life["xsts"]))
    IN  RenewLink(s, "minecraft", ReallyLeft(s, "xsts"), fails, Life["minecraft"])

-----------------------------------------------------------------------------
(* Start-up.                                                                *)

\* Text is a sequence of <<account, k>>, the k-th of what the account adds;
\* None's are the brackets around the accounts, and what SEND_DONE is made of.
EntryOf(u) == [k \in 1..Entry |-> <<u, k>>]
Serialize(accounts) ==
    << <<None, 0>> >>
      \o FlattenSeq([i \in DOMAIN Users |-> IF Users[i] \in accounts THEN EntryOf(Users[i]) ELSE <<>>])
      \o << <<None, 1>> >>

FullChunks(serial) ==
    [i \in 1..(Len(serial) \div ChunkSize) |-> SubSeq(serial, (i - 1) * ChunkSize + 1, i * ChunkSize)]
\* The last chunk may be empty.
Chunks(serial) ==
    [i \in 1..(Len(serial) \div ChunkSize + 1) |->
        SubSeq(serial, (i - 1) * ChunkSize + 1, IF i * ChunkSize < Len(serial) THEN i * ChunkSize ELSE Len(serial))]

SendDone == << <<None, 2>> >>

NoStartup ==
    /\ sub' = "none" /\ signed' = {} /\ sending' = <<>> /\ queue' = <<>> /\ heard' = <<>>

Init ==
    /\ stage = "off" /\ todo = <<>> /\ cache = NoCache /\ copy = None
    /\ sub = "none" /\ signed = {} /\ sending = <<>> /\ queue = <<>> /\ heard = <<>>
    /\ file \in OldFiles
    /\ limited = FALSE /\ sleeping = {} /\ next = Period /\ troubled = {}
    /\ since = [u \in UserSet |-> 0]

\* main starts a subprocess that asks the users to sign in, one after another.
Start ==
    /\ stage = "off"
    /\ stage' = "interactive" /\ sub' = "signing" /\ todo' = Users
    /\ UNCHANGED <<signed, sending, queue, heard, cache, file, copy, cleaning>>

SignIn ==
    /\ sub = "signing" /\ todo # <<>>
    /\ \/ signed' = signed \cup {Head(todo)}
       \/ UNCHANGED signed
    /\ todo' = Tail(todo)
    /\ UNCHANGED <<stage, sub, sending, queue, heard, cache, file, copy, cleaning>>

SerializeOnly ==
    /\ sub = "signing" /\ todo = <<>>
    /\ sub' = "sending"
    /\ sending' = Chunks(Serialize(signed))
    /\ UNCHANGED <<stage, todo, signed, queue, heard, cache, file, copy, cleaning>>
SerializeCache ==
    /\ sub = "signing" /\ todo = <<>>
    /\ sub' = "sending"
    /\ sending' = Chunks(Serialize(signed)) \o <<SendDone>>
    /\ UNCHANGED <<stage, todo, signed, queue, heard, cache, file, copy, cleaning>>
Put ==
    /\ sub = "sending"
    /\ IF sending = <<>>
       THEN sub' = "done" /\ UNCHANGED <<sending, queue>>
       ELSE /\ queue' = Append(queue, Head(sending))
            /\ sending' = Tail(sending)
            /\ UNCHANGED sub
    /\ UNCHANGED <<stage, todo, signed, heard, cache, file, copy, cleaning>>

\* No browser, no such uid, the window closed, an answer that is no token, ...
SubprocessDies ==
    /\ sub \in {"signing", "sending"}
    /\ sub' = "dead"
    /\ UNCHANGED <<stage, todo, signed, sending, queue, heard, cache, file, copy, cleaning>>

GetChunk ==
    /\ stage = "interactive" /\ queue # <<>> /\ Head(queue) # SendDone
    /\ heard' = heard \o Head(queue)
    /\ queue' = Tail(queue)
    /\ UNCHANGED <<stage, sub, todo, signed, sending, cache, file, copy, cleaning>>

\* The server starts to serve; the first cleanup thread is started at once.
Serve(rows) ==
    /\ NoStartup
    /\ stage' = "serving" /\ file' = rows /\ copy' = None /\ todo' = <<>>
    /\ sleeping' = {0} /\ next' = Period
    /\ limited' = FALSE /\ troubled' = {}

\* SEND_DONE is next, and p.join returns.
AllHeard == /\ stage = "interactive" /\ queue # <<>> /\ Head(queue) = SendDone
            /\ sub \in {"done", "dead"}

\* After SEND_DONE the cache is read, and everybody in the file authenticated.
Deserialize ==
    /\ AllHeard
    /\ queue' = Tail(queue)
    /\ \E accounts \in SUBSET UserSet :
         /\ heard = Serialize(accounts)
         /\ cache' = [u \in accounts |-> Life["msal"]]
    /\ stage' = "auth" /\ todo' = Users /\ copy' = NoCache
    /\ UNCHANGED <<sub, signed, sending, heard, file, cleaning>>

\* initialise_accounts raises, for instance because a line of the accounts file
\* is no username. The server serves what the last one left, and its own MSAL
\* knows nobody.
StartAnyway ==
    /\ stage = "off"
    /\ cache' = NoCache
    /\ Serve(file)
    /\ UNCHANGED since

Authenticating == stage \in {"auth", "minecraft", "details"}
Others == DOMAIN copy \ {Head(todo)}
\* get_tok_msal for the next user.
MsalAsked == [u \in DOMAIN cache |-> IF u = Head(todo) THEN GetTokMsal(u) ELSE cache[u]]

\* auth_stream for the next user: what MSAL, Xbox Live and XSTS give.
AuthXbox ==
    /\ stage = "auth" /\ todo # <<>>
    /\ LET u == Head(todo) IN
         /\ u \in DOMAIN cache
         /\ copy' = [v \in DOMAIN copy \cup {u} |->
                        IF v # u THEN copy[v]
                        ELSE [f \in Fields |-> CASE f = "msal" -> GetTokMsal(u)
                                                 [] f \in Xbox -> Recorded(f, Life[f])
                                                 [] OTHER -> 0]]
         /\ since' = [since EXCEPT ![u] = 0]
    /\ stage' = "minecraft" /\ cache' = MsalAsked
    /\ UNCHANGED <<startup, todo, file, limited, sleeping, next, troubled>>

\* Minecraft's token, for an XSTS token that is good.
GetTokMinecraft ==
    /\ stage = "minecraft" /\ ReallyLeft(copy[Head(todo)], "xsts") >= 0
    /\ copy' = [copy EXCEPT ![Head(todo)] = Updated(@, "minecraft", Life["minecraft"])]
    /\ stage' = "details"
    /\ UNCHANGED <<startup, todo, cache, file, cleaning>>

\* The player's name and uuid, for a Minecraft token that is good.
GetMinecraftDetails ==
    /\ stage = "details" /\ copy[Head(todo)]["minecraft"] >= 0
    /\ stage' = "auth" /\ todo' = Tail(todo)
    /\ UNCHANGED <<startup, cache, file, copy, cleaning>>

\* 429 from Minecraft: with block_wait they ask again, for as long as it takes.
RateLimited ==
    /\ stage \in {"minecraft", "details"}
    /\ copy' = OlderRows(copy) /\ cache' = OlderCache
    /\ since' = [u \in UserSet |-> Longer(since[u])]
    /\ UNCHANGED <<stage, todo, startup, file, limited, sleeping, next, troubled>>

\* Whatever fails costs this user's row only.
AuthFailsKept(stages) ==
    /\ stage \in stages /\ todo # <<>>
    /\ copy' = [v \in DOMAIN copy \cup {Head(todo)} |-> IF v \in Others THEN copy[v] ELSE None]
    /\ cache' \in {cache} \cup {c \in {MsalAsked} : stage = "auth"}
    /\ stage' = "auth" /\ todo' = Tail(todo)
    /\ UNCHANGED <<startup, file, cleaning>>
AuthFails(stages) ==
    /\ stage \in stages /\ todo # <<>>
    /\ copy' = [v \in Others |-> copy[v]]
    /\ cache' \in {cache} \cup {c \in {MsalAsked} : stage = "auth"}
    /\ stage' = "auth" /\ todo' = Tail(todo)
    /\ UNCHANGED <<startup, file, cleaning>>

CreateDB ==
    /\ stage = "auth" /\ todo = <<>>
    /\ Serve(copy)
    /\ UNCHANGED <<cache, since>>

-----------------------------------------------------------------------------
(* Cleanup. It holds ALLOCDB_LOCK while it runs and takes no time against   *)
(* the period; only the wait after a rate limit does.                       *)

Serving == stage = "serving"

StartCleanup ==
    /\ Serving /\ copy = None /\ 0 \in sleeping
    /\ sleeping' = sleeping \ {0}
    /\ copy' = file
    /\ todo' = Users
    /\ limited' = FALSE /\ troubled' = {}
    /\ UNCHANGED <<stage, startup, cache, file, next, since>>

\* What the services may do to an account: the next cleanup will be in time.
MayFail(u) == since[u] + next <= (Misses + 1) * Period

\* renew_tokens for one account: whatever fails is logged and passed over; a
\* rate limit at Minecraft is remembered.
RenewAccount(u) ==
    /\ Serving /\ copy # None /\ todo # <<>> /\ Head(todo) = u /\ u \in DOMAIN copy
    /\ todo' = Tail(todo)
    /\ \E fails \in {{}} \cup Outages[u] :
         LET known == u \in DOMAIN cache
             got == IF known THEN GetTokMsal(u) ELSE 0
         IN  /\ fails # {} => MayFail(u)
             /\ copy' = [copy EXCEPT ![u] = RenewChain(@, known, fails, got)]
             /\ cache' = IF known /\ NeedsRenewal(copy[u], "msal") /\ "msal" \notin fails
                         THEN [cache EXCEPT ![u] = got] ELSE cache
             /\ troubled' = IF fails = {} THEN troubled ELSE troubled \cup {u}
             /\ limited' \in {limited} \cup {x \in {TRUE} : "minecraft" \in fails}
    /\ UNCHANGED <<stage, startup, file, sleeping, next, since>>

\* A user whose row the file does not have is passed over.
NoRow ==
    /\ Serving /\ copy # None /\ todo # <<>> /\ Head(todo) \notin DOMAIN copy
    /\ todo' = Tail(todo)
    /\ UNCHANGED <<stage, startup, file, cache, copy, cleaning>>

EndCleanup ==
    /\ Serving /\ copy # None /\ todo = <<>>
    /\ file' = copy /\ copy' = None
    /\ sleeping' = IF limited THEN sleeping \cup {Wait} ELSE sleeping
    /\ since' = [u \in UserSet |-> IF u \in troubled THEN since[u] ELSE 0]
    /\ limited' = FALSE /\ troubled' = {}
    /\ UNCHANGED <<stage, todo, startup, cache, next>>

\* server_main's loop.
Spawn ==
    /\ Serving /\ next = 0
    /\ next' = Period /\ sleeping' = sleeping \cup {0}
    /\ UNCHANGED <<stage, todo, startup, cache, file, copy, limited, since, troubled>>

-----------------------------------------------------------------------------
Tick ==
    /\ Serving /\ copy = None /\ next > 0 /\ 0 \notin sleeping
    /\ next' = next - 1 /\ sleeping' = {t - 1 : t \in sleeping}
    /\ since' = [u \in UserSet |-> since[u] + 1]
    /\ file' = OlderRows(file) /\ cache' = OlderCache
    /\ UNCHANGED <<stage, todo, startup, copy, limited, troubled>>

SignInStep == SignIn \/ SerializeCache \/ Put
MainStep == GetChunk \/ Deserialize \/ AuthXbox \/ AuthFails({"auth"}) \/ CreateDB
\* Minecraft's services need not answer otherwise than with 429.
MinecraftStep ==
    \/ GetTokMinecraft \/ GetMinecraftDetails \/ RateLimited
    \/ AuthFails({"minecraft", "details"})
CleanupStep ==
    \/ StartCleanup \/ NoRow \/ EndCleanup \/ Spawn
    \/ \E u \in UserSet : RenewAccount(u)

Next ==
    \/ Start \/ StartAnyway \/ SubprocessDies \/ SignInStep \/ MainStep
    \/ MinecraftStep \/ CleanupStep \/ Tick

Spec == Init /\ [][Next]_vars

\* Processes go on, and the users answer when they are asked to sign in.
FairSpec == Spec /\ WF_vars(SignInStep) /\ WF_vars(MainStep)

-----------------------------------------------------------------------------

\* Everything has its type; a row has a token of every link.
TypeOK ==
    /\ stage \in {"off", "interactive", "auth", "minecraft", "details", "serving"}
    /\ sub \in {"none", "signing", "sending", "done", "dead"}
    /\ signed \subseteq UserSet
    /\ DOMAIN cache \subseteq UserSet /\ \A u \in DOMAIN cache : cache[u] \in Int
    /\ IsRows(file) /\ (copy = None \/ IsRows(copy))
    /\ limited \in BOOLEAN /\ troubled \subseteq UserSet
    /\ next \in 0..Period /\ sleeping \subseteq 0..Wait
    /\ since \in [UserSet -> Nat]

(* When SEND_DONE is read the server has the whole cache of the process    *)
(* that signed the users in, whatever the number of chunks and however its *)
(* length falls on CHUNK_SIZE, so that MSAL knows just those users         *)
(* (netauth.py:429-432).                                                   *)
CacheArrives ==
    /\ AllHeard => heard = Serialize(signed)
    /\ Authenticating => DOMAIN cache = signed

(* No account has a token that really has expired, nor does the client get *)
(* one, although a cleanup may fail: "we've got a buffer if the server     *)
(* happens to be down during the final check interval"                     *)
(* (AccessToken.py:46-47). The exceptions are accounts MSAL does not know, *)
(* because initialise_accounts raised, and those that signed in long ago,  *)
(* because of the rate limits the others met, until the first cleanup has  *)
(* renewed them: it starts with the server.                                *)
TimingFits ==
    /\ Misses <= 1 /\ Zone >= 0
    /\ \A l \in Range(Links) : Life[l] >= 2 * Period
FreshTokens ==
    TimingFits /\ Serving =>
      \A u \in DOMAIN file \cap DOMAIN cache :
        \/ \A f \in Fields \ {"msal"} : ReallyLeft(file[u], f) >= 0
        \/ since[u] > Grace /\ next = Period /\ (copy # None \/ 0 \in sleeping)

(* A server that asks its users to sign in ends up serving, unless the     *)
(* process that asks them dies, when it waits for ever                     *)
(* (netauth.py:413-415), or Minecraft's services never stop answering 429, *)
(* when it asks for ever (netauth.py:268-288, 323-337).                    *)
StartsUp ==
    []<>(stage \notin {"minecraft", "details"}) =>
        ((stage = "interactive") ~> (stage = "serving" \/ sub = "dead"))

=============================================================================
