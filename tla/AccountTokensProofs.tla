------------------------- MODULE AccountTokensProofs -------------------------
(***************************************************************************)
(* AccountTokens keeps its types, no token that is needed runs out as long *)
(* as at most one cleanup in a row fails for an account, and the cache of  *)
(* those who sign in arrives complete, however long it is.                 *)
(***************************************************************************)
EXTENDS AccountTokens, SequenceInduction

Needed == Fields \ {"msal"}

\* The client's copy is the Minecraft token, and all that is needed is good
\* for another n.
GoodFor(t, n) == t["account"] = t["minecraft"] /\ \A f \in Needed : ReallyLeft(t, f) >= n

\* The same for an account that has been waiting for its cleanup; nothing is
\* known of one whose sign-in was too long ago.
GoodSince(t, u) ==
    /\ t["account"] = t["minecraft"]
    /\ since[u] <= Grace => GoodFor(t, 2 * Period - since[u])

\* Why a cleanup is always in time: the next one is due before the grace is
\* over, unless it is due now; and it is due now whenever the grace is over.
InTime ==
    Serving =>
      \A u \in UserSet :
        \/ /\ since[u] <= Grace
           /\ copy = None /\ 0 \notin sleeping => since[u] + next <= Grace
           /\ copy # None /\ u \in troubled /\ 0 \notin sleeping => since[u] + next <= Grace
        \/ /\ ~(since[u] <= Grace) /\ next = Period /\ u \notin troubled
           /\ copy # None \/ 0 \in sleeping

\* What each account MSAL knows has in the file and in the running cleanup.
FreshFile ==
    Serving => \A u \in DOMAIN file \cap DOMAIN cache : GoodSince(file[u], u)

FreshCopy ==
    Serving /\ copy # None =>
      \A u \in DOMAIN copy \cap DOMAIN cache :
        /\ GoodSince(copy[u], u)
        /\ u \notin Range(todo) /\ u \notin troubled => GoodFor(copy[u], 2 * Period)

\* What an account that signs in has got so far.
Got(u) == IF stage = "minecraft" /\ u = Head(todo) THEN Xbox ELSE Needed
GotFor(t, F, n) == \A f \in F : ReallyLeft(t, f) >= n

FreshStart ==
    Authenticating => \A u \in DOMAIN copy :
        /\ copy[u]["account"] = copy[u]["minecraft"]
        /\ since[u] <= Grace => GotFor(copy[u], Got(u), 2 * Period - since[u])

\* The subprocess works only while the main process waits for it.
SubOK == sub \in {"signing", "sending"} => stage = "interactive"

TodoOK == todo \in Seq(UserSet)

AuthOK ==
    Authenticating =>
      IsRows(copy) /\ (stage # "auth" => todo # <<>> /\ Head(todo) \in DOMAIN copy)

\* A step of auth_all.
AuthStep ==
    \/ AuthXbox \/ GetTokMinecraft \/ GetMinecraftDetails \/ RateLimited
    \/ AuthFails({"auth"}) \/ AuthFails({"minecraft", "details"})

TInv == TypeOK /\ SubOK /\ TodoOK /\ AuthOK

Fresh == InTime /\ FreshFile /\ FreshCopy /\ FreshStart

\* The inductive invariant.
IInv == TInv /\ (TimingFits => Fresh)

-----------------------------------------------------------------------------
(* Tokens.                                                                  *)

LEMMA LinksAre ==
    /\ Range(Links) = {"msal", "xboxlive", "xsts", "minecraft"}
    /\ Fields = {"msal", "xboxlive", "xsts", "minecraft", "account"}
    /\ Needed = {"xboxlive", "xsts", "minecraft", "account"}
<1>1. DOMAIN Links = 1..4
  BY DEF Links
<1>2. Range(Links) = {Links[i] : i \in 1..4}
  BY <1>1 DEF Range
<1>3. Range(Links) = {"msal", "xboxlive", "xsts", "minecraft"}
  BY <1>2 DEF Links
<1> QED BY <1>3 DEF Fields, Needed

LEMMA Numbers ==
    ASSUME TimingFits
    PROVE  /\ Grace \in Nat /\ Period <= Grace /\ Grace <= 2 * Period
           /\ \A l \in Range(Links) : Life[l] \in Nat /\ Life[l] >= 2 * Period
<1>1. Misses = 0 \/ Misses = 1
  BY TokenAssumption DEF TimingFits
<1>2. Grace \in Nat /\ Period <= Grace /\ Grace <= 2 * Period
  <2>1. CASE Misses = 0
    BY <2>1, TokenAssumption DEF Grace
  <2>2. CASE Misses = 1
    BY <2>2, TokenAssumption DEF Grace
  <2> QED BY <1>1, <2>1, <2>2
<1> QED BY <1>2, TokenAssumption DEF TimingFits

\* One link only ever replaces its own token (and the client's copy of it).
LEMMA LinkType ==
    ASSUME NEW t \in [Fields -> Int], NEW l \in Range(Links), NEW before \in Int, NEW fails,
           NEW left \in Int
    PROVE  RenewLink(t, l, before, fails, left) \in [Fields -> Int]
BY DEF RenewLink, Updated

LEMMA RecordedType ==
    ASSUME NEW l \in Range(Links), NEW left \in Int
    PROVE  Recorded(l, left) \in Int
BY TokenAssumption DEF Recorded, ParseXboxTimestamp

LEMMA ChainType ==
    ASSUME NEW t \in [Fields -> Int], NEW known \in BOOLEAN, NEW fails, NEW left \in Int
    PROVE  RenewChain(t, known, fails, left) \in [Fields -> Int]
<1> DEFINE m == RenewLink(t, "msal", IF known THEN 0 ELSE -1, fails, left)
           x == RenewLink(m, "xboxlive", m["msal"], fails, Recorded("xboxlive", Life["xboxlive"]))
           s == RenewLink(x, "xsts", ReallyLeft(x, "xboxlive"), fails, Recorded("xsts", Life["xsts"]))
<1>1. \A l \in Range(Links) : Life[l] \in Int
  BY TokenAssumption
<1>2. m \in [Fields -> Int]
  BY LinkType, LinksAre
<1> HIDE DEF m
<1>3. x \in [Fields -> Int]
  BY <1>1, <1>2, LinkType, RecordedType, LinksAre
<1> HIDE DEF x
<1>4. s \in [Fields -> Int]
  <2>1. ReallyLeft(x, "xboxlive") \in Int
    BY <1>3, LinksAre, TokenAssumption DEF ReallyLeft
  <2> QED BY <1>1, <1>3, <2>1, LinkType, RecordedType, LinksAre
<1> HIDE DEF s
<1>5. ReallyLeft(s, "xsts") \in Int
  BY <1>4, LinksAre, TokenAssumption DEF ReallyLeft
<1>6. RenewLink(s, "minecraft", ReallyLeft(s, "xsts"), fails, Life["minecraft"]) \in [Fields -> Int]
  BY <1>1, <1>4, <1>5, LinkType, LinksAre
<1> QED BY <1>6 DEF RenewChain, m, x, s

\* A renewal never makes a token worse than n, if n is within the look-ahead.
LEMMA LinkKeeps ==
    ASSUME TimingFits,
           NEW t \in [Fields -> Int], NEW l \in {"xboxlive", "xsts", "minecraft"},
           NEW before \in Int, NEW fails, NEW n \in Int, n <= 2 * Period, GoodFor(t, n)
    PROVE  GoodFor(RenewLink(t, l, before, fails, Recorded(l, Life[l])), n)
<1>1. Life[l] \in Nat /\ Life[l] >= 2 * Period
  BY Numbers, LinksAre
<1>2. Recorded(l, Life[l]) = IF l \in Xbox THEN Life[l] - Zone ELSE Life[l]
  BY DEF Recorded, ParseXboxTimestamp
<1>3. Period \in Nat /\ Zone \in Int
  BY TokenAssumption
<1>4. CASE RenewLink(t, l, before, fails, Recorded(l, Life[l])) = t
  BY <1>4
<1>5. CASE RenewLink(t, l, before, fails, Recorded(l, Life[l])) = Updated(t, l, Recorded(l, Life[l]))
  <2> DEFINE v == Updated(t, l, Recorded(l, Life[l]))
  <2>1. \A f \in Fields : v[f] = IF f = l \/ (l = "minecraft" /\ f = "account") THEN Recorded(l, Life[l]) ELSE t[f]
    BY DEF Updated
  <2>2. v["account"] = v["minecraft"]
    BY <2>1, LinksAre DEF GoodFor
  <2>3. ASSUME NEW f \in Needed PROVE ReallyLeft(v, f) >= n
    BY <2>1, <1>1, <1>2, <1>3, LinksAre DEF GoodFor, ReallyLeft, Xbox
  <2> QED BY <1>5, <2>2, <2>3 DEF GoodFor
<1> QED BY <1>4, <1>5 DEF RenewLink

\* A link that nothing disturbs leaves its token good for the look-ahead.
LEMMA LinkRenews ==
    ASSUME TimingFits,
           NEW t \in [Fields -> Int], NEW l \in {"xboxlive", "xsts", "minecraft"},
           NEW before \in Int, before >= 0
    PROVE  ReallyLeft(RenewLink(t, l, before, {}, Recorded(l, Life[l])), l) >= 2 * Period
<1>1. Life[l] \in Nat /\ Life[l] >= 2 * Period
  BY Numbers, LinksAre
<1>2. Recorded(l, Life[l]) = IF l \in Xbox THEN Life[l] - Zone ELSE Life[l]
  BY DEF Recorded, ParseXboxTimestamp
<1>3. Period \in Nat /\ Zone \in Int /\ Zone >= 0 /\ t[l] \in Int
  BY TokenAssumption, LinksAre DEF TimingFits
<1>4. CASE NeedsRenewal(t, l)
  <2>1. RenewLink(t, l, before, {}, Recorded(l, Life[l])) = Updated(t, l, Recorded(l, Life[l]))
    BY <1>4 DEF RenewLink
  <2>2. Updated(t, l, Recorded(l, Life[l]))[l] = Recorded(l, Life[l])
    BY LinksAre DEF Updated
  <2> QED BY <2>1, <2>2, <1>1, <1>2, <1>3 DEF ReallyLeft
<1>5. CASE ~NeedsRenewal(t, l)
  <2>1. RenewLink(t, l, before, {}, Recorded(l, Life[l])) = t
    BY <1>5 DEF RenewLink
  <2>2. t[l] >= 2 * Period
    BY <1>3, <1>5 DEF NeedsRenewal, NumIntervals
  <2> QED BY <2>1, <2>2, <1>3 DEF ReallyLeft
<1> QED BY <1>4, <1>5

\* A link leaves the others alone.
LEMMA LinkLeaves ==
    ASSUME NEW t \in [Fields -> Int], NEW l \in {"msal", "xboxlive", "xsts", "minecraft"},
           NEW before, NEW fails, NEW left,
           NEW f \in Fields, f # l, ~(l = "minecraft" /\ f = "account")
    PROVE  ReallyLeft(RenewLink(t, l, before, fails, left), f) = ReallyLeft(t, f)
BY DEF RenewLink, Updated, ReallyLeft

LEMMA MsalKeeps ==
    ASSUME NEW t \in [Fields -> Int], NEW before, NEW fails, NEW left, NEW n, GoodFor(t, n)
    PROVE  GoodFor(RenewLink(t, "msal", before, fails, left), n)
BY LinksAre DEF RenewLink, Updated, GoodFor, ReallyLeft

\* The whole chain, whatever fails.
LEMMA ChainKeeps ==
    ASSUME TimingFits,
           NEW t \in [Fields -> Int], NEW known \in BOOLEAN, NEW fails, NEW left \in Int,
           NEW n \in Int, n <= 2 * Period, GoodFor(t, n)
    PROVE  GoodFor(RenewChain(t, known, fails, left), n)
<1> DEFINE m == RenewLink(t, "msal", IF known THEN 0 ELSE -1, fails, left)
           x == RenewLink(m, "xboxlive", m["msal"], fails, Recorded("xboxlive", Life["xboxlive"]))
           s == RenewLink(x, "xsts", ReallyLeft(x, "xboxlive"), fails, Recorded("xsts", Life["xsts"]))
<1>1. \A l \in Range(Links) : Life[l] \in Int
  BY TokenAssumption
<1>2. m \in [Fields -> Int] /\ GoodFor(m, n)
  BY LinkType, MsalKeeps, LinksAre
<1> HIDE DEF m
<1>3. x \in [Fields -> Int] /\ GoodFor(x, n)
  BY <1>1, <1>2, LinkType, RecordedType, LinkKeeps, LinksAre
<1> HIDE DEF x
<1>4. s \in [Fields -> Int] /\ GoodFor(s, n)
  <2>1. ReallyLeft(x, "xboxlive") \in Int
    BY <1>3, LinksAre, TokenAssumption DEF ReallyLeft
  <2> QED BY <1>1, <1>3, <2>1, LinkType, RecordedType, LinkKeeps, LinksAre
<1> HIDE DEF s
<1>5. ReallyLeft(s, "xsts") \in Int
  BY <1>4, LinksAre, TokenAssumption DEF ReallyLeft
<1>6. Recorded("minecraft", Life["minecraft"]) = Life["minecraft"]
  BY DEF Recorded, Xbox
<1>7. GoodFor(RenewLink(s, "minecraft", ReallyLeft(s, "xsts"), fails, Life["minecraft"]), n)
  BY <1>4, <1>5, <1>6, LinkKeeps
<1> QED BY <1>7 DEF RenewChain, m, x, s

\* The client's copy stays one of the Minecraft token.
LEMMA ChainAccount ==
    ASSUME NEW t \in [Fields -> Int], NEW known \in BOOLEAN, NEW fails, NEW left \in Int,
           t["account"] = t["minecraft"]
    PROVE  RenewChain(t, known, fails, left)["account"] = RenewChain(t, known, fails, left)["minecraft"]
<1>1. ASSUME NEW r \in [Fields -> Int], NEW l \in Range(Links), NEW before, NEW new \in Int,
             r["account"] = r["minecraft"]
      PROVE  LET c == RenewLink(r, l, before, fails, new) IN
             c \in [Fields -> Int] /\ c["account"] = c["minecraft"]
  BY <1>1, LinksAre DEF RenewLink, Updated
<1> DEFINE m == RenewLink(t, "msal", IF known THEN 0 ELSE -1, fails, left)
           x == RenewLink(m, "xboxlive", m["msal"], fails, Recorded("xboxlive", Life["xboxlive"]))
           s == RenewLink(x, "xsts", ReallyLeft(x, "xboxlive"), fails, Recorded("xsts", Life["xsts"]))
<1>6. \A l \in Range(Links) : Life[l] \in Int /\ Recorded(l, Life[l]) \in Int
  BY RecordedType, TokenAssumption
<1>2. m \in [Fields -> Int] /\ m["account"] = m["minecraft"]
  BY <1>1, LinksAre
<1> HIDE DEF m
<1>3. x \in [Fields -> Int] /\ x["account"] = x["minecraft"]
  BY <1>1, <1>2, <1>6, LinksAre
<1> HIDE DEF x
<1>4. s \in [Fields -> Int] /\ s["account"] = s["minecraft"]
  BY <1>1, <1>3, <1>6, LinksAre
<1> HIDE DEF s
<1>5. LET c == RenewLink(s, "minecraft", ReallyLeft(s, "xsts"), fails, Life["minecraft"]) IN
      c["account"] = c["minecraft"]
  BY <1>1, <1>4, <1>6, LinksAre
<1> QED BY <1>5 DEF RenewChain, m, x, s

\* The whole chain, if nothing fails: each link finds the one before it good.
LEMMA ChainRenews ==
    ASSUME TimingFits,
           NEW t \in [Fields -> Int], NEW left \in Int, left >= 0,
           t["account"] = t["minecraft"]
    PROVE  GoodFor(RenewChain(t, TRUE, {}, left), 2 * Period)
<1> DEFINE m == RenewLink(t, "msal", 0, {}, left)
           x == RenewLink(m, "xboxlive", m["msal"], {}, Recorded("xboxlive", Life["xboxlive"]))
           s == RenewLink(x, "xsts", ReallyLeft(x, "xboxlive"), {}, Recorded("xsts", Life["xsts"]))
           c == RenewLink(s, "minecraft", ReallyLeft(s, "xsts"), {}, Life["minecraft"])
<1>0. Period \in Nat /\ Zone \in Int /\ \A l \in Range(Links) : Life[l] \in Int
  BY TokenAssumption
<1>1. m \in [Fields -> Int] /\ m["msal"] >= 0 /\ m["account"] = m["minecraft"]
  <2>1. m \in [Fields -> Int]
    BY LinkType, LinksAre
  <2>2. CASE NeedsRenewal(t, "msal")
    BY <2>2, LinksAre DEF RenewLink, Updated
  <2>3. CASE ~NeedsRenewal(t, "msal")
    BY <2>3, <1>0, LinksAre DEF RenewLink, NeedsRenewal, NumIntervals, IsExpired
  <2> QED BY <2>1, <2>2, <2>3
<1> HIDE DEF m
<1>2. x \in [Fields -> Int] /\ ReallyLeft(x, "xboxlive") >= 2 * Period /\ x["account"] = x["minecraft"]
  <2>1. x \in [Fields -> Int]
    BY <1>0, <1>1, LinkType, RecordedType, LinksAre
  <2>2. ReallyLeft(x, "xboxlive") >= 2 * Period
    BY <1>1, LinkRenews, LinksAre
  <2>3. x["account"] = x["minecraft"]
    BY <1>1, LinksAre DEF RenewLink, Updated
  <2> QED BY <2>1, <2>2, <2>3
<1> HIDE DEF x
<1>3. /\ s \in [Fields -> Int] /\ ReallyLeft(s, "xsts") >= 2 * Period
      /\ ReallyLeft(s, "xboxlive") >= 2 * Period /\ s["account"] = s["minecraft"]
  <2>1. ReallyLeft(x, "xboxlive") \in Int /\ ReallyLeft(x, "xboxlive") >= 0
    BY <1>0, <1>2, LinksAre DEF ReallyLeft
  <2>2. s \in [Fields -> Int]
    BY <1>0, <1>2, <2>1, LinkType, RecordedType, LinksAre
  <2>3. ReallyLeft(s, "xsts") >= 2 * Period
    BY <1>2, <2>1, LinkRenews, LinksAre
  <2>4. ReallyLeft(s, "xboxlive") >= 2 * Period
    BY <1>2, LinkLeaves, LinksAre
  <2>5. s["account"] = s["minecraft"]
    BY <1>2, LinksAre DEF RenewLink, Updated
  <2> QED BY <2>2, <2>3, <2>4, <2>5
<1> HIDE DEF s
<1>4. GoodFor(c, 2 * Period)
  <2>1. ReallyLeft(s, "xsts") \in Int /\ ReallyLeft(s, "xsts") >= 0
    BY <1>0, <1>3, LinksAre DEF ReallyLeft
  <2>2. Recorded("minecraft", Life["minecraft"]) = Life["minecraft"]
    BY DEF Recorded, Xbox
  <2>3. ReallyLeft(c, "minecraft") >= 2 * Period
    BY <1>3, <2>1, <2>2, LinkRenews
  <2>4. ReallyLeft(c, "xboxlive") >= 2 * Period /\ ReallyLeft(c, "xsts") >= 2 * Period
    BY <1>3, LinkLeaves, LinksAre
  <2>5. c["account"] = c["minecraft"]
    BY <1>3, LinksAre DEF RenewLink, Updated
  <2>6. ReallyLeft(c, "account") = ReallyLeft(c, "minecraft")
    BY <2>5 DEF ReallyLeft, Xbox
  <2> QED BY <2>3, <2>4, <2>5, <2>6, LinksAre DEF GoodFor
<1> QED BY <1>4 DEF RenewChain, m, x, s

-----------------------------------------------------------------------------
(* Types.                                                                   *)

LEMMA RowsAre ==
    ASSUME NEW rows, IsRows(rows)
    PROVE  /\ rows # None
           /\ DOMAIN rows \subseteq UserSet
           /\ \A u \in DOMAIN rows : rows[u] \in [Fields -> Int]
BY TokenAssumption DEF IsRows

LEMMA AreRows ==
    ASSUME NEW S \in SUBSET UserSet, NEW rows \in [S -> [Fields -> Int]]
    PROVE  IsRows(rows)
BY DEF IsRows

LEMMA NoCacheIsRows == IsRows(NoCache)
<1>1. NoCache \in [{} -> [Fields -> Int]]
  BY DEF NoCache
<1> QED BY <1>1, AreRows

\* What is left to do is left, or was done just now.
LEMMA TailLeaves ==
    ASSUME NEW S, NEW s \in Seq(S), s # <<>>
    PROVE  /\ Head(s) \in S /\ Tail(s) \in Seq(S)
           /\ Range(s) \subseteq {Head(s)} \cup Range(Tail(s))
<1>1. Len(s) \in Nat /\ Len(s) >= 1 /\ DOMAIN s = 1..Len(s) /\ Head(s) = s[1]
  OBVIOUS
<1>2. DOMAIN Tail(s) = 1..(Len(s) - 1) /\ \A i \in 1..(Len(s) - 1) : Tail(s)[i] = s[i + 1]
  BY <1>1
<1>3. ASSUME NEW i \in DOMAIN s, i # 1 PROVE s[i] \in Range(Tail(s))
  <2>1. i - 1 \in DOMAIN Tail(s) /\ Tail(s)[i - 1] = s[i]
    BY <1>1, <1>2, <1>3
  <2> QED BY <2>1 DEF Range
<1>4. \A x \in Range(s) : x \in {Head(s)} \cup Range(Tail(s))
  BY <1>1, <1>3 DEF Range
<1> QED BY <1>1, <1>4

LEMMA InitTypes == Init => TInv
<1> SUFFICES ASSUME Init PROVE TInv
  OBVIOUS
<1>1. IsRows(file) /\ Period \in Nat \ {0}
  BY TokenAssumption DEF Init
<1>2. DOMAIN cache = {}
  BY DEF Init, NoCache
<1>3. TypeOK
  <2>1. limited \in BOOLEAN
    BY DEF Init
  <2>2. since \in [UserSet -> Nat] /\ next \in 0..Period /\ sleeping \subseteq 0..Wait
    BY <1>1 DEF Init
  <2> QED BY <1>1, <1>2, <2>1, <2>2 DEF Init, TypeOK
<1>4. stage = "off" /\ sub = "none" /\ todo = <<>>
  BY DEF Init
<1>5. SubOK /\ TodoOK /\ AuthOK
  BY <1>4 DEF SubOK, TodoOK, AuthOK, Authenticating
<1> QED BY <1>3, <1>5 DEF TInv

\* The actions that only pass the sign-in along.
StartupOnly ==
    /\ UNCHANGED <<cache, file, copy, cleaning>>
    /\ stage' # "serving" /\ ~Authenticating' /\ stage' \in {"off", "interactive"}

LEMMA StartupSteps ==
    ASSUME TInv, Start \/ SubprocessDies \/ SignInStep \/ GetChunk
    PROVE  TInv' /\ StartupOnly
<1> USE DEF TInv, TypeOK, SubOK, TodoOK, AuthOK, StartupOnly, cleaning, Authenticating
<1>1. CASE Start
  BY <1>1, TokenAssumption DEF Start
<1>2. CASE SubprocessDies
  BY <1>2 DEF SubprocessDies
<1>3. CASE SignIn
  <2>1. Head(todo) \in UserSet /\ Tail(todo) \in Seq(UserSet)
    BY <1>3, TailLeaves DEF SignIn
  <2> QED BY <1>3, <2>1 DEF SignIn
<1>4. CASE SerializeCache
  BY <1>4 DEF SerializeCache
<1>5. CASE Put
  BY <1>5 DEF Put
<1>6. CASE GetChunk
  BY <1>6 DEF GetChunk
<1> QED BY <1>1, <1>2, <1>3, <1>4, <1>5, <1>6 DEF SignInStep

LEMMA LivesAre == \A l \in Range(Links) : Life[l] \in Int /\ Recorded(l, Life[l]) \in Int
BY RecordedType, TokenAssumption

LEMMA ServeTypes ==
    ASSUME TInv, NEW rows, IsRows(rows), Serve(rows), since' = since,
           DOMAIN cache' \subseteq UserSet, \A u \in DOMAIN cache' : cache'[u] \in Int
    PROVE  TInv'
<1>1. /\ stage' = "serving" /\ sub' = "none" /\ signed' = {} /\ file' = rows /\ copy' = None
      /\ todo' = <<>> /\ sleeping' = {0} /\ next' = Period /\ limited' = FALSE /\ troubled' = {}
      /\ since' = since
  BY DEF Serve, NoStartup
<1>2. TypeOK'
  <2>1. limited' \in BOOLEAN
    BY <1>1
  <2>2. since' \in [UserSet -> Nat] /\ next' \in 0..Period /\ sleeping' \subseteq 0..Wait
    BY <1>1, TokenAssumption DEF TInv, TypeOK
  <2>3. IsRows(file') /\ copy' = None
    BY <1>1
  <2> QED BY <1>1, <2>1, <2>2, <2>3 DEF TypeOK
<1>3. SubOK' /\ TodoOK' /\ AuthOK'
  BY <1>1 DEF SubOK, TodoOK, AuthOK, Authenticating
<1> QED BY <1>2, <1>3 DEF TInv

LEMMA AskedTypes ==
    ASSUME TInv
    PROVE  /\ \A u \in DOMAIN cache : GetTokMsal(u) \in Int
           /\ DOMAIN MsalAsked = DOMAIN cache
           /\ \A u \in DOMAIN MsalAsked : MsalAsked[u] \in Int
<1>1. Life["msal"] \in Int
  BY LinksAre, LivesAre
<1>2. \A u \in DOMAIN cache : cache[u] \in Int
  BY DEF TInv, TypeOK
<1> QED BY <1>1, <1>2 DEF GetTokMsal, MsalAsked

\* What a failure leaves.
LEMMA Failure ==
    ASSUME TInv, AuthFails({"auth"}) \/ AuthFails({"minecraft", "details"})
    PROVE  /\ Authenticating /\ todo # <<>> /\ stage' = "auth" /\ todo' = Tail(todo)
           /\ copy' = [v \in Others |-> copy[v]]
           /\ DOMAIN cache' = DOMAIN cache /\ \A u \in DOMAIN cache' : cache'[u] \in Int
           /\ UNCHANGED <<startup, file, cleaning>>
<1>1. cache' = cache \/ cache' = MsalAsked
  BY DEF AuthFails
<1>2. DOMAIN cache' = DOMAIN cache /\ \A u \in DOMAIN cache' : cache'[u] \in Int
  BY <1>1, AskedTypes DEF TInv, TypeOK
<1> QED BY <1>2 DEF AuthFails, Authenticating

LEMMA OlderIs ==
    ASSUME NEW left \in Int
    PROVE  Older(left) \in Int /\ Older(left) >= left - 1
BY TokenAssumption DEF Older, Floor

LEMMA OlderTypes ==
    ASSUME NEW rows, IsRows(rows)
    PROVE  IsRows(OlderRows(rows)) /\ DOMAIN OlderRows(rows) = DOMAIN rows
<1>1. \A u \in DOMAIN rows : [f \in Fields |-> Older(rows[u][f])] \in [Fields -> Int]
  BY RowsAre, OlderIs
<1>2. OlderRows(rows) \in [DOMAIN rows -> [Fields -> Int]]
  BY <1>1 DEF OlderRows
<1> QED BY <1>2, RowsAre, AreRows

LEMMA OlderCacheTypes ==
    ASSUME TInv
    PROVE  DOMAIN OlderCache = DOMAIN cache /\ \A u \in DOMAIN OlderCache : OlderCache[u] \in Int
BY OlderIs DEF OlderCache, TInv, TypeOK

\* What MSAL, Xbox Live and XSTS have given.
LEMMA XboxGives ==
    ASSUME TInv, AuthXbox
    PROVE  /\ Head(todo) \in UserSet /\ Head(todo) \in DOMAIN cache /\ IsRows(copy)
           /\ DOMAIN copy' = DOMAIN copy \cup {Head(todo)}
           /\ \A v \in DOMAIN copy' : v # Head(todo) => copy'[v] = copy[v]
           /\ copy'[Head(todo)] \in [Fields -> Int]
           /\ \A f \in Xbox : copy'[Head(todo)][f] = Recorded(f, Life[f])
           /\ copy'[Head(todo)]["minecraft"] = 0 /\ copy'[Head(todo)]["account"] = 0
           /\ since' = [since EXCEPT ![Head(todo)] = 0]
           /\ DOMAIN cache' = DOMAIN cache /\ \A u \in DOMAIN cache' : cache'[u] \in Int
           /\ IsRows(copy')
<1> DEFINE t == [f \in Fields |-> CASE f = "msal" -> GetTokMsal(Head(todo))
                                     [] f \in Xbox -> Recorded(f, Life[f])
                                     [] OTHER -> 0]
<1>1. Head(todo) \in UserSet /\ Head(todo) \in DOMAIN cache
  BY TailLeaves DEF AuthXbox, TInv, TodoOK
<1>2. IsRows(copy)
  BY DEF AuthXbox, TInv, AuthOK, Authenticating
<1>3. copy' = [v \in DOMAIN copy \cup {Head(todo)} |-> IF v # Head(todo) THEN copy[v] ELSE t]
  BY DEF AuthXbox
<1>4. \A f \in Fields : t[f] \in Int
  <2>1. GetTokMsal(Head(todo)) \in Int
    BY <1>1, AskedTypes
  <2>2. \A f \in Xbox : Recorded(f, Life[f]) \in Int
    BY LinksAre, LivesAre DEF Xbox
  <2>3. Xbox = {"xboxlive", "xsts"}
    BY DEF Xbox
  <2> QED BY <2>1, <2>2, <2>3, LinksAre
<1>5. /\ \A f \in Xbox : t[f] = Recorded(f, Life[f])
      /\ t["minecraft"] = 0 /\ t["account"] = 0
  BY LinksAre DEF Xbox
<1>6. t \in [Fields -> Int]
  BY <1>4
<1> HIDE DEF t
<1>7. copy' \in [DOMAIN copy \cup {Head(todo)} -> [Fields -> Int]]
  BY <1>1, <1>2, <1>3, <1>6, RowsAre
<1>8. DOMAIN copy \cup {Head(todo)} \in SUBSET UserSet
  BY <1>1, <1>2, RowsAre
<1>9. IsRows(copy')
  BY <1>7, <1>8, AreRows
<1>10. copy'[Head(todo)] = t
  BY <1>3
<1>11. DOMAIN cache' = DOMAIN cache /\ \A u \in DOMAIN cache' : cache'[u] \in Int
  BY AskedTypes DEF AuthXbox
<1>12. since' = [since EXCEPT ![Head(todo)] = 0]
  BY DEF AuthXbox
<1> QED BY <1>1, <1>2, <1>3, <1>5, <1>6, <1>9, <1>10, <1>11, <1>12

LEMMA AuthTypes ==
    ASSUME TInv, AuthStep
    PROVE  TInv'
<1>0. Authenticating /\ IsRows(copy) /\ todo # <<>>
  BY DEF AuthStep, AuthXbox, GetTokMinecraft, GetMinecraftDetails, RateLimited, AuthFails, TInv, AuthOK,
         Authenticating
<1>1. Head(todo) \in UserSet /\ Tail(todo) \in Seq(UserSet)
  BY <1>0, TailLeaves DEF TInv, TodoOK
<1>2. CASE AuthXbox
  <2>1. since' \in [UserSet -> Nat]
    BY <1>2, XboxGives DEF TInv, TypeOK
  <2>2. DOMAIN cache' \subseteq UserSet /\ \A u \in DOMAIN cache' : cache'[u] \in Int
    BY <1>2, XboxGives DEF TInv, TypeOK
  <2>3. IsRows(copy') /\ Head(todo) \in DOMAIN copy'
    BY <1>2, XboxGives
  <2>4. /\ stage = "auth" /\ stage' = "minecraft"
        /\ UNCHANGED <<startup, todo, file, limited, sleeping, next, troubled>>
    BY <1>2 DEF AuthXbox
  <2>5. TypeOK'
    BY <2>1, <2>2, <2>3, <2>4 DEF TInv, TypeOK, startup
  <2> QED BY <1>0, <2>3, <2>4, <2>5 DEF TInv, SubOK, TodoOK, AuthOK, startup
<1>3. CASE GetTokMinecraft
  <2>1. stage = "minecraft" /\ stage' = "details" /\ Head(todo) \in DOMAIN copy
        /\ copy' = [copy EXCEPT ![Head(todo)] = Updated(copy[Head(todo)], "minecraft", Life["minecraft"])]
        /\ UNCHANGED <<startup, todo, cache, file, cleaning>>
    BY <1>0, <1>3 DEF GetTokMinecraft, TInv, AuthOK
  <2>2. Updated(copy[Head(todo)], "minecraft", Life["minecraft"]) \in [Fields -> Int]
    <3>1. copy[Head(todo)] \in [Fields -> Int] /\ Life["minecraft"] \in Int
      BY <1>0, <2>1, RowsAre, LinksAre, LivesAre
    <3> QED BY <3>1 DEF Updated
  <2>3. copy' \in [DOMAIN copy -> [Fields -> Int]]
    BY <1>0, <2>1, <2>2, RowsAre
  <2>4. IsRows(copy') /\ DOMAIN copy' = DOMAIN copy
    BY <1>0, <2>3, RowsAre, AreRows
  <2>5. TypeOK'
    BY <2>1, <2>4 DEF TInv, TypeOK, startup, cleaning
  <2> QED BY <1>0, <2>1, <2>4, <2>5 DEF TInv, SubOK, TodoOK, AuthOK, startup
<1>4. CASE GetMinecraftDetails
  <2>1. stage = "details" /\ stage' = "auth" /\ todo' = Tail(todo)
        /\ UNCHANGED <<startup, cache, file, copy, cleaning>>
    BY <1>4 DEF GetMinecraftDetails
  <2>2. TypeOK'
    BY <1>0, <2>1 DEF TInv, TypeOK, startup, cleaning
  <2> QED BY <1>0, <1>1, <2>1, <2>2 DEF TInv, SubOK, TodoOK, AuthOK, startup
<1>5. CASE RateLimited
  <2>1. /\ stage \in {"minecraft", "details"}
        /\ copy' = OlderRows(copy) /\ cache' = OlderCache
        /\ since' = [u \in UserSet |-> Longer(since[u])]
        /\ UNCHANGED <<stage, todo, startup, file, limited, sleeping, next, troubled>>
    BY <1>5 DEF RateLimited
  <2>2. since' \in [UserSet -> Nat]
    BY <2>1 DEF TInv, TypeOK, Longer
  <2>3. IsRows(copy') /\ DOMAIN copy' = DOMAIN copy
    BY <1>0, <2>1, OlderTypes
  <2>4. DOMAIN cache' \subseteq UserSet /\ \A u \in DOMAIN cache' : cache'[u] \in Int
    BY <2>1, OlderCacheTypes DEF TInv, TypeOK
  <2>5. TypeOK'
    BY <2>1, <2>2, <2>3, <2>4 DEF TInv, TypeOK, startup
  <2>6. Head(todo) \in DOMAIN copy
    BY <1>0, <2>1 DEF TInv, AuthOK
  <2> QED BY <1>0, <2>1, <2>3, <2>5, <2>6 DEF TInv, SubOK, TodoOK, AuthOK, startup
<1>6. CASE AuthFails({"auth"}) \/ AuthFails({"minecraft", "details"})
  <2>1. copy' \in [Others -> [Fields -> Int]] /\ Others \in SUBSET UserSet
    BY <1>0, <1>6, Failure, RowsAre DEF Others
  <2>2. IsRows(copy')
    BY <2>1, AreRows
  <2>3. DOMAIN cache' \subseteq UserSet /\ \A u \in DOMAIN cache' : cache'[u] \in Int
    BY <1>6, Failure DEF TInv, TypeOK
  <2>4. stage' = "auth" /\ todo' = Tail(todo) /\ UNCHANGED <<startup, file, cleaning>>
    BY <1>6, Failure
  <2>5. TypeOK'
    BY <2>2, <2>3, <2>4 DEF TInv, TypeOK, startup, cleaning
  <2>6. sub \notin {"signing", "sending"}
    BY <1>0 DEF TInv, SubOK, Authenticating
  <2> QED BY <1>1, <2>2, <2>4, <2>5, <2>6 DEF TInv, SubOK, TodoOK, AuthOK, startup
<1> QED BY <1>2, <1>3, <1>4, <1>5, <1>6 DEF AuthStep

LEMMA AuthenticationSteps ==
    ASSUME TInv, Deserialize \/ StartAnyway \/ CreateDB
    PROVE  TInv'
<1>1. CASE Deserialize
  <2>1. PICK accounts \in SUBSET UserSet : cache' = [u \in accounts |-> Life["msal"]]
    BY <1>1 DEF Deserialize
  <2>2. DOMAIN cache' \subseteq UserSet /\ \A u \in DOMAIN cache' : cache'[u] \in Int
    BY <2>1, LinksAre, LivesAre
  <2>3. IsRows(copy') /\ sub \in {"done", "dead"}
    BY <1>1, NoCacheIsRows DEF Deserialize, AllHeard
  <2>4. TypeOK'
    BY <1>1, <2>2, <2>3 DEF Deserialize, TInv, TypeOK, cleaning
  <2>5. TodoOK'
    BY <1>1, TokenAssumption DEF Deserialize, TodoOK
  <2>6. SubOK' /\ AuthOK'
    BY <1>1, <2>3 DEF Deserialize, SubOK, AuthOK
  <2> QED BY <2>4, <2>5, <2>6 DEF TInv
<1>2. CASE StartAnyway
  <2>1. DOMAIN cache' = {}
    BY <1>2 DEF StartAnyway, NoCache
  <2> QED BY <1>2, <2>1, ServeTypes DEF StartAnyway, TInv, TypeOK
<1>3. CASE CreateDB
  <2>1. IsRows(copy) /\ UNCHANGED <<cache, since>>
    BY <1>3 DEF CreateDB, TInv, AuthOK, Authenticating
  <2> QED BY <1>3, <2>1, ServeTypes DEF CreateDB, TInv, TypeOK
<1> QED BY <1>1, <1>2, <1>3

\* What the renewal is given and gives.
LEMMA Renewal ==
    ASSUME TInv, NEW u \in UserSet, RenewAccount(u)
    PROVE  /\ IsRows(copy) /\ copy # None /\ u \in DOMAIN copy /\ Head(todo) = u /\ todo # <<>>
           /\ todo' = Tail(todo)
           /\ \E fails, got :
                /\ got \in Int /\ got >= 0
                /\ fails # {} => MayFail(u)
                /\ copy' = [copy EXCEPT ![u] = RenewChain(copy[u], u \in DOMAIN cache, fails, got)]
                /\ troubled' = IF fails = {} THEN troubled ELSE troubled \cup {u}
                /\ \/ cache' = cache
                   \/ u \in DOMAIN cache /\ cache' = [cache EXCEPT ![u] = got]
                /\ limited' \in BOOLEAN
           /\ UNCHANGED <<stage, startup, file, sleeping, next, since>>
<1>1. PICK fails \in {{}} \cup Outages[u] :
         LET known == u \in DOMAIN cache
             got == IF known THEN GetTokMsal(u) ELSE 0
         IN  /\ fails # {} => MayFail(u)
             /\ copy' = [copy EXCEPT ![u] = RenewChain(@, known, fails, got)]
             /\ cache' = IF known /\ NeedsRenewal(copy[u], "msal") /\ "msal" \notin fails
                         THEN [cache EXCEPT ![u] = got] ELSE cache
             /\ troubled' = IF fails = {} THEN troubled ELSE troubled \cup {u}
             /\ limited' \in {limited} \cup {x \in {TRUE} : "minecraft" \in fails}
  BY DEF RenewAccount
<1> DEFINE got == IF u \in DOMAIN cache THEN GetTokMsal(u) ELSE 0
<1>2. got \in Int /\ got >= 0
  <2>1. Life["msal"] \in Nat
    BY LinksAre, TokenAssumption
  <2>2. u \in DOMAIN cache => cache[u] \in Int
    BY DEF TInv, TypeOK
  <2> QED BY <2>1, <2>2 DEF GetTokMsal
<1>3. limited' \in BOOLEAN
  BY <1>1 DEF TInv, TypeOK
<1>4. \/ cache' = cache
      \/ u \in DOMAIN cache /\ cache' = [cache EXCEPT ![u] = got]
  BY <1>1
<1>5. copy # None /\ u \in DOMAIN copy /\ IsRows(copy)
  BY DEF RenewAccount, TInv, TypeOK
<1>6. /\ fails # {} => MayFail(u)
      /\ copy' = [copy EXCEPT ![u] = RenewChain(copy[u], u \in DOMAIN cache, fails, got)]
      /\ troubled' = IF fails = {} THEN troubled ELSE troubled \cup {u}
  BY <1>1
<1> HIDE DEF got
<1> QED BY <1>2, <1>3, <1>4, <1>5, <1>6 DEF RenewAccount

LEMMA RenewedRows ==
    ASSUME TInv, NEW u \in UserSet, RenewAccount(u)
    PROVE  IsRows(copy')
<1>1. PICK fails, got :
         /\ got \in Int
         /\ copy' = [copy EXCEPT ![u] = RenewChain(copy[u], u \in DOMAIN cache, fails, got)]
  BY Renewal
<1>2. IsRows(copy) /\ u \in DOMAIN copy
  BY Renewal
<1> DEFINE known == u \in DOMAIN cache
<1>3. RenewChain(copy[u], known, fails, got) \in [Fields -> Int]
  <2>1. known \in BOOLEAN
    OBVIOUS
  <2>2. copy[u] \in [Fields -> Int]
    BY <1>2, RowsAre
  <2> HIDE DEF known
  <2> QED BY <1>1, <2>1, <2>2, ChainType
<1>4. copy' \in [DOMAIN copy -> [Fields -> Int]]
  BY <1>1, <1>2, <1>3, RowsAre
<1> QED BY <1>2, <1>4, RowsAre, AreRows

LEMMA RenewTypes ==
    ASSUME TInv, NEW u \in UserSet, RenewAccount(u)
    PROVE  TInv'
<1>1. PICK fails, got :
         /\ got \in Int
         /\ copy' = [copy EXCEPT ![u] = RenewChain(copy[u], u \in DOMAIN cache, fails, got)]
         /\ troubled' = IF fails = {} THEN troubled ELSE troubled \cup {u}
         /\ \/ cache' = cache
            \/ u \in DOMAIN cache /\ cache' = [cache EXCEPT ![u] = got]
         /\ limited' \in BOOLEAN
  BY Renewal
<1>2. /\ IsRows(copy) /\ u \in DOMAIN copy
      /\ UNCHANGED <<stage, startup, file, sleeping, next, since>>
      /\ Tail(todo) \in Seq(UserSet) /\ todo' = Tail(todo)
  BY Renewal, TailLeaves DEF TInv, TodoOK
<1>3. IsRows(copy')
  BY RenewedRows
<1>4. DOMAIN cache' \subseteq UserSet /\ \A v \in DOMAIN cache' : cache'[v] \in Int
  BY <1>1 DEF TInv, TypeOK
<1>5. troubled' \subseteq UserSet
  BY <1>1 DEF TInv, TypeOK
<1>6. TypeOK'
  BY <1>1, <1>2, <1>3, <1>4, <1>5 DEF TInv, TypeOK, startup
<1> QED BY <1>2, <1>3, <1>6 DEF TInv, SubOK, TodoOK, AuthOK, Authenticating, startup, RenewAccount,
                                Serving

LEMMA CleanupTypes ==
    ASSUME TInv, StartCleanup \/ NoRow \/ EndCleanup \/ Spawn \/ Tick
    PROVE  TInv'
<1>1. CASE StartCleanup
  <2>1. /\ sleeping' \subseteq 0..Wait
        /\ IsRows(copy') /\ todo' \in Seq(UserSet)
    BY <1>1, TokenAssumption DEF StartCleanup, TInv, TypeOK
  <2>3. limited' \in BOOLEAN
    BY <1>1 DEF StartCleanup
  <2>2. TypeOK'
    BY <1>1, <2>1, <2>3 DEF StartCleanup, TInv, TypeOK, startup
  <2> QED BY <1>1, <2>1, <2>2 DEF StartCleanup, TInv, SubOK, TodoOK, AuthOK, Authenticating, Serving, startup
<1>2. CASE NoRow
  <2>1. Tail(todo) \in Seq(UserSet)
    BY <1>2, TailLeaves DEF NoRow, TInv, TodoOK
  <2> QED BY <1>2, <2>1 DEF NoRow, TInv, TypeOK, SubOK, TodoOK, AuthOK, Authenticating, Serving, startup, cleaning
<1>3. CASE EndCleanup
  <2>6. limited' \in BOOLEAN
    BY <1>3 DEF EndCleanup
  <2>1. sleeping' \subseteq 0..Wait
    <3>1. Wait \in 0..Wait
      BY TokenAssumption
    <3> QED BY <1>3, <3>1 DEF EndCleanup, TInv, TypeOK
  <2>2. since' \in [UserSet -> Nat]
    BY <1>3 DEF EndCleanup, TInv, TypeOK
  <2>3. IsRows(file') /\ copy' = None
    BY <1>3 DEF EndCleanup, TInv, TypeOK
  <2>4. TypeOK'
    BY <1>3, <2>1, <2>2, <2>3, <2>6 DEF EndCleanup, TInv, TypeOK, startup
  <2>5. stage = "serving" /\ stage' = stage
    BY <1>3 DEF EndCleanup, Serving
  <2> QED BY <1>3, <2>4, <2>5 DEF EndCleanup, TInv, SubOK, TodoOK, AuthOK, Authenticating, Serving, startup
<1>4. CASE Spawn
  <2>1. next' \in 0..Period /\ sleeping' \subseteq 0..Wait
    BY <1>4, TokenAssumption DEF Spawn, TInv, TypeOK
  <2> QED BY <1>4, <2>1 DEF Spawn, TInv, TypeOK, SubOK, TodoOK, AuthOK, Authenticating, Serving, startup
<1>5. CASE Tick
  <2>1. next' \in 0..Period /\ sleeping' \subseteq 0..Wait
    BY <1>5, TokenAssumption DEF Tick, TInv, TypeOK
  <2>2. since' \in [UserSet -> Nat]
    BY <1>5 DEF Tick, TInv, TypeOK
  <2>3. IsRows(file')
    BY <1>5, OlderTypes DEF Tick, TInv, TypeOK
  <2>4. DOMAIN cache' \subseteq UserSet /\ \A u \in DOMAIN cache' : cache'[u] \in Int
    BY <1>5, OlderCacheTypes DEF Tick, TInv, TypeOK
  <2>5. TypeOK'
    BY <1>5, <2>1, <2>2, <2>3, <2>4 DEF Tick, TInv, TypeOK, startup
  <2> QED BY <1>5, <2>5 DEF Tick, TInv, SubOK, TodoOK, AuthOK, Authenticating, Serving, startup
<1> QED BY <1>1, <1>2, <1>3, <1>4, <1>5

LEMMA TypeStep == TInv /\ [Next]_vars => TInv'
<1> SUFFICES ASSUME TInv, [Next]_vars PROVE TInv'
  OBVIOUS
<1>1. CASE Start \/ SubprocessDies \/ SignInStep \/ GetChunk
  BY <1>1, StartupSteps
<1>2. CASE Deserialize \/ StartAnyway \/ CreateDB
  BY <1>2, AuthenticationSteps
<1>6. CASE AuthStep
  BY <1>6, AuthTypes
<1>3. CASE StartCleanup \/ NoRow \/ EndCleanup \/ Spawn \/ Tick
  BY <1>3, CleanupTypes
<1>4. CASE \E u \in UserSet : RenewAccount(u)
  BY <1>4, RenewTypes
<1>5. CASE UNCHANGED vars
  BY <1>5 DEF vars, startup, cleaning, TInv, TypeOK, SubOK, TodoOK, AuthOK, Authenticating
<1> QED BY <1>1, <1>2, <1>3, <1>4, <1>5, <1>6 DEF Next, MainStep, MinecraftStep, CleanupStep, AuthStep

\* Every row of the file and of a running cleanup has a token of every link.
THEOREM TokensTypeCorrect == Spec => []TypeOK
<1>1. TInv /\ [Next]_vars => TInv'
  BY TypeStep
<1>2. TInv => TypeOK
  BY DEF TInv
<1> QED BY InitTypes, <1>1, <1>2, PTL DEF Spec

-----------------------------------------------------------------------------
(* Freshness.                                                               *)

LEMMA InitFresh == Init => Fresh
<1> SUFFICES ASSUME Init PROVE Fresh
  OBVIOUS
<1>1. stage = "off"
  BY DEF Init
<1> QED BY <1>1 DEF Fresh, InTime, FreshFile, FreshCopy, FreshStart, Serving, Authenticating

LEMMA GraceSame == Grace' = Grace
BY DEF Grace

\* The arithmetic of what is left.
LEMMA GoodForLess ==
    ASSUME NEW t \in [Fields -> Int], NEW n \in Int, NEW m \in Int, m <= n, GoodFor(t, n)
    PROVE  GoodFor(t, m)
<1>1. Zone \in Int /\ \A f \in Needed : t[f] \in Int
  BY TokenAssumption, LinksAre
<1> QED BY <1>1 DEF GoodFor, ReallyLeft

LEMMA GotForOlder ==
    ASSUME NEW t \in [Fields -> Int], NEW F \in SUBSET Needed, NEW n \in Int, GotFor(t, F, n)
    PROVE  GotFor([f \in Fields |-> Older(t[f])], F, n - 1)
<1>1. Zone \in Int /\ \A f \in F : f \in Fields /\ t[f] \in Int
  BY TokenAssumption, LinksAre
<1>2. \A f \in F : Older(t[f]) \in Int /\ Older(t[f]) >= t[f] - 1
  BY <1>1, OlderIs
<1> QED BY <1>1, <1>2 DEF GotFor, ReallyLeft

LEMMA GoodForIs ==
    ASSUME NEW t, NEW n
    PROVE  GoodFor(t, n) <=> t["account"] = t["minecraft"] /\ GotFor(t, Needed, n)
BY DEF GoodFor, GotFor

\* One more while of waiting.
LEMMA LongerIs ==
    ASSUME TimingFits, NEW n \in Nat
    PROVE  Longer(n) \in Nat /\ (Longer(n) <= Grace => n <= Grace /\ Longer(n) = n + 1)
BY Numbers DEF Longer

\* Whoever signed in not too long ago, and everybody else as soon as the first
\* cleanup has ended.
LEMMA ServeFresh ==
    ASSUME TimingFits, TInv, NEW rows, IsRows(rows), Serve(rows), since' = since,
           \A u \in DOMAIN rows \cap DOMAIN cache' : GoodSince(rows[u], u)
    PROVE  Fresh'
<1>1. /\ stage' = "serving" /\ file' = rows /\ copy' = None /\ sleeping' = {0}
      /\ next' = Period /\ troubled' = {}
  BY DEF Serve
<1>2. Grace \in Nat /\ Grace' = Grace
  BY Numbers, GraceSame
<1>3. InTime'
  BY <1>1, <1>2 DEF InTime
<1>4. FreshFile'
  BY <1>1, <1>2 DEF FreshFile, GoodSince, GoodFor, ReallyLeft
<1>5. FreshCopy' /\ FreshStart'
  BY <1>1 DEF FreshCopy, FreshStart, Authenticating
<1> QED BY <1>3, <1>4, <1>5 DEF Fresh

LEMMA StartupFresh ==
    ASSUME TInv, Start \/ SubprocessDies \/ SignInStep \/ GetChunk
    PROVE  Fresh'
<1>1. stage' # "serving" /\ ~Authenticating'
  BY StartupSteps DEF StartupOnly
<1> QED BY <1>1 DEF Fresh, InTime, FreshFile, FreshCopy, FreshStart, Serving

\* Nobody loses anything but time while the others sign in.
LEMMA AuthFresh ==
    ASSUME TimingFits, TInv, Fresh, AuthStep
    PROVE  Fresh'
<1> DEFINE Kept(u) ==
             /\ copy'[u]["account"] = copy'[u]["minecraft"]
             /\ since'[u] <= Grace => GotFor(copy'[u], Got(u)', 2 * Period - since'[u])
<1>0. /\ Authenticating /\ IsRows(copy) /\ todo # <<>> /\ Authenticating'
      /\ stage # "auth" => Head(todo) \in DOMAIN copy
  BY DEF AuthStep, AuthXbox, GetTokMinecraft, GetMinecraftDetails, RateLimited, AuthFails, TInv, AuthOK,
         Authenticating
<1>1. /\ \A u \in DOMAIN copy :
           /\ copy[u] \in [Fields -> Int] /\ since[u] \in Nat
           /\ copy[u]["account"] = copy[u]["minecraft"]
           /\ since[u] <= Grace => GotFor(copy[u], Got(u), 2 * Period - since[u])
      /\ Zone \in Int /\ Period \in Nat /\ Grace \in Nat
  BY <1>0, RowsAre, Numbers, TokenAssumption DEF Fresh, FreshStart, TInv, TypeOK
<1>2. ASSUME AuthXbox PROVE \A u \in DOMAIN copy' : Kept(u)
  <2>1. /\ Head(todo) \in UserSet /\ DOMAIN copy' = DOMAIN copy \cup {Head(todo)}
        /\ \A v \in DOMAIN copy' : v # Head(todo) => copy'[v] = copy[v]
        /\ \A f \in Xbox : copy'[Head(todo)][f] = Recorded(f, Life[f])
        /\ copy'[Head(todo)]["minecraft"] = 0 /\ copy'[Head(todo)]["account"] = 0
        /\ since' = [since EXCEPT ![Head(todo)] = 0] /\ since \in [UserSet -> Nat]
        /\ stage = "auth" /\ stage' = "minecraft" /\ todo' = todo
    BY <1>2, XboxGives DEF AuthXbox, TInv, TypeOK
  <2>2. ASSUME NEW u \in DOMAIN copy', u = Head(todo) PROVE Kept(u)
    <3>1. since'[u] = 0 /\ 2 * Period - 0 = 2 * Period
      BY <1>1, <2>1, <2>2
    <3>2. Got(u)' = Xbox
      BY <2>1, <2>2 DEF Got
    <3>3. \A f \in Xbox : Life[f] \in Nat /\ Life[f] >= 2 * Period
      BY Numbers, LinksAre DEF Xbox
    <3>4. \A f \in Xbox : copy'[u][f] + Zone >= 2 * Period
      BY <1>1, <2>2, <2>1, <3>3 DEF Recorded, ParseXboxTimestamp
    <3>5. GotFor(copy'[u], Xbox, 2 * Period)
      BY <3>4 DEF GotFor, ReallyLeft
    <3> QED BY <2>1, <2>2, <3>1, <3>2, <3>5
  <2>3. ASSUME NEW u \in DOMAIN copy', u # Head(todo) PROVE Kept(u)
    <3>1. u \in DOMAIN copy /\ copy'[u] = copy[u] /\ Got(u) = Needed /\ Got(u)' = Needed
      BY <2>1, <2>3 DEF Got
    <3>2. u \in UserSet /\ since'[u] = since[u]
      BY <1>0, <2>1, <2>3, <3>1, RowsAre
    <3> QED BY <1>1, <3>1, <3>2
  <2> QED BY <2>2, <2>3
<1>3. ASSUME GetTokMinecraft PROVE \A u \in DOMAIN copy' : Kept(u)
  <2>1. /\ stage = "minecraft" /\ stage' = "details" /\ Head(todo) \in DOMAIN copy
        /\ copy' = [copy EXCEPT ![Head(todo)] = Updated(copy[Head(todo)], "minecraft", Life["minecraft"])]
        /\ since' = since
    BY <1>0, <1>3 DEF GetTokMinecraft, cleaning
  <2>2. ASSUME NEW u \in DOMAIN copy', u = Head(todo) PROVE Kept(u)
    <3> DEFINE t == Updated(copy[u], "minecraft", Life["minecraft"])
    <3>1. copy'[u] = t /\ Got(u) = Xbox /\ Got(u)' = Needed
      BY <2>1, <2>2 DEF Got
    <3>2. Life["minecraft"] \in Nat /\ Life["minecraft"] >= 2 * Period
      BY Numbers, LinksAre
    <3>3. /\ t["account"] = Life["minecraft"] /\ t["minecraft"] = Life["minecraft"]
          /\ t["xboxlive"] = copy[u]["xboxlive"] /\ t["xsts"] = copy[u]["xsts"]
      BY LinksAre DEF Updated
    <3> HIDE DEF t
    <3>4. ASSUME since[u] <= Grace PROVE GotFor(t, Needed, 2 * Period - since[u])
      <4>1. GotFor(copy[u], Xbox, 2 * Period - since[u])
        BY <1>1, <2>1, <2>2, <3>1, <3>4
      <4> QED BY <1>1, <2>1, <2>2, <3>2, <3>3, <4>1, LinksAre DEF GotFor, ReallyLeft, Xbox
    <3> QED BY <2>1, <3>1, <3>3, <3>4
  <2>3. ASSUME NEW u \in DOMAIN copy', u # Head(todo) PROVE Kept(u)
    <3>1. u \in DOMAIN copy /\ copy'[u] = copy[u] /\ Got(u) = Needed /\ Got(u)' = Needed
      BY <2>1, <2>3 DEF Got
    <3> QED BY <1>1, <2>1, <3>1
  <2> QED BY <2>2, <2>3
<1>4. ASSUME GetMinecraftDetails PROVE \A u \in DOMAIN copy' : Kept(u)
  <2>1. stage = "details" /\ stage' = "auth" /\ UNCHANGED <<copy, since>>
    BY <1>4 DEF GetMinecraftDetails, cleaning
  <2>2. \A u : Got(u) = Needed /\ Got(u)' = Needed
    BY <2>1 DEF Got
  <2> QED BY <1>1, <2>1, <2>2
<1>5. ASSUME RateLimited PROVE \A u \in DOMAIN copy' : Kept(u)
  <2>1. /\ copy' = OlderRows(copy) /\ DOMAIN copy' = DOMAIN copy /\ since \in [UserSet -> Nat]
        /\ since' = [u \in UserSet |-> Longer(since[u])] /\ UNCHANGED <<stage, todo>>
    BY <1>0, <1>5, OlderTypes DEF RateLimited, TInv, TypeOK
  <2>2. ASSUME NEW u \in DOMAIN copy PROVE Kept(u)
    <3>1. u \in UserSet /\ copy'[u] = [f \in Fields |-> Older(copy[u][f])] /\ since'[u] = Longer(since[u])
      BY <1>0, <2>1, RowsAre DEF OlderRows
    <3>2. Got(u)' = Got(u) /\ Got(u) \in SUBSET Needed
      BY <2>1, LinksAre DEF Got, Xbox
    <3>3. copy'[u]["account"] = copy'[u]["minecraft"]
      BY <1>1, <3>1, LinksAre
    <3>4. ASSUME since'[u] <= Grace PROVE GotFor(copy'[u], Got(u), 2 * Period - since'[u])
      <4>1. since[u] <= Grace /\ since'[u] = since[u] + 1 /\ since[u] \in Nat
        BY <1>1, <3>1, <3>4, LongerIs
      <4>2. 2 * Period - since'[u] = (2 * Period - since[u]) - 1 /\ 2 * Period - since[u] \in Int
        BY <1>1, <4>1
      <4>3. GotFor([f \in Fields |-> Older(copy[u][f])], Got(u), (2 * Period - since[u]) - 1)
        BY <1>1, <3>2, <4>1, <4>2, GotForOlder
      <4> QED BY <3>1, <4>2, <4>3
    <3> QED BY <3>2, <3>3, <3>4
  <2> QED BY <2>1, <2>2
<1>6. ASSUME AuthFails({"auth"}) \/ AuthFails({"minecraft", "details"}) PROVE \A u \in DOMAIN copy' : Kept(u)
  <2>1. stage' = "auth" /\ copy' = [v \in Others |-> copy[v]] /\ since' = since
    BY <1>6, Failure DEF cleaning
  <2>2. ASSUME NEW u \in Others PROVE Kept(u)
    <3>1. u \in DOMAIN copy /\ copy'[u] = copy[u] /\ Got(u) = Needed /\ Got(u)' = Needed
      BY <2>1 DEF Got, Others
    <3> QED BY <1>1, <2>1, <3>1
  <2> QED BY <2>1, <2>2
<1>7. \A u \in DOMAIN copy' : Kept(u)
  BY <1>2, <1>3, <1>4, <1>5, <1>6 DEF AuthStep
<1>8. FreshStart'
  BY <1>7, GraceSame DEF FreshStart, GotFor, ReallyLeft
<1>9. ~Serving'
  BY <1>0 DEF Serving, Authenticating
<1> QED BY <1>8, <1>9 DEF Fresh, InTime, FreshFile, FreshCopy

LEMMA AuthenticationFresh ==
    ASSUME TimingFits, TInv, Fresh, Deserialize \/ StartAnyway \/ CreateDB
    PROVE  Fresh'
<1>1. CASE Deserialize
  <2>1. stage' = "auth" /\ DOMAIN copy' = {}
    BY <1>1 DEF Deserialize, NoCache
  <2> QED BY <2>1 DEF Fresh, InTime, FreshFile, FreshCopy, FreshStart, Serving
<1>2. CASE StartAnyway
  <2>1. DOMAIN cache' = {}
    BY <1>2 DEF StartAnyway, NoCache
  <2> QED BY <1>2, <2>1, ServeFresh DEF StartAnyway, TInv, TypeOK
<1>3. CASE CreateDB
  <2>1. stage = "auth" /\ IsRows(copy) /\ since' = since
    BY <1>3 DEF CreateDB, TInv, AuthOK, Authenticating
  <2>2. ASSUME NEW u \in DOMAIN copy PROVE GoodSince(copy[u], u)
    <3>1. /\ copy[u]["account"] = copy[u]["minecraft"]
          /\ since[u] <= Grace => GotFor(copy[u], Needed, 2 * Period - since[u])
      BY <2>1 DEF Fresh, FreshStart, Authenticating, Got
    <3> QED BY <3>1, GoodForIs DEF GoodSince
  <2> QED BY <1>3, <2>1, <2>2, ServeFresh DEF CreateDB
<1> QED BY <1>1, <1>2, <1>3

\* Nobody is out of grace, whoever does a step of a cleanup.
LEMMA CleanupInTime ==
    ASSUME TimingFits, TInv, InTime, CleanupStep \/ Tick
    PROVE  InTime'
<1> DEFINE P(u) ==
             \/ /\ since[u] <= Grace
                /\ copy = None /\ 0 \notin sleeping => since[u] + next <= Grace
                /\ copy # None /\ u \in troubled /\ 0 \notin sleeping => since[u] + next <= Grace
             \/ /\ ~(since[u] <= Grace) /\ next = Period /\ u \notin troubled
                /\ copy # None \/ 0 \in sleeping
           Q(u) ==
             \/ /\ since'[u] <= Grace
                /\ copy' = None /\ 0 \notin sleeping' => since'[u] + next' <= Grace
                /\ copy' # None /\ u \in troubled' /\ 0 \notin sleeping' => since'[u] + next' <= Grace
             \/ /\ ~(since'[u] <= Grace) /\ next' = Period /\ u \notin troubled'
                /\ copy' # None \/ 0 \in sleeping'
<1>1. Serving /\ Serving' = Serving /\ Grace' = Grace
  BY DEF CleanupStep, StartCleanup, NoRow, EndCleanup, Spawn, RenewAccount, Tick, Serving, Grace
<1>2. Grace \in Nat /\ Period \in Nat /\ Period <= Grace
  BY Numbers, TokenAssumption
<1>3. next \in 0..Period /\ since \in [UserSet -> Nat] /\ (copy = None \/ IsRows(copy))
  BY DEF TInv, TypeOK
<1>4. ASSUME NEW u \in UserSet PROVE Q(u)
  <2>1. P(u) /\ since[u] \in Nat
    BY <1>1, <1>3 DEF InTime
  <2>2. CASE StartCleanup
    BY <2>1, <2>2, <1>3, RowsAre DEF StartCleanup, TInv, TypeOK
  <2>3. CASE NoRow
    BY <2>1, <2>3 DEF NoRow, cleaning
  <2>4. CASE EndCleanup
    <3>1. /\ copy # None /\ copy' = None /\ next' = next
          /\ since'[u] = IF u \in troubled THEN since[u] ELSE 0
          /\ 0 \notin sleeping' => 0 \notin sleeping
      BY <2>4, <1>3 DEF EndCleanup
    <3> QED BY <3>1, <2>1, <1>2, <1>3
  <2>5. CASE Spawn
    BY <2>1, <2>5 DEF Spawn
  <2>6. CASE Tick
    <3>1. /\ copy = None /\ copy' = None /\ 0 \notin sleeping /\ next > 0
          /\ next' = next - 1 /\ since'[u] = since[u] + 1
      BY <2>6, <1>3 DEF Tick
    <3> QED BY <3>1, <2>1, <1>2, <1>3
  <2>7. ASSUME NEW v \in UserSet, RenewAccount(v) PROVE Q(u)
    <3>1. PICK fails :
            /\ fails # {} => MayFail(v)
            /\ troubled' = IF fails = {} THEN troubled ELSE troubled \cup {v}
            /\ IsRows(copy')
            /\ copy # None
            /\ UNCHANGED <<sleeping, next, since>>
      <4>1. PICK fails, got :
              /\ fails # {} => MayFail(v)
              /\ troubled' = IF fails = {} THEN troubled ELSE troubled \cup {v}
        BY <2>7, Renewal
      <4>2. IsRows(copy')
        BY <2>7, RenewedRows
      <4>3. copy # None /\ UNCHANGED <<sleeping, next, since>>
        BY <2>7, Renewal
      <4> QED BY <4>1, <4>2, <4>3
    <3>2. MayFail(v) => since[v] + next <= Grace
      BY DEF MayFail, Grace
    <3>3. copy' # None
      BY <3>1, RowsAre
    <3>4. since[u] + next <= Grace => since[u] <= Grace
      BY <1>2, <1>3, <2>1
    <3>5. CASE u \in troubled' /\ u \notin troubled
      <4>1. u = v /\ since[u] + next <= Grace
        BY <3>1, <3>2, <3>5
      <4> QED BY <3>1, <3>4, <4>1
    <3>6. CASE ~(u \in troubled' /\ u \notin troubled)
      BY <2>1, <3>1, <3>3, <3>6
    <3> QED BY <3>5, <3>6
  <2> QED BY <2>2, <2>3, <2>4, <2>5, <2>6, <2>7 DEF CleanupStep
<1> QED BY <1>1, <1>4 DEF InTime

LEMMA SinceOf ==
    ASSUME TInv, NEW u \in UserSet
    PROVE  since[u] \in Nat /\ 2 * Period - since[u] \in Int /\ 2 * Period - since[u] <= 2 * Period
BY TokenAssumption DEF TInv, TypeOK

\* A cleanup starts with what the file has, and everybody still to do.
LEMMA StartCleanupFresh ==
    ASSUME TInv, Fresh, StartCleanup
    PROVE  FreshFile' /\ FreshCopy'
<1>1. /\ Serving /\ stage' = stage /\ cache' = cache /\ file' = file /\ copy' = file
      /\ since' = since /\ todo' = Users
  BY DEF StartCleanup
<1>2. IsRows(file)
  BY DEF TInv, TypeOK
<1>3. \A u \in DOMAIN file : u \in Range(Users)
  BY <1>2, RowsAre DEF UserSet
<1>4. FreshFile'
  BY <1>1, GraceSame DEF Fresh, FreshFile, Serving, GoodSince, GoodFor, ReallyLeft
<1>5. FreshCopy'
  BY <1>1, <1>3, GraceSame DEF Fresh, FreshFile, FreshCopy, Serving, GoodSince, GoodFor, ReallyLeft
<1> QED BY <1>4, <1>5

LEMMA NoRowFresh ==
    ASSUME TInv, Fresh, NoRow
    PROVE  FreshFile' /\ FreshCopy'
<1>1. /\ stage' = stage /\ cache' = cache /\ file' = file /\ copy' = copy /\ since' = since
      /\ troubled' = troubled /\ todo' = Tail(todo) /\ Head(todo) \notin DOMAIN copy
  BY DEF NoRow, cleaning
<1>2. Range(todo) \subseteq {Head(todo)} \cup Range(todo')
  BY <1>1, TailLeaves DEF NoRow, TInv, TodoOK
<1>3. FreshFile'
  BY <1>1, GraceSame DEF Fresh, FreshFile, Serving, GoodSince, GoodFor, ReallyLeft
<1>4. ASSUME Serving, copy # None, NEW u \in DOMAIN copy \cap DOMAIN cache
      PROVE  /\ GoodSince(copy[u], u)
             /\ u \notin Range(todo') /\ u \notin troubled => GoodFor(copy[u], 2 * Period)
  <2>1. u \in Range(todo) => u \in Range(todo')
    BY <1>1, <1>2, <1>4
  <2> QED BY <1>4, <2>1 DEF Fresh, FreshCopy
<1>5. FreshCopy'
  BY <1>1, <1>4, GraceSame DEF FreshCopy, Serving, GoodSince, GoodFor, ReallyLeft
<1> QED BY <1>3, <1>5

\* Whoever was not disturbed has all the time there is again, and the others
\* what they had.
LEMMA EndCleanupFresh ==
    ASSUME TInv, Fresh, EndCleanup
    PROVE  FreshFile' /\ FreshCopy'
<1>1. /\ Serving /\ copy # None /\ todo = <<>> /\ stage' = stage /\ cache' = cache
      /\ file' = copy /\ copy' = None
      /\ since' = [u \in UserSet |-> IF u \in troubled THEN since[u] ELSE 0]
  BY DEF EndCleanup
<1>2. IsRows(copy)
  BY <1>1 DEF TInv, TypeOK
<1>3. Range(todo) = {}
  BY <1>1 DEF Range
<1>4. ASSUME NEW u \in DOMAIN copy \cap DOMAIN cache
      PROVE  /\ copy[u]["account"] = copy[u]["minecraft"]
             /\ since'[u] <= Grace => GoodFor(copy[u], 2 * Period - since'[u])
  <2>1. u \in UserSet /\ GoodSince(copy[u], u)
    BY <1>1, <1>2, RowsAre DEF Fresh, FreshCopy
  <2>2. CASE u \in troubled
    BY <1>1, <2>1, <2>2 DEF GoodSince
  <2>3. CASE u \notin troubled
    <3>1. GoodFor(copy[u], 2 * Period)
      BY <1>1, <1>3, <2>3 DEF Fresh, FreshCopy
    <3>2. since'[u] = 0 /\ 2 * Period - 0 = 2 * Period
      BY <1>1, <2>1, <2>3, TokenAssumption
    <3> QED BY <2>1, <3>1, <3>2 DEF GoodSince
  <2> QED BY <2>2, <2>3
<1>5. FreshFile'
  BY <1>1, <1>4, GraceSame DEF FreshFile, GoodSince, GoodFor, ReallyLeft
<1>6. FreshCopy'
  BY <1>1 DEF FreshCopy
<1> QED BY <1>5, <1>6

LEMMA TickFresh ==
    ASSUME TimingFits, TInv, Fresh, Tick
    PROVE  FreshFile' /\ FreshCopy'
<1>1. /\ Serving /\ copy' = None /\ DOMAIN cache' = DOMAIN cache
      /\ since' = [u \in UserSet |-> since[u] + 1]
      /\ file' = OlderRows(file)
  <2>1. copy = None /\ copy' = copy
    BY DEF Tick
  <2> QED BY <2>1, OlderCacheTypes DEF Tick
<1>2. IsRows(file) /\ Grace \in Nat /\ Period \in Nat
  BY Numbers, TokenAssumption DEF TInv, TypeOK
<1>3. ASSUME NEW u \in DOMAIN file \cap DOMAIN cache
      PROVE  /\ file'[u]["account"] = file'[u]["minecraft"]
             /\ since'[u] <= Grace => GoodFor(file'[u], 2 * Period - since'[u])
  <2>1. u \in UserSet /\ file[u] \in [Fields -> Int]
    BY <1>2, RowsAre
  <2>2. GoodSince(file[u], u)
    BY <1>1 DEF Fresh, FreshFile
  <2>3. /\ since[u] \in Nat /\ since'[u] = since[u] + 1 /\ 2 * Period - since[u] \in Int
        /\ 2 * Period - since'[u] = (2 * Period - since[u]) - 1
    BY <1>1, <1>2, <2>1, SinceOf
  <2>4. file'[u] = [f \in Fields |-> Older(file[u][f])]
    BY <1>1 DEF OlderRows
  <2>5. file'[u]["account"] = file'[u]["minecraft"]
    BY <2>2, <2>4, LinksAre DEF GoodSince
  <2>6. ASSUME since'[u] <= Grace PROVE GoodFor(file'[u], 2 * Period - since'[u])
    <3>1. since[u] <= Grace
      BY <1>2, <2>3, <2>6
    <3>2. GotFor(file[u], Needed, 2 * Period - since[u])
      BY <2>2, <3>1, GoodForIs DEF GoodSince
    <3>3. GotFor(file'[u], Needed, (2 * Period - since[u]) - 1)
      BY <2>1, <2>3, <2>4, <3>2, GotForOlder
    <3> QED BY <2>3, <2>5, <3>3, GoodForIs
  <2> QED BY <2>5, <2>6
<1>4. DOMAIN file' = DOMAIN file
  BY <1>1, <1>2, OlderTypes
<1>5. FreshFile'
  BY <1>1, <1>3, <1>4, GraceSame DEF FreshFile, GoodSince, GoodFor, ReallyLeft
<1>6. FreshCopy'
  BY <1>1 DEF FreshCopy
<1> QED BY <1>5, <1>6

\* Renewal makes nothing worse, and good whatever it is not disturbed at.
LEMMA RenewFresh ==
    ASSUME TimingFits, TInv, Fresh, NEW v \in UserSet, RenewAccount(v)
    PROVE  FreshFile' /\ FreshCopy'
<1>1. PICK fails, got :
        /\ got \in Int /\ got >= 0
        /\ copy' = [copy EXCEPT ![v] = RenewChain(copy[v], v \in DOMAIN cache, fails, got)]
        /\ troubled' = IF fails = {} THEN troubled ELSE troubled \cup {v}
        /\ cache' = cache \/ (v \in DOMAIN cache /\ cache' = [cache EXCEPT ![v] = got])
  BY Renewal
<1>2. /\ IsRows(copy) /\ copy # None /\ v \in DOMAIN copy /\ Head(todo) = v /\ todo # <<>>
      /\ todo' = Tail(todo)
  BY Renewal
<1>3. stage' = stage /\ file' = file /\ since' = since /\ Serving
  BY Renewal DEF RenewAccount
<1>4. DOMAIN cache' = DOMAIN cache /\ DOMAIN copy' = DOMAIN copy
  BY <1>1
<1>5. Range(todo) \subseteq {v} \cup Range(todo')
  BY <1>2, TailLeaves DEF TInv, TodoOK
<1>6. FreshFile'
  BY <1>3, <1>4, GraceSame DEF Fresh, FreshFile, Serving, GoodSince, GoodFor, ReallyLeft
<1>7. ASSUME NEW u \in DOMAIN copy \cap DOMAIN cache
      PROVE  /\ GoodSince(copy'[u], u)
             /\ u \notin Range(todo') /\ u \notin troubled' => GoodFor(copy'[u], 2 * Period)
  <2>1. /\ GoodSince(copy[u], u)
        /\ u \notin Range(todo) /\ u \notin troubled => GoodFor(copy[u], 2 * Period)
    BY <1>2, <1>3 DEF Fresh, FreshCopy
  <2>2. CASE u # v
    <3>1. copy'[u] = copy[u]
      BY <1>1, <2>2
    <3>2. u \notin Range(todo') => u \notin Range(todo)
      BY <1>5, <2>2
    <3>3. u \notin troubled' => u \notin troubled
      BY <1>1
    <3> QED BY <2>1, <3>1, <3>2, <3>3
  <2>3. CASE u = v
    <3>1. copy[u] \in [Fields -> Int] /\ u \in UserSet
      BY <1>2, RowsAre
    <3>2. copy'[u] = RenewChain(copy[u], TRUE, fails, got)
      BY <1>1, <2>3
    <3>5. copy[u]["account"] = copy[u]["minecraft"]
      BY <2>1 DEF GoodSince
    <3>6. copy'[u]["account"] = copy'[u]["minecraft"]
      <4> DEFINE t == copy[u]
                 yes == TRUE
      <4>1. t \in [Fields -> Int] /\ got \in Int /\ t["account"] = t["minecraft"] /\ yes \in BOOLEAN
        BY <1>1, <3>1, <3>5
      <4>2. copy'[u] = RenewChain(t, yes, fails, got)
        BY <3>2
      <4> HIDE DEF t, yes
      <4>3. RenewChain(t, yes, fails, got)["account"] = RenewChain(t, yes, fails, got)["minecraft"]
        BY <4>1, ChainAccount
      <4> QED BY <4>2, <4>3
    <3>7. since[u] <= Grace => GoodFor(copy'[u], 2 * Period - since[u])
      BY <1>1, <2>1, <3>1, <3>2, SinceOf, ChainKeeps DEF GoodSince
    <3>3. GoodSince(copy'[u], u)
      BY <3>6, <3>7 DEF GoodSince
    <3>4. ASSUME u \notin troubled' PROVE GoodFor(copy'[u], 2 * Period)
      <4>1. fails = {}
        BY <1>1, <2>3, <3>4
      <4> QED BY <1>1, <3>1, <3>2, <3>5, <4>1, ChainRenews
    <3> QED BY <3>3, <3>4
  <2> QED BY <2>2, <2>3
<1>8. FreshCopy'
  BY <1>3, <1>4, <1>7, GraceSame DEF FreshCopy, GoodSince, GoodFor, ReallyLeft
<1> QED BY <1>6, <1>8

LEMMA FreshStep == TimingFits /\ TInv /\ Fresh /\ [Next]_vars => Fresh'
<1> SUFFICES ASSUME TimingFits, TInv, Fresh, [Next]_vars PROVE Fresh'
  OBVIOUS
<1>1. CASE Start \/ SubprocessDies \/ SignInStep \/ GetChunk
  BY <1>1, StartupFresh
<1>2. CASE Deserialize \/ StartAnyway \/ CreateDB
  BY <1>2, AuthenticationFresh
<1>5. CASE AuthStep
  BY <1>5, AuthFresh
<1>3. CASE CleanupStep \/ Tick
  <2>1. InTime'
    BY <1>3, CleanupInTime DEF Fresh
  <2>2. FreshFile' /\ FreshCopy'
    <3>1. CASE Spawn
      BY <3>1, GraceSame
         DEF Spawn, startup, Fresh, FreshFile, FreshCopy, Serving, GoodSince, GoodFor, ReallyLeft
    <3> QED BY <1>3, <3>1, StartCleanupFresh, NoRowFresh, EndCleanupFresh, TickFresh, RenewFresh
            DEF CleanupStep
  <2>3. FreshStart'
    <3>1. Serving /\ stage' = stage
      BY <1>3 DEF CleanupStep, StartCleanup, NoRow, EndCleanup, Spawn, RenewAccount, Tick, Serving
    <3> QED BY <3>1 DEF FreshStart, Serving, Authenticating
  <2> QED BY <2>1, <2>2, <2>3 DEF Fresh
<1>4. CASE UNCHANGED vars
  BY <1>4, GraceSame
     DEF vars, startup, cleaning, Fresh, InTime, FreshFile, FreshCopy, FreshStart, Authenticating,
         Serving, GoodSince, GoodFor, Got, GotFor, ReallyLeft
<1> QED BY <1>1, <1>2, <1>3, <1>4, <1>5 DEF Next, MainStep, MinecraftStep, AuthStep

LEMMA FreshSuffices == IInv => FreshTokens
<1> SUFFICES ASSUME TInv, TimingFits, Fresh, Serving,
                    NEW u \in DOMAIN file \cap DOMAIN cache,
                    ~(since[u] > Grace /\ next = Period /\ (copy # None \/ 0 \in sleeping)),
                    NEW f \in Fields \ {"msal"}
             PROVE  ReallyLeft(file[u], f) >= 0
  BY DEF FreshTokens, IInv
<1>1. IsRows(file)
  BY DEF TInv, TypeOK
<1>2. u \in UserSet /\ file[u][f] \in Int
  BY <1>1, RowsAre
<1>3. since[u] \in Nat /\ since[u] <= Grace
  <2>1. since[u] \in Nat /\ Grace \in Nat
    BY <1>2, SinceOf, Numbers
  <2>2. since[u] > Grace <=> ~(since[u] <= Grace)
    BY <2>1
  <2> QED BY <1>2, <2>1, <2>2 DEF Fresh, InTime
<1>4. ReallyLeft(file[u], f) >= 2 * Period - since[u]
  BY <1>3 DEF Fresh, FreshFile, GoodSince, GoodFor, Needed
<1>5. 2 * Period - since[u] \in Int /\ 2 * Period - since[u] >= 0
  BY <1>3, Numbers, TokenAssumption
<1>6. ReallyLeft(file[u], f) \in Int
  BY <1>2, TokenAssumption DEF ReallyLeft
<1> QED BY <1>4, <1>5, <1>6

\* As long as no two cleanups in a row fail for an account, the services' tokens
\* last for two periods and the clock is not behind UTC, no token that the client
\* or a renewal needs runs out, for any accounts, periods and outages.
THEOREM TokensStayFresh == Spec => []FreshTokens
<1>1. Init => IInv
  BY InitTypes, InitFresh DEF IInv
<1>2. IInv /\ [Next]_vars => IInv'
  <2>1. TimingFits' = TimingFits
    BY DEF TimingFits
  <2> QED BY <2>1, TypeStep, FreshStep DEF IInv
<1> QED BY <1>1, <1>2, FreshSuffices, PTL DEF Spec

-----------------------------------------------------------------------------
(* The MSAL cache on its way from the subprocess                            *)

\* The text of the cache, and what it is made of.
Char == (UserSet \cup {None}) \X Nat

Text == Seq(Char)

\* What the subprocess sends in all, and how much of the text k chunks are.
Message == Chunks(Serialize(signed)) \o <<SendDone>>

NumChunks(serial) == Len(serial) \div ChunkSize + 1

EndOf(serial, k) == IF k * ChunkSize < Len(serial) THEN k * ChunkSize ELSE Len(serial)

\* k chunks have been heard, the others are on the way.
Sent(k) ==
    /\ heard = SubSeq(Serialize(signed), 1, EndOf(Serialize(signed), k))
    /\ queue \o sending = SubSeq(Message, k + 1, Len(Message))

\* The subprocess has not begun to send.
NothingSent == sending = <<>> /\ queue = <<>> /\ heard = <<>>

\* Why what arrives is the cache: at any time what has been heard, what is in the
\* queue and what the subprocess still holds are its text, cut into chunks, in
\* order; a subprocess that is done holds nothing any more.
CacheOnItsWay ==
    /\ stage = "off" => sub = "none" /\ NothingSent
    /\ stage = "interactive" =>
         /\ sending \in Seq(Text) /\ queue \in Seq(Text)
         /\ \/ sub \in {"signing", "dead"} /\ NothingSent
            \/ /\ sub \in {"sending", "done", "dead"}
               /\ \E k \in 0..NumChunks(Serialize(signed)) : Sent(k)
         /\ sub = "done" => sending = <<>>
    /\ Authenticating => DOMAIN cache = signed

-----------------------------------------------------------------------------

\* The entry of one account is text.
LEMMA PartType ==
  ASSUME NEW u \in UserSet
  PROVE  EntryOf(u) \in Text /\ ToSet(EntryOf(u)) = {<<u, k>> : k \in 1..Entry}
<1>1. Entry \in Nat
  BY TokenAssumption
<1>2. EntryOf(u) \in [1..Entry -> Char]
  BY <1>1 DEF EntryOf, Char
<1>3. EntryOf(u) \in Text
  BY <1>1, <1>2, SeqDef DEF Text
<1>4. DOMAIN EntryOf(u) = 1..Entry /\ \A k \in 1..Entry : EntryOf(u)[k] = <<u, k>>
  BY DEF EntryOf
<1> QED BY <1>3, <1>4 DEF ToSet

Parts(accounts) == [i \in DOMAIN Users |-> IF Users[i] \in accounts THEN EntryOf(Users[i]) ELSE <<>>]

\* So are those of a set of accounts,
LEMMA PartsType ==
  ASSUME NEW A
  PROVE  /\ Parts(A) \in Seq(Text)
         /\ Len(Parts(A)) = Len(Users)
         /\ \A i \in 1..Len(Users) :
              Parts(A)[i] = IF Users[i] \in A THEN EntryOf(Users[i]) ELSE <<>>
<1>1. Users \in Seq(UserSet)
  BY TokenAssumption
<1>2. Len(Users) \in Nat /\ DOMAIN Users = 1..Len(Users) /\ \A i \in 1..Len(Users) : Users[i] \in UserSet
  <2> HIDE DEF UserSet
  <2> QED BY <1>1, LenProperties
<1>3. <<>> \in Text
  BY EmptySeq DEF Text
<1>4. \A i \in 1..Len(Users) : (IF Users[i] \in A THEN EntryOf(Users[i]) ELSE <<>>) \in Text
  BY <1>2, <1>3, PartType
<1>5. Parts(A) \in [1..Len(Users) -> Text]
  BY <1>2, <1>4 DEF Parts
<1>6. Parts(A) \in Seq(Text)
  BY <1>2, <1>5, SeqDef
<1>7. Len(Parts(A)) = Len(Users)
  BY <1>2, <1>5, <1>6, LenProperties
<1> QED BY <1>2, <1>6, <1>7 DEF Parts

\* The text has the brackets and the entries of just these accounts.
LEMMA SerialType ==
  ASSUME NEW A
  PROVE  /\ Serialize(A) \in Text
         /\ ToSet(Serialize(A)) = {<<None, 0>>, <<None, 1>>}
              \cup UNION {ToSet(Parts(A)[i]) : i \in 1..Len(Users)}
<1> DEFINE flat == FlattenSeq(Parts(A))
           open == << <<None, 0>> >>
           close == << <<None, 1>> >>
<1>1. flat \in Text /\ ToSet(flat) = UNION {ToSet(Parts(A)[i]) : i \in 1..Len(Users)}
  BY PartsType, FlattenSeqType, FlattenSeqRange DEF Text
<1>2. open \in Text /\ close \in Text
  BY DEF Text, Char
<1>3. Serialize(A) = (open \o flat) \o close
  BY DEF Serialize, Parts
<1>4. Range(open) = {<<None, 0>>} /\ Range(close) = {<<None, 1>>} /\ Range(flat) = ToSet(flat)
  BY DEF Range, ToSet
<1> HIDE DEF flat, open, close
<1>5. open \o flat \in Text
  BY <1>1, <1>2, ConcatProperties DEF Text
<1>6. Range(open \o flat) = Range(open) \cup Range(flat)
  BY <1>1, <1>2, RangeConcatenation DEF Text
<1>7. Range((open \o flat) \o close) = Range(open \o flat) \cup Range(close)
  BY <1>2, <1>5, RangeConcatenation DEF Text
<1>8. (open \o flat) \o close \in Text
  BY <1>2, <1>5, ConcatProperties DEF Text
<1>9. ToSet(Serialize(A)) = Range(Serialize(A))
  BY DEF Range, ToSet
<1> QED BY <1>1, <1>3, <1>4, <1>6, <1>7, <1>8, <1>9

\* An account has signed in if its characters are in the text.
LEMMA SerialHas ==
  ASSUME NEW A \in SUBSET UserSet
  PROVE  /\ \A u \in UserSet : u \in A <=> <<u, 1>> \in ToSet(Serialize(A))
         /\ <<None, 2>> \notin ToSet(Serialize(A))
<1>1. None \notin UserSet /\ Entry \in Nat /\ Entry >= 1 /\ Users \in Seq(UserSet)
  BY TokenAssumption
<1>2. UserSet = {Users[i] : i \in 1..Len(Users)}
  BY <1>1, RangeEquality DEF UserSet
<1>3. \A i \in 1..Len(Users) :
        ToSet(Parts(A)[i]) = IF Users[i] \in A THEN {<<Users[i], k>> : k \in 1..Entry} ELSE {}
  <2> TAKE i \in 1..Len(Users)
  <2>1. ToSet(<<>>) = {}
    BY DEF ToSet
  <2>2. Users[i] \in UserSet
    BY <1>2
  <2> QED BY <2>1, <2>2, PartsType, PartType
<1>4. ASSUME NEW u \in UserSet, u \in A PROVE <<u, 1>> \in ToSet(Serialize(A))
  <2>1. PICK i \in 1..Len(Users) : Users[i] = u
    BY <1>2
  <2>2. ToSet(Parts(A)[i]) = {<<u, k>> : k \in 1..Entry}
    BY <2>1, <1>3, <1>4
  <2>3. 1 \in 1..Entry
    BY <1>1
  <2>4. <<u, 1>> \in ToSet(Parts(A)[i])
    BY <2>2, <2>3
  <2> QED BY <2>4, SerialType
<1>5. ASSUME NEW u, NEW k, <<u, k>> \in ToSet(Serialize(A)), <<u, k>> \notin {<<None, 0>>, <<None, 1>>}
      PROVE  u \in A
  <2>1. PICK i \in 1..Len(Users) : <<u, k>> \in ToSet(Parts(A)[i])
    BY <1>5, SerialType
  <2>2. Users[i] \in A /\ <<u, k>> \in {<<Users[i], j>> : j \in 1..Entry}
    BY <2>1, <1>3
  <2>3. PICK j \in 1..Entry : <<u, k>> = <<Users[i], j>>
    BY <2>2
  <2> QED BY <2>2, <2>3
<1>6. ASSUME NEW u \in UserSet, <<u, 1>> \in ToSet(Serialize(A)) PROVE u \in A
  BY <1>5, <1>6, <1>1
<1>7. <<None, 2>> \notin ToSet(Serialize(A))
  <2>1. <<None, 2>> \notin {<<None, 0>>, <<None, 1>>}
    OBVIOUS
  <2>2. None \notin A
    BY <1>1
  <2> QED BY <2>1, <2>2, <1>5
<1> QED BY <1>4, <1>6, <1>7

\* Different accounts make different texts.
LEMMA SerialInjective ==
  ASSUME NEW A \in SUBSET UserSet, NEW B \in SUBSET UserSet, Serialize(A) = Serialize(B)
  PROVE  A = B
<1>1. \A u \in UserSet : u \in A <=> u \in B
  BY SerialHas
<1> QED BY <1>1

-----------------------------------------------------------------------------
(* Chunks.                                                                  *)

\* The chunks end in order, the last one with the text.
LEMMA ChunkNumbers ==
  ASSUME NEW serial \in Text
  PROVE  /\ Len(serial) \in Nat /\ NumChunks(serial) \in Nat /\ NumChunks(serial) >= 1
         /\ NumChunks(serial) * ChunkSize > Len(serial)
         /\ \A k \in 0..(NumChunks(serial) - 1) : k * ChunkSize \in Nat /\ k * ChunkSize <= Len(serial)
<1> DEFINE len == Len(serial)
           q == len \div ChunkSize
<1>1. len \in Nat /\ ChunkSize \in Nat /\ ChunkSize >= 1
  BY TokenAssumption, LenProperties DEF Text
<1>2. q \in Nat /\ q * ChunkSize <= len /\ len < (q + 1) * ChunkSize
  <2> HIDE DEF len
  <2> QED BY <1>1
<1>3. ASSUME NEW k \in 0..q PROVE k * ChunkSize \in Nat /\ k * ChunkSize <= len
  <2> HIDE DEF len, q
  <2> QED BY <1>1, <1>2
<1> QED BY <1>1, <1>2, <1>3 DEF NumChunks

\* Each is the piece of the text between two ends.
LEMMA ChunksAre ==
  ASSUME NEW serial \in Text
  PROVE  /\ Chunks(serial) \in Seq(Text)
         /\ Len(Chunks(serial)) = NumChunks(serial)
         /\ \A i \in 1..NumChunks(serial) :
              Chunks(serial)[i] = SubSeq(serial, EndOf(serial, i - 1) + 1, EndOf(serial, i))
<1> DEFINE n == NumChunks(serial)
<1>1. n \in Nat /\ ChunkSize \in Nat /\ Len(serial) \in Nat
  BY ChunkNumbers, TokenAssumption
<1>2. ASSUME NEW i \in 1..n
      PROVE  /\ EndOf(serial, i - 1) = (i - 1) * ChunkSize /\ (i - 1) * ChunkSize \in Nat
             /\ i * ChunkSize \in Nat /\ EndOf(serial, i) \in 0..Len(serial)
  <2>1. i - 1 \in 0..(n - 1)
    BY <1>1
  <2>2. (i - 1) * ChunkSize \in Nat /\ (i - 1) * ChunkSize <= Len(serial)
    BY <2>1, ChunkNumbers
  <2>3. i * ChunkSize \in Nat
    BY <1>1
  <2> QED BY <2>2, <2>3, <1>1 DEF EndOf
<1>3. ASSUME NEW i \in 1..n
      PROVE  SubSeq(serial, EndOf(serial, i - 1) + 1, EndOf(serial, i)) \in Text
  <2> DEFINE a == EndOf(serial, i - 1) + 1
             b == EndOf(serial, i)
  <2>1. a \in Int /\ b \in Int /\ a >= 1 /\ b <= Len(serial)
    BY <1>1, <1>2
  <2>2. \A j \in a..b : serial[j] \in Char
    <3> HIDE DEF a, b
    <3> QED BY <2>1, <1>1, ElementOfSeq DEF Text
  <2>3. SubSeq(serial, a, b) \in Seq(Char)
    <3> HIDE DEF a, b
    <3> QED BY <2>1, <2>2, SubSeqProperties
  <2> QED BY <2>3 DEF Text
<1>4. Chunks(serial) = [i \in 1..n |-> SubSeq(serial, EndOf(serial, i - 1) + 1, EndOf(serial, i))]
  <2>1. \A i \in 1..n : SubSeq(serial, (i - 1) * ChunkSize + 1,
                               IF i * ChunkSize < Len(serial) THEN i * ChunkSize ELSE Len(serial))
                          = SubSeq(serial, EndOf(serial, i - 1) + 1, EndOf(serial, i))
    BY <1>2 DEF EndOf
  <2> QED BY <2>1 DEF Chunks, NumChunks
<1>5. Chunks(serial) \in [1..n -> Text]
  BY <1>3, <1>4
<1>6. Chunks(serial) \in Seq(Text)
  BY <1>1, <1>5, SeqDef
<1>7. Len(Chunks(serial)) = n
  BY <1>1, <1>5, <1>6, LenProperties
<1> QED BY <1>4, <1>6, <1>7

\* No chunk is SEND_DONE, so that reading stops behind the last one.
LEMMA NoChunkEndsIt ==
  ASSUME NEW A \in SUBSET UserSet, NEW i \in 1..NumChunks(Serialize(A))
  PROVE  Chunks(Serialize(A))[i] # SendDone
<1> DEFINE serial == Serialize(A)
           a == EndOf(serial, i - 1) + 1
           b == EndOf(serial, i)
<1>1. serial \in Text
  BY SerialType
<1>2. NumChunks(serial) \in Nat /\ ChunkSize \in Nat /\ Len(serial) \in Nat
  BY <1>1, ChunkNumbers, TokenAssumption
<1>3. a \in Int /\ a >= 1 /\ b \in Int /\ b <= Len(serial)
  <2>1. (i - 1) * ChunkSize \in Nat /\ i * ChunkSize \in Nat
    <3>1. i - 1 \in Nat /\ i \in Nat
      BY <1>2
    <3> QED BY <3>1, <1>2
  <2> HIDE DEF serial
  <2> QED BY <2>1, <1>2 DEF EndOf
<1>4. Chunks(serial)[i] = SubSeq(serial, a, b)
  BY <1>1, ChunksAre
<1> SUFFICES ASSUME SubSeq(serial, a, b) = SendDone PROVE FALSE
  BY <1>4
<1>5. Len(SendDone) = 1 /\ SendDone[1] = <<None, 2>>
  BY DEF SendDone
<1>6. \A j \in a..b : serial[j] \in Char
  <2> HIDE DEF serial, a, b
  <2> QED BY <1>1, <1>2, <1>3, ElementOfSeq DEF Text
<1>7. a <= b /\ SubSeq(serial, a, b)[1] = serial[a]
  <2> HIDE DEF serial, a, b
  <2>1. Len(SubSeq(serial, a, b)) = 1
    BY <1>5
  <2>2. Len(SubSeq(serial, a, b)) = IF a <= b THEN b - a + 1 ELSE 0
    BY <1>3, <1>6, SubSeqProperties
  <2>3. a <= b
    BY <2>1, <2>2
  <2>4. \A j \in 1..(b - a + 1) : SubSeq(serial, a, b)[j] = serial[a + j - 1]
    BY <1>3, <1>6, SubSeqProperties
  <2>5. 1 \in 1..(b - a + 1) /\ a + 1 - 1 = a
    BY <1>3, <2>3
  <2> QED BY <2>3, <2>4, <2>5
<1>8. a \in DOMAIN serial
  <2> HIDE DEF serial, a, b
  <2> QED BY <1>1, <1>2, <1>3, <1>7, LenProperties DEF Text
<1>9. <<None, 2>> \in ToSet(serial)
  <2> HIDE DEF serial, a, b
  <2> QED BY <1>5, <1>7, <1>8 DEF ToSet
<1> QED BY <1>9, SerialHas

\* One more chunk behind those that have come.
LEMMA ChunkArrives ==
  ASSUME NEW serial \in Text, NEW k \in 0..(NumChunks(serial) - 1)
  PROVE  SubSeq(serial, 1, EndOf(serial, k)) \o Chunks(serial)[k + 1] = SubSeq(serial, 1, EndOf(serial, k + 1))
<1>1. NumChunks(serial) \in Nat /\ ChunkSize \in Nat /\ Len(serial) \in Nat
  BY ChunkNumbers, TokenAssumption
<1>2. k * ChunkSize \in Nat /\ k * ChunkSize <= Len(serial) /\ k \in Nat
  BY <1>1, ChunkNumbers
<1>3. (k + 1) * ChunkSize = k * ChunkSize + ChunkSize
  BY <1>1, <1>2
<1>4. EndOf(serial, k) \in 0..Len(serial) /\ EndOf(serial, k + 1) \in EndOf(serial, k)..Len(serial)
  BY <1>1, <1>2, <1>3 DEF EndOf
<1>5. Chunks(serial)[k + 1] = SubSeq(serial, EndOf(serial, k) + 1, EndOf(serial, k + 1))
  <2>1. k + 1 \in 1..NumChunks(serial) /\ (k + 1) - 1 = k
    BY <1>1
  <2> QED BY <2>1, ChunksAre
<1> DEFINE p == EndOf(serial, k)
           r == EndOf(serial, k + 1)
<1>6. SubSeq(serial, 1, p) \o SubSeq(serial, p + 1, r) = SubSeq(serial, 1, r)
  <2>1. 1 \in 1..(Len(serial) + 1) /\ p \in (1 - 1)..Len(serial) /\ r \in p..Len(serial)
    BY <1>1, <1>4
  <2> HIDE DEF p, r
  <2> QED BY <2>1, ConcatAdjacentSubSeq DEF Text
<1> QED BY <1>5, <1>6

\* All of them are all of it.
LEMMA AllChunks ==
  ASSUME NEW serial \in Text
  PROVE  SubSeq(serial, 1, EndOf(serial, NumChunks(serial))) = serial
<1>1. EndOf(serial, NumChunks(serial)) = Len(serial)
  BY ChunkNumbers, TokenAssumption DEF EndOf
<1> QED BY <1>1, SubSeqFull DEF Text

-----------------------------------------------------------------------------
(* The message in the queue and before it.                                  *)

\* All that is sent: the chunks, and SEND_DONE.
LEMMA MessageIs ==
  ASSUME signed \subseteq UserSet
  PROVE  /\ Serialize(signed) \in Text
         /\ NumChunks(Serialize(signed)) \in Nat
         /\ Message \in Seq(Text)
         /\ Len(Message) = NumChunks(Serialize(signed)) + 1
         /\ Message[Len(Message)] = SendDone
         /\ \A i \in 1..NumChunks(Serialize(signed)) :
              Message[i] = Chunks(Serialize(signed))[i] /\ Message[i] # SendDone
<1> DEFINE serial == Serialize(signed)
           chunks == Chunks(serial)
           n == NumChunks(serial)
           last == <<SendDone>>
<1>1. serial \in Text
  BY SerialType
<1>2. n \in Nat /\ chunks \in Seq(Text) /\ Len(chunks) = n
  BY <1>1, ChunkNumbers, ChunksAre
<1>3. SendDone \in Text
  BY DEF SendDone, Text, Char
<1>4. last \in Seq(Text) /\ Len(last) = 1 /\ last[1] = SendDone
  BY <1>3
<1>5. /\ Message \in Seq(Text) /\ Len(Message) = n + 1
      /\ \A i \in 1..(n + 1) : Message[i] = IF i <= n THEN chunks[i] ELSE last[i - n]
  <2>1. Message = chunks \o last
    BY DEF Message
  <2> HIDE DEF chunks, last, n, serial
  <2>2. chunks \o last \in Seq(Text) /\ Len(chunks \o last) = Len(chunks) + Len(last)
    BY <1>2, <1>4, ConcatProperties
  <2>3. \A i \in 1..(Len(chunks) + Len(last)) :
          (chunks \o last)[i] = IF i <= Len(chunks) THEN chunks[i] ELSE last[i - Len(chunks)]
    BY <1>2, <1>4, ConcatProperties
  <2> QED BY <2>1, <2>2, <2>3, <1>2, <1>4
<1>6. Message[n + 1] = SendDone
  <2> HIDE DEF chunks, last, n, serial
  <2>1. n + 1 \in 1..(n + 1) /\ ~(n + 1 <= n) /\ (n + 1) - n = 1
    BY <1>2
  <2> QED BY <2>1, <1>4, <1>5
<1>7. \A i \in 1..n : Message[i] = chunks[i]
  <2> HIDE DEF chunks, last, n, serial
  <2> QED BY <1>2, <1>5
<1>8. \A i \in 1..n : chunks[i] # SendDone
  BY NoChunkEndsIt
<1> QED BY <1>1, <1>2, <1>5, <1>6, <1>7, <1>8

\* Putting one into the queue leaves what is still to be heard.
LEMMA PutKeeps ==
  ASSUME NEW q \in Seq(Text), NEW s \in Seq(Text), s # <<>>
  PROVE  /\ Append(q, Head(s)) \in Seq(Text) /\ Tail(s) \in Seq(Text)
         /\ Append(q, Head(s)) \o Tail(s) = q \o s
<1>1. Head(s) \in Text /\ Tail(s) \in Seq(Text) /\ Append(q, Head(s)) \in Seq(Text)
  BY HeadTailProperties, AppendProperties
<1>2. \A x \in Text, t \in Seq(Text) : Append(q, x) \o t = q \o (<<x>> \o t)
  <2> TAKE x \in Text, t \in Seq(Text)
  <2>1. <<x>> \in Seq(Text)
    OBVIOUS
  <2>2. Append(q, x) = Cat(q, <<x>>)
    BY AppendIsConcat DEF Cat
  <2>3. Cat(Cat(q, <<x>>), t) = Cat(q, Cat(<<x>>, t))
    <3> DEFINE y == <<x>>
    <3>1. y \in Seq(Text)
      BY <2>1
    <3> HIDE DEF y
    <3>2. Cat(Cat(q, y), t) = Cat(q, Cat(y, t))
      BY <3>1, CatAssociative
    <3> QED BY <3>2 DEF y
  <2> QED BY <2>2, <2>3 DEF Cat
<1>3. s = <<Head(s)>> \o Tail(s)
  <2>1. Len(s) \in Nat /\ Len(s) # 0 /\ s = SubSeq(s, 1, Len(s)) /\ Head(s) = s[1] /\ Tail(s) = SubSeq(s, 2, Len(s))
    BY EmptySeq, LenProperties, SubSeqFull, TailIsSubSeq
  <2>2. 1 \in 1..Len(s) /\ Len(s) \in 1..Len(s) /\ 1 + 1 = 2
    BY <2>1
  <2>3. SubSeq(s, 1, Len(s)) = <<s[1]>> \o SubSeq(s, 1 + 1, Len(s))
    BY <2>2, SubSeqRecursiveFirst
  <2> QED BY <2>1, <2>2, <2>3
<1> QED BY <1>1, <1>2, <1>3

\* Taking one out of it.
LEMMA TakeKeeps ==
  ASSUME NEW q \in Seq(Text), NEW s \in Seq(Text), q # <<>>,
         NEW m \in Seq(Text), NEW k \in 0..Len(m), q \o s = SubSeq(m, k + 1, Len(m))
  PROVE  /\ k + 1 \in 1..Len(m) /\ Head(q) = m[k + 1]
         /\ Tail(q) \in Seq(Text) /\ Tail(q) \o s = SubSeq(m, (k + 1) + 1, Len(m))
<1> DEFINE all == q \o s
<1>1. Len(q) \in Nat \ {0} /\ Len(s) \in Nat /\ Len(m) \in Nat
  BY EmptySeq, LenProperties
<1>2. all \in Seq(Text) /\ Len(all) = Len(q) + Len(s)
      /\ \A i \in 1..(Len(q) + Len(s)) : all[i] = IF i <= Len(q) THEN q[i] ELSE s[i - Len(q)]
  BY ConcatProperties
<1>3. Head(q) = q[1] /\ Head(q) \in Text /\ Tail(q) \in Seq(Text) /\ q = <<Head(q)>> \o Tail(q)
  <2>1. q = SubSeq(q, 1, Len(q)) /\ Head(q) = q[1] /\ Tail(q) = SubSeq(q, 2, Len(q))
    BY <1>1, SubSeqFull, TailIsSubSeq
  <2>2. 1 \in 1..Len(q) /\ Len(q) \in 1..Len(q) /\ 1 + 1 = 2
    BY <1>1
  <2>3. SubSeq(q, 1, Len(q)) = <<q[1]>> \o SubSeq(q, 1 + 1, Len(q))
    BY <2>2, SubSeqRecursiveFirst
  <2> QED BY <2>1, <2>2, <2>3, HeadTailProperties
<1>4. all[1] = q[1] /\ Len(all) # 0
  BY <1>1, <1>2
<1>5. \A i \in (k + 1)..Len(m) : m[i] \in Text
  BY <1>1, ElementOfSeq
<1>6. k + 1 <= Len(m)
  <2>1. k + 1 \in Int /\ Len(m) \in Int
    BY <1>1
  <2>2. CASE Len(m) < k + 1
    <3>1. Len(SubSeq(m, k + 1, Len(m))) = IF k + 1 <= Len(m) THEN Len(m) - (k + 1) + 1 ELSE 0
      BY <2>1, <1>5, SubSeqProperties
    <3> QED BY <3>1, <2>1, <2>2, <1>4
  <2> QED BY <2>1, <2>2
<1>7. k + 1 \in 1..Len(m) /\ Len(m) \in (k + 1)..Len(m)
  BY <1>1, <1>6
<1>8. Head(SubSeq(m, k + 1, Len(m))) = m[k + 1] /\ SubSeq(m, k + 1, Len(m)) = <<m[k + 1]>> \o SubSeq(m, (k + 1) + 1, Len(m))
  BY <1>7, HeadTailOfSubSeq, SubSeqRecursiveFirst
<1>9. Tail(SubSeq(m, k + 1, Len(m))) = SubSeq(m, (k + 1) + 1, Len(m))
  BY <1>7, HeadTailOfSubSeq
<1>10. all # <<>> /\ Head(all) = all[1]
  <2> HIDE DEF all
  <2>1. all # <<>>
    BY <1>4
  <2> QED BY <2>1, <1>2
<1>11. Head(q) = m[k + 1]
  BY <1>3, <1>4, <1>8, <1>10
<1>12. Tail(all) = Tail(q) \o s
  <2> DEFINE t == Tail(q) \o s
  <2>1. Len(Tail(q)) = Len(q) - 1 /\ \A i \in 1..Len(Tail(q)) : Tail(q)[i] = q[i + 1]
    BY <1>1, HeadTailProperties
  <2>2. t \in Seq(Text) /\ Len(t) = Len(Tail(q)) + Len(s)
        /\ \A i \in 1..(Len(Tail(q)) + Len(s)) :
              t[i] = IF i <= Len(Tail(q)) THEN Tail(q)[i] ELSE s[i - Len(Tail(q))]
    BY <1>3, ConcatProperties
  <2>3. Tail(all) \in Seq(Text) /\ Len(Tail(all)) = Len(all) - 1
        /\ \A i \in 1..Len(Tail(all)) : Tail(all)[i] = all[i + 1]
    BY <1>2, <1>10, HeadTailProperties
  <2>4. Len(t) = Len(Tail(all))
    BY <2>1, <2>2, <2>3, <1>1, <1>2
  <2>5. ASSUME NEW i \in 1..Len(t) PROVE Tail(all)[i] = t[i]
    <3>1. i \in 1..(Len(Tail(q)) + Len(s)) /\ i \in 1..Len(Tail(all)) /\ i + 1 \in 1..(Len(q) + Len(s))
      BY <2>1, <2>2, <2>4, <1>1
    <3>2. Tail(all)[i] = IF i + 1 <= Len(q) THEN q[i + 1] ELSE s[i + 1 - Len(q)]
      BY <3>1, <2>3, <1>2
    <3>3. t[i] = IF i <= Len(Tail(q)) THEN Tail(q)[i] ELSE s[i - Len(Tail(q))]
      BY <3>1, <2>2
    <3>4. CASE i <= Len(q) - 1
      <4>1. i \in 1..Len(Tail(q)) /\ i + 1 <= Len(q)
        BY <3>4, <2>1, <1>1
      <4> QED BY <4>1, <3>2, <3>3, <2>1
    <3>5. CASE ~(i <= Len(q) - 1)
      <4>1. ~(i + 1 <= Len(q)) /\ ~(i <= Len(Tail(q))) /\ i + 1 - Len(q) = i - Len(Tail(q))
        BY <3>5, <2>1, <1>1
      <4> QED BY <4>1, <3>2, <3>3
    <3> QED BY <3>4, <3>5
  <2> HIDE DEF t, all
  <2> QED BY <2>2, <2>3, <2>4, <2>5, SeqEqual DEF t
<1> QED BY <1>3, <1>7, <1>9, <1>11, <1>12

-----------------------------------------------------------------------------
(* Every step keeps the cache on its way.                                   *)

\* The next one on the way, and what is behind it.
LEMMA SentIs ==
  ASSUME signed \subseteq UserSet, queue \in Seq(Text), sending \in Seq(Text), queue # <<>>,
         NEW k \in 0..NumChunks(Serialize(signed)), Sent(k)
  PROVE  /\ k + 1 \in 1..(NumChunks(Serialize(signed)) + 1) /\ Head(queue) = Message[k + 1]
         /\ Tail(queue) \in Seq(Text) /\ Tail(queue) \o sending = SubSeq(Message, (k + 1) + 1, Len(Message))
<1> DEFINE m == Message
           n == NumChunks(Serialize(signed))
<1>1. m \in Seq(Text) /\ Len(m) = n + 1 /\ n \in Nat
  BY MessageIs
<1>2. queue \o sending = SubSeq(m, k + 1, Len(m))
  BY DEF Sent
<1>3. k \in 0..n
  OBVIOUS
<1> HIDE DEF m, n
<1>4. k \in 0..Len(m)
  BY <1>1, <1>3
<1>5. /\ k + 1 \in 1..Len(m) /\ Head(queue) = m[k + 1]
      /\ Tail(queue) \in Seq(Text) /\ Tail(queue) \o sending = SubSeq(m, (k + 1) + 1, Len(m))
  BY <1>1, <1>2, <1>4, TakeKeeps, ZenonT(60)
<1> QED BY <1>1, <1>5 DEF m, n

\* Sending one chunk keeps the others on their way.
LEMMA SendingStep ==
  ASSUME TypeOK, SubOK, CacheOnItsWay, SerializeCache \/ Put
  PROVE  CacheOnItsWay'
<1> DEFINE n == NumChunks(Serialize(signed))
<1>1. stage = "interactive" /\ stage' = stage /\ signed' = signed /\ heard' = heard /\ signed \subseteq UserSet
  BY DEF SerializeCache, Put, SubOK, TypeOK
<1>2. /\ Serialize(signed) \in Text /\ n \in Nat /\ Message \in Seq(Text) /\ Len(Message) = n + 1
  BY <1>1, MessageIs
<1>3. CASE SerializeCache
  <2>1. NothingSent /\ sub' = "sending" /\ sending' = Message /\ queue' = <<>> /\ heard' = <<>>
    BY <1>1, <1>3 DEF SerializeCache, CacheOnItsWay, NothingSent, Message
  <2>2. EndOf(Serialize(signed), 0) = 0
    <3>1. Len(Serialize(signed)) \in Nat /\ ChunkSize \in Nat
      BY <1>2, ChunkNumbers, TokenAssumption
    <3>2. 0 * ChunkSize = 0
      BY <3>1
    <3> QED BY <3>1, <3>2 DEF EndOf
  <2>3. SubSeq(Serialize(signed), 1, 0) = <<>>
    BY SubSeqEmpty
  <2>4. <<>> \o Message = Message /\ SubSeq(Message, 1, Len(Message)) = Message /\ <<>> \in Seq(Text)
    BY <1>2, ConcatEmptySeq, SubSeqFull, EmptySeq
  <2>5. heard' = SubSeq(Serialize(signed), 1, EndOf(Serialize(signed), 0))
    BY <2>1, <2>2, <2>3
  <2>6. queue' \o sending' = SubSeq(Message, 0 + 1, Len(Message))
    BY <2>1, <2>4
  <2>7. Sent(0)'
    BY <1>1, <2>5, <2>6 DEF Sent, Message
  <2>8. 0 \in 0..n
    BY <1>2
  <2> QED BY <1>1, <1>2, <2>1, <2>4, <2>7, <2>8 DEF CacheOnItsWay, Authenticating
<1>4. CASE Put
  <2>1. /\ sub = "sending" /\ sending \in Seq(Text) /\ queue \in Seq(Text)
        /\ \E k \in 0..n : Sent(k)
    BY <1>1, <1>4 DEF Put, CacheOnItsWay
  <2>2. PICK k \in 0..n : Sent(k)
    BY <2>1
  <2>3. CASE sending = <<>>
    <3>1. sub' = "done" /\ sending' = <<>> /\ queue' = queue
      BY <1>4, <2>3 DEF Put
    <3>2. Sent(k)'
      BY <1>1, <2>2, <2>3, <3>1 DEF Sent, Message
    <3> QED BY <1>1, <2>1, <3>1, <2>3, <3>2 DEF CacheOnItsWay, Authenticating
  <2>4. CASE sending # <<>>
    <3>1. sub' = sub /\ queue' = Append(queue, Head(sending)) /\ sending' = Tail(sending)
      BY <1>4, <2>4 DEF Put
    <3>2. queue' \in Seq(Text) /\ sending' \in Seq(Text) /\ queue' \o sending' = queue \o sending
      BY <2>1, <2>4, <3>1, PutKeeps
    <3>3. Sent(k)'
      BY <1>1, <2>2, <3>2 DEF Sent, Message
    <3> QED BY <1>1, <2>1, <3>1, <3>2, <3>3 DEF CacheOnItsWay, Authenticating
  <2> QED BY <2>3, <2>4
<1> QED BY <1>3, <1>4

\* So does reading one.
LEMMA GetChunkStep ==
  ASSUME TypeOK, CacheOnItsWay, GetChunk
  PROVE  CacheOnItsWay'
<1> DEFINE serial == Serialize(signed)
           n == NumChunks(serial)
<1>1. /\ stage = "interactive" /\ queue # <<>> /\ Head(queue) # SendDone /\ signed \subseteq UserSet
      /\ heard' = heard \o Head(queue) /\ queue' = Tail(queue)
      /\ UNCHANGED <<stage, sub, signed, sending>>
  BY DEF GetChunk, TypeOK
<1>2. /\ sub \in {"sending", "done", "dead"} /\ (sub = "done" => sending = <<>>)
      /\ sending \in Seq(Text) /\ queue \in Seq(Text) /\ \E k \in 0..n : Sent(k)
  BY <1>1 DEF CacheOnItsWay, NothingSent
<1>3. PICK k \in 0..n : Sent(k)
  BY <1>2
<1>4. /\ serial \in Text /\ n \in Nat /\ Message[n + 1] = SendDone
      /\ \A i \in 1..n : Message[i] = Chunks(serial)[i]
  <2>1. Len(Message) = n + 1
    BY <1>1, MessageIs
  <2> QED BY <1>1, <2>1, MessageIs
<1>5. /\ k + 1 \in 1..(n + 1) /\ Head(queue) = Message[k + 1]
      /\ Tail(queue) \in Seq(Text) /\ Tail(queue) \o sending = SubSeq(Message, (k + 1) + 1, Len(Message))
  BY <1>1, <1>2, <1>3, SentIs
<1>6. k + 1 \in 1..n /\ k \in 0..(n - 1) /\ k + 1 \in 0..n
  <2>1. k + 1 # n + 1
    BY <1>1, <1>4, <1>5
  <2> HIDE DEF n
  <2> QED BY <2>1, <1>4, <1>5
<1>7. heard' = SubSeq(serial, 1, EndOf(serial, k + 1))
  <2>1. heard = SubSeq(serial, 1, EndOf(serial, k))
    BY <1>3 DEF Sent
  <2>2. Head(queue) = Chunks(serial)[k + 1]
    BY <1>4, <1>5, <1>6
  <2>3. SubSeq(serial, 1, EndOf(serial, k)) \o Chunks(serial)[k + 1] = SubSeq(serial, 1, EndOf(serial, k + 1))
    <3> HIDE DEF serial
    <3> QED BY <1>4, <1>6, ChunkArrives
  <2> QED BY <2>1, <2>2, <2>3, <1>1
<1>8. Sent(k + 1)'
  BY <1>1, <1>5, <1>7 DEF Sent, Message
<1> QED BY <1>1, <1>2, <1>5, <1>6, <1>8 DEF CacheOnItsWay, Authenticating

\* What the main process has when it reads SEND_DONE.
LEMMA AllHeardIs ==
  ASSUME TypeOK, CacheOnItsWay, AllHeard
  PROVE  heard = Serialize(signed)
<1> DEFINE serial == Serialize(signed)
           n == NumChunks(serial)
<1>1. stage = "interactive" /\ queue # <<>> /\ Head(queue) = SendDone /\ signed \subseteq UserSet
  BY DEF AllHeard, TypeOK
<1>2. sending \in Seq(Text) /\ queue \in Seq(Text) /\ \E k \in 0..n : Sent(k)
  BY <1>1 DEF CacheOnItsWay, NothingSent
<1>3. PICK k \in 0..n : Sent(k)
  BY <1>2
<1>4. serial \in Text /\ n \in Nat /\ \A i \in 1..n : Message[i] # SendDone
  BY <1>1, MessageIs
<1>5. k + 1 \in 1..(n + 1) /\ Message[k + 1] = SendDone
  BY <1>1, <1>2, <1>3, SentIs
<1>6. k = n
  <2> HIDE DEF n
  <2> QED BY <1>4, <1>5
<1>7. heard = SubSeq(serial, 1, EndOf(serial, n))
  BY <1>3, <1>6 DEF Sent
<1> QED BY <1>4, <1>7, AllChunks

\* Every step keeps the cache on its way.
LEMMA CacheStep ==
  ASSUME TInv, CacheOnItsWay, [Next]_vars
  PROVE  CacheOnItsWay'
<1> USE DEF TInv
<1>1. CASE Start
  BY <1>1, EmptySeq DEF Start, CacheOnItsWay, NothingSent, Authenticating
<1>2. CASE StartAnyway
  BY <1>2 DEF StartAnyway, Serve, CacheOnItsWay, Authenticating
<1>3. CASE SubprocessDies
  <2>1. /\ sub \in {"signing", "sending"} /\ sub' = "dead" /\ stage = "interactive"
        /\ UNCHANGED <<stage, signed, sending, queue, heard>>
    BY <1>3 DEF SubprocessDies, SubOK
  <2>2. \A k : Sent(k) => Sent(k)'
    BY <2>1 DEF Sent, Message
  <2> QED BY <2>1, <2>2 DEF CacheOnItsWay, NothingSent, Authenticating
<1>4. CASE SignIn
  <2>1. sub = "signing" /\ sub' = sub /\ stage = "interactive" /\ UNCHANGED <<stage, sending, queue, heard>>
    BY <1>4 DEF SignIn, SubOK
  <2> QED BY <2>1 DEF CacheOnItsWay, NothingSent, Authenticating
<1>5. CASE SerializeCache \/ Put
  BY <1>5, SendingStep
<1>6. CASE GetChunk
  BY <1>6, GetChunkStep
<1>7. CASE Deserialize
  <2>1. AllHeard /\ stage' = "auth" /\ signed' = signed
    BY <1>7 DEF Deserialize
  <2>2. PICK A \in SUBSET UserSet : heard = Serialize(A) /\ cache' = [u \in A |-> Life["msal"]]
    BY <1>7 DEF Deserialize
  <2>3. A = signed
    BY <2>1, <2>2, AllHeardIs, SerialInjective DEF TypeOK
  <2>4. DOMAIN cache' = A
    BY <2>2
  <2> QED BY <2>1, <2>3, <2>4 DEF CacheOnItsWay, Authenticating
<1>8. CASE AuthStep
  <2>1. Authenticating /\ Authenticating' /\ DOMAIN cache' = DOMAIN cache /\ signed' = signed
    <3>1. CASE AuthFails({"auth"}) \/ AuthFails({"minecraft", "details"})
      BY <3>1, Failure DEF Authenticating, startup
    <3>2. CASE AuthXbox
      BY <3>2, XboxGives DEF AuthXbox, Authenticating, startup
    <3>3. CASE GetTokMinecraft \/ GetMinecraftDetails
      BY <3>3 DEF GetTokMinecraft, GetMinecraftDetails, Authenticating, startup
    <3>4. CASE RateLimited
      BY <3>4, OlderCacheTypes DEF RateLimited, Authenticating, startup
    <3> QED BY <1>8, <3>1, <3>2, <3>3, <3>4 DEF AuthStep
  <2> QED BY <2>1 DEF CacheOnItsWay, Authenticating
<1>9. CASE CreateDB
  BY <1>9 DEF CreateDB, Serve, CacheOnItsWay, Authenticating
<1>10. CASE CleanupStep \/ Tick
  <2>1. stage = "serving" /\ stage' = stage
    BY <1>10 DEF CleanupStep, StartCleanup, NoRow, EndCleanup, Spawn, RenewAccount, Tick, Serving
  <2> QED BY <2>1 DEF CacheOnItsWay, Authenticating
<1>11. CASE UNCHANGED vars
  <2>1. \A k : Sent(k) => Sent(k)'
    BY <1>11 DEF Sent, Message, vars, startup
  <2> QED BY <1>11, <2>1 DEF CacheOnItsWay, NothingSent, Authenticating, vars, startup
<1> QED BY <1>1, <1>2, <1>3, <1>4, <1>5, <1>6, <1>7, <1>8, <1>9, <1>10, <1>11 DEF Next, SignInStep, MainStep, MinecraftStep, AuthStep

\* When the server reads SEND_DONE it has the whole cache, and MSAL knows just
\* those who have signed in (netauth.py:384-432): for any number of accounts
\* and any length of the text.
THEOREM CacheAlwaysArrives == Spec => []CacheArrives
<1>1. Init => TInv /\ CacheOnItsWay
  BY InitTypes DEF Init, CacheOnItsWay, NothingSent, Authenticating
<1>2. TInv /\ CacheOnItsWay /\ [Next]_vars => TInv' /\ CacheOnItsWay'
  BY TypeStep, CacheStep
<1>3. TInv /\ CacheOnItsWay => CacheArrives
  BY AllHeardIs DEF TInv, CacheOnItsWay, CacheArrives
<1> QED BY <1>1, <1>2, <1>3, PTL DEF Spec
==============================================================================
