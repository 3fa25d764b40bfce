--------------------------- MODULE MCAccountTokens ---------------------------
(* Two accounts and cleanups half an MSAL token's life apart, as in the    *)
(* code; a clock east of UTC.                                              *)
EXTENDS AccountTokens

CONSTANTS u1, u2

MCUsers == <<u1, u2>>
MCLife == [l \in {"msal", "xboxlive", "xsts", "minecraft"} |-> IF l = "xboxlive" THEN 7 ELSE 4]

\* Any one link or all of them may fail for u1, and all for u2.
MCOutages == (u1 :> {{l} : l \in DOMAIN MCLife} \cup {DOMAIN MCLife}) @@ (u2 :> {DOMAIN MCLife})

\* Nothing, or a row whose tokens have some time left or have long expired.
MCOldFiles == {[u \in {} |-> 0]} \cup
    {[u \in {u1} |-> [f \in Fields |-> left]] : left \in {1, Floor}}

=============================================================================
