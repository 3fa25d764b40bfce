------------------------- MODULE NoduplicationProofs -------------------------
(***************************************************************************)
(* Proofs about Noduplication, for any number of process ids.              *)
(***************************************************************************)
EXTENDS Noduplication, TLAPS

\* What holds while no two clients have set up at the same time.  A client past its
\* set-up is the one the file names; one that found nobody is alone; one that still
\* looks up a pid has read the one of whoever is past his set-up.
Orderly ==
  /\ \A p, q \in Pids : pc[p] \in Setup /\ pc[q] \in Setup => p = q
  /\ \A p \in Pids : pc[p] \in Active => pidfile = p
  /\ \A p \in Pids : pc[p] \notin {"unlinked", "raised"}
  /\ \A p \in Pids : pc[p] = "opened" => pidfile = Blank
  /\ \A p, q \in Pids : pc[p] \in {"clear", "opened"} => pc[q] \notin Active
  /\ \A p, q \in Pids : pc[p] = "checking" /\ pc[q] \in Active => seen[p] = q

IInv == TypeOK /\ (~raced => Orderly)

-----------------------------------------------------------------------------

LEMMA TypeInit == Init => TypeOK
BY NoduplicationAssumption DEF Init, TypeOK, Stages

LEMMA TypeStep == ASSUME TypeOK, [Next]_vars PROVE TypeOK'
<1> USE NoduplicationAssumption DEF TypeOK, Stages, Setup, Active, Goto
<1>1. ASSUME NEW p \in Pids, Start(p) PROVE TypeOK'
  BY <1>1 DEF Start
<1>2. ASSUME NEW p \in Pids, Die(p) PROVE TypeOK'
  BY <1>2 DEF Die
<1>3. ASSUME NEW p \in Pids, OtherStarts(p) \/ OtherEnds(p) PROVE TypeOK'
  BY <1>3 DEF OtherStarts, OtherEnds
<1>4. ASSUME NEW p \in Pids, Look(p) PROVE TypeOK'
  BY <1>4 DEF Look
<1>5. ASSUME NEW p \in Pids, Read(p) PROVE TypeOK'
  BY <1>5 DEF Read
<1>6. ASSUME NEW p \in Pids, Check(p) PROVE TypeOK'
  BY <1>6 DEF Check
<1>7. ASSUME NEW p \in Pids, ReadRaises(p) \/ Open(p) \/ Write(p) \/ WriteUnlinked(p) PROVE TypeOK'
  BY <1>7 DEF ReadRaises, Open, Write, WriteUnlinked
<1>8. ASSUME NEW p \in Pids, End(p) \/ Examine(p) \/ RemoveRaises(p) PROVE TypeOK'
  BY <1>8 DEF End, Examine, RemoveRaises
<1>9. ASSUME NEW p \in Pids, Remove(p) PROVE TypeOK'
  BY <1>9 DEF Remove
<1>10. CASE UNCHANGED vars
  BY <1>10 DEF vars
<1> QED BY <1>1, <1>2, <1>3, <1>4, <1>5, <1>6, <1>7, <1>8, <1>9, <1>10
        DEF Next, SetupStep, DeleteStep

\* Every variable keeps to its type, and a client remembers a pid only while it
\* looks it up.
THEOREM PidfileTypeCorrect == Spec => []TypeOK
<1>1. TypeOK /\ [Next]_vars => TypeOK'
  BY TypeStep
<1> QED BY TypeInit, <1>1, PTL DEF Spec

-----------------------------------------------------------------------------

\* A start makes things orderly when nobody is left, and keeps them so when nobody is
\* setting up.
LEMMA OrderlyStart ==
  ASSUME IInv, NEW p \in Pids, Start(p), ~raced' PROVE Orderly'
<1>1. \A q \in Pids : pc[q] \notin Setup
  BY DEF Start
<1>2. CASE ~raced
  <2>1. Orderly
    BY <1>2 DEF IInv
  <2> QED BY <1>1, <2>1 DEF Start, Orderly, Goto, IInv, TypeOK, Setup, Active
<1>3. CASE \A q \in Pids : pc[q] \notin Active \cup {"raised"}
  BY <1>1, <1>3 DEF Start, Orderly, Goto, IInv, TypeOK, Setup, Active
<1> QED BY <1>2, <1>3 DEF Start, IInv, TypeOK

LEMMA OrderlyStep ==
  ASSUME TypeOK, Orderly, NEW p \in Pids,
         \/ Die(p) \/ OtherStarts(p) \/ OtherEnds(p) \/ SetupStep(p) \/ DeleteStep(p)
  PROVE  Orderly'
<1> USE NoduplicationAssumption DEF TypeOK, Orderly, Setup, Active, Goto
<1>1. CASE Die(p) \/ OtherStarts(p) \/ OtherEnds(p)
  BY <1>1 DEF Die, OtherStarts, OtherEnds
<1>2. CASE Look(p)
  BY <1>2 DEF Look
<1>3. CASE Read(p)
  BY <1>3 DEF Read
<1>4. CASE ReadRaises(p)
  BY <1>4 DEF ReadRaises
<1>5. CASE Check(p)
  BY <1>5 DEF Check
<1>6. CASE Open(p)
  BY <1>6 DEF Open
<1>7. CASE Write(p) \/ WriteUnlinked(p)
  BY <1>7 DEF Write, WriteUnlinked
<1>8. CASE End(p) \/ Examine(p) \/ RemoveRaises(p)
  BY <1>8 DEF End, Examine, RemoveRaises
<1>9. CASE Remove(p)
  BY <1>9 DEF Remove
<1> QED BY <1>1, <1>2, <1>3, <1>4, <1>5, <1>6, <1>7, <1>8, <1>9 DEF SetupStep, DeleteStep

LEMMA OrderlyInvariant == Spec => []IInv
<1>1. Init => IInv
  BY TypeInit DEF Init, IInv, Orderly, Setup, Active
<1>2. ASSUME IInv, [Next]_vars PROVE IInv'
  <2>1. TypeOK'
    BY <1>2, TypeStep DEF IInv
  <2>2. ASSUME ~raced' PROVE Orderly'
    <3>1. CASE \E p \in Pids : Start(p)
      BY <1>2, <2>2, <3>1, OrderlyStart
    <3>2. ASSUME NEW p \in Pids,
                 \/ Die(p) \/ OtherStarts(p) \/ OtherEnds(p) \/ SetupStep(p) \/ DeleteStep(p)
          PROVE  Orderly'
      <4>1. raced' = raced
        BY <3>2 DEF Die, OtherStarts, OtherEnds, SetupStep, Look, Read, ReadRaises, Check, Open,
             Write, WriteUnlinked, DeleteStep, End, Examine, Remove, RemoveRaises
      <4> QED BY <1>2, <2>2, <3>2, <4>1, OrderlyStep DEF IInv
    <3>3. CASE UNCHANGED vars
      BY <1>2, <2>2, <3>3 DEF vars, IInv, Orderly
    <3> QED BY <1>2, <3>1, <3>2, <3>3 DEF Next
  <2> QED BY <2>1, <2>2 DEF IInv
<1> QED BY <1>1, <1>2, PTL DEF Spec

\* At most one client runs, as long as no two set up at the same time, and again once
\* the clients of such a time are gone.
THEOREM OneRunsAtATime == Spec => []OneAtATime
<1>1. IInv => OneAtATime
  BY DEF IInv, Orderly, OneAtATime, OneClient, Active
<1> QED BY <1>1, OrderlyInvariant, PTL

\* Under the same condition delete_pidfile finds the id it looks for.
THEOREM PidfileIsItsOwn == Spec => []DeletesItsOwn
<1>1. IInv => DeletesItsOwn
  BY DEF IInv, Orderly, DeletesItsOwn
<1> QED BY <1>1, OrderlyInvariant, PTL
==============================================================================
