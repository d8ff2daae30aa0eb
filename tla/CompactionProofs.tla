-------------------------- MODULE CompactionProofs --------------------------
(***************************************************************************)
(* Proofs about Compaction, for every size of message, every setting of    *)
(* the floors and the trigger, and threads of any length.                  *)
(***************************************************************************)
EXTENDS Compaction, FiniteSetTheorems, WellFoundedInduction, TLAPS

USE DEF Summary

-----------------------------------------------------------------------------
(* The extremes of a set of positions.                                     *)

\* A set of naturals that is not empty has a least element, and Min is it.
LEMMA MinIn ==
  ASSUME NEW S \in SUBSET Nat, S # {}
  PROVE  Min(S) \in S /\ \A y \in S : Min(S) <= y
<1>1. PICK x \in S : \A y \in S : <<y, x>> \notin OpToRel(<, Nat)
  BY NatLessThanWellFounded, WFMin, Zenon
<1>2. \A y \in S : <<y, x>> \in Nat \X Nat /\ ~(y < x)
  BY <1>1, Zenon DEF OpToRel
<1>3. ASSUME NEW y \in S PROVE x =< y
  <2>1. x \in Nat /\ y \in Nat
    OBVIOUS
  <2>2. ~(y < x)
    BY <1>2
  <2>. QED
    BY <2>1, <2>2
<1>. QED
  BY <1>3 DEF Min

\* A set of positions that is not empty has a greatest element, and Max is it.
LEMMA MaxIn ==
  ASSUME NEW n \in Nat, NEW S \in SUBSET (1..n), S # {}
  PROVE  Max(S) \in S /\ \A y \in S : y <= Max(S)
<1>. DEFINE T == {n - x : x \in S}
<1>1. T \in SUBSET Nat /\ T # {}
  <2>1. \A x \in S : n - x \in Nat
    OBVIOUS
  <2>. QED
    BY <2>1
<1>2. Min(T) \in T /\ \A y \in T : Min(T) <= y
  BY <1>1, MinIn
<1>3. PICK m \in S : Min(T) = n - m
  BY <1>2
<1>4. \A y \in S : m >= y
  <2>. TAKE y \in S
  <2>1. n - m <= n - y
    BY <1>2, <1>3
  <2>. QED
    BY <2>1
<1>5. \E x \in S : \A y \in S : x >= y
  BY <1>4
<1>6. Max(S) \in S /\ \A y \in S : Max(S) >= y
  BY <1>5 DEF Max
<1>. QED
  BY <1>6

\* Positions are naturals.
LEMMA Positions ==
  ASSUME NEW n \in Nat, NEW S \in SUBSET (1..n)
  PROVE  S \in SUBSET Nat
  OBVIOUS

\* A position with nothing of the set after it is the greatest.
LEMMA MaxIs ==
  ASSUME NEW n \in Nat, NEW S \in SUBSET (1..n), NEW m \in S, \A y \in S : y <= m
  PROVE  Max(S) = m
<1>1. Max(S) \in S /\ \A y \in S : y <= Max(S)
  BY MaxIn
<1>2. Max(S) \in Nat /\ m \in Nat
  <2>1. S \in SUBSET Nat
    BY Positions
  <2>. QED
    BY <1>1, <2>1
<1>3. Max(S) <= m /\ m <= Max(S)
  BY <1>1
<1>. QED
  BY <1>2, <1>3

-----------------------------------------------------------------------------
(* Where a fold may cut.                                                   *)

\* The kept part begins at one of the candidates.
LEMMA KeepingIn ==
  ASSUME NEW n \in Nat, NEW C \in SUBSET (1..n), C # {}
  PROVE  LatestKeeping(C) \in C
<1>. DEFINE enough == {c \in C : Size(c..Last) >= KeepTokens}
<1>1. enough # {} => Max(enough) \in C
  BY MaxIn
<1>2. Min(C) \in C
  BY MinIn
<1>. QED
  BY <1>1, <1>2 DEF LatestKeeping

\* A whole-turn boundary is the start of a turn.
LEMMA TurnBoundaryIn ==
  ASSUME CompactTypeOK, Starts # {}, NEW inTurn \in BOOLEAN
  PROVE  TurnBoundary(inTurn) \in Starts
<1>. DEFINE floor  == LatestKeeping(Starts)
            within == IF inTurn THEN Min({floor, Max(Starts)}) ELSE floor
            counted == {s \in Starts : s <= within
                          /\ EarlierTurns(s) + KeepTurns <= Cardinality(Starts)}
            kept   == IF counted = {} THEN 0 ELSE Max(counted)
<1>1. Last \in Nat /\ Starts \in SUBSET (1..Last)
  BY DEF CompactTypeOK, Last, Starts
<1>2. floor \in Starts
  BY <1>1, KeepingIn
<1>3. Max(Starts) \in Starts
  BY <1>1, MaxIn
<1>4. Min({floor, Max(Starts)}) \in {floor, Max(Starts)}
  <2>0. Starts \in SUBSET Nat
    BY <1>1, Positions
  <2>1. floor \in Nat /\ Max(Starts) \in Nat
    BY <1>2, <1>3, <2>0
  <2>2. {floor, Max(Starts)} \in SUBSET Nat /\ {floor, Max(Starts)} # {}
    BY <2>1
  <2>. QED
    BY <2>2, MinIn
<1>5. within \in Starts
  BY <1>2, <1>3, <1>4
<1>6. counted # {} => Max(counted) \in Starts
  BY <1>1, MaxIn
<1>7. Min(Starts) \in Nat
  <2>1. Starts \in SUBSET Nat
    BY <1>1
  <2>2. Min(Starts) \in Starts
    BY <2>1, MinIn
  <2>. QED
    BY <2>1, <2>2
<1>8. kept > Min(Starts) => kept \in Starts
  BY <1>6, <1>7
<1>9. TurnBoundary(inTurn) = IF kept > Min(Starts) THEN kept ELSE within
  BY DEF TurnBoundary
<1>. QED
  BY <1>5, <1>8, <1>9

\* A boundary inside a turn is a response of it, and not its first.
LEMMA StepBoundaryIn ==
  ASSUME CompactTypeOK, NEW opener \in 1..Last
  PROVE  \/ StepBoundary(opener) = 0
         \/ StepBoundary(opener) \in opener + 1 .. Last /\ Role(StepBoundary(opener)) = "assistant"
<1>. DEFINE steps == {i \in opener + 1 .. Last : Role(i) = "assistant"}
<1>0. Last \in Nat
  BY DEF CompactTypeOK, Last
<1>1. steps \in SUBSET (1..Last)
  BY <1>0
<1>2. SUFFICES ASSUME ~(Cardinality(steps) < 2)
               PROVE  LatestKeeping(steps \ {Min(steps)}) \in steps
  BY DEF StepBoundary
<1>3. steps \ {Min(steps)} # {}
  <2>1. SUFFICES ASSUME steps \subseteq {Min(steps)} PROVE FALSE
    OBVIOUS
  <2>2. IsFiniteSet({Min(steps)}) /\ Cardinality({Min(steps)}) = 1
    BY FS_Singleton
  <2>3. Cardinality(steps) <= 1 /\ IsFiniteSet(steps)
    BY <2>1, <2>2, FS_Subset
  <2>4. Cardinality(steps) \in Nat
    BY <2>3, FS_CardinalityType
  <2>. QED
    BY <1>2, <2>3, <2>4
<1>4. steps \ {Min(steps)} \in SUBSET (1..Last)
  BY <1>1
<1>5. LatestKeeping(steps \ {Min(steps)}) \in steps \ {Min(steps)}
  BY <1>0, <1>3, <1>4, KeepingIn
<1>. QED
  BY <1>5

\* A watermark either covers nothing or stops before a row that is no result,
\* so a response and its results are on the same side of it.
CutsWell(c) == c.upTo = 0 \/ (c.upTo \in 1..Last - 1 /\ Role(c.upTo + 1) # "tool")

\* The last row a fold takes comes before a request or a response.
LEMMA SpanCuts ==
  ASSUME CompactTypeOK, NEW inTurn \in BOOLEAN
  PROVE  \/ Span(inTurn) = 0
         \/ Span(inTurn) \in 1..Last - 1 /\ Role(Span(inTurn) + 1) # "tool"
<1>0. Last \in Nat /\ Starts \in SUBSET (1..Last)
  BY DEF CompactTypeOK, Last, Starts
<1>1. SUFFICES ASSUME Starts # {} PROVE \/ Span(inTurn) = 0
                                        \/ Span(inTurn) \in 1..Last - 1 /\ Role(Span(inTurn) + 1) # "tool"
  BY DEF Span
<1>. DEFINE turn   == TurnBoundary(inTurn)
            inside == StepBoundary(Max(Starts))
<1>2. turn \in Starts
  BY <1>1, TurnBoundaryIn
<1>3. Max(Starts) \in 1..Last
  BY <1>0, <1>1, MaxIn
<1>4. inside = 0 \/ (inside \in Max(Starts) + 1 .. Last /\ Role(inside) = "assistant")
  BY <1>3, StepBoundaryIn
<1>5. Span(inTurn) = IF turn > 1 /\ (WorthIt(turn) \/ inside = 0) THEN turn - 1
                     ELSE IF inside > 0 THEN inside - 1 ELSE 0
  BY <1>1 DEF Span
<1>6. CASE turn > 1 /\ (WorthIt(turn) \/ inside = 0)
  <2>1. Role(turn) = "user" /\ turn \in 1..Last
    BY <1>2 DEF Starts
  <2>2. Span(inTurn) = turn - 1
    BY <1>5, <1>6
  <2>. QED
    BY <1>0, <1>6, <2>1, <2>2
<1>7. CASE ~(turn > 1 /\ (WorthIt(turn) \/ inside = 0)) /\ inside > 0
  <2>1. Span(inTurn) = inside - 1
    BY <1>5, <1>7
  <2>2. inside \in 2..Last /\ Role(inside) = "assistant"
    BY <1>0, <1>3, <1>4, <1>7
  <2>. QED
    BY <1>0, <2>1, <2>2
<1>8. CASE ~(turn > 1 /\ (WorthIt(turn) \/ inside = 0)) /\ ~(inside > 0)
  BY <1>5, <1>8
<1>. QED
  BY <1>6, <1>7, <1>8

-----------------------------------------------------------------------------
(* The invariant, by parts.                                                *)

\* The results of a response follow it at once, and a pinned one has its
\* response pinned.
Threaded ==
  \A t \in 1..Last : Role(t) = "tool" =>
    /\ rows[t].of \in 1..t - 1 /\ Role(rows[t].of) = "assistant"
    /\ \A j \in rows[t].of + 1 .. t : Role(j) = "tool"
    /\ rows[t].pinned => rows[rows[t].of].pinned

\* `a` is the response whose calls are being answered.
Open(a) ==
  /\ a \in 1..Last /\ Role(a) = "assistant"
  /\ \A j \in a + 1 .. Last : Role(j) = "tool"

\* While calls are answered their response is the last one, and shown.
Answering ==
  pc = "dispatch" => pending \in 1..MaxCalls /\ \E a \in live : Open(a)

\* What a summary was made from, or had no room for: every row behind it that is
\* not pinned, but those unpinned since.
Represented(c) ==
  \A i \in 1..c.upTo : i \in c.covers \cup c.cut \/ rows[i].pinned \/ i \in released

\* A fold is pending only while the compactor is asked.
FoldIsPending == pc \notin {"folding", "asked"} => fold = None

\* A turn that runs has a request, and it is shown.
QuestionShown == pc \in InTurn => Starts # {} /\ Max(Starts) \in live

RowsInv ==
  /\ Threaded /\ Paired(live)
  /\ CutsWell(checkpoint) /\ CutsWell(fold)
  /\ Represented(checkpoint) /\ Represented(fold)

IInv == CompactTypeOK /\ RowsInv /\ Answering /\ FoldIsPending /\ QuestionShown

\* One more row leaves the others where they are.
LEMMA Wrote ==
  ASSUME CompactTypeOK, NEW role \in {"user", "assistant", "tool"}, NEW of \in Nat,
         NEW size \in Nat, Write(role, of, size)
  PROVE  /\ Last \in Nat /\ Last' = Last + 1 /\ rows' \in Seq(Row)
         /\ \A i \in 1..Last : rows'[i] = rows[i]
         /\ rows'[Last + 1] = [role |-> role, of |-> of, pinned |-> FALSE, size |-> size]
         /\ live' = live \cup {Last + 1} /\ live' \subseteq 1..Last'
<1>. DEFINE new == [role |-> role, of |-> of, pinned |-> FALSE, size |-> size]
<1>1. new \in Row
  BY DEF Row
<1>2. rows \in Seq(Row) /\ rows' = Append(rows, new) /\ live \subseteq 1..Last
  BY DEF CompactTypeOK, Write
<1>3. Last \in Nat /\ Last' = Last + 1 /\ rows' \in Seq(Row)
  BY <1>1, <1>2 DEF Last
<1>4. \A i \in 1..Last : rows'[i] = rows[i]
  BY <1>1, <1>2 DEF Last
<1>5. rows'[Last + 1] = new
  BY <1>1, <1>2 DEF Last
<1>6. live' = live \cup {Last + 1} /\ live' \subseteq 1..Last'
  BY <1>2, <1>3 DEF Write
<1>. QED
  BY <1>3, <1>4, <1>5, <1>6

\* A written row keeps what holds of the rows, if a result is written for the
\* response that is open.
LEMMA WriteKeeps ==
  ASSUME CompactTypeOK, RowsInv, NEW role \in {"user", "assistant", "tool"}, NEW of \in Nat,
         NEW size \in Nat, Write(role, of, size), UNCHANGED <<checkpoint, fold, released>>,
         role = "tool" => of \in live /\ Open(of)
  PROVE  RowsInv'
<1>1. /\ Last \in Nat /\ Last' = Last + 1
      /\ \A i \in 1..Last : rows'[i] = rows[i]
      /\ rows'[Last + 1] = [role |-> role, of |-> of, pinned |-> FALSE, size |-> size]
      /\ live' = live \cup {Last + 1}
  BY Wrote
<1>2. \A i \in 1..Last' : i \in 1..Last \/ i = Last + 1
  BY <1>1
<1>3. Threaded'
  <2>. SUFFICES ASSUME NEW t \in 1..Last', rows'[t].role = "tool"
                PROVE  /\ rows'[t].of \in 1..t - 1 /\ rows'[rows'[t].of].role = "assistant"
                       /\ \A j \in rows'[t].of + 1 .. t : rows'[j].role = "tool"
                       /\ rows'[t].pinned => rows'[rows'[t].of].pinned
    BY DEF Threaded, Role
  <2>1. CASE t \in 1..Last
    <3>1. /\ rows[t].of \in 1..t - 1 /\ rows[rows[t].of].role = "assistant"
          /\ \A j \in rows[t].of + 1 .. t : rows[j].role = "tool"
          /\ rows[t].pinned => rows[rows[t].of].pinned
      BY <1>1, <2>1 DEF RowsInv, Threaded, Role
    <3>2. rows'[t] = rows[t] /\ rows[t].of \in 1..Last /\ rows'[rows[t].of] = rows[rows[t].of]
      BY <1>1, <2>1, <3>1
    <3>3. \A j \in rows[t].of + 1 .. t : rows'[j] = rows[j]
      BY <1>1, <2>1, <3>1
    <3>. QED
      BY <3>1, <3>2, <3>3
  <2>2. CASE t = Last + 1
    <3>1. role = "tool" /\ rows'[t].of = of /\ ~rows'[t].pinned
      BY <1>1, <2>2
    <3>2. of \in 1..Last /\ rows[of].role = "assistant"
          /\ \A j \in of + 1 .. Last : rows[j].role = "tool"
      BY <3>1 DEF Open, Role
    <3>3. \A j \in of + 1 .. t : j \in of + 1 .. Last \/ j = Last + 1
      BY <1>1, <2>2, <3>2
    <3>4. \A j \in of + 1 .. Last : rows'[j] = rows[j]
      BY <1>1, <3>2
    <3>5. of \in 1..t - 1 /\ rows'[of] = rows[of]
      BY <1>1, <2>2, <3>2
    <3>6. rows'[Last + 1].role = "tool"
      BY <1>1, <3>1
    <3>. QED
      BY <3>1, <3>2, <3>3, <3>4, <3>5, <3>6
  <2>. QED
    BY <1>2, <2>1, <2>2
<1>4. Paired(live)'
  <2>. SUFFICES ASSUME NEW t \in 1..Last', rows'[t].role = "tool"
                PROVE  t \in live' <=> rows'[t].of \in live'
    BY DEF Paired, Role
  <2>1. CASE t \in 1..Last
    <3>1. rows'[t] = rows[t] /\ rows[t].of \in 1..t - 1
      BY <1>1, <2>1 DEF RowsInv, Threaded, Role
    <3>2. t \in live <=> rows[t].of \in live
      BY <1>1, <2>1, <3>1 DEF RowsInv, Paired, Role
    <3>3. t # Last + 1 /\ rows[t].of # Last + 1
      BY <1>1, <2>1, <3>1
    <3>. QED
      BY <1>1, <3>1, <3>2, <3>3
  <2>2. CASE t = Last + 1
    BY <1>1, <2>2
  <2>. QED
    BY <1>2, <2>1, <2>2
<1>5. ASSUME NEW c, c.upTo \in 0..Last, CutsWell(c), Represented(c)
      PROVE  /\ c.upTo = 0 \/ (c.upTo \in 1..Last' - 1 /\ rows'[c.upTo + 1].role # "tool")
             /\ \A i \in 1..c.upTo : i \in c.covers \cup c.cut \/ rows'[i].pinned \/ i \in released'
  <2>1. \A i \in 1..c.upTo : i \in 1..Last /\ rows'[i] = rows[i]
    BY <1>1, <1>5
  <2>2. CASE c.upTo = 0
    BY <2>1, <2>2, <1>5 DEF Represented
  <2>3. CASE c.upTo \in 1..Last - 1 /\ rows[c.upTo + 1].role # "tool"
    <3>1. c.upTo + 1 \in 1..Last /\ c.upTo \in 1..Last' - 1
      BY <1>1, <2>3
    <3>. QED
      BY <1>1, <2>1, <2>3, <3>1, <1>5 DEF Represented
  <2>. QED
    BY <1>5, <2>2, <2>3 DEF CutsWell, Role
<1>6. checkpoint.upTo \in 0..Last /\ fold.upTo \in 0..Last
  BY DEF CompactTypeOK
<1>7. /\ CutsWell(checkpoint)' /\ Represented(checkpoint)'
      /\ CutsWell(fold)' /\ Represented(fold)'
  BY <1>5, <1>6 DEF RowsInv, CutsWell, Represented, Role
<1>. QED
  BY <1>3, <1>4, <1>7 DEF RowsInv

\* Pins are set on whole turns: a result and its response get the same.
LEMMA TurnsAreWhole ==
  ASSUME CompactTypeOK, Threaded, NEW n \in Nat, NEW t \in 1..Last, Role(t) = "tool"
  PROVE  t \in LastTurns(n) <=> rows[t].of \in LastTurns(n)
<1>1. Last \in Nat /\ Starts \in SUBSET (1..Last)
  BY DEF CompactTypeOK, Last, Starts
<1>2. rows[t].of \in 1..t - 1 /\ \A j \in rows[t].of + 1 .. t : Role(j) = "tool"
  BY DEF Threaded
<1>3. {s \in Starts : s > t} = {s \in Starts : s > rows[t].of}
  <2>1. ASSUME NEW s \in Starts PROVE s > t <=> s > rows[t].of
    <3>1. s \in 1..Last /\ Role(s) = "user"
      BY DEF Starts
    <3>2. ~(s \in rows[t].of + 1 .. t)
      BY <1>2, <3>1
    <3>. QED
      BY <1>1, <1>2, <3>1, <3>2
  <2>. QED
    BY <2>1
<1>4. rows[t].of \in 1..Last
  BY <1>1, <1>2
<1>. QED
  BY <1>3, <1>4 DEF LastTurns

\* Setting pins changes nothing else of a row, and loses no row: what an unpin
\* behind the watermark takes from the view is released.
LEMMA PinsKeep ==
  ASSUME CompactTypeOK, RowsInv, fold = None, NEW n \in Nat, NEW flag \in BOOLEAN,
         SetPinned(LastTurns(n), flag), UNCHANGED <<checkpoint, live, fold>>,
         released' = IF flag THEN released
                     ELSE released \cup (LastTurns(n) \cap PinnedBehind)
  PROVE  /\ RowsInv' /\ Last' = Last /\ rows' \in Seq(Row)
         /\ \A i \in 1..Last : rows'[i].role = rows[i].role
<1>. DEFINE S == LastTurns(n)
<1>1. Last \in Nat /\ rows \in [1..Last -> Row]
  BY DEF CompactTypeOK, Last
<1>2. rows' = [i \in 1..Last |-> IF i \in S THEN [rows[i] EXCEPT !.pinned = flag] ELSE rows[i]]
  BY DEF SetPinned
<1>3. \A i \in 1..Last : IF i \in S THEN [rows[i] EXCEPT !.pinned = flag] \in Row
                                    ELSE rows[i] \in Row
  BY <1>1 DEF Row
<1>4. rows' \in [1..Last -> Row]
  BY <1>2, <1>3
<1>5. rows' \in Seq(Row) /\ Last' = Last
  BY <1>1, <1>4 DEF Last
<1>6. ASSUME NEW i \in 1..Last
      PROVE  /\ rows'[i].role = rows[i].role /\ rows'[i].of = rows[i].of
             /\ rows'[i].pinned = IF i \in S THEN flag ELSE rows[i].pinned
  BY <1>1, <1>2 DEF Row
<1>7. Threaded'
  <2>. SUFFICES ASSUME NEW t \in 1..Last, rows'[t].role = "tool"
                PROVE  /\ rows'[t].of \in 1..t - 1 /\ rows'[rows'[t].of].role = "assistant"
                       /\ \A j \in rows'[t].of + 1 .. t : rows'[j].role = "tool"
                       /\ rows'[t].pinned => rows'[rows'[t].of].pinned
    BY <1>5 DEF Threaded, Role
  <2>1. rows[t].role = "tool" /\ rows'[t].of = rows[t].of
    BY <1>6
  <2>2. /\ rows[t].of \in 1..t - 1 /\ rows[rows[t].of].role = "assistant"
        /\ \A j \in rows[t].of + 1 .. t : rows[j].role = "tool"
        /\ rows[t].pinned => rows[rows[t].of].pinned
    BY <2>1 DEF RowsInv, Threaded, Role
  <2>3. rows[t].of \in 1..Last /\ \A j \in rows[t].of + 1 .. t : j \in 1..Last
    BY <1>1, <2>2
  <2>4. t \in S <=> rows[t].of \in S
    BY <2>1, TurnsAreWhole DEF RowsInv, Role
  <2>5. /\ rows'[rows[t].of].role = "assistant"
        /\ \A j \in rows[t].of + 1 .. t : rows'[j].role = "tool"
    BY <1>6, <2>2, <2>3
  <2>6. rows'[t].pinned => rows'[rows[t].of].pinned
    BY <1>6, <2>2, <2>3, <2>4
  <2>. QED
    BY <2>1, <2>2, <2>5, <2>6
<1>8. Paired(live)'
  <2>. SUFFICES ASSUME NEW t \in 1..Last, rows'[t].role = "tool"
                PROVE  t \in live <=> rows'[t].of \in live
    BY <1>5 DEF Paired, Role
  <2>. QED
    BY <1>6 DEF RowsInv, Paired, Role
<1>9. CutsWell(checkpoint)'
  <2>1. CASE checkpoint.upTo = 0
    BY <2>1 DEF CutsWell
  <2>2. CASE checkpoint.upTo \in 1..Last - 1 /\ rows[checkpoint.upTo + 1].role # "tool"
    <3>1. checkpoint.upTo + 1 \in 1..Last
      BY <1>1, <2>2
    <3>. QED
      BY <1>5, <1>6, <2>2, <3>1 DEF CutsWell, Role
  <2>. QED
    BY <2>1, <2>2 DEF RowsInv, CutsWell, Role
<1>10. Represented(checkpoint)'
  <2>. SUFFICES ASSUME NEW i \in 1..checkpoint.upTo
                PROVE  i \in checkpoint.covers \cup checkpoint.cut \/ rows'[i].pinned \/ i \in released'
    BY DEF Represented
  <2>1. i \in 1..Last
    <3>1. checkpoint.upTo \in 0..Last
      BY DEF CompactTypeOK
    <3>. QED
      BY <1>1, <3>1
  <2>2. i \in checkpoint.covers \cup checkpoint.cut \/ rows[i].pinned \/ i \in released
    BY DEF RowsInv, Represented
  <2>3. CASE rows[i].pinned /\ i \in S /\ ~flag
    BY <2>3 DEF PinnedBehind, Behind
  <2>4. CASE ~(rows[i].pinned /\ i \in S /\ ~flag)
    BY <1>6, <2>1, <2>2, <2>4
  <2>. QED
    BY <2>3, <2>4
<1>11. CutsWell(fold)' /\ Represented(fold)'
  BY DEF CutsWell, Represented, None
<1>. QED
  BY <1>5, <1>6, <1>7, <1>8, <1>9, <1>10, <1>11 DEF RowsInv

-----------------------------------------------------------------------------
(* The view read back from the archive.                                    *)

\* The pinned rows and the request that come before the watermark are rows of
\* the archive, and so is what comes after it.
LEMMA ViewIsRows == CompactTypeOK => DerivedView \subseteq 1..Last
<1>. SUFFICES ASSUME CompactTypeOK PROVE DerivedView \subseteq 1..Last
  OBVIOUS
<1>1. Last \in Nat /\ checkpoint.upTo \in 0..Last
  BY DEF CompactTypeOK, Last
<1>2. Behind \subseteq 1..Last /\ Ahead \subseteq 1..Last
  BY <1>1 DEF Behind, Ahead
<1>. QED
  BY <1>2 DEF DerivedView, Pinned, PinnedBehind, Opener

\* A response and its results are in the view together or not at all.
LEMMA ViewPaired == CompactTypeOK /\ RowsInv => Paired(DerivedView)
<1>. SUFFICES ASSUME CompactTypeOK, RowsInv, NEW t \in 1..Last, Role(t) = "tool"
              PROVE  t \in DerivedView <=> rows[t].of \in DerivedView
  BY DEF Paired
<1>. DEFINE a == rows[t].of
<1>1. Last \in Nat /\ checkpoint.upTo \in 0..Last
  BY DEF CompactTypeOK, Last
<1>2. /\ a \in 1..t - 1 /\ Role(a) = "assistant"
      /\ \A j \in a + 1 .. t : Role(j) = "tool"
      /\ rows[t].pinned => rows[a].pinned
  BY DEF RowsInv, Threaded
<1>3. t \notin Opener /\ a \notin Opener
  BY <1>2 DEF Opener, Starts
<1>4. CASE t <= checkpoint.upTo
  <2>1. t \in Behind /\ a \in Behind /\ t \notin Ahead /\ a \notin Ahead
    BY <1>1, <1>2, <1>4 DEF Behind, Ahead
  <2>2. t \in Pinned <=> a \in PinnedBehind
    BY <1>2, <2>1 DEF Pinned, PinnedBehind
  <2>3. a \in Pinned <=> a \in PinnedBehind
    BY <1>2, <2>1 DEF Pinned, PinnedBehind
  <2>. QED
    BY <1>3, <2>1, <2>2, <2>3 DEF DerivedView
<1>5. CASE ~(t <= checkpoint.upTo)
  <2>1. checkpoint.upTo = 0 \/ Role(checkpoint.upTo + 1) # "tool"
    BY DEF RowsInv, CutsWell
  <2>2. ~(checkpoint.upTo + 1 \in a + 1 .. t)
    BY <1>1, <1>2, <1>5, <2>1
  <2>3. t \in Ahead /\ a \in Ahead
    BY <1>1, <1>2, <1>5, <2>2 DEF Ahead
  <2>. QED
    BY <2>3 DEF DerivedView
<1>. QED
  BY <1>4, <1>5

\* The last request is in the view, wherever the watermark stands.
LEMMA ViewHasRequest ==
  CompactTypeOK /\ CutsWell(checkpoint) /\ Starts # {} => Max(Starts) \in DerivedView
<1>. SUFFICES ASSUME CompactTypeOK, CutsWell(checkpoint), Starts # {}
              PROVE  Max(Starts) \in DerivedView
  OBVIOUS
<1>. DEFINE m == Max(Starts)
<1>1. Last \in Nat /\ checkpoint.upTo \in 0..Last /\ Starts \in SUBSET (1..Last)
  BY DEF CompactTypeOK, Last, Starts
<1>2. m \in Starts /\ \A y \in Starts : y <= m
  BY <1>1, MaxIn
<1>3. m \in 1..Last
  BY <1>1, <1>2
<1>4. CASE m > checkpoint.upTo
  BY <1>1, <1>3, <1>4 DEF DerivedView, Ahead
<1>5. CASE ~(m > checkpoint.upTo)
  <2>1. m \in Behind
    BY <1>1, <1>3, <1>5 DEF Behind
  <2>2. checkpoint.upTo \in 1..Last - 1
    BY <1>1, <1>3, <1>5 DEF CutsWell
  <2>3. Behind # {} /\ Ahead # {}
    <3>1. checkpoint.upTo + 1 \in checkpoint.upTo + 1 .. Last
      BY <1>1, <2>2
    <3>. QED
      BY <2>1, <3>1 DEF Ahead
  <2>4. Role(checkpoint.upTo + 1) # "user"
    <3>1. checkpoint.upTo + 1 \in 1..Last /\ ~(checkpoint.upTo + 1 <= m)
      BY <1>1, <1>3, <1>5, <2>2
    <3>. QED
      BY <1>2, <3>1 DEF Starts
  <2>5. m \in Opener
    BY <1>2, <2>1, <2>3, <2>4 DEF Opener
  <2>. QED
    BY <2>5 DEF DerivedView
<1>. QED
  BY <1>4, <1>5

\* What the compactor is asked for covers, or has no room for, everything behind
\* its watermark that is not pinned.
LEMMA FoldCovers ==
  ASSUME CompactTypeOK, RowsInv, NEW inTurn \in BOOLEAN, NEW next, BeginFold(inTurn, next)
  PROVE  fold' \in Summary /\ CutsWell(fold') /\ Represented(fold')
<1>. DEFINE up == Span(inTurn)
<1>1. PICK strategy \in Strategies : fold' = Summarized(up, OntoLast(up, strategy))
  BY DEF BeginFold
<1>. DEFINE chained == OntoLast(up, strategy)
            after   == IF chained THEN checkpoint.upTo ELSE 0
            segment == Segment(up, after)
            newest  == Newest(segment)
<1>2. Last \in Nat /\ checkpoint \in Summary
  BY DEF CompactTypeOK, Last
<1>3. up = 0 \/ (up \in 1..Last - 1 /\ Role(up + 1) # "tool")
  BY SpanCuts
<1>4. up \in 0..Last /\ after \in 0..Last
  BY <1>2, <1>3
<1>5. Earlier(chained) = IF chained THEN checkpoint ELSE None
  BY DEF Earlier
<1>6. Earlier(chained) \in Summary /\ Earlier(chained).upTo = after
  BY <1>2, <1>5 DEF None
<1>7. segment \subseteq 1..Last /\ newest \subseteq segment
  BY <1>2, <1>4 DEF Segment, Newest
<1>8. /\ fold'.upTo = up /\ fold' \in Summary
      /\ segment \cup Earlier(chained).covers \cup Earlier(chained).cut
           \subseteq fold'.covers \cup fold'.cut
  <2>. HIDE DEF chained, up, newest
  <2>1. fold' = [upTo |-> up,
                 covers |-> IF Size(segment) + (IF chained THEN 1 ELSE 0) <= Budget
                            THEN Earlier(chained).covers \cup segment ELSE newest,
                 cut    |-> IF Size(segment) + (IF chained THEN 1 ELSE 0) <= Budget
                            THEN Earlier(chained).cut
                            ELSE Earlier(chained).cut \cup Earlier(chained).covers
                                   \cup (segment \ newest)]
    BY <1>1 DEF Summarized, chained, up, newest
  <2>. HIDE DEF segment
  <2>. QED
    BY <1>4, <1>6, <1>7, <2>1
<1>9. ASSUME NEW i \in 1..up
      PROVE  i \in fold'.covers \cup fold'.cut \/ rows[i].pinned \/ i \in released
  <2>1. CASE i \in after + 1 .. up
    BY <1>8, <2>1 DEF Segment
  <2>2. CASE i \notin after + 1 .. up
    <3>1. i \in 1..after
      BY <1>4, <2>2
    <3>2. chained /\ i \in 1..checkpoint.upTo /\ Earlier(chained) = checkpoint
      BY <1>5, <3>1
    <3>. QED
      BY <1>8, <3>2 DEF RowsInv, Represented
  <2>. QED
    BY <2>1, <2>2
<1>. QED
  BY <1>3, <1>8, <1>9 DEF CutsWell, Represented

-----------------------------------------------------------------------------
(* Every step keeps the invariant.                                         *)

\* A thread with no row.
LEMMA InvInit == Init => IInv
<1>. SUFFICES ASSUME Init PROVE IInv
  OBVIOUS
<1>1. Last = 0 /\ rows \in Seq(Row)
  BY DEF Init, Last
<1>2. CompactTypeOK
  <2>1. None \in Summary
    BY <1>1 DEF None
  <2>2. 0 \in 0..MaxCalls
    BY BoundsAssumption
  <2>. QED
    BY <1>1, <2>1, <2>2 DEF Init, CompactTypeOK
<1>3. RowsInv
  BY <1>1 DEF Init, RowsInv, Threaded, Paired, CutsWell, Represented, None
<1>. QED
  BY <1>2, <1>3 DEF Init, IInv, Answering, FoldIsPending, QuestionShown, InTurn

\* A request or a response is written while no fold is asked for.
LEMMA RequestShownAfterWrite ==
  ASSUME IInv, NEW role \in {"assistant", "tool"}, NEW of \in Nat, NEW size \in Nat,
         Write(role, of, size), pc \in InTurn
  PROVE  Starts' # {} /\ Max(Starts)' \in live'
<1>1. /\ Last \in Nat /\ Last' = Last + 1
      /\ \A i \in 1..Last : rows'[i] = rows[i]
      /\ rows'[Last + 1] = [role |-> role, of |-> of, pinned |-> FALSE, size |-> size]
      /\ live' = live \cup {Last + 1}
  BY Wrote DEF IInv
<1>2. Starts' = Starts
  <2>1. \A i \in 1..Last' : i \in 1..Last \/ i = Last + 1
    BY <1>1
  <2>2. \A i \in 1..Last : i \in 1..Last'
    BY <1>1
  <2>3. rows'[Last + 1].role # "user"
    BY <1>1
  <2>. QED
    BY <1>1, <2>1, <2>2, <2>3 DEF Starts, Role
<1>. QED
  BY <1>1, <1>2 DEF IInv, QuestionShown

\* No step of a turn, a fold or a resume breaks the invariant.
LEMMA InvNext == IInv /\ [Next]_vars => IInv'
<1>. SUFFICES ASSUME IInv, [Next]_vars PROVE IInv'
  OBVIOUS
<1>. USE DEF InTurn
<1>0. CompactTypeOK /\ RowsInv /\ Answering /\ FoldIsPending /\ QuestionShown
  BY DEF IInv
<1>a. Last \in Nat /\ Sizes \subseteq Nat /\ MaxCalls \in Nat /\ None = [upTo |-> 0, covers |-> {}, cut |-> {}]
  BY <1>0, SizesAssumption, BoundsAssumption DEF CompactTypeOK, Last, None
<1>1. ASSUME NEW size \in Sizes, StartTurn(size) PROVE IInv'
  <2>1. size \in Nat /\ Write("user", 0, size) /\ UNCHANGED <<checkpoint, fold, released>>
    BY <1>a, <1>1 DEF StartTurn
  <2>2. RowsInv'
    BY <1>0, <2>1, WriteKeeps
  <2>3. /\ Last' = Last + 1 /\ rows' \in Seq(Row)
        /\ rows'[Last + 1] = [role |-> "user", of |-> 0, pinned |-> FALSE, size |-> size]
        /\ live' = live \cup {Last + 1} /\ live' \subseteq 1..Last'
    BY <1>0, <2>1, Wrote
  <2>4. 0..Last \subseteq 0..Last' /\ 1..Last \subseteq 1..Last'
    BY <1>a, <2>3
  <2>5. CompactTypeOK'
    BY <1>0, <1>1, <2>3, <2>4 DEF StartTurn, CompactTypeOK
  <2>6. Max(Starts)' = Last + 1
    <3>1. Last + 1 \in Starts' /\ Starts' \in SUBSET (1..Last')
      BY <1>a, <2>3 DEF Starts, Role
    <3>2. \A y \in Starts' : y <= Last + 1
      BY <1>a, <2>3 DEF Starts
    <3>3. Last' \in Nat
      BY <1>a, <2>3
    <3>. QED
      BY <3>1, <3>2, <3>3, MaxIs
  <2>7. QuestionShown'
    <3>1. Last + 1 \in Starts'
      BY <1>a, <2>3 DEF Starts, Role
    <3>. QED
      BY <2>3, <2>6, <3>1 DEF QuestionShown
  <2>. QED
    BY <1>0, <1>1, <2>2, <2>5, <2>7 DEF IInv, StartTurn, Answering, FoldIsPending
<1>2. ASSUME NEW size \in Sizes, Answer(size) PROVE IInv'
  <2>1. PICK a \in live : Open(a)
    BY <1>0, <1>2 DEF Answer, Answering
  <2>2. LastResponse = a
    <3>. DEFINE R == {i \in 1..Last : Role(i) = "assistant"}
    <3>1. a \in R /\ R \in SUBSET (1..Last)
      BY <2>1 DEF Open
    <3>2. ASSUME NEW y \in R PROVE y <= a
      <4>1. ~(y \in a + 1 .. Last)
        BY <2>1 DEF Open
      <4>2. y \in 1..Last /\ a \in 1..Last
        BY <3>1
      <4>. QED
        BY <1>a, <4>1, <4>2
    <3>. QED
      BY <1>a, <3>1, <3>2, MaxIs DEF LastResponse
  <2>3. size \in Nat /\ a \in Nat /\ Write("tool", a, size) /\ UNCHANGED <<checkpoint, fold, released>>
    BY <1>a, <1>2, <2>1, <2>2 DEF Answer, Open
  <2>4. RowsInv'
    BY <1>0, <2>1, <2>3, WriteKeeps
  <2>5. /\ Last' = Last + 1 /\ rows' \in Seq(Row)
        /\ \A i \in 1..Last : rows'[i] = rows[i]
        /\ rows'[Last + 1] = [role |-> "tool", of |-> a, pinned |-> FALSE, size |-> size]
        /\ live' = live \cup {Last + 1} /\ live' \subseteq 1..Last'
    BY <1>0, <2>3, Wrote
  <2>6. 0..Last \subseteq 0..Last' /\ 1..Last \subseteq 1..Last'
    BY <1>a, <2>5
  <2>7. pending \in 1..MaxCalls /\ pending' = pending - 1
    BY <1>0, <1>2 DEF Answer, Answering
  <2>8. pending' \in 0..MaxCalls /\ (pending # 1 => pending' \in 1..MaxCalls)
    BY <1>a, <2>7
  <2>9. CompactTypeOK'
    BY <1>0, <1>2, <2>5, <2>6, <2>8 DEF Answer, CompactTypeOK
  <2>10. Open(a)' /\ a \in live'
    <3>1. a \in 1..Last' /\ rows'[a] = rows[a]
      BY <2>1, <2>5, <2>6 DEF Open
    <3>2. \A j \in a + 1 .. Last' : j \in a + 1 .. Last \/ j = Last + 1
      BY <1>a, <2>3, <2>5
    <3>3. \A j \in a + 1 .. Last : rows'[j] = rows[j]
      <4>1. a \in 1..Last
        BY <2>1 DEF Open
      <4>2. \A j \in a + 1 .. Last : j \in 1..Last
        BY <1>a, <4>1
      <4>. QED
        BY <2>5, <4>2
    <3>. QED
      BY <2>1, <2>5, <3>1, <3>2, <3>3 DEF Open, Role
  <2>11. Answering'
    BY <1>2, <2>7, <2>8, <2>10 DEF Answer, Answering
  <2>12. QuestionShown'
    BY <1>0, <1>2, <2>3, RequestShownAfterWrite DEF Answer, QuestionShown, IInv
  <2>. QED
    BY <1>0, <1>2, <2>4, <2>9, <2>11, <2>12 DEF IInv, Answer, FoldIsPending
<1>3. ASSUME NEW calls \in 0..MaxCalls, Respond(calls) PROVE IInv'
  <2>1. Write("assistant", 0, 1) /\ UNCHANGED <<checkpoint, fold, released>>
    BY <1>3 DEF Respond
  <2>2. RowsInv'
    BY <1>0, <2>1, WriteKeeps
  <2>3. /\ Last' = Last + 1 /\ rows' \in Seq(Row)
        /\ rows'[Last + 1] = [role |-> "assistant", of |-> 0, pinned |-> FALSE, size |-> 1]
        /\ live' = live \cup {Last + 1} /\ live' \subseteq 1..Last'
    BY <1>0, <2>1, Wrote
  <2>4. 0..Last \subseteq 0..Last' /\ 1..Last \subseteq 1..Last'
    BY <1>a, <2>3
  <2>5. CompactTypeOK'
    BY <1>0, <1>3, <2>3, <2>4 DEF Respond, CompactTypeOK, Measure
  <2>. PICK a \in Nat : a = Last + 1
    BY <1>a
  <2>6. Open(a)' /\ a \in live'
    BY <1>a, <2>3 DEF Open, Role
  <2>7. calls # 0 => calls \in 1..MaxCalls
    BY <1>a
  <2>8. Answering'
    BY <1>3, <2>6, <2>7 DEF Respond, Answering
  <2>9. QuestionShown'
    BY <1>0, <1>3, <2>1, RequestShownAfterWrite DEF Respond, QuestionShown, IInv
  <2>. QED
    BY <1>0, <1>3, <2>2, <2>5, <2>8, <2>9 DEF IInv, Respond, FoldIsPending
<1>4. ASSUME NEW n \in 1..2, Pin(n) \/ Unpin(n) PROVE IInv'
  <2>1. fold = None
    BY <1>0, <1>4 DEF Pin, Unpin, FoldIsPending
  <2>2. CASE Pin(n)
    <3>1. RowsInv' /\ Last' = Last /\ rows' \in Seq(Row) /\ \A i \in 1..Last : rows'[i].role = rows[i].role
      <4>1. n \in Nat /\ released' = IF TRUE THEN released ELSE released \cup (LastTurns(n) \cap PinnedBehind)
        BY <2>2 DEF Pin
      <4>2. SetPinned(LastTurns(n), TRUE) /\ UNCHANGED <<checkpoint, live, fold>>
        BY <2>2 DEF Pin
      <4>. QED
        BY <1>0, <2>1, <4>1, <4>2, PinsKeep
    <3>2. CompactTypeOK'
      BY <1>0, <2>2, <3>1 DEF Pin, CompactTypeOK
    <3>3. Starts' = Starts /\ \A a \in live : Open(a) => Open(a)'
      <4>1. \A a \in 1..Last : \A j \in a + 1 .. Last : j \in 1..Last
        BY <1>a
      <4>. QED
        BY <3>1, <4>1 DEF Starts, Open, Role
    <3>. QED
      BY <1>0, <2>2, <3>1, <3>2, <3>3 DEF Pin, IInv, Answering, FoldIsPending, QuestionShown
  <2>3. CASE Unpin(n)
    <3>1. RowsInv' /\ Last' = Last /\ rows' \in Seq(Row) /\ \A i \in 1..Last : rows'[i].role = rows[i].role
      <4>1. n \in Nat /\ released' = IF FALSE THEN released ELSE released \cup (LastTurns(n) \cap PinnedBehind)
        BY <2>3 DEF Unpin
      <4>2. SetPinned(LastTurns(n), FALSE) /\ UNCHANGED <<checkpoint, live, fold>>
        BY <2>3 DEF Unpin
      <4>. QED
        BY <1>0, <2>1, <4>1, <4>2, PinsKeep
    <3>2. released' \subseteq 1..Last
      BY <1>0, <2>3 DEF Unpin, CompactTypeOK, LastTurns
    <3>3. CompactTypeOK'
      BY <1>0, <2>3, <3>1, <3>2 DEF Unpin, CompactTypeOK
    <3>4. Starts' = Starts /\ \A a \in live : Open(a) => Open(a)'
      <4>1. \A a \in 1..Last : \A j \in a + 1 .. Last : j \in 1..Last
        BY <1>a
      <4>. QED
        BY <3>1, <4>1 DEF Starts, Open, Role
    <3>. QED
      BY <1>0, <2>3, <3>1, <3>3, <3>4 DEF Unpin, IInv, Answering, FoldIsPending, QuestionShown
  <2>. QED
    BY <1>4, <2>2, <2>3
\* The steps that leave the rows alone.
<1>b. ASSUME UNCHANGED rows
      PROVE  /\ Last' = Last /\ Starts' = Starts /\ Threaded' = Threaded
             /\ \A v : Paired(v)' = Paired(v)
             /\ \A a : Open(a)' = Open(a)
  BY <1>b DEF Last, Starts, Role, Threaded, Paired, Open
<1>5. ASSUME TurnFolds \/ Compact PROVE IInv'
  <2>1. PICK b \in BOOLEAN, next \in {"folding", "asked"} :
          BeginFold(b, next) /\ (next = "asked" => pc = "idle") /\ (next = "folding" => pc = "boundary")
    BY <1>5 DEF TurnFolds, Compact
  <2>2. fold' \in Summary /\ CutsWell(fold') /\ Represented(fold')
    BY <1>0, <2>1, FoldCovers
  <2>3. /\ UNCHANGED <<rows, checkpoint, live, measured, pending, latched, released>>
        /\ pc' = next
    BY <2>1 DEF BeginFold
  <2>4. CompactTypeOK'
    BY <1>0, <2>2, <2>3, <1>b DEF CompactTypeOK
  <2>5. RowsInv'
    BY <1>0, <2>2, <2>3, <1>b DEF RowsInv, CutsWell, Represented, Role, Paired
  <2>6. QuestionShown'
    BY <1>0, <2>1, <2>3, <1>b DEF QuestionShown
  <2>. QED
    BY <2>3, <2>4, <2>5, <2>6 DEF IInv, Answering, FoldIsPending
<1>6. ASSUME TurnFolded \/ Compacted PROVE IInv'
  <2>1. /\ UNCHANGED <<rows, live, measured, pending, latched, released>>
        /\ checkpoint' \in {checkpoint, fold} /\ fold' = None
        /\ pc' \in {"saved", "kept"} /\ (pc' = "saved" => pc = "folding")
    BY <1>6 DEF TurnFolded, Compacted, SaveCheckpoint
  <2>2. CompactTypeOK'
    BY <1>0, <1>a, <2>1, <1>b DEF CompactTypeOK
  <2>3. RowsInv'
    BY <1>0, <1>a, <2>1, <1>b DEF RowsInv, CutsWell, Represented, Role, Paired
  <2>4. QuestionShown'
    BY <1>0, <2>1, <1>b DEF QuestionShown
  <2>. QED
    BY <2>1, <2>2, <2>3, <2>4 DEF IInv, Answering, FoldIsPending
<1>7. ASSUME TurnRebuilds \/ CompactRebuilds \/ Resume PROVE IInv'
  <2>1. /\ UNCHANGED <<rows, checkpoint, measured, released>>
        /\ live' = DerivedView /\ fold' = None
        /\ pc' \in {"idle", "calling"} /\ (pc' = "calling" => pc = "saved")
        /\ latched' \in BOOLEAN /\ pending' \in 0..MaxCalls
    <3>1. fold = None \/ pc \in {"folding", "asked"}
      BY <1>0 DEF FoldIsPending
    <3>2. latched \in BOOLEAN /\ pending \in 0..MaxCalls /\ 0 \in 0..MaxCalls
      BY <1>0, <1>a DEF CompactTypeOK
    <3>3. CASE TurnRebuilds \/ CompactRebuilds
      BY <3>1, <3>2, <3>3 DEF TurnRebuilds, CompactRebuilds, Rebuild
    <3>4. CASE Resume
      BY <3>2, <3>4 DEF Resume
    <3>. QED
      BY <1>7, <3>3, <3>4
  <2>2. DerivedView \subseteq 1..Last /\ Paired(DerivedView)
    BY <1>0, ViewIsRows, ViewPaired
  <2>3. CompactTypeOK'
    BY <1>0, <1>a, <2>1, <2>2, <1>b DEF CompactTypeOK
  <2>4. RowsInv'
    BY <1>0, <1>a, <2>1, <2>2, <1>b DEF RowsInv, CutsWell, Represented, Role, Paired
  <2>5. Starts # {} => Max(Starts) \in DerivedView
    BY <1>0, ViewHasRequest DEF RowsInv
  <2>6. QuestionShown'
    BY <1>0, <2>1, <2>5, <1>b DEF QuestionShown
  <2>. QED
    BY <2>1, <2>3, <2>4, <2>6 DEF IInv, Answering, FoldIsPending
<1>8. ASSUME \/ NotFolding \/ TurnFoldFails \/ TurnEnds \/ CompactFails
             \/ Full \/ UNCHANGED vars
      PROVE  IInv'
  <2>1. /\ UNCHANGED <<rows, checkpoint, live, measured, pending, released>>
        /\ fold' \in {fold, None} /\ latched' \in BOOLEAN
        /\ \/ pc' = pc /\ fold' = fold
           \/ /\ pc' \in {"calling", "idle"} /\ fold' = None
              /\ pc' = "calling" => pc \in {"boundary", "folding"}
    BY <1>0, <1>8 DEF NotFolding, TurnFoldFails, FoldFails, TurnEnds, CompactFails, Full, vars,
                      FoldIsPending, CompactTypeOK
  <2>2. CompactTypeOK'
    BY <1>0, <1>a, <2>1, <1>b DEF CompactTypeOK
  <2>3. RowsInv'
    BY <1>0, <1>a, <2>1, <1>b DEF RowsInv, CutsWell, Represented, Role, Paired
  <2>4. QuestionShown'
    BY <1>0, <2>1, <1>b DEF QuestionShown
  <2>5. Answering'
    BY <1>0, <2>1, <1>b DEF Answering
  <2>. QED
    BY <1>0, <2>1, <2>2, <2>3, <2>4, <2>5 DEF IInv, FoldIsPending
<1>. QED
  BY <1>1, <1>2, <1>3, <1>4, <1>5, <1>6, <1>7, <1>8 DEF Next

-----------------------------------------------------------------------------
(* What it is for.                                                         *)

\* The invariant holds of every reachable state.
LEMMA Invariant == Spec => []IInv
  BY InvInit, InvNext, PTL DEF Spec

\* Every variable keeps its type.
THEOREM ThreadIsTyped == Spec => []CompactTypeOK
<1>1. IInv => CompactTypeOK
  BY DEF IInv
<1>. QED
  BY <1>1, Invariant, PTL

\* A call and its result are shown together or not at all, in memory and in
\* the view a resumed thread gets.
THEOREM CallsKeepTheirResults == Spec => []ViewIsPaired
<1>1. IInv => ViewIsPaired
  BY ViewPaired DEF IInv, RowsInv, ViewIsPaired
<1>. QED
  BY <1>1, Invariant, PTL

\* The request of a running turn is shown verbatim.
THEOREM RequestIsShown == Spec => []QuestionStays
<1>1. IInv => QuestionStays
  BY ViewHasRequest DEF IInv, RowsInv, QuestionShown, QuestionStays
<1>. QED
  BY <1>1, Invariant, PTL

-----------------------------------------------------------------------------
(* The weight of a set of rows.                                            *)

\* Induction over the naturals, said of a set of them.
LEMMA NatSetInduction ==
  ASSUME NEW S, 0 \in S, \A n \in Nat : n \in S => n + 1 \in S
  PROVE  Nat \subseteq S
<1>. DEFINE T == Nat \ S
<1>1. ASSUME T # {} PROVE FALSE
  <2>1. Min(T) \in T /\ \A y \in T : Min(T) <= y
    BY <1>1, MinIn
  <2>2. Min(T) # 0 /\ Min(T) - 1 \in Nat /\ Min(T) - 1 \notin T
    BY <2>1
  <2>. QED
    BY <2>1, <2>2
<1>. QED
  BY <1>1

\* Induction over the subsets of a finite set: what holds of a set when it
\* holds of the set less any of its elements holds of all.
LEMMA SubsetInduction ==
  ASSUME NEW U, IsFiniteSet(U), NEW G, {} \in G,
         \A s \in SUBSET U : s # {} /\ (\A x \in s : s \ {x} \in G) => s \in G
  PROVE  SUBSET U \subseteq G
<1>. DEFINE S == {n \in Nat : \A s \in SUBSET U : Cardinality(s) = n => s \in G}
<1>0. \A s \in SUBSET U : IsFiniteSet(s) /\ Cardinality(s) \in Nat
  BY FS_Subset, FS_CardinalityType
<1>1. 0 \in S
  BY <1>0, FS_EmptySet
<1>2. ASSUME NEW n \in Nat, n \in S PROVE n + 1 \in S
  <2>. SUFFICES ASSUME NEW s \in SUBSET U, Cardinality(s) = n + 1 PROVE s \in G
    OBVIOUS
  <2>1. s # {}
    BY FS_EmptySet
  <2>2. ASSUME NEW x \in s PROVE s \ {x} \in G
    <3>1. Cardinality(s \ {x}) = (n + 1) - 1
      BY <1>0, FS_RemoveElement
    <3>. QED
      BY <1>2, <3>1
  <2>. QED
    BY <2>1, <2>2
<1>. HIDE DEF S
<1>3. Nat \subseteq S
  BY <1>1, <1>2, NatSetInduction
<1>. QED
  BY <1>0, <1>3 DEF S

First(s) == CHOOSE x \in s : TRUE

\* What the sum of the sizes keeps: a value for every subset.
Sums(f, U) == f = [s \in SUBSET U |->
                     IF s = {} THEN 0 ELSE rows[First(s)].size + f[s \ {First(s)}]]

\* There is such a table.
LEMMA SumsExist == ASSUME NEW U, IsFiniteSet(U) PROVE \E f : Sums(f, U)
<1>. DEFINE Upto(f, m) ==
              \A s \in SUBSET U : Cardinality(s) <= m =>
                f[s] = IF s = {} THEN 0 ELSE rows[First(s)].size + f[s \ {First(s)}]
            S == {m \in Nat : \E f : f = [s \in SUBSET U |-> f[s]] /\ Upto(f, m)}
<1>0. \A s \in SUBSET U : IsFiniteSet(s) /\ Cardinality(s) \in Nat /\ Cardinality(s) <= Cardinality(U)
  BY FS_Subset, FS_CardinalityType
<1>1. 0 \in S
  <2>. DEFINE f == [s \in SUBSET U |-> 0]
  <2>1. \A s \in SUBSET U : Cardinality(s) <= 0 => s = {}
    BY <1>0, FS_EmptySet
  <2>2. Upto(f, 0)
    BY <2>1
  <2>3. f = [s \in SUBSET U |-> f[s]]
    OBVIOUS
  <2>. HIDE DEF f, Upto
  <2>. QED
    BY <2>2, <2>3
<1>2. ASSUME NEW m \in Nat, m \in S PROVE m + 1 \in S
  <2>1. PICK f : Upto(f, m)
    BY <1>2
  <2>. DEFINE g == [s \in SUBSET U |->
                      IF Cardinality(s) <= m THEN f[s]
                      ELSE rows[First(s)].size + f[s \ {First(s)}]]
  <2>2. ASSUME NEW s \in SUBSET U, Cardinality(s) <= m + 1
        PROVE  g[s] = IF s = {} THEN 0 ELSE rows[First(s)].size + g[s \ {First(s)}]
    <3>1. CASE s = {}
      <4>1. Cardinality(s) <= m
        BY <3>1, FS_EmptySet
      <4>. QED
        BY <2>1, <3>1, <4>1
    <3>2. CASE s # {}
      <4>1. First(s) \in s
        BY <3>2 DEF First
      <4>2. s \ {First(s)} \in SUBSET U /\ Cardinality(s \ {First(s)}) <= m
        BY <1>0, <2>2, <4>1, FS_RemoveElement
      <4>3. g[s \ {First(s)}] = f[s \ {First(s)}]
        BY <4>2
      <4>4. CASE Cardinality(s) <= m
        BY <2>1, <3>2, <4>3, <4>4
      <4>5. CASE ~(Cardinality(s) <= m)
        BY <3>2, <4>3, <4>5
      <4>. QED
        BY <4>4, <4>5
    <3>. QED
      BY <3>1, <3>2
  <2>3. g = [s \in SUBSET U |-> g[s]]
    OBVIOUS
  <2>4. Upto(g, m + 1)
    BY <2>2
  <2>. HIDE DEF g, Upto
  <2>. QED
    BY <2>3, <2>4
<1>3. Cardinality(U) \in S
  <2>. HIDE DEF S
  <2>1. Nat \subseteq S
    BY <1>1, <1>2, NatSetInduction
  <2>. QED
    BY <1>0, <2>1
<1>4. PICK f : f = [s \in SUBSET U |-> f[s]] /\ Upto(f, Cardinality(U))
  BY <1>3
<1>5. \A s \in SUBSET U :
        f[s] = IF s = {} THEN 0 ELSE rows[First(s)].size + f[s \ {First(s)}]
  BY <1>0, <1>4
<1>6. Sums(f, U)
  BY <1>4, <1>5 DEF Sums
<1>. QED
  BY <1>6

\* Size is a value of it.
LEMMA SizeIs ==
  ASSUME NEW U, IsFiniteSet(U)
  PROVE  \E f : Sums(f, U) /\ f[U] = Size(U)
<1>1. Size(U) = (CHOOSE f : Sums(f, U))[U]
  BY Zenon DEF Size, MapThenSumSet, MapThenFoldSet, Sums, First
<1>2. Sums(CHOOSE f : Sums(f, U), U)
  BY SumsExist
<1>. QED
  BY <1>1, <1>2

\* Tables agree where they are both about a set.
LEMMA SumsAgree ==
  ASSUME NEW U, IsFiniteSet(U), NEW V \in SUBSET U, NEW f, Sums(f, U), NEW g, Sums(g, V)
  PROVE  \A s \in SUBSET V : f[s] = g[s]
<1>. DEFINE G == {s \in SUBSET V : f[s] = g[s]}
<1>1. /\ \A s \in SUBSET U : f[s] = IF s = {} THEN 0 ELSE rows[First(s)].size + f[s \ {First(s)}]
      /\ \A s \in SUBSET V : g[s] = IF s = {} THEN 0 ELSE rows[First(s)].size + g[s \ {First(s)}]
  BY DEF Sums
<1>2. {} \in G
  BY <1>1
<1>3. ASSUME NEW s \in SUBSET V, s # {}, \A x \in s : s \ {x} \in G PROVE s \in G
  <2>1. First(s) \in s
    BY <1>3 DEF First
  <2>. QED
    BY <1>1, <1>3, <2>1
<1>4. IsFiniteSet(V)
  BY FS_Subset
<1>. HIDE DEF G
<1>5. SUBSET V \subseteq G
  BY <1>2, <1>3, <1>4, SubsetInduction
<1>. QED
  BY <1>5 DEF G

\* The rows are a finite set, and each has its size.
LEMMA RowsHaveSizes ==
  ASSUME CompactTypeOK
  PROVE  Last \in Nat /\ IsFiniteSet(1..Last) /\ \A i \in 1..Last : rows[i].size \in Nat
<1>1. Last \in Nat /\ \A i \in 1..Last : rows[i] \in Row
  BY DEF CompactTypeOK, Last
<1>2. IsFiniteSet(1..Last)
  <2>1. 1 \in Int /\ Last \in Int
    BY <1>1
  <2>. QED
    BY <2>1, FS_Interval
<1>. QED
  BY <1>1, <1>2 DEF Row

\* A set weighs what one of its rows weighs and what the others do, whichever
\* row that is.
LEMMA SizeSplits ==
  ASSUME CompactTypeOK
  PROVE  \A s \in SUBSET (1..Last) :
           Size(s) \in Nat /\ \A x \in s : Size(s) = rows[x].size + Size(s \ {x})
<1>. DEFINE U == 1..Last
            Adds(s) == Size(s) \in Nat /\ \A x \in s : Size(s) = rows[x].size + Size(s \ {x})
            G == {s \in SUBSET U : Adds(s)}
<1>0. Last \in Nat /\ IsFiniteSet(U) /\ \A i \in U : rows[i].size \in Nat
  BY RowsHaveSizes
<1>1. ASSUME NEW s \in SUBSET U
      PROVE  Size(s) = IF s = {} THEN 0 ELSE rows[First(s)].size + Size(s \ {First(s)})
  <2>1. IsFiniteSet(s) /\ IsFiniteSet(s \ {First(s)})
    BY <1>0, FS_Subset
  <2>2. PICK f : Sums(f, s) /\ f[s] = Size(s)
    BY <2>1, SizeIs
  <2>3. PICK g : Sums(g, s \ {First(s)}) /\ g[s \ {First(s)}] = Size(s \ {First(s)})
    BY <2>1, SizeIs
  <2>4. f[s \ {First(s)}] = g[s \ {First(s)}]
    BY <2>1, <2>2, <2>3, SumsAgree
  <2>5. f[s] = IF s = {} THEN 0 ELSE rows[First(s)].size + f[s \ {First(s)}]
    BY <2>2 DEF Sums
  <2>. QED
    BY <2>2, <2>3, <2>4, <2>5
<1>2. Size({}) = 0
  <2>1. {} \in SUBSET U
    OBVIOUS
  <2>. QED
    BY <1>1, <2>1
<1>3. \A s \in SUBSET U : Size(s) \in Nat
  <2>. DEFINE N == {s \in SUBSET U : Size(s) \in Nat}
  <2>1. {} \in N
    BY <1>2
  <2>2. ASSUME NEW s \in SUBSET U, s # {}, \A x \in s : s \ {x} \in N PROVE s \in N
    <3>1. First(s) \in s
      BY <2>2 DEF First
    <3>2. rows[First(s)].size \in Nat /\ Size(s \ {First(s)}) \in Nat
      BY <1>0, <2>2, <3>1
    <3>. QED
      BY <1>1, <2>2, <3>2
  <2>. HIDE DEF N, U
  <2>3. SUBSET U \subseteq N
    BY <1>0, <2>1, <2>2, SubsetInduction
  <2>. QED
    BY <2>3 DEF N
<1>4. {} \in G
  BY <1>2
<1>5. ASSUME NEW s \in SUBSET U, s # {}, \A x \in s : s \ {x} \in G PROVE s \in G
  <2>. DEFINE c == First(s)
  <2>1. c \in s
    BY <1>5 DEF First
  <2>2. Size(s) = rows[c].size + Size(s \ {c})
    BY <1>1, <1>5
  <2>. HIDE DEF c
  <2>3. Size(s) \in Nat
    BY <1>0, <1>5, <2>1, <2>2
  <2>4. ASSUME NEW x \in s, x # c PROVE Size(s) = rows[x].size + Size(s \ {x})
    <3>1. x \in s \ {c} /\ c \in s \ {x} /\ (s \ {c}) \ {x} = (s \ {x}) \ {c}
      BY <2>1, <2>4
    <3>2. Adds(s \ {c}) /\ Adds(s \ {x})
      BY <1>5, <2>1
    <3>3. Size(s \ {c}) = rows[x].size + Size((s \ {c}) \ {x})
      BY <3>1, <3>2
    <3>4. Size(s \ {x}) = rows[c].size + Size((s \ {c}) \ {x})
      BY <3>1, <3>2
    <3>5. Size((s \ {c}) \ {x}) \in Nat
      BY <1>3
    <3>. QED
      BY <1>0, <2>1, <2>2, <3>3, <3>4, <3>5
  <2>. QED
    BY <2>2, <2>3, <2>4
<1>6. SUBSET U \subseteq G
  <2>. HIDE DEF G, U
  <2>. QED
    BY <1>0, <1>4, <1>5, SubsetInduction
<1>. QED
  BY <1>6

\* More rows weigh no less.
LEMMA SizeGrows ==
  ASSUME CompactTypeOK, NEW t \in SUBSET (1..Last), NEW s \in SUBSET t
  PROVE  Size(s) <= Size(t)
<1>. DEFINE U == 1..Last
            G == {r \in SUBSET U : s \subseteq r => Size(s) <= Size(r)}
<1>0. IsFiniteSet(U) /\ \A i \in U : rows[i].size \in Nat
  BY RowsHaveSizes
<1>1. {} \in G
  <2>1. s \subseteq {} => s = {}
    OBVIOUS
  <2>2. {} \in SUBSET U
    OBVIOUS
  <2>3. Size({}) \in Nat
    BY <2>2, SizeSplits
  <2>4. s \subseteq {} => Size(s) = Size({})
    BY <2>1, Zenon
  <2>5. Size({}) <= Size({})
    BY <2>3
  <2>. QED
    BY <2>2, <2>4, <2>5, Zenon
<1>2. ASSUME NEW r \in SUBSET U, r # {}, \A x \in r : r \ {x} \in G PROVE r \in G
  <2>. SUFFICES ASSUME s \subseteq r, s # r PROVE Size(s) <= Size(r)
    BY SizeSplits
  <2>1. PICK x \in r : x \notin s
    OBVIOUS
  <2>2. Size(r) = rows[x].size + Size(r \ {x})
    BY SizeSplits
  <2>3. Size(s) <= Size(r \ {x})
    BY <1>2, <2>1
  <2>4. Size(s) \in Nat /\ Size(r \ {x}) \in Nat /\ rows[x].size \in Nat
    BY <1>0, SizeSplits
  <2>. QED
    BY <2>2, <2>3, <2>4
<1>3. SUBSET U \subseteq G
  <2>. HIDE DEF G, U
  <2>. QED
    BY <1>0, <1>1, <1>2, SubsetInduction
<1>. QED
  BY <1>3

-----------------------------------------------------------------------------
(* What a summary had no room for.                                         *)

\* What was cut comes before everything that was summarized.
OldestCut(c) ==
  /\ c.covers \cup c.cut \subseteq 1..c.upTo
  /\ \A i \in c.cut, j \in c.covers : i < j

CutsOldest == OldestCut(checkpoint) /\ OldestCut(fold)

\* The rows one call takes are the last ones of the segment.
LEMMA NewestIsLast ==
  ASSUME CompactTypeOK, NEW S \in SUBSET (1..Last), NEW i \in S \ Newest(S), NEW j \in Newest(S)
  PROVE  i < j
<1>. DEFINE From(k) == {x \in S : x >= k}
<1>1. i \in Nat /\ j \in Nat /\ j \in S /\ Last \in Nat
  BY DEF Newest, CompactTypeOK, Last
<1>2. SUFFICES ASSUME j <= i PROVE FALSE
  BY <1>1
<1>3. From(i) \in SUBSET From(j) /\ From(j) \in SUBSET (1..Last) /\ From(i) \in SUBSET (1..Last)
  <2>1. \A x \in S : x \in Nat /\ x \in 1..Last
    BY <1>1
  <2>2. \A x \in S : x >= i => x >= j
    BY <1>1, <1>2, <2>1
  <2>. QED
    BY <2>1, <2>2, Zenon
<1>4. Size(From(i)) <= Size(From(j)) /\ Size(From(j)) <= Budget /\ ~(Size(From(i)) <= Budget)
  BY <1>3, SizeGrows DEF Newest
<1>5. Size(From(i)) \in Nat /\ Size(From(j)) \in Nat /\ Budget \in Nat
  BY <1>3, SizeSplits, SettingsAssumption
<1>. HIDE DEF From
<1>. QED
  BY <1>4, <1>5

\* A fold cuts before what it summarizes, given that the last one did.
LEMMA FoldCutsOldest ==
  ASSUME CompactTypeOK, CutsOldest, NEW inTurn \in BOOLEAN, NEW next, BeginFold(inTurn, next)
  PROVE  OldestCut(fold')
<1>. DEFINE up == Span(inTurn)
<1>1. PICK strategy \in Strategies :
        Foldable(inTurn, strategy) /\ fold' = Summarized(up, OntoLast(up, strategy))
  BY DEF BeginFold
<1>. DEFINE chained == OntoLast(up, strategy)
            earlier == Earlier(chained)
            segment == Segment(up, IF chained THEN checkpoint.upTo ELSE 0)
            newest  == Newest(segment)
<1>2. Last \in Nat /\ checkpoint \in Summary
  BY DEF CompactTypeOK, Last
<1>3. up \in 0..Last /\ up > checkpoint.upTo
  BY <1>1, <1>2, SpanCuts DEF Foldable, Advances
<1>4. /\ earlier \in Summary /\ OldestCut(earlier) /\ earlier.upTo < up
      /\ segment = {i \in earlier.upTo + 1 .. up : ~rows[i].pinned}
  BY <1>2, <1>3 DEF Earlier, None, CutsOldest, OldestCut, Segment
<1>5. /\ segment \subseteq 1..Last /\ newest \subseteq segment
      /\ \A i \in segment \ newest, j \in newest : i < j
  <2>1. segment \in SUBSET (1..Last)
    BY <1>2, <1>3 DEF Segment
  <2>. QED
    BY <2>1, NewestIsLast DEF Newest
<1>6. fold' \in {[upTo |-> up, covers |-> earlier.covers \cup segment, cut |-> earlier.cut],
                 [upTo |-> up, covers |-> newest,
                  cut |-> earlier.cut \cup earlier.covers \cup (segment \ newest)]}
  BY <1>1 DEF Summarized
<1>. HIDE DEF up, chained, earlier, segment, newest
<1>7. \A i \in earlier.cut \cup earlier.covers, j \in segment : i < j
  BY <1>2, <1>3, <1>4 DEF OldestCut
<1>8. segment \cup earlier.covers \cup earlier.cut \subseteq 1..up
  BY <1>2, <1>3, <1>4 DEF OldestCut
<1>9. CASE fold' = [upTo |-> up, covers |-> earlier.covers \cup segment, cut |-> earlier.cut]
  BY <1>4, <1>7, <1>8, <1>9 DEF OldestCut
<1>10. CASE fold' = [upTo |-> up, covers |-> newest,
                     cut |-> earlier.cut \cup earlier.covers \cup (segment \ newest)]
  BY <1>5, <1>7, <1>8, <1>10 DEF OldestCut
<1>. QED
  BY <1>6, <1>9, <1>10

LEMMA CutsNext == CompactTypeOK /\ CutsOldest /\ [Next]_vars => CutsOldest'
<1>. SUFFICES ASSUME CompactTypeOK, CutsOldest, [Next]_vars PROVE CutsOldest'
  OBVIOUS
<1>0. OldestCut(None) /\ OldestCut(checkpoint) /\ OldestCut(fold)
  BY DEF OldestCut, None, CutsOldest
<1>a. ASSUME fold' \in {fold, None}, checkpoint' \in {checkpoint, fold} PROVE CutsOldest'
  BY <1>0, <1>a DEF CutsOldest
<1>1. CASE TurnFolds \/ Compact
  <2>1. PICK b \in BOOLEAN, next \in {"folding", "asked"} : BeginFold(b, next)
    BY <1>1 DEF TurnFolds, Compact
  <2>2. OldestCut(fold') /\ checkpoint' = checkpoint
    BY <2>1, FoldCutsOldest DEF BeginFold
  <2>. QED
    BY <1>0, <2>2 DEF CutsOldest
<1>2. CASE TurnFolded \/ Compacted \/ TurnFoldFails \/ CompactFails \/ TurnRebuilds \/ CompactRebuilds
  BY <1>a, <1>2 DEF TurnFolded, Compacted, SaveCheckpoint, TurnFoldFails, CompactFails, FoldFails,
     TurnRebuilds, CompactRebuilds, Rebuild
<1>3. CASE NotFolding \/ TurnEnds \/ Resume \/ Full \/ UNCHANGED vars
  BY <1>a, <1>3 DEF NotFolding, TurnEnds, Resume, Full, vars
<1>4. ASSUME NEW s \in Sizes, StartTurn(s) \/ Answer(s) PROVE CutsOldest'
  BY <1>a, <1>4 DEF StartTurn, Answer
<1>5. ASSUME NEW c \in 0..MaxCalls, Respond(c) PROVE CutsOldest'
  BY <1>a, <1>5 DEF Respond
<1>6. ASSUME NEW n \in 1..2, Pin(n) \/ Unpin(n) PROVE CutsOldest'
  BY <1>a, <1>6 DEF Pin, Unpin
<1>. QED
  BY <1>1, <1>2, <1>3, <1>4, <1>5, <1>6 DEF Next

\* Every row is shown or in the summary, unless unpin released it or the text one
\* call takes had no room for it (_truncate_oldest); and what there was no room
\* for is older than everything the summary represents.
THEOREM NothingFallsBetween == Spec => []KeptUnlessDropped
<1>1. ASSUME IInv, CutsOldest PROVE KeptUnlessDropped
  <2>. SUFFICES ASSUME NEW i \in 1..Last
                PROVE  i \in DerivedView \cup checkpoint.covers \cup checkpoint.cut \cup released
    BY <1>1 DEF KeptUnlessDropped, Known, CutsOldest, OldestCut
  <2>1. Last \in Nat /\ checkpoint.upTo \in 0..Last
    BY <1>1 DEF IInv, CompactTypeOK, Last
  <2>2. CASE i \in 1..checkpoint.upTo
    BY <1>1, <2>2 DEF IInv, RowsInv, Represented, DerivedView, Pinned, PinnedBehind, Behind
  <2>3. CASE i \notin 1..checkpoint.upTo
    BY <2>1, <2>3 DEF DerivedView, Ahead
  <2>. QED
    BY <2>2, <2>3
<1>2. Init => CutsOldest
  BY DEF Init, CutsOldest, OldestCut, None
<1>. QED
  BY <1>1, <1>2, CutsNext, ThreadIsTyped, Invariant, PTL DEF Spec

\* A written row is one more entry of the archive.
LEMMA WriteAppends ==
  ASSUME CompactTypeOK, NEW role \in {"user", "assistant", "tool"}, NEW of \in Nat,
         NEW size \in Nat, Write(role, of, size), UNCHANGED checkpoint
  PROVE  Archive!Next
<1>. DEFINE log == [i \in 1..Last |-> Role(i)]
<1>1. /\ Last \in Nat /\ Last' = Last + 1
      /\ \A i \in 1..Last : rows'[i] = rows[i]
      /\ rows'[Last + 1] = [role |-> role, of |-> of, pinned |-> FALSE, size |-> size]
  BY Wrote
<1>2. \A i \in 1..Last : Role(i) \in {"user", "assistant", "tool"}
  <2>1. rows \in [1..Last -> Row]
    BY DEF CompactTypeOK, Last
  <2>. QED
    BY <2>1 DEF Role, Row
<1>3. log \in Seq({"user", "assistant", "tool"}) /\ Len(log) = Last
  BY <1>1, <1>2
<1>4. Append(log, role) = [i \in 1..Last + 1 |-> IF i = Last + 1 THEN role ELSE Role(i)]
  BY <1>1, <1>3
<1>5. \A i \in 1..Last + 1 : rows'[i].role = IF i = Last + 1 THEN role ELSE Role(i)
  <2>1. \A i \in 1..Last + 1 : i \in 1..Last \/ i = Last + 1
    BY <1>1
  <2>2. \A i \in 1..Last : i # Last + 1
    BY <1>1
  <2>. QED
    BY <1>1, <2>1, <2>2 DEF Role
<1>6. log' = Append(log, role)
  BY <1>1, <1>4, <1>5 DEF Role
<1>. QED
  BY <1>6 DEF Archive!Next, Archive!Write

\* The thread is an archive with a watermark: Compaction implements
\* ThreadArchive.
THEOREM ThreadIsArchive == Spec => ArchiveKept
<1>. DEFINE log == [i \in 1..Last |-> Role(i)]
<1>1. Init => Archive!Init
  <2>. SUFFICES ASSUME Init PROVE Archive!Init
    OBVIOUS
  <2>1. Last = 0 /\ checkpoint.upTo = 0
    BY DEF Init, Last, None
  <2>2. log = <<>>
    BY <2>1
  <2>. QED
    BY <2>1, <2>2 DEF Archive!Init
<1>2. IInv /\ [Next]_vars => [Archive!Next]_<<log, checkpoint.upTo>>
  <2>. SUFFICES ASSUME IInv, [Next]_vars
                PROVE  Archive!Next \/ UNCHANGED <<log, checkpoint.upTo>>
    OBVIOUS
  <2>1. ASSUME UNCHANGED rows PROVE log' = log
    BY <2>1 DEF Last, Role
  <2>2. CompactTypeOK /\ Sizes \subseteq Nat
    BY SizesAssumption DEF IInv
  <2>3. ASSUME NEW size \in Sizes, StartTurn(size) PROVE Archive!Next
    BY <2>2, <2>3, WriteAppends DEF StartTurn
  <2>4. ASSUME NEW size \in Sizes, Answer(size) PROVE Archive!Next
    <3>. DEFINE R == {i \in 1..Last : Role(i) = "assistant"}
    <3>1. R # {} /\ R \in SUBSET (1..Last) /\ Last \in Nat
      BY <2>2, <2>4 DEF Answer, IInv, Answering, Open, CompactTypeOK, Last
    <3>2. LastResponse \in R
      BY <3>1, MaxIn DEF LastResponse
    <3>3. LastResponse \in Nat
      BY <3>1, <3>2, Positions
    <3>. QED
      BY <2>2, <2>4, <3>3, WriteAppends DEF Answer
  <2>5. ASSUME NEW calls \in 0..MaxCalls, Respond(calls) PROVE Archive!Next
    BY <2>2, <2>5, WriteAppends DEF Respond
  <2>6. ASSUME NEW n \in 1..2, Pin(n) \/ Unpin(n) PROVE UNCHANGED <<log, checkpoint.upTo>>
    <3>1. fold = None /\ checkpoint' = checkpoint
      BY <2>6 DEF Pin, Unpin, IInv, FoldIsPending
    <3>2. PICK flag \in BOOLEAN :
            /\ SetPinned(LastTurns(n), flag) /\ UNCHANGED <<checkpoint, live, fold>>
            /\ released' = IF flag THEN released ELSE released \cup (LastTurns(n) \cap PinnedBehind)
      BY <2>6 DEF Pin, Unpin
    <3>3. n \in Nat /\ RowsInv
      BY DEF IInv
    <3>4. Last' = Last /\ \A i \in 1..Last : rows'[i].role = rows[i].role
      BY <2>2, <3>1, <3>2, <3>3, PinsKeep
    <3>. QED
      BY <3>1, <3>4 DEF Role
  <2>7. ASSUME TurnFolded \/ Compacted
        PROVE  Archive!Next \/ UNCHANGED <<log, checkpoint.upTo>>
    <3>1. UNCHANGED rows /\ checkpoint' = IF Advances(fold.upTo) THEN fold ELSE checkpoint
      BY <2>7 DEF TurnFolded, Compacted, SaveCheckpoint
    <3>2. CASE ~Advances(fold.upTo)
      BY <2>1, <3>1, <3>2
    <3>3. CASE Advances(fold.upTo)
      <4>1. checkpoint'.upTo \in checkpoint.upTo + 1 .. Last
        BY <2>2, <3>1, <3>3 DEF Advances, CompactTypeOK, Last
      <4>2. Len(log) = Last
        <5>1. Last \in Nat
          BY <2>2 DEF CompactTypeOK, Last
        <5>. QED
          BY <5>1
      <4>3. log' = log
        BY <2>1, <3>1
      <4>. QED
        BY <4>1, <4>2, <4>3 DEF Archive!Next, Archive!Cover
    <3>. QED
      BY <3>2, <3>3
  <2>8. ASSUME \/ TurnFolds \/ Compact \/ TurnRebuilds \/ CompactRebuilds \/ Resume
               \/ NotFolding \/ TurnFoldFails \/ TurnEnds \/ CompactFails
               \/ Full \/ UNCHANGED vars
        PROVE  UNCHANGED <<log, checkpoint.upTo>>
    <3>1. UNCHANGED <<rows, checkpoint>>
      BY <2>8 DEF TurnFolds, Compact, BeginFold, TurnRebuilds, CompactRebuilds, Rebuild, Resume,
                  NotFolding, TurnFoldFails, CompactFails, FoldFails, TurnEnds, Full, vars
    <3>. QED
      BY <2>1, <3>1
  <2>. QED
    BY <2>3, <2>4, <2>5, <2>6, <2>7, <2>8 DEF Next
<1>. QED
  BY <1>1, <1>2, Invariant, PTL DEF Spec, ArchiveKept, Archive!Spec

-----------------------------------------------------------------------------
(* What a fold leaves.                                                     *)

\* A thread begins with a request.
FirstIsRequest == Last > 0 => Role(1) = "user"

\* The boundary of whole turns leaves enough behind it, unless it is the
\* thread's beginning, and a turn that runs behind it.
LEMMA TurnBoundaryKeeps ==
  ASSUME CompactTypeOK, Starts # {}, FirstIsRequest, NEW inTurn \in BOOLEAN
  PROVE  /\ TurnBoundary(inTurn) \in Starts
         /\ TurnBoundary(inTurn) > 1 => Size(TurnBoundary(inTurn)..Last) >= KeepTokens
         /\ inTurn => TurnBoundary(inTurn) <= Max(Starts)
<1>. DEFINE floor  == LatestKeeping(Starts)
            within == IF inTurn THEN Min({floor, Max(Starts)}) ELSE floor
            counted == {s \in Starts : s <= within
                          /\ EarlierTurns(s) + KeepTurns <= Cardinality(Starts)}
            kept   == IF counted = {} THEN 0 ELSE Max(counted)
            enough == {c \in Starts : Size(c..Last) >= KeepTokens}
            turn == TurnBoundary(inTurn)
<1>1. Last \in Nat /\ Starts \in SUBSET (1..Last) /\ Starts \in SUBSET Nat
  BY DEF CompactTypeOK, Last, Starts
<1>2. turn \in Starts
  BY TurnBoundaryIn
<1>3. Max(Starts) \in Starts /\ \A s \in Starts : s <= Max(Starts)
  BY <1>1, MaxIn
<1>4. floor \in Starts
  BY <1>1, KeepingIn
<1>5. within <= floor /\ within \in Nat
  <2>1. {floor, Max(Starts)} \in SUBSET Nat /\ {floor, Max(Starts)} # {}
    BY <1>1, <1>3, <1>4
  <2>2. Min({floor, Max(Starts)}) \in {floor, Max(Starts)} /\ Min({floor, Max(Starts)}) <= floor
    BY <2>1, MinIn
  <2>. HIDE DEF floor
  <2>. QED
    BY <1>1, <1>3, <1>4, <2>1, <2>2
<1>6. counted # {} => Max(counted) \in counted
  BY <1>1, MaxIn
<1>7. turn = IF kept > Min(Starts) THEN kept ELSE within
  BY DEF TurnBoundary
<1>8. turn <= within
  <2>1. CASE kept > Min(Starts)
    <3>1. Min(Starts) \in Nat
      BY <1>1, MinIn
    <3>2. counted # {}
      BY <2>1, <3>1
    <3>. QED
      BY <1>6, <1>7, <2>1, <3>2
  <2>2. CASE ~(kept > Min(Starts))
    BY <1>5, <1>7, <2>2
  <2>. QED
    BY <2>1, <2>2
<1>. HIDE DEF within, kept, counted, turn
<1>9. turn \in Nat /\ floor \in Nat /\ turn <= floor
  <2>. HIDE DEF floor
  <2>1. turn \in Nat /\ floor \in Nat
    BY <1>1, <1>2, <1>4
  <2>. QED
    BY <1>5, <1>8, <2>1
<1>10. ASSUME turn > 1 PROVE Size(turn..Last) >= KeepTokens
  <2>1. enough # {}
    <3>1. SUFFICES ASSUME enough = {} PROVE FALSE
      OBVIOUS
    <3>2. floor = Min(Starts)
      BY <3>1 DEF LatestKeeping
    <3>3. 1 \in Starts
      BY <1>1, <1>2 DEF FirstIsRequest, Starts
    <3>4. Min(Starts) <= 1
      BY <1>1, <3>3, MinIn
    <3>. QED
      BY <1>9, <1>10, <3>2, <3>4
  <2>2. floor \in enough
    <3>1. floor = Max(enough)
      BY <2>1 DEF LatestKeeping
    <3>2. enough \in SUBSET (1..Last)
      BY <1>1
    <3>. QED
      BY <1>1, <2>1, <3>1, <3>2, MaxIn
  <2>3. turn..Last \in SUBSET (1..Last) /\ floor..Last \in SUBSET (turn..Last)
    BY <1>1, <1>9, <1>10
  <2>4. Size(floor..Last) <= Size(turn..Last) /\ Size(floor..Last) >= KeepTokens
    BY <2>2, <2>3, SizeGrows
  <2>5. Size(floor..Last) \in Nat /\ Size(turn..Last) \in Nat
    <3>1. floor..Last \in SUBSET (1..Last)
      BY <2>3
    <3>. QED
      BY <2>3, <3>1, SizeSplits
  <2>. HIDE DEF floor
  <2>. QED
    BY <2>4, <2>5, SettingsAssumption
<1>. QED
  BY <1>2, <1>3, <1>10 DEF turn

\* A fold begun at a turn's start leaves the tail the settings ask for.
LEMMA FoldKeepsTail ==
  ASSUME CompactTypeOK, FirstIsRequest, NEW inTurn \in BOOLEAN, NEW next,
         BeginFold(inTurn, next), next = "folding" => inTurn
  PROVE  TurnFoldKeepsTail'
<1>. DEFINE turn   == TurnBoundary(inTurn)
            inside == StepBoundary(Max(Starts))
            upTo   == Span(inTurn)
<1>0. /\ pc' = next /\ UNCHANGED rows /\ fold'.upTo = upTo /\ upTo > 0
      /\ Last \in Nat /\ Starts \in SUBSET (1..Last)
  <2>1. checkpoint.upTo \in Nat /\ Last \in Nat /\ Starts \in SUBSET (1..Last)
    BY DEF CompactTypeOK, Last, Starts
  <2>2. PICK strategy \in Strategies :
          Foldable(inTurn, strategy) /\ fold'.upTo = Span(inTurn)
    BY DEF BeginFold, Summarized
  <2>3. Span(inTurn) \in Nat
    BY <2>1, SpanCuts
  <2>. QED
    BY <2>1, <2>2, <2>3 DEF BeginFold, Foldable, Advances
<1>1. Starts # {}
  BY <1>0 DEF Span
<1>2. /\ turn \in Starts
      /\ turn > 1 => Size(turn..Last) >= KeepTokens
      /\ inTurn => turn <= Max(Starts)
  BY <1>1, TurnBoundaryKeeps
<1>3. inside = 0 \/ (inside \in 1..Last /\ Role(inside) = "assistant")
  <2>1. Max(Starts) \in 1..Last
    BY <1>0, <1>1, MaxIn
  <2>. QED
    BY <1>0, <2>1, StepBoundaryIn
<1>4. upTo = IF turn > 1 /\ (WorthIt(turn) \/ inside = 0) THEN turn - 1
             ELSE IF inside > 0 THEN inside - 1 ELSE 0
  BY <1>1 DEF Span
<1>5. Max(Starts) \in Nat /\ turn \in Nat /\ turn <= Last
  <2>1. \A x \in Starts : x \in Nat /\ x <= Last
    BY <1>0
  <2>2. Max(Starts) \in Starts
    BY <1>0, <1>1, MaxIn
  <2>. HIDE DEF turn
  <2>. QED
    BY <1>2, <2>1, <2>2
<1>. HIDE DEF turn, inside, upTo
<1>6. SUFFICES ASSUME Role(upTo + 1) = "user"
               PROVE  Size(upTo + 1 .. Last) >= KeepTokens /\ (inTurn => upTo < Max(Starts))
  <2>1. ASSUME NEW S PROVE Size(S)' = Size(S)
    BY <1>0 DEF Size, MapThenSumSet, MapThenFoldSet
  <2>. QED
    BY <1>0, <2>1 DEF TurnFoldKeepsTail, Role, Last, Starts
<1>7. turn > 1 /\ upTo = turn - 1 /\ upTo + 1 = turn
  <2>1. CASE turn > 1 /\ (WorthIt(turn) \/ inside = 0)
    BY <1>4, <1>5, <2>1
  <2>2. CASE ~(turn > 1 /\ (WorthIt(turn) \/ inside = 0))
    <3>1. inside > 0 /\ upTo = inside - 1
      BY <1>0, <1>3, <1>4, <2>2
    <3>2. inside \in 1..Last /\ upTo + 1 = inside
      BY <1>0, <1>3, <3>1
    <3>. QED
      BY <1>3, <1>6, <3>1, <3>2
  <2>. QED
    BY <2>1, <2>2
<1>8. Size(upTo + 1 .. Last) = Size(turn..Last)
  BY <1>7, Zenon
<1>9. inTurn => upTo < Max(Starts)
  BY <1>2, <1>5, <1>7
<1>. QED
  BY <1>2, <1>7, <1>8, <1>9

\* What the fold's promise rests on beside IInv.
TailInv == FirstIsRequest /\ TurnFoldKeepsTail

\* A row added to a thread that has one, or a request, leaves the first a request.
LEMMA FirstStays ==
  ASSUME CompactTypeOK, FirstIsRequest, NEW role \in {"user", "assistant", "tool"},
         NEW of \in Nat, NEW size \in Nat, Write(role, of, size), role = "user" \/ Last > 0
  PROVE  FirstIsRequest'
<1>1. /\ Last \in Nat /\ \A i \in 1..Last : rows'[i] = rows[i]
      /\ rows'[Last + 1] = [role |-> role, of |-> of, pinned |-> FALSE, size |-> size]
  BY Wrote
<1>2. CASE Last > 0
  <2>1. rows'[1] = rows[1]
    BY <1>1, <1>2
  <2>. QED
    BY <1>2, <2>1 DEF FirstIsRequest, Role
<1>3. CASE Last = 0
  BY <1>1, <1>3 DEF Role, FirstIsRequest
<1>. QED
  BY <1>1, <1>2, <1>3

\* A fold is begun with what it must leave, and nothing is written until it ends.
LEMMA TailNext == IInv /\ TailInv /\ [Next]_vars => TailInv'
<1>. SUFFICES ASSUME IInv, TailInv, [Next]_vars PROVE TailInv'
  OBVIOUS
<1>0. /\ CompactTypeOK /\ RowsInv /\ Answering /\ FoldIsPending /\ QuestionShown
      /\ FirstIsRequest /\ TurnFoldKeepsTail
  BY DEF IInv, TailInv
<1>a. Last \in Nat /\ Sizes \subseteq Nat
  BY <1>0, SizesAssumption DEF CompactTypeOK, Last
<1>b. ASSUME pc' \notin {"folding", "asked"} PROVE TurnFoldKeepsTail'
  BY <1>b DEF TurnFoldKeepsTail
<1>c. ASSUME UNCHANGED rows PROVE FirstIsRequest'
  BY <1>0, <1>c DEF FirstIsRequest, Last, Role
<1>1. ASSUME NEW size \in Sizes, StartTurn(size) PROVE TailInv'
  <2>1. Write("user", 0, size) /\ pc' = "boundary" /\ size \in Nat
    BY <1>1, <1>a DEF StartTurn
  <2>2. FirstIsRequest'
    BY <1>0, <2>1, FirstStays
  <2>. QED
    BY <1>b, <2>1, <2>2 DEF TailInv
<1>2. ASSUME pc \in InTurn PROVE Last > 0
  BY <1>0, <1>2, <1>a DEF QuestionShown, Starts
<1>3. ASSUME NEW calls \in 0..MaxCalls, Respond(calls) PROVE TailInv'
  <2>1. Write("assistant", 0, 1) /\ pc' \in {"idle", "dispatch"} /\ Last > 0
    BY <1>2, <1>3 DEF Respond, InTurn
  <2>2. FirstIsRequest'
    BY <1>0, <2>1, FirstStays
  <2>. QED
    BY <1>b, <2>1, <2>2 DEF TailInv
<1>4. ASSUME NEW size \in Sizes, Answer(size) PROVE TailInv'
  <2>1. Write("tool", LastResponse, size) /\ pc' \in {"boundary", "dispatch"} /\ Last > 0
    BY <1>2, <1>4 DEF Answer, InTurn
  <2>2. LastResponse \in Nat
    <3>. DEFINE R == {i \in 1..Last : Role(i) = "assistant"}
    <3>1. R # {} /\ R \in SUBSET (1..Last)
      BY <1>0, <1>4 DEF Answer, Answering, Open
    <3>2. LastResponse \in R
      BY <1>a, <3>1, MaxIn DEF LastResponse
    <3>. QED
      BY <1>a, <3>1, <3>2, Positions
  <2>3. size \in Nat
    BY <1>a
  <2>4. FirstIsRequest'
    BY <1>0, <2>1, <2>2, <2>3, FirstStays
  <2>. QED
    BY <1>b, <2>1, <2>4 DEF TailInv
<1>5. ASSUME NEW n \in 1..2, Pin(n) \/ Unpin(n) PROVE TailInv'
  <2>1. fold = None /\ pc' = "dispatch"
    BY <1>0, <1>5 DEF Pin, Unpin, FoldIsPending
  <2>2. PICK flag \in BOOLEAN :
          /\ SetPinned(LastTurns(n), flag) /\ UNCHANGED <<checkpoint, live, fold>>
          /\ released' = IF flag THEN released ELSE released \cup (LastTurns(n) \cap PinnedBehind)
    BY <1>5 DEF Pin, Unpin
  <2>3. n \in Nat
    OBVIOUS
  <2>4. Last' = Last /\ \A i \in 1..Last : rows'[i].role = rows[i].role
    BY <1>0, <2>1, <2>2, <2>3, PinsKeep
  <2>5. FirstIsRequest'
    BY <1>0, <1>a, <2>4 DEF FirstIsRequest, Role
  <2>. QED
    BY <1>b, <2>1, <2>5 DEF TailInv
<1>6. ASSUME TurnFolds \/ Compact PROVE TailInv'
  <2>1. PICK inTurn \in BOOLEAN, next \in {"folding", "asked"} :
          BeginFold(inTurn, next) /\ (next = "folding" => inTurn)
    BY <1>6 DEF TurnFolds, Compact
  <2>2. TurnFoldKeepsTail'
    BY <1>0, <2>1, FoldKeepsTail
  <2>3. UNCHANGED rows
    BY <2>1 DEF BeginFold
  <2>. QED
    BY <1>c, <2>2, <2>3 DEF TailInv
<1>7. ASSUME \/ NotFolding \/ TurnFoldFails \/ TurnFolded \/ TurnRebuilds \/ TurnEnds
             \/ CompactFails \/ Compacted \/ CompactRebuilds \/ Resume
      PROVE  TailInv'
  <2>1. UNCHANGED rows /\ pc' \notin {"folding", "asked"}
    BY <1>7 DEF NotFolding, TurnFoldFails, TurnFolded, TurnRebuilds, TurnEnds, CompactFails,
                Compacted, CompactRebuilds, Resume, FoldFails, SaveCheckpoint, Rebuild
  <2>. QED
    BY <1>b, <1>c, <2>1 DEF TailInv
<1>8. ASSUME UNCHANGED vars PROVE TailInv'
  <2>1. UNCHANGED <<rows, fold, pc>>
    BY <1>8 DEF vars
  <2>2. ASSUME NEW S PROVE Size(S)' = Size(S)
    BY <2>1 DEF Size, MapThenSumSet, MapThenFoldSet
  <2>3. TurnFoldKeepsTail'
    BY <1>0, <2>1, <2>2 DEF TurnFoldKeepsTail, Role, Last, Starts
  <2>. QED
    BY <1>c, <2>1, <2>3 DEF TailInv
<1>. QED
  BY <1>1, <1>3, <1>4, <1>5, <1>6, <1>7, <1>8 DEF Next, Full

\* A fold that is asked for and cuts at a turn's start leaves keep_recent_tokens
\* of the thread verbatim, and one made inside a turn stays behind that turn's
\* request (compactable_span), whatever the sizes, the settings and the pins.
THEOREM FoldKeepsEnough == Spec => []TurnFoldKeepsTail
<1>1. Init => TailInv
  BY DEF Init, TailInv, FirstIsRequest, TurnFoldKeepsTail, Last
<1>2. IInv /\ TailInv /\ [Next]_vars => TailInv'
  BY TailNext
<1>3. TailInv => TurnFoldKeepsTail
  BY DEF TailInv
<1>. QED
  BY <1>1, <1>2, <1>3, Invariant, PTL DEF Spec
=============================================================================
