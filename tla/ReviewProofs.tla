---------------------------- MODULE ReviewProofs ----------------------------
(***************************************************************************)
(* Proofs about ReviewStage, for any claims, any answers of the reviewer,  *)
(* any limits and whatever the human decides.                              *)
(***************************************************************************)
EXTENDS ReviewStage, SequenceTheorems, WellFoundedInduction, TLAPS

USE LimitsAreNat

----------------------------------------------------------------------------
(* Folds over a sequence, one entry at a time.                              *)

\* Induction over the naturals, said of a set of them.
LEMMA NatSetInduction ==
  ASSUME NEW S, 0 \in S, \A n \in Nat : n \in S => n + 1 \in S
  PROVE  Nat \subseteq S
<1>. DEFINE T == Nat \ S
<1>1. ASSUME T # {} PROVE FALSE
  <2>1. PICK x \in T : \A y \in T : <<y, x>> \notin OpToRel(<, Nat)
    <3>. HIDE DEF T
    <3>. QED BY <1>1, NatLessThanWellFounded, WFMin, T \subseteq Nat DEF T
  <2>2. \A y \in T : ~(y < x)
    BY <2>1 DEF OpToRel
  <2>3. x # 0 /\ x - 1 \in Nat /\ x - 1 \notin T
    BY <2>2
  <2>. QED
    BY <2>3
<1>. QED
  BY <1>1

\* The longest prefix of a prefix is the prefix.
LEMMA MaxOfInterval ==
  ASSUME NEW n \in Nat, n > 0
  PROVE  Max(1..n) = n /\ (1..n) \ {n} = 1..(n - 1) /\ 1..n # {}
<1>1. n \in 1..n /\ \A y \in 1..n : n >= y
  OBVIOUS
<1>2. \A x \in 1..n : (\A y \in 1..n : x >= y) => x = n
  OBVIOUS
<1>3. Max(1..n) \in 1..n /\ \A y \in 1..n : Max(1..n) >= y
  BY <1>1 DEF Max
<1>. QED
  BY <1>1, <1>2, <1>3

\* A set of positions has a last one.
LEMMA MaxIsIn ==
  ASSUME NEW n \in Nat, NEW s \in SUBSET (1..n), s # {}
  PROVE  Max(s) \in s
<1>. DEFINE T == {n - i : i \in s}
<1>0. s \subseteq Int /\ \A i \in s : i <= n
  OBVIOUS
<1>1. T \subseteq Nat /\ T # {}
  <2>1. \A i \in s : n - i \in Nat
    BY <1>0
  <2>. QED
    BY <2>1
<1>2. PICK x \in T : \A y \in T : <<y, x>> \notin OpToRel(<, Nat)
  <2>. HIDE DEF T
  <2>. QED BY <1>1, NatLessThanWellFounded, WFMin
<1>3. \A y \in T : ~(y < x)
  BY <1>1, <1>2 DEF OpToRel
<1>4. n - x \in s /\ \A i \in s : n - x >= i
  BY <1>3
<1>. QED
  BY <1>4 DEF Max

\* What FoldLeft keeps: a value for every set of positions.
IsFold(iter, n, base, step) ==
  iter = [s \in SUBSET (1..n) |->
            IF s = {} THEN base ELSE step[<<Max(s), iter[s \ {Max(s)}]>>]]

\* There is such a table, whatever a step from value to value does.
LEMMA FoldExists ==
  ASSUME NEW N \in Nat, NEW V, NEW base \in V, NEW step \in [(1..N) \X V -> V]
  PROVE  \E iter \in [SUBSET (1..N) -> V] : IsFold(iter, N, base, step)
<1>. DEFINE Has(n) == \E iter \in [SUBSET (1..n) -> V] : IsFold(iter, n, base, step)
            S == {n \in Nat : n <= N => Has(n)}
<1>1. Has(0)
  <2>. DEFINE iter == [s \in SUBSET (1..0) |-> base]
  <2>1. \A s \in SUBSET (1..0) : s = {}
    OBVIOUS
  <2>2. IsFold(iter, 0, base, step)
    BY <2>1 DEF IsFold
  <2>. QED
    BY <2>2
<1>2. ASSUME NEW n \in Nat, n + 1 <= N, Has(n) PROVE Has(n + 1)
  <2>1. PICK f \in [SUBSET (1..n) -> V] : IsFold(f, n, base, step)
    BY <1>2
  <2>. DEFINE g == [s \in SUBSET (1..n + 1) |->
                      IF n + 1 \in s THEN step[<<n + 1, f[s \ {n + 1}]>>] ELSE f[s]]
  <2>2. ASSUME NEW s \in SUBSET (1..n + 1), n + 1 \in s
        PROVE  g[s] = step[<<Max(s), g[s \ {Max(s)}]>>]
    <3>1. \A x \in s : (\A y \in s : x >= y) => x = n + 1
      BY <2>2
    <3>2. \A y \in s : n + 1 >= y
      OBVIOUS
    <3>3. Max(s) = n + 1
      BY <2>2, <3>1, <3>2 DEF Max
    <3>4. s \ {n + 1} \in SUBSET (1..n + 1) /\ n + 1 \notin s \ {n + 1}
      OBVIOUS
    <3>5. g[s \ {n + 1}] = f[s \ {n + 1}]
      BY <3>4
    <3>. QED
      BY <2>2, <3>3, <3>5
  <2>3. ASSUME NEW s \in SUBSET (1..n + 1), n + 1 \notin s
        PROVE  g[s] = IF s = {} THEN base ELSE step[<<Max(s), g[s \ {Max(s)}]>>]
    <3>0. \A i \in 1..n + 1 : i # n + 1 => i \in 1..n
      OBVIOUS
    <3>1. s \in SUBSET (1..n) /\ s \ {Max(s)} \in SUBSET (1..n + 1)
          /\ n + 1 \notin s \ {Max(s)}
      BY <2>3, <3>0, Zenon
    <3>2. g[s] = f[s] /\ g[s \ {Max(s)}] = f[s \ {Max(s)}]
      BY <2>3, <3>1
    <3>3. f[s] = IF s = {} THEN base ELSE step[<<Max(s), f[s \ {Max(s)}]>>]
      BY <2>1, <3>1 DEF IsFold
    <3>. QED
      BY <3>2, <3>3
  <2>4. \A s \in SUBSET (1..n + 1) :
          g[s] = IF s = {} THEN base ELSE step[<<Max(s), g[s \ {Max(s)}]>>]
    <3>. HIDE DEF g
    <3>. QED
      BY <2>2, <2>3
  <2>5. g = [s \in SUBSET (1..n + 1) |-> g[s]]
    OBVIOUS
  <2>6. IsFold(g, n + 1, base, step)
    <3>. HIDE DEF g
    <3>. QED
      BY <2>4, <2>5 DEF IsFold
  <2>7. ASSUME NEW s \in SUBSET (1..n + 1) PROVE g[s] \in V
    <3>1. n + 1 \in 1..N
      BY <1>2
    <3>2. s \ {n + 1} \in SUBSET (1..n)
      BY \A i \in 1..n + 1 : i # n + 1 => i \in 1..n
    <3>3. CASE n + 1 \in s
      BY <3>1, <3>2, <3>3
    <3>4. CASE n + 1 \notin s
      <4>1. s \ {n + 1} = s
        BY <3>4
      <4>. QED
        BY <3>2, <3>4, <4>1
    <3>. QED
      BY <3>3, <3>4
  <2>8. g \in [SUBSET (1..n + 1) -> V]
    <3>. HIDE DEF g
    <3>. QED
      BY <2>5, <2>7
  <2>. QED
    BY <2>6, <2>8
<1>3. Has(N)
  <2>. HIDE DEF Has
  <2>1. 0 \in S /\ \A n \in Nat : n \in S => n + 1 \in S
    BY <1>1, <1>2
  <2>. HIDE DEF S
  <2>2. Nat \subseteq S
    BY <2>1, NatSetInduction
  <2>. QED
    BY <2>2 DEF S
<1>. QED
  BY <1>3

----------------------------------------------------------------------------
(* What the accepted decisions make of the claims.                          *)

Claims == [ClaimIds -> Claim]
Decision == [finding : Finding, decision : {"accept", "reject"}]

\* A correction of the kind to the claim, among the first n decisions.
Corrects(ds, n, c, kind) ==
  {k \in 1..n : /\ ds[k].decision = "accept"
                /\ ds[k].finding.kind = kind /\ ds[k].finding.claim = c}

\* What a claim is after n decisions, in its text and in its tier: what the
\* last correction said, or what it was.
Follows(ds, n, was, is) ==
  \A c \in ClaimIds :
    /\ \/ Corrects(ds, n, c, "text") = {} /\ is[c].text = was[c].text
       \/ \E k \in Corrects(ds, n, c, "text") : is[c].text = ds[k].finding.proposed
    /\ \/ Corrects(ds, n, c, "tier") = {} /\ is[c].tier = was[c].tier
       \/ \E k \in Corrects(ds, n, c, "tier") : is[c].tier = ds[k].finding.proposed

\* A finding is about a claim, or about the report.
LEMMA KindsOfFinding ==
  ASSUME NEW f \in Finding
  PROVE  \/ f.kind = "text" /\ f.claim \in ClaimIds /\ f.proposed \in Texts
         \/ f.kind = "tier" /\ f.claim \in ClaimIds /\ f.proposed \in Tiers
         \/ f.kind = "synthesis" /\ f.claim = "report" /\ f.proposed \in Notes
  BY DEF Finding

\* One decision on the copy.
LEMMA ApplyOneApplies ==
  ASSUME NEW cs \in Claims, NEW d \in Decision
  PROVE  /\ ApplyOne(cs, d) \in Claims
         /\ \A c \in ClaimIds :
              /\ IF d.decision = "accept" /\ d.finding.kind = "text" /\ d.finding.claim = c
                   THEN ApplyOne(cs, d)[c].text = d.finding.proposed
                   ELSE ApplyOne(cs, d)[c].text = cs[c].text
              /\ IF d.decision = "accept" /\ d.finding.kind = "tier" /\ d.finding.claim = c
                   THEN ApplyOne(cs, d)[c].tier = d.finding.proposed
                   ELSE ApplyOne(cs, d)[c].tier = cs[c].tier
              /\ cs[c].note = cs[c].tier => ApplyOne(cs, d)[c].note = ApplyOne(cs, d)[c].tier
<1>. DEFINE f == d.finding
<1>0. f \in Finding /\ d.decision \in {"accept", "reject"}
  BY DEF Decision
<1>1. CASE d.decision # "accept" \/ f.kind = "synthesis"
  <2>1. ApplyOne(cs, d) = cs
    BY <1>1 DEF ApplyOne
  <2>. QED
    BY <1>1, <2>1
<1>2. CASE d.decision = "accept" /\ f.kind = "text"
  <2>1. f.claim \in ClaimIds /\ f.proposed \in Texts
    BY <1>0, <1>2, KindsOfFinding
  <2>2. ApplyOne(cs, d) = [cs EXCEPT ![f.claim].text = f.proposed]
    BY <1>2 DEF ApplyOne
  <2>3. \A c \in ClaimIds : cs[c] \in Claim /\ [cs[c] EXCEPT !.text = f.proposed] \in Claim
    BY <2>1 DEF Claims, Claim
  <2>4. \A c \in ClaimIds :
          ApplyOne(cs, d)[c] = IF c = f.claim THEN [cs[c] EXCEPT !.text = f.proposed] ELSE cs[c]
    BY <2>2 DEF Claims
  <2>5. ApplyOne(cs, d) \in Claims
    BY <2>1, <2>2, <2>3 DEF Claims
  <2>. QED
    BY <1>2, <2>3, <2>4, <2>5 DEF Claim
<1>3. CASE d.decision = "accept" /\ f.kind = "tier"
  <2>1. f.claim \in ClaimIds /\ f.proposed \in Tiers
    BY <1>0, <1>3, KindsOfFinding
  <2>2. ApplyOne(cs, d) = [cs EXCEPT ![f.claim].tier = f.proposed, ![f.claim].note = f.proposed]
    BY <1>3 DEF ApplyOne
  <2>. DEFINE to(cl) == [cl EXCEPT !.tier = f.proposed, !.note = f.proposed]
  <2>3. \A c \in ClaimIds : cs[c] \in Claim /\ to(cs[c]) \in Claim
    BY <2>1 DEF Claims, Claim
  <2>4. \A c \in ClaimIds :
          ApplyOne(cs, d)[c] = IF c = f.claim THEN to(cs[c]) ELSE cs[c]
    BY <2>2 DEF Claims
  <2>5. ApplyOne(cs, d) \in Claims
    BY <2>1, <2>2, <2>3 DEF Claims
  <2>6. \A c \in ClaimIds : /\ to(cs[c]).tier = f.proposed /\ to(cs[c]).note = f.proposed
                            /\ to(cs[c]).text = cs[c].text
    BY <2>3 DEF Claim
  <2>. HIDE DEF to
  <2>. QED
    BY <1>3, <2>4, <2>5, <2>6
<1>. QED
  BY <1>0, <1>1, <1>2, <1>3, KindsOfFinding

\* All of them, in the order they were made.
LEMMA CorrectedFollows ==
  ASSUME NEW cs \in Claims, decisions \in Seq(Decision)
  PROVE  /\ Corrected(cs) \in Claims
         /\ Follows(decisions, Len(decisions), cs, Corrected(cs))
         /\ (\A c \in ClaimIds : cs[c].note = cs[c].tier) =>
              \A c \in ClaimIds : Corrected(cs)[c].note = Corrected(cs)[c].tier
<1>. DEFINE n == Len(decisions)
            Is(iter) == iter = [s \in SUBSET (1..n) |->
                          IF s = {} THEN cs
                          ELSE ApplyOne(iter[s \ {Max(s)}], decisions[Max(s)])]
            table == CHOOSE iter : Is(iter)
<1>1. n \in Nat /\ DOMAIN decisions = 1..n /\ \A k \in 1..n : decisions[k] \in Decision
  OBVIOUS
<1>2. Corrected(cs) = table[1..n]
  BY <1>1, Zenon DEF Corrected, FoldLeft, MapThenFoldSet
<1>3. \E iter : Is(iter)
  <2>. DEFINE step == [p \in (1..n) \X Claims |-> ApplyOne(p[2], decisions[p[1]])]
  <2>1. \A p \in (1..n) \X Claims : ApplyOne(p[2], decisions[p[1]]) \in Claims
    BY <1>1, ApplyOneApplies
  <2>2. step \in [(1..n) \X Claims -> Claims]
    BY <2>1
  <2>. HIDE DEF step, n
  <2>3. PICK iter \in [SUBSET (1..n) -> Claims] : IsFold(iter, n, cs, step)
    BY <1>1, <2>2, FoldExists
  <2>4. ASSUME NEW s \in SUBSET (1..n), s # {}
        PROVE  step[<<Max(s), iter[s \ {Max(s)}]>>]
                 = ApplyOne(iter[s \ {Max(s)}], decisions[Max(s)])
    <3>1. Max(s) \in 1..n
      BY <1>1, <2>4, MaxIsIn
    <3>2. iter[s \ {Max(s)}] \in Claims
      OBVIOUS
    <3>. QED
      BY <3>1, <3>2 DEF step
  <2>5. Is(iter)
    BY <2>3, <2>4 DEF IsFold
  <2>. QED
    BY <2>5
<1>4. Is(table)
  <2>. HIDE DEF Is
  <2>. QED
    BY <1>3
<1>5. \A s \in SUBSET (1..n) :
        table[s] = IF s = {} THEN cs ELSE ApplyOne(table[s \ {Max(s)}], decisions[Max(s)])
  <2>. HIDE DEF table, n
  <2>. QED
    BY <1>4
<1>. HIDE DEF table
<1>. DEFINE P(k) == /\ table[1..k] \in Claims /\ Follows(decisions, k, cs, table[1..k])
                    /\ (\A c \in ClaimIds : cs[c].note = cs[c].tier) =>
                         \A c \in ClaimIds : table[1..k][c].note = table[1..k][c].tier
            S == {k \in Nat : k <= n => P(k)}
<1>6. P(0)
  <2>1. 1..0 = {} /\ {} \in SUBSET (1..n)
    OBVIOUS
  <2>2. table[1..0] = cs
    BY <1>5, <2>1
  <2>. QED
    BY <2>2, <2>1 DEF Follows, Corrects
<1>7. ASSUME NEW k \in Nat, k + 1 <= n, P(k) PROVE P(k + 1)
  <2>. DEFINE was == table[1..k]
              is == table[1..(k + 1)]
              d == decisions[k + 1]
  <2>1. Max(1..(k + 1)) = k + 1 /\ (1..(k + 1)) \ {k + 1} = 1..k /\ 1..(k + 1) # {}
    <3>1. k + 1 \in Nat /\ k + 1 > 0 /\ (k + 1) - 1 = k
      OBVIOUS
    <3>. QED
      BY <3>1, MaxOfInterval
  <2>2. 1..(k + 1) \in SUBSET (1..n) /\ k + 1 \in 1..n
    BY <1>1, <1>7
  <2>3. is = ApplyOne(was, d)
    BY <1>5, <2>1, <2>2
  <2>4. d \in Decision /\ was \in Claims
    BY <1>1, <1>7, <2>2
  <2>5. is \in Claims
    BY <2>3, <2>4, ApplyOneApplies
  <2>6. \A c \in ClaimIds : was[c].note = was[c].tier => is[c].note = is[c].tier
    BY <2>3, <2>4, ApplyOneApplies
  <2>7. \A c \in ClaimIds, kind \in {"text", "tier"} :
          Corrects(decisions, k + 1, c, kind) =
            Corrects(decisions, k, c, kind) \cup
              (IF d.decision = "accept" /\ d.finding.kind = kind /\ d.finding.claim = c
                 THEN {k + 1} ELSE {})
    BY DEF Corrects
  <2>8. ASSUME NEW c \in ClaimIds
        PROVE  /\ \/ Corrects(decisions, k + 1, c, "text") = {} /\ is[c].text = cs[c].text
                  \/ \E j \in Corrects(decisions, k + 1, c, "text") :
                       is[c].text = decisions[j].finding.proposed
               /\ \/ Corrects(decisions, k + 1, c, "tier") = {} /\ is[c].tier = cs[c].tier
                  \/ \E j \in Corrects(decisions, k + 1, c, "tier") :
                       is[c].tier = decisions[j].finding.proposed
    <3>0. is = ApplyOne(was, d) /\ d \in Decision /\ was \in Claims
      BY <2>3, <2>4
    <3>. HIDE DEF was, is, d
    <3>1. /\ IF d.decision = "accept" /\ d.finding.kind = "text" /\ d.finding.claim = c
               THEN is[c].text = d.finding.proposed ELSE is[c].text = was[c].text
          /\ IF d.decision = "accept" /\ d.finding.kind = "tier" /\ d.finding.claim = c
               THEN is[c].tier = d.finding.proposed ELSE is[c].tier = was[c].tier
      BY <3>0, ApplyOneApplies
    <3>2. Follows(decisions, k, cs, was)
      BY <1>7 DEF was
    <3>3. /\ \/ Corrects(decisions, k, c, "text") = {} /\ was[c].text = cs[c].text
             \/ \E j \in Corrects(decisions, k, c, "text") :
                  was[c].text = decisions[j].finding.proposed
          /\ \/ Corrects(decisions, k, c, "tier") = {} /\ was[c].tier = cs[c].tier
             \/ \E j \in Corrects(decisions, k, c, "tier") :
                  was[c].tier = decisions[j].finding.proposed
      BY <3>2 DEF Follows
    <3>4. decisions[k + 1] = d
      BY DEF d
    <3>. QED
      BY <2>7, <3>1, <3>3, <3>4
  <2>9. Follows(decisions, k + 1, cs, is)
    BY <2>8 DEF Follows
  <2>. QED
    BY <1>7, <2>5, <2>6, <2>9
<1>8. P(n)
  <2>. HIDE DEF P, n
  <2>1. 0 \in S /\ \A k \in Nat : k \in S => k + 1 \in S
    BY <1>1, <1>6, <1>7
  <2>. HIDE DEF S
  <2>2. Nat \subseteq S
    BY <2>1, NatSetInduction
  <2>. QED
    BY <1>1, <2>2 DEF S
<1>. QED
  BY <1>2, <1>8

----------------------------------------------------------------------------
(* What is left of the reviewer's answer.                                   *)

Unique(fs) == \A j, k \in DOMAIN fs : Target(fs[j]) = Target(fs[k]) => j = k

\* One more entry is a finding about something new, or is dropped.
LEMMA KeepKeeps ==
  ASSUME NEW out \in Seq(Finding), NEW r
  PROVE  Keep(out, r) \in Seq(Finding) /\ (Unique(out) => Unique(Keep(out, r)))
<1>. DEFINE f == Stripped(r)
<1>1. CASE f \notin Finding \/ \E k \in DOMAIN out : Target(out[k]) = Target(f)
  BY <1>1 DEF Keep
<1>2. CASE f \in Finding /\ \A k \in DOMAIN out : Target(out[k]) # Target(f)
  <2>1. Keep(out, r) = Append(out, f)
    BY <1>2 DEF Keep
  <2>. HIDE DEF f
  <2>2. /\ Append(out, f) \in Seq(Finding) /\ Len(Append(out, f)) = Len(out) + 1
        /\ \A k \in 1..Len(out) : Append(out, f)[k] = out[k]
        /\ Append(out, f)[Len(out) + 1] = f
    BY <1>2, AppendProperties
  <2>3. ASSUME Unique(out), NEW j \in 1..Len(out) + 1, NEW k \in 1..Len(out) + 1,
               Target(Append(out, f)[j]) = Target(Append(out, f)[k])
        PROVE  j = k
    <3>1. Len(out) \in Nat /\ DOMAIN out = 1..Len(out)
      OBVIOUS
    <3>2. j \in 1..Len(out) \/ j = Len(out) + 1
      BY <3>1
    <3>3. k \in 1..Len(out) \/ k = Len(out) + 1
      BY <3>1
    <3>4. CASE j \in 1..Len(out) /\ k \in 1..Len(out)
      BY <2>2, <2>3, <3>1, <3>4 DEF Unique
    <3>5. CASE j \in 1..Len(out) /\ k = Len(out) + 1
      BY <1>2, <2>2, <2>3, <3>1, <3>5
    <3>6. CASE j = Len(out) + 1 /\ k \in 1..Len(out)
      BY <1>2, <2>2, <2>3, <3>1, <3>6
    <3>. QED
      BY <3>2, <3>3, <3>4, <3>5, <3>6
  <2>4. DOMAIN Append(out, f) = 1..Len(out) + 1
    BY <2>2
  <2>. QED
    BY <2>1, <2>2, <2>3, <2>4 DEF Unique
<1>. QED
  BY <1>1, <1>2

\* What is put before a human: findings, no two of them about one thing.
LEMMA ValidatedIsUnique ==
  ASSUME NEW raw, NEW n \in Nat, DOMAIN raw = 1..n
  PROVE  Validated(raw) \in Seq(Finding) /\ Unique(Validated(raw))
<1>. DEFINE Is(iter) == iter = [s \in SUBSET (1..n) |->
                          IF s = {} THEN << >> ELSE Keep(iter[s \ {Max(s)}], raw[Max(s)])]
            table == CHOOSE iter : Is(iter)
<1>2. Validated(raw) = table[1..n]
  BY Zenon DEF Validated, FoldLeft, MapThenFoldSet
<1>3. \E iter : Is(iter)
  <2>. DEFINE step == [p \in (1..n) \X Seq(Finding) |-> Keep(p[2], raw[p[1]])]
  <2>1. \A p \in (1..n) \X Seq(Finding) : Keep(p[2], raw[p[1]]) \in Seq(Finding)
    BY KeepKeeps
  <2>2. step \in [(1..n) \X Seq(Finding) -> Seq(Finding)]
    BY <2>1
  <2>. HIDE DEF step
  <2>3. PICK iter \in [SUBSET (1..n) -> Seq(Finding)] : IsFold(iter, n, << >>, step)
    BY <2>2, FoldExists, EmptySeq
  <2>4. ASSUME NEW s \in SUBSET (1..n), s # {}
        PROVE  step[<<Max(s), iter[s \ {Max(s)}]>>] = Keep(iter[s \ {Max(s)}], raw[Max(s)])
    <3>1. Max(s) \in 1..n
      BY <2>4, MaxIsIn
    <3>2. iter[s \ {Max(s)}] \in Seq(Finding)
      OBVIOUS
    <3>. QED
      BY <3>1, <3>2 DEF step
  <2>5. Is(iter)
    BY <2>3, <2>4 DEF IsFold
  <2>. QED
    BY <2>5
<1>4. Is(table)
  <2>. HIDE DEF Is
  <2>. QED
    BY <1>3
<1>5. \A s \in SUBSET (1..n) :
        table[s] = IF s = {} THEN << >> ELSE Keep(table[s \ {Max(s)}], raw[Max(s)])
  <2>. HIDE DEF table
  <2>. QED
    BY <1>4
<1>. HIDE DEF table
<1>. DEFINE P(k) == table[1..k] \in Seq(Finding) /\ Unique(table[1..k])
            S == {k \in Nat : k <= n => P(k)}
<1>6. P(0)
  <2>1. 1..0 = {} /\ {} \in SUBSET (1..n)
    OBVIOUS
  <2>2. table[1..0] = << >>
    BY <1>5, <2>1
  <2>. QED
    BY <2>2 DEF Unique
<1>7. ASSUME NEW k \in Nat, k + 1 <= n, P(k) PROVE P(k + 1)
  <2>1. Max(1..(k + 1)) = k + 1 /\ (1..(k + 1)) \ {k + 1} = 1..k /\ 1..(k + 1) # {}
    <3>1. k + 1 \in Nat /\ k + 1 > 0 /\ (k + 1) - 1 = k
      OBVIOUS
    <3>. QED
      BY <3>1, MaxOfInterval
  <2>2. 1..(k + 1) \in SUBSET (1..n)
    BY <1>7
  <2>3. table[1..(k + 1)] = Keep(table[1..k], raw[k + 1])
    BY <1>5, <2>1, <2>2
  <2>. QED
    BY <1>7, <2>3, KeepKeeps
<1>8. P(n)
  <2>. HIDE DEF P
  <2>1. 0 \in S /\ \A k \in Nat : k \in S => k + 1 \in S
    BY <1>6, <1>7
  <2>. HIDE DEF S
  <2>2. Nat \subseteq S
    BY <2>1, NatSetInduction
  <2>. QED
    BY <2>2 DEF S
<1>. QED
  BY <1>2, <1>8

----------------------------------------------------------------------------
(* The invariant behind the proofs: its parts, each for one piece of state. *)

Old == [from |-> before, directives |-> {}]
New == [from |-> Corrected(before), directives |-> Directives]

\* The claims and the report, or their copies in the row, as they were.
AsFound(cs, rp) == cs = before /\ rp = Old
\* The same, after the corrections.
AsCorrected(cs, rp) == cs = Corrected(before) /\ rp = New

Accepted(k) == decisions[k].decision = "accept"

\* Each decision is about the finding it was made on, in one of its versions.
Decisions ==
  /\ decisions \in Seq(Decision)
  /\ Len(decisions) <= Len(findings)
  /\ \A k \in DOMAIN decisions : SameTarget(decisions[k].finding, findings[k])

Asking == pc \in {"walk", "refine"} /\ Open =>
            current \in Finding /\ SameTarget(current, findings[Len(decisions) + 1])

\* What is running, and what is in the row, by how far the review has come.
Progress ==
  /\ before \in [ClaimIds -> Claim]
  /\ \A c \in ClaimIds : before[c].note = before[c].tier
  /\ pc = "review" => decisions = << >>
  /\ pc = "refine" => Open
  /\ pc \in {"review", "walk", "refine", "apply"} => AsFound(claims, report)
  /\ pc = "synthesise" => claims = Corrected(before) /\ report = Old
  /\ pc \in {"finish", "failing", "complete", "failed"} =>
       AsFound(claims, report) \/ AsCorrected(claims, report)
  /\ AsFound(record.claims, record.report)
       \/ /\ AsCorrected(record.claims, record.report)
          /\ pc \notin {"review", "walk", "refine", "apply", "synthesise"}
  /\ pc \notin Ended => record.status = "running"
  /\ pc \in {"walk", "refine"} => record.findings = findings

IInv ==
  /\ findings \in Seq(Finding) /\ Unique(findings)
  /\ Decisions /\ Asking
  /\ consented = AcceptedFindings
  /\ Progress

----------------------------------------------------------------------------
(* The invariant is one.                                                    *)

\* What is shown is the beginning of what was found.
LEMMA ShownIsUnique ==
  ASSUME NEW fs \in Seq(Finding), Unique(fs)
  PROVE  Shown(fs) \in Seq(Finding) /\ Unique(Shown(fs))
<1>. DEFINE m == IF Len(fs) < MaxFindings THEN Len(fs) ELSE MaxFindings
<1>1. m \in 0..Len(fs) /\ Shown(fs) = SubSeq(fs, 1, m)
  BY DEF Shown
<1>. HIDE DEF m
<1>2. /\ SubSeq(fs, 1, m) \in Seq(Finding) /\ Len(SubSeq(fs, 1, m)) = m
      /\ \A k \in 1..m : SubSeq(fs, 1, m)[k] = fs[k]
  BY <1>1
<1>3. DOMAIN SubSeq(fs, 1, m) = 1..m /\ \A k \in 1..m : k \in DOMAIN fs
  BY <1>1, <1>2
<1>. QED
  BY <1>1, <1>2, <1>3 DEF Unique

\* The corrections depend on the decisions only.
LEMMA CorrectedStays ==
  ASSUME UNCHANGED <<before, decisions>>
  PROVE  /\ Corrected(before)' = Corrected(before) /\ Directives' = Directives
         /\ AcceptedFindings' = AcceptedFindings /\ Old' = Old /\ New' = New
<1>1. Corrected(before)' = Corrected(before)
  BY DEF Corrected
<1>2. AcceptedFindings' = AcceptedFindings
  BY DEF AcceptedFindings
<1>3. Directives' = Directives
  BY <1>2 DEF Directives
<1>. QED
  BY <1>1, <1>2, <1>3 DEF Old, New

\* One more decision, about the finding whose turn it was.
LEMMA OneMoreDecision ==
  ASSUME IInv, Open, NEW f \in Finding, NEW d \in {"accept", "reject"}, Decided(f, d),
         SameTarget(f, findings[Len(decisions) + 1]), findings' = findings,
         consented' = consented \cup (IF d = "accept" THEN {f} ELSE {})
  PROVE  Decisions' /\ Asking' /\ consented' = AcceptedFindings'
<1>. DEFINE n == Len(decisions)
            e == [finding |-> f, decision |-> d]
<1>1. /\ findings \in Seq(Finding) /\ decisions \in Seq(Decision) /\ e \in Decision
      /\ n \in Nat /\ n + 1 <= Len(findings) /\ decisions' = Append(decisions, e)
  BY DEF IInv, Decisions, Decided, Open, Decision
<1>2. /\ decisions' \in Seq(Decision) /\ Len(decisions') = n + 1
      /\ \A k \in 1..n : decisions'[k] = decisions[k]
      /\ decisions'[n + 1] = e
  BY <1>1
<1>3. DOMAIN decisions' = 1..n + 1 /\ DOMAIN decisions = 1..n
  BY <1>1, <1>2
<1>4. ASSUME NEW k \in 1..n + 1 PROVE SameTarget(decisions'[k].finding, findings[k])
  <2>1. CASE k \in 1..n
    BY <1>2, <1>3, <2>1 DEF IInv, Decisions
  <2>2. CASE k = n + 1
    BY <1>2, <2>2
  <2>. QED
    BY <2>1, <2>2
<1>5. Decisions'
  BY <1>1, <1>2, <1>3, <1>4 DEF Decisions, SameTarget, Decision
<1>6. Asking'
  <2>. SUFFICES ASSUME Open' PROVE current' \in Finding
                                    /\ SameTarget(current', findings[n + 2])
    BY <1>2 DEF Asking, SameTarget
  <2>1. n + 1 < Len(findings) /\ current' = findings[n + 2]
    BY <1>2 DEF Open, Decided
  <2>. QED
    BY <1>1, <2>1 DEF SameTarget
<1>7. consented' = AcceptedFindings'
  <2>1. AcceptedFindings = {decisions[k].finding : k \in {j \in 1..n : decisions[j].decision = "accept"}}
    BY <1>3 DEF AcceptedFindings, ToSet
  <2>2. AcceptedFindings' =
          {decisions'[k].finding : k \in {j \in 1..n + 1 : decisions'[j].decision = "accept"}}
    BY <1>3 DEF AcceptedFindings, ToSet
  <2>3. consented = AcceptedFindings
    BY DEF IInv
  <2>. QED
    BY <1>1, <1>2, <2>1, <2>2, <2>3
<1>. QED
  BY <1>5, <1>6, <1>7

\* Every answer of the reviewer comes down to findings about different things.
LEMMA AnswersAreUnique ==
  ASSUME NEW raw \in RawAnswers
  PROVE  Validated(raw) \in Seq(Finding) /\ Unique(Validated(raw))
<1>1. PICK n \in Nat : DOMAIN raw = 1..n
  BY DEF RawAnswers
<1>. QED
  BY <1>1, ValidatedIsUnique

\* While the findings are walked nothing but the decisions moves.
LEMMA WalkKeeps ==
  ASSUME IInv, pc \in {"walk", "refine"}, pc' \in {"walk", "refine"}, pc' = "refine" => Open',
         UNCHANGED <<before, claims, report, findings, record>>
  PROVE  findings' \in Seq(Finding) /\ Unique(findings)' /\ Progress'
<1>1. Old' = Old
  BY DEF Old
<1>. QED
  BY <1>1 DEF IInv, Progress, AsFound, AsCorrected, Unique, Target, Ended

\* After the walk the decisions stay.
LEMMA LaterKeeps ==
  ASSUME IInv, pc' \notin {"walk", "refine"},
         UNCHANGED <<before, findings, decisions, consented>>
  PROVE  /\ findings' \in Seq(Finding) /\ Unique(findings)' /\ Decisions' /\ Asking'
         /\ consented' = AcceptedFindings'
<1>1. AcceptedFindings' = AcceptedFindings
  BY CorrectedStays
<1>. QED
  BY <1>1 DEF IInv, Decisions, Asking, Unique, Target, SameTarget

LEMMA InitEstablishes == Init => IInv
<1>. SUFFICES ASSUME Init PROVE IInv
  OBVIOUS
<1>1. findings = << >> /\ decisions = << >> /\ << >> \in Seq(Finding) /\ << >> \in Seq(Decision)
  BY EmptySeq DEF Init
<1>2. Unique(findings) /\ Decisions
  BY <1>1 DEF Unique, Decisions
<1>3. AcceptedFindings = {}
  BY <1>1 DEF AcceptedFindings, ToSet
<1>4. Progress /\ Asking
  BY <1>1 DEF Init, Progress, Asking, AsFound, Old, Ended
<1>. QED
  BY <1>1, <1>2, <1>3, <1>4 DEF Init, IInv

LEMMA ReviewKeeps == ASSUME IInv, Review PROVE IInv'
<1>1. PICK raw \in RawAnswers : findings' = Shown(Validated(raw))
  BY DEF Review
<1>2. findings' \in Seq(Finding) /\ Unique(findings)'
  BY <1>1, AnswersAreUnique, ShownIsUnique DEF Unique, Target
<1>3. decisions' = << >> /\ decisions = << >> /\ pc = "review" /\ pc' \in {"walk", "failing"}
  BY DEF Review, IInv, Progress, Checkpoint
<1>4. Decisions'
  BY <1>2, <1>3, EmptySeq DEF Decisions
<1>5. Asking'
  <2>. SUFFICES ASSUME Len(findings') > 0
                PROVE  current' \in Finding /\ SameTarget(current', findings'[1])
    BY <1>3 DEF Asking, Open, SameTarget
  <2>1. current' = findings'[1] /\ findings'[1] \in Finding
    BY <1>2 DEF Review
  <2>. QED
    BY <2>1 DEF SameTarget
<1>6. consented' = AcceptedFindings'
  BY <1>3, CorrectedStays DEF IInv, Review
<1>7. Progress'
  <2>1. UNCHANGED <<before, claims, report, decisions>> /\ Old' = Old
    BY DEF Review, Old
  <2>2. /\ AsFound(claims, report) /\ AsFound(record.claims, record.report)
        /\ record.status = "running"
    BY <1>3 DEF IInv, Progress, Ended
  <2>3. AsFound(claims, report)' /\ AsFound(record.claims, record.report)'
        /\ record'.status = "running" /\ (pc' = "walk" => record'.findings = findings')
    <3>1. CASE record' = Row("running")
      BY <2>1, <2>2, <3>1 DEF AsFound, Row
    <3>2. CASE pc' = "failing" /\ record' = record
      BY <2>1, <2>2, <3>2 DEF AsFound
    <3>. QED
      BY <3>1, <3>2 DEF Review, Checkpoint
  <2>. QED
    BY <1>3, <2>1, <2>3 DEF IInv, Progress, Ended
<1>. QED
  BY <1>2, <1>4, <1>5, <1>6, <1>7 DEF IInv

LEMMA AnswerKeeps ==
  ASSUME IInv, NoRoute \/ Accept \/ Reject \/ NoMoreRounds
  PROVE  IInv'
<1>1. PICK d \in {"accept", "reject"} :
        /\ pc = "walk" /\ pc' = pc /\ Open /\ Decided(current, d)
        /\ consented' = consented \cup (IF d = "accept" THEN {current} ELSE {})
        /\ UNCHANGED <<before, claims, report, findings, record>>
  <2>1. CASE Accept
    BY <2>1 DEF Accept
  <2>2. CASE NoRoute \/ Reject \/ NoMoreRounds
    BY <2>2 DEF NoRoute, Reject, NoMoreRounds
  <2>. QED
    BY <2>1, <2>2
<1>2. current \in Finding /\ SameTarget(current, findings[Len(decisions) + 1])
  BY <1>1 DEF IInv, Asking
<1>3. Decisions' /\ Asking' /\ consented' = AcceptedFindings'
  BY <1>1, <1>2, OneMoreDecision
<1>. QED
  BY <1>1, <1>3, WalkKeeps DEF IInv

LEMMA RejectAllKeeps == ASSUME IInv, RejectAll PROVE IInv'
<1>. DEFINE n == Len(decisions)
            m == Len(findings) - Len(decisions)
            rest == [k \in 1..m |->
                       [finding |-> IF k = 1 THEN current ELSE findings[n + k],
                        decision |-> "reject"]]
<1>1. /\ pc = "walk" /\ pc' = pc /\ Open /\ decisions' = decisions \o rest
      /\ UNCHANGED <<before, claims, report, findings, consented, record>>
  BY DEF RejectAll
<1>2. /\ findings \in Seq(Finding) /\ decisions \in Seq(Decision)
      /\ n \in Nat /\ m \in Nat /\ m > 0 /\ n + m = Len(findings)
  BY <1>1 DEF IInv, Decisions, Open
<1>3. current \in Finding /\ SameTarget(current, findings[n + 1])
  BY <1>1 DEF IInv, Asking
<1>4. ASSUME NEW k \in 1..m
      PROVE  /\ rest[k] \in Decision /\ rest[k].decision = "reject"
             /\ SameTarget(rest[k].finding, findings[n + k])
  <2>1. n + k \in 1..Len(findings) /\ findings[n + k] \in Finding
    BY <1>2
  <2>. QED
    BY <1>3, <2>1 DEF Decision, SameTarget
<1>5. rest \in Seq(Decision) /\ Len(rest) = m
  <2>1. \A k \in 1..m : rest[k] \in Decision
    BY <1>4
  <2>2. DOMAIN rest = 1..m /\ rest = [k \in 1..m |-> rest[k]]
    OBVIOUS
  <2>. HIDE DEF rest, m
  <2>3. rest \in [1..m -> Decision]
    BY <2>1, <2>2
  <2>. QED
    BY <1>2, <2>3
<1>. HIDE DEF rest, m
<1>6. /\ decisions' \in Seq(Decision) /\ Len(decisions') = n + m
      /\ \A k \in 1..n : decisions'[k] = decisions[k]
      /\ \A k \in n + 1..n + m : decisions'[k] = rest[k - n]
  <2>1. /\ decisions \o rest \in Seq(Decision) /\ Len(decisions \o rest) = n + m
        /\ \A k \in 1..n + m : (decisions \o rest)[k] = IF k <= n THEN decisions[k] ELSE rest[k - n]
    BY <1>2, <1>5
  <2>2. \A k \in n + 1..n + m : k \in 1..n + m /\ ~(k <= n)
    BY <1>2
  <2>3. \A k \in 1..n : k \in 1..n + m /\ k <= n
    BY <1>2
  <2>. QED
    BY <1>1, <2>1, <2>2, <2>3
<1>7. DOMAIN decisions' = 1..n + m /\ DOMAIN decisions = 1..n
  BY <1>2, <1>6
<1>8. ASSUME NEW k \in n + 1..n + m
      PROVE  /\ decisions'[k].decision = "reject"
             /\ SameTarget(decisions'[k].finding, findings[k])
  <2>1. k - n \in 1..m /\ n + (k - n) = k
    BY <1>2
  <2>. QED
    BY <1>4, <1>6, <2>1
<1>9. Decisions'
  <2>1. ASSUME NEW k \in 1..n + m PROVE SameTarget(decisions'[k].finding, findings[k])
    <3>1. k \in 1..n \/ k \in n + 1..n + m
      BY <1>2
    <3>2. CASE k \in 1..n
      BY <1>6, <1>7, <3>2 DEF IInv, Decisions
    <3>. QED
      BY <1>8, <3>1, <3>2
  <2>. QED
    BY <1>1, <1>2, <1>6, <1>7, <2>1 DEF Decisions, SameTarget
<1>10. Asking' /\ ~Open'
  BY <1>1, <1>2, <1>6 DEF Asking, Open
<1>11. consented' = AcceptedFindings'
  <2>1. AcceptedFindings = {decisions[k].finding : k \in {j \in 1..n : decisions[j].decision = "accept"}}
    BY <1>7 DEF AcceptedFindings, ToSet
  <2>2. AcceptedFindings' =
          {decisions'[k].finding : k \in {j \in 1..n + m : decisions'[j].decision = "accept"}}
    BY <1>7 DEF AcceptedFindings, ToSet
  <2>3. {j \in 1..n + m : decisions'[j].decision = "accept"}
          = {j \in 1..n : decisions[j].decision = "accept"}
    <3>1. \A j \in 1..n + m : j \in 1..n \/ j \in n + 1..n + m
      BY <1>2
    <3>2. \A j \in 1..n : j \in 1..n + m
      BY <1>2
    <3>. QED
      BY <1>6, <1>8, <3>1, <3>2
  <2>4. consented = AcceptedFindings
    BY DEF IInv
  <2>. QED
    BY <1>1, <1>6, <2>1, <2>2, <2>3, <2>4
<1>. QED
  BY <1>1, <1>9, <1>10, <1>11, WalkKeeps DEF IInv

LEMMA SendBackKeeps == ASSUME IInv, SendBack PROVE IInv'
<1>1. /\ pc = "walk" /\ pc' = "refine" /\ Open
      /\ UNCHANGED <<before, claims, report, findings, record, current, decisions, consented>>
  BY DEF SendBack
<1>2. AcceptedFindings' = AcceptedFindings
  BY <1>1, CorrectedStays
<1>3. Decisions' /\ Asking' /\ Open'
  BY <1>1 DEF IInv, Decisions, Asking, Open, SameTarget
<1>. QED
  BY <1>1, <1>2, <1>3, WalkKeeps DEF IInv

LEMMA RefinedKeeps == ASSUME IInv, Refined PROVE IInv'
<1>1. /\ pc = "refine" /\ pc' = "walk" /\ Open
      /\ UNCHANGED <<before, claims, report, findings, record, consented>>
      /\ current \in Finding /\ SameTarget(current, findings[Len(decisions) + 1])
  BY DEF Refined, IInv, Progress, Asking
<1>2. PICK raw \in RawAnswers :
        IF Validated(raw) # << >> /\ SameTarget(Head(Validated(raw)), current)
          THEN current' = Head(Validated(raw)) /\ UNCHANGED decisions
          ELSE Decided(current, "reject")
  BY DEF Refined
<1>3. CASE Validated(raw) # << >> /\ SameTarget(Head(Validated(raw)), current)
  <2>1. current' \in Finding /\ SameTarget(current', current) /\ UNCHANGED decisions
    BY <1>2, <1>3, AnswersAreUnique
  <2>2. AcceptedFindings' = AcceptedFindings
    BY <1>1, <2>1, CorrectedStays
  <2>3. Decisions' /\ Asking'
    BY <1>1, <2>1 DEF IInv, Decisions, Asking, Open, SameTarget
  <2>. QED
    BY <1>1, <2>2, <2>3, WalkKeeps DEF IInv
<1>4. CASE Decided(current, "reject")
  BY <1>1, <1>4, OneMoreDecision, WalkKeeps DEF IInv
<1>. QED
  BY <1>2, <1>3, <1>4

\* A row is written from what is running, or stays.
LEMMA CheckpointKeeps ==
  ASSUME IInv, pc \notin Ended, NEW st,
         pc' = "apply" => pc = "walk",
         UNCHANGED <<before, findings, decisions, consented>>,
         pc' \in {"apply", "finish", "failing", "complete", "failed"},
         \/ AsFound(claims', report')
         \/ AsCorrected(claims', report') /\ pc' # "apply",
         pc' \notin Ended => st = "running",
         record' = Row(st) \/ UNCHANGED record
  PROVE  IInv'
<1>1. /\ Corrected(before)' = Corrected(before) /\ New' = New /\ Old' = Old
  BY CorrectedStays
<1>2. \/ AsFound(claims, report)'
      \/ AsCorrected(claims, report)' /\ pc' # "apply"
  BY <1>1 DEF AsFound, AsCorrected
<1>3. /\ \/ AsFound(record.claims, record.report)'
         \/ AsCorrected(record.claims, record.report)' /\ pc' # "apply"
      /\ pc' \notin Ended => record'.status = "running"
  <2>1. CASE record' = Row(st)
    BY <1>2, <2>1 DEF Row, AsFound, AsCorrected
  <2>2. CASE UNCHANGED record
    BY <1>1, <2>2 DEF IInv, Progress, AsFound, AsCorrected
  <2>. QED
    BY <2>1, <2>2
<1>4. Progress'
  BY <1>2, <1>3 DEF IInv, Progress
<1>. QED
  BY <1>4, LaterKeeps DEF IInv

LEMMA ApplyKeeps == ASSUME IInv, Apply PROVE IInv'
<1>1. /\ pc = "apply" /\ pc' = "synthesise" /\ claims' = Corrected(claims) /\ claims = before
      /\ report = Old /\ AsFound(record.claims, record.report) /\ record.status = "running"
      /\ UNCHANGED <<before, report, findings, decisions, consented, record>>
  BY DEF Apply, IInv, Progress, AsFound, AsCorrected, Ended
<1>2. Corrected(before)' = Corrected(before) /\ Old' = Old
  BY <1>1, CorrectedStays
<1>3. AsFound(record.claims, record.report)'
  BY <1>1, <1>2 DEF AsFound
<1>4. Progress'
  BY <1>1, <1>2, <1>3 DEF IInv, Progress, Ended
<1>. QED
  BY <1>1, <1>4, LaterKeeps DEF IInv

LEMMA KilledKeeps == ASSUME IInv, Killed PROVE IInv'
<1>1. /\ pc' = "abandoned"
      /\ UNCHANGED <<before, claims, report, findings, decisions, consented, record>>
  BY DEF Killed
<1>2. Corrected(before)' = Corrected(before) /\ Old' = Old /\ New' = New
  BY <1>1, CorrectedStays
<1>3. Progress'
  BY <1>1, <1>2 DEF IInv, Progress, AsFound, AsCorrected, Ended
<1>. QED
  BY <1>1, <1>3, LaterKeeps DEF IInv

LEMMA StutterKeeps == ASSUME IInv, UNCHANGED vars PROVE IInv'
<1>1. UNCHANGED <<pc, before, claims, report, findings, current, decisions, consented, record>>
  BY DEF vars
<1>2. /\ Corrected(before)' = Corrected(before) /\ Old' = Old /\ New' = New
      /\ AcceptedFindings' = AcceptedFindings
  BY <1>1, CorrectedStays
<1>3. Progress'
  BY <1>1, <1>2 DEF IInv, Progress, AsFound, AsCorrected, Open
<1>4. Decisions' /\ Asking' /\ Unique(findings)'
  BY <1>1 DEF IInv, Decisions, Asking, Open, SameTarget, Unique, Target
<1>. QED
  BY <1>1, <1>2, <1>3, <1>4 DEF IInv

LEMMA StepKeeps == IInv /\ [Next]_vars => IInv'
<1>. SUFFICES ASSUME IInv, [Next]_vars PROVE IInv'
  OBVIOUS
<1>1. ASSUME Decide PROVE IInv'
  <2>1. /\ pc = "walk" /\ pc' \in {"apply", "failing"} /\ pc' # "refine"
        /\ UNCHANGED <<before, claims, report, findings, decisions, consented>>
        /\ record' = Row("running") \/ UNCHANGED record
    BY <1>1 DEF Decide, Checkpoint
  <2>2. AsFound(claims', report')
    BY <2>1 DEF IInv, Progress, AsFound
  <2>. QED
    BY <2>1, <2>2, CheckpointKeeps DEF Ended
<1>2. ASSUME Nothing PROVE IInv'
  <2>1. /\ pc = "apply" /\ pc' \in {"finish", "failing"}
        /\ UNCHANGED <<before, claims, report, findings, decisions, consented>>
        /\ record' = Row("running") \/ UNCHANGED record
    BY <1>2 DEF Nothing, Checkpoint
  <2>2. AsFound(claims', report')
    BY <2>1 DEF IInv, Progress, AsFound
  <2>. QED
    BY <2>1, <2>2, CheckpointKeeps DEF Ended
<1>3. ASSUME Synthesised PROVE IInv'
  <2>1. /\ pc = "synthesise" /\ pc' \in {"finish", "failing"}
        /\ report' = [from |-> claims, directives |-> Directives]
        /\ UNCHANGED <<before, claims, findings, decisions, consented>>
        /\ record' = Row("running") \/ UNCHANGED record
    BY <1>3 DEF Synthesised, Checkpoint
  <2>2. AsCorrected(claims', report')
    BY <2>1 DEF IInv, Progress, AsCorrected, New
  <2>. QED
    BY <2>1, <2>2, CheckpointKeeps DEF Ended
<1>4. ASSUME SynthesisFails PROVE IInv'
  <2>1. /\ pc = "synthesise" /\ pc' \in {"finish", "failing"} /\ claims' = before
        /\ UNCHANGED <<before, report, findings, decisions, consented>>
        /\ record' = Row("running") \/ UNCHANGED record
    BY <1>4 DEF SynthesisFails, Checkpoint
  <2>2. AsFound(claims', report')
    BY <2>1 DEF IInv, Progress, AsFound
  <2>. QED
    BY <2>1, <2>2, CheckpointKeeps DEF Ended
<1>5. ASSUME Finish PROVE IInv'
  <2>1. PICK st \in {"running", "complete"} :
          /\ pc = "finish" /\ pc' \in {"complete", "failing"}
          /\ pc' \notin Ended => st = "running"
          /\ UNCHANGED <<before, claims, report, findings, decisions, consented>>
          /\ record' = Row(st) \/ UNCHANGED record
    BY <1>5 DEF Finish, Ended
  <2>2. AsFound(claims', report') \/ AsCorrected(claims', report')
    BY <2>1 DEF IInv, Progress, AsFound, AsCorrected
  <2>. QED
    BY <2>1, <2>2, CheckpointKeeps DEF Ended
<1>6. ASSUME Fail PROVE IInv'
  <2>1. /\ pc = "failing" /\ pc' = "failed"
        /\ UNCHANGED <<before, claims, report, findings, decisions, consented>>
        /\ record' = Row("failed") \/ UNCHANGED record
    BY <1>6 DEF Fail
  <2>2. AsFound(claims', report') \/ AsCorrected(claims', report')
    BY <2>1 DEF IInv, Progress, AsFound, AsCorrected
  <2>. QED
    BY <2>1, <2>2, CheckpointKeeps DEF Ended
<1>. QED
  BY <1>1, <1>2, <1>3, <1>4, <1>5, <1>6, ReviewKeeps, AnswerKeeps, SendBackKeeps, RefinedKeeps,
     ApplyKeeps, KilledKeeps, StutterKeeps, RejectAllKeeps
     DEF Next, Code, Human

\* The invariant in every state, for the theorems below.
LEMMA Invariant == Spec => []IInv
<1>. QED
  BY InitEstablishes, StepKeeps, PTL DEF Spec

----------------------------------------------------------------------------
(* What the human agreed to.                                                *)

\* What the corrections are, read from what was accepted: nothing that was not,
\* and all that was.
LEMMA CorrectedIsAccepted ==
  ASSUME IInv
  PROVE  /\ \A c \in ClaimIds :
              /\ Corrected(before)[c].text # before[c].text =>
                   [kind |-> "text", claim |-> c, proposed |-> Corrected(before)[c].text]
                     \in consented
              /\ Corrected(before)[c].tier # before[c].tier =>
                   [kind |-> "tier", claim |-> c, proposed |-> Corrected(before)[c].tier]
                     \in consented
              /\ Corrected(before)[c].note = Corrected(before)[c].tier
         /\ \A d \in Directives :
              [kind |-> "synthesis", claim |-> "report", proposed |-> d] \in consented
         /\ \A f \in consented :
              /\ f \in Finding
              /\ f.kind = "text" => Corrected(before)[f.claim].text = f.proposed
              /\ f.kind = "tier" => Corrected(before)[f.claim].tier = f.proposed
              /\ f.kind = "synthesis" => f.proposed \in Directives
<1>. DEFINE n == Len(decisions)
            is == Corrected(before)
<1>1. /\ before \in Claims /\ \A c \in ClaimIds : before[c].note = before[c].tier
      /\ decisions \in Seq(Decision) /\ findings \in Seq(Finding) /\ Unique(findings)
      /\ n \in Nat /\ DOMAIN decisions = 1..n /\ n <= Len(findings)
      /\ \A k \in 1..n : decisions[k] \in Decision /\ SameTarget(decisions[k].finding, findings[k])
  BY DEF IInv, Progress, Decisions, Claims
<1>2. Follows(decisions, n, before, is) /\ \A c \in ClaimIds : is[c].note = is[c].tier
  BY <1>1, CorrectedFollows
<1>3. consented = {decisions[k].finding : k \in {j \in 1..n : decisions[j].decision = "accept"}}
  BY <1>1 DEF IInv, AcceptedFindings, ToSet
<1>. HIDE DEF n, is
<1>4. ASSUME NEW kind \in {"text", "tier"}, NEW c, NEW j \in Corrects(decisions, n, c, kind)
      PROVE  [kind |-> kind, claim |-> c, proposed |-> decisions[j].finding.proposed]
               \in consented
  <2>1. /\ j \in 1..n /\ decisions[j].decision = "accept" /\ decisions[j].finding.kind = kind
        /\ decisions[j].finding.claim = c /\ decisions[j].finding \in Finding
    BY <1>1, <1>4 DEF Corrects, Decision
  <2>2. decisions[j].finding
          = [kind |-> kind, claim |-> c, proposed |-> decisions[j].finding.proposed]
    BY <2>1 DEF Finding
  <2>. QED
    BY <1>3, <2>1, <2>2
<1>5. ASSUME NEW kind \in {"text", "tier"}, NEW c, NEW j \in Corrects(decisions, n, c, kind),
             NEW k \in Corrects(decisions, n, c, kind)
      PROVE  j = k
  <2>1. j \in 1..n /\ k \in 1..n /\ j \in DOMAIN findings /\ k \in DOMAIN findings
    BY <1>1, <1>5 DEF Corrects
  <2>2. /\ findings[j].kind = kind /\ findings[j].claim = c
        /\ findings[k].kind = kind /\ findings[k].claim = c
    BY <1>1, <1>5, <2>1 DEF Corrects, SameTarget
  <2>3. Target(findings[j]) = Target(findings[k])
    BY <2>2 DEF Target
  <2>. QED
    BY <1>1, <2>1, <2>3 DEF Unique
<1>6. ASSUME NEW c \in ClaimIds
      PROVE  /\ is[c].text # before[c].text =>
                  [kind |-> "text", claim |-> c, proposed |-> is[c].text] \in consented
             /\ is[c].tier # before[c].tier =>
                  [kind |-> "tier", claim |-> c, proposed |-> is[c].tier] \in consented
  BY <1>2, <1>4 DEF Follows
<1>7. ASSUME NEW d \in Directives
      PROVE  [kind |-> "synthesis", claim |-> "report", proposed |-> d] \in consented
  <2>1. PICK f \in AcceptedFindings : f.kind = "synthesis" /\ d = f.proposed
    BY <1>7 DEF Directives
  <2>2. f \in consented /\ f \in Finding
    BY <1>1, <1>3, <2>1 DEF IInv, Decision
  <2>3. f = [kind |-> "synthesis", claim |-> "report", proposed |-> d]
    BY <2>1, <2>2 DEF Finding
  <2>. QED
    BY <2>2, <2>3
<1>8. ASSUME NEW f \in consented
      PROVE  /\ f \in Finding
             /\ f.kind = "text" => is[f.claim].text = f.proposed
             /\ f.kind = "tier" => is[f.claim].tier = f.proposed
             /\ f.kind = "synthesis" => f.proposed \in Directives
  <2>1. PICK k \in 1..n : decisions[k].decision = "accept" /\ f = decisions[k].finding
    BY <1>3
  <2>2. f \in Finding
    BY <1>1, <2>1 DEF Decision
  <2>3. CASE f.kind = "text"
    <3>1. f.claim \in ClaimIds /\ k \in Corrects(decisions, n, f.claim, "text")
      BY <2>1, <2>2, <2>3, KindsOfFinding DEF Corrects
    <3>. QED
      BY <1>2, <1>5, <2>1, <2>2, <2>3, <3>1 DEF Follows
  <2>4. CASE f.kind = "tier"
    <3>1. f.claim \in ClaimIds /\ k \in Corrects(decisions, n, f.claim, "tier")
      BY <2>1, <2>2, <2>4, KindsOfFinding DEF Corrects
    <3>. QED
      BY <1>2, <1>5, <2>1, <2>2, <2>4, <3>1 DEF Follows
  <2>5. CASE f.kind = "synthesis"
    <3>1. f \in AcceptedFindings
      BY DEF IInv
    <3>. QED
      BY <2>2, <2>5, <3>1 DEF Directives
  <2>. QED
    BY <2>2, <2>3, <2>4, <2>5, KindsOfFinding
<1>. QED
  BY <1>2, <1>6, <1>7, <1>8 DEF is

\* What a run publishes after its review is what the human agreed to, however
\* often findings went back and wherever the run was left: no claim, tier or
\* report is changed but as an accepted finding says, none that was accepted is
\* lost to another (_decide_one, apply_deferred, _review_stage).
THEOREM ConsentIsRespected == Spec => []ConsentIsKept
<1>1. IInv => ConsentIsKept
  <2>. SUFFICES ASSUME IInv PROVE ConsentIsKept
    OBVIOUS
  <2>0. /\ \/ record.claims = before /\ record.report = [from |-> before, directives |-> {}]
           \/ /\ record.claims = Corrected(before)
              /\ record.report = [from |-> Corrected(before), directives |-> Directives]
        /\ \A c \in ClaimIds : before[c].note = before[c].tier
    BY DEF IInv, Progress, AsFound, AsCorrected, Old, New
  <2>1. NothingUnconsented /\ TagSaysTier
    <3>1. CASE record.claims = before /\ record.report.directives = {}
      BY <2>0, <3>1 DEF NothingUnconsented, TagSaysTier
    <3>2. CASE record.claims = Corrected(before) /\ record.report.directives = Directives
      BY <3>2, CorrectedIsAccepted DEF NothingUnconsented, TagSaysTier
    <3>. QED
      BY <2>0, <3>1, <3>2
  <2>2. AcceptedIsApplied
    <3>. SUFFICES ASSUME record.report # [from |-> before, directives |-> {}], NEW f \in consented
                  PROVE  CASE f.kind = "text" -> record.claims[f.claim].text = f.proposed
                           [] f.kind = "tier" -> record.claims[f.claim].tier = f.proposed
                           [] OTHER -> f.proposed \in record.report.directives
      BY DEF AcceptedIsApplied
    <3>1. /\ record.claims = Corrected(before) /\ record.report.directives = Directives
      BY <2>0
    <3>2. /\ f \in Finding
          /\ f.kind = "text" => record.claims[f.claim].text = f.proposed
          /\ f.kind = "tier" => record.claims[f.claim].tier = f.proposed
          /\ f.kind = "synthesis" => f.proposed \in record.report.directives
      BY <3>1, CorrectedIsAccepted
    <3>3. f.kind \in {"text", "tier", "synthesis"}
      BY <3>2, KindsOfFinding
    <3>. QED
      BY <3>2, <3>3
  <2>. QED
    BY <2>1, <2>2 DEF ConsentIsKept
<1>. QED
  BY <1>1, Invariant, PTL

----------------------------------------------------------------------------
(* The row.                                                                 *)

\* The corrections are claims again.
LEMMA CorrectedIsClaims == ASSUME IInv PROVE before \in Claims /\ Corrected(before) \in Claims
  BY CorrectedFollows DEF IInv, Progress, Decisions, Claims

\* The row of a reviewed run keeps the contract of the row of a run
\* (PipelineRunRecord): its report was written from the claims beside it, a
\* finished one has a report, nothing moves once it ended; and what the reviewer
\* found is in it before anybody is asked (_review_stage's checkpoints).
THEOREM ReviewKeepsTheRecord == Spec => RowIsRecord
<1>1. Init => Archive!Agrees
  BY DEF Init, Archive!Agrees
<1>. DEFINE Matches == record.report.from = record.claims /\ record.report.from # NoReport
<1>2. IInv => Matches
  <2>. SUFFICES ASSUME IInv PROVE Matches
    OBVIOUS
  <2>1. record.report.from \in {before, Corrected(before)} /\ record.report.from = record.claims
    BY DEF IInv, Progress, AsFound, AsCorrected, Old, New
  <2>. QED
    BY <2>1, CorrectedIsClaims, NoReportIsNone DEF Claims
<1>3. IInv' => Matches'
  BY <1>2, PTL
<1>4. IInv /\ IInv' /\ [Next]_vars => [Archive!Snapshot]_(Archive!recordVars)
  <2>. SUFFICES ASSUME IInv, IInv', [Next]_vars, record' # record
                PROVE  Archive!Snapshot
    BY DEF Archive!recordVars
  <2>1. pc \notin Ended /\ record'.status \in {"running", "complete", "failed"}
    <3>1. CASE Review \/ Decide \/ Nothing \/ Synthesised \/ SynthesisFails
      BY <3>1 DEF Review, Decide, Nothing, Synthesised, SynthesisFails, Checkpoint, Row, Ended
    <3>2. CASE Finish \/ Fail
      BY <3>2 DEF Finish, Fail, Row, Ended
    <3>3. CASE NoRoute \/ Refined \/ Apply \/ Human \/ Killed \/ UNCHANGED vars
      BY <3>3 DEF NoRoute, Refined, Apply, Human, Accept, Reject, RejectAll, SendBack,
                  NoMoreRounds, Killed, vars
    <3>. QED
      BY <3>1, <3>2, <3>3 DEF Next, Code
  <2>2. record.status = "running"
    BY <2>1 DEF IInv, Progress
  <2>3. record'.report.from = record'.claims /\ record'.report.from # NoReport
    BY <1>3
  <2>. QED
    BY <2>1, <2>2, <2>3 DEF Archive!Snapshot, Archive!Statuses
<1>5. IInv => FindingsSurvive
  BY DEF IInv, Progress, FindingsSurvive
<1>. QED
  BY <1>1, <1>4, <1>5, Invariant, PTL DEF Spec, RowIsRecord
=============================================================================
