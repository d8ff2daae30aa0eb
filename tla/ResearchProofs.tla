--------------------------- MODULE ResearchProofs ---------------------------
(***************************************************************************)
(* Proofs about ResearchPipeline and the formula it scores claims with,    *)
(* for any set of claims, any ensemble, any retry limits and whatever the  *)
(* passes may answer.                                                      *)
(***************************************************************************)
EXTENDS ResearchPipeline, TLAPS

USE SizesAreNat, ReportsAreTyped

----------------------------------------------------------------------------
(* The formula.                                                            *)

\* Every claim gets one of the four tiers.
LEMMA TierIsTier == ASSUME NEW e PROVE Tier(e) \in Tiers
  BY DEF Tier, TierFor, Tiers

\* A claim that was never grounded is worth less than HIGH, whatever the critic
\* says: the cap holds, and the critic's part alone is too small.
LEMMA NeverGroundedIsNotHigh ==
  ASSUME NEW e \in Evidence, e.status = "none"
  PROVE  Tier(e) # "HIGH"
<1>1. e.severity \in 0..100 /\ e.flags \in Nat
  BY DEF Evidence, Percent
<1>2. CriticComponent(e) \in Int /\ AssumptionPenalty(e) >= 0 /\ AssumptionPenalty(e) \in Int
  BY <1>1 DEF CriticComponent, AssumptionPenalty
<1>3. Capped(CriticComponent(e)) <= 6500 /\ Capped(CriticComponent(e)) \in Int
  BY <1>2 DEF Capped, NonFactualScoreCap
<1>4. QualityMultiplier(e.quality) \in Int
  BY DEF Evidence, Percent, QualityMultiplier, SourceQualityFloor
<1>5. (GroundingWeight(e.status) * QualityMultiplier(e.quality)) \div 2 = 0
  BY <1>4 DEF GroundingWeight
<1>6. RawScore(e) <= 6500 /\ RawScore(e) \in Int
  <2>1. CASE e.factual
    BY <1>1, <1>2, <1>5, <2>1 DEF RawScore, Clamp
  <2>2. CASE ~e.factual
    BY <1>2, <1>3, <2>2 DEF RawScore, Clamp
  <2>. QED
    BY <2>1, <2>2
<1>. QED
  BY <1>6 DEF Tier, TierFor

\* What a claim is scored on.
LEMMA EvidenceIsTyped ==
  ASSUME NEW cl \in Claim
  PROVE  EvidenceOf(cl) \in Evidence
  BY DEF Claim, Evidence, EvidenceOf

----------------------------------------------------------------------------
(* What a pass does to the claims.                                         *)

\* A pass's answer is about claims of its batch only.
LEMMA AnswersAreAbout ==
  ASSUME NEW batch, NEW values, NEW a \in Answers(batch, values)
  PROVE  DOMAIN a \subseteq batch /\ \A c \in DOMAIN a : a[c] \in values
  BY DEF Answers

\* What a pass that reports on claims leaves of one: all but its evidence.
SameButEvidence(cl, dl) ==
  /\ dl.factual = cl.factual /\ dl.contested = cl.contested /\ dl.tier = cl.tier
  /\ dl.retries = cl.retries /\ dl.revision = cl.revision
  /\ dl.final = cl.final /\ dl.note = cl.note /\ dl.basis = cl.basis

\* Grounding touches the statuses and qualities of its batch.
LEMMA GroundedKeeps ==
  ASSUME NEW D, NEW cs \in [D -> Claim], NEW batch \in SUBSET D,
         NEW statuses \in Answers(batch, Verdicts), NEW quality \in Scores(cs, batch, statuses),
         NEW ds, ds = Grounded(cs, batch, statuses, quality)
  PROVE  /\ ds \in [D -> Claim]
         /\ \A c \in D : SameButEvidence(cs[c], ds[c])
         /\ \A c \in D \ batch : ds[c] = cs[c]
<1>1. DOMAIN statuses \subseteq batch /\ \A c \in DOMAIN statuses : statuses[c] \in Statuses
  BY AnswersAreAbout DEF Statuses
<1>2. DOMAIN ds = D /\ ds = [c \in D |-> ds[c]]
  BY DEF Grounded
<1>3. \A c \in D \ batch : ds[c] = cs[c]
  BY DEF Grounded
<1>4. ASSUME NEW c \in batch
      PROVE  ds[c] \in Claim /\ SameButEvidence(cs[c], ds[c])
  <2>. DEFINE s == Verdict(cs, statuses, c)
              q == IF c \in DOMAIN quality THEN quality[c] ELSE 0
  <2>0. c \in D /\ DOMAIN cs = D /\ cs[c] \in Claim
    OBVIOUS
  <2>1. s \in Statuses
    BY <1>1, <2>0 DEF Verdict, Claim
  <2>2. q \in Percent
    <3>1. \A d \in DOMAIN quality : quality[d] \in Qualities
      BY DEF Scores
    <3>2. 0 \in Percent /\ Qualities \subseteq Percent
      BY DEF Percent
    <3>. QED
      BY <3>1, <3>2
  <2>3. ds[c] = [cs[c] EXCEPT !.status = s, !.quality = q]
    BY <2>0 DEF Grounded
  <2>. HIDE DEF s, q
  <2>. QED
    BY <2>0, <2>1, <2>2, <2>3 DEF Claim, SameButEvidence
<1>5. \A c \in D : ds[c] \in Claim /\ SameButEvidence(cs[c], ds[c])
  BY <1>3, <1>4 DEF SameButEvidence
<1>. QED
  BY <1>2, <1>3, <1>5

\* The critic touches the severities of the claims it names.
LEMMA CritiquedKeeps ==
  ASSUME NEW D, NEW cs \in [D -> Claim], NEW batch \in SUBSET D,
         NEW severities \in Answers(batch, Severities),
         NEW ds, ds = Critiqued(cs, severities)
  PROVE  /\ ds \in [D -> Claim]
         /\ \A c \in D : SameButEvidence(cs[c], ds[c])
         /\ \A c \in D \ batch : ds[c] = cs[c]
<1>1. DOMAIN severities \subseteq batch /\ \A c \in DOMAIN severities : severities[c] \in Percent
  BY AnswersAreAbout
<1>2. DOMAIN ds = D /\ ds = [c \in D |-> ds[c]]
  BY DEF Critiqued
<1>3. ASSUME NEW c \in D
      PROVE  /\ ds[c] \in Claim /\ SameButEvidence(cs[c], ds[c])
             /\ c \notin batch => ds[c] = cs[c]
  <2>. DEFINE v == IF c \in DOMAIN severities THEN severities[c] ELSE cs[c].severity
  <2>1. cs[c] \in Claim /\ v \in Percent
    BY <1>1 DEF Claim
  <2>2. ds[c] = [cs[c] EXCEPT !.severity = v]
    BY DEF Critiqued
  <2>3. c \notin batch => v = cs[c].severity
    BY <1>1
  <2>. HIDE DEF v
  <2>4. ds[c] \in Claim /\ SameButEvidence(cs[c], ds[c])
    BY <2>1, <2>2 DEF Claim, SameButEvidence
  <2>5. [cs[c] EXCEPT !.severity = cs[c].severity] = cs[c]
    BY <2>1 DEF Claim
  <2>. QED
    BY <2>2, <2>3, <2>4, <2>5
<1>. QED
  BY <1>2, <1>3

\* A claim that was scored is a claim.
LEMMA ScoredIsClaim ==
  ASSUME NEW x \in Claim, NEW t \in Tiers \cup {NoTier}
  PROVE  [x EXCEPT !.tier = t] \in Claim
  BY DEF Claim

\* Scoring gives a claim of its batch the tier of its evidence, and touches
\* nothing else.
LEMMA RetieredScores ==
  ASSUME NEW D, NEW cs \in [D -> Claim], NEW batch,
         NEW ds, ds = Retiered(cs, batch)
  PROVE  /\ ds \in [D -> Claim]
         /\ \A c \in D : /\ ds[c].retries = cs[c].retries /\ ds[c].revision = cs[c].revision
                         /\ ds[c].final = cs[c].final /\ ds[c].note = cs[c].note
                         /\ ds[c].basis = cs[c].basis
         /\ \A c \in D \cap batch : ds[c].tier = Tier(EvidenceOf(ds[c])) /\ ds[c].tier \in Tiers
         /\ \A c \in D \ batch : ds[c] = cs[c]
<1>1. DOMAIN ds = D /\ ds = [c \in D |-> ds[c]]
  BY DEF Retiered
<1>2. ASSUME NEW c \in D
      PROVE  /\ ds[c] \in Claim
             /\ ds[c].retries = cs[c].retries /\ ds[c].revision = cs[c].revision
             /\ ds[c].final = cs[c].final /\ ds[c].note = cs[c].note
             /\ ds[c].basis = cs[c].basis
             /\ c \in batch => ds[c].tier = Tier(EvidenceOf(ds[c])) /\ ds[c].tier \in Tiers
             /\ c \notin batch => ds[c] = cs[c]
  <2>. DEFINE t == IF c \in batch THEN Tier(EvidenceOf(cs[c])) ELSE cs[c].tier
  <2>1. cs[c] \in Claim /\ t \in Tiers \cup {NoTier}
    BY TierIsTier DEF Claim
  <2>2. ds[c] = [cs[c] EXCEPT !.tier = t]
    BY DEF Retiered
  <2>3. (c \in batch => t = Tier(EvidenceOf(cs[c])) /\ t \in Tiers) /\ (c \notin batch => t = cs[c].tier)
    BY TierIsTier
  <2>. HIDE DEF t
  <2>4. EvidenceOf(ds[c]) = EvidenceOf(cs[c])
    BY <2>1, <2>2 DEF Claim, EvidenceOf
  <2>5a. ds[c] \in Claim
    <3>1. [cs[c] EXCEPT !.tier = t] \in Claim
      BY ONLY <2>1, ScoredIsClaim
    <3>. QED
      BY ONLY <2>2, <3>1, Zenon
  <2>5. /\ ds[c].tier = t /\ ds[c].basis = cs[c].basis
        /\ ds[c].retries = cs[c].retries /\ ds[c].revision = cs[c].revision
        /\ ds[c].final = cs[c].final /\ ds[c].note = cs[c].note
    BY <2>1, <2>2 DEF Claim
  <2>6. [cs[c] EXCEPT !.tier = cs[c].tier] = cs[c]
    BY <2>1 DEF Claim
  <2>7. c \notin batch => ds[c] = cs[c]
    BY <2>2, <2>3, <2>6
  <2>. QED
    BY <2>3, <2>4, <2>5, <2>5a, <2>7
<1>. QED
  BY <1>1, <1>2

\* A claim in a round is a claim.
LEMMA RewrittenIsClaim ==
  ASSUME NEW x \in Claim, NEW i \in Nat, NEW j \in Nat,
         NEW k \in {"text", "older", "left out"}
  PROVE  [x EXCEPT !.retries = i, !.revision = j, !.basis = k] \in Claim
  BY DEF Claim

\* A round of revisions touches the counters and texts of the flagged claims.
LEMMA RevisedKeeps ==
  ASSUME NEW D, NEW cs \in [D -> Claim], NEW batch, NEW named,
         NEW ds, ds = Revised(cs, batch, named)
  PROVE  /\ ds \in [D -> Claim]
         /\ \A c \in D : /\ ds[c].tier = cs[c].tier /\ EvidenceOf(ds[c]) = EvidenceOf(cs[c])
                         /\ ds[c].retries >= cs[c].retries
                         /\ ds[c].final = cs[c].final /\ ds[c].note = cs[c].note
         /\ \A c \in D \ batch : ds[c] = cs[c]
<1>1. DOMAIN ds = D /\ ds = [c \in D |-> ds[c]]
  BY DEF Revised
<1>2. ASSUME NEW c \in D
      PROVE  /\ ds[c] \in Claim
             /\ ds[c].tier = cs[c].tier /\ EvidenceOf(ds[c]) = EvidenceOf(cs[c])
             /\ ds[c].retries >= cs[c].retries
             /\ ds[c].final = cs[c].final /\ ds[c].note = cs[c].note
             /\ c \notin batch => ds[c] = cs[c]
  <2>. DEFINE n == cs[c].retries + (IF c \in batch THEN 1 ELSE 0)
              r == IF c \in batch \cap named THEN n ELSE cs[c].revision
              b == IF c \in batch \cap named THEN "older" ELSE cs[c].basis
  <2>0. cs[c] \in Claim
    OBVIOUS
  <2>0c. cs[c].retries \in Nat /\ cs[c].revision \in Nat
    BY <2>0 DEF Claim
  <2>0a. n \in Nat /\ r \in Nat /\ n >= cs[c].retries
    BY <2>0c
  <2>0b. b \in {"text", "older", "left out"}
    BY <2>0 DEF Claim
  <2>1. /\ cs[c] \in Claim /\ n \in Nat /\ r \in Nat /\ n >= cs[c].retries
        /\ b \in {"text", "older", "left out"}
    BY <2>0, <2>0a, <2>0b
  <2>2. ds[c] = [cs[c] EXCEPT !.retries = n, !.revision = r, !.basis = b]
    BY DEF Revised
  <2>3. c \notin batch => n = cs[c].retries /\ r = cs[c].revision /\ b = cs[c].basis
    BY <2>0c
  <2>. HIDE DEF n, r, b
  <2>4. EvidenceOf(ds[c]) = EvidenceOf(cs[c])
    BY <2>1, <2>2, ZenonT(60) DEF Claim, EvidenceOf
  <2>5. ds[c] \in Claim
    <3>1. [cs[c] EXCEPT !.retries = n, !.revision = r, !.basis = b] \in Claim
      BY ONLY <2>1, RewrittenIsClaim
    <3>. QED
      BY ONLY <2>2, <3>1, Zenon
  <2>6. /\ ds[c].retries = n
        /\ ds[c].tier = cs[c].tier /\ ds[c].final = cs[c].final /\ ds[c].note = cs[c].note
    BY <2>1, <2>2 DEF Claim
  <2>7. [cs[c] EXCEPT !.retries = cs[c].retries, !.revision = cs[c].revision,
                      !.basis = cs[c].basis] = cs[c]
    BY <2>1 DEF Claim
  <2>8. c \notin batch => ds[c] = cs[c]
    BY <2>2, <2>3, <2>7
  <2>. QED
    BY <2>1, <2>4, <2>5, <2>6, <2>8
<1>. QED
  BY <1>1, <1>2

\* A re-validation notes what the verdicts of its batch are about, and touches
\* nothing else.
LEMMA RereadKeeps ==
  ASSUME NEW D, NEW cs \in [D -> Claim], NEW batch, NEW both \in SUBSET batch,
         NEW ds, ds = Reread(cs, batch, both)
  PROVE  /\ ds \in [D -> Claim]
         /\ \A c \in D : /\ ds[c].tier = cs[c].tier /\ EvidenceOf(ds[c]) = EvidenceOf(cs[c])
                         /\ ds[c].final = cs[c].final /\ ds[c].note = cs[c].note
         /\ \A c \in D \cap batch : ds[c].basis # "older"
         /\ \A c \in D \ batch : ds[c] = cs[c]
<1>1. DOMAIN ds = D /\ ds = [c \in D |-> ds[c]]
  BY DEF Reread
<1>2. ASSUME NEW c \in D
      PROVE  /\ ds[c] \in Claim
             /\ ds[c].tier = cs[c].tier /\ EvidenceOf(ds[c]) = EvidenceOf(cs[c])
             /\ ds[c].final = cs[c].final /\ ds[c].note = cs[c].note
             /\ c \in batch => ds[c].basis # "older"
             /\ c \notin batch => ds[c] = cs[c]
  <2>. DEFINE b == IF c \in both THEN "text"
                   ELSE IF c \in batch /\ cs[c].basis = "older" THEN "left out" ELSE cs[c].basis
  <2>1. /\ cs[c] \in Claim /\ b \in {"text", "older", "left out"}
        /\ c \in batch => b # "older"
        /\ c \notin batch => b = cs[c].basis
    BY DEF Claim
  <2>2. ds[c] = [cs[c] EXCEPT !.basis = b]
    BY DEF Reread
  <2>. HIDE DEF b
  <2>3. EvidenceOf(ds[c]) = EvidenceOf(cs[c])
    BY <2>1, <2>2 DEF Claim, EvidenceOf
  <2>4. /\ ds[c] \in Claim /\ ds[c].basis = b /\ ds[c].tier = cs[c].tier
        /\ ds[c].final = cs[c].final /\ ds[c].note = cs[c].note
    BY <2>1, <2>2 DEF Claim
  <2>5. [cs[c] EXCEPT !.basis = cs[c].basis] = cs[c]
    BY <2>1 DEF Claim
  <2>6. c \notin batch => ds[c] = cs[c]
    BY <2>1, <2>2, <2>5
  <2>. QED
    BY <2>1, <2>3, <2>4, <2>6
<1>. QED
  BY <1>1, <1>2

\* A re-validation scores the whole of its batch again, asks about its text, and
\* leaves every other claim as it is.
LEMMA RevalidatedKeeps ==
  ASSUME NEW D, NEW cs \in [D -> Claim], NEW batch \in SUBSET D,
         NEW statuses \in Answers(batch, Verdicts), NEW quality \in Scores(cs, batch, statuses),
         NEW severities \in Answers(batch, Severities),
         NEW ds, ds = Revalidated(cs, batch, statuses, quality, severities)
  PROVE  /\ ds \in [D -> Claim]
         /\ \A c \in D : ds[c].final = cs[c].final /\ ds[c].note = cs[c].note
         /\ \A c \in batch : /\ ds[c].tier = Tier(EvidenceOf(ds[c])) /\ ds[c].tier \in Tiers
                             /\ ds[c].basis # "older"
         /\ \A c \in D \ batch : ds[c] = cs[c]
<1>. DEFINE gs == Grounded(cs, batch, statuses, quality)
            es == Critiqued(gs, severities)
            rs == Retiered(es, batch)
<1>0. ds = Reread(rs, batch, DOMAIN statuses \cap DOMAIN severities)
  BY DEF Revalidated
<1>1. /\ gs \in [D -> Claim]
      /\ \A c \in D : SameButEvidence(cs[c], gs[c])
      /\ \A c \in D \ batch : gs[c] = cs[c]
  BY GroundedKeeps
<1>. HIDE DEF gs
<1>2. /\ es \in [D -> Claim]
      /\ \A c \in D : SameButEvidence(gs[c], es[c])
      /\ \A c \in D \ batch : es[c] = gs[c]
  BY <1>1, CritiquedKeeps
<1>. HIDE DEF es
<1>3. /\ rs \in [D -> Claim]
      /\ \A c \in D : rs[c].final = es[c].final /\ rs[c].note = es[c].note
      /\ \A c \in D \cap batch : rs[c].tier = Tier(EvidenceOf(rs[c])) /\ rs[c].tier \in Tiers
      /\ \A c \in D \ batch : rs[c] = es[c]
  BY <1>2, RetieredScores
<1>. HIDE DEF rs
<1>4. DOMAIN statuses \cap DOMAIN severities \in SUBSET batch
  BY AnswersAreAbout
<1>5. /\ ds \in [D -> Claim]
      /\ \A c \in D : /\ ds[c].tier = rs[c].tier /\ EvidenceOf(ds[c]) = EvidenceOf(rs[c])
                      /\ ds[c].final = rs[c].final /\ ds[c].note = rs[c].note
      /\ \A c \in D \cap batch : ds[c].basis # "older"
      /\ \A c \in D \ batch : ds[c] = rs[c]
  BY <1>0, <1>3, <1>4, RereadKeeps
<1>6. ASSUME NEW c \in D
      PROVE  /\ ds[c].final = cs[c].final /\ ds[c].note = cs[c].note
             /\ c \notin batch => ds[c] = cs[c]
  BY <1>1, <1>2, <1>3, <1>5 DEF SameButEvidence
<1>7. ASSUME NEW c \in batch
      PROVE  ds[c].tier = Tier(EvidenceOf(ds[c])) /\ ds[c].tier \in Tiers
  BY <1>3, <1>5
<1>. QED
  BY <1>5, <1>6, <1>7

----------------------------------------------------------------------------
(* What holds of the claims between two stages.                            *)

\* What is said of one claim agrees with what is known about it.
SoundClaim(cl) ==
  /\ cl.tier # NoTier => \/ cl.tier = Tier(EvidenceOf(cl))
                         \/ /\ cl.final # NoText /\ cl.tier = "UNVERIFIED"
                            /\ cl.retries >= MaxRetries
  /\ cl.final # NoText => /\ cl.tier # NoTier
                          /\ cl.note = cl.tier /\ cl.final = cl.revision
  /\ cl.final = NoText => cl.note = NoNote

ClaimsOK == /\ Extracted \subseteq ClaimIds /\ claims \in [Extracted -> Claim]
            /\ \A c \in Extracted : SoundClaim(claims[c])

NoneScored == \A c \in Extracted : claims[c].tier = NoTier /\ claims[c].final = NoText
AllScored == \A c \in Extracted : claims[c].tier # NoTier
AllOpen == \A c \in Extracted : claims[c].final = NoText
AllFinished == \A c \in Extracted : Finished(c)
AllRead == \A c \in Extracted : claims[c].basis # "older"
OthersRead == \A c \in Extracted \ flagged : claims[c].basis # "older"
FlaggedOpen == flagged \subseteq Extracted /\ \A c \in flagged : claims[c].final = NoText

\* Pass 2 creates claims nobody has judged.
LEMMA ExtractMeans == Extract => ClaimsOK' /\ NoneScored' /\ AllRead'
<1>. SUFFICES ASSUME Extract PROVE ClaimsOK' /\ NoneScored' /\ AllRead'
  OBVIOUS
<1>0. PICK S \in SUBSET ClaimIds :
        \E factual \in [S -> BOOLEAN], asserted \in [S -> 0..Compared] :
          claims' = [c \in S |-> Fresh(factual[c], Contested(factual[c], asserted[c], Compared))]
  BY DEF Extract
<1>1. PICK factual \in [S -> BOOLEAN], asserted \in [S -> 0..Compared] :
        claims' = [c \in S |-> Fresh(factual[c], Contested(factual[c], asserted[c], Compared))]
  BY <1>0
<1>2. ASSUME NEW f \in BOOLEAN, NEW g \in BOOLEAN
      PROVE  /\ Fresh(f, g) \in Claim /\ SoundClaim(Fresh(f, g))
             /\ Fresh(f, g).tier = NoTier /\ Fresh(f, g).final = NoText
             /\ Fresh(f, g).basis = "text"
  BY DEF Fresh, Claim, SoundClaim, Statuses, Percent, NoText, NoNote
<1>3. ASSUME NEW c \in S
      PROVE  factual[c] \in BOOLEAN /\ Contested(factual[c], asserted[c], Compared) \in BOOLEAN
  BY DEF Contested
<1>4. DOMAIN claims' = S
  BY <1>1
<1>5. \A c \in S : /\ claims'[c] \in Claim /\ SoundClaim(claims'[c])
                   /\ claims'[c].tier = NoTier /\ claims'[c].final = NoText
                   /\ claims'[c].basis = "text"
  BY <1>1, <1>2, <1>3
<1>6. claims' \in [S -> Claim]
  BY <1>1, <1>4, <1>5
<1>. QED
  BY <1>4, <1>5, <1>6 DEF ClaimsOK, NoneScored, AllRead, Extracted

\* Before the claims are scored, new evidence about them contradicts nothing.
LEMMA EvidenceBeforeScore ==
  ASSUME ClaimsOK, NoneScored, claims' \in [Extracted -> Claim],
         \A c \in Extracted : SameButEvidence(claims[c], claims'[c])
  PROVE  ClaimsOK' /\ NoneScored' /\ (AllRead => AllRead')
<1>1. DOMAIN claims' = Extracted
  OBVIOUS
<1>2. ASSUME NEW c \in Extracted
      PROVE  /\ SoundClaim(claims'[c]) /\ claims'[c].tier = NoTier /\ claims'[c].final = NoText
             /\ claims'[c].basis = claims[c].basis
  BY DEF ClaimsOK, NoneScored, SoundClaim, SameButEvidence
<1>. QED
  BY <1>1, <1>2 DEF ClaimsOK, NoneScored, AllRead, Extracted

\* Passes 3a, 3b and 4.
LEMMA ReportsMean ==
  ClaimsOK /\ NoneScored /\ (Ground \/ Critique \/ Audit) =>
    ClaimsOK' /\ NoneScored' /\ (AllRead => AllRead')
<1>. SUFFICES ASSUME ClaimsOK, NoneScored, Ground \/ Critique \/ Audit
              PROVE  ClaimsOK' /\ NoneScored' /\ (AllRead => AllRead')
  OBVIOUS
<1>0. claims \in [Extracted -> Claim] /\ FactualClaims \in SUBSET Extracted
  BY DEF ClaimsOK, FactualClaims
<1>1. CASE Ground
  <2>1. PICK statuses \in Answers(FactualClaims, Verdicts) :
          \E quality \in Scores(claims, FactualClaims, statuses) :
            claims' = Grounded(claims, FactualClaims, statuses, quality)
    BY <1>1 DEF Ground
  <2>1a. PICK quality \in Scores(claims, FactualClaims, statuses) :
          claims' = Grounded(claims, FactualClaims, statuses, quality)
    BY <2>1
  <2>2. /\ claims' \in [Extracted -> Claim]
        /\ \A c \in Extracted : SameButEvidence(claims[c], claims'[c])
    BY <1>0, <2>1a, GroundedKeeps
  <2>. QED
    BY <2>2, EvidenceBeforeScore
<1>2. CASE Critique
  <2>1. PICK severities \in Answers(FactualClaims, Severities) :
          claims' = Critiqued(claims, severities)
    BY <1>2 DEF Critique
  <2>2. /\ claims' \in [Extracted -> Claim]
        /\ \A c \in Extracted : SameButEvidence(claims[c], claims'[c])
    BY <1>0, <2>1, CritiquedKeeps
  <2>. QED
    BY <2>2, EvidenceBeforeScore
<1>3. CASE Audit
  <2>1. PICK flags \in [Extracted -> FlagCounts] :
          claims' = [c \in Extracted |-> [claims[c] EXCEPT !.flags = flags[c]]]
    BY <1>3 DEF Audit
  <2>2. ASSUME NEW c \in Extracted
        PROVE  claims'[c] \in Claim /\ SameButEvidence(claims[c], claims'[c])
    <3>1. claims[c] \in Claim /\ flags[c] \in Nat
      BY <1>0
    <3>2. claims'[c] = [claims[c] EXCEPT !.flags = flags[c]]
      BY <2>1
    <3>. QED
      BY <3>1, <3>2 DEF Claim, SameButEvidence
  <2>3. claims' \in [Extracted -> Claim]
    BY <2>1, <2>2
  <2>. QED
    BY <2>2, <2>3, EvidenceBeforeScore
<1>. QED
  BY <1>1, <1>2, <1>3

\* Pass 5 scores every claim.
LEMMA ScoreMeans ==
  ClaimsOK /\ NoneScored /\ Score => ClaimsOK' /\ AllScored' /\ AllOpen' /\ (AllRead => AllRead')
<1>. SUFFICES ASSUME ClaimsOK, NoneScored, Score
              PROVE  ClaimsOK' /\ AllScored' /\ AllOpen' /\ (AllRead => AllRead')
  OBVIOUS
<1>1. claims \in [Extracted -> Claim] /\ claims' = Retiered(claims, Extracted)
  BY DEF ClaimsOK, Score
<1>2. /\ claims' \in [Extracted -> Claim]
      /\ \A c \in Extracted : /\ claims'[c].final = claims[c].final
                              /\ claims'[c].note = claims[c].note
                              /\ claims'[c].basis = claims[c].basis
                              /\ claims'[c].tier = Tier(EvidenceOf(claims'[c]))
                              /\ claims'[c].tier \in Tiers
  BY <1>1, RetieredScores
<1>3. ASSUME NEW c \in Extracted
      PROVE  SoundClaim(claims'[c]) /\ claims'[c].tier # NoTier /\ claims'[c].final = NoText
  BY <1>2 DEF ClaimsOK, NoneScored, SoundClaim, Tiers, NoTier
<1>4. DOMAIN claims' = Extracted
  BY <1>2
<1>. QED
  BY <1>2, <1>3, <1>4 DEF ClaimsOK, AllScored, AllOpen, AllRead, Extracted

\* Pass 6a changes claims that have no final text yet.
LEMMA ReviseMeans ==
  ClaimsOK /\ AllScored /\ FlaggedOpen /\ Revise =>
    ClaimsOK' /\ AllScored' /\ FlaggedOpen' /\ (AllRead => OthersRead')
<1>. SUFFICES ASSUME ClaimsOK, AllScored, FlaggedOpen, Revise
              PROVE  ClaimsOK' /\ AllScored' /\ FlaggedOpen' /\ (AllRead => OthersRead')
  OBVIOUS
<1>1. claims \in [Extracted -> Claim] /\ flagged' = flagged
  BY DEF ClaimsOK, Revise
<1>2. PICK named \in SUBSET Extracted : claims' = Revised(claims, flagged, named)
  BY DEF Revise
<1>3. /\ claims' \in [Extracted -> Claim]
      /\ \A c \in Extracted : /\ claims'[c].tier = claims[c].tier
                              /\ EvidenceOf(claims'[c]) = EvidenceOf(claims[c])
                              /\ claims'[c].retries >= claims[c].retries
                              /\ claims'[c].final = claims[c].final
                              /\ claims'[c].note = claims[c].note
      /\ \A c \in Extracted \ flagged : claims'[c] = claims[c]
  BY <1>1, <1>2, RevisedKeeps
<1>4. ASSUME NEW c \in Extracted PROVE SoundClaim(claims'[c]) /\ claims'[c].tier # NoTier
  BY <1>3 DEF ClaimsOK, AllScored, FlaggedOpen, SoundClaim
<1>5. DOMAIN claims' = Extracted
  BY <1>3
<1>. QED
  BY <1>1, <1>3, <1>4, <1>5
     DEF ClaimsOK, AllScored, FlaggedOpen, AllRead, OthersRead, Extracted

\* Pass 6b judges the flagged claims again, on what is then known about them.
LEMMA RevalidateMeans ==
  ClaimsOK /\ AllScored /\ FlaggedOpen /\ Revalidate =>
    ClaimsOK' /\ AllScored' /\ FlaggedOpen' /\ (OthersRead => AllRead')
<1>. SUFFICES ASSUME ClaimsOK, AllScored, FlaggedOpen, Revalidate
              PROVE  ClaimsOK' /\ AllScored' /\ FlaggedOpen' /\ (OthersRead => AllRead')
  OBVIOUS
<1>1. claims \in [Extracted -> Claim] /\ flagged \in SUBSET Extracted
  BY DEF ClaimsOK, FlaggedOpen
<1>2. PICK statuses \in Answers(flagged, Verdicts), severities \in Answers(flagged, Severities) :
        \E quality \in Scores(claims, flagged, statuses) :
          claims' = Revalidated(claims, flagged, statuses, quality, severities)
  BY DEF Revalidate
<1>3. PICK quality \in Scores(claims, flagged, statuses) :
        claims' = Revalidated(claims, flagged, statuses, quality, severities)
  BY <1>2
<1>4. /\ claims' \in [Extracted -> Claim]
      /\ \A c \in Extracted : claims'[c].final = claims[c].final /\ claims'[c].note = claims[c].note
      /\ \A c \in flagged : /\ claims'[c].tier = Tier(EvidenceOf(claims'[c]))
                            /\ claims'[c].tier \in Tiers
                            /\ claims'[c].basis # "older"
      /\ \A c \in Extracted \ flagged : claims'[c] = claims[c]
  BY <1>1, <1>3, RevalidatedKeeps
<1>5. ASSUME NEW c \in Extracted PROVE SoundClaim(claims'[c]) /\ claims'[c].tier # NoTier
  <2>1. CASE c \in flagged
    <3>1. claims'[c].final = NoText /\ claims'[c].note = NoNote
      BY <1>4, <2>1 DEF FlaggedOpen, ClaimsOK, SoundClaim
    <3>2. claims'[c].tier # NoTier
      BY <1>4, <2>1 DEF Tiers, NoTier
    <3>. QED
      BY <1>4, <2>1, <3>1, <3>2 DEF SoundClaim
  <2>2. CASE c \notin flagged
    BY <1>4, <2>2 DEF ClaimsOK, AllScored
  <2>. QED
    BY <2>1, <2>2
<1>6. DOMAIN claims' = Extracted
  BY <1>4
<1>7. flagged' \subseteq flagged
  BY DEF Revalidate, StillFlagged
<1>8. OthersRead => AllRead'
  BY <1>4, <1>6 DEF OthersRead, AllRead, Extracted
<1>. QED
  BY <1>4, <1>5, <1>6, <1>7, <1>8 DEF ClaimsOK, AllScored, FlaggedOpen, Extracted

\* The fallback finishes one claim, the others stay as they are.
LEMMA FallBackMeans ==
  ClaimsOK /\ AllScored /\ FlaggedOpen /\ FallBack =>
    ClaimsOK' /\ AllScored' /\ FlaggedOpen' /\ (AllRead => AllRead')
<1>. SUFFICES ASSUME ClaimsOK, AllScored, FlaggedOpen, FallBack
              PROVE  ClaimsOK' /\ AllScored' /\ FlaggedOpen' /\ (AllRead => AllRead')
  OBVIOUS
<1>1. claims \in [Extracted -> Claim] /\ flagged \subseteq Extracted
  BY DEF ClaimsOK, FlaggedOpen
<1>2. PICK d \in Exhausted :
        /\ claims' = [claims EXCEPT ![d].tier = "UNVERIFIED", ![d].note = "UNVERIFIED",
                                    ![d].final = claims[d].revision]
        /\ flagged' = flagged \ {d}
  BY DEF FallBack
<1>3. d \in Extracted /\ claims[d] \in Claim /\ claims[d].retries >= MaxRetries
  BY <1>1, <1>2 DEF Exhausted
<1>4. /\ DOMAIN claims' = Extracted
      /\ claims'[d] = [claims[d] EXCEPT !.tier = "UNVERIFIED", !.note = "UNVERIFIED",
                                        !.final = claims[d].revision]
      /\ \A c \in Extracted \ {d} : claims'[c] = claims[c]
      /\ claims' = [c \in Extracted |-> claims'[c]]
  BY <1>1, <1>2, <1>3
<1>5. /\ claims'[d] \in Claim /\ SoundClaim(claims'[d])
      /\ claims'[d].tier # NoTier /\ claims'[d].basis = claims[d].basis
  <2>0. claims[d].revision \in Nat /\ "UNVERIFIED" \in Tiers
    BY <1>3 DEF Claim, Tiers
  <2>1. claims'[d] \in Claim
    BY <1>3, <1>4, <2>0 DEF Claim
  <2>2. /\ claims'[d].tier = "UNVERIFIED" /\ claims'[d].note = "UNVERIFIED"
        /\ claims'[d].final = claims[d].revision /\ claims'[d].revision = claims[d].revision
        /\ claims'[d].retries = claims[d].retries /\ claims'[d].basis = claims[d].basis
    BY <1>3, <1>4 DEF Claim
  <2>. QED
    BY <1>3, <2>0, <2>1, <2>2 DEF SoundClaim, NoTier, NoText
<1>6. claims' \in [Extracted -> Claim]
  BY <1>1, <1>4, <1>5
<1>. QED
  BY <1>1, <1>2, <1>4, <1>5, <1>6 DEF ClaimsOK, AllScored, FlaggedOpen, AllRead, Extracted

\* Pass 6c finishes the claims the fallback has not.
LEMMA AnnotateMeans ==
  ClaimsOK /\ AllScored /\ Annotate => ClaimsOK' /\ AllFinished' /\ (AllRead => AllRead')
<1>. SUFFICES ASSUME ClaimsOK, AllScored, Annotate
              PROVE  ClaimsOK' /\ AllFinished' /\ (AllRead => AllRead')
  OBVIOUS
<1>1. claims \in [Extracted -> Claim]
  BY DEF ClaimsOK
<1>2. ASSUME NEW c \in Extracted
      PROVE  /\ claims'[c] \in Claim /\ SoundClaim(claims'[c]) /\ claims'[c].final # NoText
             /\ claims'[c].basis = claims[c].basis
  <2>. DEFINE f == IF claims[c].final = NoText THEN claims[c].revision ELSE claims[c].final
              n == IF claims[c].note = NoNote THEN claims[c].tier ELSE claims[c].note
  <2>1. claims[c] \in Claim /\ SoundClaim(claims[c]) /\ claims[c].tier # NoTier
    BY <1>1 DEF ClaimsOK, AllScored
  <2>2. claims'[c] = [claims[c] EXCEPT !.final = f, !.note = n]
    BY DEF Annotate
  <2>3. claims[c].tier \in Tiers /\ claims[c].revision \in Nat
    BY <2>1 DEF Claim
  <2>4. f = claims[c].revision /\ f \in Nat
    BY <2>1, <2>3 DEF SoundClaim
  <2>5. n = claims[c].tier /\ n \in Tiers
    BY <2>1, <2>3 DEF SoundClaim
  <2>. HIDE DEF f, n
  <2>6. /\ claims'[c] \in Claim /\ claims'[c].final = f /\ claims'[c].note = n
        /\ claims'[c].tier = claims[c].tier /\ claims'[c].revision = claims[c].revision
        /\ claims'[c].retries = claims[c].retries /\ claims'[c].basis = claims[c].basis
    BY <2>1, <2>2, <2>4, <2>5 DEF Claim
  <2>7. EvidenceOf(claims'[c]) = EvidenceOf(claims[c])
    BY <2>1, <2>2 DEF Claim, EvidenceOf
  <2>8. f # NoText
    BY <2>4 DEF NoText
  <2>. QED
    BY <2>1, <2>4, <2>5, <2>6, <2>7, <2>8 DEF SoundClaim
<1>3. claims' \in [Extracted -> Claim]
  BY <1>2 DEF Annotate
<1>4. DOMAIN claims' = Extracted
  BY <1>3
<1>. QED
  BY <1>2, <1>3, <1>4 DEF ClaimsOK, AllFinished, Finished, AllRead, Extracted

----------------------------------------------------------------------------
(* The inductive invariant: how far the claims have come at each stage,    *)
(* the lines still to be told, and the row beside the run.                 *)

\* The stage the run stands before, if it has not failed or ended.
At == IF pc = "tell" THEN resume ELSE pc

Unscored == {"Pass 0", "Pass 1", "Pass 2", "D0", "Pass 3a", "Pass 3b", "Pass 3c", "Pass 4",
             "Pass 5"}
InLoop == {"Pass 6a", "Pass 6b", "D2"}
Scored == InLoop \cup {"D1", "Pass 6c"}
Closing == {"Merge", "Final synthesis"}

Phase == /\ At \in Unscored => NoneScored /\ flagged = {}
         /\ At \in Scored => AllScored
         /\ At = "D1" => AllOpen
         /\ At \in InLoop => FlaggedOpen
         /\ At \in Closing \cup {"Finish"} => AllFinished

Lines == /\ unstored <= untold
         /\ pc = "tell" => unstored = 0 /\ untold >= 1

Report == /\ report \in {NoReport, claims}
          /\ At \in Unscored \cup Scored \cup Closing => report = NoReport
          /\ At = "Finish" => report = claims

Row == /\ pc \notin Ended => /\ record.status = "running"
                             /\ record.report # NoReport => report # NoReport
       /\ RecordIsWhole

IInv == PipelineTypeOK /\ ClaimsOK /\ Phase /\ Lines /\ Report /\ Row

\* Every stage ends in a checkpoint, and goes on from there or fails.
LEMMA CheckpointGoes ==
  ASSUME NEW next \in Stages, Checkpoint(next)
  PROVE  /\ pc' \in {"tell", "failing"} /\ resume' = next
         /\ At' = next \/ At' = "failing"
         /\ record' = [status |-> "running", claims |-> claims', report |-> report']
            \/ record' = record
  BY DEF Checkpoint, Stored, NotStored, Snapshot, At

\* and keeps the lines in order.
LEMMA CheckpointStores ==
  ASSUME NEW next \in Stages, PipelineTypeOK, Lines, Checkpoint(next)
  PROVE  unstored' \in Nat /\ untold' \in Nat /\ Lines'
  BY DEF Checkpoint, Stored, NotStored, PipelineTypeOK, Lines

\* What is said of the claims stays true while they do not change.
LEMMA ClaimsStay ==
  claims' = claims => /\ ClaimsOK => ClaimsOK'
                      /\ NoneScored => NoneScored'
                      /\ AllScored => AllScored'
                      /\ AllOpen => AllOpen'
                      /\ AllFinished => AllFinished'
                      /\ AllRead => AllRead'
                      /\ Extracted' = Extracted
  BY DEF ClaimsOK, NoneScored, AllScored, AllOpen, AllFinished, Finished, AllRead, Extracted

\* Nothing is known about no claims.
LEMMA NoClaims ==
  ASSUME claims' = << >>
  PROVE  ClaimsOK' /\ NoneScored' /\ Extracted' = {}
<1>1. DOMAIN claims' = {} /\ claims' \in [{} -> Claim]
  OBVIOUS
<1>. QED
  BY <1>1 DEF ClaimsOK, NoneScored, Extracted

\* What a stage that ends in a checkpoint is and leads to.
CheckpointStage == \/ Plan \/ Generate \/ Extract \/ Route \/ Ground \/ Critique \/ Complete
                   \/ Audit \/ Score \/ Flag \/ Revise \/ Revalidate \/ FallBack \/ Annotate
                   \/ Merge \/ Synthesise

\* Every one of them moves on to a stage, or fails, and writes the row or not.
LEMMA StageGoes ==
  CheckpointStage => \E next \in Stages : Checkpoint(next)
<1>. SUFFICES ASSUME CheckpointStage PROVE \E next \in Stages : Checkpoint(next)
  OBVIOUS
<1>. USE DEF Stages, JsonPasses, TextPasses, CodeStages
<1>1. CASE Plan
  BY <1>1 DEF Plan
<1>2. CASE Generate
  BY <1>2 DEF Generate
<1>3. CASE Extract
  BY <1>3 DEF Extract
<1>4. CASE Route
  BY <1>4 DEF Route
<1>5. CASE Ground
  BY <1>5 DEF Ground
<1>6. CASE Critique
  BY <1>6 DEF Critique
<1>7. CASE Complete
  BY <1>7 DEF Complete
<1>8. CASE Audit
  BY <1>8 DEF Audit
<1>9. CASE Score
  BY <1>9 DEF Score
<1>10. CASE Flag
  BY <1>10 DEF Flag
<1>11. CASE Revise
  BY <1>11 DEF Revise
<1>12. CASE Revalidate
  BY <1>12 DEF Revalidate
<1>13. CASE FallBack
  BY <1>13 DEF FallBack
<1>14. CASE Annotate
  BY <1>14 DEF Annotate
<1>15. CASE Merge
  BY <1>15 DEF Merge
<1>16. CASE Synthesise
  BY <1>16 DEF Synthesise
<1>. QED
  BY <1>1, <1>2, <1>3, <1>4, <1>5, <1>6, <1>7, <1>8, <1>9, <1>10, <1>11,
     <1>12, <1>13, <1>14, <1>15, <1>16 DEF CheckpointStage

\* The claims are sound, and as far as their stage says, after every step.
LEMMA ClaimsKept == IInv /\ [Next]_vars => ClaimsOK' /\ Phase'
<1>. SUFFICES ASSUME IInv, [Next]_vars PROVE ClaimsOK' /\ Phase'
  OBVIOUS
<1>0. ClaimsOK /\ Phase /\ PipelineTypeOK
  BY DEF IInv
<1>1. CASE Plan
  <2>1. At = "Pass 0"
    BY <1>1 DEF Plan, At
  <2>2. At' \in {"Pass 1", "failing"}
    BY <1>1, CheckpointGoes DEF Plan, Stages, JsonPasses, TextPasses, CodeStages
  <2>3. claims' = claims /\ flagged' = flagged
    BY <1>1 DEF Plan
  <2>4. /\ ClaimsOK' /\ (NoneScored => NoneScored') /\ (AllScored => AllScored')
        /\ (AllOpen => AllOpen') /\ (AllFinished => AllFinished')
    BY <1>0, <2>3, ClaimsStay, Zenon
  <2>. QED
    BY <1>0, <2>1, <2>2, <2>3, <2>4 DEF Phase, Unscored, InLoop, Scored, Closing
<1>2. CASE Generate
  <2>1. At = "Pass 1"
    BY <1>2 DEF Generate, At
  <2>2. At' \in {"Pass 2", "failing"}
    BY <1>2, CheckpointGoes DEF Generate, Stages, JsonPasses, TextPasses, CodeStages
  <2>3. claims' = claims /\ flagged' = flagged
    BY <1>2 DEF Generate
  <2>4. /\ ClaimsOK' /\ (NoneScored => NoneScored') /\ (AllScored => AllScored')
        /\ (AllOpen => AllOpen') /\ (AllFinished => AllFinished')
    BY <1>0, <2>3, ClaimsStay, Zenon
  <2>. QED
    BY <1>0, <2>1, <2>2, <2>3, <2>4 DEF Phase, Unscored, InLoop, Scored, Closing
<1>3. CASE Extract
  <2>1. At = "Pass 2"
    BY <1>3 DEF Extract, At
  <2>2. At' \in {"D0", "failing"}
    BY <1>3, CheckpointGoes DEF Extract, Stages, JsonPasses, TextPasses, CodeStages
  <2>3. ClaimsOK' /\ NoneScored' /\ flagged' = {}
    BY <1>0, <1>3, <2>1, ExtractMeans DEF Extract, Phase, Unscored
  <2>. QED
    BY <2>2, <2>3 DEF Phase, Unscored, InLoop, Scored, Closing
<1>4. CASE Route
  <2>1. At = "D0"
    BY <1>4 DEF Route, At
  <2>2. At' \in {"Pass 3c", "Pass 3a", "failing"}
    BY <1>4, CheckpointGoes DEF Route, Stages, JsonPasses, TextPasses, CodeStages
  <2>3. claims' = claims /\ flagged' = flagged
    BY <1>4 DEF Route
  <2>4. /\ ClaimsOK' /\ (NoneScored => NoneScored') /\ (AllScored => AllScored')
        /\ (AllOpen => AllOpen') /\ (AllFinished => AllFinished')
    BY <1>0, <2>3, ClaimsStay, Zenon
  <2>. QED
    BY <1>0, <2>1, <2>2, <2>3, <2>4 DEF Phase, Unscored, InLoop, Scored, Closing
<1>5. CASE Ground
  <2>1. At = "Pass 3a"
    BY <1>5 DEF Ground, At
  <2>2. At' \in {"Pass 3b", "failing"}
    BY <1>5, CheckpointGoes DEF Ground, Stages, JsonPasses, TextPasses, CodeStages
  <2>3. ClaimsOK' /\ NoneScored' /\ flagged' = {}
    BY <1>0, <1>5, <2>1, ReportsMean DEF Ground, Phase, Unscored
  <2>. QED
    BY <2>2, <2>3 DEF Phase, Unscored, InLoop, Scored, Closing
<1>6. CASE Critique
  <2>1. At = "Pass 3b"
    BY <1>6 DEF Critique, At
  <2>2. At' \in {"Pass 3c", "failing"}
    BY <1>6, CheckpointGoes DEF Critique, Stages, JsonPasses, TextPasses, CodeStages
  <2>3. ClaimsOK' /\ NoneScored' /\ flagged' = {}
    BY <1>0, <1>6, <2>1, ReportsMean DEF Critique, Phase, Unscored
  <2>. QED
    BY <2>2, <2>3 DEF Phase, Unscored, InLoop, Scored, Closing
<1>7. CASE Complete
  <2>1. At = "Pass 3c"
    BY <1>7 DEF Complete, At
  <2>2. At' \in {"Pass 4", "failing"}
    BY <1>7, CheckpointGoes DEF Complete, Stages, JsonPasses, TextPasses, CodeStages
  <2>3. claims' = claims /\ flagged' = flagged
    BY <1>7 DEF Complete
  <2>4. /\ ClaimsOK' /\ (NoneScored => NoneScored') /\ (AllScored => AllScored')
        /\ (AllOpen => AllOpen') /\ (AllFinished => AllFinished')
    BY <1>0, <2>3, ClaimsStay, Zenon
  <2>. QED
    BY <1>0, <2>1, <2>2, <2>3, <2>4 DEF Phase, Unscored, InLoop, Scored, Closing
<1>8. CASE Audit
  <2>1. At = "Pass 4"
    BY <1>8 DEF Audit, At
  <2>2. At' \in {"Pass 5", "failing"}
    BY <1>8, CheckpointGoes DEF Audit, Stages, JsonPasses, TextPasses, CodeStages
  <2>3. ClaimsOK' /\ NoneScored' /\ flagged' = {}
    BY <1>0, <1>8, <2>1, ReportsMean DEF Audit, Phase, Unscored
  <2>. QED
    BY <2>2, <2>3 DEF Phase, Unscored, InLoop, Scored, Closing
<1>9. CASE Score
  <2>1. At = "Pass 5"
    BY <1>9 DEF Score, At
  <2>2. At' \in {"D1", "failing"}
    BY <1>9, CheckpointGoes DEF Score, Stages, JsonPasses, TextPasses, CodeStages
  <2>3. ClaimsOK' /\ AllScored' /\ AllOpen'
    BY <1>0, <1>9, <2>1, ScoreMeans DEF Phase, Unscored
  <2>. QED
    BY <2>2, <2>3 DEF Phase, Unscored, InLoop, Scored, Closing
<1>10. CASE Flag
  <2>1. At = "D1"
    BY <1>10 DEF Flag, At
  <2>2. At' \in {"Pass 6c", "Pass 6a", "failing"}
    BY <1>10, CheckpointGoes DEF Flag, Stages, JsonPasses, TextPasses, CodeStages
  <2>6. claims' = claims /\ AllScored /\ AllOpen
    BY <1>0, <1>10, <2>1 DEF Flag, Phase, Scored
  <2>3. ClaimsOK' /\ AllScored' /\ AllOpen'
    BY <1>0, <2>6, ClaimsStay, Zenon
  <2>4. flagged' \subseteq Extracted /\ Extracted' = Extracted
    BY <1>10, ClaimsStay DEF Flag
  <2>5. FlaggedOpen'
    BY <2>3, <2>4 DEF AllOpen, FlaggedOpen
  <2>. QED
    BY <2>2, <2>3, <2>5 DEF Phase, Unscored, InLoop, Scored, Closing
<1>11. CASE Revise
  <2>1. At = "Pass 6a"
    BY <1>11 DEF Revise, At
  <2>2. At' \in {"Pass 6b", "failing"}
    BY <1>11, CheckpointGoes DEF Revise, Stages, JsonPasses, TextPasses, CodeStages
  <2>3. ClaimsOK' /\ AllScored' /\ FlaggedOpen'
    BY <1>0, <1>11, <2>1, ReviseMeans DEF Phase, Scored, InLoop
  <2>. QED
    BY <2>2, <2>3 DEF Phase, Unscored, InLoop, Scored, Closing
<1>12. CASE Revalidate
  <2>1. At = "Pass 6b"
    BY <1>12 DEF Revalidate, At
  <2>2. At' \in {"D2", "failing"}
    BY <1>12, CheckpointGoes DEF Revalidate, Stages, JsonPasses, TextPasses, CodeStages
  <2>3. ClaimsOK' /\ AllScored' /\ FlaggedOpen'
    BY <1>0, <1>12, <2>1, RevalidateMeans DEF Phase, Scored, InLoop
  <2>. QED
    BY <2>2, <2>3 DEF Phase, Unscored, InLoop, Scored, Closing
<1>13. CASE FallBack
  <2>1. At = "D2"
    BY <1>13 DEF FallBack, At
  <2>2. At' \in {"D2", "failing"}
    BY <1>13, CheckpointGoes DEF FallBack, Stages, JsonPasses, TextPasses, CodeStages
  <2>3. ClaimsOK' /\ AllScored' /\ FlaggedOpen'
    BY <1>0, <1>13, <2>1, FallBackMeans DEF Phase, Scored, InLoop
  <2>. QED
    BY <2>2, <2>3 DEF Phase, Unscored, InLoop, Scored, Closing
<1>14. CASE Annotate
  <2>1. At = "Pass 6c"
    BY <1>14 DEF Annotate, At
  <2>2. At' \in {"Merge", "failing"}
    BY <1>14, CheckpointGoes DEF Annotate, Stages, JsonPasses, TextPasses, CodeStages
  <2>3. ClaimsOK' /\ AllFinished'
    BY <1>0, <1>14, <2>1, AnnotateMeans DEF Phase, Scored
  <2>. QED
    BY <2>2, <2>3 DEF Phase, Unscored, InLoop, Scored, Closing
<1>15. CASE Merge
  <2>1. At = "Merge"
    BY <1>15 DEF Merge, At
  <2>2. At' \in {"Final synthesis", "failing"}
    BY <1>15, CheckpointGoes DEF Merge, Stages, JsonPasses, TextPasses, CodeStages
  <2>3. claims' = claims /\ flagged' = flagged
    BY <1>15 DEF Merge
  <2>4. /\ ClaimsOK' /\ (NoneScored => NoneScored') /\ (AllScored => AllScored')
        /\ (AllOpen => AllOpen') /\ (AllFinished => AllFinished')
    BY <1>0, <2>3, ClaimsStay, Zenon
  <2>. QED
    BY <1>0, <2>1, <2>2, <2>3, <2>4 DEF Phase, Unscored, InLoop, Scored, Closing
<1>16. CASE Synthesise
  <2>1. At = "Final synthesis"
    BY <1>16 DEF Synthesise, At
  <2>2. At' \in {"Finish", "failing"}
    BY <1>16, CheckpointGoes DEF Synthesise, Stages, JsonPasses, TextPasses, CodeStages
  <2>3. claims' = claims /\ flagged' = flagged
    BY <1>16 DEF Synthesise
  <2>4. /\ ClaimsOK' /\ (NoneScored => NoneScored') /\ (AllScored => AllScored')
        /\ (AllOpen => AllOpen') /\ (AllFinished => AllFinished')
    BY <1>0, <2>3, ClaimsStay, Zenon
  <2>. QED
    BY <1>0, <2>1, <2>2, <2>3, <2>4 DEF Phase, Unscored, InLoop, Scored, Closing
<1>17. CASE Tell
  <2>1. claims' = claims /\ flagged' = flagged /\ Extracted' = Extracted
    BY <1>17, ClaimsStay DEF Tell
  <2>2. At' = At
    BY <1>0, <1>17 DEF Tell, At, JsonPasses, PipelineTypeOK
  <2>3. FlaggedOpen => FlaggedOpen'
    BY <2>1 DEF FlaggedOpen
  <2>4. /\ ClaimsOK' /\ (NoneScored => NoneScored') /\ (AllScored => AllScored')
        /\ (AllOpen => AllOpen') /\ (AllFinished => AllFinished')
    BY <1>0, <2>1, ClaimsStay, Zenon
  <2>. QED
    BY <1>0, <2>1, <2>2, <2>3, <2>4 DEF Phase, Unscored, InLoop, Scored, Closing
<1>18. CASE Reject
  <2>1. claims' = claims /\ flagged' = flagged /\ Extracted' = Extracted
    BY <1>18, ClaimsStay DEF Reject
  <2>2. At' = At \/ At' = "failing"
    BY <1>0, <1>18 DEF Reject, At, JsonPasses, PipelineTypeOK
  <2>3. FlaggedOpen => FlaggedOpen'
    BY <2>1 DEF FlaggedOpen
  <2>4. /\ ClaimsOK' /\ (NoneScored => NoneScored') /\ (AllScored => AllScored')
        /\ (AllOpen => AllOpen') /\ (AllFinished => AllFinished')
    BY <1>0, <2>1, ClaimsStay, Zenon
  <2>. QED
    BY <1>0, <2>1, <2>2, <2>3, <2>4 DEF Phase, Unscored, InLoop, Scored, Closing
<1>19. CASE PassFails
  <2>1. claims' = claims /\ At' \in {"failing", "complete"}
    BY <1>19 DEF PassFails, At
  <2>2. /\ ClaimsOK' /\ (NoneScored => NoneScored') /\ (AllScored => AllScored')
        /\ (AllOpen => AllOpen') /\ (AllFinished => AllFinished')
    BY <1>0, <2>1, ClaimsStay, Zenon
  <2>. QED
    BY <1>0, <2>1, <2>2 DEF Phase, Unscored, InLoop, Scored, Closing
<1>20. CASE Candidate
  <2>1. claims' = claims /\ flagged' = flagged /\ Extracted' = Extracted
    BY <1>20, ClaimsStay DEF Candidate
  <2>2. At' = At
    BY <1>0, <1>20 DEF Candidate, At, JsonPasses, PipelineTypeOK
  <2>3. FlaggedOpen => FlaggedOpen'
    BY <2>1 DEF FlaggedOpen
  <2>4. /\ ClaimsOK' /\ (NoneScored => NoneScored') /\ (AllScored => AllScored')
        /\ (AllOpen => AllOpen') /\ (AllFinished => AllFinished')
    BY <1>0, <2>1, ClaimsStay, Zenon
  <2>. QED
    BY <1>0, <2>1, <2>2, <2>3, <2>4 DEF Phase, Unscored, InLoop, Scored, Closing
<1>21. CASE NoCandidate
  <2>1. claims' = claims /\ At' \in {"failing", "complete"}
    BY <1>21 DEF NoCandidate, At
  <2>2. /\ ClaimsOK' /\ (NoneScored => NoneScored') /\ (AllScored => AllScored')
        /\ (AllOpen => AllOpen') /\ (AllFinished => AllFinished')
    BY <1>0, <2>1, ClaimsStay, Zenon
  <2>. QED
    BY <1>0, <2>1, <2>2 DEF Phase, Unscored, InLoop, Scored, Closing
<1>22. CASE NextRound
  <2>1. claims' = claims /\ flagged' = flagged /\ Extracted' = Extracted
    BY <1>22, ClaimsStay DEF NextRound
  <2>2. At = "D2" /\ At' \in {"Pass 6c", "Pass 6a"}
    BY <1>22 DEF NextRound, At
  <2>3. FlaggedOpen => FlaggedOpen'
    BY <2>1 DEF FlaggedOpen
  <2>4. /\ ClaimsOK' /\ (NoneScored => NoneScored') /\ (AllScored => AllScored')
        /\ (AllOpen => AllOpen') /\ (AllFinished => AllFinished')
    BY <1>0, <2>1, ClaimsStay, Zenon
  <2>. QED
    BY <1>0, <2>1, <2>2, <2>3, <2>4 DEF Phase, Unscored, InLoop, Scored, Closing
<1>23. CASE Finish
  <2>1. claims' = claims /\ At' \in {"failing", "complete"}
    BY <1>23 DEF Finish, At
  <2>2. /\ ClaimsOK' /\ (NoneScored => NoneScored') /\ (AllScored => AllScored')
        /\ (AllOpen => AllOpen') /\ (AllFinished => AllFinished')
    BY <1>0, <2>1, ClaimsStay, Zenon
  <2>. QED
    BY <1>0, <2>1, <2>2 DEF Phase, Unscored, InLoop, Scored, Closing
<1>24. CASE FinishFails
  <2>1. claims' = claims /\ At' \in {"failing", "complete"}
    BY <1>24 DEF FinishFails, At
  <2>2. /\ ClaimsOK' /\ (NoneScored => NoneScored') /\ (AllScored => AllScored')
        /\ (AllOpen => AllOpen') /\ (AllFinished => AllFinished')
    BY <1>0, <2>1, ClaimsStay, Zenon
  <2>. QED
    BY <1>0, <2>1, <2>2 DEF Phase, Unscored, InLoop, Scored, Closing
<1>25. CASE Fail
  <2>1. claims' = << >> /\ At' \in Ended
    BY <1>25 DEF Fail, Drop, At, Ended
  <2>. QED
    BY <2>1, NoClaims DEF Phase, Ended, Unscored, InLoop, Scored, Closing
<1>26. CASE Abandon
  <2>1. claims' = << >> /\ At' \in Ended
    BY <1>26 DEF Abandon, Drop, At, Ended
  <2>. QED
    BY <2>1, NoClaims DEF Phase, Ended, Unscored, InLoop, Scored, Closing
<1>27. CASE UNCHANGED vars
  <2>1. claims' = claims /\ flagged' = flagged /\ Extracted' = Extracted /\ At' = At
    BY <1>27, ClaimsStay DEF vars, At
  <2>2. FlaggedOpen => FlaggedOpen'
    BY <2>1 DEF FlaggedOpen
  <2>3. /\ ClaimsOK' /\ (NoneScored => NoneScored') /\ (AllScored => AllScored')
        /\ (AllOpen => AllOpen') /\ (AllFinished => AllFinished')
    BY <1>0, <2>1, ClaimsStay, Zenon
  <2>. QED
    BY <1>0, <2>1, <2>2, <2>3 DEF Phase, Unscored, InLoop, Scored, Closing
<1>28. CASE Notice
  BY <1>27, <1>28 DEF Notice
<1>. QED
  BY <1>1, <1>2, <1>3, <1>4, <1>5, <1>6, <1>7, <1>8, <1>9, <1>10, <1>11,
     <1>12, <1>13, <1>14, <1>15, <1>16, <1>17, <1>18, <1>19, <1>20, <1>21,
     <1>22, <1>23, <1>24, <1>25, <1>26, <1>27, <1>28 DEF Next, Code

\* The report is the claims it was written from, and there is none before.
LEMMA ReportKept == IInv /\ [Next]_vars => Report'
<1>. SUFFICES ASSUME IInv, [Next]_vars PROVE Report'
  OBVIOUS
<1>0. Report /\ PipelineTypeOK
  BY DEF IInv
<1>1. CASE Plan
  <2>1. At = "Pass 0" /\ report = NoReport
    BY <1>0, <1>1 DEF Plan, At, Report, Unscored, InLoop, Scored, Closing
  <2>2. At' \in {"Pass 1", "failing"}
    BY <1>1, CheckpointGoes DEF Plan, Stages, JsonPasses, TextPasses, CodeStages
  <2>3. report' = report /\ claims' = claims
    BY <1>1, <2>1 DEF Plan
  <2>. QED
    BY <2>1, <2>2, <2>3 DEF Report, Unscored, InLoop, Scored, Closing
<1>2. CASE Generate
  <2>1. At = "Pass 1" /\ report = NoReport
    BY <1>0, <1>2 DEF Generate, At, Report, Unscored, InLoop, Scored, Closing
  <2>2. At' \in {"Pass 2", "failing"}
    BY <1>2, CheckpointGoes DEF Generate, Stages, JsonPasses, TextPasses, CodeStages
  <2>3. report' = report /\ claims' = claims
    BY <1>2, <2>1 DEF Generate
  <2>. QED
    BY <2>1, <2>2, <2>3 DEF Report, Unscored, InLoop, Scored, Closing
<1>3. CASE Extract
  <2>1. At = "Pass 2" /\ report = NoReport
    BY <1>0, <1>3 DEF Extract, At, Report, Unscored, InLoop, Scored, Closing
  <2>2. At' \in {"D0", "failing"}
    BY <1>3, CheckpointGoes DEF Extract, Stages, JsonPasses, TextPasses, CodeStages
  <2>3. report' = NoReport
    BY <1>3, <2>1 DEF Extract
  <2>. QED
    BY <2>1, <2>2, <2>3 DEF Report, Unscored, InLoop, Scored, Closing
<1>4. CASE Route
  <2>1. At = "D0" /\ report = NoReport
    BY <1>0, <1>4 DEF Route, At, Report, Unscored, InLoop, Scored, Closing
  <2>2. At' \in {"Pass 3c", "Pass 3a", "failing"}
    BY <1>4, CheckpointGoes DEF Route, Stages, JsonPasses, TextPasses, CodeStages
  <2>3. report' = report /\ claims' = claims
    BY <1>4, <2>1 DEF Route
  <2>. QED
    BY <2>1, <2>2, <2>3 DEF Report, Unscored, InLoop, Scored, Closing
<1>5. CASE Ground
  <2>1. At = "Pass 3a" /\ report = NoReport
    BY <1>0, <1>5 DEF Ground, At, Report, Unscored, InLoop, Scored, Closing
  <2>2. At' \in {"Pass 3b", "failing"}
    BY <1>5, CheckpointGoes DEF Ground, Stages, JsonPasses, TextPasses, CodeStages
  <2>3. report' = NoReport
    BY <1>5, <2>1 DEF Ground
  <2>. QED
    BY <2>1, <2>2, <2>3 DEF Report, Unscored, InLoop, Scored, Closing
<1>6. CASE Critique
  <2>1. At = "Pass 3b" /\ report = NoReport
    BY <1>0, <1>6 DEF Critique, At, Report, Unscored, InLoop, Scored, Closing
  <2>2. At' \in {"Pass 3c", "failing"}
    BY <1>6, CheckpointGoes DEF Critique, Stages, JsonPasses, TextPasses, CodeStages
  <2>3. report' = NoReport
    BY <1>6, <2>1 DEF Critique
  <2>. QED
    BY <2>1, <2>2, <2>3 DEF Report, Unscored, InLoop, Scored, Closing
<1>7. CASE Complete
  <2>1. At = "Pass 3c" /\ report = NoReport
    BY <1>0, <1>7 DEF Complete, At, Report, Unscored, InLoop, Scored, Closing
  <2>2. At' \in {"Pass 4", "failing"}
    BY <1>7, CheckpointGoes DEF Complete, Stages, JsonPasses, TextPasses, CodeStages
  <2>3. report' = report /\ claims' = claims
    BY <1>7, <2>1 DEF Complete
  <2>. QED
    BY <2>1, <2>2, <2>3 DEF Report, Unscored, InLoop, Scored, Closing
<1>8. CASE Audit
  <2>1. At = "Pass 4" /\ report = NoReport
    BY <1>0, <1>8 DEF Audit, At, Report, Unscored, InLoop, Scored, Closing
  <2>2. At' \in {"Pass 5", "failing"}
    BY <1>8, CheckpointGoes DEF Audit, Stages, JsonPasses, TextPasses, CodeStages
  <2>3. report' = NoReport
    BY <1>8, <2>1 DEF Audit
  <2>. QED
    BY <2>1, <2>2, <2>3 DEF Report, Unscored, InLoop, Scored, Closing
<1>9. CASE Score
  <2>1. At = "Pass 5" /\ report = NoReport
    BY <1>0, <1>9 DEF Score, At, Report, Unscored, InLoop, Scored, Closing
  <2>2. At' \in {"D1", "failing"}
    BY <1>9, CheckpointGoes DEF Score, Stages, JsonPasses, TextPasses, CodeStages
  <2>3. report' = NoReport
    BY <1>9, <2>1 DEF Score
  <2>. QED
    BY <2>1, <2>2, <2>3 DEF Report, Unscored, InLoop, Scored, Closing
<1>10. CASE Flag
  <2>1. At = "D1" /\ report = NoReport
    BY <1>0, <1>10 DEF Flag, At, Report, Unscored, InLoop, Scored, Closing
  <2>2. At' \in {"Pass 6c", "Pass 6a", "failing"}
    BY <1>10, CheckpointGoes DEF Flag, Stages, JsonPasses, TextPasses, CodeStages
  <2>3. report' = report /\ claims' = claims
    BY <1>10, <2>1 DEF Flag
  <2>. QED
    BY <2>1, <2>2, <2>3 DEF Report, Unscored, InLoop, Scored, Closing
<1>11. CASE Revise
  <2>1. At = "Pass 6a" /\ report = NoReport
    BY <1>0, <1>11 DEF Revise, At, Report, Unscored, InLoop, Scored, Closing
  <2>2. At' \in {"Pass 6b", "failing"}
    BY <1>11, CheckpointGoes DEF Revise, Stages, JsonPasses, TextPasses, CodeStages
  <2>3. report' = NoReport
    BY <1>11, <2>1 DEF Revise
  <2>. QED
    BY <2>1, <2>2, <2>3 DEF Report, Unscored, InLoop, Scored, Closing
<1>12. CASE Revalidate
  <2>1. At = "Pass 6b" /\ report = NoReport
    BY <1>0, <1>12 DEF Revalidate, At, Report, Unscored, InLoop, Scored, Closing
  <2>2. At' \in {"D2", "failing"}
    BY <1>12, CheckpointGoes DEF Revalidate, Stages, JsonPasses, TextPasses, CodeStages
  <2>3. report' = NoReport
    BY <1>12, <2>1 DEF Revalidate
  <2>. QED
    BY <2>1, <2>2, <2>3 DEF Report, Unscored, InLoop, Scored, Closing
<1>13. CASE FallBack
  <2>1. At = "D2" /\ report = NoReport
    BY <1>0, <1>13 DEF FallBack, At, Report, Unscored, InLoop, Scored, Closing
  <2>2. At' \in {"D2", "failing"}
    BY <1>13, CheckpointGoes DEF FallBack, Stages, JsonPasses, TextPasses, CodeStages
  <2>3. report' = NoReport
    BY <1>13, <2>1 DEF FallBack
  <2>. QED
    BY <2>1, <2>2, <2>3 DEF Report, Unscored, InLoop, Scored, Closing
<1>14. CASE Annotate
  <2>1. At = "Pass 6c" /\ report = NoReport
    BY <1>0, <1>14 DEF Annotate, At, Report, Unscored, InLoop, Scored, Closing
  <2>2. At' \in {"Merge", "failing"}
    BY <1>14, CheckpointGoes DEF Annotate, Stages, JsonPasses, TextPasses, CodeStages
  <2>3. report' = NoReport
    BY <1>14, <2>1 DEF Annotate
  <2>. QED
    BY <2>1, <2>2, <2>3 DEF Report, Unscored, InLoop, Scored, Closing
<1>15. CASE Merge
  <2>1. At = "Merge" /\ report = NoReport
    BY <1>0, <1>15 DEF Merge, At, Report, Unscored, InLoop, Scored, Closing
  <2>2. At' \in {"Final synthesis", "failing"}
    BY <1>15, CheckpointGoes DEF Merge, Stages, JsonPasses, TextPasses, CodeStages
  <2>3. report' = report /\ claims' = claims
    BY <1>15, <2>1 DEF Merge
  <2>. QED
    BY <2>1, <2>2, <2>3 DEF Report, Unscored, InLoop, Scored, Closing
<1>16. CASE Synthesise
  <2>1. At = "Final synthesis" /\ report = NoReport
    BY <1>0, <1>16 DEF Synthesise, At, Report, Unscored, InLoop, Scored, Closing
  <2>2. At' \in {"Finish", "failing"}
    BY <1>16, CheckpointGoes DEF Synthesise, Stages, JsonPasses, TextPasses, CodeStages
  <2>3. report' = claims /\ claims' = claims
    BY <1>16, <2>1 DEF Synthesise
  <2>. QED
    BY <2>1, <2>2, <2>3 DEF Report, Unscored, InLoop, Scored, Closing
<1>17. CASE Tell
  <2>1. report' = report /\ claims' = claims
    BY <1>17 DEF Tell
  <2>2. At' = At
    BY <1>0, <1>17 DEF Tell, At, JsonPasses, PipelineTypeOK
  <2>. QED
    BY <1>0, <2>1, <2>2 DEF Report, Unscored, InLoop, Scored, Closing
<1>18. CASE Reject
  <2>1. report' = report /\ claims' = claims
    BY <1>18 DEF Reject
  <2>2. At' = At \/ At' = "failing"
    BY <1>0, <1>18 DEF Reject, At, JsonPasses, PipelineTypeOK
  <2>. QED
    BY <1>0, <2>1, <2>2 DEF Report, Unscored, InLoop, Scored, Closing
<1>19. CASE PassFails
  <2>1. report' = report /\ claims' = claims
    BY <1>19 DEF PassFails
  <2>2. At' \in {"failing", "complete"}
    BY <1>0, <1>19 DEF PassFails, At, JsonPasses, PipelineTypeOK
  <2>. QED
    BY <1>0, <2>1, <2>2 DEF Report, Unscored, InLoop, Scored, Closing
<1>20. CASE Candidate
  <2>1. report' = report /\ claims' = claims
    BY <1>20 DEF Candidate
  <2>2. At' = At
    BY <1>0, <1>20 DEF Candidate, At, JsonPasses, PipelineTypeOK
  <2>. QED
    BY <1>0, <2>1, <2>2 DEF Report, Unscored, InLoop, Scored, Closing
<1>21. CASE NoCandidate
  <2>1. report' = report /\ claims' = claims
    BY <1>21 DEF NoCandidate
  <2>2. At' \in {"failing", "complete"}
    BY <1>0, <1>21 DEF NoCandidate, At, JsonPasses, PipelineTypeOK
  <2>. QED
    BY <1>0, <2>1, <2>2 DEF Report, Unscored, InLoop, Scored, Closing
<1>22. CASE NextRound
  <2>1. report' = report /\ claims' = claims
    BY <1>22 DEF NextRound
  <2>2. At = "D2" /\ At' \in {"Pass 6c", "Pass 6a"}
    BY <1>0, <1>22 DEF NextRound, At, JsonPasses, PipelineTypeOK
  <2>. QED
    BY <1>0, <2>1, <2>2 DEF Report, Unscored, InLoop, Scored, Closing
<1>23. CASE Finish
  <2>1. report' = report /\ claims' = claims
    BY <1>23 DEF Finish
  <2>2. At' \in {"failing", "complete"}
    BY <1>0, <1>23 DEF Finish, At, JsonPasses, PipelineTypeOK
  <2>. QED
    BY <1>0, <2>1, <2>2 DEF Report, Unscored, InLoop, Scored, Closing
<1>24. CASE FinishFails
  <2>1. report' = report /\ claims' = claims
    BY <1>24 DEF FinishFails
  <2>2. At' \in {"failing", "complete"}
    BY <1>0, <1>24 DEF FinishFails, At, JsonPasses, PipelineTypeOK
  <2>. QED
    BY <1>0, <2>1, <2>2 DEF Report, Unscored, InLoop, Scored, Closing
<1>25. CASE Fail
  <2>1. report' = NoReport /\ At' \in Ended
    BY <1>25 DEF Fail, Drop, At, Ended
  <2>. QED
    BY <2>1 DEF Report, Ended, Unscored, InLoop, Scored, Closing
<1>26. CASE Abandon
  <2>1. report' = NoReport /\ At' \in Ended
    BY <1>26 DEF Abandon, Drop, At, Ended
  <2>. QED
    BY <2>1 DEF Report, Ended, Unscored, InLoop, Scored, Closing
<1>27. CASE UNCHANGED vars
  BY <1>0, <1>27 DEF vars, Report, At
<1>28. CASE Notice
  BY <1>27, <1>28 DEF Notice
<1>. QED
  BY <1>1, <1>2, <1>3, <1>4, <1>5, <1>6, <1>7, <1>8, <1>9, <1>10, <1>11,
     <1>12, <1>13, <1>14, <1>15, <1>16, <1>17, <1>18, <1>19, <1>20, <1>21,
     <1>22, <1>23, <1>24, <1>25, <1>26, <1>27, <1>28 DEF Next, Code

\* No line is told that the row does not hold, and the counters stay counters.
LEMMA LinesKept == IInv /\ [Next]_vars => Lines' /\ unstored' \in Nat /\ untold' \in Nat
<1>. SUFFICES ASSUME IInv, [Next]_vars PROVE Lines' /\ unstored' \in Nat /\ untold' \in Nat
  OBVIOUS
<1>0. Lines /\ PipelineTypeOK /\ unstored \in Nat /\ untold \in Nat /\ resume # "tell"
  BY DEF IInv, PipelineTypeOK, Stages, JsonPasses, TextPasses, CodeStages
<1>1. CASE CheckpointStage
  <2>1. PICK next \in Stages : Checkpoint(next)
    BY <1>1, StageGoes
  <2>. QED
    BY <1>0, <2>1, CheckpointStores
<1>2. CASE Tell
  BY <1>0, <1>2 DEF Tell, Lines
<1>3. CASE Reject
  <2>1. /\ pc # "tell" /\ pc' \in {pc, "failing"}
        /\ \/ unstored' = unstored + 1 /\ untold' = untold + 1
           \/ unstored' = unstored /\ untold' = untold
    BY <1>3 DEF Reject, JsonPasses
  <2>. QED
    BY <1>0, <2>1 DEF Lines
<1>4. CASE PassFails
  BY <1>0, <1>4 DEF PassFails, Lines, JsonPasses, TextPasses
<1>5. CASE Candidate
  <2>1. pc' # "tell" /\ unstored' = unstored + 1 /\ untold' = untold + 1
    BY <1>5 DEF Candidate, JsonPasses
  <2>. QED
    BY <1>0, <2>1 DEF Lines
<1>6. CASE NoCandidate
  BY <1>0, <1>6 DEF NoCandidate, Lines
<1>7. CASE NextRound
  BY <1>0, <1>7 DEF NextRound, Lines
<1>8. CASE Finish
  BY <1>0, <1>8 DEF Finish, Lines
<1>9. CASE FinishFails
  BY <1>0, <1>9 DEF FinishFails, Lines
<1>10. CASE Fail
  BY <1>0, <1>10 DEF Fail, Drop, Lines
<1>11. CASE Abandon
  <2>1. pc' = "abandoned" /\ unstored' = 0 /\ untold' = 0
    BY <1>11 DEF Abandon, Drop
  <2>. QED
    BY <1>0, <2>1 DEF Lines
<1>12. CASE UNCHANGED vars
  BY <1>0, <1>12 DEF vars, Lines
<1>13. CASE Notice
  BY <1>12, <1>13 DEF Notice
<1>. QED
  BY <1>1, <1>2, <1>3, <1>4, <1>5, <1>6, <1>7, <1>8, <1>9, <1>10, <1>11, <1>12, <1>13
     DEF Next, Code, CheckpointStage

\* A stage writes the row with what the run then holds, or leaves it.
LEMMA RowKept == IInv /\ [Next]_vars => Row' /\ (record' = record \/ Archive!Snapshot)
<1>. SUFFICES ASSUME IInv, [Next]_vars
              PROVE  Row' /\ (record' = record \/ Archive!Snapshot)
  OBVIOUS
<1>0. Row /\ Report /\ Phase /\ ClaimsOK /\ PipelineTypeOK
  BY DEF IInv
<1>0a. Report' /\ ClaimsOK' /\ Phase'
  BY ReportKept, ClaimsKept
<1>1. CASE CheckpointStage
  <2>1. PICK next \in Stages : Checkpoint(next)
    BY <1>1, StageGoes
  <2>2. /\ pc' \in {"tell", "failing"}
        /\ \/ record' = [status |-> "running", claims |-> claims', report |-> report']
           \/ record' = record
    BY <2>1, CheckpointGoes
  <2>3. pc \notin Ended
    BY <1>1, ZenonT(60) DEF CheckpointStage, Ended, Plan, Generate, Extract, Route, Ground,
       Critique, Complete, Audit, Score, Flag, Revise, Revalidate, FallBack, Annotate, Merge, Synthesise
  <2>4. report # NoReport => report' # NoReport
    BY <1>0, <1>1 DEF CheckpointStage, Report, At, Unscored, InLoop, Scored, Closing,
           Plan, Generate, Extract, Route, Ground, Critique, Complete, Audit,
              Score, Flag, Revise, Revalidate, FallBack, Annotate, Merge,
              Synthesise
  <2>5. report' \in {NoReport, claims'}
    BY <1>0a DEF Report
  <2>6. CASE record' = record
    BY <1>0, <2>2, <2>3, <2>4, <2>6 DEF Row, RecordIsWhole, Ended
  <2>7. CASE record' = [status |-> "running", claims |-> claims', report |-> report']
    BY <1>0, <2>2, <2>3, <2>4, <2>5, <2>7
       DEF Row, RecordIsWhole, Ended, Archive!Snapshot, Archive!Statuses
  <2>. QED
    BY <2>2, <2>6, <2>7
<1>2. CASE Tell
  <2>1. pc \notin Ended /\ record' = record /\ report' = report
    BY <1>0, <1>2 DEF Tell, Ended, JsonPasses, TextPasses
  <2>. QED
    BY <1>0, <2>1 DEF Row, RecordIsWhole
<1>3. CASE Reject
  <2>1. pc \notin Ended /\ record' = record /\ report' = report
    BY <1>0, <1>3 DEF Reject, Ended, JsonPasses, TextPasses
  <2>. QED
    BY <1>0, <2>1 DEF Row, RecordIsWhole
<1>4. CASE PassFails
  <2>1. pc \notin Ended /\ record' = record /\ report' = report
    BY <1>0, <1>4 DEF PassFails, Ended, JsonPasses, TextPasses
  <2>. QED
    BY <1>0, <2>1 DEF Row, RecordIsWhole
<1>5. CASE Candidate
  <2>1. pc \notin Ended /\ record' = record /\ report' = report
    BY <1>0, <1>5 DEF Candidate, Ended, JsonPasses, TextPasses
  <2>. QED
    BY <1>0, <2>1 DEF Row, RecordIsWhole
<1>6. CASE NoCandidate
  <2>1. pc \notin Ended /\ record' = record /\ report' = report
    BY <1>0, <1>6 DEF NoCandidate, Ended, JsonPasses, TextPasses
  <2>. QED
    BY <1>0, <2>1 DEF Row, RecordIsWhole
<1>7. CASE NextRound
  <2>1. pc \notin Ended /\ record' = record /\ report' = report
    BY <1>0, <1>7 DEF NextRound, Ended, JsonPasses, TextPasses
  <2>. QED
    BY <1>0, <2>1 DEF Row, RecordIsWhole
<1>8. CASE Finish
  <2>1. /\ pc = "Finish" /\ pc' = "complete" /\ claims' = claims /\ report' = report
        /\ record' = [status |-> "complete", claims |-> claims, report |-> report]
    BY <1>8 DEF Finish, Snapshot
  <2>2. report = claims /\ AllFinished
    BY <1>0, <2>1 DEF At, Report, Phase
  <2>3. claims # NoReport
    BY <1>0, NoReportIsNone DEF ClaimsOK
  <2>4. \A c \in Extracted : claims[c].final # NoText /\ claims[c].tier # NoTier
    BY <1>0, <2>2 DEF AllFinished, Finished, ClaimsOK, SoundClaim
  <2>5. record.status = "running" /\ (record.report # NoReport => report # NoReport)
    BY <1>0, <2>1 DEF Row, Ended
  <2>6. Row'
    BY <2>1, <2>2, <2>4 DEF Row, RecordIsWhole, Ended, Extracted
  <2>7. Archive!Snapshot
    BY <2>1, <2>2, <2>3, <2>5 DEF Archive!Snapshot, Archive!Statuses
  <2>. QED
    BY <2>6, <2>7
<1>9. CASE FinishFails
  <2>1. pc \notin Ended /\ record' = record /\ report' = report
    BY <1>0, <1>9 DEF FinishFails, Ended, JsonPasses, TextPasses
  <2>. QED
    BY <1>0, <2>1 DEF Row, RecordIsWhole
<1>10. CASE Fail
  <2>1. pc = "failing" /\ pc' = "failed"
    BY <1>10 DEF Fail, Drop
  <2>2. record.status = "running" /\ (record.report # NoReport => report # NoReport)
    BY <1>0, <2>1 DEF Row, Ended
  <2>3. CASE record' = record
    BY <1>0, <2>1, <2>3 DEF Row, RecordIsWhole, Ended
  <2>4. CASE record' = [status |-> "failed", claims |-> claims, report |-> report]
    BY <1>0, <2>1, <2>2, <2>4
       DEF Row, RecordIsWhole, Ended, Report, Archive!Snapshot, Archive!Statuses
  <2>. QED
    BY <1>10, <2>3, <2>4 DEF Fail
<1>11. CASE Abandon
  BY <1>0, <1>11 DEF Abandon, Drop, Row, RecordIsWhole, Ended
<1>12. CASE UNCHANGED vars
  BY <1>0, <1>12 DEF vars, Row, RecordIsWhole
<1>13. CASE Notice
  BY <1>12, <1>13 DEF Notice
<1>. QED
  BY <1>1, <1>2, <1>3, <1>4, <1>5, <1>6, <1>7, <1>8, <1>9, <1>10, <1>11, <1>12, <1>13
     DEF Next, Code, CheckpointStage

\* The variables keep their types.
LEMMA TypeKept == IInv /\ [Next]_vars => PipelineTypeOK'
<1>. SUFFICES ASSUME IInv, [Next]_vars PROVE PipelineTypeOK'
  OBVIOUS
<1>0. PipelineTypeOK /\ Phase
  BY DEF IInv
<1>0a. /\ unstored' \in Nat /\ untold' \in Nat
       /\ Extracted' \subseteq ClaimIds /\ claims' \in [Extracted' -> Claim]
  BY LinesKept, ClaimsKept DEF ClaimsOK
<1>0b. record'.status \in {"running", "complete", "failed"}
  BY <1>0, RowKept DEF PipelineTypeOK, Archive!Snapshot, Archive!Statuses
<1>0c. flagged' \subseteq Extracted'

  <2>0. flagged \subseteq Extracted
    BY <1>0 DEF PipelineTypeOK
  <2>1. CASE Extract
    BY <1>0, <2>1 DEF Extract, Phase, At, Unscored
  <2>2. CASE Flag
    BY <2>2, ClaimsStay DEF Flag
  <2>3. CASE Fail \/ Abandon
    BY <2>3 DEF Fail, Abandon, Drop
  <2>4. CASE /\ flagged' \subseteq flagged
             /\ claims' = claims \/ DOMAIN claims' = Extracted
    BY <2>0, <2>4 DEF Extracted
  <2>5. ASSUME Ground \/ Critique \/ Audit \/ Score \/ Revise \/ Revalidate \/ FallBack \/ Annotate
        PROVE  flagged' \subseteq flagged /\ DOMAIN claims' = Extracted
    <3>1. CASE Ground
      BY <3>1 DEF Ground, Grounded, Extracted
    <3>2. CASE Critique
      BY <3>2 DEF Critique, Critiqued, Extracted
    <3>3. CASE Audit
      BY <3>3 DEF Audit
    <3>4. CASE Score
      BY <3>4 DEF Score, Retiered, Extracted
    <3>5. CASE Revise
      BY <3>5 DEF Revise, Revised, Extracted
    <3>6. CASE Revalidate
      <4>1. flagged' \subseteq flagged
        BY <3>6 DEF Revalidate, StillFlagged
      <4>2. PICK statuses \in Answers(flagged, Verdicts), severities \in Answers(flagged, Severities) :
              \E quality \in Scores(claims, flagged, statuses) :
                claims' = Revalidated(claims, flagged, statuses, quality, severities)
        BY <3>6 DEF Revalidate
      <4>3. DOMAIN claims' = Extracted
        <5>1. claims \in [Extracted -> Claim] /\ flagged \in SUBSET Extracted
          BY <2>0 DEF IInv, ClaimsOK
        <5>2. PICK quality \in Scores(claims, flagged, statuses) :
                claims' = Revalidated(claims, flagged, statuses, quality, severities)
          BY <4>2
        <5>3. claims' \in [Extracted -> Claim]
          BY <5>1, <5>2, RevalidatedKeeps
        <5>. QED
          BY <5>3
      <4>. QED
        BY <4>1, <4>3
    <3>7. CASE FallBack
      BY <3>7 DEF FallBack, Extracted
    <3>8. CASE Annotate
      BY <3>8 DEF Annotate
    <3>. QED
      BY <2>5, <3>1, <3>2, <3>3, <3>4, <3>5, <3>6, <3>7, <3>8
  <2>6. ASSUME \/ Plan \/ Generate \/ Route \/ Complete \/ Merge \/ Synthesise
               \/ Tell \/ Notice \/ Reject \/ PassFails \/ Candidate \/ NoCandidate \/ NextRound
               \/ Finish \/ FinishFails \/ UNCHANGED vars
        PROVE  flagged' = flagged /\ claims' = claims
    BY <2>6 DEF Plan, Generate, Route, Complete, Merge, Synthesise, Tell, Notice, Reject, PassFails,
                Candidate, NoCandidate, NextRound, Finish, FinishFails, vars
  <2>. QED
    BY <2>1, <2>2, <2>3, <2>4, <2>5, <2>6 DEF Next, Code
<1>0d. pc' \in Stages \cup Ended \cup {"tell", "failing"} /\ resume' \in Stages
  <2>1. CASE CheckpointStage
    BY <2>1, StageGoes, CheckpointGoes
  <2>2. CASE ~CheckpointStage
    BY <1>0, <2>2, ZenonT(60) DEF Next, Code, CheckpointStage, Tell, Notice, Reject, PassFails, Candidate, NoCandidate,
       NextRound, Finish, FinishFails, Fail, Abandon, Drop, vars, PipelineTypeOK,
       Stages, JsonPasses, TextPasses, CodeStages, Ended
  <2>. QED
    BY <2>1, <2>2
<1>0e. asked' \in 0..RosterSize /\ survivors' \in 0..asked'
  <2>1. asked \in 0..RosterSize /\ survivors \in 0..asked
    BY <1>0 DEF PipelineTypeOK
  <2>2. CASE Candidate
    <3>1. /\ asked < RosterSize /\ asked' = asked + 1
          /\ survivors' = survivors \/ survivors' = survivors + 1
      BY <2>2 DEF Candidate
    <3>. QED
      BY <2>1, <3>1
  <2>3. CASE Fail \/ Abandon
    BY <2>3 DEF Fail, Abandon, Drop
  <2>4. CASE asked' = asked /\ survivors' = survivors
    BY <2>1, <2>4
  <2>5. ASSUME ~Candidate, ~Fail, ~Abandon PROVE asked' = asked /\ survivors' = survivors
    BY <2>5 DEF Next, Code, Tell, Notice, Reject, PassFails, NoCandidate, NextRound, Finish, FinishFails, vars,
       Plan, Generate, Extract, Route, Ground, Critique, Complete, Audit,
          Score, Flag, Revise, Revalidate, FallBack, Annotate, Merge,
          Synthesise
  <2>. QED
    BY <2>2, <2>3, <2>4, <2>5
<1>0f. attempt' \in 0..MaxJson
  <2>1. attempt \in 0..MaxJson
    BY <1>0 DEF PipelineTypeOK
  <2>2. CASE Reject
    BY <2>1, <2>2 DEF Reject
  <2>3. ASSUME ~Reject PROVE attempt' = attempt \/ attempt' = 0
    BY <2>3 DEF Next, Code, Tell, Notice, PassFails, Candidate, NoCandidate, NextRound, Finish, FinishFails,
       Fail, Abandon, Drop, vars,
       Plan, Generate, Extract, Route, Ground, Critique, Complete, Audit,
          Score, Flag, Revise, Revalidate, FallBack, Annotate, Merge,
          Synthesise
  <2>. QED
    BY <2>1, <2>2, <2>3
<1>. QED
  BY <1>0a, <1>0b, <1>0c, <1>0d, <1>0e, <1>0f DEF PipelineTypeOK

----------------------------------------------------------------------------
(* Which text the verdicts are about.                                      *)

Settled == Unscored \cup {"D1", "Pass 6a", "D2", "Pass 6c"}

\* Only between the revision and the re-validation of a round are there rewritten
\* texts nobody was asked about, and only among the flagged claims.
Read == /\ At \in Settled => AllRead
        /\ At = "Pass 6b" => OthersRead
        /\ TextWasAskedAbout

\* Only a revision leads to a re-validation.
LEMMA NotBeforeRevalidation ==
  ASSUME CheckpointStage \/ NextRound, ~Revise
  PROVE  At' # "Pass 6b"
<1>1. CASE Plan
  <2>1. At' \in {"Pass 1", "failing"}
    BY <1>1, CheckpointGoes DEF Plan, Stages, JsonPasses, TextPasses, CodeStages
  <2>. QED
    BY <2>1
<1>2. CASE Generate
  <2>1. At' \in {"Pass 2", "failing"}
    BY <1>2, CheckpointGoes DEF Generate, Stages, JsonPasses, TextPasses, CodeStages
  <2>. QED
    BY <2>1
<1>3. CASE Extract
  <2>1. At' \in {"D0", "failing"}
    BY <1>3, CheckpointGoes DEF Extract, Stages, JsonPasses, TextPasses, CodeStages
  <2>. QED
    BY <2>1
<1>4. CASE Route
  <2>1. At' \in {"Pass 3c", "Pass 3a", "failing"}
    BY <1>4, CheckpointGoes DEF Route, Stages, JsonPasses, TextPasses, CodeStages
  <2>. QED
    BY <2>1
<1>5. CASE Ground
  <2>1. At' \in {"Pass 3b", "failing"}
    BY <1>5, CheckpointGoes DEF Ground, Stages, JsonPasses, TextPasses, CodeStages
  <2>. QED
    BY <2>1
<1>6. CASE Critique
  <2>1. At' \in {"Pass 3c", "failing"}
    BY <1>6, CheckpointGoes DEF Critique, Stages, JsonPasses, TextPasses, CodeStages
  <2>. QED
    BY <2>1
<1>7. CASE Complete
  <2>1. At' \in {"Pass 4", "failing"}
    BY <1>7, CheckpointGoes DEF Complete, Stages, JsonPasses, TextPasses, CodeStages
  <2>. QED
    BY <2>1
<1>8. CASE Audit
  <2>1. At' \in {"Pass 5", "failing"}
    BY <1>8, CheckpointGoes DEF Audit, Stages, JsonPasses, TextPasses, CodeStages
  <2>. QED
    BY <2>1
<1>9. CASE Score
  <2>1. At' \in {"D1", "failing"}
    BY <1>9, CheckpointGoes DEF Score, Stages, JsonPasses, TextPasses, CodeStages
  <2>. QED
    BY <2>1
<1>10. CASE Flag
  <2>1. At' \in {"Pass 6c", "Pass 6a", "failing"}
    BY <1>10, CheckpointGoes DEF Flag, Stages, JsonPasses, TextPasses, CodeStages
  <2>. QED
    BY <2>1
<1>11. CASE Revalidate
  <2>1. At' \in {"D2", "failing"}
    BY <1>11, CheckpointGoes DEF Revalidate, Stages, JsonPasses, TextPasses, CodeStages
  <2>. QED
    BY <2>1
<1>12. CASE FallBack
  <2>1. At' \in {"D2", "failing"}
    BY <1>12, CheckpointGoes DEF FallBack, Stages, JsonPasses, TextPasses, CodeStages
  <2>. QED
    BY <2>1
<1>13. CASE Annotate
  <2>1. At' \in {"Merge", "failing"}
    BY <1>13, CheckpointGoes DEF Annotate, Stages, JsonPasses, TextPasses, CodeStages
  <2>. QED
    BY <2>1
<1>14. CASE Merge
  <2>1. At' \in {"Final synthesis", "failing"}
    BY <1>14, CheckpointGoes DEF Merge, Stages, JsonPasses, TextPasses, CodeStages
  <2>. QED
    BY <2>1
<1>15. CASE Synthesise
  <2>1. At' \in {"Finish", "failing"}
    BY <1>15, CheckpointGoes DEF Synthesise, Stages, JsonPasses, TextPasses, CodeStages
  <2>. QED
    BY <2>1
<1>16. CASE NextRound
  BY <1>16 DEF NextRound, At
<1>. QED
  BY <1>1, <1>2, <1>3, <1>4, <1>5, <1>6, <1>7, <1>8, <1>9, <1>10, <1>11, <1>12, <1>13, <1>14, <1>15, <1>16 DEF CheckpointStage

\* Every step keeps it.
LEMMA ReadKept == IInv /\ Read /\ [Next]_vars => Read'
<1>. SUFFICES ASSUME IInv, Read, [Next]_vars PROVE Read'
  OBVIOUS
<1>0. ClaimsOK /\ Phase /\ PipelineTypeOK /\ TextWasAskedAbout
  BY DEF IInv, Read
<1>1. CASE claims' = claims /\ flagged' = flagged /\ (At' = At \/ At' \notin Settled \cup {"Pass 6b"})
  BY <1>0, <1>1 DEF Read, AllRead, OthersRead, TextWasAskedAbout, Extracted, Finished
<1>2. CASE claims' = claims /\ AllRead /\ At' # "Pass 6b"
  BY <1>0, <1>2 DEF Read, AllRead, TextWasAskedAbout, Extracted, Finished
<1>3. CASE AllRead' /\ At' # "Pass 6b"
  BY <1>3 DEF Read, AllRead, TextWasAskedAbout
<1>. USE DEF Stages, JsonPasses, TextPasses, CodeStages
<1>4. ASSUME Plan \/ Generate \/ Route \/ Complete \/ Flag \/ NextRound
      PROVE  claims' = claims /\ AllRead /\ At' # "Pass 6b"
  <2>1. claims' = claims
    BY <1>4 DEF Plan, Generate, Route, Complete, Flag, NextRound
  <2>2. At \in Settled
    BY <1>4 DEF At, Settled, Unscored, Plan, Generate, Route, Complete, Flag, NextRound
  <2>3. At' # "Pass 6b"
    <3>1. ~Revise
      BY <1>4 DEF Revise, Plan, Generate, Route, Complete, Flag, NextRound
    <3>. QED
      BY <1>4, <3>1, NotBeforeRevalidation DEF CheckpointStage
  <2>. QED
    BY <2>1, <2>2, <2>3 DEF Read
<1>5. CASE Extract
  <2>1. AllRead'
    BY <1>5, ExtractMeans
  <2>2. At' # "Pass 6b"
    <3>1. ~Revise
      BY <1>5 DEF Revise, Extract
    <3>. QED
      BY <1>5, <3>1, NotBeforeRevalidation DEF CheckpointStage
  <2>. QED
    BY <1>3, <2>1, <2>2
<1>6. CASE Ground \/ Critique \/ Audit
  <2>1. At \in Unscored
    BY <1>6 DEF Ground, Critique, Audit, At, Unscored
  <2>2. AllRead'
    BY <1>0, <1>6, <2>1, ReportsMean DEF Phase, Read, Settled
  <2>3. At' # "Pass 6b"
    <3>1. ~Revise
      BY <1>6 DEF Revise, Ground, Critique, Audit
    <3>. QED
      BY <1>6, <3>1, NotBeforeRevalidation DEF CheckpointStage
  <2>. QED
    BY <1>3, <2>2, <2>3
<1>7. CASE Score
  <2>1. At \in Unscored
    BY <1>7 DEF Score, At, Unscored
  <2>2. AllRead'
    BY <1>0, <1>7, <2>1, ScoreMeans DEF Phase, Read, Settled
  <2>3. At' # "Pass 6b"
    <3>1. ~Revise
      BY <1>7 DEF Revise, Score
    <3>. QED
      BY <1>7, <3>1, NotBeforeRevalidation DEF CheckpointStage
  <2>. QED
    BY <1>3, <2>2, <2>3
<1>8. CASE Revise
  <2>1. At = "Pass 6a"
    BY <1>8 DEF Revise, At
  <2>2. FlaggedOpen' /\ OthersRead'
    BY <1>0, <1>8, <2>1, ReviseMeans DEF Phase, Scored, InLoop, Read, Settled
  <2>3. TextWasAskedAbout'
    BY <2>2 DEF FlaggedOpen, OthersRead, TextWasAskedAbout, Finished
  <2>4. At' \in {"Pass 6b", "failing"}
    BY <1>8, CheckpointGoes DEF Revise
  <2>. QED
    BY <2>2, <2>3, <2>4 DEF Read, Settled, Unscored
<1>9. CASE Revalidate
  <2>1. At = "Pass 6b"
    BY <1>9 DEF Revalidate, At
  <2>2. AllRead'
    BY <1>0, <1>9, <2>1, RevalidateMeans DEF Phase, Scored, InLoop, Read
  <2>3. At' # "Pass 6b"
    <3>1. ~Revise
      BY <1>9 DEF Revise, Revalidate
    <3>. QED
      BY <1>9, <3>1, NotBeforeRevalidation DEF CheckpointStage
  <2>. QED
    BY <1>3, <2>2, <2>3
<1>10. CASE FallBack
  <2>1. At = "D2"
    BY <1>10 DEF FallBack, At
  <2>2. AllRead'
    BY <1>0, <1>10, <2>1, FallBackMeans DEF Phase, Scored, InLoop, Read, Settled
  <2>3. At' # "Pass 6b"
    <3>1. ~Revise
      BY <1>10 DEF Revise, FallBack
    <3>. QED
      BY <1>10, <3>1, NotBeforeRevalidation DEF CheckpointStage
  <2>. QED
    BY <1>3, <2>2, <2>3
<1>11. CASE Annotate
  <2>1. At = "Pass 6c"
    BY <1>11 DEF Annotate, At
  <2>2. AllRead'
    BY <1>0, <1>11, <2>1, AnnotateMeans DEF Phase, Scored, Read, Settled
  <2>3. At' # "Pass 6b"
    <3>1. ~Revise
      BY <1>11 DEF Revise, Annotate
    <3>. QED
      BY <1>11, <3>1, NotBeforeRevalidation DEF CheckpointStage
  <2>. QED
    BY <1>3, <2>2, <2>3
<1>12. ASSUME Merge \/ Synthesise \/ PassFails \/ NoCandidate \/ Finish \/ FinishFails
       PROVE  /\ claims' = claims /\ flagged' = flagged
              /\ At' \notin Settled \cup {"Pass 6b"}
  <2>1. claims' = claims /\ flagged' = flagged
    BY <1>12 DEF Merge, Synthesise, PassFails, NoCandidate, Finish, FinishFails
  <2>2. At' \in {"Final synthesis", "Finish", "failing", "complete"}
    BY <1>12, CheckpointGoes DEF Merge, Synthesise, PassFails, NoCandidate, Finish, FinishFails, At
  <2>. QED
    BY <2>1, <2>2 DEF Settled, Unscored
<1>13. ASSUME Tell \/ Reject \/ Candidate \/ Notice \/ UNCHANGED vars
       PROVE  /\ claims' = claims /\ flagged' = flagged
              /\ At' = At \/ At' \notin Settled \cup {"Pass 6b"}
  <2>1. claims' = claims /\ flagged' = flagged
    BY <1>13 DEF Tell, Reject, Candidate, Notice, vars
  <2>2. At' = At \/ At' = "failing"
    BY <1>0, <1>13 DEF Tell, Reject, Candidate, Notice, vars, At, PipelineTypeOK
  <2>. QED
    BY <2>1, <2>2 DEF Settled, Unscored
<1>14. CASE Fail \/ Abandon
  <2>1. claims' = << >> /\ At' \in Ended
    BY <1>14 DEF Fail, Abandon, Drop, At, Ended
  <2>2. AllRead' /\ At' # "Pass 6b"
    BY <2>1, NoClaims DEF AllRead, Ended
  <2>. QED
    BY <1>3, <2>2
<1>. QED
  BY <1>1, <1>2, <1>4, <1>5, <1>6, <1>7, <1>8, <1>9, <1>10, <1>11, <1>12, <1>13, <1>14
     DEF Next, Code

----------------------------------------------------------------------------
(* The theorems.                                                           *)

\* Everything holds when the run starts.
LEMMA InitHolds == Init => IInv
<1>. SUFFICES ASSUME Init PROVE IInv
  OBVIOUS
<1>0. DOMAIN << >> = {} /\ << >> \in [{} -> Claim]
  OBVIOUS
<1>1. DOMAIN claims = {} /\ claims \in [{} -> Claim]
  BY <1>0 DEF Init
<1>1a. record.status = "running" /\ record.report = NoReport
  BY DEF Init
<1>2. At = "Pass 0"
  BY DEF Init, At
<1>3. ClaimsOK /\ NoneScored /\ flagged = {}
  BY <1>1 DEF Init, ClaimsOK, NoneScored, Extracted
<1>4. PipelineTypeOK
  <2>1. /\ pc = "Pass 0" /\ resume = "Pass 1" /\ asked = 0 /\ survivors = 0 /\ attempt = 0
        /\ flagged = {} /\ unstored = 0 /\ untold = 0
    BY DEF Init
  <2>2. asked \in 0..RosterSize /\ survivors \in 0..asked /\ attempt \in 0..MaxJson
    <3>1. asked = 0 /\ survivors = 0 /\ attempt = 0
      BY <2>1
    <3>. QED
      BY <3>1
  <2>3. pc \in Stages /\ resume \in Stages
    BY <2>1 DEF Stages, JsonPasses, TextPasses
  <2>4. /\ Extracted \subseteq ClaimIds /\ claims \in [Extracted -> Claim]
        /\ flagged \subseteq Extracted
    BY <1>1, <2>1 DEF Extracted
  <2>. QED
    BY <1>1a, <2>1, <2>2, <2>3, <2>4 DEF PipelineTypeOK
<1>5. Phase
  BY <1>2, <1>3 DEF Phase, Scored, InLoop, Closing
<1>6. Lines /\ Report /\ Row
  <2>1. /\ pc = "Pass 0" /\ unstored = 0 /\ untold = 0 /\ report = NoReport
    BY DEF Init
  <2>2. Lines
    <3>1. pc # "tell" /\ unstored = 0 /\ untold = 0
      BY <2>1
    <3>. QED
      BY <3>1 DEF Lines
  <2>3. Report
    BY <1>2, <2>1 DEF Report
  <2>4. Row
    BY <1>1a, <2>1 DEF Row, RecordIsWhole
  <2>. QED
    BY <2>2, <2>3, <2>4
<1>. QED
  BY <1>3, <1>4, <1>5, <1>6 DEF IInv

\* The inductive invariant of the run.
THEOREM Inductive == Spec => []IInv
<1>1. IInv /\ [Next]_vars => IInv'
  BY TypeKept, ClaimsKept, LinesKept, ReportKept, RowKept DEF IInv
<1>. QED
  BY InitHolds, <1>1, PTL DEF Spec

\* Whatever the passes answer, and wherever the run fails or is left, the tier and
\* the tag of a claim are those of the verdicts it carries, its final text is its
\* latest, and no rewritten text has become final before Pass 6b was asked about it.
\* What 6b leaves out of its answer keeps the verdicts of the older text
\* (core/reasoning/orchestrator.py, the revision loop).
THEOREM PublishesWhatItFound == Spec => []PublishedIsCurrent
<1>1. IInv /\ Read => PublishedIsCurrent
  <2>. SUFFICES ASSUME IInv, Read PROVE PublishedIsCurrent
    OBVIOUS
  <2>0. claims \in [Extracted -> Claim] /\ \A c \in Extracted : SoundClaim(claims[c])
    BY DEF IInv, ClaimsOK
  <2>1. ScoreIsCurrent
    BY <2>0 DEF ScoreIsCurrent, Tiered, SoundClaim, Finished
  <2>2. AnnotationSaysTier
    BY <2>0 DEF AnnotationSaysTier, SoundClaim, Finished
  <2>3. UnsupportedIsNotHigh
    <3>. SUFFICES ASSUME NEW c \in Extracted, Finished(c)
                  PROVE  /\ claims[c].status = "none" => claims[c].tier # "HIGH"
                         /\ claims[c].factual /\ claims[c].status = "ungrounded"
                              => claims[c].tier = "UNVERIFIED"
      BY DEF UnsupportedIsNotHigh
    <3>. DEFINE e == EvidenceOf(claims[c])
    <3>1. claims[c].tier = Tier(e) \/ claims[c].tier = "UNVERIFIED"
      BY <2>0 DEF SoundClaim, Finished
    <3>2. e \in Evidence /\ e.status = claims[c].status /\ e.factual = claims[c].factual
      BY <2>0, EvidenceIsTyped DEF EvidenceOf
    <3>. HIDE DEF e
    <3>3. e.status = "none" => Tier(e) # "HIGH"
      BY <3>2, NeverGroundedIsNotHigh
    <3>4. e.factual /\ e.status = "ungrounded" => Tier(e) = "UNVERIFIED"
      BY DEF Tier
    <3>. QED
      BY <3>1, <3>2, <3>3, <3>4
  <2>. QED
    BY <2>1, <2>2, <2>3 DEF PublishedIsCurrent, Read
<1>2. Init => Read
  <2>. SUFFICES ASSUME Init PROVE Read
    OBVIOUS
  <2>0. DOMAIN << >> = {} /\ << >> \in [{} -> Claim]
    OBVIOUS
  <2>1. Extracted = {}
    BY <2>0 DEF Init, Extracted
  <2>. QED
    BY <2>1 DEF Read, AllRead, OthersRead, TextWasAskedAbout
<1>. QED
  BY Inductive, ReadKept, <1>1, <1>2, PTL DEF Spec

\* A round of the revision loop touches no claim outside it, whatever claims the
\* answers name (_apply_revisions, _grounding_pass and _critic_pass on a batch).
THEOREM LoopKeepsToItsClaims == Spec => FinishedIsLeftAlone
<1>1. ASSUME IInv, Next, pc \in {"Pass 6a", "Pass 6b"}, pc' = "tell"
      PROVE  \A c \in Extracted \ flagged : claims'[c] = claims[c]
  <2>0. claims \in [Extracted -> Claim] /\ flagged \in SUBSET Extracted
    BY <1>1 DEF IInv, ClaimsOK, PipelineTypeOK
  <2>1. CASE Revise
    <3>1. PICK named \in SUBSET Extracted : claims' = Revised(claims, flagged, named)
      BY <2>1 DEF Revise
    <3>. QED
      BY <2>0, <3>1, RevisedKeeps
  <2>2. CASE Revalidate
    <3>1. PICK statuses \in Answers(flagged, Verdicts), severities \in Answers(flagged, Severities) :
            \E quality \in Scores(claims, flagged, statuses) :
              claims' = Revalidated(claims, flagged, statuses, quality, severities)
      BY <2>2 DEF Revalidate
    <3>2. PICK quality \in Scores(claims, flagged, statuses) :
            claims' = Revalidated(claims, flagged, statuses, quality, severities)
      BY <3>1
    <3>. QED
      BY <2>0, <3>2, RevalidatedKeeps
  <2>3. Revise \/ Revalidate
    BY <1>1 DEF Next, Code, Tell, Notice, Reject, PassFails, Plan, Candidate, Generate, NoCandidate,
       Extract, Route, Ground, Critique, Complete, Audit, Score, Flag, FallBack, NextRound,
       Annotate, Merge, Synthesise, Finish, FinishFails, Fail, Abandon, Drop, vars
  <2>. QED
    BY <2>1, <2>2, <2>3
<1>2. IInv /\ [Next]_vars =>
        [(pc \in {"Pass 6a", "Pass 6b"} /\ pc' = "tell") =>
           \A c \in Extracted \ flagged : claims'[c] = claims[c]]_vars
  BY <1>1
<1>. QED
  BY Inductive, <1>2, PTL DEF Spec, FinishedIsLeftAlone

\* The stored row is a record of a run, whole when it says "complete", and of the
\* lines the run logs its reader is told none before the row holds it; the notices
\* of a compaction are told without being logged
\* (core/reasoning/pipeline_storage.py, orchestrator.py's _Progress and _translate).
THEOREM RowIsARecord == Spec => RowIsRecord
<1>1. Init => Archive!Init
  <2>. SUFFICES ASSUME Init PROVE Archive!Init
    OBVIOUS
  <2>1. record.status = "running" /\ record.report = NoReport
    BY DEF Init
  <2>. QED
    BY <2>1 DEF Archive!Init
<1>2. IInv /\ [Next]_vars => [Archive!Snapshot]_(Archive!recordVars)
  BY RowKept DEF Archive!recordVars
<1>3. IInv => RecordIsWhole /\ LinesAreStoredFirst
  BY DEF IInv, Row, Lines, LinesAreStoredFirst
<1>. QED
  BY Inductive, <1>1, <1>2, <1>3, PTL DEF Spec, RowIsRecord, Archive!Spec
=============================================================================
