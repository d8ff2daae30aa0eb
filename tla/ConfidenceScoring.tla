------------------------- MODULE ConfidenceScoring -------------------------
(***************************************************************************)
(* Pass 5 of the research pipeline: the weighted formula that turns what   *)
(* the passes found out about a claim into a confidence tier               *)
(* (core/reasoning/confidence_scoring.py).  No model is called.            *)
(*                                                                         *)
(* Scores are integers in units of 1/10000, the four decimals the code     *)
(* rounds to before it compares; weights, severities and source qualities  *)
(* are percentages.                                                        *)
(***************************************************************************)
EXTENDS Integers

Statuses == {"grounded", "partial", "ungrounded", "none"}
Tiers == {"HIGH", "MEDIUM", "LOW", "UNVERIFIED"}
FlaggedTiers == {"LOW", "UNVERIFIED"}
Percent == 0..100

(* What the score is computed from: the claim's fields when Pass 5 runs. *)
Evidence == [factual: BOOLEAN, status: Statuses, quality: Percent,
             severity: Percent, flags: Nat]

Clamp(n) == IF n < 0 THEN 0 ELSE IF n > 10000 THEN 10000 ELSE n

GroundingWeight(status) == CASE status = "grounded" -> 100
                             [] status = "partial" -> 50
                             [] OTHER -> 0

(* A weak source still counts for a quarter of what a good one would. *)
SourceQualityFloor == 25
QualityMultiplier(q) == IF q < SourceQualityFloor THEN SourceQualityFloor ELSE q

AssumptionPenalty(e) == 1500 * e.flags

CriticComponent(e) == 100 * (100 - e.severity)

NonFactualScoreCap == 6500
(* A slip: the cap is left out. *)
Uncapped(n) == n
Capped(n) == IF n > NonFactualScoreCap THEN NonFactualScoreCap ELSE n

(* 0.5 * grounding + 0.35 * critic - 0.15 per flag; a claim that was never *)
(* grounded is worth its critic component, capped before the flags are     *)
(* taken off.                                                              *)
RawScore(e) ==
  Clamp(IF e.factual
          THEN (GroundingWeight(e.status) * QualityMultiplier(e.quality)) \div 2
                 + 35 * (100 - e.severity) - AssumptionPenalty(e)
          ELSE Capped(CriticComponent(e)) - AssumptionPenalty(e))

TierFor(score) == CASE score >= 8000 -> "HIGH"
                    [] score >= 5500 -> "MEDIUM"
                    [] score >= 3000 -> "LOW"
                    [] OTHER -> "UNVERIFIED"

Tier(e) == IF e.factual /\ e.status = "ungrounded" THEN "UNVERIFIED"
                                                   ELSE TierFor(RawScore(e))

(* Asserted by at most half of the n candidates that produced a text.  An  *)
(* unreported claim, and a claim that is not factual, never is.            *)
Contested(factual, asserted, n) ==
  n > 0 /\ factual /\ asserted > 0 /\ 2 * asserted <= n

=============================================================================
