---------------------------- MODULE ReviewStage ----------------------------
(***************************************************************************)
(* The review of a finished research run (core/reasoning/review.py and     *)
(* _review_stage in orchestrator.py): a reviewer agent raises findings, a  *)
(* human decides on each, sending one back to the reviewer if they like,   *)
(* and what they accept is applied to a copy of the claims that becomes    *)
(* the run's only when a new report has been written from it.              *)
(***************************************************************************)
EXTENDS Naturals, Sequences, SequencesExt

CONSTANTS ClaimIds, Texts, Tiers, Notes,    \* what a finding may propose
          FirstText,                        \* a claim's text before the review
          Raw,                              \* what one entry of the reviewer's answer may be
          MaxRaw,                           \* entries in an answer (a bound)
          MaxFindings, MaxRefinements,      \* config.MAX_REVIEW_*
          NoReport

Finding == [kind: {"text"}, claim: ClaimIds, proposed: Texts]
             \cup [kind: {"tier"}, claim: ClaimIds, proposed: Tiers]
             \cup [kind: {"synthesis"}, claim: {"report"}, proposed: Notes]

ASSUME LimitsAreNat == MaxRaw \in Nat /\ MaxFindings \in Nat /\ MaxRefinements \in Nat
ASSUME RawIsTyped == \A r \in Raw : DOMAIN r = {"kind", "claim", "proposed"}

VARIABLES pc, consent,       \* whether somebody can be asked
          before,            \* the claims as the passes left them
          claims, report,
          findings, current, round, decisions,
          consented,         \* every version a human was shown and accepted
          record
vars == <<pc, consent, before, claims, report, findings, current, round, decisions,
          consented, record>>

Answer == {"accept", "reject", "refine", "reject_all"}
Claim == [text: Texts \cup {FirstText}, tier: Tiers, note: Tiers]
Ended == {"complete", "failed", "abandoned"}

ASSUME NoReportIsNone == NoReport \notin [ClaimIds -> Claim]

----------------------------------------------------------------------------
(* Findings that could not be applied are dropped before anybody is asked, *)
(* and so is a second one about the same thing: one correction of a kind   *)
(* per claim, one report-level note per wording.                           *)
Stripped(r) == IF r.kind = "synthesis" THEN [r EXCEPT !.claim = "report"] ELSE r
(* A slip: a second wording for a claim is a finding of its own. *)
WholeFinding(f) == f

Target(f) == IF f.kind = "synthesis" THEN <<"report", f.proposed>> ELSE <<f.claim, f.kind>>

Keep(out, r) ==
  IF Stripped(r) \notin Finding
       \/ \E k \in DOMAIN out : Target(out[k]) = Target(Stripped(r))
    THEN out ELSE Append(out, Stripped(r))

Validated(raw) == FoldLeft(Keep, << >>, raw)

Shown(fs) == SubSeq(fs, 1, IF Len(fs) < MaxFindings THEN Len(fs) ELSE MaxFindings)

RawAnswers == UNION {[1..n -> Raw] : n \in 0..MaxRaw}

----------------------------------------------------------------------------
(* The run after final synthesis: every claim carries the tag of its tier, *)
(* and the report was written from the claims.                             *)
Init == /\ pc = "review" /\ consent \in BOOLEAN
        /\ before \in {cs \in [ClaimIds -> {c \in Claim : c.text = FirstText}] :
                         \A c \in ClaimIds : cs[c].note = cs[c].tier}
        /\ claims = before /\ report = [from |-> before, directives |-> {}]
        /\ findings = << >> /\ current = << >> /\ round = 0 /\ decisions = << >>
        /\ consented = {}
        /\ record = [status |-> "running", claims |-> before, report |-> report,
                     findings |-> << >>]

Row(st) == [status |-> st, claims |-> claims', report |-> report', findings |-> findings']

(* A checkpoint that cannot be written ends the run. *)
Checkpoint(next) == \/ pc' = next /\ record' = Row("running")
                    \/ pc' = "failing" /\ UNCHANGED record

(* A slip: the findings reach the row with the decisions only. *)
ReviewUnsaved == /\ pc = "review" /\ pc' = "walk"
                 /\ \E raw \in RawAnswers : findings' = Shown(Validated(raw))
                 /\ current' = IF findings' = << >> THEN << >> ELSE Head(findings')
                 /\ UNCHANGED <<consent, before, claims, report, round, decisions, consented,
                                record>>

(* A reviewer that is missing, fails, or never answers in JSON found       *)
(* nothing.  What it did find is in the row before anybody is asked: a line *)
(* about each finding, with 80 characters of what it proposes, which stands *)
(* for the finding here.                                                   *)
Review == /\ pc = "review"
          /\ \E raw \in RawAnswers : findings' = Shown(Validated(raw))
          /\ current' = IF findings' = << >> THEN << >> ELSE Head(findings')
          /\ UNCHANGED <<consent, before, claims, report, round, decisions, consented>>
          /\ Checkpoint("walk")

(* A slip: the decision is noted on the finding as it was first raised. *)
DecidedOnFirst(f, d) ==
  /\ decisions' = Append(decisions, [finding |-> findings[Len(decisions) + 1], decision |-> d])
  /\ round' = 0
  /\ current' = IF Len(decisions) + 1 < Len(findings) THEN findings[Len(decisions) + 2]
                                                     ELSE << >>

(* One decision is made; the next finding is put to the human as it is. *)
Decided(f, d) ==
  /\ decisions' = Append(decisions, [finding |-> f, decision |-> d])
  /\ round' = 0
  /\ current' = IF Len(decisions) + 1 < Len(findings) THEN findings[Len(decisions) + 2]
                                                     ELSE << >>

Open == Len(decisions) < Len(findings)

(* Nobody to ask: every finding is recorded and nothing is applied. *)
NoRoute == /\ pc = "walk" /\ ~consent /\ Open
           /\ Decided(current, "reject")
           /\ UNCHANGED <<pc, consent, before, claims, report, findings, consented, record>>

Accept == /\ pc = "walk" /\ consent /\ Open
          /\ Decided(current, "accept")
          /\ consented' = consented \cup {current}
          /\ UNCHANGED <<pc, consent, before, claims, report, findings, record>>

(* A rejection, a prompt that raised or was torn down, and an answer that  *)
(* cannot be read are the same thing.                                      *)
Reject == /\ pc = "walk" /\ consent /\ Open
          /\ Decided(current, "reject")
          /\ UNCHANGED <<pc, consent, before, claims, report, findings, consented, record>>

RejectAll == /\ pc = "walk" /\ consent /\ Open
             /\ decisions' = decisions \o
                  [k \in 1..(Len(findings) - Len(decisions)) |->
                    [finding |-> IF k = 1 THEN current ELSE findings[Len(decisions) + k],
                     decision |-> "reject"]]
             /\ current' = << >> /\ round' = 0
             /\ UNCHANGED <<pc, consent, before, claims, report, findings, consented, record>>

(* "Make this better" goes back to the reviewer's thread, so many times;   *)
(* after that it is a rejection, never an acceptance.                      *)
SendBack == /\ pc = "walk" /\ consent /\ Open /\ round < MaxRefinements
            /\ pc' = "refine"
            /\ UNCHANGED <<consent, before, claims, report, findings, current, round,
                           decisions, consented, record>>

NoMoreRounds == /\ pc = "walk" /\ consent /\ Open /\ round >= MaxRefinements
                /\ Decided(current, "reject")
                /\ UNCHANGED <<pc, consent, before, claims, report, findings, consented,
                               record>>

SameTarget(f, g) == f.kind = g.kind /\ f.claim = g.claim

(* A slip: nothing counts the rounds. *)
RefinedUncounted ==
  /\ pc = "refine" /\ pc' = "walk"
  /\ \E raw \in RawAnswers :
       LET revised == Validated(raw) IN
       IF revised # << >> /\ SameTarget(Head(revised), current)
         THEN current' = Head(revised) /\ UNCHANGED <<round, decisions>>
         ELSE Decided(current, "reject")
  /\ UNCHANGED <<consent, before, claims, report, findings, consented, record>>

(* The revision replaces the finding if it is about the same thing; if it  *)
(* is not, or there is none, the finding is rejected.                      *)
Refined == /\ pc = "refine" /\ pc' = "walk"
           /\ \E raw \in RawAnswers :
                LET revised == Validated(raw) IN
                IF revised # << >> /\ SameTarget(Head(revised), current)
                  THEN /\ current' = Head(revised) /\ round' = round + 1
                       /\ UNCHANGED decisions
                  ELSE Decided(current, "reject")
           /\ UNCHANGED <<consent, before, claims, report, findings, consented, record>>

Decide == /\ pc = "walk" /\ ~Open
          /\ UNCHANGED <<consent, before, claims, report, findings, current, round,
                         decisions, consented>>
          /\ Checkpoint("apply")

----------------------------------------------------------------------------
(* A slip: the tag keeps the tier the claim had. *)
ApplyTierOnly(cs, d) ==
  LET f == d.finding IN
  CASE d.decision # "accept" \/ f.kind = "synthesis" -> cs
    [] d.decision = "accept" /\ f.kind = "text" -> [cs EXCEPT ![f.claim].text = f.proposed]
    [] d.decision = "accept" /\ f.kind = "tier" -> [cs EXCEPT ![f.claim].tier = f.proposed]

(* One decision on the copy: only what was accepted is applied, an equal   *)
(* value changes nothing, and a new tier takes the tag with it.            *)
ApplyOne(cs, d) ==
  LET f == d.finding IN
  CASE d.decision # "accept" \/ f.kind = "synthesis" -> cs
    [] d.decision = "accept" /\ f.kind = "text" -> [cs EXCEPT ![f.claim].text = f.proposed]
    [] d.decision = "accept" /\ f.kind = "tier" ->
         [cs EXCEPT ![f.claim].tier = f.proposed, ![f.claim].note = f.proposed]

Corrected(cs) == FoldLeft(ApplyOne, cs, decisions)

AcceptedFindings == {d.finding : d \in {e \in ToSet(decisions) : e.decision = "accept"}}
Directives == {f.proposed : f \in {g \in AcceptedFindings : g.kind = "synthesis"}}

(* Nothing accepted, or nothing that changes anything: the report stands. *)
Nothing == /\ pc = "apply" /\ Corrected(claims) = claims /\ Directives = {}
           /\ UNCHANGED <<consent, before, claims, report, findings, current, round,
                          decisions, consented>>
           /\ Checkpoint("finish")

(* The corrected claims stand in for the run's while the report is written *)
(* again, and nothing is stored meanwhile.                                 *)
Apply == /\ pc = "apply"
         /\ Corrected(claims) # claims \/ Directives # {}
         /\ claims' = Corrected(claims)
         /\ pc' = "synthesise"
         /\ UNCHANGED <<consent, before, report, findings, current, round, decisions,
                        consented, record>>

Synthesised == /\ pc = "synthesise"
               /\ report' = [from |-> claims, directives |-> Directives]
               /\ UNCHANGED <<consent, before, claims, findings, current, round, decisions,
                              consented>>
               /\ Checkpoint("finish")

(* A slip: the corrections stay when their report could not be written. *)
CorrectionsStay == /\ pc = "synthesise"
                   /\ UNCHANGED <<consent, before, claims, report, findings, current, round,
                                  decisions, consented>>
                   /\ Checkpoint("finish")

(* The run keeps the claims its report was written from. *)
SynthesisFails == /\ pc = "synthesise"
                  /\ claims' = before
                  /\ UNCHANGED <<consent, before, report, findings, current, round,
                                 decisions, consented>>
                  /\ Checkpoint("finish")

Finish == /\ pc = "finish"
          /\ UNCHANGED <<consent, before, claims, report, findings, current, round,
                         decisions, consented>>
          /\ \/ pc' = "complete" /\ record' = Row("complete")
             \/ pc' = "failing" /\ UNCHANGED record

Fail == /\ pc = "failing" /\ pc' = "failed"
        /\ UNCHANGED <<consent, before, claims, report, findings, current, round, decisions,
                       consented>>
        /\ record' = Row("failed") \/ UNCHANGED record

(* The run is left at an event it yields, or its process is killed, with   *)
(* questions open or not: the row stays as it is.                          *)
Killed == /\ pc \notin Ended /\ pc' = "abandoned"
          /\ UNCHANGED <<consent, before, claims, report, findings, current, round,
                         decisions, consented, record>>

Code == Review \/ NoRoute \/ Refined \/ Decide \/ Nothing \/ Apply \/ Synthesised
          \/ SynthesisFails \/ Finish \/ Fail
Human == Accept \/ Reject \/ RejectAll \/ SendBack \/ NoMoreRounds
Next == Code \/ Human \/ Killed

Spec == Init /\ [][Next]_vars
(* Whoever is asked answers, in the end. *)
FairSpec == Spec /\ WF_vars(Code \/ Human)

----------------------------------------------------------------------------
(* What the row says about a claim, and what its report was told to do, is *)
(* what the passes left or what a human was shown, in these words, and     *)
(* accepted.  A refined finding counts in its last version only.           *)
NothingUnconsented ==
  /\ \A c \in ClaimIds :
       /\ record.claims[c].text # before[c].text =>
            [kind |-> "text", claim |-> c, proposed |-> record.claims[c].text] \in consented
       /\ record.claims[c].tier # before[c].tier =>
            [kind |-> "tier", claim |-> c, proposed |-> record.claims[c].tier] \in consented
  /\ \A d \in record.report.directives :
       [kind |-> "synthesis", claim |-> "report", proposed |-> d] \in consented

(* What was accepted is in a row that carries a report from after the      *)
(* review: no correction is overwritten by another one.                    *)
AcceptedIsApplied ==
  pc = "complete" /\ record.report # [from |-> before, directives |-> {}] =>
    \A f \in consented :
      CASE f.kind = "text" -> record.claims[f.claim].text = f.proposed
        [] f.kind = "tier" -> record.claims[f.claim].tier = f.proposed
        [] OTHER -> f.proposed \in record.report.directives

(* The tag printed before a claim never contradicts its tier. *)
TagSaysTier == \A c \in ClaimIds : record.claims[c].note = record.claims[c].tier

(* The published claims are the ones the human agreed to: nothing more,    *)
(* nothing less, and their tags with them.                                 *)
ConsentIsKept == NothingUnconsented /\ AcceptedIsApplied /\ TagSaysTier

(* A process that dies while a human is being asked leaves behind what the *)
(* reviewer found: a line about each of its findings.                      *)
FindingsSurvive == pc \in {"walk", "refine"} => record.findings = findings

(* The row keeps to its contract from one end of the review to the other:  *)
(* the claims and the report change together or not at all, and the        *)
(* findings are in it before anybody is asked about them.                  *)
Archive == INSTANCE RunRecord WITH None <- NoReport, status <- record.status,
                                   claims <- record.claims, report <- record.report.from
RowIsRecord == /\ Archive!Agrees /\ [][Archive!Snapshot]_(Archive!recordVars)
               /\ []FindingsSurvive

(* The review ends if the human answers: sending findings back does not    *)
(* keep it going for ever.                                                 *)
ReviewEnds == <>(pc \in Ended)
=============================================================================
