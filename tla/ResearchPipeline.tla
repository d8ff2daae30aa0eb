------------------------- MODULE ResearchPipeline -------------------------
(***************************************************************************)
(* One deep-research run (core/reasoning/orchestrator.py): ten passes over *)
(* a set of claims, a revision loop, and a stored row that follows along.  *)
(* The run is a generator: it advances while someone iterates it, and at   *)
(* every event it yields it can be left for good.  Each pass calls a       *)
(* model, whose JSON answer may be rejected and asked for again, may cover *)
(* part of the claims only, or may never come.                             *)
(*                                                                         *)
(* Texts are numbered: 0 is the text Pass 2 extracted, n the one revision  *)
(* round n wrote.  basis is a history variable: which text of a claim the  *)
(* verdicts it carries are about.  A report is represented by the claims it was written    *)
(* from.  The review stage is one step here and a module of its own.       *)
(***************************************************************************)
EXTENDS ConfidenceScoring, FiniteSets

CONSTANTS ClaimIds,       \* the claims Pass 2 may extract
          RosterSize,     \* models of the ensemble, 0 when it is off
          MaxRetries,     \* config.MAX_PIPELINE_RETRIES
          MaxJson,        \* config.MAX_JSON_RETRIES
          Verdicts, Qualities, Severities, FlagCounts,  \* what the passes may report
          NoReport        \* before final synthesis

ASSUME SizesAreNat == /\ RosterSize \in Nat \ {1} /\ MaxRetries \in Nat /\ MaxJson \in Nat
ASSUME ReportsAreTyped == /\ Verdicts \subseteq Statuses \ {"none"}
                          /\ Qualities \subseteq Percent /\ Qualities # {}
                          /\ Severities \subseteq Percent
                          /\ FlagCounts \subseteq Nat /\ 0 \in FlagCounts

NoText == -1
NoNote == "no note"
NoTier == "no tier"

VARIABLES pc,         \* the pass or stage about to run
          resume,     \* where to go on once a checkpoint is told
          asked,      \* roster entries tried in Pass 1
          survivors,  \* candidates that produced a text
          attempt,    \* corrective attempts the current pass has used
          claims, flagged, report,
          unstored,   \* trace lines not yet in the row
          untold,     \* trace lines not yet yielded
          record      \* the stored row
vars == <<pc, resume, asked, survivors, attempt, claims, flagged, report,
          unstored, untold, record>>

JsonPasses == {"Pass 0", "Pass 2", "Pass 3a", "Pass 3b", "Pass 3c", "Pass 4",
               "Pass 6a", "Pass 6b"}
TextPasses == {"Pass 1", "Final synthesis"}
CodeStages == {"D0", "Pass 5", "D1", "D2", "Pass 6c", "Merge", "Finish"}
Ended == {"complete", "failed", "abandoned"}
Stages == JsonPasses \cup TextPasses \cup CodeStages

Claim == [factual: BOOLEAN, contested: BOOLEAN, status: Statuses,
          quality: Percent, severity: Percent, flags: Nat,
          tier: Tiers \cup {NoTier}, retries: Nat, revision: Nat,
          final: Nat \cup {NoText}, note: Tiers \cup {NoNote},
          \* what its verdicts are about: the text it has, or an older one, of
          \* which Pass 6b was asked again and left it out, all or half of it
          basis: {"text", "older", "left out"}]

ASSUME NoReportIsNone == \A S \in SUBSET ClaimIds : NoReport \notin [S -> Claim]

Extracted == DOMAIN claims
FactualClaims == {c \in Extracted : claims[c].factual}
EvidenceOf(cl) == [factual |-> cl.factual, status |-> cl.status,
                   quality |-> cl.quality, severity |-> cl.severity,
                   flags |-> cl.flags]

(* effective_n: candidates are compared only when there are two of them. *)
Compared == IF survivors >= 2 THEN survivors ELSE 0

----------------------------------------------------------------------------
Init == /\ pc = "Pass 0" /\ resume = "Pass 1"
        /\ asked = 0 /\ survivors = 0 /\ attempt = 0
        /\ claims = << >> /\ flagged = {} /\ report = NoReport
        /\ unstored = 0 /\ untold = 0
        /\ record = [status |-> "running", claims |-> << >>, report |-> NoReport]

(* A slip: the row keeps the claims it had. *)
SnapshotBehind(st) == record' = [status |-> st, claims |-> record.claims, report |-> report']

(* _Progress.checkpoint at the end of a stage: log a line, store the run,  *)
(* then yield every line that has not been yielded.  A stage that left its *)
(* work in the run and could not store it, or was abandoned on the way, is *)
(* the same to the row as one that did not get there.                      *)
Snapshot(st) == record' = [status |-> st, claims |-> claims', report |-> report']

(* A slip: the line is told first and stored with the next one. *)
ToldFirst == /\ pc' = IF untold = 0 THEN resume' ELSE "tell"
             /\ unstored' = unstored + 1
             /\ UNCHANGED <<untold, record>>

Stored == /\ pc' = "tell"
          /\ untold' = untold + 1 /\ unstored' = 0
          /\ Snapshot("running")

NotStored == /\ pc' = "failing"
             /\ untold' = untold + 1 /\ unstored' = unstored + 1
             /\ UNCHANGED record

Checkpoint(next) == resume' = next /\ (Stored \/ NotStored)

Tell == /\ pc = "tell"
        /\ untold' = untold - 1
        /\ pc' = IF untold = 1 THEN resume ELSE "tell"
        /\ UNCHANGED <<resume, asked, survivors, attempt, claims, flagged, report,
                       unstored, record>>

(* A compaction inside a pass is told as a line as it happens.  That line  *)
(* is not the run's: it enters neither its log nor its row.                *)
Notice == pc \in JsonPasses \cup TextPasses /\ UNCHANGED vars

----------------------------------------------------------------------------
(* A JSON pass whose answer does not parse or has the wrong shape is asked *)
(* again in its own thread, MaxJson times, and then fails the run.         *)
Reject == /\ pc \in JsonPasses
          /\ IF attempt < MaxJson
               THEN /\ attempt' = attempt + 1 /\ pc' = pc
                    /\ unstored' = unstored + 1 /\ untold' = untold + 1
               ELSE /\ pc' = "failing" /\ UNCHANGED <<attempt, unstored, untold>>
          /\ UNCHANGED <<resume, asked, survivors, claims, flagged, report, record>>

(* The provider fails, or the answer was cut off. *)
PassFails == /\ pc \in JsonPasses \cup TextPasses
             /\ pc = "Pass 1" => RosterSize = 0
             /\ pc' = "failing"
             /\ UNCHANGED <<resume, asked, survivors, attempt, claims, flagged, report,
                            unstored, untold, record>>

Plan == /\ pc = "Pass 0" /\ attempt' = 0
        /\ UNCHANGED <<asked, survivors, claims, flagged, report>>
        /\ Checkpoint("Pass 1")

(* One roster entry; one that fails is named and skipped. *)
Candidate == /\ pc = "Pass 1" /\ asked < RosterSize
             /\ asked' = asked + 1
             /\ survivors' \in {survivors, survivors + 1}
             /\ unstored' = unstored + 1 /\ untold' = untold + 1
             /\ UNCHANGED <<pc, resume, attempt, claims, flagged, report, record>>

Generate == /\ pc = "Pass 1" /\ asked = RosterSize
            /\ RosterSize > 0 => survivors > 0
            /\ UNCHANGED <<asked, survivors, attempt, claims, flagged, report>>
            /\ Checkpoint("Pass 2")

(* With no candidate left there is nothing to extract from. *)
NoCandidate == /\ pc = "Pass 1" /\ RosterSize > 0 /\ asked = RosterSize /\ survivors = 0
               /\ pc' = "failing"
               /\ UNCHANGED <<resume, asked, survivors, attempt, claims, flagged, report,
                              unstored, untold, record>>

Fresh(factual, contested) ==
  [factual |-> factual, contested |-> contested, status |-> "none",
   quality |-> 0, severity |-> 0, flags |-> 0, tier |-> NoTier, retries |-> 0,
   revision |-> 0, final |-> NoText, note |-> NoNote, basis |-> "text"]

Extract == /\ pc = "Pass 2"
           /\ \E S \in SUBSET ClaimIds :
                \E factual \in [S -> BOOLEAN], asserted \in [S -> 0..Compared] :
                  claims' = [c \in S |->
                    Fresh(factual[c], Contested(factual[c], asserted[c], Compared))]
           /\ attempt' = 0 /\ UNCHANGED <<asked, survivors, flagged, report>>
           /\ Checkpoint("D0")

(* Gate D0: only factual claims are grounded and critiqued. *)
Route == /\ pc = "D0"
         /\ UNCHANGED <<asked, survivors, attempt, claims, flagged, report>>
         /\ Checkpoint(IF FactualClaims = {} THEN "Pass 3c" ELSE "Pass 3a")

----------------------------------------------------------------------------
(* An answer about a batch covers any part of it: a claim it leaves out    *)
(* keeps what it had, and what it says of other claims is dropped.         *)
Answers(batch, values) == UNION {[S -> values] : S \in SUBSET batch}

Verdict(cs, statuses, c) == IF c \in DOMAIN statuses THEN statuses[c] ELSE cs[c].status

(* What the sources of a batch may be scored.  The quality of sources that *)
(* support nothing is not kept: no formula reads it.                       *)
Scores(cs, batch, statuses) ==
  [{c \in batch : GroundingWeight(Verdict(cs, statuses, c)) > 0} -> Qualities]

(* A slip: what was retrieved for a batch rescores the whole run. *)
GroundedEverywhere(cs, batch, statuses, quality) ==
  [c \in DOMAIN cs |->
    LET s == Verdict(cs, statuses, c)
    IN  [cs[c] EXCEPT !.status = s,
                      !.quality = IF c \in DOMAIN quality THEN quality[c]
                                  ELSE IF GroundingWeight(s) = 0 THEN 0
                                  ELSE CHOOSE q \in Qualities : \A r \in Qualities : q <= r]]

(* Statuses land on the claims named; then every claim of the batch that has *)
(* sources is scored again on all that the run has retrieved.              *)
Grounded(cs, batch, statuses, quality) ==
  [c \in DOMAIN cs |->
    IF c \notin batch THEN cs[c]
    ELSE [cs[c] EXCEPT !.status = Verdict(cs, statuses, c),
                       !.quality = IF c \in DOMAIN quality THEN quality[c] ELSE 0]]

Critiqued(cs, severities) ==
  [c \in DOMAIN cs |-> [cs[c] EXCEPT !.severity =
                          IF c \in DOMAIN severities THEN severities[c] ELSE @]]

Retiered(cs, batch) ==
  [c \in DOMAIN cs |-> [cs[c] EXCEPT !.tier =
                          IF c \in batch THEN Tier(EvidenceOf(cs[c])) ELSE @]]

Ground == /\ pc = "Pass 3a"
          /\ \E statuses \in Answers(FactualClaims, Verdicts) :
              \E quality \in Scores(claims, FactualClaims, statuses) :
               claims' = Grounded(claims, FactualClaims, statuses, quality)
          /\ attempt' = 0 /\ UNCHANGED <<asked, survivors, flagged, report>>
          /\ Checkpoint("Pass 3b")

Critique == /\ pc = "Pass 3b"
            /\ \E severities \in Answers(FactualClaims, Severities) :
                 claims' = Critiqued(claims, severities)
            /\ attempt' = 0 /\ UNCHANGED <<asked, survivors, flagged, report>>
            /\ Checkpoint("Pass 3c")

Complete == /\ pc = "Pass 3c" /\ attempt' = 0 /\ UNCHANGED <<asked, survivors, claims, flagged, report>>
            /\ Checkpoint("Pass 4")

Audit == /\ pc = "Pass 4"
         /\ \E flags \in [Extracted -> FlagCounts] :
              claims' = [c \in Extracted |-> [claims[c] EXCEPT !.flags = flags[c]]]
         /\ attempt' = 0 /\ UNCHANGED <<asked, survivors, flagged, report>>
         /\ Checkpoint("Pass 5")

Score == /\ pc = "Pass 5"
         /\ claims' = Retiered(claims, Extracted)
         /\ UNCHANGED <<asked, survivors, attempt, flagged, report>>
         /\ Checkpoint("D1")

(* D1 takes in what scored badly and what the candidates disagree about.   *)
Flag == /\ pc = "D1"
        /\ flagged' = {c \in Extracted :
                        claims[c].tier \in FlaggedTiers \/ claims[c].contested}
        /\ UNCHANGED <<asked, survivors, attempt, claims, report>>
        /\ Checkpoint(IF flagged' = {} THEN "Pass 6c" ELSE "Pass 6a")

----------------------------------------------------------------------------
(* A slip: only the claims the answer names have used a retry. *)
RevisedCountsNamed(cs, batch, named) ==
  [c \in DOMAIN cs |->
    LET n == cs[c].retries + (IF c \in batch \cap named THEN 1 ELSE 0) IN
    [cs[c] EXCEPT !.retries = n,
                  !.revision = IF c \in batch \cap named THEN n ELSE @,
                  !.basis = IF c \in batch \cap named THEN "older" ELSE @]]

(* A slip: a revision lands on whichever claim it names. *)
RevisedAnywhere(cs, batch, named) ==
  [c \in DOMAIN cs |->
    LET n == cs[c].retries + (IF c \in batch THEN 1 ELSE 0) IN
    [cs[c] EXCEPT !.retries = n, !.revision = IF c \in named THEN n + 1 ELSE @,
                  !.basis = IF c \in named THEN "older" ELSE @]]

(* The round is counted on every flagged claim, not only on the ones the   *)
(* answer revises: the answer cannot keep the loop going.                  *)
Revised(cs, batch, named) ==
  [c \in DOMAIN cs |->
    LET n == cs[c].retries + (IF c \in batch THEN 1 ELSE 0) IN
    [cs[c] EXCEPT !.retries = n,
                  !.revision = IF c \in batch \cap named THEN n ELSE @,
                  !.basis = IF c \in batch \cap named THEN "older" ELSE @]]

Revise == /\ pc = "Pass 6a"
          /\ \E named \in SUBSET Extracted :
               /\ named = {} \/ named \cap flagged # {}
               /\ claims' = Revised(claims, flagged, named)
          /\ attempt' = 0 /\ UNCHANGED <<asked, survivors, flagged, report>>
          /\ Checkpoint("Pass 6b")

(* Both verdicts of a claim are of its text once one answer gave both; what *)
(* an answer leaves out stands as it was, whatever text it was about.      *)
Reread(cs, batch, both) ==
  [c \in DOMAIN cs |-> [cs[c] EXCEPT !.basis =
     IF c \in both THEN "text" ELSE IF c \in batch /\ @ = "older" THEN "left out" ELSE @]]

Revalidated(cs, batch, statuses, quality, severities) ==
  Reread(Retiered(Critiqued(Grounded(cs, batch, statuses, quality), severities), batch),
         batch, DOMAIN statuses \cap DOMAIN severities)

StillFlagged(cs) == {c \in flagged : cs[c].tier \in FlaggedTiers}

Revalidate == /\ pc = "Pass 6b"
              /\ \E statuses \in Answers(flagged, Verdicts),
                    severities \in Answers(flagged, Severities) :
                  \E quality \in Scores(claims, flagged, statuses) :
                   claims' = Revalidated(claims, flagged, statuses, quality, severities)
              /\ flagged' = StillFlagged(claims')
              /\ attempt' = 0 /\ UNCHANGED <<asked, survivors, report>>
              /\ Checkpoint("D2")

(* A claim out of retries is published as unverified.  Each one has a      *)
(* checkpoint of its own; the loop goes on with the others.                *)
Exhausted == {c \in flagged : claims[c].retries >= MaxRetries}

(* A slip: the warning is written and the tier left as it is. *)
FallBackInWords == /\ pc = "D2"
                   /\ \E c \in Exhausted :
                        /\ claims' = [claims EXCEPT ![c].note = "UNVERIFIED",
                                                    ![c].final = claims[c].revision]
                        /\ flagged' = flagged \ {c}
                   /\ UNCHANGED <<asked, survivors, attempt, report>>
                   /\ Checkpoint("D2")

FallBack == /\ pc = "D2"
            /\ \E c \in Exhausted :
                 /\ claims' = [claims EXCEPT ![c].tier = "UNVERIFIED", ![c].note = "UNVERIFIED",
                                             ![c].final = claims[c].revision]
                 /\ flagged' = flagged \ {c}
            /\ UNCHANGED <<asked, survivors, attempt, report>>
            /\ Checkpoint("D2")

NextRound == /\ pc = "D2" /\ Exhausted = {}
             /\ pc' = IF flagged = {} THEN "Pass 6c" ELSE "Pass 6a"
             /\ UNCHANGED <<resume, asked, survivors, attempt, claims, flagged, report,
                            unstored, untold, record>>

(* A slip: only revised claims are given their final text. *)
AnnotateRevised == /\ pc = "Pass 6c"
                   /\ claims' = [c \in Extracted |->
                        [claims[c] EXCEPT
                           !.final = IF @ = NoText /\ claims[c].revision > 0
                                       THEN claims[c].revision ELSE @,
                           !.note = IF @ = NoNote THEN claims[c].tier ELSE @]]
                   /\ UNCHANGED <<asked, survivors, attempt, flagged, report>>
                   /\ Checkpoint("Merge")

Annotate == /\ pc = "Pass 6c"
            /\ claims' = [c \in Extracted |->
                 [claims[c] EXCEPT
                    !.final = IF @ = NoText THEN claims[c].revision ELSE @,
                    !.note = IF @ = NoNote THEN claims[c].tier ELSE @]]
            /\ UNCHANGED <<asked, survivors, attempt, flagged, report>>
            /\ Checkpoint("Merge")

Merge == /\ pc = "Merge" /\ UNCHANGED <<asked, survivors, attempt, claims, flagged, report>>
         /\ Checkpoint("Final synthesis")

Synthesise == /\ pc = "Final synthesis"
              /\ report' = claims
              /\ UNCHANGED <<asked, survivors, attempt, claims, flagged>>
              /\ Checkpoint("Finish")

----------------------------------------------------------------------------
(* The last update carries the status; only then is the run handed over.   *)
Finish == /\ pc = "Finish"
          /\ pc' = "complete" /\ unstored' = 0
          /\ UNCHANGED <<resume, asked, survivors, attempt, claims, flagged, report, untold>>
          /\ Snapshot("complete")

FinishFails == /\ pc = "Finish" /\ pc' = "failing"
               /\ UNCHANGED <<resume, asked, survivors, attempt, claims, flagged, report,
                              unstored, untold, record>>

(* A generator that is left, by an error or by whoever iterated it, takes   *)
(* the run it held with it: the row is what remains.                       *)
Drop(end) == /\ pc' = end /\ resume' = "Finish"
             /\ asked' = 0 /\ survivors' = 0 /\ attempt' = 0
             /\ claims' = << >> /\ flagged' = {} /\ report' = NoReport
             /\ unstored' = 0 /\ untold' = 0

(* The exception handler stores what there is, if it can, and lets the     *)
(* error through.                                                          *)
Fail == /\ pc = "failing"
        /\ \/ record' = [status |-> "failed", claims |-> claims, report |-> report]
           \/ UNCHANGED record
        /\ Drop("failed")

(* Whoever iterates the run stops: at a line just told, or while a pass    *)
(* reports what it does.  Nothing runs after that, the handler above least *)
(* of all.                                                                 *)
Abandon == /\ pc \in {"tell"} \cup JsonPasses \cup TextPasses
           /\ Drop("abandoned")
           /\ UNCHANGED record

Code == \/ Tell \/ Notice \/ Reject \/ PassFails
        \/ Plan \/ Candidate \/ Generate \/ NoCandidate \/ Extract \/ Route \/ Ground \/ Critique
        \/ Complete \/ Audit \/ Score \/ Flag \/ Revise \/ Revalidate \/ FallBack
        \/ NextRound \/ Annotate \/ Merge \/ Synthesise \/ Finish \/ FinishFails \/ Fail
Next == Code \/ Abandon

Spec == Init /\ [][Next]_vars
(* The run is iterated to its end unless it is abandoned. *)
FairSpec == Spec /\ WF_vars(Code)

----------------------------------------------------------------------------
PipelineTypeOK ==
  /\ pc \in Stages \cup Ended \cup {"tell", "failing"} /\ resume \in Stages
  /\ asked \in 0..RosterSize /\ survivors \in 0..asked /\ attempt \in 0..MaxJson
  /\ Extracted \subseteq ClaimIds /\ claims \in [Extracted -> Claim]
  /\ flagged \subseteq Extracted
  /\ unstored \in Nat /\ untold \in Nat
  /\ record.status \in {"running", "complete", "failed"}

Tiered == {c \in Extracted : claims[c].tier # NoTier}
Finished(c) == claims[c].final # NoText

(* A published tier is always the one the formula gives for the verdicts   *)
(* the claim carries, or the UNVERIFIED of a claim whose retries ran out: a *)
(* round never changes the verdicts of a claim without scoring it again.   *)
ScoreIsCurrent ==
    \A c \in Tiered : \/ claims[c].tier = Tier(EvidenceOf(claims[c]))
                      \/ Finished(c) /\ claims[c].tier = "UNVERIFIED"
                                     /\ claims[c].retries >= MaxRetries

(* What is printed beside a claim is its tier, and its latest text: nothing *)
(* done for other claims reaches one that is finished.                     *)
AnnotationSaysTier ==
  \A c \in Extracted : Finished(c) => /\ claims[c].note = claims[c].tier
                                      /\ claims[c].final = claims[c].revision

(* No rewritten text is published before Pass 6b was asked about it.  That *)
(* is less than README.md:210 says of the pass ("re-ground and re-critique  *)
(* them"): a claim its answer leaves out is published with verdicts about  *)
(* a text it no longer has.                                                *)
TextWasAskedAbout == \A c \in Extracted : Finished(c) => claims[c].basis # "older"

(* Of the lines the run logs, none is told before the row holds it.  The   *)
(* notice of a compaction is told and never logged (Notice), although the  *)
(* comments at core/reasoning/orchestrator.py:111-147 and 237-238 have     *)
(* every trace line stored first.                                          *)
LinesAreStoredFirst == unstored <= untold

(* A row that says "complete" has a report about its own claims, and every *)
(* one of them has its final text and a tier.                              *)
RecordIsWhole ==
  record.status = "complete" =>
    /\ record.report = record.claims
    /\ \A c \in DOMAIN record.claims : /\ record.claims[c].final # NoText
                                       /\ record.claims[c].tier # NoTier

(* A claim that was never grounded is not published as HIGH, and one the   *)
(* search spoke against is not published as anything but UNVERIFIED.       *)
UnsupportedIsNotHigh ==
  \A c \in Extracted : Finished(c) =>
    /\ claims[c].status = "none" => claims[c].tier # "HIGH"
    /\ claims[c].factual /\ claims[c].status = "ungrounded" => claims[c].tier = "UNVERIFIED"

(* At every point of the revision loop the tier and the tag of a claim are *)
(* those of the verdicts it carries, its final text is its latest, and the  *)
(* verdicts are about that text unless Pass 6b, asked again, left it out.  *)
PublishedIsCurrent == /\ ScoreIsCurrent /\ AnnotationSaysTier /\ UnsupportedIsNotHigh
                      /\ TextWasAskedAbout

(* In the revision loop nothing happens to a claim that is not in it: an   *)
(* answer that names one, or a round of the others, leaves it as it is.    *)
FinishedIsLeftAlone ==
  [][(pc \in {"Pass 6a", "Pass 6b"} /\ pc' = "tell") =>
       \A c \in Extracted \ flagged : claims'[c] = claims[c]]_vars

(* A run that is not abandoned ends: the answers of the passes cannot keep *)
(* the revision loop going.                                                *)
RunEnds == <>(pc \in Ended)

(* The row is a record of a run, whole when it says so, and never behind   *)
(* the logged lines whoever follows the run was told.                      *)
Archive == INSTANCE RunRecord WITH None <- NoReport, status <- record.status,
                                   claims <- record.claims, report <- record.report
RowIsRecord == Archive!Spec /\ [](RecordIsWhole /\ LinesAreStoredFirst)
=============================================================================
