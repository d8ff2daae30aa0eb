----------------------------- MODULE Compaction -----------------------------
(***************************************************************************)
(* One conversation thread and the folding of its past into a summary:     *)
(* storage.py (MessageLog, CompactionCheckpoint), core/memory.py           *)
(* (ConversationMemory) and core/compaction.py (compact, compactable_span),*)
(* driven by turns (core/loop.py _maybe_compact), by the pin and unpin     *)
(* tools and by /compact.  The process may stop at any moment; the         *)
(* database keeps what was committed and the next shell resumes from it.   *)
(*                                                                         *)
(* Rows are written by one process, so their order is the order of the     *)
(* writes and a row's id is its position.  A size is a number of tokens;   *)
(* the proxy, the images' weight, and the wording and length of a summary  *)
(* are left out.  What a summary represents is a ghost, `covers`, and so   *)
(* is what was cut from the text it was made from, `cut`.                  *)
(*                                                                         *)
(* A definition right before another of the same parameters, which nothing *)
(* uses, is the second one with a plausible bug in it.                     *)
(***************************************************************************)
EXTENDS Naturals, Sequences, FiniteSets, FiniteSetsExt

CONSTANTS
  Sizes,       \* sizes a message or a tool result may have
  Trigger,     \* thresholds(): the working set's compact_at
  KeepTokens,  \* compaction.keep_recent_tokens
  KeepTurns,   \* compaction.keep_recent_turns
  Strategies,  \* values compaction.strategy takes in the thread's life
  Budget,      \* _input_budget: what one call of the compactor can be sent
  PinCap,      \* pin_measurements()["max_tokens"]
  MaxCalls,    \* a bound: tool calls of one response
  MaxRows      \* a bound: rows of the archive

ASSUME SizesAssumption == Sizes \subseteq Nat \ {0} /\ Sizes # {}
ASSUME SettingsAssumption ==
  /\ {KeepTokens, KeepTurns, PinCap} \subseteq Nat
  /\ Trigger \in Nat /\ KeepTokens < Trigger
  /\ Budget \in Nat \ {0}
  /\ Strategies \subseteq {"chain", "rederive"} /\ Strategies # {}
ASSUME BoundsAssumption == {MaxCalls, MaxRows} \subseteq Nat

VARIABLES
  rows,        \* MessageLog, in _ordered_rows' order
  checkpoint,  \* the latest CompactionCheckpoint
  live,        \* ConversationMemory._messages: the rows it shows
  measured,    \* last_input_tokens, against the trigger
  pc,          \* where the turn is
  pending,     \* tool calls of the last response without a row
  latched,     \* compaction_failed was said in this turn
  fold,        \* what the compactor has been asked to summarize
  released     \* a ghost: rows unpinned after a fold had left them out

vars == <<rows, checkpoint, live, measured, pc, pending, latched, fold, released>>

None == [upTo |-> 0, covers |-> {}, cut |-> {}]
InTurn == {"boundary", "calling", "dispatch", "folding", "saved"}

Last == Len(rows)
Role(i) == rows[i].role
Starts == {i \in 1..Last : Role(i) = "user"}
Size(S) == MapThenSumSet(LAMBDA i : rows[i].size, S)

Row == [role : {"user", "assistant", "tool"}, of : Nat, pinned : BOOLEAN, size : Nat]
Summary == [upTo : 0..Last, covers : SUBSET (1..Last), cut : SUBSET (1..Last)]

CompactTypeOK ==
  /\ rows \in Seq(Row)
  /\ checkpoint \in Summary
  /\ live \subseteq 1..Last
  /\ measured \in {"none", "under", "over"}
  /\ pc \in InTurn \cup {"idle", "asked", "kept"}
  /\ pending \in 0..MaxCalls
  /\ latched \in BOOLEAN
  /\ fold \in Summary
  /\ released \subseteq 1..Last

Init ==
  /\ rows = <<>> /\ checkpoint = None /\ live = {}
  /\ measured = "none" /\ pc = "idle" /\ pending = 0 /\ latched = FALSE
  /\ fold = None /\ released = {}

-----------------------------------------------------------------------------
(* The derived view (_derived_view, pinned_through).                       *)

Behind == 1..checkpoint.upTo
Ahead == checkpoint.upTo + 1 .. Last

PinnedBehind == {i \in Behind : rows[i].pinned}

\* The pinned rows behind the watermark, made whole: with a pinned response
\* come the results of its calls.
Pinned ==
  PinnedBehind
  \cup {i \in Behind : Role(i) = "tool" /\ rows[i].of \in PinnedBehind}

NoOpener == {}

\* The request of the turn a watermark inside a turn has cut.
Opener ==
  IF Behind # {} /\ Ahead # {} /\ Role(checkpoint.upTo + 1) # "user"
  THEN {i \in Behind \cap Starts : \A j \in Behind \cap Starts : j <= i}
  ELSE {}

DerivedView == Pinned \cup Opener \cup Ahead

\* What the next request weighs, the summary being one token.
Weight == Size(live) + (IF checkpoint = None THEN 0 ELSE 1)
Measure == IF Weight >= Trigger THEN "over" ELSE "under"

-----------------------------------------------------------------------------
(* The span a fold may take (compactable_span, _sub_turn_span).  Boundaries *)
(* are first kept rows; 0 is no boundary.                                  *)

AnyKeeping(candidates) == Max(candidates)

\* The latest of the candidates that leaves KeepTokens behind it, else the first.
LatestKeeping(candidates) ==
  LET enough == {c \in candidates : Size(c..Last) >= KeepTokens}
  IN  IF enough # {} THEN Max(enough) ELSE Min(candidates)

\* Cut between a response and its results.
RowBoundary(opener) ==
  IF Last < opener + 3 THEN 0 ELSE LatestKeeping(opener + 2 .. Last)

\* Inside the turn that began at `opener`, whole steps at a time.
StepBoundary(opener) ==
  LET steps == {i \in opener + 1 .. Last : Role(i) = "assistant"}
  IN  IF Cardinality(steps) < 2 THEN 0 ELSE LatestKeeping(steps \ {Min(steps)})

EarlierTurns(start) == Cardinality({s \in Starts : s < start})

\* The turn the two floors that measure allow, and then the count of turns
\* when it leaves anything.
TurnBoundary(inTurn) ==
  LET floor  == LatestKeeping(Starts)
      within == IF inTurn THEN Min({floor, Max(Starts)}) ELSE floor
      counted == {s \in Starts : s <= within
                    /\ EarlierTurns(s) + KeepTurns <= Cardinality(Starts)}
      kept   == IF counted = {} THEN 0 ELSE Max(counted)
  IN  IF kept > Min(Starts) THEN kept ELSE within

WorthIt(start) == Size(1..start - 1) >= KeepTokens

\* The id compactable_span returns: the last row that may be folded.
Span(inTurn) ==
  IF Starts = {} THEN 0 ELSE
  LET turn   == TurnBoundary(inTurn)
      inside == StepBoundary(Max(Starts))
  IN  IF turn > 1 /\ (WorthIt(turn) \/ inside = 0) THEN turn - 1
      ELSE IF inside > 0 THEN inside - 1 ELSE 0

-----------------------------------------------------------------------------
(* compact().                                                              *)

AnyWatermark(upTo) == upTo > 0
Advances(upTo) == upTo > checkpoint.upTo

\* history_through: what is sent to the compactor, pinned rows left out.
Segment(upTo, after) == {i \in after + 1 .. upTo : ~rows[i].pinned}

Chains(strategy) == checkpoint # None /\ strategy = "chain"

\* Whether there is a fold to make: not when the floors hold everything, when
\* the boundary has not moved, or when everything new is pinned.
Foldable(inTurn, strategy) ==
  /\ Advances(Span(inTurn))
  /\ Segment(Span(inTurn), IF Chains(strategy) THEN checkpoint.upTo ELSE 0) # {}

\* Onto the last summary if it is configured, or if the archive from the top
\* outgrows one call.
OntoLast(upTo, strategy) ==
  \/ Chains(strategy)
  \/ checkpoint # None /\ Size(Segment(upTo, 0)) > Budget

NoneEarlier(chained) == None

\* The summary a fold starts from.
Earlier(chained) == IF chained THEN checkpoint ELSE None

Oldest(S) == {i \in S : Size({j \in S : j <= i}) <= Budget}

\* _truncate_oldest: the rows one call takes whole, counted from the latest.
Newest(S) == {i \in S : Size({j \in S : j >= i}) <= Budget}

\* What the compactor is sent: the earlier summary, one token, and the rows after
\* it.  Over the budget the earliest text goes, the summary before any row; a row
\* that loses some of its text counts as cut.
Summarized(upTo, chained) ==
  LET earlier == Earlier(chained)
      segment == Segment(upTo, IF chained THEN checkpoint.upTo ELSE 0)
      newest  == Newest(segment)
      fits    == Size(segment) + (IF chained THEN 1 ELSE 0) <= Budget
  IN  [upTo   |-> upTo,
       covers |-> IF fits THEN earlier.covers \cup segment ELSE newest,
       cut    |-> IF fits THEN earlier.cut
                  ELSE earlier.cut \cup earlier.covers \cup (segment \ newest)]

BeginFold(inTurn, next) ==
  /\ \E strategy \in Strategies :
       /\ Foldable(inTurn, strategy)
       /\ fold' = Summarized(Span(inTurn), OntoLast(Span(inTurn), strategy))
  /\ pc' = next
  /\ UNCHANGED <<rows, checkpoint, live, measured, pending, latched, released>>

\* The compactor answered: one row is added, unless the watermark went back.
SaveCheckpoint(next) ==
  /\ checkpoint' = IF Advances(fold.upTo) THEN fold ELSE checkpoint
  /\ fold' = None
  /\ pc' = next
  /\ UNCHANGED <<rows, live, measured, pending, latched, released>>

\* apply_checkpoint: the view is read again, never spliced.
Rebuild(next) ==
  /\ live' = DerivedView
  /\ pc' = next
  /\ UNCHANGED <<rows, checkpoint, measured, pending, latched, fold, released>>

\* The compactor raised or answered nothing.
FoldFails(next) ==
  /\ fold' = None /\ latched' = TRUE /\ pc' = next
  /\ UNCHANGED <<rows, checkpoint, live, measured, pending, released>>

-----------------------------------------------------------------------------
(* A turn.                                                                 *)

\* save_message and the in-memory entry beside it.
Write(role, of, size) ==
  /\ Last < MaxRows
  /\ rows' = Append(rows, [role |-> role, of |-> of, pinned |-> FALSE,
                           size |-> size])
  /\ live' = live \cup {Last + 1}

StartTurn(size) ==
  /\ pc = "idle"
  /\ Write("user", 0, size)
  /\ pc' = "boundary" /\ latched' = FALSE
  /\ UNCHANGED <<checkpoint, measured, pending, fold, released>>

\* What the trigger reads: the provider's last count, or an estimate.
Due == "over" = (IF measured = "none" THEN Measure ELSE measured) /\ ~latched

NotFolding ==
  /\ pc = "boundary" /\ ~(Due /\ \A strategy \in Strategies : Foldable(TRUE, strategy))
  /\ pc' = "calling"
  /\ UNCHANGED <<rows, checkpoint, live, measured, pending, latched, fold, released>>

TurnFolds == pc = "boundary" /\ Due /\ BeginFold(TRUE, "folding")
TurnFoldFails == pc = "folding" /\ FoldFails("calling")
TurnFolded == pc = "folding" /\ SaveCheckpoint("saved")
TurnRebuilds == pc = "saved" /\ Rebuild("calling")

Respond(calls) ==
  /\ pc = "calling"
  /\ Write("assistant", 0, 1)
  /\ measured' = Measure
  /\ pending' = calls
  /\ pc' = IF calls = 0 THEN "idle" ELSE "dispatch"
  /\ UNCHANGED <<checkpoint, latched, fold, released>>

\* The model call failed for good, or the turn has no steps left.
TurnEnds ==
  /\ pc = "calling"
  /\ pc' = "idle"
  /\ UNCHANGED <<rows, checkpoint, live, measured, pending, latched, fold, released>>

LastResponse == Max({i \in 1..Last : Role(i) = "assistant"})

Answer(size) ==
  /\ pc = "dispatch"
  /\ Write("tool", LastResponse, size)
  /\ pending' = pending - 1
  /\ pc' = IF pending = 1 THEN "boundary" ELSE "dispatch"
  /\ UNCHANGED <<checkpoint, measured, latched, fold, released>>

\* The rows of the last n turns (pin_last, unpin_last).
LastTurns(n) ==
  {i \in 1..Last : Cardinality({s \in Starts : s > i}) < n}

SetPinned(S, flag) ==
  rows' = [i \in 1..Last |->
             IF i \in S THEN [rows[i] EXCEPT !.pinned = flag] ELSE rows[i]]

\* The pin tool refuses what would protect more than its share.
Pin(n) ==
  /\ pc = "dispatch"
  /\ Size(LastTurns(n)) <= PinCap
  /\ SetPinned(LastTurns(n), TRUE)
  /\ UNCHANGED <<checkpoint, live, measured, pc, pending, latched, fold, released>>

Unpin(n) ==
  /\ pc = "dispatch"
  /\ SetPinned(LastTurns(n), FALSE)
  /\ released' = released \cup (LastTurns(n) \cap PinnedBehind)
  /\ UNCHANGED <<checkpoint, live, measured, pc, pending, latched, fold>>

-----------------------------------------------------------------------------
(* /compact between turns, and the end of a process.                       *)

Compact == pc = "idle" /\ BeginFold(FALSE, "asked")
CompactFails == pc = "asked" /\ FoldFails("idle")
Compacted == pc = "asked" /\ SaveCheckpoint("kept")
CompactRebuilds == pc = "kept" /\ Rebuild("idle")

\* The process stops anywhere; a shell resumes the thread from the database.
Resume ==
  /\ pc' = "idle" /\ pending' = 0 /\ latched' = FALSE /\ fold' = None
  /\ live' = DerivedView
  /\ UNCHANGED <<rows, checkpoint, measured, released>>

Full == Last = MaxRows /\ UNCHANGED vars

Next ==
  \/ \E s \in Sizes : StartTurn(s) \/ Answer(s)
  \/ NotFolding \/ TurnFolds \/ TurnFoldFails \/ TurnFolded \/ TurnRebuilds
  \/ \E c \in 0..MaxCalls : Respond(c)
  \/ TurnEnds
  \/ \E n \in 1..2 : Pin(n) \/ Unpin(n)
  \/ Compact \/ CompactFails \/ Compacted \/ CompactRebuilds
  \/ Resume \/ Full

Spec == Init /\ [][Next]_vars

-----------------------------------------------------------------------------
(* Properties.                                                             *)

Paired(view) ==
  \A t \in 1..Last : Role(t) = "tool" => (t \in view <=> rows[t].of \in view)

\* A call and its result are shown together or not at all (M4, M9), by the view
\* in memory and by the one a resumed thread gets, wherever folds cut, whatever
\* was pinned in the middle of a turn: a result without its call is refused by
\* the provider on every later request.
ViewIsPaired == Paired(live) /\ Paired(DerivedView)

\* While a turn runs, its request is shown verbatim (M5): no fold, by the turn
\* itself and however often, replaces the question being answered.
QuestionStays ==
  pc \in InTurn => Max(Starts) \in live /\ Max(Starts) \in DerivedView

Known == DerivedView \cup checkpoint.covers

\* Nothing of the conversation falls silently between the summary and the view,
\* through any mix of folds, pins, failed folds and restarts: a row is shown, or
\* in the summary, unless unpin released it behind the watermark or the text one
\* call takes had no room for it, which the summary stored with that fold says.
\* What went for want of room is older than all the summary represents.
KeptUnlessDropped ==
  /\ 1..Last \subseteq Known \cup checkpoint.cut \cup released
  /\ \A i \in checkpoint.cut, j \in checkpoint.covers : i < j

\* A fold at a turn's start leaves keep_recent_tokens of the thread verbatim,
\* and never reaches into the turn that is running.
TurnFoldKeepsTail ==
  pc \in {"folding", "asked"} /\ Role(fold.upTo + 1) = "user" =>
    /\ Size(fold.upTo + 1 .. Last) >= KeepTokens
    /\ pc = "folding" => fold.upTo < Max(Starts)

\* The thread is an archive with a watermark (§21 AC1): rows are added one at a
\* time and never edited or removed, and the live checkpoint only moves forward.
Archive == INSTANCE ThreadArchive WITH
  Row <- {"user", "assistant", "tool"},
  log <- [i \in 1..Last |-> Role(i)],
  hidden <- checkpoint.upTo
ArchiveKept == Archive!Spec
=============================================================================
