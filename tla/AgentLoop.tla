------------------------------ MODULE AgentLoop ------------------------------
(***************************************************************************)
(* One turn of the agent loop (core/loop.py: _run, _run_steps,             *)
(* _dispatch_one, _dispatch_parallel, _settle_one, _finish_cancelled).     *)
(* The turn is a generator: its consumer (a shell, or a parent run) pulls  *)
(* events and may go away at any yield.  The model of a step answers with  *)
(* text and tool calls; calls are grouped, run, and answered in the thread *)
(* with one row each.  A row the model asked for and nobody answered       *)
(* leaves a thread no provider accepts again.                              *)
(*                                                                         *)
(* A tool call is the agent a spawn_subagent call names (the one tool      *)
(* declared parallel, and the one whose sign-off is remembered), or        *)
(* "tool" for a call of any other kind.  Compaction at the boundaries, the *)
(* token meters, and a grant budget (a chat turn has none) are left out.   *)
(*                                                                         *)
(* A definition right before another of the same parameters, which nothing *)
(* uses, is the second one with a plausible bug in it: the properties are  *)
(* checked to notice it.                                                   *)
(***************************************************************************)
EXTENDS Naturals, Sequences, FiniteSets

CONSTANTS
  Agents,       \* the agents a spawn may name
  Responses,    \* the tool calls a response may carry
  MaxSteps,     \* max_steps
  MaxRetries,   \* config.MODEL_CALL_MAX_RETRIES
  MaxParallel,  \* config.SUBAGENT_MAX_PARALLEL
  MaxDeltas,    \* a bound: pieces of text streamed in one attempt
  RunScope      \* the channel's honour_run_scope

ASSUME AgentsAssumption == "tool" \notin Agents
ASSUME ResponsesAssumption == Responses \subseteq Seq(Agents \cup {"tool"})
ASSUME LimitsAssumption == /\ MaxSteps \in Nat \ {0} /\ MaxParallel \in Nat \ {0}
                           /\ MaxRetries \in Nat /\ MaxDeltas \in Nat
                           /\ RunScope \in BOOLEAN

VARIABLES
  pc,         \* where the generator is
  step,       \* model calls made
  retry,      \* failed attempts of this step's call
  partial,    \* pieces of text this attempt has accumulated
  screen,     \* pieces of this step's text the consumer has drawn
  stored,     \* pieces of this step's text in the thread
  calls,      \* tool calls of the last response
  worker,     \* how far each of them is
  at, last,   \* the group being run: its first call without a row, its last
  answered,   \* the result rows of calls, in the order they were written
  lost,       \* calls whose row storage refused
  conduit,    \* events of the group not yet handed to the consumer
  signed,     \* agents the user has signed off in this turn
  closing,    \* a GeneratorExit is held until the batch has settled
  cancelled,  \* the turn's CancelToken
  stop        \* stop_reason of the turn

call == <<calls, worker, at, last, answered, lost>>
text == <<retry, partial, screen, stored>>
vars == <<pc, step, text, call, conduit, signed, closing, cancelled, stop>>

Ended == {"done", "failed", "abandoned"}

TurnTypeOK ==
  /\ pc \in {"boundary", "stream", "group", "started", "running", "settle",
             "announce", "unrun"} \cup Ended
  /\ step \in 0..MaxSteps
  /\ retry \in 0..MaxRetries
  /\ {partial, screen, stored} \subseteq 0..MaxDeltas
  /\ calls \in Seq(Agents \cup {"tool"})
  /\ worker \in [1..Len(calls) -> {"idle", "queued", "begun", "asking",
                                   "working", "ran", "refused", "raised"}]
  /\ at \in 1..Len(calls) + 1 /\ last \in 0..Len(calls)
  /\ answered \in Seq(1..Len(calls))
  /\ lost \subseteq 1..Len(calls)
  /\ conduit \in Nat
  /\ signed \subseteq Agents
  /\ {closing, cancelled} \subseteq BOOLEAN
  /\ stop \in {"none", "complete", "max_steps_reached", "cancelled",
               "token_budget_exceeded"}

Init ==
  /\ pc = "boundary" /\ step = 0
  /\ retry = 0 /\ partial = 0 /\ screen = 0 /\ stored = 0
  /\ calls = <<>> /\ worker = <<>> /\ at = 1 /\ last = 0
  /\ answered = <<>> /\ lost = {}
  /\ conduit = 0 /\ signed = {} /\ closing = FALSE /\ cancelled = FALSE
  /\ stop = "none"

-----------------------------------------------------------------------------
(* The step boundary and the model call.                                   *)

EndWith(reason) == pc' = "done" /\ stop' = reason

OutOfSteps ==
  /\ pc = "boundary" /\ step = MaxSteps
  /\ EndWith("max_steps_reached")
  /\ UNCHANGED <<step, text, call, conduit, signed, closing, cancelled>>

StepCancelled ==
  /\ pc = "boundary" /\ step < MaxSteps /\ cancelled
  /\ EndWith("cancelled")
  /\ UNCHANGED <<step, text, call, conduit, signed, closing, cancelled>>

CallModel ==
  /\ pc = "boundary" /\ step < MaxSteps /\ ~cancelled
  /\ pc' = "stream" /\ step' = step + 1
  /\ retry' = 0 /\ partial' = 0 /\ screen' = 0 /\ stored' = 0
  /\ UNCHANGED <<call, conduit, signed, closing, cancelled, stop>>

Delta ==
  /\ pc = "stream" /\ ~cancelled /\ partial < MaxDeltas
  /\ partial' = partial + 1 /\ screen' = screen + 1
  /\ UNCHANGED <<pc, step, retry, stored, call, conduit, signed, closing,
                 cancelled, stop>>

\* The stop seen at a token: what was streamed is kept (CN4).
CutShort ==
  /\ pc = "stream" /\ cancelled
  /\ stored' = partial
  /\ EndWith("cancelled")
  /\ UNCHANGED <<step, retry, partial, screen, call, conduit, signed, closing,
                 cancelled>>

AttemptFailsUnretracted ==
  /\ pc = "stream" /\ retry < MaxRetries
  /\ retry' = retry + 1 /\ partial' = 0
  /\ UNCHANGED <<pc, step, screen, stored, call, conduit, signed, closing,
                 cancelled, stop>>

\* A transient failure: what was drawn is retracted and the call made again.
AttemptFails ==
  /\ pc = "stream" /\ retry < MaxRetries
  /\ retry' = retry + 1 /\ partial' = 0 /\ screen' = 0
  /\ UNCHANGED <<pc, step, stored, call, conduit, signed, closing, cancelled,
                 stop>>

\* Any other failure, of the provider or of writing the assistant's row: the
\* run raises and mark_turn_failed records it.
AttemptRaises ==
  /\ pc = "stream"
  /\ pc' = "failed"
  /\ UNCHANGED <<step, text, call, conduit, signed, closing, cancelled, stop>>

\* The response is complete: its row, with the calls, is written first (D20),
\* whether or not the turn has been cancelled meanwhile.
Respond(r) ==
  /\ pc = "stream"
  /\ calls' = r /\ worker' = [i \in 1..Len(r) |-> "idle"]
  /\ at' = 1 /\ last' = 0 /\ answered' = <<>> /\ lost' = {}
  /\ stored' = partial
  /\ \/ EndWith("token_budget_exceeded")
     \/ r = <<>> /\ EndWith("complete")
     \/ r # <<>> /\ pc' = "group" /\ UNCHANGED stop
  /\ UNCHANGED <<step, retry, partial, screen, conduit, signed, closing,
                 cancelled>>

-----------------------------------------------------------------------------
(* Groups of calls (_parallel_groups) and what a cancelled turn leaves.    *)

\* The group starting at i: the run of spawns it opens, or one other call.
EndsGroup(i, j) ==
  \/ /\ \A k \in i..j : calls[k] \in Agents
     /\ j < Len(calls) => calls[j + 1] \notin Agents
  \/ calls[i] \notin Agents /\ j = i

Row == answered' = Append(answered, at) /\ at' = at + 1

GroupsDone ==
  /\ pc = "group" /\ at > Len(calls)
  /\ pc' = "boundary"
  /\ UNCHANGED <<step, text, call, conduit, signed, closing, cancelled, stop>>

GroupsDropped ==
  /\ pc = "group" /\ at <= Len(calls) /\ cancelled
  /\ EndWith("cancelled")
  /\ UNCHANGED <<step, text, call, conduit, signed, closing, cancelled>>

GroupsCancelled ==
  /\ pc = "group" /\ at <= Len(calls) /\ cancelled
  /\ pc' = "unrun" /\ stop' = "cancelled" /\ last' = Len(calls)
  /\ UNCHANGED <<step, text, calls, worker, at, answered, lost, conduit, signed,
                 closing, cancelled>>

\* _finish_cancelled answers a call that will not run, then announces it.
UnrunRow ==
  /\ pc = "unrun" /\ at <= last
  /\ Row
  /\ UNCHANGED <<pc, step, text, calls, worker, last, lost, conduit, signed,
                 closing, cancelled, stop>>

UnrunDone ==
  /\ pc = "unrun" /\ at > last
  /\ pc' = "done"
  /\ UNCHANGED <<step, text, call, conduit, signed, closing, cancelled, stop>>

\* Every tool_call_start of the group is announced before any of it runs.
StartGroup ==
  /\ pc = "group" /\ at <= Len(calls) /\ ~cancelled
  /\ pc' = "started"
  /\ \E j \in at..Len(calls) : EndsGroup(at, j) /\ last' = j
  /\ UNCHANGED <<step, text, calls, worker, at, answered, lost, conduit, signed,
                 closing, cancelled, stop>>

Submit ==
  /\ pc = "started"
  /\ pc' = "running"
  /\ worker' = [i \in 1..Len(calls) |->
                  IF i \in at..last THEN "queued" ELSE worker[i]]
  /\ UNCHANGED <<step, text, calls, at, last, answered, lost, conduit, signed,
                 closing, cancelled, stop>>

-----------------------------------------------------------------------------
(* One call (_dispatch_one), in a worker thread when it has siblings.      *)

Parallel == at < last
Finished == {"ran", "refused", "raised"}
Busy == {i \in at..last : worker[i] \notin {"queued"} \cup Finished}

Becomes(i, s) == worker' = [worker EXCEPT ![i] = s]
InCall(i, s) == pc = "running" /\ i \in at..last /\ worker[i] = s

\* A lone call is the generator itself: it waits at its own yield.
Moves == Parallel \/ conduit = 0

\* The pool starts calls in the order they were submitted.
Begin(i) ==
  /\ InCall(i, "queued")
  /\ \A j \in at..(i - 1) : worker[j] # "queued"
  /\ Cardinality(Busy) < MaxParallel
  /\ Becomes(i, "begun")
  /\ UNCHANGED <<pc, step, text, calls, at, last, answered, lost, conduit,
                 signed, closing, cancelled, stop>>

NoGate == TRUE

\* NA12's window: among siblings, one at a time looks for an answer already
\* given and, if there is none, asks.
GateFree == Parallel => \A j \in at..last : worker[j] # "asking"

Narrates == conduit' = conduit + 1

Reuse(i) ==
  /\ InCall(i, "begun") /\ GateFree
  /\ calls[i] \in signed
  /\ Narrates /\ Becomes(i, "working")
  /\ UNCHANGED <<pc, step, text, calls, at, last, answered, lost, signed,
                 closing, cancelled, stop>>

Ask(i) ==
  /\ InCall(i, "begun") /\ GateFree
  /\ calls[i] \notin signed
  /\ Narrates /\ Becomes(i, "asking")
  /\ UNCHANGED <<pc, step, text, calls, at, last, answered, lost, signed,
                 closing, cancelled, stop>>

\* A call that needs no approval, or one whose arguments did not parse.
Unasked(i) ==
  /\ InCall(i, "begun") /\ GateFree
  /\ \E s \in {"working", "refused"} : Becomes(i, s)
  /\ UNCHANGED <<pc, step, text, calls, at, last, answered, lost, conduit,
                 signed, closing, cancelled, stop>>

Approved(i) ==
  /\ InCall(i, "asking") /\ Moves
  /\ Becomes(i, "working")
  /\ signed' = IF RunScope THEN signed \cup ({calls[i]} \cap Agents) ELSE signed
  /\ UNCHANGED <<pc, step, text, calls, at, last, answered, lost, conduit,
                 closing, cancelled, stop>>

Refused(i) ==
  /\ InCall(i, "asking") /\ Moves
  /\ Becomes(i, "refused")
  /\ UNCHANGED <<pc, step, text, calls, at, last, answered, lost, conduit,
                 signed, closing, cancelled, stop>>

\* The tool has run.
Works(i) ==
  /\ InCall(i, "working") /\ Moves
  /\ Becomes(i, "ran")
  /\ UNCHANGED <<pc, step, text, calls, at, last, answered, lost, conduit,
                 signed, closing, cancelled, stop>>

\* A failure of the approval machinery; dispatch contains a tool's own.
Raises(i) ==
  /\ \E s \in {"begun", "asking", "working"} : InCall(i, s)
  /\ Moves
  /\ Becomes(i, "raised")
  /\ UNCHANGED <<pc, step, text, calls, at, last, answered, lost, conduit,
                 signed, closing, cancelled, stop>>

OneCall(i) == \/ Begin(i) \/ Reuse(i) \/ Ask(i) \/ Unasked(i)
              \/ Approved(i) \/ Refused(i) \/ Works(i) \/ Raises(i)

-----------------------------------------------------------------------------
(* The group's driver: narration, then the rows, then the announcements.   *)

\* The consumer takes an event and asks for the next.
Narrate ==
  /\ pc = "running" /\ conduit > 0 /\ ~closing
  /\ conduit' = conduit - 1
  /\ UNCHANGED <<pc, step, text, call, signed, closing, cancelled, stop>>

AllFinished == \A i \in at..last : worker[i] \in Finished

\* Every event was taken, or the consumer has gone and the events with it.
TakenByConsumer == conduit = 0
Drained == conduit = 0 \/ closing

\* A lone call that raised ends the turn; in a batch it is an error result.
GroupEnds ==
  /\ pc = "running" /\ AllFinished /\ Drained
  /\ conduit' = 0
  /\ pc' = IF ~Parallel /\ worker[at] = "raised" THEN "failed" ELSE "settle"
  /\ UNCHANGED <<step, text, call, signed, closing, cancelled, stop>>

SettleRow ==
  /\ pc = "settle" /\ at <= last
  /\ Row
  /\ UNCHANGED <<pc, step, text, calls, worker, last, lost, conduit, signed,
                 closing, cancelled, stop>>

\* Storage refuses a row.  With the consumer gone it is logged and the next
\* row is written; otherwise the run raises.
RowFails ==
  /\ pc \in {"settle", "unrun"} /\ at <= last
  /\ IF closing
     THEN lost' = lost \cup {at} /\ at' = at + 1 /\ UNCHANGED pc
     ELSE lost' = lost \cup (at..last) /\ pc' = "failed" /\ UNCHANGED at
  /\ UNCHANGED <<step, text, calls, worker, last, answered, conduit, signed,
                 closing, cancelled, stop>>

Settled ==
  /\ pc = "settle" /\ at > last
  /\ pc' = IF closing THEN "abandoned" ELSE "announce"
  /\ UNCHANGED <<step, text, call, conduit, signed, closing, cancelled, stop>>

Announced ==
  /\ pc = "announce"
  /\ pc' = "group"
  /\ UNCHANGED <<step, text, call, conduit, signed, closing, cancelled, stop>>

-----------------------------------------------------------------------------
(* The consumer and the stop switch.                                       *)

\* Suspended at a yield with nothing running behind it.  Between the pieces of
\* text the stream yields thinking, and a failed attempt yields its retraction.
AtYield ==
  \/ pc = "stream"
  \/ pc \in {"started", "announce"}
  \/ pc = "running" /\ conduit > 0 /\ ~Parallel
  \/ pc = "unrun" /\ at > 1 /\ worker[at - 1] = "idle"

Leave ==
  /\ AtYield
  /\ pc' = "abandoned"
  /\ UNCHANGED <<step, text, call, conduit, signed, closing, cancelled, stop>>

LeaveBatchAtOnce ==
  /\ pc = "running" /\ conduit > 0 /\ Parallel /\ ~closing
  /\ pc' = "abandoned"
  /\ UNCHANGED <<step, text, call, conduit, signed, closing, cancelled, stop>>

\* Gone while a batch runs: nothing more is announced, the workers finish and
\* their rows are still written (#215).
LeaveBatch ==
  /\ pc = "running" /\ conduit > 0 /\ Parallel /\ ~closing
  /\ closing' = TRUE
  /\ UNCHANGED <<pc, step, text, call, conduit, signed, cancelled, stop>>

Cancel ==
  /\ pc \notin Ended /\ ~cancelled
  /\ cancelled' = TRUE
  /\ UNCHANGED <<pc, step, text, call, conduit, signed, closing, stop>>

Over == pc \in Ended /\ UNCHANGED vars

Generator ==
  \/ OutOfSteps \/ StepCancelled \/ CallModel
  \/ Delta \/ CutShort \/ AttemptFails \/ AttemptRaises
  \/ \E r \in Responses : Respond(r)
  \/ GroupsDone \/ GroupsCancelled \/ UnrunRow \/ UnrunDone
  \/ StartGroup \/ Submit \/ Narrate \/ GroupEnds
  \/ SettleRow \/ RowFails \/ Settled \/ Announced

Next ==
  \/ Generator \/ \E i \in 1..Len(calls) : OneCall(i)
  \/ Leave \/ LeaveBatch \/ Cancel \/ Over

Spec == Init /\ [][Next]_vars

\* The provider's stream ends, tools return and questions are answered or time
\* out: that is what the loop relies on, having no clock of its own.
Fairness == /\ WF_vars(Generator)
            /\ WF_vars(\E i \in 1..Len(calls) : OneCall(i))

FairSpec == Spec /\ Fairness

-----------------------------------------------------------------------------
(* Properties.                                                             *)

AllAnswered == answered = [i \in 1..Len(calls) |-> i]

\* Whenever the model is about to be called again, and at the end of a turn
\* that did not run out of its token budget, every call of the last response
\* has exactly one row and the rows are in the model's order (M4, NA11),
\* whatever ran in parallel, was refused, was cancelled or failed to run.
TurnIsPaired ==
  pc \in {"boundary", "stream"} \/ (pc = "done" /\ stop # "token_budget_exceeded")
    => AllAnswered

\* A tool that has run is in the thread as soon as its group has settled, even
\* when the consumer goes away in the middle of a batch (#42, #215); only
\* storage that refuses the row loses it.
RanIsRecorded ==
  pc \notin {"running", "settle"} =>
    \A i \in 1..Len(calls) :
      worker[i] \in {"ran", "refused"} =>
        i \in lost \/ \E n \in 1..Len(answered) : answered[n] = i

\* The consumer never holds text of an attempt that was thrown away, and a step
\* that is over keeps in the thread what the consumer was shown of it (CN4).
KeptIsShown ==
  /\ pc = "stream" => screen = partial
  /\ pc \notin {"stream", "failed", "abandoned"} => stored = screen

\* Spawns of one agent put one question (NA12): while an agent is being asked
\* about, nobody has signed it off already.
AskedOnce ==
  \A i \in 1..Len(calls) :
    pc = "running" /\ worker[i] = "asking" => calls[i] \notin signed

\* A turn ends, and a batch whose consumer has gone lets the close through.
TurnEnds == <>(pc \in Ended)

\* What core/loop.py says of persisting before branching: a finished turn can
\* be resumed, so none of its calls is without a row.
FinishedIsPaired == pc = "done" => AllAnswered
=============================================================================
