# A verification project for the Venastine research harness

TLA+ specifications of the parts of the harness where threads, timeouts, answers
of models and failures meet: the manager of shell sessions and its three
consumers, the turn of the agent loop, the thread in the store and its
compaction, the research pipeline with its scoring and its review, the MCP
client, and the sign-in that several processes share. TLC checks them on small
instances; TLAPS proves, for every size, each safety invariant and action property
that the passing runs check, and that the components keep the abstract promises made
of them. Paths are relative to the
repository.

## The system

The harness is one Python process that runs conversations ("threads") with a
language model. A *turn* is a loop of model calls and tool calls; a turn may
spawn *subagents* (runs of their own, inside a tool call), may start *shell
sessions* that outlive it, and is driven by a *shell*: the command line, the
terminal interface, or a hosted instance of the latter.

### Inventory

| Component | State | Operations | Interacts with | What is hard | What makes it correct |
|---|---|---|---|---|---|
| Shell sessions (`core/shell_sessions.py`) | a registry of sessions (state, process, kill reason, claim), an inbox per conversation (wake queue, held queue, consecutive wakes, suspended), closing | start, kill, kill_owned, send, supervise, read and match, finish, wait_for_wake, take_held, note_user_input, close | sandbox backends (processes); consumers below; tools `shell_*` | a supervisor and a reader thread per session, kills from four kinds of caller, bounded waits, a close that races everything | kills reach their process, every end is told exactly once, nothing outlives close, wakes are bounded |
| Command line (`main.py`) | where the chat loop is, a pending Ctrl+C | prompt, turn, wait for sessions, wake turn, stop, quit | sessions, agent loop | Ctrl+C at any instruction, turns that raise | the prompt means nothing is left; nothing is lost on the way to it |
| Terminal (`tui/app.py`) | a turn's worker, its cancel token, shutting down | message, escape, kill key, quit; worker as above | sessions, agent loop | UI thread against worker thread | as above, and a quit or escape is never stuck behind a shell |
| Subagent spawning (`agents/subagent_tool.py`) | the child's run | run, sleep for sessions, wake, sweeps | sessions, agent loop | a child asleep while its parent is stopped; the wake limit; a child that raises | a spawn returns, and leaves nothing running or untold |
| Agent loop (`core/loop.py`, `core/cancel.py`) | step, partial text, calls of the response, rows, sign-offs, stop reason | model call with retry, dispatch (serial, parallel), approval, cancel | client, memory, registry, spawning | a generator its consumer may abandon at any yield; parallel workers; storage errors | each call has one row, in order; what ran is recorded; what is shown is what is kept |
| Model client (`core/client.py`, `core/provider_errors.py`) | none across calls | stream, complete, classify errors | providers | formats of eight providers | faithful conversion of messages |
| Compaction and derived view (`core/compaction.py`) | a checkpoint in the making, the latch of a turn | choose a span, fold at a boundary or inside a turn, `/compact`, pin and unpin | memory, storage, client | fold boundaries against call/result pairs and pins, a fold while the turn runs, a summary that fails, a death between the checkpoint and the rebuilt view | no pair is split, the question stays, nothing falls between the view and the summary |
| Memory and storage (`core/memory.py`, `storage.py`, `database.py`, `json_store.py`) | rows of a thread, pins, checkpoints; JSON files | append, derive, resume; replace a file atomically | everything | a process that dies between two writes | rows are never changed, the watermark only advances, a thread can always be resumed |
| Asking a human (`core/interaction.py`, `core/approval.py`) | one question at a time; a budget of grants | ask, answer, take a unit | loop, shells | parallel children asking; lost or late answers | no question is answered by another's answer; budgets are not overdrawn |
| ChatGPT sign-in (`core/chatgpt_auth.py`) | tokens in a file under a file lock | access_token, refresh, complete, sign_out | provider, other processes | single-use refresh tokens spent by a process that then dies | no process refreshes with a spent token; sign-out wins |
| Provider connection (`core/connect.py`, `credentials.py`, `env_secrets.py`) | a sign-in in progress, stored keys | device and PKCE flows, save, delete | providers, browser | polling and expiry | keys of one provider never reach another |
| MCP client (`mcp_client/`, `setup_mcp` and `teardown_mcp` of `main.py`) | one event loop in a thread, one manager task, an exit stack of sessions; the names it registered | connect_all, call_tool, disconnect_all, register_all, unregister_all | external servers, registry, workers | clocks of the main thread against a loop that may block, cancellation inside an await, calls during the teardown | no failure is silent, a name has one owner, nobody waits for ever |
| Tools and registry (`tools/`) | registered tools, per-run isolation | register, dispatch | loop, MCP, sandbox | containment of a tool's own failure | a tool never ends a turn by raising |
| Research pipeline (`core/reasoning/orchestrator.py`, `confidence_scoring.py`, `pipeline_storage.py`) | claims, flagged claims, the report, the trace; one stored row | ten passes and their code stages, the ensemble, the revision loop, checkpoints | agent loop, storage, review | answers that are refused, partial or about other claims; a store that fails; a run abandoned at any event | published tiers are those of the evidence, the loop ends, the row is whole when it says so |
| Research review (`core/reasoning/review.py`, `_review_stage`) | findings, decisions, a corrected copy of the claims | raise, ask, refine, apply, write the report again | pipeline, a human | refined findings, two findings about one claim, a report that cannot be written, a death while a question is open | what is published is what a human accepted |
| Hosted deployment (`deploy/hosted/`) | instances, sign-in claims | start, stop, claim, prune | browsers, terminal processes | capacity races, one-time claims, stop during start | capacity is kept; a claim is used once |
| Sandbox, secrets, policy (`security/`, `safety/`) | a backend per process; redaction rules | run, open a session, classify, redact | tools, sessions | processes that ignore a kill | containment; no secret in output |
| Configuration (`config.py`, `config_schema.py`, `core/config_loader.py`, `config_edit.py`, `config_update.py`) | merged settings | load, edit, update | all | layered precedence | an edit changes what it names |
| Agents, skills, memories, project set-up, scripts (`agents/manager.py`, `skills/`, `memories/`, `project_init/`, `scripts/`, `cli_commands.py`, `prompts/`) | files | load, list, write | shells | | |

`PROJECT.json` lists the same components with their status, and the hazards of
this code at their lines with the properties that are aimed at them.

## Order of the work

1. `SessionReports` (what the manager promises) and `ShellSessions` (how it does
   it), `ShellSessionsProofs`.
2. What the consumers share, `SessionConsumer`; the consumers, each composed with the
   manager, `CliSessions`, `TuiSessions` and `SubagentSessions`; and the proofs that each
   composition still implements the manager, `ConsumerProofs`.
3. `AgentLoop`, one turn, and `AgentLoopProofs`.
4. `ChatgptAuth`, threads and processes over one token file, and `ChatgptAuthProofs`.
5. `ThreadArchive` (what the store promises) and `Compaction` (the thread over it),
   `CompactionProofs`.
6. `RunRecord` (what the row of a run promises), `ConfidenceScoring`,
   `ResearchPipeline`, `ResearchProofs`, and `ReviewStage`, which implements the same
   `RunRecord`, with `ReviewProofs`.
7. `McpClient`, `McpClientProofs`.

Each step has its instance (`MC*`) and its run. What could follow: the hosted
supervisor with its sign-in claims, and the question lock with the grant budget.

## The modules

### `SessionReports` and `ShellSessions`

`SessionReports` is the promise: a session that was admitted is live, then its
end is owed to somebody, then it is told, once; a start may be refused; once
the manager has shut, nothing begins. `FairSpec` adds that every live session
ends.

`ShellSessions` is the manager. One action is one critical section of its lock,
or one step of a thread outside the lock. The correspondence:

| Model | Code |
|---|---|
| `state`, `reason`, `timedOut`, `claim` | `_Session.state`, `kill_reason`, `timed_out`, `kill_report_claimed` |
| `proc`, `stop` | `_Session.process`, and the `process.kill()` a thread owes it |
| `sup`, `reading`, `opening` | where `_supervise`, `_read` and `_open_interactive` are |
| `report[s]` | where the `WakeEvent` of the end of `s` is: a queue, the final report of a kill, or told (and how) |
| `matches[s]` | the matched lines in the wake queue, in the held queue, folded into the end, told |
| `wakes`, `suspended` | `_Inbox.consecutive_wakes`, `_Inbox.suspended` |
| `closer`, `swept` | where `close` is, and the sessions it marked |
| `Start`, `SpawnFails`, `Spawned`, `Opened`, `OpenFails` | `start` and `_open_interactive` |
| `Kill`, `StopSent`, `KillReport`, `KillGivesUp`, `KillFindsFailed` | `kill` and `_kill_report` |
| `IdleExpires`, `DeadlinePasses`, `WaitEnds`, `Finish`, `MatchLine`, `StreamEnds` | the supervisor and the reader |
| `TakeBatch`, `Suspend`, `TakeHeld`, `NoteUserInput` | `_take_locked`, `take_held`, `note_user_input` |
| `CloseMarks`, `CloseKills`, `CloseReturns` | `close` |

Time is abstract: a deadline, an idle timeout or the bound of a wait may pass
whenever it is armed. The process is the environment's: it may die at any time
or never, and may ignore its kill. Left out: output buffers and their pages,
`send`, the order of the entries within a batch, and forgetting old sessions;
nothing that is modelled depends on them.

### The consumers

Each extends `ShellSessions`, through `SessionConsumer` (the conversation's thread
`Consumer`, which owns the sessions, and `pc`, where the consumer is), with the control
state of one consumer of one conversation's inbox. Its steps are actions of the manager,
or steps of its own between them; two calls of the code that take the lock twice are two
actions. The manager's own threads are `CliBackground`, `TuiBackground` and
`SpawnBackground` (`Inner` of each session).

* `CliSessions`: `run_chat`, `_chat_turn`, `_await_sessions`, `_deliver_held`. A turn starts and kills sessions and ends when none of its
  calls is inside the manager. Ctrl+C is possible at each point of the wait
  (`Interrupt`), is deferred during a wake turn (`PressInWake`), and ends the
  program at the prompt. An end the loop took is in its `hand` until it is in a row of
  the thread, and `dropped` if the loop lets go of it before that (`Interrupt` at "got",
  `WakeUnwritten`). The close that follows is left to `ShellSessions`: the loop
  no longer looks.
* `TuiSessions`: the UI thread (`SubmitMessage`, `CancelTurn`, `KillSession`, `Quit`)
  against the worker (`_consume`, `_wait_for_sessions`), which reads the quit, the
  token, and the registry at different moments.
* `SubagentSessions`: the spawn call, which runs the child, sleeps in
  `wait_for_wake` without a timeout, wakes the child, and sweeps.

### `AgentLoop`

One turn as a generator. `pc` is where it is; `worker[i]` is how far the i-th
call of the response is, so that a parallel group interleaves; `answered` is the
rows in the order they were written; `partial`, `screen` and `stored` count
pieces of text that the attempt, the consumer and the thread have. The consumer
may leave at each yield (`Leave`), which in a parallel group means that the
workers finish and their rows are written before the close goes through
(`LeaveBatch`, `closing`). Storage may refuse a row (`RowFails`), a question may be
refused or its machinery raise, and the user may stop the turn at any moment.
Left out: token meters (the budget stop may happen after any response), prompt
building, hooks around tools, and the grant budget. Compaction at the boundaries
is in `Compaction`.

### `ChatgptAuth`

The token file, OpenAI, and any number of threads in any number of processes.

| Model | Code |
|---|---|
| `file` | `chatgpt_auth.json`: host id made, registration, notice shown, session |
| `rlock`, `flock` | `_THREAD_LOCK` of each process; the operating system's lock on the sidecar |
| `copy[t]` | `data`, read under the lock, changed, and written back whole |
| `pc`, `section` | where the thread is; which `with _locked()` it is in or wants |
| `hand[t]` | tokens only this thread has: granted and not stored, replaced and not revoked |
| `openai` | what OpenAI makes of each refresh token: live, spent by a refresh, dead |
| `excused` | history only: tokens that a death, a lost answer, a failed write or an unconfirmed revocation took out of the code's hands |
| `EnterProcess`, `TryLock`, `LockTimesOut` | `_locked` |
| `StartSection`, `BrowserAnswers`, `BrowserEnds` | `start`, the listener, the end of the wait |
| `CheckRefuses` to `OldNotRevoked`, `NoticeSection` | `complete`, `mark_notice_shown` |
| `AccessReturns` to `Write` | `access_token` |
| `NothingToRevoke`, `Revoking` to `RevokeGivesUp` | `sign_out`, `_revoke` |

A token is a number. A session is its refresh token and the account it was
granted for; a client id stands for the account that registered it. The clock is
abstract: a token may be due whenever it is asked for, which includes the 401
that makes it so. A post may be refused, not arrive, or arrive and have its
answer lost, and a write may fail; a process may die at any step, and the locks
it held are free. A sign-in's steps run on two workers and the UI thread in the
code; one after the other, they are one thread here. Left out: discovery, the
cryptography of the ID token (it is accepted or not), the scopes, `status`
(which reads without the lock and changes nothing).

### `ThreadArchive` and `Compaction`

`ThreadArchive` is the promise: rows are only added, and a watermark over them only
moves forward. `Compaction` is one thread: its rows, the view a model is shown, and
everything that folds, pins or resumes it.

| Model | Code |
|---|---|
| `rows`, `checkpoint` | `MessageLog`, the latest `CompactionCheckpoint` (`storage.py`) |
| `live`, `measured` | `ConversationMemory._messages`, `last_input_tokens` against the trigger |
| `fold`, `latched` | what the compactor was asked to summarize; `compaction_failed` was said |
| `DerivedView`, `Pinned`, `Opener` | `_derived_view`, `pinned_through` and the request of a cut turn |
| `Span`, `TurnBoundary`, `StepBoundary`, `RowBoundary` | `compactable_span`, `_sub_turn_span` and their floors |
| `Foldable`, `OntoLast`, `Newest`, `Summarized`, `BeginFold`, `SaveCheckpoint`, `Rebuild`, `FoldFails` | `compact`, `apply_checkpoint` |
| `StartTurn`, `NotFolding`, `TurnFolds`, `Respond`, `Answer`, `TurnEnds` | a turn as the loop drives it (`_maybe_compact` at each boundary) |
| `Pin`, `Unpin` | `pin_last` and `unpin_last` behind the tools and `pin_measurements` |
| `Compact`, `Resume` | `/compact` between turns; the thread opened again after a death anywhere |

A row is its role, the response it answers, its pin and a size in tokens. A summary has
two ghosts: `covers`, the rows whose text it was made from, and `cut`, the rows that went
for want of room. What the compactor is sent is the span, or the earlier summary (a token)
and the span after it, onto which a span that outgrows `Budget` is forced; what still
outgrows it loses its oldest text, and a row that loses any of it counts as cut. A
checkpoint and the rebuilt view are two steps, and the process may stop between them.
Left out: `summarize_thread`, a missing compactor agent, the warning, the backstop inside
a research pass, and two processes writing one thread.

### `RunRecord`, `ConfidenceScoring` and `ResearchPipeline`

`RunRecord` is the promise made of the stored row of a run: "running" until it ends,
and a report only beside the claims it was written from. `ConfidenceScoring` is the
formula of Pass 5 in exact integers (units of 1/10000).

| Model | Code |
|---|---|
| `pc`, `resume` | the pass or stage about to run; where the run goes on after a checkpoint |
| `claims[c]` | the fields of `Claim` the formula and the loop read: verdict, quality, severity, flags, tier, retries, the revision its text is from, final text, tag, and `basis` (a ghost): are its verdicts about that text, about an older one, or was it left out when Pass 6b was asked |
| `flagged` | the claims of the revision loop |
| `unstored`, `untold` | trace lines not yet in the row, not yet yielded |
| `record` | the row of `pipeline_storage.py` |
| `Plan` to `Score`, `Flag`, `Revise`, `Revalidate`, `FallBack`, `NextRound`, `Annotate`, `Merge`, `Synthesise`, `Finish` | the passes and the gates D0, D1, D2 of `stream_deep_research_pipeline` |
| `Reject`, `PassFails`, `Candidate`, `NoCandidate` | the corrective attempts for JSON, a pass that raises, the ensemble |
| `Checkpoint` (`Stored`, `NotStored`), `Tell` | `_Progress.checkpoint`: log, store, then yield |
| `Notice` | a compaction inside a pass, told as a line and neither logged nor stored (`_translate`) |
| `Fail`, `Abandon` | the exception handler; a generator that is closed at an event |

An answer is a choice: any subset of the batch with any verdicts, or a payload that
is refused. Texts are numbered by the round that wrote them, a report is the claims
it was written from. Left out: prompts and input texts, grants and their budget, how
a source's quality is found out, configured weights, threads of passes.

### `ReviewStage`

What happens between a finished report and its publication. `Review` is the
reviewer's answer through `Validated` (what `review.py` keeps of any list of entries,
one at a time by `Keep`: wrong ones are dropped, so is a second one about the same thing); `Accept`, `Reject`,
`RejectAll`, `SendBack` and `Refined` are `walk_consent`, with a round limit;
`Apply`, `Synthesised`, `SynthesisFails` are `apply_deferred` (`Corrected`, which takes the
decisions in their order, by `ApplyOne`) and the report written again, in `_review_stage`; `Killed` is a process that dies, with a question open or
not. `consented` is a ghost: every version a human was shown and accepted. The findings in the
row are lines of its trace, with 80 characters of each (`orchestrator.py:897`); the model
has the whole finding for the line. The module
maps its row to `RunRecord` as well, so the row keeps one contract from the first pass
to the last decision.

### `McpClient`

The bridge to the MCP servers: one loop in a background thread, one manager task on
it, the main thread that waits for both on clocks of its own, and workers that call
tools through the loop.

| Model | Code |
|---|---|
| `loop` | the module's `_loop`: none, running, blocked by something on it, stopped, a second one |
| `task`, `next`, `phase`, `stack` | `_manager`: where it is, the entry it is at, its exit stack |
| `alive` | the child processes (the environment's) |
| `clients`, `failures`, `closed`, `named` | `clients`, `failures`, what `_TrackClose` recorded (`_closed`), whom the teardown's WARNING names |
| `handler`, `approval`, `recorded` | the tool registry, the approval defaults, `_registered` |
| `SkipDisabled` to `ManagerDone` | the manager's body, one step per await |
| `ManagerFalls`, `IsReady` | what gets past the handler of one entry, and the manager's own handler, which sets `_ready` over whatever was connected by then |
| `ConnectAll`, `Ready`, `ConnectTimeout`, `Cancel`, `GiveUp` | `connect_all`, `_cancel_manager` |
| `RegisterServer`, `SetUp`, `UnregisterAll` | `register_all`, `unregister_all`, `setup_mcp`, `teardown_mcp` |
| `Disconnect`, `StopSeen`, `PoliteDone`, `PoliteTimeout`, `ForceEnds`, `DisconnectEnds` | `disconnect_all` |
| `Call`, `Refused`, `Send`, `Answer`, `Backstop` | `call_tool` from a worker |

A server may raise or never answer at any await, and the loop may be blocked for
good (`Wedge`). Cancellation reaches the manager wherever it is. Entries are taken in
the order they are registered in. Left out: building a transport, normalising a result,
refusing a name that no provider accepts, and the cache that `list_tools` serves.

In the modules, a definition directly before another one with the same
parameters, which nothing uses, is the same definition with a plausible bug:
`PROJECT.json` ("mutants") pairs each with the property that notices it. A property
that is a conjunction of named parts has one for each part.

## The runs

| Run | Instance | Question |
|---|---|---|
| `sessions` | a monitor and a background session of one conversation, one match, one wake in a row | do kills, reports, matches and the close keep their invariants, and is `SessionReports` implemented, under every interleaving? |
| `sessions_fair` | a background session and an interactive shell, kills by the model and the user | is a quiet end quiet, does every session end and is every claimed report returned, with only the manager's threads fair? |
| `cli` | two background sessions, one wake in a row, a user who goes on writing | what may the prompt leave behind, how many turns may sessions start by themselves, does the prompt come back, and does every end get into the thread, but for a batch dropped on its way there? |
| `tui` | two background sessions | what may a worker that ended leave behind; do quit and escape end its wait when no session ever ends? |
| `spawn` | a monitor and a background session of a child | what does a spawn leave running or untold; does it return? |
| `turn` | two steps, one retry, two workers, two pieces of text, responses without calls, with two spawns of one agent, and with a tool and two spawns | pairing, recording, what is shown, who is asked, and the end of the turn |
| `plan` | a process of two threads and another, two accounts, three calls, three tokens, one death | is a refresh token spent once, is a live one always in somebody's hands, can a slow refresh undo a sign-out or a sign-in, and does every call return? |
| `compaction` | up to seven rows of two sizes, responses of up to two calls, pins of the last one or two turns, both strategies | is the view always paired, is the question in it, is every row shown, represented or said to be cut, does a fold keep its tail, and is `ThreadArchive` implemented? |
| `pipeline` | two claims, an ensemble of two, two rounds, one corrective attempt, two verdicts, two qualities | is what is published what its verdicts say, and put to Pass 6b if it was rewritten, is a finished claim left alone, does the run end, and is the row a `RunRecord`? |
| `review` | two claims, answers of up to three entries out of eight kinds, two findings, two refinements | is only what was accepted published, all of it, with its tags; does the row stay whole; does the review end? |
| `mcp` | four entries, one disabled, one auto-approved, two that compose one name, two workers | does a failure cost the others nothing, who is named at the teardown, has a name one owner, and does nobody wait for ever? |
| `turn_budget` | as `turn`, with plain tools | one documented claim which the code does not keep (below) |

Bounds. Two sessions are enough for the interactions the code has between
sessions: they share the capacity (`MaxLive`), the inbox and its wake count, and the
sweep of `close` and `kill_owned`; nothing in the manager compares three. One
match distinguishes every route a line can take (`MaxMatches`), and one
consecutive wake reaches the limit, the suspension and the reset. Two steps
and one retry reach each boundary of the loop; two workers with a group of two,
behind a serial call, reach the pool's limit and the sign-off window.
In `plan`, three calls are the least that
let two refreshes, or a refresh and a sign-out or a second sign-in, race over a
session a first one made; three tokens let each of them get its own; two accounts
tell whose session it is; one death is enough because a dead process leaves
nothing but the file.

In `compaction`, seven rows (`MaxRows`) hold a turn with a response of two calls and a
second turn behind it, so that every boundary exists: between turns, between the steps of
a turn, and inside a step where none may be; the trigger (5) and the floor (2) are
such that one large row passes the one and two small ones the other, and a cap (3) that
one large row fills; a `Budget` of 3 is outgrown by two rows once one of them is large, so a
fold is forced onto the last summary, and cut, and the next one starts from a cut one. All
properties of this run are proved without these bounds. In `pipeline`, two claims are a claim in the loop and one beside it; two rounds
let the first change what the second sees; with the severity of 100 and no flag each
tier is decided by the verdict and the quality, and the partial verdict, other
severities and flags are covered by the proofs. In `review`, three entries about two claims
and the report contain every pair of a kind that collides; two refinements have a
version in the middle. In `mcp`, a disabled entry, two servers that share a name and one
that offers nothing cover what an entry can be, and a session in the middle of the exit
stack can fail with others on both sides; two workers have one call sent while the other
one is looked up.

Session identifiers are not symmetric (their kinds differ), nor are the others, so no
symmetry is used.

Deadlock is checked wherever the modelled thing goes on: a finished consumer, turn or
program, a full archive, and in `ChatgptAuth` the end of the calls that the bound
allows, is an explicit stuttering action (`Over`, `Full`, `AllOver`). `pipeline`, `review` and
`mcp` do not check it: a run that ended and a client that is gone take no step, and
their liveness properties say that they get there.

Fairness. `ShellSessions!Fairness` assumes that threads of the process run and
that bounded waits end: `start` returns from its backend, a supervisor polls and
gives up on its clock, an owed kill is made, a kill's wait is bounded, the close
has a budget. It assumes nothing of the shell process or its output stream, so
`KeepsReportsFairly` holds for a process that ignores its kill. The
consumers add that their own loop runs, and that a turn which has no call inside
the manager ends (`TalkingSpec`, `SupervisedSpec`); `WorkerSpec` leaves out the
supervision of the sessions, so the terminal's quit is shown not to wait for any
shell. Of the consumers' runs, only `cli` assumes something of the user: that they go on writing
or leave, and that turns eventually stop failing or being interrupted, without
which a result can be put off forever. `AgentLoop!Fairness` assumes that the
provider's stream ends, that tools return and that questions are answered or
time out; the loop has no clock of its own and relies on this.
`ChatgptAuth!FairSpec` assumes that a thread inside a call keeps running. Its waits
have bounds in the code (the HTTP timeout, `LOCK_WAIT_S`, `SIGN_IN_WAIT_S`) except
the one for the process's own lock, which is only weakly fair: it is had in the
end because only finitely many calls compete for it. `ResearchPipeline!FairSpec` assumes
that the generator is iterated to its end unless it is abandoned, `ReviewStage!FairSpec`
that besides, whoever is asked answers; neither assumes anything about which answer.
`McpClient!Fairness` assumes that the main thread and the workers run and that their
clocks run out, and nothing of the loop, the manager or a server.

## What is proved

Everything here holds for every value of the constants that the named assumptions of
the modules allow, and from nothing else.

`ShellSessionsProofs`, of the manager, for any finite set of sessions, any
threads, kinds, owners and bounds:

* `Typing`: `Spec => []TypeOK`; with it, that consecutive wakes stay within the
  limit.
* `KillsReach`, `CloseIsFinal`, `ReportsHaveTakers`, `QuietEnds`, `MatchesKept`: the
  safety invariants of the runs.
* `Implements`: `Spec => KeepsReports`, the refinement of `SessionReports`.

The argument is one inductive invariant, `IInv`: the type invariant, the six
invariants, and `Stages`, which says how far a session's threads are in each of
its states. Without `Stages` they are not inductive: a kill reaches its process
because a running session has a process, and reports coincide with ends because
only a running session has a supervisor that can finish it. `ClaimHasOwner` and
`QuietEndsNeverWake` further need `EndedIsReported`, so that a session that is still
live has no report to misplace. Each invariant has one lemma (`KillsNext`,
`CloseNext`, ...) with one step per action. That no matched line is lost rests on
two facts about the tallies (`Match`, `Moves`): a match adds one to the total, and
every move keeps it. The refinement maps each session to a phase; its proof has
a step per action that changes the phase, and `Unreported` for those that do not.

`ConsumerProofs`, of the three consumers. For each it first proves that the
specification of the composition implies `Spec` of the manager (`CliComposes`,
`TuiComposes`, `SpawnComposes`), so every theorem above holds while that consumer runs,
and may be used for what follows. `PromptIsIdle`, `WakesBounded`, `IdleIsDone` and `NothingIsLeft` are then the
safety invariants of `cli`, `tui` and `spawn`; the last one's hypothesis `OfSubagent` says
that the owner of a child's sessions is a subagent's thread, as it is in the code
(`owner_depth > 0`). Their invariants say what is true at each
point of the consumer: no call of a turn is inside the manager once it is over
(`CliOutside`, `WorkerOutside`, `SpawnOutside`), nothing is live between the two questions
of the loop (`CliNoneLive`, `WorkerNoneLive`), a
session a sweep has not come to is still on its list (`CliStopping`, `Sweeping`), each
wake turn was counted when its batch was taken (`Counted`). The steps of the
manager's own threads are one lemma for all three, `InnerOnlyEnds`: they end
sessions and start none. That nothing is queued once nothing is pending needs
`SuspendedQueuesNothing` of the manager.

`AgentLoopProofs`, of a turn with any agents, responses, limits, workers and retries:
`TypesHold`, `ThreadIsPaired`, `WorkIsRecorded`, `TextIsShown`, `OneQuestion`. The
invariant relates the cursor of the step to the calls it has closed, the rows to the
order the model gave the calls, and each worker to what has begun and what has a row
(`Cursor`, `Closes`, `InOrder`, `Begun`, `Recorded`); `AskedOnce` needs that the
sign-off window is held by one worker (`Asking`).

`CompactionProofs`, of a thread of any length under any sizes and settings:
`ThreadIsTyped`, `CallsKeepTheirResults`, `RequestIsShown`, `NothingFallsBetween`,
`FoldKeepsEnough`, and `ThreadIsArchive`, the refinement of `ThreadArchive`. The invariant says that each result
names its response (`Threaded`), that the watermark never parts the two unless the
view puts them together again (`CutsWell`), that what the watermark hides is
represented or said to be cut (`Represented`), and what a fold on its way holds (`FoldIsPending`).
`NothingFallsBetween` also says that what was cut is older than all that is
represented, for which the rows one call takes must be the latest of the segment
(`NewestIsLast`). `FoldKeepsEnough` needs that more rows weigh no less. The weight of a set (`Size`) is a fold
that takes the rows in an order of its own choosing; `SizeSplits` proves that the order
does not matter and `SizeGrows` that the weight is monotone, by induction over the
subsets. When no turn's start leaves enough, the floor falls back on the first one, and
nothing is folded there because nothing comes before it: that is why `TailInv` adds that a
thread begins with a request (`FirstIsRequest`).

`ResearchProofs`, of a run over any claims, with any ensemble, caps and answers:
`PublishesWhatItFound` (the score, the tag and the text, and that Pass 6b was asked about
it), `LoopKeepsToItsClaims` (the
action property), and `RowIsARecord` (the refinement of `RunRecord` with
`RecordIsWhole` and `LinesAreStoredFirst`). The invariant has a clause for each
phase of the run (`Phase`): which claims have a tier, a final text or a tag when.

`McpClientProofs`, of a client with any servers, names and workers: `ClientIsTyped`,
`NoFailureIsSilent`, `NamesHaveOneOwner`. The invariant says that the main thread and the
manager are in step (`InStep`), that the manager has tried each entry before the one it
is at (`AllTried`), where each child can be known from (`ChildrenAreKnown`), and that
nobody is named before the teardown (`NobodyNamedYet`).

`ChatgptAuthProofs`, of any threads in any processes, with any accounts and bounds:
`CredentialIsTyped`, `NothingIsSpentTwice`, `NothingIsLeftAlive`, and `TokensAreEarned` (an
action property). None of the three is inductive: each speaks of OpenAI and the file, and
what keeps it is who is past the .lock file. The invariant has a row for each thread
(`Row`): past the lock it holds the lock and its copy is the file (`HasLock`,
`ReadsFile`); what it has in hand by where it is (`HandAsSaid`); what a write is about to
put in the file, a live replacement of the token there, the same file, or none
(`WritesAsSaid`). Beside it, no token is in two hands (`NoTwoHands`), and the file holds a
spent token only while its replacement is on the way or was lost (`SpentIsReplaced`). A
step of one thread keeps the other threads' rows (`OthersKeep`) because only the holder of
the lock writes, which leaves one lemma per action about its own thread.

`ReviewProofs`, of a review with any claims, answers and limits: `ConsentIsRespected` and
`ReviewKeepsTheRecord` (the refinement of `RunRecord`, with `FindingsSurvive`). Two results
carry them. Whatever the reviewer answers, the findings kept are about different things
(`ValidatedIsUnique`); and the corrected claims are, claim by claim, the old ones or what
the accepted decision about them says (`CorrectedFollows`), so that no correction is
overwritten by another. The invariant keeps the decisions in step with the findings, about
the same targets however often one was refined (`Decisions`, `Asking`), and says which
claims and report are the run's and the row's in each phase (`Progress`).

What a fold computes (`Validated`, `Corrected`, `Size`) is proved by induction, stated of
a set of naturals that has 0 and every successor (`NatSetInduction`, from the least
element of its complement) and not of a predicate.

Only model-checked: the liveness properties, since fairness and enabledness are out of
the prover's reach, with the fair refinement `KeepsReportsFairly` and the returned reports
of `ClaimedReportReturned` among them. The properties of the passing runs that are left to
TLC are these, and no others.

## Where the code and its comments differ

One run states a sentence of the repository and shows a behaviour of the code that
contradicts it; `PROJECT.json` ("findings") quotes both sides.

* `turn_budget`: the token-budget stop leaves the calls of its last response without rows
  (`core/loop.py:2060`).

Met while modelling, visible in the actions named. No property says that the code keeps
these sentences; where one comes near, it excepts the case by name:

* A Ctrl+C between taking a batch and installing the deferring handler loses the
  batch (`main.py:524-533`; `Interrupt` at "got"), where the docstring of the wait has
  results held for the next message (`main.py:448-451`). So does a wake turn that raises
  before its row is written (`WakeUnwritten`). `EveryEndIsTold` excepts what was
  `dropped` there.
* After an escape, a result that arrives is queued as a wake, and the next message
  does not carry it (`CancelEnds`, then `SubmitMessage`), where `tui/app.py:3369` says that it
  will.
* A child of a stopped turn sleeps on over its sessions: `wait_for_wake` at
  `agents/subagent_tool.py:449` does not read the token that lines 366-370 hand down so
  that a stop reaches the child.
* An interactive shell blocks the prompt (`CheckLive`; `main.py:517` and
  `tui/app.py:3318` count live sessions of every kind), though SS25
  (`docs/ROADMAP_v3.md:354`) says it does not.
* A turn that raised, and a wake turn that raised, come back to the prompt at once,
  with the sessions running and a confirmed Ctrl+C forgotten (`main.py:793`,
  `main.py:549`; `TurnFails`, `WakeFails`), where lines 846 and 473 promise otherwise.
* After the stop of `main.py:565`, a line that matches before its reader has ended is
  queued as a wake and not held for the next message, as line 562 has it.
* `take_held` and `note_user_input` (`main.py:723-724`) are two critical sections; what
  is held in between misses its message. In the terminal, what `take_held` took is lost
  when storing the message then fails (`tui/app.py:3423`; `CannotStart`).
* A reader that outlives the ten seconds of `core/shell_sessions.py:878` queues a
  "matched" wake of a session whose end was already reported (`MatchLine` after
  `Finish`), where line 92 says such a session is still running.
* A subagent that opened an interactive shell answers while the shell is live, and
  the end of that shell is held for a thread nobody reads (`agents/subagent_tool.py:377`).
* `_finish_cancelled` yields after every row (`core/loop.py:1635-1638`); a consumer
  that leaves there loses the later rows.
* A fold inside the turn keeps fewer than `keep_recent_tokens` when the turn's
  later steps weigh less (`StepBoundary`; `core/compaction.py:764-774`), where the
  docstring at line 796 calls that floor absolute, and `core/loop.py:2138-2143` still
  says that the running turn is unfoldable.
* A row that is unpinned behind the watermark is in neither the view nor the summary
  (`Unpin`, `released`), where `storage.py:175` says the summary represents every row
  except the pinned ones.
* The pin cap is applied to the turns asked for, not to what is pinned already
  (`Pin`; `tools/builtin/pin.py:161`): several pins together pass it.
* A fold that is forced onto the last summary, because the archive from the top outgrows
  one call, asks for a new segment after `core/compaction.py:1373-1410` has refused an
  empty one: when all rows since the last watermark are pinned, the compactor is given the
  last summary and nothing else (`OntoLast`, `Summarized`), the very case that the comment
  there says is refused.
* A claim that Pass 6a revised and a partial answer of Pass 6b leaves out is published
  with the new text and the verdicts about the old one (`Revised`, then `Reread`: its
  `basis` is "left out"), where `README.md:210` has every flagged claim re-grounded.
  `TextWasAskedAbout` says only that Pass 6b was asked.
* The notice of a compaction inside a pass is yielded as a trace line
  (`core/reasoning/orchestrator.py:268-271`; `Notice`) and is never in the run's log or
  row, where the docstrings at 111-147 have every such event derived from the stored
  trace, and the one at 237-238 has it land in `trace.md`. `LinesAreStoredFirst` speaks of
  the lines that are logged.
* A server that failed to list its tools after its session was entered is not in the
  client's table, so the teardown's warning never names it when it does not close
  (`ServerFailed`, `Finish`); neither is the one the manager was at when it fell. The
  docstring of `disconnect_all` (`mcp_client/client.py:736-737`) has those who did not
  confirm a clean close named. `OrphansAreTold` excepts both.
* When `connect_all` gives up, it names nobody who is still open (`GiveUp`).
* When the manager falls before it came to every entry, its own handler sets `_ready`
  (`mcp_client/client.py:562-565`; `ManagerFalls`): `connect_all` returns as from a
  success, over sessions that were closed with the stack, and the entries not tried are
  neither in `clients` nor in `failures`.
* A tool call that races `disconnect_all` starts another loop through `_ensure_loop` after
  the first one was dropped (`Send`), and nothing stops that one.
* Two first sign-ins that overlap may be of two accounts: both pass the check of
  `core/chatgpt_auth.py:518` while no registration is saved, and the second `Store`
  replaces the first's registration, where the docstring of `complete` says one
  account per install.
* A sign-in that dies or cannot lock, write or revoke after its exchange leaves a
  token alive at OpenAI that nobody holds (`Lost`, `OldNotRevoked`): the tokens that
  `LiveIsHeld` excepts. `complete`'s docstring speaks of none.
* `/connect cancel` after the browser came back says that waiting stopped
  (`tui/app.py:7552`), and the sign-in is stored all the same.

## What is not modelled, and why

The model client, the tools, the sandbox, configuration and the set-up code are
conversions and I/O without interleavings of their own; the models use them
through what they can do (a stream that fails, a tool that raises, a process that
ignores a kill, a payload that is refused). They are also most of the lines of the
repository (the terminal's screens, panels and commands, the sandbox backends, the
configuration loader, the provider formats, the installers), and a model of them would
be a transliteration that no property tells apart. The hosted supervisor and the
question queue with the grant budget have behaviours of their own and are left for
later. What each modelled component leaves out is said with its module above.
