--------------------------- MODULE ShellSessions ---------------------------
(***************************************************************************)
(* The process's one SessionManager (core/shell_sessions.py): background,  *)
(* monitor and interactive shell sessions, the supervisor and reader       *)
(* threads behind each of them, the per-conversation inboxes their results *)
(* are queued in, kills, and the close on the way out.                     *)
(*                                                                         *)
(* Every action is one critical section of the manager's lock, or one step *)
(* of a thread outside it.  Time is abstract: a deadline, an idle timeout  *)
(* and the bound of a wait may pass at any moment at which they are armed. *)
(*                                                                         *)
(* An inbox queue is represented per session, which is what its entries    *)
(* are keyed by: matches[s].events and matches[s].held count the matched lines *)
(* of the "matched" entries of s in the two queues, and report[s] says     *)
(* where the entry carrying the end of s is.  The order of the entries in  *)
(* a batch is left out.  So are the finished sessions _prune_locked        *)
(* forgets: only queries, which change nothing, look a finished one up.    *)
(*                                                                         *)
(* A definition right before another of the same parameters, which nothing *)
(* uses, is the second one with a plausible bug in it: the properties are  *)
(* checked to notice it.                                                   *)
(***************************************************************************)
EXTENDS Integers, FiniteSets

CONSTANTS Sessions,      \* session ids, each used once (itertools.count)
          Threads,       \* conversations, the owners of sessions
          Subagents,     \* the threads whose runs have owner_depth > 0
          Owner,         \* Owner[s]: the thread that starts s
          Kind,          \* Kind[s]: background, monitor or interactive
          MaxLive,       \* config.SHELL_SESSION_MAX_LIVE
          MaxWakes,      \* config.SHELL_SESSION_MAX_CONSECUTIVE_WAKES
          CallerReasons, \* the kill reasons the callers of kill give it
          MaxMatches     \* bound of the model: matching lines of one session

Kinds == {"background", "monitor", "interactive"}
BLOCKING_KINDS == {"background", "monitor"}
LIVE_STATES == {"starting", "running"}
ENDED_STATES == {"exited", "timed_out", "killed"}
KillReasons == {"model", "user", "quit", "owner_failed", "wake_limit",
                "idle", "open_failed"}

ASSUME SessionsAssumption == IsFiniteSet(Sessions)
ASSUME OwnerAssumption == Owner \in [Sessions -> Threads] /\ Subagents \subseteq Threads
ASSUME KindAssumption == Kind \in [Sessions -> Kinds]
ASSUME BoundsAssumption == /\ MaxLive \in Nat \ {0}
                           /\ MaxWakes \in Nat \ {0}
                           /\ MaxMatches \in Nat
                           /\ CallerReasons \subseteq {"model", "user", "owner_failed", "wake_limit"}

VARIABLES
  state,      \* _Session.state, "unused" before the session exists
  proc,       \* _Session.process: "none" until it is set, then alive or dead
  reason,     \* _Session.kill_reason, "none" for None
  timedOut,   \* _Session.timed_out
  stop,       \* process.kill(): "no" call, one "owed" by a thread, one "sent"
  sup,        \* the supervisor thread: where _supervise is
  reading,    \* a monitor's reader thread is still in _read
  opening,    \* start is waiting for an interactive shell's first prompt
  claim,      \* _Session.kill_report_claimed
  waiter,     \* a kill that took the claim is still waiting for the end
  report,     \* where the WakeEvent of the session's end is
  matchCount, \* _Session.match_count
  matches,    \* the match_count of its "matched" entries in the two queues, of
              \* the entry of its end, and of what was told to the agent
  wakes,      \* _Inbox.consecutive_wakes
  suspended,  \* _Inbox.suspended
  closer,     \* where close is
  swept       \* the sessions close found live

procVars == <<proc, stop, sup, reading, opening>>
inboxVars == <<report, matchCount, matches, wakes, suspended>>
killVars == <<reason, timedOut, claim, waiter>>
closeVars == <<closer, swept>>
vars == <<state, procVars, inboxVars, killVars, closeVars>>

Live(s) == state[s] \in LIVE_STATES
Owned(t) == {s \in Sessions : Owner[s] = t}
closing == closer # "open"

\* Where the matched lines of one session are, and how they move: into the
\* entry of its end, out of the queue that is suspended, and to the agent.
Tallies == [events : Nat, held : Nat, ended : Nat, told : Nat]
MatchEvent(m) == [m EXCEPT !.events = @ + 1]
MatchHeld(m) == [m EXCEPT !.held = @ + 1]
FoldEventsOnly(m) == [events |-> 0, held |-> 0,
                      ended |-> m.ended + m.events, told |-> m.told]
FoldIntoEnd(m) == [events |-> 0, held |-> 0,
                   ended |-> m.ended + m.events + m.held, told |-> m.told]
HoldEvents(m) == [events |-> 0, held |-> m.held + m.events,
                  ended |-> m.ended, told |-> m.told]
TellEvents(m) == [events |-> 0, held |-> m.held,
                  ended |-> m.ended, told |-> m.told + m.events]
TellHeld(m) == [events |-> m.events, held |-> 0,
                ended |-> m.ended, told |-> m.told + m.held]
TellEnd(m) == [events |-> m.events, held |-> m.held,
               ended |-> 0, told |-> m.told + m.ended]
Total(m) == m.events + m.held + m.ended + m.told

TypeOK ==
  /\ state \in [Sessions -> {"unused", "failed"} \cup LIVE_STATES \cup ENDED_STATES]
  /\ proc \in [Sessions -> {"none", "alive", "dead"}]
  /\ reason \in [Sessions -> {"none"} \cup KillReasons]
  /\ timedOut \in [Sessions -> BOOLEAN]
  /\ stop \in [Sessions -> {"no", "owed", "sent"}]
  /\ sup \in [Sessions -> {"none", "polling", "settling", "draining", "done"}]
  /\ reading \in [Sessions -> BOOLEAN]
  /\ opening \in [Sessions -> BOOLEAN]
  /\ claim \in [Sessions -> BOOLEAN]
  /\ waiter \in [Sessions -> BOOLEAN]
  /\ report \in [Sessions -> {"none", "events", "held", "final",
                              "woken", "delivered", "returned"}]
  /\ matches \in [Sessions -> Tallies]
  /\ matchCount \in [Sessions -> Nat]
  /\ wakes \in [Threads -> 0..MaxWakes]
  /\ suspended \in [Threads -> BOOLEAN]
  /\ closer \in {"open", "marked", "signalled", "closed"}
  /\ swept \subseteq Sessions

Init ==
  /\ state = [s \in Sessions |-> "unused"]
  /\ proc = [s \in Sessions |-> "none"]
  /\ reason = [s \in Sessions |-> "none"]
  /\ timedOut = [s \in Sessions |-> FALSE]
  /\ stop = [s \in Sessions |-> "no"]
  /\ sup = [s \in Sessions |-> "none"]
  /\ reading = [s \in Sessions |-> FALSE]
  /\ opening = [s \in Sessions |-> FALSE]
  /\ claim = [s \in Sessions |-> FALSE]
  /\ waiter = [s \in Sessions |-> FALSE]
  /\ report = [s \in Sessions |-> "none"]
  /\ matches = [s \in Sessions |-> [events |-> 0, held |-> 0, ended |-> 0, told |-> 0]]
  /\ matchCount = [s \in Sessions |-> 0]
  /\ wakes = [t \in Threads |-> 0]
  /\ suspended = [t \in Threads |-> FALSE]
  /\ closer = "open"
  /\ swept = {}

-----------------------------------------------------------------------------
(* Starting a session.                                                     *)

\* _capacity_refusal_locked, asked again under the lock that inserts.
AdmitsWhileClosing == Cardinality({s \in Sessions : Live(s)}) < MaxLive
Admits == ~closing /\ Cardinality({s \in Sessions : Live(s)}) < MaxLive

\* start, up to the insertion of the STARTING session.
Start(s) ==
  /\ state[s] = "unused"
  /\ Admits
  /\ state' = [state EXCEPT ![s] = "starting"]
  /\ UNCHANGED <<procVars, inboxVars, killVars, closeVars>>

\* The backend raised: the session is FAILED and the exception goes on.
SpawnFails(s) ==
  /\ state[s] = "starting"
  /\ state' = [state EXCEPT ![s] = "failed"]
  /\ UNCHANGED <<procVars, inboxVars, killVars, closeVars>>

\* A kill that came before there was a process to stop.
NeverKilledEarly(s) == FALSE
KilledEarly(s) == reason[s] # "none"

\* The backend returned a process.  killed_early is read under the same lock,
\* and the kill is then owed here.
Spawned(s) ==
  /\ state[s] = "starting"
  /\ state' = [state EXCEPT ![s] = "running"]
  /\ proc' = [proc EXCEPT ![s] = "alive"]
  /\ stop' = [stop EXCEPT ![s] = IF KilledEarly(s) THEN "owed" ELSE @]
  /\ sup' = [sup EXCEPT ![s] = "polling"]
  /\ reading' = [reading EXCEPT ![s] = Kind[s] = "monitor"]
  /\ opening' = [opening EXCEPT ![s] = Kind[s] = "interactive"]
  /\ UNCHANGED <<inboxVars, killVars, closeVars>>

-----------------------------------------------------------------------------
(* Stopping a session.                                                     *)

\* What one kill with reason r does under the lock, and the process.kill()
\* that its thread then owes the process it saw there.
MarkKilled(s, r) ==
  /\ Live(s)
  /\ reason' = [reason EXCEPT ![s] = IF @ = "none" THEN r ELSE @]
  /\ claim' = [claim EXCEPT ![s] = IF reason[s] = "none" THEN r = "model" ELSE @]
  /\ waiter' = [waiter EXCEPT ![s] = @ \/ (reason[s] = "none" /\ r = "model")]
  /\ stop' = [stop EXCEPT ![s] = IF @ = "no" /\ proc[s] # "none" THEN "owed" ELSE @]

\* kill: shell_kill (model), ctrl+b and /kill (user), the sweeps kill_owned
\* and kill_by_span (wake_limit, owner_failed, user).
Kill(s, r) ==
  /\ MarkKilled(s, r)
  /\ UNCHANGED <<state, proc, sup, reading, opening, timedOut,
                 inboxVars, closeVars>>

\* _open_interactive: the first prompt came, and the opening line is typed.
Opened(s) ==
  /\ opening[s]
  /\ opening' = [opening EXCEPT ![s] = FALSE]
  /\ UNCHANGED <<state, proc, stop, sup, reading, inboxVars, killVars, closeVars>>

\* It did not come in time, or the session ended first: killed and refused.
OpenFails(s) ==
  /\ opening[s]
  /\ opening' = [opening EXCEPT ![s] = FALSE]
  /\ IF Live(s) THEN MarkKilled(s, "open_failed")
                ELSE UNCHANGED <<reason, claim, waiter, stop>>
  /\ UNCHANGED <<state, proc, sup, reading, timedOut, inboxVars, closeVars>>

\* An owed process.kill() is made.
StopSent(s) ==
  /\ stop[s] = "owed"
  /\ stop' = [stop EXCEPT ![s] = "sent"]
  /\ UNCHANGED <<state, proc, sup, reading, opening, inboxVars, killVars, closeVars>>

\* The kill that took the claim returns the final report as its result.
KillReport(s) ==
  /\ waiter[s] /\ report[s] = "final"
  /\ waiter' = [waiter EXCEPT ![s] = FALSE]
  /\ report' = [report EXCEPT ![s] = "returned"]
  /\ matches' = [matches EXCEPT ![s] = TellEnd(@)]
  /\ UNCHANGED <<state, procVars, matchCount, wakes, suspended, reason, timedOut,
                 claim, closeVars>>

KillGivesUpUnasked(s) ==
  /\ waiter[s]
  /\ waiter' = [waiter EXCEPT ![s] = FALSE]
  /\ claim' = [claim EXCEPT ![s] = FALSE]
  /\ UNCHANGED <<state, procVars, inboxVars, reason, timedOut, closeVars>>

\* The session outlived the wait: the claim is given back.  (The calls that
\* several threads owe are one flag, so this includes giving up earlier than
\* the kill that made the last of them.)
KillGivesUp(s) ==
  /\ waiter[s] /\ Live(s)
  /\ waiter' = [waiter EXCEPT ![s] = FALSE]
  /\ claim' = [claim EXCEPT ![s] = FALSE]
  /\ UNCHANGED <<state, procVars, inboxVars, reason, timedOut, closeVars>>

\* The backend failed under the wait: there is no report to return.
KillFindsFailed(s) ==
  /\ waiter[s] /\ state[s] = "failed"
  /\ waiter' = [waiter EXCEPT ![s] = FALSE]
  /\ UNCHANGED <<state, procVars, inboxVars, reason, timedOut, claim, closeVars>>

-----------------------------------------------------------------------------
(* The process, its supervisor and its reader.                             *)

ProcessEnds(s) ==
  /\ proc[s] = "alive"
  /\ proc' = [proc EXCEPT ![s] = "dead"]
  /\ UNCHANGED <<state, stop, sup, reading, opening, inboxVars, killVars, closeVars>>

Owe(s) == stop' = [stop EXCEPT ![s] = IF @ = "no" THEN "owed" ELSE @]

\* _supervise: an interactive session nobody typed into.
IdleExpires(s) ==
  /\ sup[s] = "polling" /\ Kind[s] = "interactive"
  /\ reason' = [reason EXCEPT ![s] = IF @ = "none" THEN "idle" ELSE @]
  /\ Owe(s)
  /\ sup' = [sup EXCEPT ![s] = "settling"]
  /\ UNCHANGED <<state, proc, reading, opening, inboxVars, timedOut, claim,
                 waiter, closeVars>>

\* The deadline is watched whether or not the session is being killed.
DueUnlessKilled(s) == sup[s] = "polling" /\ reason[s] = "none"
Due(s) == sup[s] = "polling"

\* _supervise: the deadline passed.
DeadlinePasses(s) ==
  /\ Due(s)
  /\ timedOut' = [timedOut EXCEPT ![s] = @ \/ reason[s] = "none"]
  /\ Owe(s)
  /\ sup' = [sup EXCEPT ![s] = "settling"]
  /\ UNCHANGED <<state, proc, reading, opening, inboxVars, reason, claim,
                 waiter, closeVars>>

\* _supervise: the process was seen to exit, or the settle after the kill is
\* over, whether or not the process is gone.
WaitEnds(s) ==
  /\ \/ sup[s] = "polling" /\ proc[s] = "dead"
     \/ sup[s] = "settling" /\ stop[s] = "sent"
  /\ sup' = [sup EXCEPT ![s] = "draining"]
  /\ UNCHANGED <<state, proc, stop, reading, opening, inboxVars, killVars, closeVars>>

\* _match: one line matched.  The reader may still be here after the join
\* of _supervise timed out: something else holds the output stream open.
MatchLine(s) ==
  /\ reading[s]
  /\ matchCount[s] < MaxMatches
  /\ matchCount' = [matchCount EXCEPT ![s] = @ + 1]
  /\ matches' = [matches EXCEPT ![s] = IF suspended[Owner[s]]
                                   THEN MatchHeld(@) ELSE MatchEvent(@)]
  /\ UNCHANGED <<state, procVars, report, wakes, suspended, killVars, closeVars>>

\* _read: the stream is at its end.
StreamEnds(s) ==
  /\ reading[s]
  /\ reading' = [reading EXCEPT ![s] = FALSE]
  /\ UNCHANGED <<state, proc, stop, sup, opening, inboxVars, killVars, closeVars>>

Fate(s) == IF reason[s] # "none" THEN "killed"
           ELSE IF timedOut[s] THEN "timed_out" ELSE "exited"

HoldsUnlessSuspended(s) == \/ Kind[s] = "interactive"
                           \/ reason[s] = "user" /\ Owner[s] \notin Subagents
HoldsUnlessShell(s) == \/ suspended[Owner[s]]
                       \/ reason[s] = "user" /\ Owner[s] \notin Subagents

\* The end of s is held for the user's next message instead of waking.
Holds(s) == \/ suspended[Owner[s]]
            \/ Kind[s] = "interactive"
            \/ reason[s] = "user" /\ Owner[s] \notin Subagents

\* Where the event of the end goes.
NowhereIfClaimed(s) == IF claim[s] THEN "none" ELSE IF Holds(s) THEN "held" ELSE "events"
Destination(s) == IF claim[s] THEN "final" ELSE IF Holds(s) THEN "held" ELSE "events"

\* _finish: after the reader ended, or after the ten seconds it is given.
Finish(s) ==
  /\ sup[s] = "draining"
  /\ sup' = [sup EXCEPT ![s] = "done"]
  /\ state' = [state EXCEPT ![s] = Fate(s)]
  /\ report' = [report EXCEPT ![s] = Destination(s)]
  /\ matches' = [matches EXCEPT ![s] = FoldIntoEnd(@)]
  /\ UNCHANGED <<proc, stop, reading, opening, matchCount, wakes, suspended, killVars,
                 closeVars>>

-----------------------------------------------------------------------------
(* What the consumers of an inbox do.                                      *)

HasEvents(s) == report[s] = "events" \/ matches[s].events > 0
HasHeld(s) == report[s] = "held" \/ matches[s].held > 0

\* pending
Pending(t) == ~suspended[t] /\ \E s \in Owned(t) : HasEvents(s)

WithinLimit(t) == wakes[t] < MaxWakes

CountNothing(t) == UNCHANGED wakes
CountWake(t) == wakes' = [wakes EXCEPT ![t] = @ + 1]

\* _take_locked within the limit: the whole queue is one wake.
TakeBatch(t) ==
  /\ Pending(t) /\ WithinLimit(t)
  /\ CountWake(t)
  /\ report' = [s \in Sessions |-> IF Owner[s] = t /\ report[s] = "events"
                                   THEN "woken" ELSE report[s]]
  /\ matches' = [s \in Sessions |->
       IF Owner[s] # t THEN matches[s]
       ELSE IF report[s] = "events" THEN TellEnd(TellEvents(matches[s]))
       ELSE TellEvents(matches[s])]
  /\ UNCHANGED <<state, procVars, matchCount, suspended, killVars, closeVars>>

\* _take_locked at the limit: waking stops and the queue moves to held.
Suspend(t) ==
  /\ Pending(t) /\ ~WithinLimit(t)
  /\ suspended' = [suspended EXCEPT ![t] = TRUE]
  /\ report' = [s \in Sessions |-> IF Owner[s] = t /\ report[s] = "events"
                                   THEN "held" ELSE report[s]]
  /\ matches' = [s \in Sessions |->
       IF Owner[s] = t THEN HoldEvents(matches[s]) ELSE matches[s]]
  /\ UNCHANGED <<state, procVars, matchCount, wakes, killVars, closeVars>>

\* take_held
TakeHeld(t) ==
  /\ \E s \in Owned(t) : HasHeld(s)
  /\ report' = [s \in Sessions |-> IF Owner[s] = t /\ report[s] = "held"
                                   THEN "delivered" ELSE report[s]]
  /\ matches' = [s \in Sessions |->
       IF Owner[s] # t THEN matches[s]
       ELSE IF report[s] = "held" THEN TellEnd(TellHeld(matches[s]))
       ELSE TellHeld(matches[s])]
  /\ UNCHANGED <<state, procVars, matchCount, wakes, suspended, killVars, closeVars>>

\* note_user_input
NoteUserInput(t) ==
  /\ wakes' = [wakes EXCEPT ![t] = 0]
  /\ suspended' = [suspended EXCEPT ![t] = FALSE]
  /\ UNCHANGED <<state, procVars, report, matchCount, matches, killVars, closeVars>>

-----------------------------------------------------------------------------
(* close, on the way out of the process.                                   *)

\* No new session, and every live one has a reason, in one critical section.
CloseMarks ==
  /\ closer = "open"
  /\ closer' = "marked"
  /\ swept' = {s \in Sessions : Live(s)}
  /\ reason' = [s \in Sessions |-> IF Live(s) /\ reason[s] = "none"
                                   THEN "quit" ELSE reason[s]]
  /\ UNCHANGED <<state, procVars, inboxVars, timedOut, claim, waiter>>

\* Outside the lock: a killer for every swept session that has a process.
CloseKills ==
  /\ closer = "marked"
  /\ closer' = "signalled"
  /\ stop' = [s \in Sessions |->
                IF s \in swept /\ proc[s] # "none" /\ stop[s] = "no"
                THEN "owed" ELSE stop[s]]
  /\ UNCHANGED <<state, proc, sup, reading, opening, inboxVars, killVars, swept>>

\* Everything swept is over, or the shared budget is.
CloseReturns ==
  /\ closer = "signalled"
  /\ closer' = "closed"
  /\ UNCHANGED <<state, procVars, inboxVars, killVars, swept>>

-----------------------------------------------------------------------------
Supervise(s) == IdleExpires(s) \/ DeadlinePasses(s) \/ WaitEnds(s) \/ Finish(s)

\* What a session's own threads, and the calls already made about it, do.
Inner(s) ==
  \/ SpawnFails(s) \/ Spawned(s) \/ Opened(s) \/ OpenFails(s)
  \/ StopSent(s) \/ KillReport(s) \/ KillGivesUp(s) \/ KillFindsFailed(s)
  \/ ProcessEnds(s) \/ MatchLine(s) \/ StreamEnds(s) \/ Supervise(s)

SessionStep(s) == Start(s) \/ Inner(s) \/ \E r \in CallerReasons : Kill(s, r)

InboxStep(t) == TakeBatch(t) \/ Suspend(t) \/ TakeHeld(t) \/ NoteUserInput(t)

CloseStep == CloseMarks \/ CloseKills \/ CloseReturns

\* The other reasons, idle, open_failed and quit, are set by the supervisor,
\* by start and by close.
Next ==
  \/ \E s \in Sessions : SessionStep(s)
  \/ \E t \in Threads : InboxStep(t)
  \/ CloseStep

Spec == Init /\ [][Next]_vars

\* Threads of the process run, deadlines pass and bounded waits end.  Nothing
\* is assumed of the shell process, of its output stream, of the user or of
\* whoever reads an inbox.
Fairness ==
  /\ \A s \in Sessions : /\ WF_vars(SpawnFails(s) \/ Spawned(s))
                         /\ WF_vars(StopSent(s))
                         /\ WF_vars(Supervise(s))
                         /\ WF_vars(Opened(s) \/ OpenFails(s))
                         /\ WF_vars(KillReport(s) \/ KillGivesUp(s) \/ KillFindsFailed(s))
  /\ WF_vars(CloseKills) /\ WF_vars(CloseReturns)

FairSpec == Spec /\ Fairness

-----------------------------------------------------------------------------
(* Properties.                                                             *)

\* A kill is never lost, whoever made it and however early: a running session
\* with a kill reason has had its process stopped, or a definite thread still
\* owes the call.  The window is start's, between the insertion and the
\* moment there is a process (killed_early), and close's, between its lock
\* and its killers.
KillReachesProcess ==
  \A s \in Sessions : state[s] = "running" /\ reason[s] # "none"
    => \/ stop[s] # "no"
       \/ closer = "marked" /\ s \in swept

\* Once close has marked the registry, nothing can come to life or stay
\* alive behind its back: every live session is marked to be killed.
NothingOutlivesClose ==
  closing => \A s \in Sessions : Live(s) => s \in swept /\ reason[s] # "none"

\* A report withheld from the inboxes because the agent's own kill claimed it
\* still has that kill there to return it, and a claim on a live session is
\* never left behind by a kill that is gone.
ClaimHasOwner ==
  \A s \in Sessions : /\ report[s] = "final" => waiter[s]
                      /\ claim[s] /\ Live(s) => waiter[s]

\* The end of a session is reported if and only if it has ended, and not as a
\* start that failed (whose caller got the exception).
EndedIsReported ==
  \A s \in Sessions : state[s] \in ENDED_STATES <=> report[s] # "none"

\* An interactive shell's end (SS31), and the end of a session of the main
\* conversation that the user stopped (SS19), never start a wake turn.
QuietEndsNeverWake ==
  \A s \in Sessions :
    \/ Kind[s] = "interactive"
    \/ reason[s] = "user" /\ Owner[s] \notin Subagents /\ ~Live(s)
    => report[s] \notin {"events", "woken"}

\* No matched line is dropped or counted twice on its way to the agent: while
\* the queues coalesce, while waking is suspended, when the end of the session
\* takes over what was not yet delivered, and when a kill takes the report.
NoMatchLost ==
  \A s \in Sessions : matchCount[s] = Total(matches[s])

\* Past the consecutive-wake limit the wake queue of a conversation is empty
\* and stays empty: whatever ends or matches goes to the held one.
SuspendedQueuesNothing ==
  \A t \in Threads : suspended[t] => \A s \in Owned(t) : ~HasEvents(s)

\* Ends and reports coincide, and a report has a place it will be told from: a
\* queue, or the kill that claimed it.
ReportsAreOwed == EndedIsReported /\ ClaimHasOwner

\* Every matched line stays on its way, past the wake limit as before it, and
\* there it is on the way that wakes nobody.
MatchesAreKept == NoMatchLost /\ SuspendedQueuesNothing

\* A report withheld for the agent's own kill is returned by it.
ClaimedReportReturned ==
  \A s \in Sessions : report[s] = "final" ~> report[s] = "returned"

-----------------------------------------------------------------------------
(* The promise, and how this specification keeps it.                       *)

Phase(s) == IF state[s] = "unused" THEN "idle"
            ELSE IF Live(s) THEN "live"
            ELSE IF state[s] = "failed" THEN "refused"
            ELSE IF report[s] \in {"woken", "delivered", "returned"} THEN "told"
            ELSE "owed"

Reports == INSTANCE SessionReports
             WITH phase <- [s \in Sessions |-> Phase(s)], accepting <- ~closing

\* The manager keeps the promise of SessionReports: in particular a report is
\* never withdrawn, repeated, or made for a session that did not end.
KeepsReports == Reports!Spec

\* And every started session ends, even one whose process ignores its kill or
\* whose output stream never closes.
KeepsReportsFairly == Reports!FairSpec
=============================================================================
