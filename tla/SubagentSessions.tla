-------------------------- MODULE SubagentSessions --------------------------
(***************************************************************************)
(* A spawned subagent (agents/subagent_tool.py: run, _sleep_for_sessions,  *)
(* _wake) as the consumer of its own sessions: the SessionManager of       *)
(* ShellSessions composed with the thread of the spawn call, which runs    *)
(* the child, sleeps until the child's sessions have reported, and stops   *)
(* what is left at the wake limit or when the child raises.  The user may  *)
(* stop any of the sessions (the kill key shows them too).  The user's     *)
(* request to stop the whole turn is not here: the child's own turns read  *)
(* it, and end as they may at any time; the sleep does not.                *)
(*                                                                         *)
(* A definition right before another of the same parameters, which nothing *)
(* uses, is the second one with a plausible bug in it: the properties are  *)
(* checked to notice it.                                                   *)
(***************************************************************************)
EXTENDS SessionConsumer

\* A child runs at owner_depth > 0: the other consumers are not of Subagents.
OfSubagent == Consumer \in Subagents

\* pc is where the spawn call is.
VARIABLE unswept  \* the ids a sweep still has to kill

spawnVars == <<pc, unswept>>
spawnAllVars == <<vars, spawnVars>>

SpawnInit == Init /\ pc = "run" /\ unswept = {}

\* The call is over.  What happens to the sessions from here on is the
\* manager's, and ShellSessions has it.
Returned == pc \in {"done", "raised"}

\* Into a sweep: kill_owned and kill_by_span collect the ids first.  Every
\* session of the child was started inside its span.
Sweep(from, to) == Goto(from, to) /\ unswept' = LiveOwned

SweepReasons == [limit |-> "wake_limit", leaving |-> "wake_limit",
                 failing |-> "owner_failed"]

\* One kill of a sweep; a session that ended meanwhile is left alone.
SweepOne(s) ==
  /\ pc \in DOMAIN SweepReasons /\ s \in unswept
  /\ unswept' = unswept \ {s}
  /\ IF Live(s) THEN Kill(s, SweepReasons[pc]) ELSE UNCHANGED vars
  /\ UNCHANGED pc

SweepDone(from, to) == unswept = {} /\ Goto(from, to) /\ UNCHANGED <<vars, unswept>>

-----------------------------------------------------------------------------
(* The child's turns: its first, a wake, and the last wake at the limit.   *)

ChildInTurn == pc \in {"run", "wake", "lastwake"}

ChildCalls(s) ==
  /\ ChildInTurn
  /\ Start(s) \/ Kill(s, "model")
  /\ UNCHANGED spawnVars

RunEnds ==
  /\ CallsDone
  /\ \E from \in {"run", "wake"} : Goto(from, "sleep")
  /\ UNCHANGED <<vars, unswept>>

LastWakeReturns == CallsDone /\ Goto("lastwake", "done") /\ UNCHANGED <<vars, unswept>>

\* Anything the last turn started has nobody left to report to.
LastWakeEnds == CallsDone /\ Sweep("lastwake", "leaving") /\ UNCHANGED vars

\* except BaseException around all of it: kill_by_span.
ChildRaises ==
  /\ CallsDone
  /\ \E from \in {"run", "wake", "lastwake"} : Sweep(from, "failing")
  /\ UNCHANGED vars

Raised == SweepDone("failing", "raised")

-----------------------------------------------------------------------------
(* _sleep_for_sessions                                                     *)

\* wait_for_wake, which has no timeout here, returns a batch.
SleepTakes == Goto("sleep", "wake") /\ TakeBatch(Consumer) /\ UNCHANGED unswept

\* It suspends waking, for good: a subagent has no user to resume it (SS20).
SleepSuspends == Sweep("sleep", "limit") /\ Suspend(Consumer)

SleepEndsUnasked ==
  /\ \A s \in LiveOwned : Kind[s] \notin BLOCKING_KINDS
  /\ Goto("sleep", "done")
  /\ UNCHANGED <<vars, unswept>>

\* It returns None: nothing blocking is live and nothing is pending.
SleepEnds ==
  /\ ~Pending(Consumer)
  /\ \A s \in LiveOwned : Kind[s] \notin BLOCKING_KINDS
  /\ Goto("sleep", "done")
  /\ UNCHANGED <<vars, unswept>>

LimitSwept == SweepDone("limit", "held")

\* The held results, those of the sweep among them, are the last wake's.  There
\* are some: what Suspend moved, which nobody else takes.
LastWake ==
  /\ TakeHeld(Consumer)
  /\ Goto("held", "lastwake")
  /\ UNCHANGED unswept

Leaves == SweepDone("leaving", "done")

-----------------------------------------------------------------------------
(* The user.                                                               *)

KillChildSession(s) == ~Returned /\ Kill(s, "user") /\ UNCHANGED spawnVars

-----------------------------------------------------------------------------
SpawnOver == Returned /\ UNCHANGED spawnAllVars

SpawnBackground(s) == ~Returned /\ Inner(s) /\ UNCHANGED spawnVars

Spawn == \/ RunEnds \/ LastWakeEnds \/ Raised \/ SleepTakes \/ SleepSuspends
         \/ SleepEnds \/ LimitSwept \/ LastWake \/ Leaves
         \/ \E s \in Sessions : SweepOne(s)

SpawnNext ==
  \/ \E s \in Sessions : SpawnBackground(s) \/ ChildCalls(s) \/ KillChildSession(s)
  \/ Spawn \/ ChildRaises \/ SpawnOver

SpawnSpec == SpawnInit /\ [][SpawnNext]_spawnAllVars

\* The spawn call runs, a call of the child into the manager returns, and the
\* sessions are supervised.
SupervisedSpec ==
  /\ SpawnSpec
  /\ WF_spawnAllVars(Spawn)
  /\ \A s \in Sessions :
       /\ WF_spawnAllVars((SpawnFails(s) \/ Spawned(s)) /\ UNCHANGED spawnVars)
       /\ WF_spawnAllVars((Opened(s) \/ OpenFails(s)) /\ UNCHANGED spawnVars)
       /\ WF_spawnAllVars((KillReport(s) \/ KillGivesUp(s) \/ KillFindsFailed(s))
                       /\ UNCHANGED spawnVars)
       /\ WF_spawnAllVars(StopSent(s) /\ UNCHANGED spawnVars)
       /\ WF_spawnAllVars(Supervise(s) /\ UNCHANGED spawnVars)

-----------------------------------------------------------------------------
(* Properties.                                                             *)

\* A spawn call that returned, or raised, leaves no work running that nobody
\* stopped: every session of a blocking kind still live has a kill reason.
LeavesNothingRunning ==
  pc \in {"done", "raised"} =>
    \A s \in LiveOwned : Kind[s] \in BLOCKING_KINDS => reason[s] # "none"

\* A child that answers without having reached the wake limit was told the end
\* of everything that could wake it (SS9).
AnswersToldOfAll ==
  pc = "done" /\ ~suspended[Consumer] =>
    \A s \in Owned(Consumer) :
      state[s] \in ENDED_STATES /\ Kind[s] \in BLOCKING_KINDS
        => report[s] \in {"woken", "returned"}

\* So a spawn that is over leaves nothing of a blocking kind behind, neither work
\* nobody stopped nor, short of the wake limit, news of it.
LeavesNothing == LeavesNothingRunning /\ AnswersToldOfAll

\* The spawn call returns to the parent: the wake limit bounds the wakes, and
\* deadlines the sleeps between them.
ChildReturns == <>(pc \in {"done", "raised"})
=============================================================================
