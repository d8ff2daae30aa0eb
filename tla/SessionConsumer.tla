-------------------------- MODULE SessionConsumer --------------------------
(***************************************************************************)
(* What the three consumers of a conversation's sessions have in common:   *)
(* the command line's loop (CliSessions), the terminal interface           *)
(* (TuiSessions) and a spawned subagent (SubagentSessions).  Each of them  *)
(* composes the SessionManager of ShellSessions with the one thread that   *)
(* owns the sessions; a subagent's is one of Subagents, the others' not.   *)
(***************************************************************************)
EXTENDS ShellSessions

CONSTANT Consumer  \* the thread that owns the sessions

ASSUME ConsumerAssumption == /\ Consumer \in Threads
                             /\ Owner = [s \in Sessions |-> Consumer]
ASSUME CallersAssumption ==
  CallerReasons = {"model", "user", "wake_limit", "owner_failed"}

VARIABLE pc  \* where the consumer is

Goto(from, to) == pc = from /\ pc' = to

\* What live_for lists, and kill_owned's ids.
LiveOwned == {s \in Owned(Consumer) : Live(s)}

\* No call of a turn is still inside the manager.
CallsDone == \A s \in Sessions : state[s] # "starting" /\ ~opening[s] /\ ~waiter[s]
=============================================================================
