---------------------------- MODULE CliSessions ----------------------------
(***************************************************************************)
(* The command line's chat loop (main.py: run_chat, _chat_turn,            *)
(* _await_sessions, _deliver_held) as the one consumer of                  *)
(* the sessions of its conversation: the SessionManager of ShellSessions   *)
(* composed with the thread that starts sessions inside its turns, waits   *)
(* on them between turns, runs a wake turn for each batch, stops them on   *)
(* Ctrl+C, and leaves.                                                     *)
(*                                                                         *)
(* A turn is abstracted to what it does to sessions: it starts them, the   *)
(* model may kill them, and it ends or fails once no call of it is still   *)
(* inside the manager.                                                     *)
(*                                                                         *)
(* A definition right before another of the same parameters, which nothing *)
(* uses, is the second one with a plausible bug in it: the properties are  *)
(* checked to notice it.                                                   *)
(***************************************************************************)
EXTENDS SessionConsumer

\* pc is where the loop is.
VARIABLES
  pressed,  \* the interrupted list of _await_sessions is not empty
  woken,    \* wake turns begun since the last message of the user
  todo,     \* the ids kill_owned still has to kill
  left,     \* how the wait came back to the prompt: nothing was left, waking
            \* was suspended, the sessions were stopped, or a turn failed
  hand,     \* sessions whose ends the loop has taken from the manager and
            \* not yet written into a row of the thread
  dropped   \* auxiliary: sessions whose ends were in hand when it was let go

rowVars == <<hand, dropped>>
cliVars == <<pc, pressed, woken, todo, left, rowVars>>
cliAllVars == <<vars, cliVars>>

CliInit == Init /\ pc = "prompt" /\ pressed = FALSE /\ woken = 0
                /\ todo = {} /\ left = "idle" /\ hand = {} /\ dropped = {}

\* Back to reading a line from the user.
Prompt(from, why) == /\ Goto(from, "prompt")
                     /\ left' = why
                     /\ pressed' = FALSE

\* The sessions whose ends this step takes from the manager.
TakesEnds == hand' = {s \in Sessions : report'[s] # report[s]} /\ UNCHANGED dropped

\* The row that tells what was in hand is in the thread.
WritesRow == hand' = {} /\ UNCHANGED dropped

\* What was taken is told by no row, and is no longer in any queue.
LetsGo == hand' = {} /\ dropped' = dropped \cup hand

-----------------------------------------------------------------------------
(* The user's message and its turn.                                        *)

MessageOnly == Goto("prompt", "resume") /\ UNCHANGED <<vars, pressed, todo, woken, left, rowVars>>

\* _deliver_held: take_held, when there is anything held.
Message ==
  /\ Goto("prompt", "resume")
  /\ IF \E s \in Owned(Consumer) : HasHeld(s) THEN TakeHeld(Consumer) ELSE UNCHANGED vars
  /\ TakesEnds
  /\ UNCHANGED <<pressed, woken, todo, left>>

\* append_harness_row, then the turn of the message.
Resume ==
  /\ Goto("resume", "turn")
  /\ NoteUserInput(Consumer)
  /\ WritesRow
  /\ woken' = 0
  /\ UNCHANGED <<pressed, todo, left>>

\* The tool calls of a turn, in the user's turn and in a wake turn alike.
InTurn == pc \in {"turn", "wake"}

TurnCalls(s) ==
  /\ InTurn
  /\ Start(s) \/ Kill(s, "model")
  /\ UNCHANGED cliVars

TurnEnds ==
  /\ Goto("turn", "check")
  /\ CallsDone
  /\ UNCHANGED <<vars, pressed, woken, todo, left, rowVars>>

\* An exception ended the turn: _chat_turn returns without waiting.
TurnFails ==
  /\ Prompt("turn", "failed")
  /\ CallsDone
  /\ UNCHANGED <<vars, woken, todo, rowVars>>

-----------------------------------------------------------------------------
(* _await_sessions                                                         *)

\* live_for, then pending, each under the lock of its own.
CheckLive ==
  /\ Goto("check", IF \E s \in Owned(Consumer) : Live(s) THEN "wait" ELSE "recheck")
  /\ UNCHANGED <<vars, pressed, woken, todo, left, rowVars>>

CheckPending ==
  /\ Pending(Consumer)
  /\ Goto("recheck", "wait")
  /\ UNCHANGED <<vars, pressed, woken, todo, left, rowVars>>

NothingLive == Prompt("recheck", "idle") /\ UNCHANGED <<vars, todo, woken, rowVars>>

NothingLeft ==
  /\ ~Pending(Consumer)
  /\ Prompt("recheck", "idle")
  /\ UNCHANGED <<vars, woken, todo, rowVars>>

\* wait_for_wake returns a batch.
WaitTakes ==
  /\ Goto("wait", "got")
  /\ TakeBatch(Consumer)
  /\ TakesEnds
  /\ UNCHANGED <<pressed, woken, todo, left>>

\* It suspends waking, and returns None; the loop reads suspended.
WaitSuspends ==
  /\ Prompt("wait", "suspended")
  /\ Suspend(Consumer)
  /\ UNCHANGED <<woken, todo, rowVars>>

\* It returns None with waking as it was: nothing blocking is live, the
\* manager is closing, or the second is over.
WaitReturnsNone ==
  /\ pc = "wait" /\ ~Pending(Consumer)
  /\ IF suspended[Consumer] THEN Prompt("wait", "suspended")
                        ELSE Goto("wait", "check") /\ UNCHANGED <<pressed, left>>
  /\ UNCHANGED <<vars, woken, todo, rowVars>>

\* The wake turn's own SIGINT handler is installed, and wake_conversation
\* writes the batch into the thread.
WakeBegins ==
  /\ Goto("got", "wake")
  /\ woken' = woken + 1
  /\ WritesRow
  /\ UNCHANGED <<vars, pressed, todo, left>>

\* It raised before the row was in the thread.
WakeUnwritten ==
  /\ Prompt("got", "failed")
  /\ LetsGo
  /\ UNCHANGED <<vars, woken, todo>>

\* The second Ctrl+C of a wake turn is kept for its end.
PressInWake ==
  /\ pc = "wake" /\ pressed' = TRUE
  /\ UNCHANGED <<vars, pc, woken, todo, left, rowVars>>

WakeEnds ==
  /\ pc = "wake" /\ CallsDone
  /\ IF pressed THEN pc' = "stopping" /\ todo' = LiveOwned
                ELSE pc' = "check" /\ UNCHANGED todo
  /\ UNCHANGED <<vars, pressed, woken, left, rowVars>>

WakeFails ==
  /\ Prompt("wake", "failed")
  /\ CallsDone
  /\ UNCHANGED <<vars, woken, todo, rowVars>>

\* Ctrl+C outside a turn: except KeyboardInterrupt, and kill_owned's ids.  A
\* batch already taken is a local of the frame the interrupt unwinds.
Interrupt ==
  /\ pc \in {"check", "recheck", "wait", "got"}
  /\ pc' = "stopping" /\ todo' = LiveOwned
  /\ LetsGo
  /\ UNCHANGED <<vars, pressed, woken, left>>

\* kill_owned, one kill at a time: one that ended meanwhile is left alone.
StopOne(s) ==
  /\ pc = "stopping" /\ s \in todo
  /\ todo' = todo \ {s}
  /\ IF Live(s) THEN Kill(s, "user") ELSE UNCHANGED vars
  /\ UNCHANGED <<pc, pressed, woken, left, rowVars>>

Stopped ==
  /\ todo = {}
  /\ Prompt("stopping", "stopped")
  /\ UNCHANGED <<vars, woken, todo, rowVars>>

-----------------------------------------------------------------------------
\* Ctrl+C or Ctrl+D at the prompt, confirmed when sessions are live; or a
\* Ctrl+C where nothing of the loop catches it.
Exit ==
  /\ pc \in {"prompt", "resume", "stopping"} /\ pc' = "exited"
  /\ UNCHANGED <<vars, pressed, woken, todo, left, rowVars>>

\* _close_sessions follows.  Nothing of the loop is left to see what it does to
\* the sessions, and ShellSessions has it.
CliOver == pc = "exited" /\ UNCHANGED cliAllVars

CliBackground(s) == pc # "exited" /\ Inner(s) /\ UNCHANGED cliVars

\* What the loop does by itself, neither the user nor a failure.
Loop == \/ Resume \/ TurnEnds \/ CheckLive \/ CheckPending \/ NothingLeft
        \/ WaitTakes \/ WaitSuspends \/ WaitReturnsNone \/ WakeBegins \/ WakeEnds
        \/ (\E s \in Sessions : StopOne(s)) \/ Stopped

CliNext ==
  \/ \E s \in Sessions : CliBackground(s) \/ TurnCalls(s)
  \/ Loop
  \/ Message \/ TurnFails \/ WakeFails \/ WakeUnwritten \/ PressInWake \/ Interrupt \/ Exit
  \/ CliOver

CliSpec == CliInit /\ [][CliNext]_cliAllVars

\* The manager's own fairness, and a loop that runs; a turn ends once its
\* calls are over.  Nothing is assumed of the user.
CliFairness ==
  /\ \A s \in Sessions :
       /\ WF_cliAllVars((SpawnFails(s) \/ Spawned(s)) /\ UNCHANGED cliVars)
       /\ WF_cliAllVars(StopSent(s) /\ UNCHANGED cliVars)
       /\ WF_cliAllVars(Supervise(s) /\ UNCHANGED cliVars)
       /\ WF_cliAllVars((Opened(s) \/ OpenFails(s)) /\ UNCHANGED cliVars)
       /\ WF_cliAllVars((KillReport(s) \/ KillGivesUp(s) \/ KillFindsFailed(s))
                       /\ UNCHANGED cliVars)
  /\ WF_cliAllVars(Loop)

CliFairSpec == CliSpec /\ CliFairness

\* A user who goes on writing messages, or leaves, and whose turns are from
\* some point on neither stopped nor failing.
TalkingSpec == /\ CliFairSpec
               /\ WF_cliAllVars(Message \/ Exit)
               /\ <>[][~(Interrupt \/ TurnFails \/ WakeFails \/ WakeUnwritten)]_cliAllVars

-----------------------------------------------------------------------------
(* Properties.                                                             *)

\* The user is asked for a line only when nothing of the conversation is left
\* (no session live, no end waiting to be told), waking is suspended, every session
\* still live has been told to stop, or the turn failed (SS2).
PromptMeansIdle ==
  pc = "prompt" =>
    CASE left = "idle" -> \A s \in Owned(Consumer) : ~Live(s) /\ report[s] # "events"
      [] left = "suspended" -> suspended[Consumer]
      [] left = "stopped" -> \A s \in LiveOwned : reason[s] # "none"
      [] left = "failed" -> TRUE

\* Between two messages of the user the sessions start at most
\* SHELL_SESSION_MAX_CONSECUTIVE_WAKES turns of their own, whatever the turns
\* start and stop and however often the user interrupts the waits (SS20).
WakesAreBounded == woken <= MaxWakes

\* The prompt always comes back from a wait, whatever the shells do: deadlines
\* end every session, and the wake limit ends the wakes.
PromptComesBack == pc \in {"check", "recheck", "wait", "got"} ~> pc \in {"prompt", "exited"}

\* With a user who goes on writing, every report of a session's end gets into a
\* row of the thread, in a wake or with a message, until the user leaves: ends
\* that were held, interrupted waits and turns that fail cost none of them.  One
\* hand-over is not covered, and the docstring of _await_sessions (main.py:448)
\* does not say so: a batch the loop has taken and not yet written, when a
\* Ctrl+C falls there (main.py:524) or the row cannot be written.
EveryEndIsTold ==
  \A s \in Sessions :
    report[s] \in {"events", "held"}
      ~> \/ report[s] \in {"woken", "delivered"} /\ s \notin hand \cup dropped
         \/ s \in dropped
         \/ pc = "exited"
=============================================================================
