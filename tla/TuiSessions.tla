---------------------------- MODULE TuiSessions ----------------------------
(***************************************************************************)
(* The terminal interface (tui/app.py) as the consumer of the sessions of  *)
(* its conversation: the SessionManager of ShellSessions composed with the *)
(* UI thread, which takes messages, the kill key, escape and the quit, and *)
(* with the worker of the running turn, which stays in _wait_for_sessions  *)
(* after it.  Unlike the command line's loop, everything the user does may *)
(* land at any moment of the worker's.                                     *)
(*                                                                         *)
(* A definition right before another of the same parameters, which nothing *)
(* uses, is the second one with a plausible bug in it: the properties are  *)
(* checked to notice it.                                                   *)
(***************************************************************************)
EXTENDS SessionConsumer

\* pc is where the worker of the turn is; at idle and resume the UI thread has it.
VARIABLES
  cancelled,     \* the turn's CancelToken
  shutting_down, \* _shutting_down
  outcome        \* how the last worker ended

tuiVars == <<pc, cancelled, shutting_down, outcome>>
tuiAllVars == <<vars, tuiVars>>

TuiInit == /\ Init /\ pc = "idle" /\ outcome = "idle"
           /\ cancelled = FALSE /\ shutting_down = FALSE

\* The worker is over, and TurnFinished puts the token away.
WorkerEnds(from, why) == /\ Goto(from, "idle")
                         /\ outcome' = why
                         /\ cancelled' = FALSE
                         /\ UNCHANGED shutting_down

\* A step of the worker that leaves the UI's state alone.
Worker(from, to) == Goto(from, to) /\ UNCHANGED <<cancelled, shutting_down, outcome>>

-----------------------------------------------------------------------------
(* The UI thread.                                                          *)

Blocking(s) == Live(s) /\ Kind[s] \in BLOCKING_KINDS

\* SessionManager.blocks
Blocks == ~suspended[Consumer] /\ \E s \in Owned(Consumer) : Blocking(s)

\* refuse_if_occupied let the message through; _deliver_held takes what is held.
SubmitMessage ==
  /\ ~Blocks /\ ~shutting_down
  /\ Goto("idle", "resume")
  /\ IF \E s \in Owned(Consumer) : HasHeld(s) THEN TakeHeld(Consumer) ELSE UNCHANGED vars
  /\ UNCHANGED <<cancelled, shutting_down, outcome>>

\* note_user_input, the user's row, a new token and a worker.
StartTurn ==
  /\ Goto("resume", "turn")
  /\ NoteUserInput(Consumer)
  /\ UNCHANGED <<cancelled, shutting_down, outcome>>

\* The storage refused one of the rows: no turn.
CannotStart ==
  /\ Goto("resume", "idle")
  /\ \/ NoteUserInput(Consumer)
     \/ UNCHANGED vars
  /\ outcome' = "failed"
  /\ UNCHANGED <<cancelled, shutting_down>>

\* ctrl+b or /kill: one session, on a worker of its own.
KillSession(s) ==
  /\ pc \notin {"resume", "exited"}
  /\ Kill(s, "user")
  /\ UNCHANGED tuiVars

Working == pc \notin {"idle", "resume", "exited"}

\* escape
CancelTurn ==
  /\ Working /\ ~cancelled
  /\ cancelled' = TRUE
  /\ UNCHANGED <<vars, pc, shutting_down, outcome>>

\* The quit: the flag, then the token of a running turn.
Quit ==
  /\ pc \notin {"resume", "exited"} /\ ~shutting_down
  /\ shutting_down' = TRUE
  /\ cancelled' = Working
  /\ UNCHANGED <<vars, pc, outcome>>

\* App.run returns once no worker is alive, and _close_sessions follows.
AppReturns ==
  /\ shutting_down
  /\ Goto("idle", "exited")
  /\ UNCHANGED <<vars, cancelled, shutting_down, outcome>>

Closing == pc = "exited" /\ CloseStep /\ UNCHANGED tuiVars

-----------------------------------------------------------------------------
(* The worker: the turn, then _wait_for_sessions.                          *)

WorkerCalls(s) ==
  /\ pc \in {"turn", "wake"}
  /\ Start(s) \/ Kill(s, "model")
  /\ UNCHANGED tuiVars

WorkerTurnEnds == Worker("turn", "check") /\ CallsDone /\ UNCHANGED vars
WorkerWakeEnds == Worker("wake", "check") /\ CallsDone /\ UNCHANGED vars

\* _consume: whatever the turn or the wait raised.
WorkerFails ==
  /\ \E at \in {"turn", "wake", "got"} : WorkerEnds(at, "failed")
  /\ CallsDone
  /\ UNCHANGED vars

WorkerChecksLive ==
  /\ Worker("check", IF LiveOwned # {} THEN "guards" ELSE "recheck")
  /\ UNCHANGED vars

WorkerChecksPending ==
  /\ Pending(Consumer)
  /\ Worker("recheck", "guards")
  /\ UNCHANGED vars

WorkerSeesNoneLive == WorkerEnds("recheck", "idle") /\ UNCHANGED vars

WorkerSeesNothingLeft ==
  /\ ~Pending(Consumer)
  /\ WorkerEnds("recheck", "idle")
  /\ UNCHANGED vars

\* The quit is read before the token it also sets.
QuitEnds ==
  /\ shutting_down \/ closing
  /\ WorkerEnds("guards", "quit")
  /\ UNCHANGED vars

CancelEnds ==
  /\ ~shutting_down /\ ~closing /\ cancelled
  /\ WorkerEnds("guards", "stopped")
  /\ UNCHANGED vars

GuardsPass ==
  /\ ~shutting_down /\ ~closing /\ ~cancelled
  /\ Worker("guards", "wait")
  /\ UNCHANGED vars

WorkerTakes == Worker("wait", "got") /\ TakeBatch(Consumer)

WorkerSuspends == WorkerEnds("wait", "suspended") /\ Suspend(Consumer)

WorkerGetsNoneWhenDone ==
  /\ ~Pending(Consumer) /\ ~Blocks
  /\ \/ suspended[Consumer] /\ WorkerEnds("wait", "suspended")
     \/ ~suspended[Consumer] /\ Worker("wait", "check")
  /\ UNCHANGED vars

\* wait_for_wake returns None: nothing blocking is live or its second is over.
WorkerGetsNone ==
  /\ ~Pending(Consumer)
  /\ \/ suspended[Consumer] /\ WorkerEnds("wait", "suspended")
     \/ ~suspended[Consumer] /\ Worker("wait", "check")
  /\ UNCHANGED vars

\* The wake row is written and its turn begins.
WorkerWakes == Worker("got", "wake") /\ UNCHANGED vars

-----------------------------------------------------------------------------
\* The process is gone, with the daemon threads it still had.
TuiOver == closer = "closed" /\ UNCHANGED tuiAllVars

TuiBackground(s) == closer # "closed" /\ Inner(s) /\ UNCHANGED tuiVars

WorkerLoop ==
  \/ StartTurn \/ WorkerTurnEnds \/ WorkerWakeEnds \/ WorkerChecksLive
  \/ WorkerChecksPending \/ WorkerSeesNothingLeft \/ QuitEnds \/ CancelEnds
  \/ GuardsPass \/ WorkerTakes \/ WorkerSuspends \/ WorkerGetsNone \/ WorkerWakes

TuiNext ==
  \/ \E s \in Sessions : TuiBackground(s) \/ WorkerCalls(s) \/ KillSession(s)
  \/ WorkerLoop \/ CannotStart \/ WorkerFails
  \/ SubmitMessage \/ CancelTurn \/ Quit \/ AppReturns \/ Closing
  \/ TuiOver

TuiSpec == TuiInit /\ [][TuiNext]_tuiAllVars

\* The worker runs, and a call of the turn into the manager returns: start
\* through its backend and its prompt wait, kill through its bounded wait.
\* No session need ever end, and no deadline pass.
CallsReturn(s) ==
  /\ WF_tuiAllVars((SpawnFails(s) \/ Spawned(s)) /\ UNCHANGED tuiVars)
  /\ WF_tuiAllVars((Opened(s) \/ OpenFails(s)) /\ UNCHANGED tuiVars)
  /\ WF_tuiAllVars((KillReport(s) \/ KillGivesUp(s) \/ KillFindsFailed(s))
                  /\ UNCHANGED tuiVars)

WorkerSpec == TuiSpec /\ WF_tuiAllVars(WorkerLoop) /\ \A s \in Sessions : CallsReturn(s)

-----------------------------------------------------------------------------
(* Properties.                                                             *)

\* A worker that ended because nothing was left leaves no session of the
\* conversation live and no end waiting to be told; one that ended suspended
\* leaves waking suspended until a message resumes it.
IdleMeansDone ==
  /\ pc = "idle" /\ outcome = "idle" =>
       \A s \in Owned(Consumer) : ~Live(s) /\ report[s] # "events"
  /\ pc = "idle" /\ outcome = "suspended" => suspended[Consumer]

\* A quit ends the wait of the worker by itself, though the close that stops
\* the sessions only comes after it (SS6-b).
QuitEndsWait == shutting_down ~> pc \in {"idle", "exited"}

\* So does escape, with the sessions left running (CN2).
EscapeEndsWait == cancelled ~> pc \in {"idle", "exited"}

\* The user is never held by a shell that does not end.
WaitLetsGo == QuitEndsWait /\ EscapeEndsWait
=============================================================================
