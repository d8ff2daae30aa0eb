--------------------------- MODULE ConsumerProofs ---------------------------
(***************************************************************************)
(* Proofs about the three consumers, for any sessions of the conversation, *)
(* of any kinds, any capacity and any wake limit.  A consumer composed     *)
(* with the manager keeps to the manager's specification, so what          *)
(* ShellSessionsProofs proves of it holds here, and is what these proofs   *)
(* rest on.                                                                *)
(***************************************************************************)
EXTENDS CliSessions, TuiSessions, SubagentSessions, ShellSessionsProofs

USE ConsumerAssumption, CallersAssumption

-----------------------------------------------------------------------------
(* The command line.                                                       *)

\* Every step of the loop, of the turns and of the threads behind them is a
\* step of the manager, or none of its business.
LEMMA CliStepComposes == ASSUME [CliNext]_cliAllVars PROVE [Next]_vars
<1>. USE DEF Next, SessionStep, InboxStep, cliVars
<1>1. ASSUME NEW s \in Sessions, CliBackground(s) PROVE [Next]_vars
  BY <1>1 DEF CliBackground
<1>2. ASSUME NEW s \in Sessions, TurnCalls(s) PROVE [Next]_vars
  BY <1>2 DEF TurnCalls
<1>3. ASSUME NEW s \in Sessions, StopOne(s) PROVE [Next]_vars
  BY <1>3 DEF StopOne
<1>4. CASE Message \/ Resume
  BY <1>4 DEF Message, Resume
<1>5. CASE WaitTakes \/ WaitSuspends
  BY <1>5 DEF WaitTakes, WaitSuspends
<1>6. CASE TurnEnds \/ CheckLive \/ CheckPending \/ NothingLeft \/ WaitReturnsNone
  BY <1>6 DEF TurnEnds, CheckLive, CheckPending, NothingLeft, WaitReturnsNone
<1>7. CASE WakeBegins \/ WakeUnwritten \/ WakeEnds \/ Stopped \/ TurnFails \/ WakeFails
  BY <1>7 DEF WakeBegins, WakeUnwritten, WakeEnds, Stopped, TurnFails, WakeFails
<1>8. CASE PressInWake \/ Interrupt \/ Exit \/ CliOver
  BY <1>8 DEF PressInWake, Interrupt, Exit, CliOver, cliAllVars
<1>9. CASE UNCHANGED cliAllVars
  BY <1>9 DEF cliAllVars
<1>. QED
  BY <1>1, <1>2, <1>3, <1>4, <1>5, <1>6, <1>7, <1>8, <1>9 DEF CliNext, Loop

\* The command line's loop, composed with the manager, implements the manager:
\* whatever a consumer of it relies on holds while this one runs.
THEOREM CliComposes == CliSpec => Spec
<1>1. CliInit => Init
  BY DEF CliInit
<1>. QED
  BY <1>1, CliStepComposes, PTL DEF CliSpec, Spec

----------------------------------------------------------------------------
(* The invariant of the loop.                                              *)

CliPoints == {"prompt", "resume", "turn", "check", "recheck", "wait", "got", "wake",
           "stopping", "exited"}

\* No call of a turn is left in the manager when the turn is over.
CliOutside == pc \in CliPoints \ {"turn", "wake", "exited"} => NoCalls

\* Each wake turn of the user's message was counted when its batch was taken.
Counted == /\ woken \in Nat
           /\ woken <= wakes[Consumer]
           /\ pc = "got" => woken < wakes[Consumer]

\* A session the stop has not come to yet is on its list.
CliStopping == pc = "stopping" => \A s \in Sessions : Live(s) => s \in todo \/ reason[s] # "none"

\* Nothing comes to life between the two questions of the loop.
CliNoneLive == pc = "recheck" => \A s \in Sessions : ~Live(s)

AtPrompt ==
  pc = "prompt" =>
    /\ left \in {"idle", "suspended", "stopped", "failed"}
    /\ left = "idle" => \A s \in Sessions : ~Live(s) /\ report[s] # "events"
    /\ left = "suspended" => suspended[Consumer]
    /\ left = "stopped" => \A s \in Sessions : Live(s) => reason[s] # "none"

LoopInv == pc \in CliPoints /\ CliOutside /\ Counted /\ CliStopping /\ CliNoneLive /\ AtPrompt

\* The loop's own invariant holds initially,
LEMMA LoopInit == ASSUME CliInit PROVE LoopInv
  BY DEF CliInit, Init, LoopInv, CliPoints, CliOutside, NoCalls, Counted, CliStopping, CliNoneLive,
         AtPrompt, Live, LIVE_STATES

\* and every step keeps it, given what is proved of the manager.
LEMMA LoopStep == ASSUME IInv, LoopInv, [CliNext]_cliAllVars PROVE LoopInv'
<1>. USE DEF LoopInv, CliPoints, CliOutside, Counted, CliStopping, CliNoneLive, AtPrompt, Goto, Prompt
<1>0. TypeOK /\ Stages /\ Owned(Consumer) = Sessions /\ Consumer \in Threads
  BY DEF IInv, Safety, Owned
<1>a. wakes \in [Threads -> 0..MaxWakes]
  BY <1>0 DEF TypeOK
<1>b. wakes[Consumer] \in 0..MaxWakes /\ suspended[Consumer] \in BOOLEAN
  BY <1>0 DEF TypeOK
<1>1. ASSUME NEW s \in Sessions, CliBackground(s) PROVE LoopInv'
  BY <1>0, <1>1, InnerOnlyEnds DEF CliBackground, cliVars, OnlyEnds
<1>2. ASSUME NEW s \in Sessions, TurnCalls(s) PROVE LoopInv'
  <2>1. wakes' = wakes
    BY <1>0, <1>2, KillOnlyMarks DEF TurnCalls, Start, inboxVars, KillReasons
  <2>. QED
    BY <1>2, <2>1 DEF TurnCalls, InTurn, cliVars
<1>3. ASSUME NEW s \in Sessions, StopOne(s) PROVE LoopInv'
  <2>1. CASE Live(s)
    <3>1. Kill(s, "user")
      BY <1>3, <2>1 DEF StopOne
    <3>. QED
      BY <1>0, <1>3, <3>1, KillOnlyMarks DEF StopOne, KillReasons, Live, NoCalls
  <2>2. CASE ~Live(s)
    BY <1>3, <2>2 DEF StopOne, vars, procVars, inboxVars, killVars, NoCalls, Live
  <2>. QED
    BY <2>1, <2>2
<1>4. CASE Message
  BY <1>4 DEF Message, TakeHeld, vars, procVars, inboxVars, killVars, NoCalls
<1>5. CASE Resume
  BY <1>0, <1>5 DEF Resume, NoteUserInput, TypeOK
<1>6. CASE WaitTakes
  BY <1>0, <1>a, <1>b, <1>6 DEF WaitTakes, TakeBatch, CountWake, procVars, killVars, NoCalls
<1>7. CASE WaitSuspends
  BY <1>0, <1>7 DEF WaitSuspends, Suspend, TypeOK, procVars, killVars, NoCalls
<1>8. CASE TurnEnds
  BY <1>8 DEF TurnEnds, CallsDone, vars, procVars, inboxVars, killVars, NoCalls
<1>9. CASE CheckLive
  BY <1>0, <1>9 DEF CheckLive, vars, procVars, inboxVars, killVars, NoCalls, Live
<1>10. CASE CheckPending
  BY <1>10 DEF CheckPending, vars, procVars, inboxVars, killVars, NoCalls
<1>11. CASE NothingLeft
  <2>1. SuspendedQueuesNothing /\ suspended[Consumer] \in BOOLEAN
    BY <1>0 DEF IInv, Safety, TypeOK
  <2>2. \A s \in Sessions : report[s] # "events"
    BY <1>0, <1>11, <2>1 DEF NothingLeft, Pending, HasEvents, SuspendedQueuesNothing
  <2>3. UNCHANGED vars /\ pc = "recheck" /\ pc' = "prompt" /\ left' = "idle" /\ UNCHANGED woken
    BY <1>11 DEF NothingLeft
  <2>. QED
    BY <2>2, <2>3 DEF vars, inboxVars, procVars, killVars, NoCalls, Live
<1>12. CASE WaitReturnsNone
  BY <1>12 DEF WaitReturnsNone, vars, procVars, inboxVars, killVars, NoCalls
<1>13. CASE WakeBegins
  BY <1>b, <1>13 DEF WakeBegins, vars, inboxVars
<1>21. CASE WakeUnwritten
  BY <1>b, <1>21 DEF WakeUnwritten, vars, procVars, inboxVars, killVars, NoCalls
<1>14. CASE WakeEnds
  BY <1>0, <1>14 DEF WakeEnds, CallsDone, LiveOwned, vars, procVars, inboxVars, killVars, NoCalls, Live
<1>15. CASE Stopped
  BY <1>15 DEF Stopped, vars, procVars, inboxVars, killVars, NoCalls, Live
<1>16. CASE TurnFails \/ WakeFails
  BY <1>16 DEF TurnFails, WakeFails, CallsDone, vars, procVars, inboxVars, killVars, NoCalls
<1>17. CASE PressInWake
  BY <1>17 DEF PressInWake, vars, inboxVars
<1>18. CASE Interrupt
  BY <1>0, <1>18 DEF Interrupt, LiveOwned, vars, procVars, inboxVars, killVars, NoCalls, Live
<1>19. CASE Exit
  BY <1>19 DEF Exit, vars, inboxVars
<1>20. CASE CliOver \/ UNCHANGED cliAllVars
  BY <1>20 DEF CliOver, cliAllVars, cliVars, vars, procVars, inboxVars, killVars, NoCalls, Live
<1>. QED
  BY <1>1, <1>2, <1>3, <1>4, <1>5, <1>6, <1>7, <1>8, <1>9, <1>10, <1>11, <1>12, <1>13,
     <1>14, <1>15, <1>16, <1>17, <1>18, <1>19, <1>20, <1>21 DEF CliNext, Loop

LEMMA CliBoth == CliSpec => [](IInv /\ LoopInv)
<1>1. CliInit => LoopInv
  BY LoopInit
<1>2. IInv /\ LoopInv /\ [CliNext]_cliAllVars => LoopInv'
  BY LoopStep
<1>. QED
  BY <1>1, <1>2, CliComposes, SafetyAlways, PTL DEF CliSpec

\* The user is asked for a line only when nothing of the conversation is left,
\* waking is suspended, what lives was told to stop, or the turn failed.
THEOREM PromptIsIdle == CliSpec => []PromptMeansIdle
<1>1. IInv /\ LoopInv => PromptMeansIdle
  BY DEF LoopInv, AtPrompt, PromptMeansIdle, LiveOwned, Owned
<1>. QED
  BY <1>1, CliBoth, PTL

\* Sessions start at most the configured number of turns by themselves between
\* two messages of the user.
THEOREM WakesBounded == CliSpec => []WakesAreBounded
<1>1. ASSUME IInv, LoopInv PROVE WakesAreBounded
  <2>1. Consumer \in Threads /\ MaxWakes \in Nat
    BY BoundsAssumption
  <2>2. wakes[Consumer] \in 0..MaxWakes
    BY <1>1, <2>1 DEF IInv, TypeOK
  <2>3. woken \in Nat /\ woken <= wakes[Consumer]
    BY <1>1 DEF LoopInv, Counted
  <2>. QED
    BY <2>1, <2>2, <2>3 DEF WakesAreBounded
<1>. QED
  BY <1>1, CliBoth, PTL

-----------------------------------------------------------------------------
(* The terminal interface.                                                 *)

\* Every step of the UI thread, of the worker and of the threads behind them is
\* a step of the manager, or none of its business.
LEMMA TuiStepComposes == ASSUME [TuiNext]_tuiAllVars PROVE [Next]_vars
<1>. USE DEF Next, SessionStep, InboxStep, tuiVars
<1>1. ASSUME NEW s \in Sessions, TuiBackground(s) PROVE [Next]_vars
  BY <1>1 DEF TuiBackground
<1>2. ASSUME NEW s \in Sessions, WorkerCalls(s) PROVE [Next]_vars
  BY <1>2 DEF WorkerCalls
<1>3. ASSUME NEW s \in Sessions, KillSession(s) PROVE [Next]_vars
  BY <1>3 DEF KillSession
<1>4. CASE SubmitMessage \/ StartTurn \/ CannotStart
  BY <1>4 DEF SubmitMessage, StartTurn, CannotStart
<1>5. CASE WorkerTakes \/ WorkerSuspends
  BY <1>5 DEF WorkerTakes, WorkerSuspends
<1>6. CASE WorkerTurnEnds \/ WorkerWakeEnds \/ WorkerChecksLive \/ WorkerChecksPending \/ WorkerSeesNothingLeft
  BY <1>6 DEF WorkerTurnEnds, WorkerWakeEnds, WorkerChecksLive, WorkerChecksPending, WorkerSeesNothingLeft
<1>7. CASE QuitEnds \/ CancelEnds \/ GuardsPass \/ WorkerGetsNone \/ WorkerWakes
  BY <1>7 DEF QuitEnds, CancelEnds, GuardsPass, WorkerGetsNone, WorkerWakes
<1>8. CASE WorkerFails \/ CancelTurn \/ Quit \/ AppReturns
  BY <1>8 DEF WorkerFails, CancelTurn, Quit, AppReturns
<1>9. CASE Closing
  BY <1>9 DEF Closing
<1>10. CASE TuiOver \/ UNCHANGED tuiAllVars
  BY <1>10 DEF TuiOver, tuiAllVars
<1>. QED
  BY <1>1, <1>2, <1>3, <1>4, <1>5, <1>6, <1>7, <1>8, <1>9, <1>10 DEF TuiNext, WorkerLoop

\* The terminal interface, composed with the manager, implements the manager:
\* whatever a consumer of it relies on holds while this one runs.
THEOREM TuiComposes == TuiSpec => Spec
<1>1. TuiInit => Init
  BY DEF TuiInit
<1>. QED
  BY <1>1, TuiStepComposes, PTL DEF TuiSpec, Spec

----------------------------------------------------------------------------
(* The invariant of the worker.                                            *)

WorkerPoints == {"idle", "resume", "turn", "check", "recheck", "guards", "wait", "got", "wake",
           "exited"}

\* No call of a turn is outcome in the manager when the turn is over; a kill of the
\* user's does not wait in it.
WorkerOutside == pc \in WorkerPoints \ {"turn", "wake", "exited"} => NoCalls

\* Nothing comes to life between the two questions of the worker.
WorkerNoneLive == pc = "recheck" => \A s \in Sessions : ~Live(s)

WorkerInv == pc \in WorkerPoints /\ WorkerOutside /\ WorkerNoneLive /\ IdleMeansDone

\* The worker's invariant holds initially,
LEMMA WorkerInit == ASSUME TuiInit PROVE WorkerInv
<1>1. \A s \in Sessions : state[s] = "unused" /\ ~opening[s] /\ ~waiter[s] /\ report[s] = "none"
  BY DEF TuiInit, Init
<1>2. pc = "idle" /\ outcome = "idle"
  BY DEF TuiInit
<1>. QED
  BY <1>1, <1>2 DEF WorkerInv, WorkerPoints, WorkerOutside, NoCalls, WorkerNoneLive, IdleMeansDone,
                    Live, LIVE_STATES, Owned

\* and every step keeps it, given what is proved of the manager.
LEMMA WorkerStep == ASSUME IInv, WorkerInv, [TuiNext]_tuiAllVars PROVE WorkerInv'
<1>. USE DEF WorkerInv, WorkerPoints, WorkerOutside, WorkerNoneLive, IdleMeansDone, Goto, Worker, WorkerEnds
<1>0. TypeOK /\ Stages /\ Owned(Consumer) = Sessions /\ Consumer \in Threads
  BY DEF IInv, Safety, Owned
<1>b. Owned(Consumer)' = Owned(Consumer)
  BY DEF Owned
<1>. USE <1>0, <1>b
<1>1. ASSUME NEW s \in Sessions, TuiBackground(s) PROVE WorkerInv'
  BY <1>1, InnerOnlyEnds DEF TuiBackground, tuiVars, OnlyEnds
<1>2. ASSUME NEW s \in Sessions, WorkerCalls(s) PROVE WorkerInv'
  BY <1>2 DEF WorkerCalls, tuiVars
<1>3. ASSUME NEW s \in Sessions, KillSession(s) PROVE WorkerInv'
  BY <1>3, KillOnlyMarks DEF KillSession, tuiVars, KillReasons, Live, NoCalls
<1>4. CASE SubmitMessage
  BY <1>4 DEF SubmitMessage, TakeHeld, vars, procVars, inboxVars, killVars, NoCalls
<1>5. CASE StartTurn
  BY <1>5 DEF StartTurn
<1>6. CASE CannotStart
  BY <1>6 DEF CannotStart, NoteUserInput, vars, procVars, inboxVars, killVars, NoCalls
<1>7. CASE WorkerTakes
  BY <1>7 DEF WorkerTakes, TakeBatch, CountWake, procVars, killVars, NoCalls
<1>8. CASE WorkerSuspends
  BY <1>8 DEF WorkerSuspends, Suspend, TypeOK, procVars, killVars, NoCalls
<1>9. CASE WorkerTurnEnds \/ WorkerWakeEnds
  BY <1>9 DEF WorkerTurnEnds, WorkerWakeEnds, CallsDone, vars, procVars, inboxVars, killVars, NoCalls
<1>10. CASE WorkerFails
  BY <1>10 DEF WorkerFails, CallsDone, vars, procVars, inboxVars, killVars, NoCalls
<1>11. CASE WorkerChecksLive
  BY <1>11 DEF WorkerChecksLive, LiveOwned, vars, procVars, inboxVars, killVars, NoCalls, Live
<1>12. CASE WorkerChecksPending
  BY <1>12 DEF WorkerChecksPending, vars, procVars, inboxVars, killVars, NoCalls
<1>13. CASE WorkerSeesNothingLeft
  <2>1. SuspendedQueuesNothing /\ suspended[Consumer] \in BOOLEAN
    BY DEF IInv, Safety, TypeOK
  <2>2. \A s \in Sessions : report[s] # "events"
    BY <1>13, <2>1 DEF WorkerSeesNothingLeft, Pending, HasEvents, SuspendedQueuesNothing
  <2>3. UNCHANGED vars /\ pc = "recheck" /\ pc' = "idle" /\ outcome' = "idle"
    BY <1>13 DEF WorkerSeesNothingLeft
  <2>. QED
    BY <2>2, <2>3 DEF vars, inboxVars, procVars, killVars, NoCalls, Live
<1>14. CASE QuitEnds \/ CancelEnds
  BY <1>14 DEF QuitEnds, CancelEnds, vars, procVars, inboxVars, killVars, NoCalls
<1>15. CASE GuardsPass \/ WorkerWakes
  BY <1>15 DEF GuardsPass, WorkerWakes, vars, procVars, inboxVars, killVars, NoCalls
<1>16. CASE WorkerGetsNone
  BY <1>16 DEF WorkerGetsNone, vars, procVars, inboxVars, killVars, NoCalls
<1>17. CASE CancelTurn \/ Quit
  BY <1>17 DEF CancelTurn, Quit, vars, procVars, inboxVars, killVars, NoCalls, Live
<1>18. CASE AppReturns \/ Closing
  BY <1>18 DEF AppReturns, Closing, tuiVars
<1>19. CASE TuiOver \/ UNCHANGED tuiAllVars
  BY <1>19 DEF TuiOver, tuiAllVars, tuiVars, vars, procVars, inboxVars, killVars, NoCalls, Live
<1>. QED
  BY <1>1, <1>2, <1>3, <1>4, <1>5, <1>6, <1>7, <1>8, <1>9, <1>10, <1>11, <1>12, <1>13,
     <1>14, <1>15, <1>16, <1>17, <1>18, <1>19 DEF TuiNext, WorkerLoop

\* A worker that ended with nothing outcome leaves no session live and no end to
\* tell, wherever the user's kills and the quit fell; one that ended suspended
\* leaves waking suspended.
THEOREM IdleIsDone == TuiSpec => []IdleMeansDone
<1>1. TuiInit => WorkerInv
  BY WorkerInit
<1>2. IInv /\ WorkerInv /\ [TuiNext]_tuiAllVars => WorkerInv'
  BY WorkerStep
<1>3. WorkerInv => IdleMeansDone
  BY DEF WorkerInv
<1>. QED
  BY <1>1, <1>2, <1>3, TuiComposes, SafetyAlways, PTL DEF TuiSpec

-----------------------------------------------------------------------------
(* A spawned subagent.                                                     *)

\* The reasons of a sweep are ones the manager knows, and none waits for a report.
LEMMA SweepsOnlyMark ==
  ASSUME pc \in DOMAIN SweepReasons
  PROVE  SweepReasons[pc] \in (CallerReasons \cap KillReasons) \ {"model"}
  BY DEF SweepReasons, KillReasons

\* Every step of the spawn call, of the child's turns and of the threads behind
\* them is a step of the manager, or none of its business.
LEMMA SpawnStepComposes == ASSUME [SpawnNext]_spawnAllVars PROVE [Next]_vars
<1>. USE DEF Next, SessionStep, InboxStep
<1>1. ASSUME NEW s \in Sessions, SpawnBackground(s) PROVE [Next]_vars
  BY <1>1 DEF SpawnBackground
<1>2. ASSUME NEW s \in Sessions, ChildCalls(s) PROVE [Next]_vars
  BY <1>2 DEF ChildCalls
<1>3. ASSUME NEW s \in Sessions, KillChildSession(s) PROVE [Next]_vars
  BY <1>3 DEF KillChildSession
<1>4. ASSUME NEW s \in Sessions, SweepOne(s) PROVE [Next]_vars
  BY <1>4, SweepsOnlyMark DEF SweepOne
<1>5. CASE SleepTakes \/ SleepSuspends \/ LastWake
  BY <1>5 DEF SleepTakes, SleepSuspends, LastWake
<1>6. CASE RunEnds \/ LastWakeEnds \/ ChildRaises \/ SleepEnds
  BY <1>6 DEF RunEnds, LastWakeEnds, ChildRaises, SleepEnds
<1>7. CASE Raised \/ LimitSwept \/ Leaves
  BY <1>7 DEF Raised, LimitSwept, Leaves, SweepDone
<1>8. CASE SpawnOver \/ UNCHANGED spawnAllVars
  BY <1>8 DEF SpawnOver, spawnAllVars
<1>. QED
  BY <1>1, <1>2, <1>3, <1>4, <1>5, <1>6, <1>7, <1>8 DEF SpawnNext, Spawn

\* A spawn, composed with the manager, implements the manager.
THEOREM SpawnComposes == SpawnSpec => Spec
<1>1. SpawnInit => Init
  BY DEF SpawnInit
<1>. QED
  BY <1>1, SpawnStepComposes, PTL DEF SpawnSpec, Spec

----------------------------------------------------------------------------
(* The invariant of the spawn call.                                        *)

SpawnPoints == {"run", "sleep", "wake", "limit", "held", "lastwake", "leaving", "failing",
           "done", "raised"}

\* No call of a turn is left in the manager when the turn is over.
SpawnOutside == pc \in SpawnPoints \ {"run", "wake", "lastwake"} => NoCalls

\* From the wake limit on, and only a limit does it, waking is suspended.
AtLimit == pc \in {"limit", "held", "lastwake", "leaving"} => suspended[Consumer]

\* A session a sweep has not come to yet is on its list.
Sweeping == pc \in {"limit", "leaving", "failing"} =>
              \A s \in Sessions : Live(s) => s \in unswept \/ reason[s] # "none"

\* Before the limit what may wake the child is not held back from it.
NothingHeld == ~suspended[Consumer] =>
                 \A s \in Sessions : Kind[s] \in BLOCKING_KINDS =>
                   report[s] \notin {"held", "delivered"}

SpawnInv == /\ pc \in SpawnPoints /\ SpawnOutside /\ AtLimit /\ Sweeping /\ NothingHeld
            /\ LeavesNothingRunning /\ AnswersToldOfAll

LEMMA SpawnStart == ASSUME SpawnInit PROVE SpawnInv
  BY DEF SpawnInit, Init, SpawnInv, SpawnPoints, SpawnOutside, AtLimit, Sweeping, NothingHeld,
         LeavesNothingRunning, AnswersToldOfAll, Owned

\* Every step keeps it, given what is proved of the manager.
LEMMA SpawnStep ==
  ASSUME OfSubagent, IInv, SpawnInv, [SpawnNext]_spawnAllVars PROVE SpawnInv'
<1>. USE DEF SpawnInv, SpawnPoints, SpawnOutside, AtLimit, Sweeping, NothingHeld,
             LeavesNothingRunning, AnswersToldOfAll, Goto, SweepDone, Sweep, LiveOwned
<1>0. TypeOK /\ Stages /\ Owned(Consumer) = Sessions /\ Consumer \in Threads
  BY DEF IInv, Safety, Owned
<1>a. suspended[Consumer] \in BOOLEAN /\ suspended \in [Threads -> BOOLEAN]
  BY <1>0 DEF TypeOK
<1>1. ASSUME NEW s \in Sessions, SpawnBackground(s) PROVE SpawnInv'
  <2>1. OnlyEnds /\ pc' = pc /\ unswept' = unswept /\ pc \notin {"done", "raised"}
    BY <1>0, <1>1, InnerOnlyEnds DEF SpawnBackground, spawnVars, Returned
  <2>2. \A q \in Sessions : Kind[q] \in BLOCKING_KINDS /\ Holds(q) => suspended[Consumer]
    BY <1>0 DEF Holds, BLOCKING_KINDS, OfSubagent
  <2>. QED
    BY <2>1, <2>2 DEF OnlyEnds
<1>2. ASSUME NEW s \in Sessions, ChildCalls(s) PROVE SpawnInv'
  <2>1. suspended' = suspended /\ report' = report
    BY <1>0, <1>2, KillOnlyMarks DEF ChildCalls, Start, inboxVars, KillReasons
  <2>. QED
    BY <1>2, <2>1 DEF ChildCalls, ChildInTurn, spawnVars
<1>3. ASSUME NEW s \in Sessions, NEW r \in KillReasons \ {"model"}, Kill(s, r),
             UNCHANGED pc, unswept' \in {unswept, unswept \ {s}}, pc \notin {"done", "raised"}
      PROVE  SpawnInv'
  BY <1>0, <1>3, KillOnlyMarks DEF NoCalls, Live
<1>4. ASSUME NEW s \in Sessions, KillChildSession(s) PROVE SpawnInv'
  BY <1>3, <1>4 DEF KillChildSession, spawnVars, Returned, KillReasons
<1>5. ASSUME NEW s \in Sessions, SweepOne(s) PROVE SpawnInv'
  <2>0. pc \notin {"done", "raised"} /\ pc' = pc /\ unswept' = unswept \ {s}
    BY <1>5 DEF SweepOne, SweepReasons
  <2>1. CASE Live(s)
    BY <1>3, <1>5, <2>0, <2>1, SweepsOnlyMark DEF SweepOne
  <2>2. CASE ~Live(s)
    BY <1>5, <2>0, <2>2 DEF SweepOne, vars, procVars, inboxVars, killVars, NoCalls, Live
  <2>. QED
    BY <2>1, <2>2
<1>6. CASE SleepTakes
  BY <1>0, <1>6 DEF SleepTakes, TakeBatch, procVars, killVars, NoCalls
<1>7. CASE SleepSuspends
  BY <1>0, <1>a, <1>7 DEF SleepSuspends, Suspend, procVars, killVars, NoCalls, Live
<1>8. CASE LastWake
  BY <1>0, <1>8 DEF LastWake, TakeHeld
<1>9. CASE RunEnds
  BY <1>9 DEF RunEnds, CallsDone, vars, procVars, inboxVars, killVars, NoCalls
<1>10. CASE LastWakeEnds \/ ChildRaises
  BY <1>0, <1>10 DEF LastWakeEnds, ChildRaises, CallsDone, vars, procVars, inboxVars, killVars,
     NoCalls, Live
<1>11. CASE SleepEnds
  <2>1. pc = "sleep" /\ pc' = "done" /\ UNCHANGED vars /\ NoCalls
    BY <1>11 DEF SleepEnds
  <2>2. \A s \in Sessions : Kind[s] \in BLOCKING_KINDS => ~Live(s)
    BY <1>0, <1>11 DEF SleepEnds
  <2>3. ClaimHasOwner /\ EndedIsReported /\ report \in [Sessions -> {"none", "events", "held",
          "final", "woken", "delivered", "returned"}]
    BY DEF IInv, Safety, TypeOK
  <2>4. ASSUME ~suspended[Consumer], NEW s \in Sessions, state[s] \in ENDED_STATES,
               Kind[s] \in BLOCKING_KINDS
        PROVE  report[s] \in {"woken", "returned"}
    <3>1. report[s] # "events"
      BY <1>0, <1>11, <2>4 DEF SleepEnds, Pending, HasEvents
    <3>2. report[s] # "final" /\ report[s] # "none"
      BY <2>1, <2>3, <2>4 DEF ClaimHasOwner, EndedIsReported, NoCalls
    <3>. QED
      BY <2>3, <2>4, <3>1, <3>2
  <2>5. UNCHANGED <<state, report, suspended, opening, waiter, reason>>
    BY <2>1 DEF vars, inboxVars, procVars, killVars
  <2>. QED
    BY <1>0, <2>1, <2>2, <2>4, <2>5 DEF NoCalls, Live
<1>12. CASE Raised \/ LimitSwept \/ Leaves
  <2>1. UNCHANGED <<state, report, suspended, opening, waiter, reason>> /\ unswept = {}
    BY <1>12 DEF Raised, LimitSwept, Leaves, vars, inboxVars, procVars, killVars
  <2>. QED
    BY <1>0, <1>12, <2>1 DEF Raised, LimitSwept, Leaves, NoCalls, Live
<1>13. CASE SpawnOver \/ UNCHANGED spawnAllVars
  BY <1>13 DEF SpawnOver, spawnAllVars, spawnVars, vars, procVars, inboxVars, killVars, NoCalls, Live, Owned
<1>. QED
  BY <1>1, <1>2, <1>4, <1>5, <1>6, <1>7, <1>8, <1>9, <1>10, <1>11, <1>12, <1>13
     DEF SpawnNext, Spawn

LEMMA SpawnBoth == ASSUME OfSubagent PROVE SpawnSpec => [](IInv /\ SpawnInv)
<1>1. SpawnInit => SpawnInv
  BY SpawnStart
<1>2. IInv /\ SpawnInv /\ [SpawnNext]_spawnAllVars => SpawnInv'
  BY SpawnStep
<1>. QED
  BY <1>1, <1>2, SpawnComposes, SafetyAlways, PTL DEF SpawnSpec

\* A spawn that is over leaves no session of a blocking kind running that nobody
\* stopped, and one that answered before the wake limit was told of every end of
\* such a session.  Interactive sessions are not waited for.
THEOREM NothingIsLeft == ASSUME OfSubagent PROVE SpawnSpec => []LeavesNothing
<1>1. SpawnInv => LeavesNothing
  BY DEF SpawnInv, LeavesNothing
<1>. QED
  BY <1>1, SpawnBoth, PTL
=============================================================================
