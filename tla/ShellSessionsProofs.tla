------------------------ MODULE ShellSessionsProofs ------------------------
(***************************************************************************)
(* Proofs about ShellSessions, for every set of sessions and threads and   *)
(* every bound.                                                            *)
(***************************************************************************)
EXTENDS ShellSessions, TLAPS

USE OwnerAssumption, KindAssumption, BoundsAssumption

\* The manager starts with no session: every variable has its type.
LEMMA TypeInit == Init => TypeOK
  BY DEF Init, TypeOK, Tallies, LIVE_STATES, ENDED_STATES

\* One more matched line.
LEMMA Match ==
  ASSUME NEW m \in Tallies
  PROVE  /\ MatchEvent(m) \in Tallies /\ Total(MatchEvent(m)) = Total(m) + 1
         /\ MatchHeld(m) \in Tallies /\ Total(MatchHeld(m)) = Total(m) + 1
  BY DEF Tallies, Total, MatchEvent, MatchHeld

\* What moving matched lines does to where they are: nothing is lost.
LEMMA Moves ==
  ASSUME NEW m \in Tallies
  PROVE  \A n \in {FoldIntoEnd(m), HoldEvents(m), TellEvents(m), TellHeld(m), TellEnd(m)} :
           n \in Tallies /\ Total(n) = Total(m)
  BY DEF Tallies, FoldIntoEnd, HoldEvents, TellEvents, TellHeld, TellEnd, Total

\* No step of a session, an inbox or the close leaves the types.
LEMMA TypeNext == TypeOK /\ [Next]_vars => TypeOK'
<1>. SUFFICES ASSUME TypeOK, [Next]_vars PROVE TypeOK'
  OBVIOUS
<1>. USE DEF LIVE_STATES, ENDED_STATES, KillReasons
<1>1. ASSUME NEW s \in Sessions, Start(s) PROVE TypeOK'
  BY <1>1 DEF TypeOK, Start, procVars, inboxVars, killVars, closeVars
<1>2. ASSUME NEW s \in Sessions, SpawnFails(s) PROVE TypeOK'
  BY <1>2 DEF TypeOK, SpawnFails, procVars, inboxVars, killVars, closeVars
<1>3. ASSUME NEW s \in Sessions, Spawned(s) PROVE TypeOK'
  BY <1>3 DEF TypeOK, Spawned, KilledEarly, procVars, inboxVars, killVars, closeVars
<1>4. ASSUME NEW s \in Sessions, NEW r \in CallerReasons, Kill(s, r) PROVE TypeOK'
  BY <1>4 DEF TypeOK, Kill, MarkKilled, inboxVars, closeVars
<1>5. ASSUME NEW s \in Sessions, Opened(s) PROVE TypeOK'
  BY <1>5 DEF TypeOK, Opened, inboxVars, killVars, closeVars
<1>6. ASSUME NEW s \in Sessions, OpenFails(s) PROVE TypeOK'
  <2>1. /\ reason' \in [Sessions -> {"none"} \cup KillReasons]
        /\ stop' \in [Sessions -> {"no", "owed", "sent"}]
    BY <1>6 DEF TypeOK, OpenFails, MarkKilled
  <2>2. waiter' \in [Sessions -> BOOLEAN]
    BY <1>6 DEF TypeOK, OpenFails, MarkKilled
  <2>3. claim' \in [Sessions -> BOOLEAN]
    <3>1. claim \in [Sessions -> BOOLEAN]
      BY DEF TypeOK
    <3>2. CASE Live(s)
      BY <1>6, <3>1, <3>2 DEF OpenFails, MarkKilled
    <3>3. CASE ~Live(s)
      BY <1>6, <3>1, <3>3 DEF OpenFails
    <3>. QED
      BY <3>2, <3>3
  <2>. QED
    BY <1>6, <2>1, <2>2, <2>3 DEF TypeOK, OpenFails, inboxVars, closeVars
<1>7. ASSUME NEW s \in Sessions, StopSent(s) PROVE TypeOK'
  BY <1>7 DEF TypeOK, StopSent, inboxVars, killVars, closeVars
<1>8. ASSUME NEW s \in Sessions, KillReport(s) PROVE TypeOK'
  <2>1. TellEnd(matches[s]) \in Tallies
    BY Moves DEF TypeOK
  <2>. QED
    BY <1>8, <2>1 DEF TypeOK, KillReport, procVars, closeVars
<1>9. ASSUME NEW s \in Sessions, KillGivesUp(s) PROVE TypeOK'
  BY <1>9 DEF TypeOK, KillGivesUp, procVars, inboxVars, closeVars
<1>10. ASSUME NEW s \in Sessions, KillFindsFailed(s) PROVE TypeOK'
  BY <1>10 DEF TypeOK, KillFindsFailed, procVars, inboxVars, closeVars
<1>11. ASSUME NEW s \in Sessions, ProcessEnds(s) PROVE TypeOK'
  BY <1>11 DEF TypeOK, ProcessEnds, inboxVars, killVars, closeVars
<1>12. ASSUME NEW s \in Sessions, IdleExpires(s) PROVE TypeOK'
  BY <1>12 DEF TypeOK, IdleExpires, Owe, inboxVars, closeVars
<1>13. ASSUME NEW s \in Sessions, DeadlinePasses(s) PROVE TypeOK'
  BY <1>13 DEF TypeOK, DeadlinePasses, Due, Owe, inboxVars, closeVars
<1>14. ASSUME NEW s \in Sessions, WaitEnds(s) PROVE TypeOK'
  BY <1>14 DEF TypeOK, WaitEnds, inboxVars, killVars, closeVars
<1>15. ASSUME NEW s \in Sessions, MatchLine(s) PROVE TypeOK'
  <2>1. matches' \in [Sessions -> Tallies]
    BY <1>15, Match DEF TypeOK, MatchLine
  <2>. QED
    BY <1>15, <2>1 DEF TypeOK, MatchLine, procVars, killVars, closeVars
<1>16. ASSUME NEW s \in Sessions, StreamEnds(s) PROVE TypeOK'
  BY <1>16 DEF TypeOK, StreamEnds, inboxVars, killVars, closeVars
<1>17. ASSUME NEW s \in Sessions, Finish(s) PROVE TypeOK'
  <2>1. FoldIntoEnd(matches[s]) \in Tallies
    BY Moves DEF TypeOK
  <2>. QED
    BY <1>17, <2>1 DEF TypeOK, Finish, Destination, Fate, killVars, closeVars
<1>18. ASSUME NEW t \in Threads, TakeBatch(t) PROVE TypeOK'
  <2>1. matches' \in [Sessions -> Tallies]
    BY <1>18, Moves DEF TypeOK, TakeBatch, WithinLimit, CountWake
  <2>. QED
    BY <1>18, <2>1 DEF TypeOK, TakeBatch, WithinLimit, CountWake, procVars, killVars, closeVars
<1>19. ASSUME NEW t \in Threads, Suspend(t) PROVE TypeOK'
  <2>1. matches' \in [Sessions -> Tallies]
    BY <1>19, Moves DEF TypeOK, Suspend, WithinLimit
  <2>. QED
    BY <1>19, <2>1 DEF TypeOK, Suspend, WithinLimit, procVars, killVars, closeVars
<1>20. ASSUME NEW t \in Threads, TakeHeld(t) PROVE TypeOK'
  <2>1. matches' \in [Sessions -> Tallies]
    BY <1>20, Moves DEF TypeOK, TakeHeld
  <2>. QED
    BY <1>20, <2>1 DEF TypeOK, TakeHeld, procVars, killVars, closeVars
<1>21. ASSUME NEW t \in Threads, NoteUserInput(t) PROVE TypeOK'
  BY <1>21 DEF TypeOK, NoteUserInput, procVars, killVars, closeVars
<1>22. ASSUME CloseStep PROVE TypeOK'
  BY <1>22 DEF TypeOK, CloseStep, CloseMarks, CloseKills, CloseReturns,
               procVars, inboxVars, killVars
<1>23. CASE UNCHANGED vars
  BY <1>23 DEF TypeOK, vars, procVars, inboxVars, killVars, closeVars
<1>. QED
  BY <1>1, <1>2, <1>3, <1>4, <1>5, <1>6, <1>7, <1>8, <1>9, <1>10, <1>11, <1>12,
     <1>13, <1>14, <1>15, <1>16, <1>17, <1>18, <1>19, <1>20, <1>21, <1>22, <1>23
     DEF Next, SessionStep, Inner, Supervise, InboxStep

\* Every variable of the manager keeps its type, wakes its bound among them:
\* no conversation is woken more often in a row than the limit.
THEOREM Typing == Spec => []TypeOK
  BY TypeInit, TypeNext, PTL DEF Spec
-----------------------------------------------------------------------------
\* How far a session's threads are in each of its states: what the other
\* invariants need in order to be inductive.
Stages ==
  \A s \in Sessions :
    /\ state[s] = "unused" => ~claim[s]
    /\ state[s] \in {"unused", "starting", "failed"} =>
         proc[s] = "none" /\ sup[s] = "none" /\ report[s] = "none"
    /\ state[s] = "running" =>
         proc[s] # "none" /\ sup[s] \in {"polling", "settling", "draining"}
    /\ state[s] \in ENDED_STATES => sup[s] = "done"

\* A session's threads keep in step with its state.
LEMMA StagesNext ==
  ASSUME TypeOK, Stages, [Next]_vars
  PROVE  Stages'
<1>. USE DEF LIVE_STATES, ENDED_STATES, Live, closing
<1>1. ASSUME NEW s \in Sessions, Start(s) PROVE Stages'
  BY <1>1 DEF TypeOK, Stages, Start, procVars, inboxVars, killVars, closeVars
<1>2. ASSUME NEW s \in Sessions, SpawnFails(s) PROVE Stages'
  BY <1>2 DEF TypeOK, Stages, SpawnFails, procVars, inboxVars, killVars,
       closeVars
<1>3. ASSUME NEW s \in Sessions, Spawned(s) PROVE Stages'
  BY <1>3 DEF TypeOK, Stages, Spawned, KilledEarly, inboxVars, killVars, closeVars
<1>4. ASSUME NEW s \in Sessions, NEW r \in CallerReasons, Kill(s, r) PROVE Stages'
  BY <1>4 DEF TypeOK, Stages, Kill, MarkKilled, inboxVars, closeVars
<1>5. ASSUME NEW s \in Sessions, Opened(s) PROVE Stages'
  BY <1>5 DEF TypeOK, Stages, Opened, inboxVars, killVars, closeVars
<1>6. ASSUME NEW s \in Sessions, OpenFails(s) PROVE Stages'
  BY <1>6 DEF TypeOK, Stages, OpenFails, MarkKilled, inboxVars, closeVars
<1>7. ASSUME NEW s \in Sessions, StopSent(s) PROVE Stages'
  BY <1>7 DEF TypeOK, Stages, StopSent, inboxVars, killVars, closeVars
<1>8. ASSUME NEW s \in Sessions, KillReport(s) PROVE Stages'
  BY <1>8 DEF TypeOK, Stages, KillReport, procVars, closeVars
<1>9. ASSUME NEW s \in Sessions, KillGivesUp(s) PROVE Stages'
  BY <1>9 DEF TypeOK, Stages, KillGivesUp, procVars, inboxVars, closeVars
<1>10. ASSUME NEW s \in Sessions, KillFindsFailed(s) PROVE Stages'
  BY <1>10 DEF TypeOK, Stages, KillFindsFailed, procVars, inboxVars, closeVars
<1>11. ASSUME NEW s \in Sessions, ProcessEnds(s) PROVE Stages'
  BY <1>11 DEF TypeOK, Stages, ProcessEnds, inboxVars, killVars, closeVars
<1>12. ASSUME NEW s \in Sessions, IdleExpires(s) PROVE Stages'
  BY <1>12 DEF TypeOK, Stages, IdleExpires, Owe, inboxVars, closeVars
<1>13. ASSUME NEW s \in Sessions, DeadlinePasses(s) PROVE Stages'
  BY <1>13 DEF TypeOK, Stages, DeadlinePasses, Due, Owe, inboxVars, closeVars
<1>14. ASSUME NEW s \in Sessions, WaitEnds(s) PROVE Stages'
  BY <1>14 DEF TypeOK, Stages, WaitEnds, inboxVars, killVars, closeVars
<1>15. ASSUME NEW s \in Sessions, MatchLine(s) PROVE Stages'
  BY <1>15 DEF TypeOK, Stages, MatchLine, procVars, killVars, closeVars
<1>16. ASSUME NEW s \in Sessions, StreamEnds(s) PROVE Stages'
  BY <1>16 DEF TypeOK, Stages, StreamEnds, inboxVars, killVars, closeVars
<1>17. ASSUME NEW s \in Sessions, Finish(s) PROVE Stages'
  BY <1>17 DEF TypeOK, Stages, Finish, Destination, Fate, killVars, closeVars
<1>18. ASSUME NEW t \in Threads, TakeBatch(t) PROVE Stages'
  BY <1>18 DEF TypeOK, Stages, TakeBatch, WithinLimit, CountWake, procVars, killVars, closeVars
<1>19. ASSUME NEW t \in Threads, Suspend(t) PROVE Stages'
  BY <1>19 DEF TypeOK, Stages, Suspend, WithinLimit, procVars, killVars, closeVars
<1>20. ASSUME NEW t \in Threads, TakeHeld(t) PROVE Stages'
  BY <1>20 DEF TypeOK, Stages, TakeHeld, procVars, killVars, closeVars
<1>21. ASSUME NEW t \in Threads, NoteUserInput(t) PROVE Stages'
  BY <1>21 DEF TypeOK, Stages, NoteUserInput, procVars, killVars, closeVars
<1>22. ASSUME CloseMarks PROVE Stages'
  BY <1>22 DEF TypeOK, Stages, CloseMarks, procVars, inboxVars
<1>23. ASSUME CloseKills PROVE Stages'
  BY <1>23 DEF TypeOK, Stages, CloseKills, inboxVars, killVars
<1>24. ASSUME CloseReturns PROVE Stages'
  BY <1>24 DEF TypeOK, Stages, CloseReturns, procVars, inboxVars, killVars
<1>25. CASE UNCHANGED vars
  BY <1>25 DEF Stages, vars, procVars, inboxVars,
       killVars, closeVars
<1>. QED
  BY <1>1, <1>2, <1>3, <1>4, <1>5, <1>6, <1>7, <1>8, <1>9, <1>10, <1>11, <1>12, <1>13,
     <1>14, <1>15, <1>16, <1>17, <1>18, <1>19, <1>20, <1>21, <1>22, <1>23, <1>24, <1>25
     DEF Next, SessionStep, Inner, Supervise, InboxStep, CloseStep

\* A kill keeps reaching its process: needs that a running session has one.
LEMMA KillsNext ==
  ASSUME TypeOK, Stages, KillReachesProcess, [Next]_vars
  PROVE  KillReachesProcess'
<1>. USE DEF LIVE_STATES, ENDED_STATES, Live, closing
<1>1. ASSUME NEW s \in Sessions, Start(s) PROVE KillReachesProcess'
  BY <1>1 DEF TypeOK, KillReachesProcess, Stages, Start, procVars, inboxVars,
       killVars, closeVars
<1>2. ASSUME NEW s \in Sessions, SpawnFails(s) PROVE KillReachesProcess'
  BY <1>2 DEF TypeOK, KillReachesProcess, Stages, SpawnFails, procVars,
       inboxVars, killVars, closeVars
<1>3. ASSUME NEW s \in Sessions, Spawned(s) PROVE KillReachesProcess'
  BY <1>3 DEF TypeOK, KillReachesProcess, Stages, Spawned, KilledEarly, inboxVars, killVars,
       closeVars
<1>4. ASSUME NEW s \in Sessions, NEW r \in CallerReasons, Kill(s, r) PROVE KillReachesProcess'
  BY <1>4 DEF TypeOK, KillReachesProcess, Stages, Kill, MarkKilled, inboxVars,
       closeVars
<1>5. ASSUME NEW s \in Sessions, Opened(s) PROVE KillReachesProcess'
  BY <1>5 DEF TypeOK, KillReachesProcess, Stages, Opened, inboxVars, killVars,
       closeVars
<1>6. ASSUME NEW s \in Sessions, OpenFails(s) PROVE KillReachesProcess'
  BY <1>6 DEF TypeOK, KillReachesProcess, Stages, OpenFails, MarkKilled,
       inboxVars, closeVars
<1>7. ASSUME NEW s \in Sessions, StopSent(s) PROVE KillReachesProcess'
  BY <1>7 DEF TypeOK, KillReachesProcess, Stages, StopSent, inboxVars, killVars,
       closeVars
<1>8. ASSUME NEW s \in Sessions, KillReport(s) PROVE KillReachesProcess'
  BY <1>8 DEF TypeOK, KillReachesProcess, Stages, KillReport, procVars, closeVars
<1>9. ASSUME NEW s \in Sessions, KillGivesUp(s) PROVE KillReachesProcess'
  BY <1>9 DEF TypeOK, KillReachesProcess, Stages, KillGivesUp, procVars,
       inboxVars, closeVars
<1>10. ASSUME NEW s \in Sessions, KillFindsFailed(s) PROVE KillReachesProcess'
  BY <1>10 DEF TypeOK, KillReachesProcess, Stages, KillFindsFailed, procVars,
       inboxVars, closeVars
<1>11. ASSUME NEW s \in Sessions, ProcessEnds(s) PROVE KillReachesProcess'
  BY <1>11 DEF TypeOK, KillReachesProcess, Stages, ProcessEnds, inboxVars,
       killVars, closeVars
<1>12. ASSUME NEW s \in Sessions, IdleExpires(s) PROVE KillReachesProcess'
  BY <1>12 DEF TypeOK, KillReachesProcess, Stages, IdleExpires, Owe, inboxVars,
       closeVars
<1>13. ASSUME NEW s \in Sessions, DeadlinePasses(s) PROVE KillReachesProcess'
  BY <1>13 DEF TypeOK, KillReachesProcess, Stages, DeadlinePasses, Due, Owe,
       inboxVars, closeVars
<1>14. ASSUME NEW s \in Sessions, WaitEnds(s) PROVE KillReachesProcess'
  BY <1>14 DEF TypeOK, KillReachesProcess, Stages, WaitEnds, inboxVars, killVars,
       closeVars
<1>15. ASSUME NEW s \in Sessions, MatchLine(s) PROVE KillReachesProcess'
  BY <1>15 DEF TypeOK, KillReachesProcess, Stages, MatchLine, procVars, killVars,
       closeVars
<1>16. ASSUME NEW s \in Sessions, StreamEnds(s) PROVE KillReachesProcess'
  BY <1>16 DEF TypeOK, KillReachesProcess, Stages, StreamEnds, inboxVars,
       killVars, closeVars
<1>17. ASSUME NEW s \in Sessions, Finish(s) PROVE KillReachesProcess'
  BY <1>17 DEF TypeOK, KillReachesProcess, Stages, Finish, Destination, Fate, killVars,
       closeVars
<1>18. ASSUME NEW t \in Threads, TakeBatch(t) PROVE KillReachesProcess'
  BY <1>18 DEF TypeOK, KillReachesProcess, Stages, TakeBatch, WithinLimit, CountWake, procVars, killVars,
       closeVars
<1>19. ASSUME NEW t \in Threads, Suspend(t) PROVE KillReachesProcess'
  BY <1>19 DEF TypeOK, KillReachesProcess, Stages, Suspend, WithinLimit, procVars, killVars,
       closeVars
<1>20. ASSUME NEW t \in Threads, TakeHeld(t) PROVE KillReachesProcess'
  BY <1>20 DEF TypeOK, KillReachesProcess, Stages, TakeHeld, procVars, killVars,
       closeVars
<1>21. ASSUME NEW t \in Threads, NoteUserInput(t) PROVE KillReachesProcess'
  BY <1>21 DEF TypeOK, KillReachesProcess, Stages, NoteUserInput, procVars,
       killVars, closeVars
<1>22. ASSUME CloseMarks PROVE KillReachesProcess'
  BY <1>22 DEF TypeOK, KillReachesProcess, Stages, CloseMarks, procVars,
       inboxVars
<1>23. ASSUME CloseKills PROVE KillReachesProcess'
  BY <1>23 DEF TypeOK, KillReachesProcess, Stages, CloseKills, inboxVars,
       killVars
<1>24. ASSUME CloseReturns PROVE KillReachesProcess'
  BY <1>24 DEF TypeOK, KillReachesProcess, Stages, CloseReturns, procVars,
       inboxVars, killVars
<1>25. CASE UNCHANGED vars
  BY <1>25 DEF KillReachesProcess, Stages, vars, procVars, inboxVars,
       killVars, closeVars
<1>. QED
  BY <1>1, <1>2, <1>3, <1>4, <1>5, <1>6, <1>7, <1>8, <1>9, <1>10, <1>11, <1>12, <1>13,
     <1>14, <1>15, <1>16, <1>17, <1>18, <1>19, <1>20, <1>21, <1>22, <1>23, <1>24, <1>25
     DEF Next, SessionStep, Inner, Supervise, InboxStep, CloseStep

\* Nothing live escapes a close that has begun.
LEMMA CloseNext ==
  ASSUME TypeOK, Stages, NothingOutlivesClose, [Next]_vars
  PROVE  NothingOutlivesClose'
<1>. USE DEF LIVE_STATES, ENDED_STATES, Live, closing
<1>1. ASSUME NEW s \in Sessions, Start(s) PROVE NothingOutlivesClose'
  BY <1>1 DEF TypeOK, NothingOutlivesClose, Admits, Start, procVars, inboxVars,
       killVars, closeVars
<1>2. ASSUME NEW s \in Sessions, SpawnFails(s) PROVE NothingOutlivesClose'
  BY <1>2 DEF TypeOK, NothingOutlivesClose, Admits, SpawnFails, procVars,
       inboxVars, killVars, closeVars
<1>3. ASSUME NEW s \in Sessions, Spawned(s) PROVE NothingOutlivesClose'
  BY <1>3 DEF TypeOK, NothingOutlivesClose, Admits, Spawned, KilledEarly, inboxVars, killVars,
       closeVars
<1>4. ASSUME NEW s \in Sessions, NEW r \in CallerReasons, Kill(s, r) PROVE NothingOutlivesClose'
  BY <1>4 DEF TypeOK, NothingOutlivesClose, Admits, Kill, MarkKilled, inboxVars,
       closeVars
<1>5. ASSUME NEW s \in Sessions, Opened(s) PROVE NothingOutlivesClose'
  BY <1>5 DEF TypeOK, NothingOutlivesClose, Admits, Opened, inboxVars, killVars,
       closeVars
<1>6. ASSUME NEW s \in Sessions, OpenFails(s) PROVE NothingOutlivesClose'
  BY <1>6 DEF TypeOK, NothingOutlivesClose, Admits, OpenFails, MarkKilled,
       inboxVars, closeVars
<1>7. ASSUME NEW s \in Sessions, StopSent(s) PROVE NothingOutlivesClose'
  BY <1>7 DEF TypeOK, NothingOutlivesClose, Admits, StopSent, inboxVars,
       killVars, closeVars
<1>8. ASSUME NEW s \in Sessions, KillReport(s) PROVE NothingOutlivesClose'
  BY <1>8 DEF TypeOK, NothingOutlivesClose, Admits, KillReport, procVars,
       closeVars
<1>9. ASSUME NEW s \in Sessions, KillGivesUp(s) PROVE NothingOutlivesClose'
  BY <1>9 DEF TypeOK, NothingOutlivesClose, Admits, KillGivesUp, procVars,
       inboxVars, closeVars
<1>10. ASSUME NEW s \in Sessions, KillFindsFailed(s) PROVE NothingOutlivesClose'
  BY <1>10 DEF TypeOK, NothingOutlivesClose, Admits, KillFindsFailed, procVars,
       inboxVars, closeVars
<1>11. ASSUME NEW s \in Sessions, ProcessEnds(s) PROVE NothingOutlivesClose'
  BY <1>11 DEF TypeOK, NothingOutlivesClose, Admits, ProcessEnds, inboxVars,
       killVars, closeVars
<1>12. ASSUME NEW s \in Sessions, IdleExpires(s) PROVE NothingOutlivesClose'
  BY <1>12 DEF TypeOK, NothingOutlivesClose, Admits, IdleExpires, Owe, inboxVars,
       closeVars
<1>13. ASSUME NEW s \in Sessions, DeadlinePasses(s) PROVE NothingOutlivesClose'
  BY <1>13 DEF TypeOK, NothingOutlivesClose, Admits, DeadlinePasses, Due, Owe,
       inboxVars, closeVars
<1>14. ASSUME NEW s \in Sessions, WaitEnds(s) PROVE NothingOutlivesClose'
  BY <1>14 DEF TypeOK, NothingOutlivesClose, Admits, WaitEnds, inboxVars,
       killVars, closeVars
<1>15. ASSUME NEW s \in Sessions, MatchLine(s) PROVE NothingOutlivesClose'
  BY <1>15 DEF TypeOK, NothingOutlivesClose, Admits, MatchLine, procVars,
       killVars, closeVars
<1>16. ASSUME NEW s \in Sessions, StreamEnds(s) PROVE NothingOutlivesClose'
  BY <1>16 DEF TypeOK, NothingOutlivesClose, Admits, StreamEnds, inboxVars,
       killVars, closeVars
<1>17. ASSUME NEW s \in Sessions, Finish(s) PROVE NothingOutlivesClose'
  BY <1>17 DEF TypeOK, NothingOutlivesClose, Admits, Finish, Destination, Fate, killVars,
       closeVars
<1>18. ASSUME NEW t \in Threads, TakeBatch(t) PROVE NothingOutlivesClose'
  BY <1>18 DEF TypeOK, NothingOutlivesClose, Admits, TakeBatch, WithinLimit, CountWake, procVars,
       killVars, closeVars
<1>19. ASSUME NEW t \in Threads, Suspend(t) PROVE NothingOutlivesClose'
  BY <1>19 DEF TypeOK, NothingOutlivesClose, Admits, Suspend, WithinLimit, procVars, killVars,
       closeVars
<1>20. ASSUME NEW t \in Threads, TakeHeld(t) PROVE NothingOutlivesClose'
  BY <1>20 DEF TypeOK, NothingOutlivesClose, Admits, TakeHeld, procVars,
       killVars, closeVars
<1>21. ASSUME NEW t \in Threads, NoteUserInput(t) PROVE NothingOutlivesClose'
  BY <1>21 DEF TypeOK, NothingOutlivesClose, Admits, NoteUserInput, procVars,
       killVars, closeVars
<1>22. ASSUME CloseMarks PROVE NothingOutlivesClose'
  BY <1>22 DEF TypeOK, NothingOutlivesClose, Admits, CloseMarks, procVars,
       inboxVars
<1>23. ASSUME CloseKills PROVE NothingOutlivesClose'
  BY <1>23 DEF TypeOK, NothingOutlivesClose, Admits, CloseKills, inboxVars,
       killVars
<1>24. ASSUME CloseReturns PROVE NothingOutlivesClose'
  BY <1>24 DEF TypeOK, NothingOutlivesClose, Admits, CloseReturns, procVars,
       inboxVars, killVars
<1>25. CASE UNCHANGED vars
  BY <1>25 DEF NothingOutlivesClose, Admits, vars, procVars, inboxVars,
       killVars, closeVars
<1>. QED
  BY <1>1, <1>2, <1>3, <1>4, <1>5, <1>6, <1>7, <1>8, <1>9, <1>10, <1>11, <1>12, <1>13,
     <1>14, <1>15, <1>16, <1>17, <1>18, <1>19, <1>20, <1>21, <1>22, <1>23, <1>24, <1>25
     DEF Next, SessionStep, Inner, Supervise, InboxStep, CloseStep

\* Ends and reports come together: needs that only a running session finishes.
LEMMA EndedNext ==
  ASSUME TypeOK, Stages, EndedIsReported, [Next]_vars
  PROVE  EndedIsReported'
<1>. USE DEF LIVE_STATES, ENDED_STATES, Live, closing
<1>1. ASSUME NEW s \in Sessions, Start(s) PROVE EndedIsReported'
  BY <1>1 DEF TypeOK, EndedIsReported, Holds, Stages, Start, procVars, inboxVars,
       killVars, closeVars
<1>2. ASSUME NEW s \in Sessions, SpawnFails(s) PROVE EndedIsReported'
  BY <1>2 DEF TypeOK, EndedIsReported, Holds, Stages, SpawnFails, procVars,
       inboxVars, killVars, closeVars
<1>3. ASSUME NEW s \in Sessions, Spawned(s) PROVE EndedIsReported'
  BY <1>3 DEF TypeOK, EndedIsReported, Holds, Stages, Spawned, KilledEarly, inboxVars,
       killVars, closeVars
<1>4. ASSUME NEW s \in Sessions, NEW r \in CallerReasons, Kill(s, r) PROVE EndedIsReported'
  BY <1>4 DEF TypeOK, EndedIsReported, Holds, Stages, Kill, MarkKilled,
       inboxVars, closeVars
<1>5. ASSUME NEW s \in Sessions, Opened(s) PROVE EndedIsReported'
  BY <1>5 DEF TypeOK, EndedIsReported, Holds, Stages, Opened, inboxVars,
       killVars, closeVars
<1>6. ASSUME NEW s \in Sessions, OpenFails(s) PROVE EndedIsReported'
  BY <1>6 DEF TypeOK, EndedIsReported, Holds, Stages, OpenFails, MarkKilled,
       inboxVars, closeVars
<1>7. ASSUME NEW s \in Sessions, StopSent(s) PROVE EndedIsReported'
  BY <1>7 DEF TypeOK, EndedIsReported, Holds, Stages, StopSent, inboxVars,
       killVars, closeVars
<1>8. ASSUME NEW s \in Sessions, KillReport(s) PROVE EndedIsReported'
  BY <1>8 DEF TypeOK, EndedIsReported, Holds, Stages, KillReport, procVars,
       closeVars
<1>9. ASSUME NEW s \in Sessions, KillGivesUp(s) PROVE EndedIsReported'
  BY <1>9 DEF TypeOK, EndedIsReported, Holds, Stages, KillGivesUp, procVars,
       inboxVars, closeVars
<1>10. ASSUME NEW s \in Sessions, KillFindsFailed(s) PROVE EndedIsReported'
  BY <1>10 DEF TypeOK, EndedIsReported, Holds, Stages, KillFindsFailed, procVars,
       inboxVars, closeVars
<1>11. ASSUME NEW s \in Sessions, ProcessEnds(s) PROVE EndedIsReported'
  BY <1>11 DEF TypeOK, EndedIsReported, Holds, Stages, ProcessEnds, inboxVars,
       killVars, closeVars
<1>12. ASSUME NEW s \in Sessions, IdleExpires(s) PROVE EndedIsReported'
  BY <1>12 DEF TypeOK, EndedIsReported, Holds, Stages, IdleExpires, Owe,
       inboxVars, closeVars
<1>13. ASSUME NEW s \in Sessions, DeadlinePasses(s) PROVE EndedIsReported'
  BY <1>13 DEF TypeOK, EndedIsReported, Holds, Stages, DeadlinePasses, Due, Owe,
       inboxVars, closeVars
<1>14. ASSUME NEW s \in Sessions, WaitEnds(s) PROVE EndedIsReported'
  BY <1>14 DEF TypeOK, EndedIsReported, Holds, Stages, WaitEnds, inboxVars,
       killVars, closeVars
<1>15. ASSUME NEW s \in Sessions, MatchLine(s) PROVE EndedIsReported'
  BY <1>15 DEF TypeOK, EndedIsReported, Holds, Stages, MatchLine, procVars,
       killVars, closeVars
<1>16. ASSUME NEW s \in Sessions, StreamEnds(s) PROVE EndedIsReported'
  BY <1>16 DEF TypeOK, EndedIsReported, Holds, Stages, StreamEnds, inboxVars,
       killVars, closeVars
<1>17. ASSUME NEW s \in Sessions, Finish(s) PROVE EndedIsReported'
  BY <1>17 DEF TypeOK, EndedIsReported, Holds, Stages, Finish, Destination, Fate, killVars,
       closeVars
<1>18. ASSUME NEW t \in Threads, TakeBatch(t) PROVE EndedIsReported'
  BY <1>18 DEF TypeOK, EndedIsReported, Holds, Stages, TakeBatch, WithinLimit, CountWake, procVars,
       killVars, closeVars
<1>19. ASSUME NEW t \in Threads, Suspend(t) PROVE EndedIsReported'
  BY <1>19 DEF TypeOK, EndedIsReported, Holds, Stages, Suspend, WithinLimit, procVars,
       killVars, closeVars
<1>20. ASSUME NEW t \in Threads, TakeHeld(t) PROVE EndedIsReported'
  BY <1>20 DEF TypeOK, EndedIsReported, Holds, Stages, TakeHeld, procVars,
       killVars, closeVars
<1>21. ASSUME NEW t \in Threads, NoteUserInput(t) PROVE EndedIsReported'
  BY <1>21 DEF TypeOK, EndedIsReported, Holds, Stages, NoteUserInput, procVars,
       killVars, closeVars
<1>22. ASSUME CloseMarks PROVE EndedIsReported'
  BY <1>22 DEF TypeOK, EndedIsReported, Holds, Stages, CloseMarks, procVars,
       inboxVars
<1>23. ASSUME CloseKills PROVE EndedIsReported'
  BY <1>23 DEF TypeOK, EndedIsReported, Holds, Stages, CloseKills, inboxVars,
       killVars
<1>24. ASSUME CloseReturns PROVE EndedIsReported'
  BY <1>24 DEF TypeOK, EndedIsReported, Holds, Stages, CloseReturns, procVars,
       inboxVars, killVars
<1>25. CASE UNCHANGED vars
  BY <1>25 DEF EndedIsReported, Holds, Stages, vars, procVars, inboxVars,
       killVars, closeVars
<1>. QED
  BY <1>1, <1>2, <1>3, <1>4, <1>5, <1>6, <1>7, <1>8, <1>9, <1>10, <1>11, <1>12, <1>13,
     <1>14, <1>15, <1>16, <1>17, <1>18, <1>19, <1>20, <1>21, <1>22, <1>23, <1>24, <1>25
     DEF Next, SessionStep, Inner, Supervise, InboxStep, CloseStep

\* A claim keeps its kill: needs that a final report means the session ended.
LEMMA ClaimNext ==
  ASSUME TypeOK, Stages, EndedIsReported, ClaimHasOwner, [Next]_vars
  PROVE  ClaimHasOwner'
<1>. USE DEF LIVE_STATES, ENDED_STATES, Live, closing
<1>1. ASSUME NEW s \in Sessions, Start(s) PROVE ClaimHasOwner'
  BY <1>1 DEF TypeOK, ClaimHasOwner, EndedIsReported, Stages, Start, procVars,
       inboxVars, killVars, closeVars
<1>2. ASSUME NEW s \in Sessions, SpawnFails(s) PROVE ClaimHasOwner'
  BY <1>2 DEF TypeOK, ClaimHasOwner, EndedIsReported, Stages, SpawnFails,
       procVars, inboxVars, killVars, closeVars
<1>3. ASSUME NEW s \in Sessions, Spawned(s) PROVE ClaimHasOwner'
  BY <1>3 DEF TypeOK, ClaimHasOwner, EndedIsReported, Stages, Spawned, KilledEarly, inboxVars,
       killVars, closeVars
<1>4. ASSUME NEW s \in Sessions, NEW r \in CallerReasons, Kill(s, r) PROVE ClaimHasOwner'
  BY <1>4 DEF TypeOK, ClaimHasOwner, EndedIsReported, Stages, Kill, MarkKilled,
       inboxVars, closeVars
<1>5. ASSUME NEW s \in Sessions, Opened(s) PROVE ClaimHasOwner'
  BY <1>5 DEF TypeOK, ClaimHasOwner, EndedIsReported, Stages, Opened, inboxVars,
       killVars, closeVars
<1>6. ASSUME NEW s \in Sessions, OpenFails(s) PROVE ClaimHasOwner'
  BY <1>6 DEF TypeOK, ClaimHasOwner, EndedIsReported, Stages, OpenFails,
       MarkKilled, inboxVars, closeVars
<1>7. ASSUME NEW s \in Sessions, StopSent(s) PROVE ClaimHasOwner'
  BY <1>7 DEF TypeOK, ClaimHasOwner, EndedIsReported, Stages, StopSent,
       inboxVars, killVars, closeVars
<1>8. ASSUME NEW s \in Sessions, KillReport(s) PROVE ClaimHasOwner'
  BY <1>8 DEF TypeOK, ClaimHasOwner, EndedIsReported, Stages, KillReport,
       procVars, closeVars
<1>9. ASSUME NEW s \in Sessions, KillGivesUp(s) PROVE ClaimHasOwner'
  BY <1>9 DEF TypeOK, ClaimHasOwner, EndedIsReported, Stages, KillGivesUp,
       procVars, inboxVars, closeVars
<1>10. ASSUME NEW s \in Sessions, KillFindsFailed(s) PROVE ClaimHasOwner'
  BY <1>10 DEF TypeOK, ClaimHasOwner, EndedIsReported, Stages, KillFindsFailed,
       procVars, inboxVars, closeVars
<1>11. ASSUME NEW s \in Sessions, ProcessEnds(s) PROVE ClaimHasOwner'
  BY <1>11 DEF TypeOK, ClaimHasOwner, EndedIsReported, Stages, ProcessEnds,
       inboxVars, killVars, closeVars
<1>12. ASSUME NEW s \in Sessions, IdleExpires(s) PROVE ClaimHasOwner'
  BY <1>12 DEF TypeOK, ClaimHasOwner, EndedIsReported, Stages, IdleExpires, Owe,
       inboxVars, closeVars
<1>13. ASSUME NEW s \in Sessions, DeadlinePasses(s) PROVE ClaimHasOwner'
  BY <1>13 DEF TypeOK, ClaimHasOwner, EndedIsReported, Stages, DeadlinePasses, Due,
       Owe, inboxVars, closeVars
<1>14. ASSUME NEW s \in Sessions, WaitEnds(s) PROVE ClaimHasOwner'
  BY <1>14 DEF TypeOK, ClaimHasOwner, EndedIsReported, Stages, WaitEnds,
       inboxVars, killVars, closeVars
<1>15. ASSUME NEW s \in Sessions, MatchLine(s) PROVE ClaimHasOwner'
  BY <1>15 DEF TypeOK, ClaimHasOwner, EndedIsReported, Stages, MatchLine,
       procVars, killVars, closeVars
<1>16. ASSUME NEW s \in Sessions, StreamEnds(s) PROVE ClaimHasOwner'
  BY <1>16 DEF TypeOK, ClaimHasOwner, EndedIsReported, Stages, StreamEnds,
       inboxVars, killVars, closeVars
<1>17. ASSUME NEW s \in Sessions, Finish(s) PROVE ClaimHasOwner'
  BY <1>17 DEF TypeOK, ClaimHasOwner, EndedIsReported, Stages, Finish, Destination, Fate,
       killVars, closeVars
<1>18. ASSUME NEW t \in Threads, TakeBatch(t) PROVE ClaimHasOwner'
  BY <1>18 DEF TypeOK, ClaimHasOwner, EndedIsReported, Stages, TakeBatch, WithinLimit, CountWake,
       procVars, killVars, closeVars
<1>19. ASSUME NEW t \in Threads, Suspend(t) PROVE ClaimHasOwner'
  BY <1>19 DEF TypeOK, ClaimHasOwner, EndedIsReported, Stages, Suspend, WithinLimit, procVars,
       killVars, closeVars
<1>20. ASSUME NEW t \in Threads, TakeHeld(t) PROVE ClaimHasOwner'
  BY <1>20 DEF TypeOK, ClaimHasOwner, EndedIsReported, Stages, TakeHeld,
       procVars, killVars, closeVars
<1>21. ASSUME NEW t \in Threads, NoteUserInput(t) PROVE ClaimHasOwner'
  BY <1>21 DEF TypeOK, ClaimHasOwner, EndedIsReported, Stages, NoteUserInput,
       procVars, killVars, closeVars
<1>22. ASSUME CloseMarks PROVE ClaimHasOwner'
  BY <1>22 DEF TypeOK, ClaimHasOwner, EndedIsReported, Stages, CloseMarks,
       procVars, inboxVars
<1>23. ASSUME CloseKills PROVE ClaimHasOwner'
  BY <1>23 DEF TypeOK, ClaimHasOwner, EndedIsReported, Stages, CloseKills,
       inboxVars, killVars
<1>24. ASSUME CloseReturns PROVE ClaimHasOwner'
  BY <1>24 DEF TypeOK, ClaimHasOwner, EndedIsReported, Stages, CloseReturns,
       procVars, inboxVars, killVars
<1>25. CASE UNCHANGED vars
  BY <1>25 DEF ClaimHasOwner, EndedIsReported, Stages, vars, procVars, inboxVars,
       killVars, closeVars
<1>. QED
  BY <1>1, <1>2, <1>3, <1>4, <1>5, <1>6, <1>7, <1>8, <1>9, <1>10, <1>11, <1>12, <1>13,
     <1>14, <1>15, <1>16, <1>17, <1>18, <1>19, <1>20, <1>21, <1>22, <1>23, <1>24, <1>25
     DEF Next, SessionStep, Inner, Supervise, InboxStep, CloseStep

\* Quiet ends stay quiet: needs that a session that did not end has no report.
LEMMA QuietNext ==
  ASSUME TypeOK, Stages, EndedIsReported, QuietEndsNeverWake, [Next]_vars
  PROVE  QuietEndsNeverWake'
<1>. USE DEF LIVE_STATES, ENDED_STATES, Live, closing
<1>1. ASSUME NEW s \in Sessions, Start(s) PROVE QuietEndsNeverWake'
  BY <1>1 DEF TypeOK, QuietEndsNeverWake, EndedIsReported, Holds, Stages, Start,
       procVars, inboxVars, killVars, closeVars
<1>2. ASSUME NEW s \in Sessions, SpawnFails(s) PROVE QuietEndsNeverWake'
  BY <1>2 DEF TypeOK, QuietEndsNeverWake, EndedIsReported, Holds, Stages,
       SpawnFails, procVars, inboxVars, killVars, closeVars
<1>3. ASSUME NEW s \in Sessions, Spawned(s) PROVE QuietEndsNeverWake'
  BY <1>3 DEF TypeOK, QuietEndsNeverWake, EndedIsReported, Holds, Stages,
       Spawned, KilledEarly, inboxVars, killVars, closeVars
<1>4. ASSUME NEW s \in Sessions, NEW r \in CallerReasons, Kill(s, r) PROVE QuietEndsNeverWake'
  BY <1>4 DEF TypeOK, QuietEndsNeverWake, EndedIsReported, Holds, Stages, Kill,
       MarkKilled, inboxVars, closeVars
<1>5. ASSUME NEW s \in Sessions, Opened(s) PROVE QuietEndsNeverWake'
  BY <1>5 DEF TypeOK, QuietEndsNeverWake, EndedIsReported, Holds, Stages, Opened,
       inboxVars, killVars, closeVars
<1>6. ASSUME NEW s \in Sessions, OpenFails(s) PROVE QuietEndsNeverWake'
  BY <1>6 DEF TypeOK, QuietEndsNeverWake, EndedIsReported, Holds, Stages,
       OpenFails, MarkKilled, inboxVars, closeVars
<1>7. ASSUME NEW s \in Sessions, StopSent(s) PROVE QuietEndsNeverWake'
  BY <1>7 DEF TypeOK, QuietEndsNeverWake, EndedIsReported, Holds, Stages,
       StopSent, inboxVars, killVars, closeVars
<1>8. ASSUME NEW s \in Sessions, KillReport(s) PROVE QuietEndsNeverWake'
  BY <1>8 DEF TypeOK, QuietEndsNeverWake, EndedIsReported, Holds, Stages,
       KillReport, procVars, closeVars
<1>9. ASSUME NEW s \in Sessions, KillGivesUp(s) PROVE QuietEndsNeverWake'
  BY <1>9 DEF TypeOK, QuietEndsNeverWake, EndedIsReported, Holds, Stages,
       KillGivesUp, procVars, inboxVars, closeVars
<1>10. ASSUME NEW s \in Sessions, KillFindsFailed(s) PROVE QuietEndsNeverWake'
  BY <1>10 DEF TypeOK, QuietEndsNeverWake, EndedIsReported, Holds, Stages,
       KillFindsFailed, procVars, inboxVars, closeVars
<1>11. ASSUME NEW s \in Sessions, ProcessEnds(s) PROVE QuietEndsNeverWake'
  BY <1>11 DEF TypeOK, QuietEndsNeverWake, EndedIsReported, Holds, Stages,
       ProcessEnds, inboxVars, killVars, closeVars
<1>12. ASSUME NEW s \in Sessions, IdleExpires(s) PROVE QuietEndsNeverWake'
  BY <1>12 DEF TypeOK, QuietEndsNeverWake, EndedIsReported, Holds, Stages,
       IdleExpires, Owe, inboxVars, closeVars
<1>13. ASSUME NEW s \in Sessions, DeadlinePasses(s) PROVE QuietEndsNeverWake'
  BY <1>13 DEF TypeOK, QuietEndsNeverWake, EndedIsReported, Holds, Stages,
       DeadlinePasses, Due, Owe, inboxVars, closeVars
<1>14. ASSUME NEW s \in Sessions, WaitEnds(s) PROVE QuietEndsNeverWake'
  BY <1>14 DEF TypeOK, QuietEndsNeverWake, EndedIsReported, Holds, Stages,
       WaitEnds, inboxVars, killVars, closeVars
<1>15. ASSUME NEW s \in Sessions, MatchLine(s) PROVE QuietEndsNeverWake'
  BY <1>15 DEF TypeOK, QuietEndsNeverWake, EndedIsReported, Holds, Stages,
       MatchLine, procVars, killVars, closeVars
<1>16. ASSUME NEW s \in Sessions, StreamEnds(s) PROVE QuietEndsNeverWake'
  BY <1>16 DEF TypeOK, QuietEndsNeverWake, EndedIsReported, Holds, Stages,
       StreamEnds, inboxVars, killVars, closeVars
<1>17. ASSUME NEW s \in Sessions, Finish(s) PROVE QuietEndsNeverWake'
  BY <1>17 DEF TypeOK, QuietEndsNeverWake, EndedIsReported, Holds, Stages,
       Finish, Destination, Fate, killVars, closeVars
<1>18. ASSUME NEW t \in Threads, TakeBatch(t) PROVE QuietEndsNeverWake'
  BY <1>18 DEF TypeOK, QuietEndsNeverWake, EndedIsReported, Holds, Stages,
       TakeBatch, WithinLimit, CountWake, procVars, killVars, closeVars
<1>19. ASSUME NEW t \in Threads, Suspend(t) PROVE QuietEndsNeverWake'
  BY <1>19 DEF TypeOK, QuietEndsNeverWake, EndedIsReported, Holds, Stages,
       Suspend, WithinLimit, procVars, killVars, closeVars
<1>20. ASSUME NEW t \in Threads, TakeHeld(t) PROVE QuietEndsNeverWake'
  BY <1>20 DEF TypeOK, QuietEndsNeverWake, EndedIsReported, Holds, Stages,
       TakeHeld, procVars, killVars, closeVars
<1>21. ASSUME NEW t \in Threads, NoteUserInput(t) PROVE QuietEndsNeverWake'
  BY <1>21 DEF TypeOK, QuietEndsNeverWake, EndedIsReported, Holds, Stages,
       NoteUserInput, procVars, killVars, closeVars
<1>22. ASSUME CloseMarks PROVE QuietEndsNeverWake'
  BY <1>22 DEF TypeOK, QuietEndsNeverWake, EndedIsReported, Holds, Stages,
       CloseMarks, procVars, inboxVars
<1>23. ASSUME CloseKills PROVE QuietEndsNeverWake'
  BY <1>23 DEF TypeOK, QuietEndsNeverWake, EndedIsReported, Holds, Stages,
       CloseKills, inboxVars, killVars
<1>24. ASSUME CloseReturns PROVE QuietEndsNeverWake'
  BY <1>24 DEF TypeOK, QuietEndsNeverWake, EndedIsReported, Holds, Stages,
       CloseReturns, procVars, inboxVars, killVars
<1>25. CASE UNCHANGED vars
  BY <1>25 DEF QuietEndsNeverWake, EndedIsReported, Holds, Stages, vars, procVars, inboxVars,
       killVars, closeVars
<1>. QED
  BY <1>1, <1>2, <1>3, <1>4, <1>5, <1>6, <1>7, <1>8, <1>9, <1>10, <1>11, <1>12, <1>13,
     <1>14, <1>15, <1>16, <1>17, <1>18, <1>19, <1>20, <1>21, <1>22, <1>23, <1>24, <1>25
     DEF Next, SessionStep, Inner, Supervise, InboxStep, CloseStep

\* No matched line is lost, whatever moves it.
LEMMA MatchesNext ==
  ASSUME TypeOK, NoMatchLost, [Next]_vars
  PROVE  NoMatchLost'
<1>. USE DEF LIVE_STATES, ENDED_STATES, Live, closing
<1>1. ASSUME NEW s \in Sessions, Start(s) PROVE NoMatchLost'
  BY <1>1 DEF TypeOK, NoMatchLost, Start, procVars, inboxVars, killVars,
       closeVars
<1>2. ASSUME NEW s \in Sessions, SpawnFails(s) PROVE NoMatchLost'
  BY <1>2 DEF TypeOK, NoMatchLost, SpawnFails, procVars, inboxVars, killVars,
       closeVars
<1>3. ASSUME NEW s \in Sessions, Spawned(s) PROVE NoMatchLost'
  BY <1>3 DEF TypeOK, NoMatchLost, Spawned, KilledEarly, inboxVars, killVars, closeVars
<1>4. ASSUME NEW s \in Sessions, NEW r \in CallerReasons, Kill(s, r) PROVE NoMatchLost'
  BY <1>4 DEF TypeOK, NoMatchLost, Kill, MarkKilled, inboxVars, closeVars
<1>5. ASSUME NEW s \in Sessions, Opened(s) PROVE NoMatchLost'
  BY <1>5 DEF TypeOK, NoMatchLost, Opened, inboxVars, killVars, closeVars
<1>6. ASSUME NEW s \in Sessions, OpenFails(s) PROVE NoMatchLost'
  BY <1>6 DEF TypeOK, NoMatchLost, OpenFails, MarkKilled, inboxVars, closeVars
<1>7. ASSUME NEW s \in Sessions, StopSent(s) PROVE NoMatchLost'
  BY <1>7 DEF TypeOK, NoMatchLost, StopSent, inboxVars, killVars, closeVars
<1>8. ASSUME NEW s \in Sessions, KillReport(s) PROVE NoMatchLost'
  BY <1>8, Moves DEF TypeOK, NoMatchLost, KillReport, procVars, closeVars
<1>9. ASSUME NEW s \in Sessions, KillGivesUp(s) PROVE NoMatchLost'
  BY <1>9 DEF TypeOK, NoMatchLost, KillGivesUp, procVars, inboxVars, closeVars
<1>10. ASSUME NEW s \in Sessions, KillFindsFailed(s) PROVE NoMatchLost'
  BY <1>10 DEF TypeOK, NoMatchLost, KillFindsFailed, procVars, inboxVars,
       closeVars
<1>11. ASSUME NEW s \in Sessions, ProcessEnds(s) PROVE NoMatchLost'
  BY <1>11 DEF TypeOK, NoMatchLost, ProcessEnds, inboxVars, killVars, closeVars
<1>12. ASSUME NEW s \in Sessions, IdleExpires(s) PROVE NoMatchLost'
  BY <1>12 DEF TypeOK, NoMatchLost, IdleExpires, Owe, inboxVars, closeVars
<1>13. ASSUME NEW s \in Sessions, DeadlinePasses(s) PROVE NoMatchLost'
  BY <1>13 DEF TypeOK, NoMatchLost, DeadlinePasses, Due, Owe, inboxVars, closeVars
<1>14. ASSUME NEW s \in Sessions, WaitEnds(s) PROVE NoMatchLost'
  BY <1>14 DEF TypeOK, NoMatchLost, WaitEnds, inboxVars, killVars, closeVars
<1>15. ASSUME NEW s \in Sessions, MatchLine(s) PROVE NoMatchLost'
  BY <1>15, Match DEF TypeOK, NoMatchLost, MatchLine, procVars, killVars,
       closeVars
<1>16. ASSUME NEW s \in Sessions, StreamEnds(s) PROVE NoMatchLost'
  BY <1>16 DEF TypeOK, NoMatchLost, StreamEnds, inboxVars, killVars, closeVars
<1>17. ASSUME NEW s \in Sessions, Finish(s) PROVE NoMatchLost'
  BY <1>17, Moves DEF TypeOK, NoMatchLost, Finish, Destination, Fate, killVars, closeVars
<1>18. ASSUME NEW t \in Threads, TakeBatch(t) PROVE NoMatchLost'
  BY <1>18, Moves DEF TypeOK, NoMatchLost, TakeBatch, WithinLimit, CountWake, procVars, killVars,
       closeVars
<1>19. ASSUME NEW t \in Threads, Suspend(t) PROVE NoMatchLost'
  BY <1>19, Moves DEF TypeOK, NoMatchLost, Suspend, WithinLimit, procVars, killVars, closeVars
<1>20. ASSUME NEW t \in Threads, TakeHeld(t) PROVE NoMatchLost'
  BY <1>20, Moves DEF TypeOK, NoMatchLost, TakeHeld, procVars, killVars,
       closeVars
<1>21. ASSUME NEW t \in Threads, NoteUserInput(t) PROVE NoMatchLost'
  BY <1>21 DEF TypeOK, NoMatchLost, NoteUserInput, procVars, killVars, closeVars
<1>22. ASSUME CloseMarks PROVE NoMatchLost'
  BY <1>22 DEF TypeOK, NoMatchLost, CloseMarks, procVars, inboxVars
<1>23. ASSUME CloseKills PROVE NoMatchLost'
  BY <1>23 DEF TypeOK, NoMatchLost, CloseKills, inboxVars, killVars
<1>24. ASSUME CloseReturns PROVE NoMatchLost'
  BY <1>24 DEF TypeOK, NoMatchLost, CloseReturns, procVars, inboxVars, killVars
<1>25. CASE UNCHANGED vars
  BY <1>25 DEF NoMatchLost, vars, procVars, inboxVars,
       killVars, closeVars
<1>. QED
  BY <1>1, <1>2, <1>3, <1>4, <1>5, <1>6, <1>7, <1>8, <1>9, <1>10, <1>11, <1>12, <1>13,
     <1>14, <1>15, <1>16, <1>17, <1>18, <1>19, <1>20, <1>21, <1>22, <1>23, <1>24, <1>25
     DEF Next, SessionStep, Inner, Supervise, InboxStep, CloseStep

\* The queue of a suspended conversation stays empty.
LEMMA SuspendedNext ==
  ASSUME TypeOK, SuspendedQueuesNothing, [Next]_vars
  PROVE  SuspendedQueuesNothing'
<1>. USE DEF LIVE_STATES, ENDED_STATES, Live, closing
<1>1. ASSUME NEW s \in Sessions, Start(s) PROVE SuspendedQueuesNothing'
  BY <1>1 DEF TypeOK, SuspendedQueuesNothing, HasEvents, Owned, Start, procVars,
       inboxVars, killVars, closeVars
<1>2. ASSUME NEW s \in Sessions, SpawnFails(s) PROVE SuspendedQueuesNothing'
  BY <1>2 DEF TypeOK, SuspendedQueuesNothing, HasEvents, Owned, SpawnFails,
       procVars, inboxVars, killVars, closeVars
<1>3. ASSUME NEW s \in Sessions, Spawned(s) PROVE SuspendedQueuesNothing'
  BY <1>3 DEF TypeOK, SuspendedQueuesNothing, HasEvents, Owned, Spawned, KilledEarly,
       inboxVars, killVars, closeVars
<1>4. ASSUME NEW s \in Sessions, NEW r \in CallerReasons, Kill(s, r) PROVE SuspendedQueuesNothing'
  BY <1>4 DEF TypeOK, SuspendedQueuesNothing, HasEvents, Owned, Kill, MarkKilled,
       inboxVars, closeVars
<1>5. ASSUME NEW s \in Sessions, Opened(s) PROVE SuspendedQueuesNothing'
  BY <1>5 DEF TypeOK, SuspendedQueuesNothing, HasEvents, Owned, Opened,
       inboxVars, killVars, closeVars
<1>6. ASSUME NEW s \in Sessions, OpenFails(s) PROVE SuspendedQueuesNothing'
  BY <1>6 DEF TypeOK, SuspendedQueuesNothing, HasEvents, Owned, OpenFails,
       MarkKilled, inboxVars, closeVars
<1>7. ASSUME NEW s \in Sessions, StopSent(s) PROVE SuspendedQueuesNothing'
  BY <1>7 DEF TypeOK, SuspendedQueuesNothing, HasEvents, Owned, StopSent,
       inboxVars, killVars, closeVars
<1>8. ASSUME NEW s \in Sessions, KillReport(s) PROVE SuspendedQueuesNothing'
  BY <1>8 DEF TypeOK, SuspendedQueuesNothing, HasEvents, Owned, KillReport,
       procVars, closeVars, TellEnd
<1>9. ASSUME NEW s \in Sessions, KillGivesUp(s) PROVE SuspendedQueuesNothing'
  BY <1>9 DEF TypeOK, SuspendedQueuesNothing, HasEvents, Owned, KillGivesUp,
       procVars, inboxVars, closeVars
<1>10. ASSUME NEW s \in Sessions, KillFindsFailed(s) PROVE SuspendedQueuesNothing'
  BY <1>10 DEF TypeOK, SuspendedQueuesNothing, HasEvents, Owned, KillFindsFailed,
       procVars, inboxVars, closeVars
<1>11. ASSUME NEW s \in Sessions, ProcessEnds(s) PROVE SuspendedQueuesNothing'
  BY <1>11 DEF TypeOK, SuspendedQueuesNothing, HasEvents, Owned, ProcessEnds,
       inboxVars, killVars, closeVars
<1>12. ASSUME NEW s \in Sessions, IdleExpires(s) PROVE SuspendedQueuesNothing'
  BY <1>12 DEF TypeOK, SuspendedQueuesNothing, HasEvents, Owned, IdleExpires,
       Owe, inboxVars, closeVars
<1>13. ASSUME NEW s \in Sessions, DeadlinePasses(s) PROVE SuspendedQueuesNothing'
  BY <1>13 DEF TypeOK, SuspendedQueuesNothing, HasEvents, Owned, DeadlinePasses, Due,
       Owe, inboxVars, closeVars
<1>14. ASSUME NEW s \in Sessions, WaitEnds(s) PROVE SuspendedQueuesNothing'
  BY <1>14 DEF TypeOK, SuspendedQueuesNothing, HasEvents, Owned, WaitEnds,
       inboxVars, killVars, closeVars
<1>15. ASSUME NEW s \in Sessions, MatchLine(s) PROVE SuspendedQueuesNothing'
  BY <1>15 DEF TypeOK, SuspendedQueuesNothing, HasEvents, Owned, MatchLine,
       procVars, killVars, closeVars, MatchHeld, Tallies
<1>16. ASSUME NEW s \in Sessions, StreamEnds(s) PROVE SuspendedQueuesNothing'
  BY <1>16 DEF TypeOK, SuspendedQueuesNothing, HasEvents, Owned, StreamEnds,
       inboxVars, killVars, closeVars
<1>17. ASSUME NEW s \in Sessions, Finish(s) PROVE SuspendedQueuesNothing'
  BY <1>17 DEF TypeOK, SuspendedQueuesNothing, HasEvents, Owned, Finish, Destination, Fate,
       killVars, closeVars, FoldIntoEnd, Holds
<1>18. ASSUME NEW t \in Threads, TakeBatch(t) PROVE SuspendedQueuesNothing'
  BY <1>18 DEF TypeOK, SuspendedQueuesNothing, HasEvents, Owned, TakeBatch, WithinLimit, CountWake,
       procVars, killVars, closeVars, Pending
<1>19. ASSUME NEW t \in Threads, Suspend(t) PROVE SuspendedQueuesNothing'
  BY <1>19 DEF TypeOK, SuspendedQueuesNothing, HasEvents, Owned, Suspend, WithinLimit,
       procVars, killVars, closeVars, HoldEvents
<1>20. ASSUME NEW t \in Threads, TakeHeld(t) PROVE SuspendedQueuesNothing'
  BY <1>20 DEF TypeOK, SuspendedQueuesNothing, HasEvents, Owned, TakeHeld,
       procVars, killVars, closeVars, TellHeld, TellEnd
<1>21. ASSUME NEW t \in Threads, NoteUserInput(t) PROVE SuspendedQueuesNothing'
  BY <1>21 DEF TypeOK, SuspendedQueuesNothing, HasEvents, Owned, NoteUserInput,
       procVars, killVars, closeVars
<1>22. ASSUME CloseMarks PROVE SuspendedQueuesNothing'
  BY <1>22 DEF TypeOK, SuspendedQueuesNothing, HasEvents, Owned, CloseMarks,
       procVars, inboxVars
<1>23. ASSUME CloseKills PROVE SuspendedQueuesNothing'
  BY <1>23 DEF TypeOK, SuspendedQueuesNothing, HasEvents, Owned, CloseKills,
       inboxVars, killVars
<1>24. ASSUME CloseReturns PROVE SuspendedQueuesNothing'
  BY <1>24 DEF TypeOK, SuspendedQueuesNothing, HasEvents, Owned, CloseReturns,
       procVars, inboxVars, killVars
<1>25. CASE UNCHANGED vars
  BY <1>25 DEF SuspendedQueuesNothing, HasEvents, Owned, vars, procVars, inboxVars,
       killVars, closeVars
<1>. QED
  BY <1>1, <1>2, <1>3, <1>4, <1>5, <1>6, <1>7, <1>8, <1>9, <1>10, <1>11, <1>12, <1>13,
     <1>14, <1>15, <1>16, <1>17, <1>18, <1>19, <1>20, <1>21, <1>22, <1>23, <1>24, <1>25
     DEF Next, SessionStep, Inner, Supervise, InboxStep, CloseStep

-----------------------------------------------------------------------------
(* The safety of the session manager.                                      *)

Safety == /\ Stages /\ KillReachesProcess /\ NothingOutlivesClose
          /\ EndedIsReported /\ ClaimHasOwner /\ QuietEndsNeverWake
          /\ NoMatchLost /\ SuspendedQueuesNothing

IInv == TypeOK /\ Safety

\* A manager without sessions satisfies the inductive invariant.
LEMMA SafetyInit == Init => IInv
<1>. SUFFICES ASSUME Init PROVE IInv
  OBVIOUS
<1>1. TypeOK
  BY TypeInit
<1>2. Stages /\ EndedIsReported /\ ClaimHasOwner /\ QuietEndsNeverWake
  BY DEF Init, Stages, EndedIsReported, ClaimHasOwner, QuietEndsNeverWake,
         LIVE_STATES, ENDED_STATES, Live
<1>3. KillReachesProcess /\ NothingOutlivesClose
  BY DEF Init, KillReachesProcess, NothingOutlivesClose, closing
<1>4. NoMatchLost /\ SuspendedQueuesNothing
  BY DEF Init, NoMatchLost, Total, SuspendedQueuesNothing
<1>. QED
  BY <1>1, <1>2, <1>3, <1>4 DEF IInv, Safety

\* Every step keeps the inductive invariant, one conjunct at a time.
LEMMA SafetyNext == IInv /\ [Next]_vars => IInv'
  BY TypeNext, StagesNext, KillsNext, CloseNext, EndedNext, ClaimNext, QuietNext,
     MatchesNext, SuspendedNext DEF IInv, Safety

\* The inductive invariant holds in every reachable state.
LEMMA SafetyAlways == Spec => []IInv
  BY SafetyInit, SafetyNext, PTL DEF Spec

\* A kill always reaches its process, for any number of sessions, however the
\* kill, the start and the close interleave.
THEOREM KillsReach == Spec => []KillReachesProcess
  BY SafetyAlways, PTL DEF IInv, Safety

\* Once close has marked the registry, every live session is being killed.
THEOREM CloseIsFinal == Spec => []NothingOutlivesClose
  BY SafetyAlways, PTL DEF IInv, Safety

\* Whatever ends is reported, what is reported ended, and a report withheld for
\* the agent's own kill always has that kill there to return it.
THEOREM ReportsHaveTakers == Spec => []ReportsAreOwed
  BY SafetyAlways, PTL DEF IInv, Safety, ReportsAreOwed

\* The end of an interactive shell, and of a session the user stopped in the
\* main conversation, never starts a wake turn.
THEOREM QuietEnds == Spec => []QuietEndsNeverWake
  BY SafetyAlways, PTL DEF IInv, Safety

\* No matched line is lost on any of the routes to the agent, and past the wake
\* limit nothing is queued that would wake it.
THEOREM MatchesKept == Spec => []MatchesAreKept
  BY SafetyAlways, PTL DEF IInv, Safety, MatchesAreKept

-----------------------------------------------------------------------------
(* Every session is told of at most once: ShellSessions implements         *)
(* SessionReports.                                                         *)

phases == [s \in Sessions |-> Phase(s)]

\* At the start every session is idle and the manager accepts.
LEMMA ReportsInit == Init => Reports!Init
  BY DEF Init, Reports!Init, Phase, Live, LIVE_STATES, closing

\* What leaves states, reports and the closing mark alone is a stutter.
LEMMA Unreported ==
  ASSUME UNCHANGED <<state, report>>, closing' = closing
  PROVE  UNCHANGED <<phases, ~closing>>
  BY DEF phases, Phase, Live

\* Every step of the manager is a step of SessionReports or a stutter.
LEMMA ReportsNext ==
  ASSUME IInv, [Next]_vars
  PROVE  [Reports!Next]_<<phases, ~closing>>
<1>. USE DEF LIVE_STATES, ENDED_STATES, Live
<1>a. TypeOK /\ Stages /\ EndedIsReported
  BY DEF IInv, Safety
<1>1. ASSUME NEW s \in Sessions, Start(s) PROVE Reports!Begin(s)
  <2>1. ~closing /\ Phase(s) = "idle" /\ closing' = closing
    BY <1>1 DEF Start, Admits, Phase, closeVars, closing
  <2>2. \A q \in Sessions : Phase(q)' = IF q = s THEN "live" ELSE Phase(q)
    BY <1>1, <1>a DEF Start, TypeOK, Phase, inboxVars
  <2>. QED
    BY <2>1, <2>2 DEF Reports!Begin
<1>2. ASSUME NEW s \in Sessions, SpawnFails(s) PROVE Reports!Refuse(s)
  <2>1. Phase(s) = "live" /\ closing' = closing
    BY <1>2 DEF SpawnFails, Phase, closeVars, closing
  <2>2. \A q \in Sessions : Phase(q)' = IF q = s THEN "refused" ELSE Phase(q)
    BY <1>2, <1>a DEF SpawnFails, TypeOK, Phase, inboxVars
  <2>. QED
    BY <2>1, <2>2 DEF Reports!Refuse
<1>3. ASSUME NEW s \in Sessions, Finish(s) PROVE Reports!End(s)
  <2>1. state[s] = "running"
    BY <1>3, <1>a DEF Finish, Destination, Stages, TypeOK
  <2>2. Phase(s) = "live" /\ closing' = closing
    BY <1>3, <2>1 DEF Finish, Destination, Phase, closeVars, closing
  <2>3. \A q \in Sessions : Phase(q)' = IF q = s THEN "owed" ELSE Phase(q)
    BY <1>3, <1>a DEF Finish, Destination, Fate, TypeOK, Phase
  <2>. QED
    BY <2>2, <2>3 DEF Reports!End
<1>4. ASSUME NEW s \in Sessions, KillReport(s) PROVE Reports!Tell({s})
  BY <1>4, <1>a DEF KillReport, EndedIsReported, Reports!Tell, TypeOK, Phase, closeVars, closing
<1>5. ASSUME NEW t \in Threads, TakeBatch(t)
      PROVE  Reports!Tell({s \in Sessions : Owner[s] = t /\ report[s] = "events"})
  BY <1>5, <1>a DEF TakeBatch, WithinLimit, CountWake, EndedIsReported, Reports!Tell, TypeOK, Phase, closeVars, closing
<1>6. ASSUME NEW t \in Threads, TakeHeld(t)
      PROVE  Reports!Tell({s \in Sessions : Owner[s] = t /\ report[s] = "held"})
  BY <1>6, <1>a DEF TakeHeld, EndedIsReported, Reports!Tell, TypeOK, Phase, closeVars, closing
<1>7. ASSUME CloseMarks PROVE Reports!Shut
  BY <1>7, <1>a DEF CloseMarks, Reports!Shut, Phase, inboxVars, closing
<1>8. ASSUME NEW batch \in SUBSET Sessions, Reports!Tell(batch)
      PROVE  [Reports!Next]_<<phases, ~closing>>
  <2>1. CASE batch = {}
    BY <1>8, <2>1 DEF Reports!Tell, phases
  <2>2. CASE batch # {}
    BY <1>8, <2>2 DEF Reports!Next
  <2>. QED
    BY <2>1, <2>2
<1>9. ASSUME NEW t \in Threads, Suspend(t) PROVE UNCHANGED <<phases, ~closing>>
  BY <1>9, <1>a DEF Suspend, WithinLimit, EndedIsReported, TypeOK, phases, Phase, closeVars, closing
<1>10. ASSUME NEW s \in Sessions, Spawned(s) PROVE UNCHANGED <<phases, ~closing>>
  BY <1>10, <1>a DEF Spawned, KilledEarly, TypeOK, phases, Phase, inboxVars, closeVars, closing
<1>11. ASSUME CloseKills \/ CloseReturns PROVE UNCHANGED <<phases, ~closing>>
  BY <1>11, Unreported DEF CloseKills, CloseReturns, inboxVars, closing
<1>12. ASSUME NEW s \in Sessions,
              \/ \E r \in CallerReasons : Kill(s, r)
              \/ Opened(s) \/ OpenFails(s) \/ StopSent(s) \/ KillGivesUp(s)
              \/ KillFindsFailed(s) \/ ProcessEnds(s) \/ MatchLine(s) \/ StreamEnds(s)
              \/ IdleExpires(s) \/ DeadlinePasses(s) \/ WaitEnds(s)
       PROVE  UNCHANGED <<phases, ~closing>>
  <2>1. UNCHANGED <<state, report, closer>>
    BY <1>12 DEF Kill, Opened, OpenFails, StopSent, KillGivesUp, KillFindsFailed,
                 ProcessEnds, MatchLine, StreamEnds, IdleExpires, DeadlinePasses, Due,
                 WaitEnds, inboxVars, closeVars
  <2>. QED
    BY <2>1, Unreported DEF closing
<1>13. ASSUME NEW t \in Threads, NoteUserInput(t) PROVE UNCHANGED <<phases, ~closing>>
  BY <1>13, Unreported DEF NoteUserInput, closeVars, closing
<1>14. CASE UNCHANGED vars
  BY <1>14, Unreported DEF vars, inboxVars, closeVars, closing
<1>. QED
  BY <1>1, <1>2, <1>3, <1>4, <1>5, <1>6, <1>7, <1>8, <1>9, <1>10, <1>11, <1>12,
     <1>13, <1>14
     DEF Next, SessionStep, Inner, Supervise, InboxStep, CloseStep, Reports!Next

\* The manager keeps the promise of SessionReports: each session that starts is
\* told of at most once, only after it ended, and none starts after the close.
THEOREM Implements == Spec => KeepsReports
<1>1. Init => Reports!Init
  BY ReportsInit
<1>2. IInv /\ [Next]_vars => [Reports!Next]_<<phases, ~closing>>
  BY ReportsNext
<1>. QED
  BY <1>1, <1>2, SafetyAlways, PTL DEF Spec, KeepsReports, Reports!Spec, phases

-----------------------------------------------------------------------------
(* What the manager does by itself, for the proofs about its consumers.    *)

\* No call is inside the manager.
NoCalls == \A s \in Sessions : state[s] # "starting" /\ ~opening[s] /\ ~waiter[s]

\* Its own threads start nothing, forget no kill, make no call, wake nobody and
\* report only ends: those of a session that was live, and into the wake queue
\* or, of a session that may wake its unsuspended owner, into that queue only.
OnlyEnds ==
  /\ wakes' = wakes /\ suspended' = suspended
  /\ NoCalls => NoCalls'
  /\ \A q \in Sessions :
       /\ Live(q)' => Live(q)
       /\ reason[q] # "none" => reason'[q] # "none"
       /\ report'[q] = "events" => report[q] = "events" \/ Live(q)
       /\ report'[q] \in {"held", "delivered"} =>
            report[q] = report'[q] \/ (report'[q] = "held" /\ Holds(q))

LEMMA InnerOnlyEnds ==
  ASSUME TypeOK, Stages, NEW s \in Sessions, Inner(s)
  PROVE  OnlyEnds
<1>. USE DEF TypeOK, Stages, OnlyEnds, NoCalls, Live, LIVE_STATES, ENDED_STATES
<1>1. CASE SpawnFails(s)
  BY <1>1 DEF SpawnFails, procVars, inboxVars, killVars, closeVars
<1>2. CASE Spawned(s)
  BY <1>2 DEF Spawned, inboxVars, killVars, closeVars, KilledEarly
<1>3. CASE Opened(s)
  BY <1>3 DEF Opened, inboxVars, killVars, closeVars
<1>4. CASE OpenFails(s)
  BY <1>4 DEF OpenFails, MarkKilled, inboxVars, closeVars
<1>5. CASE StopSent(s)
  BY <1>5 DEF StopSent, inboxVars, killVars, closeVars
<1>6. CASE KillReport(s)
  BY <1>6 DEF KillReport, procVars, closeVars
<1>7. CASE KillGivesUp(s)
  BY <1>7 DEF KillGivesUp, procVars, inboxVars, closeVars
<1>8. CASE KillFindsFailed(s)
  BY <1>8 DEF KillFindsFailed, procVars, inboxVars, closeVars
<1>9. CASE ProcessEnds(s)
  BY <1>9 DEF ProcessEnds, inboxVars, killVars, closeVars
<1>10. CASE MatchLine(s)
  BY <1>10 DEF MatchLine, procVars, killVars, closeVars
<1>11. CASE StreamEnds(s)
  BY <1>11 DEF StreamEnds, inboxVars, killVars, closeVars
<1>12. CASE IdleExpires(s)
  BY <1>12 DEF IdleExpires, Owe, inboxVars, closeVars
<1>13. CASE DeadlinePasses(s)
  BY <1>13 DEF DeadlinePasses, Due, Owe, inboxVars, closeVars
<1>14. CASE WaitEnds(s)
  BY <1>14 DEF WaitEnds, inboxVars, killVars, closeVars
<1>15. CASE Finish(s)
  BY <1>15 DEF Finish, Destination, Holds, Fate, killVars, closeVars
<1>. QED
  BY <1>1, <1>2, <1>3, <1>4, <1>5, <1>6, <1>7, <1>8,
     <1>9, <1>10, <1>11, <1>12, <1>13, <1>14, <1>15 DEF Inner, Supervise

\* A kill sets a reason and nothing else a consumer looks at; only the model's
\* waits for the report.
LEMMA KillOnlyMarks ==
  ASSUME TypeOK, NEW s \in Sessions, NEW r \in KillReasons, Kill(s, r)
  PROVE  /\ wakes' = wakes /\ suspended' = suspended
         /\ state' = state /\ report' = report /\ opening' = opening /\ matches' = matches
         /\ reason'[s] # "none"
         /\ \A q \in Sessions : reason[q] # "none" => reason'[q] # "none"
         /\ r # "model" => waiter' = waiter
  BY DEF TypeOK, Kill, MarkKilled, inboxVars, KillReasons
=============================================================================
