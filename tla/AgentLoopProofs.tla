---------------------------- MODULE AgentLoopProofs ----------------------------
(***************************************************************************)
(* Proofs about AgentLoop, for any agents and responses, any limits, and   *)
(* any number of steps, calls, retries and workers.                        *)
(***************************************************************************)
EXTENDS AgentLoop, SequenceTheorems, TLAPS

USE AgentsAssumption, ResponsesAssumption, LimitsAssumption

----------------------------------------------------------------------------
(* The inductive invariant.                                                *)

Calls == 1..Len(calls)
States == {"idle", "queued", "begun", "asking", "working"} \cup Finished

\* The types, in three parts.
ControlOK == /\ pc \in {"boundary", "stream", "group", "started", "running", "settle",
                        "announce", "unrun"} \cup Ended
             /\ closing \in BOOLEAN /\ cancelled \in BOOLEAN
             /\ stop \in {"none", "complete", "max_steps_reached", "cancelled",
                          "token_budget_exceeded"}
TextOK == /\ step \in 0..MaxSteps /\ retry \in 0..MaxRetries
          /\ partial \in 0..MaxDeltas /\ screen \in 0..MaxDeltas /\ stored \in 0..MaxDeltas
CallsOK == /\ calls \in Seq(Agents \cup {"tool"}) /\ Len(calls) \in Nat
           /\ worker \in [Calls -> States]
           /\ at \in Nat \ {0} /\ at <= Len(calls) + 1
           /\ last \in Nat /\ last <= Len(calls)
           /\ answered \in Seq(Calls) /\ lost \subseteq Calls
           /\ signed \subseteq Agents /\ conduit \in Nat

\* Where the group being run lies.
Cursor == /\ pc \in {"boundary", "stream"} => at = Len(calls) + 1
          /\ pc = "done" /\ stop # "token_budget_exceeded" => at = Len(calls) + 1
          /\ pc \in {"started", "running"} => at <= last
          /\ pc = "unrun" => last = Len(calls)

\* A close is held during a batch only, and answered when the batch is settled.
Closes == closing => /\ pc \in {"running", "settle", "abandoned"}
                     /\ pc = "running" => Parallel

\* Until then the calls before the cursor have one row each, in their order.
InOrder == ~closing => /\ Len(answered) = at - 1
                       /\ \A n \in 1..(at - 1) : answered[n] = n

\* Calls are run group by group; a lone one is at its yield when it has just
\* said something.
Begun == /\ pc \notin {"running", "failed", "abandoned"} =>
              conduit = 0 /\ \A i \in Calls : worker[i] \in Finished \cup {"idle"}
         /\ pc \notin {"running", "settle", "failed", "abandoned"} =>
              \A i \in Calls : i >= at => worker[i] = "idle"
         /\ pc = "running" =>
              \A i \in Calls : i \notin at..last => worker[i] \in Finished \cup {"idle"}
         /\ pc \in {"running", "settle"} => \A i \in Calls : i > last => worker[i] = "idle"
         /\ pc = "running" /\ ~Parallel /\ conduit > 0 => worker[at] \in {"asking", "working"}

\* A call behind the cursor has its row, or storage refused it.
Covered(i) == i \in lost \/ \E n \in 1..Len(answered) : answered[n] = i
Recorded == /\ \A i \in Calls : i < at => Covered(i)
            /\ pc \in {"failed", "abandoned"} =>
                 \A i \in Calls : worker[i] \in {"ran", "refused"} => Covered(i)

\* One call of the group asks at a time, about an agent nobody has signed off.
Asking == pc = "running" =>
            \A i, j \in Calls : worker[i] = "asking" /\ worker[j] = "asking" => i = j

IInv == /\ ControlOK /\ TextOK /\ CallsOK /\ Cursor /\ Closes /\ InOrder /\ Begun
        /\ Recorded /\ Asking /\ KeptIsShown /\ AskedOnce

----------------------------------------------------------------------------
(* Every part is kept by every action.                                     *)

\* The control variables keep their types.
LEMMA ControlKept == ControlOK /\ [Next]_vars => ControlOK'
<1>. SUFFICES ASSUME ControlOK, [Next]_vars PROVE ControlOK'
  OBVIOUS
<1>. USE DEF ControlOK, Ended
<1>1. CASE OutOfSteps
  BY <1>1 DEF OutOfSteps, EndWith, call, text
<1>2. CASE StepCancelled
  BY <1>2 DEF StepCancelled, EndWith, call, text
<1>3. CASE CallModel
  BY <1>3 DEF CallModel, call, text
<1>4. CASE Delta
  BY <1>4 DEF Delta, call, text
<1>5. CASE CutShort
  BY <1>5 DEF CutShort, EndWith, call, text
<1>6. CASE AttemptFails
  BY <1>6 DEF AttemptFails, call, text
<1>7. CASE AttemptRaises
  BY <1>7 DEF AttemptRaises, call, text
<1>8. ASSUME NEW r \in Responses, Respond(r) PROVE ControlOK'
  BY <1>8 DEF Respond, EndWith, call, text
<1>9. CASE GroupsDone
  BY <1>9 DEF GroupsDone, call, text
<1>10. CASE GroupsCancelled
  BY <1>10 DEF GroupsCancelled, call, text
<1>11. CASE UnrunRow
  BY <1>11 DEF UnrunRow, Row, call, text
<1>12. CASE UnrunDone
  BY <1>12 DEF UnrunDone, call, text
<1>13. CASE StartGroup
  BY <1>13 DEF StartGroup, call, text
<1>14. CASE Submit
  BY <1>14 DEF Submit, call, text
<1>15. CASE Narrate
  BY <1>15 DEF Narrate, call, text
<1>16. CASE GroupEnds
  BY <1>16 DEF GroupEnds, call, text
<1>17. CASE SettleRow
  BY <1>17 DEF SettleRow, Row, call, text
<1>18. CASE RowFails
  BY <1>18 DEF RowFails, call, text
<1>19. CASE Settled
  BY <1>19 DEF Settled, call, text
<1>20. CASE Announced
  BY <1>20 DEF Announced, call, text
<1>21. ASSUME NEW i \in 1..Len(calls), Begin(i) PROVE ControlOK'
  BY <1>21 DEF Begin, InCall, Becomes, call, text
<1>22. ASSUME NEW i \in 1..Len(calls), Reuse(i) PROVE ControlOK'
  BY <1>22 DEF Reuse, InCall, Becomes, Narrates, call, text
<1>23. ASSUME NEW i \in 1..Len(calls), Ask(i) PROVE ControlOK'
  BY <1>23 DEF Ask, InCall, Becomes, Narrates, call, text
<1>24. ASSUME NEW i \in 1..Len(calls), Unasked(i) PROVE ControlOK'
  BY <1>24 DEF Unasked, InCall, Becomes, call, text
<1>25. ASSUME NEW i \in 1..Len(calls), Approved(i) PROVE ControlOK'
  BY <1>25 DEF Approved, InCall, Becomes, call, text
<1>26. ASSUME NEW i \in 1..Len(calls), Refused(i) PROVE ControlOK'
  BY <1>26 DEF Refused, InCall, Becomes, call, text
<1>27. ASSUME NEW i \in 1..Len(calls), Works(i) PROVE ControlOK'
  BY <1>27 DEF Works, InCall, Becomes, call, text
<1>28. ASSUME NEW i \in 1..Len(calls), Raises(i) PROVE ControlOK'
  BY <1>28 DEF Raises, InCall, Becomes, call, text
<1>29. CASE Leave
  BY <1>29 DEF Leave, call, text
<1>30. CASE LeaveBatch
  BY <1>30 DEF LeaveBatch, call, text
<1>31. CASE Cancel
  BY <1>31 DEF Cancel, call, text
<1>32. CASE Over
  BY <1>32 DEF Over, vars, call, text
<1>33. CASE UNCHANGED vars
  BY <1>33 DEF vars, call, text
<1>. QED
  BY <1>1, <1>2, <1>3, <1>4, <1>5, <1>6, <1>7, <1>8, <1>9, <1>10, <1>11,
     <1>12, <1>13, <1>14, <1>15, <1>16, <1>17, <1>18, <1>19, <1>20, <1>21,
     <1>22, <1>23, <1>24, <1>25, <1>26, <1>27, <1>28, <1>29, <1>30, <1>31,
     <1>32, <1>33 DEF Next, Generator, OneCall

\* What the consumer holds is what the attempt has produced, and what is stored is
\* what the consumer holds.
LEMMA ShownKept == KeptIsShown /\ [Next]_vars => KeptIsShown'
<1>. SUFFICES ASSUME KeptIsShown, [Next]_vars PROVE KeptIsShown'
  OBVIOUS
<1>. USE DEF KeptIsShown
<1>1. CASE OutOfSteps
  BY <1>1 DEF OutOfSteps, EndWith, call, text
<1>2. CASE StepCancelled
  BY <1>2 DEF StepCancelled, EndWith, call, text
<1>3. CASE CallModel
  BY <1>3 DEF CallModel, call, text
<1>4. CASE Delta
  BY <1>4 DEF Delta, call, text
<1>5. CASE CutShort
  BY <1>5 DEF CutShort, EndWith, call, text
<1>6. CASE AttemptFails
  BY <1>6 DEF AttemptFails, call, text
<1>7. CASE AttemptRaises
  BY <1>7 DEF AttemptRaises, call, text
<1>8. ASSUME NEW r \in Responses, Respond(r) PROVE KeptIsShown'
  BY <1>8 DEF Respond, EndWith, call, text
<1>9. CASE GroupsDone
  BY <1>9 DEF GroupsDone, call, text
<1>10. CASE GroupsCancelled
  BY <1>10 DEF GroupsCancelled, call, text
<1>11. CASE UnrunRow
  BY <1>11 DEF UnrunRow, Row, call, text
<1>12. CASE UnrunDone
  BY <1>12 DEF UnrunDone, call, text
<1>13. CASE StartGroup
  BY <1>13 DEF StartGroup, call, text
<1>14. CASE Submit
  BY <1>14 DEF Submit, call, text
<1>15. CASE Narrate
  BY <1>15 DEF Narrate, call, text
<1>16. CASE GroupEnds
  BY <1>16 DEF GroupEnds, call, text
<1>17. CASE SettleRow
  BY <1>17 DEF SettleRow, Row, call, text
<1>18. CASE RowFails
  BY <1>18 DEF RowFails, call, text
<1>19. CASE Settled
  BY <1>19 DEF Settled, call, text
<1>20. CASE Announced
  BY <1>20 DEF Announced, call, text
<1>21. ASSUME NEW i \in 1..Len(calls), Begin(i) PROVE KeptIsShown'
  BY <1>21 DEF Begin, InCall, Becomes, call, text
<1>22. ASSUME NEW i \in 1..Len(calls), Reuse(i) PROVE KeptIsShown'
  BY <1>22 DEF Reuse, InCall, Becomes, Narrates, call, text
<1>23. ASSUME NEW i \in 1..Len(calls), Ask(i) PROVE KeptIsShown'
  BY <1>23 DEF Ask, InCall, Becomes, Narrates, call, text
<1>24. ASSUME NEW i \in 1..Len(calls), Unasked(i) PROVE KeptIsShown'
  BY <1>24 DEF Unasked, InCall, Becomes, call, text
<1>25. ASSUME NEW i \in 1..Len(calls), Approved(i) PROVE KeptIsShown'
  BY <1>25 DEF Approved, InCall, Becomes, call, text
<1>26. ASSUME NEW i \in 1..Len(calls), Refused(i) PROVE KeptIsShown'
  BY <1>26 DEF Refused, InCall, Becomes, call, text
<1>27. ASSUME NEW i \in 1..Len(calls), Works(i) PROVE KeptIsShown'
  BY <1>27 DEF Works, InCall, Becomes, call, text
<1>28. ASSUME NEW i \in 1..Len(calls), Raises(i) PROVE KeptIsShown'
  BY <1>28 DEF Raises, InCall, Becomes, call, text
<1>29. CASE Leave
  BY <1>29 DEF Leave, call, text
<1>30. CASE LeaveBatch
  BY <1>30 DEF LeaveBatch, call, text
<1>31. CASE Cancel
  BY <1>31 DEF Cancel, call, text
<1>32. CASE Over
  BY <1>32 DEF Over, vars, call, text
<1>33. CASE UNCHANGED vars
  BY <1>33 DEF vars, call, text
<1>. QED
  BY <1>1, <1>2, <1>3, <1>4, <1>5, <1>6, <1>7, <1>8, <1>9, <1>10, <1>11,
     <1>12, <1>13, <1>14, <1>15, <1>16, <1>17, <1>18, <1>19, <1>20, <1>21,
     <1>22, <1>23, <1>24, <1>25, <1>26, <1>27, <1>28, <1>29, <1>30, <1>31,
     <1>32, <1>33 DEF Next, Generator, OneCall

\* The counters stay within the limits.
LEMMA TextKept == (TextOK /\ KeptIsShown) /\ [Next]_vars => TextOK'
<1>. SUFFICES ASSUME (TextOK /\ KeptIsShown), [Next]_vars PROVE TextOK'
  OBVIOUS
<1>. USE DEF TextOK, KeptIsShown
<1>1. CASE OutOfSteps
  BY <1>1 DEF OutOfSteps, EndWith, call, text
<1>2. CASE StepCancelled
  BY <1>2 DEF StepCancelled, EndWith, call, text
<1>3. CASE CallModel
  BY <1>3 DEF CallModel, call, text
<1>4. CASE Delta
  BY <1>4 DEF Delta, call, text
<1>5. CASE CutShort
  BY <1>5 DEF CutShort, EndWith, call, text
<1>6. CASE AttemptFails
  BY <1>6 DEF AttemptFails, call, text
<1>7. CASE AttemptRaises
  BY <1>7 DEF AttemptRaises, call, text
<1>8. ASSUME NEW r \in Responses, Respond(r) PROVE TextOK'
  BY <1>8 DEF Respond, EndWith, call, text
<1>9. CASE GroupsDone
  BY <1>9 DEF GroupsDone, call, text
<1>10. CASE GroupsCancelled
  BY <1>10 DEF GroupsCancelled, call, text
<1>11. CASE UnrunRow
  BY <1>11 DEF UnrunRow, Row, call, text
<1>12. CASE UnrunDone
  BY <1>12 DEF UnrunDone, call, text
<1>13. CASE StartGroup
  BY <1>13 DEF StartGroup, call, text
<1>14. CASE Submit
  BY <1>14 DEF Submit, call, text
<1>15. CASE Narrate
  BY <1>15 DEF Narrate, call, text
<1>16. CASE GroupEnds
  BY <1>16 DEF GroupEnds, call, text
<1>17. CASE SettleRow
  BY <1>17 DEF SettleRow, Row, call, text
<1>18. CASE RowFails
  BY <1>18 DEF RowFails, call, text
<1>19. CASE Settled
  BY <1>19 DEF Settled, call, text
<1>20. CASE Announced
  BY <1>20 DEF Announced, call, text
<1>21. ASSUME NEW i \in 1..Len(calls), Begin(i) PROVE TextOK'
  BY <1>21 DEF Begin, InCall, Becomes, call, text
<1>22. ASSUME NEW i \in 1..Len(calls), Reuse(i) PROVE TextOK'
  BY <1>22 DEF Reuse, InCall, Becomes, Narrates, call, text
<1>23. ASSUME NEW i \in 1..Len(calls), Ask(i) PROVE TextOK'
  BY <1>23 DEF Ask, InCall, Becomes, Narrates, call, text
<1>24. ASSUME NEW i \in 1..Len(calls), Unasked(i) PROVE TextOK'
  BY <1>24 DEF Unasked, InCall, Becomes, call, text
<1>25. ASSUME NEW i \in 1..Len(calls), Approved(i) PROVE TextOK'
  BY <1>25 DEF Approved, InCall, Becomes, call, text
<1>26. ASSUME NEW i \in 1..Len(calls), Refused(i) PROVE TextOK'
  BY <1>26 DEF Refused, InCall, Becomes, call, text
<1>27. ASSUME NEW i \in 1..Len(calls), Works(i) PROVE TextOK'
  BY <1>27 DEF Works, InCall, Becomes, call, text
<1>28. ASSUME NEW i \in 1..Len(calls), Raises(i) PROVE TextOK'
  BY <1>28 DEF Raises, InCall, Becomes, call, text
<1>29. CASE Leave
  BY <1>29 DEF Leave, call, text
<1>30. CASE LeaveBatch
  BY <1>30 DEF LeaveBatch, call, text
<1>31. CASE Cancel
  BY <1>31 DEF Cancel, call, text
<1>32. CASE Over
  BY <1>32 DEF Over, vars, call, text
<1>33. CASE UNCHANGED vars
  BY <1>33 DEF vars, call, text
<1>. QED
  BY <1>1, <1>2, <1>3, <1>4, <1>5, <1>6, <1>7, <1>8, <1>9, <1>10, <1>11,
     <1>12, <1>13, <1>14, <1>15, <1>16, <1>17, <1>18, <1>19, <1>20, <1>21,
     <1>22, <1>23, <1>24, <1>25, <1>26, <1>27, <1>28, <1>29, <1>30, <1>31,
     <1>32, <1>33 DEF Next, Generator, OneCall

\* The calls, their workers and their rows keep their types.
LEMMA CallsKept == (CallsOK /\ ControlOK) /\ [Next]_vars => CallsOK'
<1>. SUFFICES ASSUME (CallsOK /\ ControlOK), [Next]_vars PROVE CallsOK'
  OBVIOUS
<1>. USE DEF CallsOK
<1>1. CASE OutOfSteps
  BY <1>1 DEF OutOfSteps, EndWith, call, text, Calls
<1>2. CASE StepCancelled
  BY <1>2 DEF StepCancelled, EndWith, call, text, Calls
<1>3. CASE CallModel
  BY <1>3 DEF CallModel, call, text, Calls
<1>4. CASE Delta
  BY <1>4 DEF Delta, call, text, Calls
<1>5. CASE CutShort
  BY <1>5 DEF CutShort, EndWith, call, text, Calls
<1>6. CASE AttemptFails
  BY <1>6 DEF AttemptFails, call, text, Calls
<1>7. CASE AttemptRaises
  BY <1>7 DEF AttemptRaises, call, text, Calls
<1>8. ASSUME NEW r \in Responses, Respond(r) PROVE CallsOK'
  <2>1. /\ calls' = r /\ worker' = [k \in 1..Len(r) |-> "idle"] /\ at' = 1 /\ last' = 0
        /\ answered' = <<>> /\ lost' = {} /\ signed' = signed /\ conduit' = conduit
    BY <1>8 DEF Respond
  <2>2. r \in Seq(Agents \cup {"tool"}) /\ Len(r) \in Nat
    OBVIOUS
  <2>3. answered' \in Seq(Calls')
    BY <2>1, EmptySeq
  <2>4. worker' \in [Calls' -> States]
    BY <2>1 DEF Calls, States
  <2>. QED
    BY <2>1, <2>2, <2>3, <2>4
<1>9. CASE GroupsDone
  BY <1>9 DEF GroupsDone, call, text, Calls
<1>10. CASE GroupsCancelled
  BY <1>10 DEF GroupsCancelled, call, text, Calls
<1>11. CASE UnrunRow
  <2>1. answered' = Append(answered, at) /\ at' = at + 1 /\ at <= last
    BY <1>11 DEF UnrunRow, Row
  <2>2. at \in Calls
    BY <2>1 DEF Calls
  <2>3. answered' \in Seq(Calls)
    BY <2>1, <2>2, AppendProperties
  <2>. QED
    BY <1>11, <2>1, <2>3 DEF UnrunRow, Calls
<1>12. CASE UnrunDone
  BY <1>12 DEF UnrunDone, call, text, Calls
<1>13. CASE StartGroup
  BY <1>13 DEF StartGroup, call, text, Calls
<1>14. CASE Submit
  BY <1>14 DEF Submit, call, text, Calls, States, Finished
<1>15. CASE Narrate
  BY <1>15 DEF Narrate, call, text, Calls
<1>16. CASE GroupEnds
  BY <1>16 DEF GroupEnds, call, text, Calls
<1>17. CASE SettleRow
  <2>1. answered' = Append(answered, at) /\ at' = at + 1 /\ at <= last
    BY <1>17 DEF SettleRow, Row
  <2>2. at \in Calls
    BY <2>1 DEF Calls
  <2>3. answered' \in Seq(Calls)
    BY <2>1, <2>2, AppendProperties
  <2>. QED
    BY <1>17, <2>1, <2>3 DEF SettleRow, Calls
<1>18. CASE RowFails
  <2>1. calls' = calls /\ worker' = worker /\ last' = last /\ answered' = answered
        /\ signed' = signed /\ conduit' = conduit /\ at <= last
    BY <1>18 DEF RowFails
  <2>2. at' \in {at, at + 1} /\ lost' \subseteq lost \cup (at..last)
    BY <1>18, <2>1 DEF RowFails
  <2>3. at..last \subseteq Calls
    BY DEF Calls
  <2>. QED
    BY <2>1, <2>2, <2>3 DEF Calls
<1>19. CASE Settled
  BY <1>19 DEF Settled, call, text, Calls
<1>20. CASE Announced
  BY <1>20 DEF Announced, call, text, Calls
<1>21. ASSUME NEW i \in 1..Len(calls), Begin(i) PROVE CallsOK'
  BY <1>21 DEF Begin, InCall, Becomes, call, text, Calls, States, Finished
<1>22. ASSUME NEW i \in 1..Len(calls), Reuse(i) PROVE CallsOK'
  BY <1>22 DEF Reuse, InCall, Becomes, Narrates, call, text, Calls, States, Finished
<1>23. ASSUME NEW i \in 1..Len(calls), Ask(i) PROVE CallsOK'
  BY <1>23 DEF Ask, InCall, Becomes, Narrates, call, text, Calls, States, Finished
<1>24. ASSUME NEW i \in 1..Len(calls), Unasked(i) PROVE CallsOK'
  BY <1>24 DEF Unasked, InCall, Becomes, call, text, Calls, States, Finished
<1>25. ASSUME NEW i \in 1..Len(calls), Approved(i) PROVE CallsOK'
  BY <1>25 DEF Approved, InCall, Becomes, call, text, Calls, States, Finished
<1>26. ASSUME NEW i \in 1..Len(calls), Refused(i) PROVE CallsOK'
  BY <1>26 DEF Refused, InCall, Becomes, call, text, Calls, States, Finished
<1>27. ASSUME NEW i \in 1..Len(calls), Works(i) PROVE CallsOK'
  BY <1>27 DEF Works, InCall, Becomes, call, text, Calls, States, Finished
<1>28. ASSUME NEW i \in 1..Len(calls), Raises(i) PROVE CallsOK'
  BY <1>28 DEF Raises, InCall, Becomes, call, text, Calls, States, Finished
<1>29. CASE Leave
  BY <1>29 DEF Leave, call, text, Calls
<1>30. CASE LeaveBatch
  BY <1>30 DEF LeaveBatch, call, text, Calls
<1>31. CASE Cancel
  BY <1>31 DEF Cancel, call, text, Calls
<1>32. CASE Over
  BY <1>32 DEF Over, vars, call, text, Calls
<1>33. CASE UNCHANGED vars
  BY <1>33 DEF vars, call, text, Calls
<1>. QED
  BY <1>1, <1>2, <1>3, <1>4, <1>5, <1>6, <1>7, <1>8, <1>9, <1>10, <1>11,
     <1>12, <1>13, <1>14, <1>15, <1>16, <1>17, <1>18, <1>19, <1>20, <1>21,
     <1>22, <1>23, <1>24, <1>25, <1>26, <1>27, <1>28, <1>29, <1>30, <1>31,
     <1>32, <1>33 DEF Next, Generator, OneCall

\* The group lies where the phase puts it.
LEMMA CursorKept == (Cursor /\ Closes /\ CallsOK /\ ControlOK) /\ [Next]_vars => Cursor'
<1>. SUFFICES ASSUME (Cursor /\ Closes /\ CallsOK /\ ControlOK), [Next]_vars PROVE Cursor'
  OBVIOUS
<1>. USE DEF Cursor, CallsOK, ControlOK, Ended
<1>1. CASE OutOfSteps
  BY <1>1 DEF OutOfSteps, EndWith, call, text
<1>2. CASE StepCancelled
  BY <1>2 DEF StepCancelled, EndWith, call, text
<1>3. CASE CallModel
  BY <1>3 DEF CallModel, call, text
<1>4. CASE Delta
  BY <1>4 DEF Delta, call, text
<1>5. CASE CutShort
  BY <1>5 DEF CutShort, EndWith, call, text
<1>6. CASE AttemptFails
  BY <1>6 DEF AttemptFails, call, text
<1>7. CASE AttemptRaises
  BY <1>7 DEF AttemptRaises, call, text
<1>8. ASSUME NEW r \in Responses, Respond(r) PROVE Cursor'
  BY <1>8 DEF Respond, EndWith, call, text
<1>9. CASE GroupsDone
  BY <1>9 DEF GroupsDone, call, text
<1>10. CASE GroupsCancelled
  BY <1>10 DEF GroupsCancelled, call, text
<1>11. CASE UnrunRow
  BY <1>11 DEF UnrunRow, Row, call, text
<1>12. CASE UnrunDone
  BY <1>12 DEF UnrunDone, call, text
<1>13. CASE StartGroup
  BY <1>13 DEF StartGroup, call, text
<1>14. CASE Submit
  BY <1>14 DEF Submit, call, text
<1>15. CASE Narrate
  BY <1>15 DEF Narrate, call, text
<1>16. CASE GroupEnds
  BY <1>16 DEF GroupEnds, call, text
<1>17. CASE SettleRow
  BY <1>17 DEF SettleRow, Row, call, text
<1>18. CASE RowFails
  BY <1>18 DEF RowFails, call, text
<1>19. CASE Settled
  BY <1>19 DEF Settled, call, text
<1>20. CASE Announced
  BY <1>20 DEF Announced, call, text
<1>21. ASSUME NEW i \in 1..Len(calls), Begin(i) PROVE Cursor'
  BY <1>21 DEF Begin, InCall, Becomes, call, text
<1>22. ASSUME NEW i \in 1..Len(calls), Reuse(i) PROVE Cursor'
  BY <1>22 DEF Reuse, InCall, Becomes, Narrates, call, text
<1>23. ASSUME NEW i \in 1..Len(calls), Ask(i) PROVE Cursor'
  BY <1>23 DEF Ask, InCall, Becomes, Narrates, call, text
<1>24. ASSUME NEW i \in 1..Len(calls), Unasked(i) PROVE Cursor'
  BY <1>24 DEF Unasked, InCall, Becomes, call, text
<1>25. ASSUME NEW i \in 1..Len(calls), Approved(i) PROVE Cursor'
  BY <1>25 DEF Approved, InCall, Becomes, call, text
<1>26. ASSUME NEW i \in 1..Len(calls), Refused(i) PROVE Cursor'
  BY <1>26 DEF Refused, InCall, Becomes, call, text
<1>27. ASSUME NEW i \in 1..Len(calls), Works(i) PROVE Cursor'
  BY <1>27 DEF Works, InCall, Becomes, call, text
<1>28. ASSUME NEW i \in 1..Len(calls), Raises(i) PROVE Cursor'
  BY <1>28 DEF Raises, InCall, Becomes, call, text
<1>29. CASE Leave
  BY <1>29 DEF Leave, call, text
<1>30. CASE LeaveBatch
  BY <1>30 DEF LeaveBatch, call, text
<1>31. CASE Cancel
  BY <1>31 DEF Cancel, call, text
<1>32. CASE Over
  BY <1>32 DEF Over, vars, call, text
<1>33. CASE UNCHANGED vars
  BY <1>33 DEF vars, call, text
<1>. QED
  BY <1>1, <1>2, <1>3, <1>4, <1>5, <1>6, <1>7, <1>8, <1>9, <1>10, <1>11,
     <1>12, <1>13, <1>14, <1>15, <1>16, <1>17, <1>18, <1>19, <1>20, <1>21,
     <1>22, <1>23, <1>24, <1>25, <1>26, <1>27, <1>28, <1>29, <1>30, <1>31,
     <1>32, <1>33 DEF Next, Generator, OneCall

\* A held close stays with its batch.
LEMMA ClosesKept == (Closes /\ CallsOK /\ ControlOK) /\ [Next]_vars => Closes'
<1>. SUFFICES ASSUME (Closes /\ CallsOK /\ ControlOK), [Next]_vars PROVE Closes'
  OBVIOUS
<1>. USE DEF Closes, CallsOK, ControlOK, Ended, Parallel
<1>1. CASE OutOfSteps
  BY <1>1 DEF OutOfSteps, EndWith, call, text
<1>2. CASE StepCancelled
  BY <1>2 DEF StepCancelled, EndWith, call, text
<1>3. CASE CallModel
  BY <1>3 DEF CallModel, call, text
<1>4. CASE Delta
  BY <1>4 DEF Delta, call, text
<1>5. CASE CutShort
  BY <1>5 DEF CutShort, EndWith, call, text
<1>6. CASE AttemptFails
  BY <1>6 DEF AttemptFails, call, text
<1>7. CASE AttemptRaises
  BY <1>7 DEF AttemptRaises, call, text
<1>8. ASSUME NEW r \in Responses, Respond(r) PROVE Closes'
  BY <1>8 DEF Respond, EndWith, call, text
<1>9. CASE GroupsDone
  BY <1>9 DEF GroupsDone, call, text
<1>10. CASE GroupsCancelled
  BY <1>10 DEF GroupsCancelled, call, text
<1>11. CASE UnrunRow
  BY <1>11 DEF UnrunRow, Row, call, text
<1>12. CASE UnrunDone
  BY <1>12 DEF UnrunDone, call, text
<1>13. CASE StartGroup
  BY <1>13 DEF StartGroup, call, text
<1>14. CASE Submit
  BY <1>14 DEF Submit, call, text
<1>15. CASE Narrate
  BY <1>15 DEF Narrate, call, text
<1>16. CASE GroupEnds
  BY <1>16 DEF GroupEnds, call, text
<1>17. CASE SettleRow
  BY <1>17 DEF SettleRow, Row, call, text
<1>18. CASE RowFails
  BY <1>18 DEF RowFails, call, text
<1>19. CASE Settled
  BY <1>19 DEF Settled, call, text
<1>20. CASE Announced
  BY <1>20 DEF Announced, call, text
<1>21. ASSUME NEW i \in 1..Len(calls), Begin(i) PROVE Closes'
  BY <1>21 DEF Begin, InCall, Becomes, call, text
<1>22. ASSUME NEW i \in 1..Len(calls), Reuse(i) PROVE Closes'
  BY <1>22 DEF Reuse, InCall, Becomes, Narrates, call, text
<1>23. ASSUME NEW i \in 1..Len(calls), Ask(i) PROVE Closes'
  BY <1>23 DEF Ask, InCall, Becomes, Narrates, call, text
<1>24. ASSUME NEW i \in 1..Len(calls), Unasked(i) PROVE Closes'
  BY <1>24 DEF Unasked, InCall, Becomes, call, text
<1>25. ASSUME NEW i \in 1..Len(calls), Approved(i) PROVE Closes'
  BY <1>25 DEF Approved, InCall, Becomes, call, text
<1>26. ASSUME NEW i \in 1..Len(calls), Refused(i) PROVE Closes'
  BY <1>26 DEF Refused, InCall, Becomes, call, text
<1>27. ASSUME NEW i \in 1..Len(calls), Works(i) PROVE Closes'
  BY <1>27 DEF Works, InCall, Becomes, call, text
<1>28. ASSUME NEW i \in 1..Len(calls), Raises(i) PROVE Closes'
  BY <1>28 DEF Raises, InCall, Becomes, call, text
<1>29. CASE Leave
  BY <1>29 DEF Leave, call, text
<1>30. CASE LeaveBatch
  BY <1>30 DEF LeaveBatch, call, text
<1>31. CASE Cancel
  BY <1>31 DEF Cancel, call, text
<1>32. CASE Over
  BY <1>32 DEF Over, vars, call, text
<1>33. CASE UNCHANGED vars
  BY <1>33 DEF vars, call, text
<1>. QED
  BY <1>1, <1>2, <1>3, <1>4, <1>5, <1>6, <1>7, <1>8, <1>9, <1>10, <1>11,
     <1>12, <1>13, <1>14, <1>15, <1>16, <1>17, <1>18, <1>19, <1>20, <1>21,
     <1>22, <1>23, <1>24, <1>25, <1>26, <1>27, <1>28, <1>29, <1>30, <1>31,
     <1>32, <1>33 DEF Next, Generator, OneCall

\* The rows are in the calls' order.
LEMMA InOrderKept == (InOrder /\ Closes /\ CallsOK) /\ [Next]_vars => InOrder'
<1>. SUFFICES ASSUME (InOrder /\ Closes /\ CallsOK), [Next]_vars PROVE InOrder'
  OBVIOUS
<1>. USE DEF InOrder, CallsOK
<1>1. CASE OutOfSteps
  BY <1>1 DEF OutOfSteps, EndWith, call, text
<1>2. CASE StepCancelled
  BY <1>2 DEF StepCancelled, EndWith, call, text
<1>3. CASE CallModel
  BY <1>3 DEF CallModel, call, text
<1>4. CASE Delta
  BY <1>4 DEF Delta, call, text
<1>5. CASE CutShort
  BY <1>5 DEF CutShort, EndWith, call, text
<1>6. CASE AttemptFails
  BY <1>6 DEF AttemptFails, call, text
<1>7. CASE AttemptRaises
  BY <1>7 DEF AttemptRaises, call, text
<1>8. ASSUME NEW r \in Responses, Respond(r) PROVE InOrder'
  BY <1>8 DEF Respond, EndWith, call, text
<1>9. CASE GroupsDone
  BY <1>9 DEF GroupsDone, call, text
<1>10. CASE GroupsCancelled
  BY <1>10 DEF GroupsCancelled, call, text
<1>11. CASE UnrunRow
  BY <1>11 DEF UnrunRow, Row, call, text
<1>12. CASE UnrunDone
  BY <1>12 DEF UnrunDone, call, text
<1>13. CASE StartGroup
  BY <1>13 DEF StartGroup, call, text
<1>14. CASE Submit
  BY <1>14 DEF Submit, call, text
<1>15. CASE Narrate
  BY <1>15 DEF Narrate, call, text
<1>16. CASE GroupEnds
  BY <1>16 DEF GroupEnds, call, text
<1>17. CASE SettleRow
  BY <1>17 DEF SettleRow, Row, call, text
<1>18. CASE RowFails
  BY <1>18 DEF RowFails, call, text
<1>19. CASE Settled
  BY <1>19 DEF Settled, call, text
<1>20. CASE Announced
  BY <1>20 DEF Announced, call, text
<1>21. ASSUME NEW i \in 1..Len(calls), Begin(i) PROVE InOrder'
  BY <1>21 DEF Begin, InCall, Becomes, call, text
<1>22. ASSUME NEW i \in 1..Len(calls), Reuse(i) PROVE InOrder'
  BY <1>22 DEF Reuse, InCall, Becomes, Narrates, call, text
<1>23. ASSUME NEW i \in 1..Len(calls), Ask(i) PROVE InOrder'
  BY <1>23 DEF Ask, InCall, Becomes, Narrates, call, text
<1>24. ASSUME NEW i \in 1..Len(calls), Unasked(i) PROVE InOrder'
  BY <1>24 DEF Unasked, InCall, Becomes, call, text
<1>25. ASSUME NEW i \in 1..Len(calls), Approved(i) PROVE InOrder'
  BY <1>25 DEF Approved, InCall, Becomes, call, text
<1>26. ASSUME NEW i \in 1..Len(calls), Refused(i) PROVE InOrder'
  BY <1>26 DEF Refused, InCall, Becomes, call, text
<1>27. ASSUME NEW i \in 1..Len(calls), Works(i) PROVE InOrder'
  BY <1>27 DEF Works, InCall, Becomes, call, text
<1>28. ASSUME NEW i \in 1..Len(calls), Raises(i) PROVE InOrder'
  BY <1>28 DEF Raises, InCall, Becomes, call, text
<1>29. CASE Leave
  BY <1>29 DEF Leave, call, text
<1>30. CASE LeaveBatch
  BY <1>30 DEF LeaveBatch, call, text
<1>31. CASE Cancel
  BY <1>31 DEF Cancel, call, text
<1>32. CASE Over
  BY <1>32 DEF Over, vars, call, text
<1>33. CASE UNCHANGED vars
  BY <1>33 DEF vars, call, text
<1>. QED
  BY <1>1, <1>2, <1>3, <1>4, <1>5, <1>6, <1>7, <1>8, <1>9, <1>10, <1>11,
     <1>12, <1>13, <1>14, <1>15, <1>16, <1>17, <1>18, <1>19, <1>20, <1>21,
     <1>22, <1>23, <1>24, <1>25, <1>26, <1>27, <1>28, <1>29, <1>30, <1>31,
     <1>32, <1>33 DEF Next, Generator, OneCall

\* Calls are run group by group.
LEMMA BegunKept == (Begun /\ Cursor /\ Closes /\ CallsOK /\ ControlOK) /\ [Next]_vars => Begun'
<1>. SUFFICES ASSUME (Begun /\ Cursor /\ Closes /\ CallsOK /\ ControlOK), [Next]_vars PROVE Begun'
  OBVIOUS
<1>. USE DEF Begun, CallsOK, Calls, Parallel, Finished, Cursor, Closes
<1>1. CASE OutOfSteps
  BY <1>1 DEF OutOfSteps, EndWith, call, text
<1>2. CASE StepCancelled
  BY <1>2 DEF StepCancelled, EndWith, call, text
<1>3. CASE CallModel
  BY <1>3 DEF CallModel, call, text
<1>4. CASE Delta
  BY <1>4 DEF Delta, call, text
<1>5. CASE CutShort
  BY <1>5 DEF CutShort, EndWith, call, text
<1>6. CASE AttemptFails
  BY <1>6 DEF AttemptFails, call, text
<1>7. CASE AttemptRaises
  BY <1>7 DEF AttemptRaises, call, text
<1>8. ASSUME NEW r \in Responses, Respond(r) PROVE Begun'
  BY <1>8 DEF Respond, EndWith, call, text
<1>9. CASE GroupsDone
  BY <1>9 DEF GroupsDone, call, text
<1>10. CASE GroupsCancelled
  BY <1>10 DEF GroupsCancelled, call, text
<1>11. CASE UnrunRow
  BY <1>11 DEF UnrunRow, Row, call, text
<1>12. CASE UnrunDone
  BY <1>12 DEF UnrunDone, call, text
<1>13. CASE StartGroup
  BY <1>13 DEF StartGroup, call, text
<1>14. CASE Submit
  BY <1>14 DEF Submit, call, text
<1>15. CASE Narrate
  BY <1>15 DEF Narrate, call, text
<1>16. CASE GroupEnds
  BY <1>16 DEF GroupEnds, call, text, AllFinished
<1>17. CASE SettleRow
  BY <1>17 DEF SettleRow, Row, call, text
<1>18. CASE RowFails
  BY <1>18 DEF RowFails, call, text
<1>19. CASE Settled
  BY <1>19 DEF Settled, call, text
<1>20. CASE Announced
  BY <1>20 DEF Announced, call, text
<1>21. ASSUME NEW i \in 1..Len(calls), Begin(i) PROVE Begun'
  BY <1>21 DEF Begin, InCall, Becomes, call, text
<1>22. ASSUME NEW i \in 1..Len(calls), Reuse(i) PROVE Begun'
  BY <1>22 DEF Reuse, InCall, Becomes, Narrates, call, text
<1>23. ASSUME NEW i \in 1..Len(calls), Ask(i) PROVE Begun'
  BY <1>23 DEF Ask, InCall, Becomes, Narrates, call, text
<1>24. ASSUME NEW i \in 1..Len(calls), Unasked(i) PROVE Begun'
  BY <1>24 DEF Unasked, InCall, Becomes, call, text
<1>25. ASSUME NEW i \in 1..Len(calls), Approved(i) PROVE Begun'
  BY <1>25 DEF Approved, InCall, Becomes, call, text
<1>26. ASSUME NEW i \in 1..Len(calls), Refused(i) PROVE Begun'
  BY <1>26 DEF Refused, InCall, Becomes, call, text, Moves
<1>27. ASSUME NEW i \in 1..Len(calls), Works(i) PROVE Begun'
  BY <1>27 DEF Works, InCall, Becomes, call, text, Moves
<1>28. ASSUME NEW i \in 1..Len(calls), Raises(i) PROVE Begun'
  BY <1>28 DEF Raises, InCall, Becomes, call, text, Moves
<1>29. CASE Leave
  BY <1>29 DEF Leave, call, text
<1>30. CASE LeaveBatch
  BY <1>30 DEF LeaveBatch, call, text
<1>31. CASE Cancel
  BY <1>31 DEF Cancel, call, text
<1>32. CASE Over
  BY <1>32 DEF Over, vars, call, text
<1>33. CASE UNCHANGED vars
  BY <1>33 DEF vars, call, text
<1>. QED
  BY <1>1, <1>2, <1>3, <1>4, <1>5, <1>6, <1>7, <1>8, <1>9, <1>10, <1>11,
     <1>12, <1>13, <1>14, <1>15, <1>16, <1>17, <1>18, <1>19, <1>20, <1>21,
     <1>22, <1>23, <1>24, <1>25, <1>26, <1>27, <1>28, <1>29, <1>30, <1>31,
     <1>32, <1>33 DEF Next, Generator, OneCall

\* A call behind the cursor has its row or lost it to storage.
LEMMA RecordedKept == (Recorded /\ Begun /\ InOrder /\ Closes /\ Cursor /\ CallsOK) /\ [Next]_vars => Recorded'
<1>. SUFFICES ASSUME (Recorded /\ Begun /\ InOrder /\ Closes /\ Cursor /\ CallsOK), [Next]_vars PROVE Recorded'
  OBVIOUS
<1>. USE DEF Recorded, Covered, CallsOK, Calls
<1>1. CASE OutOfSteps
  BY <1>1 DEF OutOfSteps, EndWith, call, text
<1>2. CASE StepCancelled
  BY <1>2 DEF StepCancelled, EndWith, call, text
<1>3. CASE CallModel
  BY <1>3 DEF CallModel, call, text
<1>4. CASE Delta
  BY <1>4 DEF Delta, call, text
<1>5. CASE CutShort
  BY <1>5 DEF CutShort, EndWith, call, text
<1>6. CASE AttemptFails
  BY <1>6 DEF AttemptFails, call, text
<1>7. CASE AttemptRaises
  BY <1>7 DEF AttemptRaises, call, text, Cursor
<1>8. ASSUME NEW r \in Responses, Respond(r) PROVE Recorded'
  BY <1>8 DEF Respond, EndWith, call, text
<1>9. CASE GroupsDone
  BY <1>9 DEF GroupsDone, call, text
<1>10. CASE GroupsCancelled
  BY <1>10 DEF GroupsCancelled, call, text
<1>11. CASE UnrunRow
  BY <1>11 DEF UnrunRow, Row, call, text
<1>12. CASE UnrunDone
  BY <1>12 DEF UnrunDone, call, text
<1>13. CASE StartGroup
  BY <1>13 DEF StartGroup, call, text
<1>14. CASE Submit
  BY <1>14 DEF Submit, call, text
<1>15. CASE Narrate
  BY <1>15 DEF Narrate, call, text
<1>16. CASE GroupEnds
  BY <1>16 DEF GroupEnds, call, text, AllFinished, Parallel, Begun, Finished
<1>17. CASE SettleRow
  BY <1>17 DEF SettleRow, Row, call, text
<1>18. CASE RowFails
  <2>1. calls' = calls /\ worker' = worker /\ answered' = answered /\ at <= last
    BY <1>18 DEF RowFails
  <2>2. \A k \in Calls : Covered(k) => Covered(k)'
    BY <1>18, <2>1 DEF RowFails
  <2>3. CASE closing
    <3>1. pc' = pc /\ at' = at + 1 /\ at \in lost' /\ pc = "settle"
      BY <1>18, <2>3 DEF RowFails, Closes
    <3>. QED
      BY <2>1, <2>2, <3>1
  <2>4. CASE ~closing
    <3>1. pc' = "failed" /\ at' = at /\ pc \in {"settle", "unrun"} /\ \A k \in at..last : Covered(k)'
      BY <1>18, <2>4 DEF RowFails
    <3>2. \A k \in Calls : k > last => worker[k] = "idle"
      BY <1>18, <3>1 DEF Begun, Cursor
    <3>3. \A k \in Calls : k < at \/ k \in at..last \/ k > last
      OBVIOUS
    <3>. QED
      BY <2>1, <2>2, <3>1, <3>2, <3>3
  <2>. QED
    BY <2>3, <2>4
<1>19. CASE Settled
  BY <1>19 DEF Settled, call, text, Begun
<1>20. CASE Announced
  BY <1>20 DEF Announced, call, text
<1>21. ASSUME NEW i \in 1..Len(calls), Begin(i) PROVE Recorded'
  BY <1>21 DEF Begin, InCall, Becomes, call, text
<1>22. ASSUME NEW i \in 1..Len(calls), Reuse(i) PROVE Recorded'
  BY <1>22 DEF Reuse, InCall, Becomes, Narrates, call, text
<1>23. ASSUME NEW i \in 1..Len(calls), Ask(i) PROVE Recorded'
  BY <1>23 DEF Ask, InCall, Becomes, Narrates, call, text
<1>24. ASSUME NEW i \in 1..Len(calls), Unasked(i) PROVE Recorded'
  BY <1>24 DEF Unasked, InCall, Becomes, call, text
<1>25. ASSUME NEW i \in 1..Len(calls), Approved(i) PROVE Recorded'
  BY <1>25 DEF Approved, InCall, Becomes, call, text
<1>26. ASSUME NEW i \in 1..Len(calls), Refused(i) PROVE Recorded'
  BY <1>26 DEF Refused, InCall, Becomes, call, text
<1>27. ASSUME NEW i \in 1..Len(calls), Works(i) PROVE Recorded'
  BY <1>27 DEF Works, InCall, Becomes, call, text
<1>28. ASSUME NEW i \in 1..Len(calls), Raises(i) PROVE Recorded'
  BY <1>28 DEF Raises, InCall, Becomes, call, text
<1>29. CASE Leave
  BY <1>29 DEF Leave, call, text, AtYield, Begun, Cursor, Parallel, Finished
<1>30. CASE LeaveBatch
  BY <1>30 DEF LeaveBatch, call, text
<1>31. CASE Cancel
  BY <1>31 DEF Cancel, call, text
<1>32. CASE Over
  BY <1>32 DEF Over, vars, call, text
<1>33. CASE UNCHANGED vars
  BY <1>33 DEF vars, call, text
<1>. QED
  BY <1>1, <1>2, <1>3, <1>4, <1>5, <1>6, <1>7, <1>8, <1>9, <1>10, <1>11,
     <1>12, <1>13, <1>14, <1>15, <1>16, <1>17, <1>18, <1>19, <1>20, <1>21,
     <1>22, <1>23, <1>24, <1>25, <1>26, <1>27, <1>28, <1>29, <1>30, <1>31,
     <1>32, <1>33 DEF Next, Generator, OneCall

\* One call of the group asks at a time.
LEMMA AskingKept == (Asking /\ Begun /\ CallsOK) /\ [Next]_vars => Asking'
<1>. SUFFICES ASSUME (Asking /\ Begun /\ CallsOK), [Next]_vars PROVE Asking'
  OBVIOUS
<1>. USE DEF Asking, CallsOK, Calls
<1>1. CASE OutOfSteps
  BY <1>1 DEF OutOfSteps, EndWith, call, text
<1>2. CASE StepCancelled
  BY <1>2 DEF StepCancelled, EndWith, call, text
<1>3. CASE CallModel
  BY <1>3 DEF CallModel, call, text
<1>4. CASE Delta
  BY <1>4 DEF Delta, call, text
<1>5. CASE CutShort
  BY <1>5 DEF CutShort, EndWith, call, text
<1>6. CASE AttemptFails
  BY <1>6 DEF AttemptFails, call, text
<1>7. CASE AttemptRaises
  BY <1>7 DEF AttemptRaises, call, text
<1>8. ASSUME NEW r \in Responses, Respond(r) PROVE Asking'
  BY <1>8 DEF Respond, EndWith, call, text
<1>9. CASE GroupsDone
  BY <1>9 DEF GroupsDone, call, text
<1>10. CASE GroupsCancelled
  BY <1>10 DEF GroupsCancelled, call, text
<1>11. CASE UnrunRow
  BY <1>11 DEF UnrunRow, Row, call, text
<1>12. CASE UnrunDone
  BY <1>12 DEF UnrunDone, call, text
<1>13. CASE StartGroup
  BY <1>13 DEF StartGroup, call, text
<1>14. CASE Submit
  BY <1>14 DEF Submit, call, text, Begun, Finished
<1>15. CASE Narrate
  BY <1>15 DEF Narrate, call, text
<1>16. CASE GroupEnds
  BY <1>16 DEF GroupEnds, call, text
<1>17. CASE SettleRow
  BY <1>17 DEF SettleRow, Row, call, text
<1>18. CASE RowFails
  BY <1>18 DEF RowFails, call, text
<1>19. CASE Settled
  BY <1>19 DEF Settled, call, text
<1>20. CASE Announced
  BY <1>20 DEF Announced, call, text
<1>21. ASSUME NEW i \in 1..Len(calls), Begin(i) PROVE Asking'
  BY <1>21 DEF Begin, InCall, Becomes, call, text
<1>22. ASSUME NEW i \in 1..Len(calls), Reuse(i) PROVE Asking'
  BY <1>22 DEF Reuse, InCall, Becomes, Narrates, call, text
<1>23. ASSUME NEW i \in 1..Len(calls), Ask(i) PROVE Asking'
  <2>1. i \in at..last /\ pc = "running" /\ worker[i] = "begun" /\ GateFree
    BY <1>23 DEF Ask, InCall
  <2>2. ASSUME NEW j \in Calls, worker[j] = "asking" PROVE FALSE
    <3>1. j \in at..last
      BY <2>1, <2>2 DEF Begun, Finished
    <3>2. CASE Parallel
      BY <2>1, <2>2, <3>1, <3>2 DEF GateFree
    <3>3. CASE ~Parallel
      <4>1. i = j
        BY <2>1, <3>1, <3>3 DEF Parallel
      <4>. QED
        BY <2>1, <2>2, <4>1
    <3>. QED
      BY <3>2, <3>3
  <2>3. worker' = [worker EXCEPT ![i] = "asking"] /\ UNCHANGED calls
    BY <1>23 DEF Ask, Becomes
  <2>. QED
    BY <2>2, <2>3
<1>24. ASSUME NEW i \in 1..Len(calls), Unasked(i) PROVE Asking'
  BY <1>24 DEF Unasked, InCall, Becomes, call, text
<1>25. ASSUME NEW i \in 1..Len(calls), Approved(i) PROVE Asking'
  BY <1>25 DEF Approved, InCall, Becomes, call, text
<1>26. ASSUME NEW i \in 1..Len(calls), Refused(i) PROVE Asking'
  BY <1>26 DEF Refused, InCall, Becomes, call, text
<1>27. ASSUME NEW i \in 1..Len(calls), Works(i) PROVE Asking'
  BY <1>27 DEF Works, InCall, Becomes, call, text
<1>28. ASSUME NEW i \in 1..Len(calls), Raises(i) PROVE Asking'
  BY <1>28 DEF Raises, InCall, Becomes, call, text
<1>29. CASE Leave
  BY <1>29 DEF Leave, call, text
<1>30. CASE LeaveBatch
  BY <1>30 DEF LeaveBatch, call, text
<1>31. CASE Cancel
  BY <1>31 DEF Cancel, call, text
<1>32. CASE Over
  BY <1>32 DEF Over, vars, call, text
<1>33. CASE UNCHANGED vars
  BY <1>33 DEF vars, call, text
<1>. QED
  BY <1>1, <1>2, <1>3, <1>4, <1>5, <1>6, <1>7, <1>8, <1>9, <1>10, <1>11,
     <1>12, <1>13, <1>14, <1>15, <1>16, <1>17, <1>18, <1>19, <1>20, <1>21,
     <1>22, <1>23, <1>24, <1>25, <1>26, <1>27, <1>28, <1>29, <1>30, <1>31,
     <1>32, <1>33 DEF Next, Generator, OneCall

\* An agent signed off is not asked about.
LEMMA AskedKept == (AskedOnce /\ Asking /\ Begun /\ CallsOK) /\ [Next]_vars => AskedOnce'
<1>. SUFFICES ASSUME (AskedOnce /\ Asking /\ Begun /\ CallsOK), [Next]_vars PROVE AskedOnce'
  OBVIOUS
<1>. USE DEF AskedOnce, Asking, CallsOK, Calls
<1>1. CASE OutOfSteps
  BY <1>1 DEF OutOfSteps, EndWith, call, text
<1>2. CASE StepCancelled
  BY <1>2 DEF StepCancelled, EndWith, call, text
<1>3. CASE CallModel
  BY <1>3 DEF CallModel, call, text
<1>4. CASE Delta
  BY <1>4 DEF Delta, call, text
<1>5. CASE CutShort
  BY <1>5 DEF CutShort, EndWith, call, text
<1>6. CASE AttemptFails
  BY <1>6 DEF AttemptFails, call, text
<1>7. CASE AttemptRaises
  BY <1>7 DEF AttemptRaises, call, text
<1>8. ASSUME NEW r \in Responses, Respond(r) PROVE AskedOnce'
  BY <1>8 DEF Respond, EndWith, call, text
<1>9. CASE GroupsDone
  BY <1>9 DEF GroupsDone, call, text
<1>10. CASE GroupsCancelled
  BY <1>10 DEF GroupsCancelled, call, text
<1>11. CASE UnrunRow
  BY <1>11 DEF UnrunRow, Row, call, text
<1>12. CASE UnrunDone
  BY <1>12 DEF UnrunDone, call, text
<1>13. CASE StartGroup
  BY <1>13 DEF StartGroup, call, text
<1>14. CASE Submit
  BY <1>14 DEF Submit, call, text, Begun, Finished
<1>15. CASE Narrate
  BY <1>15 DEF Narrate, call, text
<1>16. CASE GroupEnds
  BY <1>16 DEF GroupEnds, call, text
<1>17. CASE SettleRow
  BY <1>17 DEF SettleRow, Row, call, text
<1>18. CASE RowFails
  BY <1>18 DEF RowFails, call, text
<1>19. CASE Settled
  BY <1>19 DEF Settled, call, text
<1>20. CASE Announced
  BY <1>20 DEF Announced, call, text
<1>21. ASSUME NEW i \in 1..Len(calls), Begin(i) PROVE AskedOnce'
  BY <1>21 DEF Begin, InCall, Becomes, call, text
<1>22. ASSUME NEW i \in 1..Len(calls), Reuse(i) PROVE AskedOnce'
  BY <1>22 DEF Reuse, InCall, Becomes, Narrates, call, text
<1>23. ASSUME NEW i \in 1..Len(calls), Ask(i) PROVE AskedOnce'
  BY <1>23 DEF Ask, InCall, Becomes, Narrates, call, text
<1>24. ASSUME NEW i \in 1..Len(calls), Unasked(i) PROVE AskedOnce'
  BY <1>24 DEF Unasked, InCall, Becomes, call, text
<1>25. ASSUME NEW i \in 1..Len(calls), Approved(i) PROVE AskedOnce'
  BY <1>25 DEF Approved, InCall, Becomes, call, text
<1>26. ASSUME NEW i \in 1..Len(calls), Refused(i) PROVE AskedOnce'
  BY <1>26 DEF Refused, InCall, Becomes, call, text
<1>27. ASSUME NEW i \in 1..Len(calls), Works(i) PROVE AskedOnce'
  BY <1>27 DEF Works, InCall, Becomes, call, text
<1>28. ASSUME NEW i \in 1..Len(calls), Raises(i) PROVE AskedOnce'
  BY <1>28 DEF Raises, InCall, Becomes, call, text
<1>29. CASE Leave
  BY <1>29 DEF Leave, call, text
<1>30. CASE LeaveBatch
  BY <1>30 DEF LeaveBatch, call, text
<1>31. CASE Cancel
  BY <1>31 DEF Cancel, call, text
<1>32. CASE Over
  BY <1>32 DEF Over, vars, call, text
<1>33. CASE UNCHANGED vars
  BY <1>33 DEF vars, call, text
<1>. QED
  BY <1>1, <1>2, <1>3, <1>4, <1>5, <1>6, <1>7, <1>8, <1>9, <1>10, <1>11,
     <1>12, <1>13, <1>14, <1>15, <1>16, <1>17, <1>18, <1>19, <1>20, <1>21,
     <1>22, <1>23, <1>24, <1>25, <1>26, <1>27, <1>28, <1>29, <1>30, <1>31,
     <1>32, <1>33 DEF Next, Generator, OneCall

----------------------------------------------------------------------------
(* The theorems.                                                           *)

\* The invariant holds initially, every step keeps it, so it always holds.
LEMMA InitIInv == ASSUME Init PROVE IInv
<1>. USE DEF Init
<1>1. calls \in Seq(Agents \cup {"tool"}) /\ Len(calls) = 0 /\ answered \in Seq(Calls) /\ Len(answered) = 0
  BY EmptySeq
<1>2. worker \in [Calls -> States]
  BY <1>1 DEF Calls
<1>3. CallsOK
  BY <1>1, <1>2 DEF CallsOK
<1>4. ControlOK /\ TextOK
  <2>1. ControlOK
    BY DEF ControlOK, Ended
  <2>2. TextOK
    BY DEF TextOK
  <2>. QED
    BY <2>1, <2>2
<1>5. Cursor /\ Closes /\ InOrder
  BY <1>1 DEF Cursor, Closes, InOrder
<1>6. Calls = {}
  BY <1>1 DEF Calls
<1>7. Begun /\ Recorded /\ Asking
  BY <1>6 DEF Begun, Recorded, Asking
<1>8. KeptIsShown /\ AskedOnce
  BY DEF KeptIsShown, AskedOnce
<1>. QED
  BY <1>3, <1>4, <1>5, <1>7, <1>8 DEF IInv

THEOREM Inductive == Spec => []IInv
<1>1. Init => IInv
  BY InitIInv
<1>2. IInv /\ [Next]_vars => IInv'
  BY ControlKept, ShownKept, TextKept, CallsKept, CursorKept, ClosesKept, InOrderKept,
     BegunKept, RecordedKept, AskingKept, AskedKept DEF IInv
<1>. QED
  BY <1>1, <1>2, PTL DEF Spec

\* The control and the counters of the turn, its calls and their workers have
\* their types.
THEOREM TypesHold == Spec => []TurnTypeOK
<1>1. ASSUME IInv PROVE TurnTypeOK
  BY <1>1 DEF IInv, ControlOK, TextOK, CallsOK, TurnTypeOK, Calls, States, Finished
<1>. QED
  BY <1>1, Inductive, PTL

\* Before the model is called again, and at the end of a turn within its token
\* budget, every call has one row, in the model's order.
THEOREM ThreadIsPaired == Spec => []TurnIsPaired
<1>1. ASSUME IInv PROVE TurnIsPaired
  <2>1. SUFFICES ASSUME pc \in {"boundary", "stream"} \/ (pc = "done" /\ stop # "token_budget_exceeded")
                 PROVE AllAnswered
    BY DEF TurnIsPaired
  <2>2. at = Len(calls) + 1 /\ ~closing /\ Len(calls) \in Nat
    BY <1>1, <2>1 DEF IInv, Cursor, Closes, CallsOK
  <2>3. Len(answered) = Len(calls) /\ \A n \in 1..Len(calls) : answered[n] = n
    BY <1>1, <2>2 DEF IInv, InOrder
  <2>4. answered \in [1..Len(answered) -> Calls]
    BY <1>1, LenProperties DEF IInv, CallsOK
  <2>5. answered = [n \in 1..Len(calls) |-> answered[n]]
    BY <2>3, <2>4
  <2>. QED
    BY <2>3, <2>5 DEF AllAnswered
<1>. QED
  BY <1>1, Inductive, PTL

\* Once its group has settled, and however the turn ends, a call that ran or
\* was refused has its row unless storage refused it.
THEOREM WorkIsRecorded == Spec => []RanIsRecorded
<1>1. ASSUME IInv PROVE RanIsRecorded
  BY <1>1 DEF IInv, CallsOK, Begun, Recorded, Covered, Finished, RanIsRecorded, Calls
<1>. QED
  BY <1>1, Inductive, PTL

\* The consumer holds no text of an attempt thrown away, and the thread keeps
\* what a finished step has shown.
THEOREM TextIsShown == Spec => []KeptIsShown
<1>1. IInv => KeptIsShown
  BY DEF IInv
<1>. QED
  BY <1>1, Inductive, PTL

\* No agent already signed off is being asked about.
THEOREM OneQuestion == Spec => []AskedOnce
<1>1. IInv => AskedOnce
  BY DEF IInv
<1>. QED
  BY <1>1, Inductive, PTL
================================================================================
