--------------------------- MODULE SessionReports ---------------------------
(***************************************************************************)
(* What the SessionManager promises of each session, whatever its kind and *)
(* whoever stops it: a session that starts ends, its end is told to its    *)
(* conversation at most once, and no session starts once the manager is    *)
(* closing.  How a session ends and which of the three routes its report   *)
(* takes (a wake, the user's next message, the result of the agent's own   *)
(* kill) is left to the detailed specification, ShellSessions.             *)
(***************************************************************************)
CONSTANT Sessions

VARIABLES phase, accepting

Init == /\ phase = [s \in Sessions |-> "idle"]
        /\ accepting = TRUE

Begin(s) == /\ accepting /\ phase[s] = "idle"
            /\ phase' = [phase EXCEPT ![s] = "live"]
            /\ UNCHANGED accepting

\* The backend could not run it; its caller has the exception.
Refuse(s) == /\ phase[s] = "live"
             /\ phase' = [phase EXCEPT ![s] = "refused"]
             /\ UNCHANGED accepting

\* It ended, and its report is owed.
End(s) == /\ phase[s] = "live"
          /\ phase' = [phase EXCEPT ![s] = "owed"]
          /\ UNCHANGED accepting

\* One delivery tells a whole batch.
Tell(batch) == /\ \A s \in batch : phase[s] = "owed"
               /\ phase' = [s \in Sessions |-> IF s \in batch THEN "told" ELSE phase[s]]
               /\ UNCHANGED accepting

Shut == accepting /\ accepting' = FALSE /\ UNCHANGED phase

Next == \/ \E s \in Sessions : Begin(s) \/ Refuse(s) \/ End(s)
        \/ \E batch \in (SUBSET Sessions) \ {{}} : Tell(batch)
        \/ Shut

Spec == Init /\ [][Next]_<<phase, accepting>>

FairSpec == Spec /\ \A s \in Sessions : WF_<<phase, accepting>>(Refuse(s) \/ End(s))
=============================================================================
