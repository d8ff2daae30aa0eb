---------------------------- MODULE RunRecord ----------------------------
(***************************************************************************)
(* What the stored row of a research run promises whoever reads it, live   *)
(* or years later (core/reasoning/pipeline_storage.py): it is "running"    *)
(* until the run ends in one of two ways, a finished row has a report, and *)
(* a report in the row was written from the claims in the same row.        *)
(***************************************************************************)
CONSTANT None                   \* no report yet
VARIABLES status, claims, report
recordVars == <<status, claims, report>>

Statuses == {"running", "complete", "failed"}

(* The report is represented by the claims it was written from. *)
Agrees == report \in {None, claims}

Init == status = "running" /\ report = None

(* A snapshot: the claims move on while there is no report, and with it    *)
(* once there is one.                                                      *)
Snapshot == /\ status = "running"
            /\ status' \in Statuses
            /\ report # None => report' # None
            /\ report' \in {None, claims'}
            /\ status' = "complete" => report' # None

Spec == Init /\ [][Snapshot]_recordVars
=============================================================================
