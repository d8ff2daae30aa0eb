------------------------- MODULE MCSubagentSessions -------------------------
(* Small instances of SubagentSessions: one child, two sessions.           *)
EXTENDS SubagentSessions, TLC

CONSTANTS s1, s2, child

OwnersOfOne == s1 :> child @@ s2 :> child
MonitorAndBackground == s1 :> "monitor" @@ s2 :> "background"
=============================================================================
