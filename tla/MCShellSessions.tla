-------------------------- MODULE MCShellSessions --------------------------
(* Small instances of ShellSessions: two sessions of one conversation that *)
(* has a user; SubagentSessions has the instances of one that has none.    *)
EXTENDS ShellSessions, TLC

CONSTANTS s1, s2, chat

\* Two sessions of one conversation: one inbox, one wake count.
OwnersOfOne == s1 :> chat @@ s2 :> chat
MonitorAndBackground == s1 :> "monitor" @@ s2 :> "background"
BackgroundAndShell == s1 :> "background" @@ s2 :> "interactive"
=============================================================================
