--------------------------- MODULE MCTuiSessions ---------------------------
(* Small instances of TuiSessions: one conversation, two sessions.         *)
EXTENDS TuiSessions, TLC

CONSTANTS s1, s2, chat

OwnersOfOne == s1 :> chat @@ s2 :> chat
TwoBackground == s1 :> "background" @@ s2 :> "background"
=============================================================================
