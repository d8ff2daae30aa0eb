--------------------------- MODULE MCCliSessions ---------------------------
(* Small instances of CliSessions: one conversation, two sessions.         *)
EXTENDS CliSessions, TLC

CONSTANTS s1, s2, chat

OwnersOfOne == s1 :> chat @@ s2 :> chat
TwoBackground == s1 :> "background" @@ s2 :> "background"
=============================================================================
