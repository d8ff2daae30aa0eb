--------------------------- MODULE MCChatgptAuth ---------------------------
(* A small instance of ChatgptAuth: a process of two threads, and another. *)
EXTENDS ChatgptAuth, TLC

CONSTANTS a1, a2, b

TwoProcesses == a1 :> "A" @@ a2 :> "A" @@ b :> "B"
=============================================================================
