---------------------------- MODULE MCMcpClient ----------------------------
(* Four entries, the second disabled and the third auto-approved.  Two of them *)
(* compose one name they share and one of their own; the last offers nothing. *)
EXTENDS McpClient

MCOffers == [s \in 1 .. 4 |->
    CASE s = 1 -> {"shared", "first"}
      [] s = 3 -> {"shared", "second"}
      [] OTHER -> {}]

============================================================================
