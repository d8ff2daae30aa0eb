---------------------------- MODULE MCCompaction ----------------------------
(* A small instance of Compaction: small and large messages. *)
EXTENDS Compaction
=============================================================================
