---------------------------- MODULE ThreadArchive ----------------------------
(***************************************************************************)
(* What a conversation thread promises the rest of the harness (storage.py *)
(* MessageLog and CompactionCheckpoint): an archive that only grows, and a *)
(* watermark over it, behind which the model is shown a summary.  A row is *)
(* never edited or removed, and the watermark only moves forward, to a row *)
(* the archive has.                                                        *)
(***************************************************************************)
EXTENDS Naturals, Sequences

CONSTANT Row

VARIABLES
  log,     \* the rows, oldest first
  hidden   \* how many of them the live checkpoint covers

Init == log = <<>> /\ hidden = 0

Write == \E r \in Row : log' = Append(log, r) /\ UNCHANGED hidden

Cover ==
  /\ hidden' \in hidden + 1 .. Len(log)
  /\ UNCHANGED log

Next == Write \/ Cover

Spec == Init /\ [][Next]_<<log, hidden>>
=============================================================================
