---------------------------- MODULE MCReviewStage ----------------------------
EXTENDS ReviewStage
CONSTANTS c1, c2, unknown

Entry(k, c, p) == [kind |-> k, claim |-> c, proposed |-> p]

(* Two wordings for one claim, a tier for it, a correction of the other    *)
(* claim, a note with and one without a stray claim, and two entries that  *)
(* cannot be applied.                                                      *)
MCRaw == {Entry("text", c1, "t1"), Entry("text", c1, "t2"), Entry("tier", c1, "LOW"),
          Entry("text", c2, "t1"), Entry("synthesis", "report", "n1"),
          Entry("synthesis", c2, "n1"), Entry("text", unknown, "t1"),
          Entry("tier", c2, "t1")}
=============================================================================
