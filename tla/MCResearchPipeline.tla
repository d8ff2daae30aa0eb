------------------------- MODULE MCResearchPipeline -------------------------
(* A run of two claims, named in the configuration.                       *)
EXTENDS ResearchPipeline

CONSTANTS c1, c2
=============================================================================
