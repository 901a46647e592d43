---------------------------- MODULE MCEvidenceContext ---------------------------
(* The data directory with a content of an old week, one of a later week   *)
(* and a fixture.                                                          *)
EXTENDS EvidenceContext, TLC

CONSTANTS a, b, f

MCCovers == (a :> 0) @@ (b :> 2) @@ (f :> 0)
================================================================================
