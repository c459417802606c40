--------------------------- MODULE MCDistribution ---------------------------
(***************************************************************************)
(* Distribution on small instances.                                        *)
(***************************************************************************)
EXTENDS Distribution
=============================================================================
