---------------------------- MODULE MCHttpCache ----------------------------
(***************************************************************************)
(* HttpCache on small instances.                                           *)
(***************************************************************************)
EXTENDS HttpCache
=============================================================================
