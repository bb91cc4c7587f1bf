------------------------------- MODULE MCClient -----------------------------
(***************************************************************************)
(* The client alone, with any bundles: lost, duplicated and reordered ones *)
(* and those of a restarted sender are among them.                         *)
(***************************************************************************)
EXTENDS TuioClient
=============================================================================
