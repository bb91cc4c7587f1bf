---------------------------- MODULE MCServerFrames --------------------------
(***************************************************************************)
(* The server under its documented use, with both profiles at once and     *)
(* with containers of the application, for what its messages tell and for  *)
(* its session ids.                                                        *)
(***************************************************************************)
EXTENDS TuioServerFrames
=============================================================================
