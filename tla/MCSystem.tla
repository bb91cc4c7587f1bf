------------------------------- MODULE MCSystem -----------------------------
(***************************************************************************)
(* One server and one client over a network that keeps every packet, that  *)
(* loses packets, and that lets those of one profile overtake the other's. *)
(***************************************************************************)
EXTENDS TuioSystem
=============================================================================
