---------------------------- MODULE MCThermitrack ---------------------------
(***************************************************************************)
(* The thermitrack application with a small camera and few cursors.  No    *)
(* definition prefers a point or an address over another.                  *)
(***************************************************************************)
EXTENDS Thermitrack

Symmetry == Permutations(Points) \cup Permutations(Cursors)
=============================================================================
