------------------------------- MODULE MCServer -----------------------------
(***************************************************************************)
(* The server alone, with the calls that change its lists in any order,    *)
(* for its cursor ids: objects and objects of the application take session *)
(* ids but no cursor ids.  The calls left out, CommitFrame and those of    *)
(* Control, leave the lists and the ids alone and only send messages.      *)
(***************************************************************************)
EXTENDS TuioServer

ListSpec == Init /\ [][Change \/ BeginFrame]_vars
=============================================================================
