------------------------------ MODULE MCThreads -----------------------------
(***************************************************************************)
(* A program with a client and a server that sends full messages: the      *)
(* threads of both, which share nothing, side by side.                     *)
(***************************************************************************)
EXTENDS TuioClientThreads

CONSTANT Threads

VARIABLES periodic, thread

P == INSTANCE TuioPeriodic

serverVars == <<periodic, thread>>

BothInit == Init /\ P!Init

BothSpec ==
  /\ BothInit
  /\ [][\/ Next /\ UNCHANGED serverVars
        \/ P!Next /\ UNCHANGED vars]_<<vars, serverVars>>
  /\ Fairness /\ P!Fairness

SendsAgain == P!SendsAgain
Subsides == P!Subsides
=============================================================================
