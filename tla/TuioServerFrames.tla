--------------------------- MODULE TuioServerFrames -------------------------
(***************************************************************************)
(* A TuioServer that is used as its documentation says (TuioServer.h,      *)
(* "server->initFrame(TuioTime::getSessionTime()) ... commitFrame()"):     *)
(* what the tracker reports is reported between initFrame and commitFrame. *)
(* Full messages are sent, and modes are switched, at any time.            *)
(*                                                                         *)
(* told is what the messages say: the content of a receiver that gets      *)
(* every bundle in order and does as the TUIO protocol asks.               *)
(***************************************************************************)
EXTENDS TuioServer

VARIABLES
  inFrame,   \* between initFrame and commitFrame
  told       \* what the bundles sent so far say: per profile, session -> content

frameSpecVars == <<vars, inFrame, told>>

\* What a receiver that was told t knows after the bundles bs of one call: the
\* sessions of the last alive message, each with its last content.
Hear(t, bs) ==
  IF DOMAIN bs = {} THEN t
  ELSE LET setIn(s) == {i \in DOMAIN bs : s \in DOMAIN bs[i].sets}
           setAny   == UNION {DOMAIN bs[i].sets : i \in DOMAIN bs}
       IN  [s \in bs[Greatest(DOMAIN bs)].alive \cap (DOMAIN t \cup setAny) |->
              IF s \in setAny THEN bs[Greatest(setIn(s))].sets[s] ELSE t[s]]

FramesInit ==
  /\ Init
  /\ inFrame = FALSE
  /\ told = [p \in Profiles |-> EmptyMap]

FramesNext ==
  /\ \/ ~inFrame /\ BeginFrame  /\ inFrame' = TRUE
     \/  inFrame /\ Change      /\ inFrame' = TRUE
     \/  inFrame /\ CommitFrame /\ inFrame' = FALSE
     \/  Control /\ UNCHANGED inFrame
  /\ told' = [p \in Profiles |-> Hear(told[p], out'[p])]

FramesSpec == FramesInit /\ [][FramesNext]_frameSpecVars

-----------------------------------------------------------------------------
Contents(l) == [s \in DOMAIN l |-> Content(l[s])]

(***************************************************************************)
(* After commitFrame the messages sent so far say exactly what the server  *)
(* has, for every mode (full_update or changes alone), however many        *)
(* packets the frame took, and with heartbeats and full messages of the    *)
(* periodic thread at any point in between.                                *)
(***************************************************************************)
CommitTellsAll ==
  ~inFrame /\ connected => \A p \in Profiles : told[p] = Contents(list[p])

(***************************************************************************)
(* Why: during a frame, what was not told yet was touched in this frame    *)
(* and is marked for sending.                                              *)
(***************************************************************************)
OnlyNewsUntold ==
  connected =>
    \A p \in Profiles :
      /\ \A s \in DOMAIN list[p] :
           \/ s \in DOMAIN told[p] /\ told[p][s] = Content(list[p][s])
           \/ inFrame /\ update[p] /\ s \in Touched(p)
      /\ DOMAIN told[p] \subseteq DOMAIN list[p] \/ (inFrame /\ update[p])
=============================================================================
