----------------------------- MODULE MCSketches -----------------------------
(***************************************************************************)
(* Parts that stand alone, in one run: a behaviour is one of the animator, *)
(* of the edges or of the clock, or begins with one input for the L-system *)
(* and has nothing to do.                                                  *)
(***************************************************************************)
EXTENDS VectorAnimator, EdgesBox2d, LSystem, TuioTime

CONSTANT MaxLength   \* bound: the length of axioms

VARIABLE input

Symbols == {"f", "g", "x", "+", "-", "2", "[", "]", "|"}

MCRules == [f |-> <<"f", "[", "-", "g", "[", "f", "]", "f", "]", "+", "|">>,
            x |-> <<"2", "+", "f", "x">>]

Words == {w \in UNION {[1..n -> Symbols] : n \in 1..MaxLength} : WellFormed(w)}

MCInstants == {1, 999, 1000, 500000, 999999, 1000000, 1500998}

SketchesInit ==
  /\ AnimatorInit /\ EdgesInit /\ ClockInit
  /\ \/ input = [topic |-> "animator"]
     \/ input = [topic |-> "edges"]
     \/ input = [topic |-> "clock"]
     \/ \E w \in Words, d \in 0..2 : input = [topic |-> "lsystem", axiom |-> w, depth |-> d]
  /\ input.topic = "clock" \/ now = 1

SketchesNext ==
  \/ input.topic = "animator" /\ AnimatorNext /\ UNCHANGED <<edgesVars, clockVars, input>>
  \/ input.topic = "edges" /\ EdgesNext /\ UNCHANGED <<animatorVars, clockVars, input>>
  \/ input.topic = "clock" /\ ClockNext /\ UNCHANGED <<animatorVars, edgesVars, input>>

SketchesSpec ==
  SketchesInit /\ [][SketchesNext]_<<animatorVars, edgesVars, clockVars, input>>

FiguresAreExpansions ==
  input.topic = "lsystem" => FigureIsExpansion(input.axiom, input.depth)
=============================================================================
