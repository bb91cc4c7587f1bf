----------------------------- MODULE EdgesBox2d -----------------------------
(***************************************************************************)
(* The EdgesBox2d sketch (testApp.cpp): strokes of the mouse become edges  *)
(* of a physics world; the key space saves the strokes to lines.txt, which *)
(* the next start turns into edges.  The boxes and the sound that shakes   *)
(* them are left out: they share no state with the lines.                  *)
(***************************************************************************)
EXTENDS Integers, SequencesExt

CONSTANTS
  Places,      \* of the window
  MaxVertices, \* bound: vertices of a stroke
  MaxEdges     \* bound: edges in the world

ASSUME EdgesAssumption == MaxVertices \in Nat \ {0} /\ MaxEdges \in Nat

VARIABLES
  mode,    \* "off", "running", or "undefined" after back() of an empty vector
  lines,   \* the strokes since the start, the last save and the last clear
  edges,   \* the edges that were made of strokes or of lines of the file
  stroke,  \* a mouse button is held
  saved    \* lines.txt, which exists; the lines that were written to it

edgesVars == <<mode, lines, edges, stroke, saved>>

EdgesInit ==
  /\ mode = "off" /\ lines = <<>> /\ edges = <<>> /\ stroke = FALSE
  /\ saved = <<>>

\* ofPolyline::simplify may leave out vertices between the first and the last.
Simplified(line) ==
  LET Kept(indices) == [i \in DOMAIN indices |-> line[indices[i]]]
  IN  {Kept(SetToSortSeq(S, <)) :
         S \in {T \in SUBSET DOMAIN line : {1, Len(line)} \subseteq T}}

MousePressed(p) ==
  /\ mode = "running" /\ ~ stroke
  /\ Len(edges) < MaxEdges
  /\ lines' = Append(lines, <<p>>)
  /\ stroke' = TRUE
  /\ UNCHANGED <<mode, edges, saved>>

MouseDragged(p) ==
  /\ mode = "running" /\ stroke /\ lines # <<>>
  /\ Len(Last(lines)) < MaxVertices
  /\ lines' = Append(Front(lines), Append(Last(lines), p))
  /\ UNCHANGED <<mode, edges, stroke, saved>>

\* Slip (see README, mutants): the edge is made before the line is simplified.
MouseReleasedUnsimplified ==
  /\ mode = "running" /\ stroke /\ lines # <<>>
  /\ \E line \in Simplified(Last(lines)) : lines' = Append(Front(lines), line)
  /\ edges' = Append(edges, Last(lines))
  /\ stroke' = FALSE
  /\ UNCHANGED <<mode, saved>>

MouseReleased ==
  /\ mode = "running" /\ stroke /\ lines # <<>>
  /\ \E line \in Simplified(Last(lines)) :
       /\ lines' = Append(Front(lines), line)
       /\ edges' = Append(edges, line)
  /\ stroke' = FALSE
  /\ UNCHANGED <<mode, saved>>

\* mouseDragged and mouseReleased after a key has emptied the lines.
UseMissingLine ==
  /\ mode = "running" /\ stroke /\ lines = <<>>
  /\ mode' = "undefined"
  /\ UNCHANGED <<lines, edges, stroke, saved>>

\* The key c.
ClearLines ==
  /\ mode = "running"
  /\ lines' = <<>> /\ edges' = <<>>
  /\ UNCHANGED <<mode, stroke, saved>>

\* The key space: also a stroke that is not finished is saved, and what was
\* saved before is gone.  The mouse is at whole numbers, which are written and
\* read without loss.
SaveLines ==
  /\ mode = "running"
  /\ saved' = lines
  /\ lines' = <<>>
  /\ UNCHANGED <<mode, edges, stroke>>

\* setup(): what follows the last end of line becomes an edge without vertices.
LoadLines ==
  /\ mode = "off"
  /\ Len(saved) < MaxEdges
  /\ mode' = "running"
  /\ edges' = Append(saved, <<>>)
  /\ UNCHANGED <<lines, stroke, saved>>

Quit ==
  /\ mode # "off"
  /\ mode' = "off" /\ lines' = <<>> /\ edges' = <<>> /\ stroke' = FALSE
  /\ UNCHANGED saved

EdgesNext ==
  \/ \E p \in Places : MousePressed(p) \/ MouseDragged(p)
  \/ MouseReleased \/ UseMissingLine \/ ClearLines \/ SaveLines \/ LoadLines \/ Quit

EdgesSpec == EdgesInit /\ [][EdgesNext]_edgesVars

-----------------------------------------------------------------------------
\* The strokes that the key space will save are, in their order and as they
\* were simplified, the last edges of the world: a restart brings back what was
\* there (mouseReleased, keyPressed).
LinesAreEdges ==
  mode = "running" =>
    IsSuffix(IF stroke /\ lines # <<>> THEN Front(lines) ELSE lines, edges)
=============================================================================
