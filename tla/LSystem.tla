------------------------------- MODULE LSystem ------------------------------
(***************************************************************************)
(* The interpreter of LSystem.cpp: a turtle that expands letters by their  *)
(* rules while it walks, and keeps no stack but the one of its own         *)
(* recursion.  A rule is a sequence of one-character strings.              *)
(*                                                                         *)
(* Angles are quarters of a turn, there is no noise, and every expansion   *)
(* halves the step; lengths are given in steps of the deepest level.       *)
(***************************************************************************)
EXTENDS Integers, SequencesExt

CONSTANT Rules   \* the letters that have a rule, with their rules

Letters == {"f", "g", "x"}
Digits  == {"2", "3"}
Value(c) == IF c = "2" THEN 2 ELSE 3

\* A letter without a rule stands for itself (its stub).
RuleOf(c) == IF c \in DOMAIN Rules THEN Rules[c] ELSE <<c>>

\* pos, a and s of the code, and the lines of the mesh.
Turtle(depth) == [pos |-> <<0, 0>>, a |-> 0, s |-> 2 ^ depth, mesh |-> <<>>]

Ahead(t) ==
  CASE t.a = 0 -> <<t.pos[1], t.pos[2] - t.s>>
    [] t.a = 1 -> <<t.pos[1] + t.s, t.pos[2]>>
    [] t.a = 2 -> <<t.pos[1], t.pos[2] + t.s>>
    [] t.a = 3 -> <<t.pos[1] - t.s, t.pos[2]>>

\* The commands that move: 'f' and '|' draw, 'g' does not, other letters do nothing.
Moved(t, c) ==
  IF c \notin {"f", "g", "|"} THEN t
  ELSE [t EXCEPT !.pos = Ahead(t),
                 !.mesh = IF c = "g" THEN @ ELSE Append(@, <<t.pos, Ahead(t)>>)]

\* '+' and '-' turn by num angles, by one if no number was given.
Turned(t, c, num) ==
  LET n == IF num = 0 THEN 1 ELSE num
  IN  [t EXCEPT !.a = (IF c = "+" THEN @ + n ELSE @ - n) % 4]

Nesting(c) == CASE c = "[" -> 1 [] c = "]" -> -1 [] OTHER -> 0

\* Slip (see README, mutants): the first closing bracket ends the gobbling.
GobbledFirst(rule, i) ==
  CHOOSE j \in (i + 1)..Len(rule) :
    rule[j] = "]" /\ \A k \in (i + 1)..(j - 1) : rule[k] # "]"

\* The index at which the gobbling that begins at the '[' at i ends: where the
\* brackets are balanced for the first time.
Gobbled(rule, i) ==
  LET open(j) == FoldSeq(LAMBDA c, n : Nesting(c) + n, 0, SubSeq(rule, i, j))
  IN  CHOOSE j \in (i + 1)..Len(rule) :
        open(j) = 0 /\ \A k \in (i + 1)..(j - 1) : open(k) # 0

\* The loop of compute_figure from index i on; num is local to one call.
RECURSIVE Interpret(_, _, _, _, _)
Interpret(rule, i, d, num, t) ==
  IF i > Len(rule) THEN t
  ELSE LET c    == rule[i]
           call(r, e, u) == Interpret(r, 1, e, 0, u)
       IN  CASE c \in Letters /\ d > 0 ->
                  Interpret(rule, i + 1, d, num,
                            [call(RuleOf(c), d - 1, [t EXCEPT !.s = @ \div 2]) EXCEPT !.s = t.s])
             [] (c = "|") \/ (c \in Letters /\ d = 0) ->
                  Interpret(rule, i + 1, d, num, Moved(t, c))
             [] c \in Digits -> Interpret(rule, i + 1, d, 10 * num + Value(c), t)
             [] c \in {"+", "-"} -> Interpret(rule, i + 1, d, 0, Turned(t, c, num))
             [] c = "[" ->
                  Interpret(rule, Gobbled(rule, i) + 1, d, 0,
                            [call(SubSeq(rule, i + 1, Len(rule)), d, t) EXCEPT
                               !.pos = t.pos, !.a = t.a, !.s = t.s])
             [] c = "]" -> t

\* make(): the lines of the figure.
Figure(axiom, depth) == Interpret(axiom, 1, depth, 0, Turtle(depth)).mesh

-----------------------------------------------------------------------------
(***************************************************************************)
(* What an L-system with brackets is: the axiom is expanded first, and the *)
(* result, in which every symbol carries the level it comes from, is then  *)
(* drawn by a turtle with a stack.                                         *)
(***************************************************************************)
RECURSIVE Expansion(_, _)
Expansion(word, d) ==
  FlattenSeq([i \in DOMAIN word |->
    IF word[i] \in Letters /\ d > 0 THEN Expansion(RuleOf(word[i]), d - 1)
    ELSE <<[c |-> word[i], level |-> d]>>])

Draw(symbol, v) ==
  LET c == symbol.c
      t == [v.turtle EXCEPT !.s = 2 ^ symbol.level]
  IN  CASE c \in Digits -> [v EXCEPT !.num = 10 * @ + Value(c)]
        [] c \in {"+", "-"} -> [v EXCEPT !.turtle = Turned(t, c, v.num), !.num = 0]
        [] c = "[" -> [v EXCEPT !.stack = <<<<t.pos, t.a>>>> \o @]
        [] c = "]" -> [v EXCEPT !.turtle = [t EXCEPT !.pos = v.stack[1][1],
                                                     !.a = v.stack[1][2]],
                                !.stack = Tail(@)]
        [] OTHER -> [v EXCEPT !.turtle = Moved(t, c)]

DrawnExpansion(axiom, depth) ==
  FoldLeft(LAMBDA v, symbol : Draw(symbol, v),
           [turtle |-> Turtle(depth), num |-> 0, stack |-> <<>>],
           Expansion(axiom, depth)).turtle.mesh

\* Words whose brackets are balanced and whose numbers stand before a sign; the
\* code reads past the end of a word with an open bracket.
WellFormed(word) ==
  LET open(j) == FoldSeq(LAMBDA c, n : Nesting(c) + n, 0, SubSeq(word, 1, j))
  IN  /\ \A j \in DOMAIN word : open(j) >= 0
      /\ open(Len(word)) = 0
      /\ \A j \in DOMAIN word : word[j] \in Digits =>
           j < Len(word) /\ word[j + 1] \in {"+", "-"} \cup Digits

\* The recursive walk draws the lines of the expanded word, in the same order:
\* scale, position, angle and number are what they should be after every return
\* from an expansion or a bracket, however these are nested.
FigureIsExpansion(axiom, depth) == Figure(axiom, depth) = DrawnExpansion(axiom, depth)
=============================================================================
