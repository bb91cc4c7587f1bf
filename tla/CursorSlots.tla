----------------------------- MODULE CursorSlots ----------------------------
(***************************************************************************)
(* What the cursor ids promise to the reader of a TUIO stream: each cursor *)
(* has an id of its own for as long as it lives, and the ids stay small.   *)
(* An id above all others is given out only when every smaller one is in   *)
(* use.                                                                    *)
(*                                                                         *)
(* There is no free list, no counter and no reuse rule here: those are how *)
(* TuioServer and TuioClient keep the promise.                             *)
(***************************************************************************)
EXTENDS CursorPool

CONSTANT Cursors       \* the session ids that cursors have

VARIABLE held          \* the living cursors, with their ids

Gaps == 0..GreatestId(held) \ Ids(held)

\* The ids that a new cursor may get.
Offered == IF Gaps # {} THEN Gaps ELSE {GreatestId(held) + 1}

Init == held = EmptyMap

Appear(s) ==
  /\ s \notin DOMAIN held
  /\ \E id \in Offered : held' = With(held, s, id)

Vanish(s) ==
  /\ s \in DOMAIN held
  /\ held' = Without(held, {s})

Next == \E s \in Cursors : Appear(s) \/ Vanish(s)

Spec == Init /\ [][Next]_held
=============================================================================
