----------------------------- MODULE CursorPool -----------------------------
(***************************************************************************)
(* Allocation of cursor ids, the algorithm that TuioServer::addTuioCursor  *)
(* and removeTuioCursor share with the 2Dcur branch of                     *)
(* TuioClient::ProcessMessage.                                             *)
(*                                                                         *)
(* A pool is the allocation state of either class, as a record:            *)
(*   active  the cursors of cursorList, as a function from session ids to  *)
(*           cursor ids                                                    *)
(*   free    the cursors of freeCursorList, removed but kept so that their *)
(*           id can be given to a new cursor nearby, as a function from    *)
(*           any names for them to their cursor ids                        *)
(*   max     maxCursorID, -1 when no id is in use                          *)
(* Positions are not part of a pool: which free cursor is the closest one  *)
(* to the new point depends on them, so any free cursor may be.            *)
(***************************************************************************)
EXTENDS Integers, FiniteSets

(***************************************************************************)
(* Partial functions.                                                      *)
(***************************************************************************)
EmptyMap == [x \in {} |-> x]

\* f extended (or overridden) at s.
With(f, s, v) == [t \in DOMAIN f \cup {s} |-> IF t = s THEN v ELSE f[t]]

\* f without the sessions of S.
Without(f, S) == [t \in DOMAIN f \ S |-> f[t]]

\* The cursor ids that f assigns.
Ids(f) == {f[s] : s \in DOMAIN f}

IsInjection(f) == \A s, t \in DOMAIN f : f[s] = f[t] => s = t

-----------------------------------------------------------------------------
EmptyPool == [active |-> EmptyMap, free |-> EmptyMap, max |-> -1]

\* Slip (see README, mutants): one cursor too few for reuse.
ReusesLate(p) == Cardinality(DOMAIN p.active) < p.max /\ DOMAIN p.free # {}

\* A free id is given out again only while fewer cursors are active than
\* ids have been handed out.
Reuses(p) == Cardinality(DOMAIN p.active) <= p.max /\ DOMAIN p.free # {}

\* Slip (see README, mutants): a stale greatest id survives.
AddCursorKeepingMax(p, s) ==
  IF Reuses(p)
    THEN {[p EXCEPT !.active = With(@, s, p.free[c]), !.free = Without(@, {c})] :
            c \in DOMAIN p.free}
    ELSE LET id == Cardinality(DOMAIN p.active)
         IN  {[p EXCEPT !.active = With(@, s, id),
                        !.max = IF id > @ THEN id ELSE @]}

\* The pools that adding a cursor with session id s can lead to.
AddCursor(p, s) ==
  IF Reuses(p)
    THEN {[active |-> With(p.active, s, p.free[c]),
           free   |-> Without(p.free, {c}),
           max    |-> p.max] : c \in DOMAIN p.free}
    ELSE LET id == Cardinality(DOMAIN p.active)
         IN  {[active |-> With(p.active, s, id), free |-> p.free, max |-> id]}

Greatest(S) == CHOOSE m \in S : \A n \in S : n <= m

\* The greatest cursor id that f assigns, -1 if f is empty.
GreatestId(f) == IF DOMAIN f = {} THEN -1 ELSE Greatest(Ids(f))

\* Slip (see README, mutants): the free list is not trimmed.
RemoveCursorUntrimmed(p, s, k) ==
  LET id   == p.active[s]
      rest == Without(p.active, {s})
  IN  [active |-> rest,
       free   |-> IF id < p.max THEN With(p.free, k, id) ELSE p.free,
       max    |-> IF id = p.max THEN GreatestId(rest) ELSE p.max]

\* Slip (see README, mutants): the removed cursor is not kept for reuse.
RemoveCursorForgotten(p, s, k) ==
  LET rest == Without(p.active, {s})
      top  == GreatestId(rest)
  IN  IF p.active[s] = p.max
        THEN [active |-> rest,
              free   |-> Without(p.free, {c \in DOMAIN p.free : p.free[c] > top}),
              max    |-> top]
        ELSE [p EXCEPT !.active = rest]

\* The pool that removing the active cursor with session id s leads to.
\* Removing the cursor with the greatest id deletes it together with the
\* free cursors above the new greatest id; a cursor below it becomes free,
\* under the name k.
RemoveCursor(p, s, k) ==
  LET id   == p.active[s]
      rest == Without(p.active, {s})
      top  == GreatestId(rest)
  IN  IF id = p.max
        THEN [active |-> rest,
              free   |-> Without(p.free, {c \in DOMAIN p.free : p.free[c] > top}),
              max    |-> top]
        ELSE [active |-> rest,
              free   |-> IF id < p.max THEN With(p.free, k, id) ELSE p.free,
              max    |-> p.max]

-----------------------------------------------------------------------------
\* A cursor that the application owns enters or leaves cursorList without
\* touching the allocation state.
AddExternal(p, s, id) == [p EXCEPT !.active = With(@, s, id)]

RemoveExternal(p, s) == [p EXCEPT !.active = Without(@, {s})]

-----------------------------------------------------------------------------
IsPool(p) ==
  /\ p = [active |-> p.active, free |-> p.free, max |-> p.max]
  /\ p.active = [s \in DOMAIN p.active |-> p.active[s]]
  /\ p.free = [s \in DOMAIN p.free |-> p.free[s]]
  /\ \A s \in DOMAIN p.active : p.active[s] \in Nat
  /\ \A s \in DOMAIN p.free : p.free[s] \in Nat
  /\ p.max \in Nat \cup {-1}

(***************************************************************************)
(* What makes the allocation correct: active and free cursors hold         *)
(* distinct ids, together exactly 0..max, and the greatest id is held by   *)
(* an active cursor.                                                       *)
(***************************************************************************)
PoolConsistent(p) ==
  /\ IsInjection(p.active)
  /\ IsInjection(p.free)
  /\ Ids(p.active) \cap Ids(p.free) = {}
  /\ Ids(p.active) \cup Ids(p.free) = 0..p.max
  /\ p.max # -1 => p.max \in Ids(p.active)
=============================================================================
