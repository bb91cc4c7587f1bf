------------------------- MODULE ThermitrackProofs --------------------------
(***************************************************************************)
(* The thermitrack application never uses a pointer that it remembers to a *)
(* cursor that was deleted, without sticky cursors it removes each cursor  *)
(* once, and it never gets back one that it forgot, for any number of      *)
(* points and cursors and however tracked points, the mouse and the random *)
(* signal alternate.                                                       *)
(***************************************************************************)
EXTENDS Thermitrack, FiniteSetTheorems, TLAPS

USE ThermitrackAssumption

(***************************************************************************)
(* A value of touch, with the cursors at the addresses that there are.     *)
(***************************************************************************)
IsTouch(t) ==
  /\ t = [mem |-> t.mem, list |-> t.list, free |-> t.free, max |-> t.max,
          cursor |-> t.cursor, sticky |-> t.sticky, broken |-> t.broken]
  /\ Memory(t) \subseteq Cursors

\* The remembered cursor is allocated, and on the list or sticky.
Alive(t) ==
  ~ t.broken /\ t.cursor # None =>
    t.cursor \in Memory(t) /\ t.cursor \in Live(t) \cup Sticky(t)

\* The cursors that are forgotten, and what becomes of them when t becomes u.
Lost(t) == (Live(t) \cap Memory(t)) \ (Free(t) \cup {t.cursor} \cup Sticky(t))

Keeps(t, u) == \A c \in Lost(t) : c \in Lost(u) /\ u.mem[c] = t.mem[c]

LEMMA KeepsAll ==
  /\ \A t : Keeps(t, t)
  /\ \A t, u, v : Keeps(t, u) /\ Keeps(u, v) => Keeps(t, v)
  BY DEF Keeps

-----------------------------------------------------------------------------
\* One copy more, or one copy less, in a bag.
LEMMA BagPlus ==
  ASSUME NEW B, NEW c
  PROVE  /\ BagToSet(B (+) SetToBag({c})) = BagToSet(B) \cup {c}
         /\ \A d \in BagToSet(B) \ {c} : B[d] = 1 => (B (+) SetToBag({c}))[d] = 1
         /\ c \notin BagToSet(B) => (B (+) SetToBag({c}))[c] = 1
  BY DEF BagToSet, SetToBag, (+)

LEMMA BagMinus ==
  ASSUME NEW B, NEW c
  PROVE  /\ BagToSet(B (-) SetToBag({c})) \subseteq BagToSet(B)
         /\ \A d \in BagToSet(B (-) SetToBag({c})) \ {c} : (B (-) SetToBag({c}))[d] = B[d]
         /\ B[c] = 1 => c \notin BagToSet(B (-) SetToBag({c}))
  BY DEF BagToSet, SetToBag, (-)

LEMMA WithoutFacts ==
  ASSUME NEW f, NEW S
  PROVE  /\ DOMAIN Without(f, S) = DOMAIN f \ S
         /\ \A d \in DOMAIN f \ S : Without(f, S)[d] = f[d]
  BY DEF Without

-----------------------------------------------------------------------------
\* What the functions of server and application do to a value of touch.
LEMMA CrashedFacts ==
  ASSUME NEW t, IsTouch(t)
  PROVE  LET u == Crashed(t)
         IN  /\ IsTouch(u) /\ u.broken
             /\ u.mem = t.mem /\ u.list = t.list /\ u.free = t.free /\ u.max = t.max
             /\ u.cursor = t.cursor /\ u.sticky = t.sticky
             /\ Alive(u) /\ Keeps(t, u)
<1> DEFINE yes == TRUE
           u == Crashed(t)
<1>1. u = [t EXCEPT !.broken = yes]
  BY DEF Crashed
<1>2. yes
  OBVIOUS
<1> HIDE DEF yes
<1>3. /\ u = [mem |-> t.mem, list |-> t.list, free |-> t.free, max |-> t.max,
              cursor |-> t.cursor, sticky |-> t.sticky, broken |-> yes]
  BY <1>1 DEF IsTouch
<1> HIDE DEF u
<1>4. /\ u.mem = t.mem /\ u.list = t.list /\ u.free = t.free /\ u.max = t.max
      /\ u.cursor = t.cursor /\ u.sticky = t.sticky /\ u.broken = yes
  BY <1>3
<1>5. IsTouch(u)
  BY <1>3, <1>4 DEF IsTouch, Memory
<1>6. u.broken
  BY <1>2, <1>4
<1>7. Alive(u)
  BY <1>6 DEF Alive
<1>8. Keeps(t, u)
  BY <1>4 DEF Keeps, Lost, Live, Free, Memory, Sticky
<1> QED
  BY <1>4, <1>5, <1>6, <1>7, <1>8 DEF u

LEMMA PlacedFacts ==
  ASSUME NEW t, IsTouch(t), NEW id, NEW what, NEW u \in Placed(t, id, what)
  PROVE  /\ IsTouch(u)
         /\ u.cursor \in Cursors \ Memory(t)
         /\ Memory(u) = Memory(t) \cup {u.cursor}
         /\ u.mem[u.cursor] = [id |-> id, shows |-> what]
         /\ \A d \in Memory(t) : u.mem[d] = t.mem[d]
         /\ Live(u) = Live(t) \cup {u.cursor}
         /\ u.free = t.free /\ u.sticky = t.sticky /\ u.broken = t.broken
<1>1. PICK c \in Cursors \ Memory(t) :
        u = [t EXCEPT !.mem = With(@, c, [id |-> id, shows |-> what]),
                      !.list = @ (+) SetToBag({c}), !.cursor = c]
  BY DEF Placed
<1> DEFINE new == [id |-> id, shows |-> what]
           mem == With(t.mem, c, new)
           list == t.list (+) SetToBag({c})
<1> HIDE DEF new
<1>2. /\ DOMAIN mem = DOMAIN t.mem \cup {c} /\ mem[c] = new
      /\ \A d \in DOMAIN t.mem \ {c} : mem[d] = t.mem[d]
  BY DEF With
<1>3. BagToSet(list) = BagToSet(t.list) \cup {c}
  BY BagPlus
<1> HIDE DEF mem, list
<1>4. u = [mem |-> mem, list |-> list, free |-> t.free, max |-> t.max,
           cursor |-> c, sticky |-> t.sticky, broken |-> t.broken]
  BY <1>1 DEF IsTouch, new, mem, list
<1>5. /\ u.mem = mem /\ u.list = list /\ u.free = t.free /\ u.max = t.max
      /\ u.cursor = c /\ u.sticky = t.sticky /\ u.broken = t.broken
  BY <1>4
<1>6. IsTouch(u)
  BY <1>2, <1>4, <1>5 DEF IsTouch, Memory
<1> QED
  BY <1>2, <1>3, <1>5, <1>6 DEF Memory, Live, new

\* A new cursor is at an address of its own; it takes the place of a free one at most.
LEMMA AddedFacts ==
  ASSUME NEW t, IsTouch(t), NEW what, NEW u \in Added(t, what)
  PROVE  /\ IsTouch(u) /\ u.sticky = t.sticky /\ Keeps(t, u)
         /\ \/ u = Crashed(t) /\ ~ Free(t) \subseteq Memory(t)
            \/ /\ u.cursor \in Memory(u) \cap Live(u) /\ u.broken = t.broken
               /\ Live(u) = Live(t) \cup {u.cursor}
               /\ u.mem[u.cursor].shows = what
<1>1. ASSUME NEW v, IsTouch(v), NEW id, u \in Placed(v, id, what),
             v.list = t.list, v.sticky = t.sticky, v.cursor = t.cursor, v.broken = t.broken,
             Free(v) \subseteq Free(t), Memory(t) \ Free(t) \subseteq Memory(v),
             \A d \in Memory(v) : v.mem[d] = t.mem[d]
      PROVE  /\ IsTouch(u) /\ u.sticky = t.sticky /\ Keeps(t, u)
             /\ u.cursor \in Memory(u) \cap Live(u) /\ u.broken = t.broken
             /\ Live(u) = Live(t) \cup {u.cursor}
             /\ u.mem[u.cursor].shows = what
  <2>1. /\ IsTouch(u)
        /\ u.cursor \in Cursors \ Memory(v)
        /\ Memory(u) = Memory(v) \cup {u.cursor}
        /\ u.mem[u.cursor] = [id |-> id, shows |-> what]
        /\ \A d \in Memory(v) : u.mem[d] = v.mem[d]
        /\ Live(u) = Live(v) \cup {u.cursor}
        /\ u.free = v.free /\ u.sticky = v.sticky /\ u.broken = v.broken
    BY <1>1, PlacedFacts
  <2>2. Live(v) = Live(t) /\ Sticky(u) = Sticky(t) /\ Free(u) = Free(v)
    BY <1>1, <2>1 DEF Live, Sticky, Free
  <2>3. u.mem[u.cursor].shows = what
    BY <2>1
  <2>4. Keeps(t, u)
    <3> SUFFICES ASSUME NEW d \in Lost(t) PROVE d \in Lost(u) /\ u.mem[d] = t.mem[d]
      BY DEF Keeps
    <3>1. d \in Memory(v) /\ d # u.cursor
      BY <1>1, <2>1 DEF Lost
    <3> QED
      BY <1>1, <2>1, <2>2, <3>1 DEF Lost
  <2> QED
    BY <1>1, <2>1, <2>2, <2>3, <2>4
<1> DEFINE size == BagCardinality(t.list)
<1>2. CASE size > t.max \/ Free(t) = {}
  <2> DEFINE v == [t EXCEPT !.max = size]
  <2>1. u \in Placed(v, size, what)
    BY <1>2 DEF Added
  <2> HIDE DEF size
  <2>2. /\ v = [mem |-> t.mem, list |-> t.list, free |-> t.free, max |-> size,
                cursor |-> t.cursor, sticky |-> t.sticky, broken |-> t.broken]
    BY DEF IsTouch
  <2> HIDE DEF v
  <2>3. /\ v.mem = t.mem /\ v.list = t.list /\ v.free = t.free /\ v.max = size
        /\ v.cursor = t.cursor /\ v.sticky = t.sticky /\ v.broken = t.broken
    BY <2>2
  <2>4. IsTouch(v)
    BY <2>2, <2>3 DEF IsTouch, Memory
  <2>5. Free(v) = Free(t) /\ Memory(v) = Memory(t)
    BY <2>3 DEF Free, Memory
  <2> QED
    BY <1>1, <2>1, <2>3, <2>4, <2>5
<1>3. CASE ~ (size > t.max \/ Free(t) = {}) /\ ~ Free(t) \subseteq Memory(t)
  <2>1. u = Crashed(t)
    BY <1>3 DEF Added
  <2> QED
    BY <1>3, <2>1, CrashedFacts
<1>4. CASE ~ (size > t.max \/ Free(t) = {}) /\ Free(t) \subseteq Memory(t)
  <2>1. PICK f \in Free(t) :
          u \in Placed([Deleted(t, f) EXCEPT !.free = @ (-) SetToBag({f})], t.mem[f].id, what)
    BY <1>4 DEF Added
  <2> DEFINE mem == Without(t.mem, {f})
             free == t.free (-) SetToBag({f})
             v == [Deleted(t, f) EXCEPT !.free = @ (-) SetToBag({f})]
  <2>2. DOMAIN mem = DOMAIN t.mem \ {f} /\ \A d \in DOMAIN t.mem \ {f} : mem[d] = t.mem[d]
    BY WithoutFacts
  <2>3. BagToSet(free) \subseteq BagToSet(t.free)
    BY BagMinus
  <2>4. u \in Placed(v, t.mem[f].id, what)
    BY <2>1
  <2> HIDE DEF mem
  <2>5. Deleted(t, f) = [mem |-> mem, list |-> t.list, free |-> t.free, max |-> t.max,
                         cursor |-> t.cursor, sticky |-> t.sticky, broken |-> t.broken]
    BY DEF IsTouch, Deleted, mem
  <2> HIDE DEF free
  <2>6. v = [mem |-> mem, list |-> t.list, free |-> free, max |-> t.max,
             cursor |-> t.cursor, sticky |-> t.sticky, broken |-> t.broken]
    BY <2>5 DEF free
  <2> HIDE DEF v
  <2>7. /\ v.mem = mem /\ v.list = t.list /\ v.free = free /\ v.max = t.max
        /\ v.cursor = t.cursor /\ v.sticky = t.sticky /\ v.broken = t.broken
    BY <2>6
  <2>8. IsTouch(v)
    BY <2>2, <2>6, <2>7 DEF IsTouch, Memory
  <2>9. /\ Free(v) \subseteq Free(t) /\ Memory(t) \ Free(t) \subseteq Memory(v)
        /\ \A d \in Memory(v) : v.mem[d] = t.mem[d]
    BY <2>2, <2>3, <2>7 DEF Free, Memory
  <2> QED
    BY <1>1, <2>4, <2>7, <2>8, <2>9
<1> QED
  BY <1>2, <1>3, <1>4

\* Removal touches the removed cursor and the free ones alone.
LEMMA RemovedFacts ==
  ASSUME NEW t, IsTouch(t), NEW c
  PROVE  LET u == Removed(t, c)
         IN  /\ IsTouch(u) /\ u.cursor = t.cursor /\ u.sticky = t.sticky
             /\ Live(t) \ {c} \subseteq Live(u) /\ Live(u) \subseteq Live(t)
             /\ Free(u) \subseteq Free(t) \cup {c}
             /\ Memory(t) \ (Free(t) \cup {c}) \subseteq Memory(u)
             /\ \A d \in Memory(t) \ (Free(t) \cup {c}) : u.mem[d] = t.mem[d]
<1> DEFINE u == Removed(t, c)
           rest == Without(t.list, {c})
           top  == GreatestId([d \in DOMAIN rest |-> t.mem[d].id])
           cut  == {f \in Free(t) : t.mem[f].id > top}
<1>1. CASE c = None
  <2>1. u = t
    BY <1>1 DEF Removed
  <2> QED
    BY <2>1
<1>2. DOMAIN rest = DOMAIN t.list \ {c}
  BY WithoutFacts
<1>3. CASE c # None /\ c \in Memory(t) /\ t.mem[c].id # t.max
  <2> DEFINE none == None
             mem == [t.mem EXCEPT ![c].shows = none]
             more == t.free (+) SetToBag({c})
             free == IF t.mem[c].id < t.max THEN more ELSE t.free
  <2>1. u = [t EXCEPT !.list = rest, !.mem = mem, !.free = free]
    BY <1>3 DEF Removed
  <2> HIDE DEF none
  <2>2. DOMAIN mem = DOMAIN t.mem /\ \A d \in DOMAIN t.mem \ {c} : mem[d] = t.mem[d]
    OBVIOUS
  <2>3. BagToSet(more) = BagToSet(t.free) \cup {c}
    BY BagPlus
  <2> HIDE DEF more
  <2>4. BagToSet(free) \subseteq BagToSet(t.free) \cup {c}
    BY <2>3
  <2> HIDE DEF u, mem, free, rest
  <2>5. u = [mem |-> mem, list |-> rest, free |-> free, max |-> t.max,
             cursor |-> t.cursor, sticky |-> t.sticky, broken |-> t.broken]
    BY <2>1 DEF IsTouch
  <2>6. /\ u.mem = mem /\ u.list = rest /\ u.free = free /\ u.max = t.max
        /\ u.cursor = t.cursor /\ u.sticky = t.sticky /\ u.broken = t.broken
    BY <2>5
  <2>7. IsTouch(u)
    BY <2>2, <2>5, <2>6 DEF IsTouch, Memory
  <2> QED
    BY <1>2, <2>2, <2>4, <2>6, <2>7 DEF Live, Free, Memory, BagToSet, u
<1>4. CASE /\ c # None /\ c \in Memory(t) /\ t.mem[c].id = t.max
           /\ DOMAIN rest \cup Free(t) \subseteq Memory(t) \ {c}
           /\ \A f \in cut : t.free[f] = 1
  <2> DEFINE mem == Without(t.mem, cut \cup {c})
             free == Without(t.free, cut)
  <2>1. u = [t EXCEPT !.list = rest, !.mem = mem, !.free = free, !.max = top]
    BY <1>4 DEF Removed
  <2>2. cut \subseteq Free(t)
    OBVIOUS
  <2> HIDE DEF u, rest, top, cut
  <2>3. /\ DOMAIN mem = DOMAIN t.mem \ (cut \cup {c})
        /\ \A d \in DOMAIN t.mem \ (cut \cup {c}) : mem[d] = t.mem[d]
    BY WithoutFacts
  <2>4. DOMAIN free = DOMAIN t.free \ cut
    BY WithoutFacts
  <2> HIDE DEF mem, free
  <2>5. u = [mem |-> mem, list |-> rest, free |-> free, max |-> top,
             cursor |-> t.cursor, sticky |-> t.sticky, broken |-> t.broken]
    BY <2>1 DEF IsTouch
  <2>6. /\ u.mem = mem /\ u.list = rest /\ u.free = free /\ u.max = top
        /\ u.cursor = t.cursor /\ u.sticky = t.sticky /\ u.broken = t.broken
    BY <2>5
  <2>7. IsTouch(u)
    BY <2>3, <2>5, <2>6 DEF IsTouch, Memory
  <2> QED
    BY <1>2, <2>2, <2>3, <2>4, <2>6, <2>7 DEF Live, Free, Memory, BagToSet, u
<1>5. CASE /\ c # None
           /\ c \in Memory(t) /\ t.mem[c].id = t.max =>
                ~ (/\ DOMAIN rest \cup Free(t) \subseteq Memory(t) \ {c}
                   /\ \A f \in cut : t.free[f] = 1)
           /\ c \in Memory(t) => t.mem[c].id = t.max
  <2>1. u = Crashed(t)
    BY <1>5 DEF Removed
  <2>2. /\ IsTouch(u) /\ u.cursor = t.cursor /\ u.sticky = t.sticky
        /\ u.mem = t.mem /\ u.list = t.list /\ u.free = t.free
    BY <2>1, CrashedFacts
  <2> QED
    BY <2>2 DEF Live, Free, Memory
<1> QED
  BY <1>1, <1>3, <1>4, <1>5

LEMMA Reassigned ==
  ASSUME NEW t, IsTouch(t), NEW cursor, NEW sticky
  PROVE  [t EXCEPT !.sticky = sticky, !.cursor = cursor] =
           [mem |-> t.mem, list |-> t.list, free |-> t.free, max |-> t.max,
            cursor |-> cursor, sticky |-> sticky, broken |-> t.broken]
<1> DEFINE c == cursor
           s == sticky
           v == [t EXCEPT !.sticky = s]
<1> HIDE DEF c, s
<1>1. v = [mem |-> t.mem, list |-> t.list, free |-> t.free, max |-> t.max,
           cursor |-> t.cursor, sticky |-> s, broken |-> t.broken]
  BY DEF IsTouch
<1>2. [t EXCEPT !.sticky = s, !.cursor = c] = [v EXCEPT !.cursor = c]
  OBVIOUS
<1> HIDE DEF v
<1>3. [v EXCEPT !.cursor = c] =
        [mem |-> t.mem, list |-> t.list, free |-> t.free, max |-> t.max,
         cursor |-> c, sticky |-> s, broken |-> t.broken]
  BY <1>1
<1> QED
  BY <1>2, <1>3 DEF c, s

\* The remembered cursor, or a sticky one that is taken off its list as well, is
\* removed and nothing is remembered.
LEMMA ForgottenFacts ==
  ASSUME NEW t, IsTouch(t), NEW c \in {t.cursor, None} \cup Sticky(t),
         NEW sticky, {sticky[i] : i \in DOMAIN sticky} \subseteq Sticky(t),
         NEW r, r = t \/ r = Removed(t, c)
  PROVE  LET u == [r EXCEPT !.sticky = sticky, !.cursor = None]
         IN  IsTouch(u) /\ Alive(u) /\ Keeps(t, u)
<1> DEFINE none == None
           u == [r EXCEPT !.sticky = sticky, !.cursor = none]
<1>1. /\ IsTouch(r) /\ r.sticky = t.sticky
      /\ Live(t) \ {c} \subseteq Live(r) /\ Free(r) \subseteq Free(t) \cup {c}
      /\ Memory(t) \ (Free(t) \cup {c}) \subseteq Memory(r)
      /\ \A d \in Memory(t) \ (Free(t) \cup {c}) : r.mem[d] = t.mem[d]
  <2>1. CASE r = t
    BY <2>1
  <2>2. CASE r = Removed(t, c)
    BY <2>2, RemovedFacts
  <2> QED
    BY <2>1, <2>2
<1>2. none = None
  OBVIOUS
<1> HIDE DEF none
<1>3. u = [mem |-> r.mem, list |-> r.list, free |-> r.free, max |-> r.max,
           cursor |-> none, sticky |-> sticky, broken |-> r.broken]
  BY <1>1, Reassigned
<1> HIDE DEF u
<1>4. /\ u.mem = r.mem /\ u.list = r.list /\ u.free = r.free /\ u.max = r.max
      /\ u.cursor = none /\ u.sticky = sticky /\ u.broken = r.broken
  BY <1>3
<1>5. IsTouch(u)
  <2>1. Memory(u) \subseteq Cursors
    BY <1>1, <1>4 DEF IsTouch, Memory
  <2> QED
    BY <1>3, <1>4, <2>1 DEF IsTouch
<1>6. Alive(u)
  BY <1>2, <1>4 DEF Alive
<1>7. Keeps(t, u)
  <2> SUFFICES ASSUME NEW d \in Lost(t) PROVE d \in Lost(u) /\ u.mem[d] = t.mem[d]
    BY DEF Keeps
  <2>1. /\ d \in Live(t) /\ d \in Memory(t) /\ d \in Cursors
        /\ d \notin Free(t) /\ d \notin Sticky(t) /\ d # t.cursor
    BY DEF Lost, IsTouch
  <2>2. d # None /\ d # c
    BY <2>1
  <2>3. d \in Live(r) /\ d \in Memory(r) /\ d \notin Free(r) /\ r.mem[d] = t.mem[d]
    BY <1>1, <2>1, <2>2
  <2>4. d \notin Sticky(u)
    BY <1>4, <2>1 DEF Sticky
  <2> QED
    BY <1>2, <1>4, <2>2, <2>3, <2>4 DEF Lost, Live, Free, Memory
<1> QED
  BY <1>2, <1>5, <1>6, <1>7 DEF u

\* What the application makes of these keeps the remembered cursor usable, and does
\* not touch those that are forgotten.
Works(t, u) == IsTouch(u) /\ Alive(u) /\ Keeps(t, u)

LEMMA ForgetsWorks ==
  ASSUME NEW t, IsTouch(t), NEW k PROVE Works(t, Forgets(t, k))
<1>1. CASE ReadsDeleted(t, k)
  BY <1>1, CrashedFacts DEF Forgets, Works
<1>2. CASE ~ ReadsDeleted(t, k)
  <2> DEFINE r == IF k = 0 THEN Removed(t, t.cursor) ELSE t
  <2>1. Forgets(t, k) = [r EXCEPT !.cursor = None]
    BY <1>2 DEF Forgets
  <2>2. IsTouch(r) /\ r.sticky = t.sticky
    BY RemovedFacts
  <2>3. r = t \/ r = Removed(t, t.cursor)
    OBVIOUS
  <2> HIDE DEF r
  <2>4. [r EXCEPT !.cursor = None] = [r EXCEPT !.sticky = t.sticky, !.cursor = None]
    BY <2>2 DEF IsTouch
  <2>5. {t.sticky[i] : i \in DOMAIN t.sticky} \subseteq Sticky(t)
    BY DEF Sticky
  <2>6. /\ IsTouch([r EXCEPT !.sticky = t.sticky, !.cursor = None])
        /\ Alive([r EXCEPT !.sticky = t.sticky, !.cursor = None])
        /\ Keeps(t, [r EXCEPT !.sticky = t.sticky, !.cursor = None])
    BY <2>3, <2>5, ForgottenFacts
  <2> QED
    BY <2>1, <2>4, <2>6 DEF Works
<1> QED
  BY <1>1, <1>2

LEMMA ReleasedWorks ==
  ASSUME NEW t, IsTouch(t), Alive(t), NEW place, NEW u \in Released(t, place)
  PROVE  Works(t, u)
  BY ForgetsWorks, KeepsAll DEF Released, Works

LEMMA AddedWorks ==
  ASSUME NEW t, IsTouch(t), NEW what, NEW u \in Added(t, what)
  PROVE  Works(t, u)
<1>1. CASE u = Crashed(t)
  BY <1>1, CrashedFacts DEF Works
<1>2. CASE u.cursor \in Memory(u) \cap Live(u)
  BY <1>2, AddedFacts DEF Works, Alive
<1> QED
  BY <1>1, <1>2, AddedFacts

LEMMA AddedStickyWorks ==
  ASSUME NEW t, IsTouch(t), NEW u \in AddedSticky(t)
  PROVE  Works(t, u)
<1>1. PICK v \in Added(t, Mouse) :
        u = IF v.broken THEN v ELSE [v EXCEPT !.sticky = With(@, NextPlace(t), v.cursor)]
  BY DEF AddedSticky
<1>2. Works(t, v)
  BY AddedWorks
<1>3. CASE v.broken
  BY <1>1, <1>2, <1>3
<1>4. CASE ~ v.broken
  <2> DEFINE sticky == With(v.sticky, NextPlace(t), v.cursor)
  <2>1. u = [v EXCEPT !.sticky = sticky]
    BY <1>1, <1>4
  <2>2. \A i \in DOMAIN sticky : sticky[i] \in Sticky(v) \cup {v.cursor}
    BY DEF With, Sticky
  <2>3. v.cursor \in Memory(v) \cap Live(v)
    <3>1. v.sticky = t.sticky /\ (v = Crashed(t) \/ v.cursor \in Memory(v) \cap Live(v))
      BY AddedFacts
    <3>2. v # Crashed(t)
      BY <1>4, CrashedFacts
    <3> QED
      BY <3>1, <3>2
  <2> HIDE DEF sticky
  <2>4. u = [mem |-> v.mem, list |-> v.list, free |-> v.free, max |-> v.max,
             cursor |-> v.cursor, sticky |-> sticky, broken |-> v.broken]
    BY <1>2, <2>1 DEF Works, IsTouch
  <2>5. /\ u.mem = v.mem /\ u.list = v.list /\ u.free = v.free /\ u.max = v.max
        /\ u.cursor = v.cursor /\ u.sticky = sticky /\ u.broken = v.broken
    BY <2>4
  <2>6. Memory(u) = Memory(v) /\ Live(u) = Live(v) /\ Free(u) = Free(v)
    BY <2>5 DEF Memory, Live, Free
  <2>7. IsTouch(u)
    BY <1>2, <2>4, <2>5, <2>6 DEF Works, IsTouch
  <2>8. Alive(u)
    BY <2>3, <2>5, <2>6 DEF Alive
  <2>9. Sticky(u) \subseteq Sticky(v) \cup {v.cursor}
    BY <2>2, <2>5 DEF Sticky
  <2>10. Keeps(v, u)
    BY <2>5, <2>6, <2>9 DEF Keeps, Lost
  <2> QED
    BY <1>2, <2>7, <2>8, <2>10, KeepsAll DEF Works
<1> QED
  BY <1>3, <1>4

LEMMA PressedWorks ==
  ASSUME NEW t, IsTouch(t), NEW k \in DOMAIN t.sticky \cup {0}, NEW button,
         NEW u \in Pressed(t, k, button)
  PROVE  Works(t, u)
<1>1. CASE ReadsDeleted(t, k)
  BY <1>1, CrashedFacts DEF Pressed, Works
<1>2. CASE ~ ReadsDeleted(t, k) /\ k # 0 /\ button = 2
  <2> DEFINE match == t.sticky[k]
             left == {i \in DOMAIN t.sticky : t.sticky[i] = match}
             sticky == Without(t.sticky, left)
             r == Removed(t, match)
  <2>1. match \in Sticky(t)
    BY <1>2 DEF Sticky
  <2>2. {sticky[i] : i \in DOMAIN sticky} \subseteq Sticky(t)
    BY DEF Sticky, Without
  <2>3. r.sticky = t.sticky
    BY RemovedFacts
  <2>4. u = [r EXCEPT !.sticky = sticky, !.cursor = None]
    BY <1>2, <2>3 DEF Pressed
  <2> HIDE DEF sticky, match
  <2> QED
    BY <2>1, <2>2, <2>4, ForgottenFacts DEF Works
<1>3. CASE ~ ReadsDeleted(t, k) /\ k # 0 /\ button # 2
  <2>1. t.sticky[k] \in Sticky(t) /\ t.sticky[k] \in Memory(t)
    <3>1. t.sticky[k] \in Reads(t, k)
      BY <1>3 DEF Reads
    <3> QED
      BY <1>3, <3>1 DEF ReadsDeleted, Sticky
  <2>2. u = [t EXCEPT !.cursor = t.sticky[k]]
    BY <1>3 DEF Pressed
  <2>3. u = [mem |-> t.mem, list |-> t.list, free |-> t.free, max |-> t.max,
             cursor |-> t.sticky[k], sticky |-> t.sticky, broken |-> t.broken]
    BY <2>2 DEF IsTouch
  <2>4. /\ u.mem = t.mem /\ u.list = t.list /\ u.free = t.free /\ u.max = t.max
        /\ u.cursor = t.sticky[k] /\ u.sticky = t.sticky /\ u.broken = t.broken
    BY <2>3
  <2>5. Memory(u) = Memory(t) /\ Live(u) = Live(t) /\ Free(u) = Free(t) /\ Sticky(u) = Sticky(t)
    BY <2>4 DEF Memory, Live, Free, Sticky
  <2>6. IsTouch(u)
    BY <2>3, <2>4, <2>5 DEF IsTouch
  <2>7. Alive(u)
    BY <2>1, <2>4, <2>5 DEF Alive
  <2>8. Keeps(t, u)
    BY <2>1, <2>4, <2>5 DEF Keeps, Lost
  <2> QED
    BY <2>6, <2>7, <2>8 DEF Works
<1>4. CASE ~ ReadsDeleted(t, k) /\ k = 0 /\ button = 2
  BY <1>4, AddedStickyWorks DEF Pressed
<1>5. CASE ~ ReadsDeleted(t, k) /\ k = 0 /\ button # 2
  BY <1>5, AddedWorks DEF Pressed
<1> QED
  BY <1>1, <1>2, <1>3, <1>4, <1>5

LEMMA MatchesArePlaces ==
  ASSUME NEW t, NEW place, NEW k \in Matches(t, place)
  PROVE  k \in DOMAIN t.sticky \cup {0}
  BY DEF Matches

LEMMA ShownFacts ==
  ASSUME NEW t, IsTouch(t), t.cursor \in Memory(t), NEW what
  PROVE  LET u == Shown(t, t.cursor, what)
         IN  /\ IsTouch(u) /\ Memory(u) = Memory(t) /\ Live(u) = Live(t)
             /\ u.cursor = t.cursor /\ u.sticky = t.sticky /\ u.broken = t.broken
             /\ u.free = t.free /\ u.list = t.list
             /\ \A d \in Memory(t) \ {t.cursor} : u.mem[d] = t.mem[d]
             /\ Alive(t) => Works(t, u)
<1> DEFINE mem == [t.mem EXCEPT ![t.cursor].shows = what]
           u == Shown(t, t.cursor, what)
<1>1. u = [t EXCEPT !.mem = mem]
  BY DEF Shown
<1>2. DOMAIN mem = DOMAIN t.mem /\ \A d \in DOMAIN t.mem \ {t.cursor} : mem[d] = t.mem[d]
  OBVIOUS
<1> HIDE DEF mem
<1>3. u = [mem |-> mem, list |-> t.list, free |-> t.free, max |-> t.max,
           cursor |-> t.cursor, sticky |-> t.sticky, broken |-> t.broken]
  BY <1>1 DEF IsTouch
<1> HIDE DEF u
<1>4. /\ u.mem = mem /\ u.list = t.list /\ u.free = t.free /\ u.max = t.max
      /\ u.cursor = t.cursor /\ u.sticky = t.sticky /\ u.broken = t.broken
  BY <1>3
<1>5. Memory(u) = Memory(t) /\ Live(u) = Live(t) /\ Free(u) = Free(t) /\ Sticky(u) = Sticky(t)
  BY <1>2, <1>4 DEF Memory, Live, Free, Sticky
<1>6. IsTouch(u)
  BY <1>3, <1>4, <1>5 DEF IsTouch
<1>7. Keeps(t, u)
  BY <1>2, <1>4, <1>5 DEF Keeps, Lost, Memory
<1>8. Alive(t) => Alive(u)
  BY <1>4, <1>5 DEF Alive
<1> QED
  BY <1>2, <1>4, <1>5, <1>6, <1>7, <1>8 DEF u, Works, Memory

LEMMA CommittedWorks == ASSUME NEW t, IsTouch(t), Alive(t) PROVE Works(t, Committed(t))
  BY CrashedFacts, KeepsAll DEF Committed, Works

-----------------------------------------------------------------------------
\* So every step works on what it finds.
LEMMA TouchStep ==
  ASSUME IsTouch(touch), Alive(touch), [Next]_vars
  PROVE  Works(touch, touch')
<1>1. Works(touch, touch)
  BY KeepsAll DEF Works
<1>2. CASE BeginUpdate
  <2>1. PICK k : touch' = touch \/ touch' = Forgets(touch, k)
    BY <1>2 DEF BeginUpdate
  <2> QED
    BY <1>1, <2>1, ForgetsWorks
<1>3. CASE TrackKnown
  <2>1. CASE touch' = touch
    BY <1>1, <2>1
  <2>2. CASE touch.cursor # None /\ touch' = Shown(touch, touch.cursor, trackPnts[next])
    <3>1. touch.cursor \in Memory(touch)
      BY <1>3, <2>2 DEF TrackKnown, Alive
    <3> QED
      BY <2>2, <3>1, ShownFacts
  <2> QED
    BY <1>3, <2>1, <2>2 DEF TrackKnown
<1>4. CASE TrackNew
  BY <1>4, AddedWorks DEF TrackNew
<1>5. CASE EndUpdate
  <2>1. CASE RandomSignal
    <3>1. PICK place, t : t \in Signalled(place) /\ touch' = Committed(t)
      BY <2>1 DEF RandomSignal
    <3>2. PICK r : /\ r = touch \/ r \in Released(touch, randomAt)
                   /\ t = r \/ \E k \in Matches(r, place) : t \in Pressed(r, k, 1)
      BY <3>1 DEF Signalled
    <3>3. Works(touch, r)
      BY <1>1, <3>2, ReleasedWorks
    <3>4. Works(r, t)
      <4>1. CASE t = r
        BY <3>3, <4>1, KeepsAll DEF Works
      <4>2. ASSUME NEW k \in Matches(r, place), t \in Pressed(r, k, 1) PROVE Works(r, t)
        <5>1. k \in DOMAIN r.sticky \cup {0}
          BY MatchesArePlaces
        <5> QED
          BY <3>3, <4>2, <5>1, PressedWorks DEF Works
      <4> QED
        BY <3>2, <4>1, <4>2
    <3>5. Works(t, touch')
      BY <3>1, <3>4, CommittedWorks DEF Works
    <3> QED
      BY <3>3, <3>4, <3>5, KeepsAll DEF Works
  <2>2. CASE touch' = Committed(touch)
    BY <2>2, CommittedWorks
  <2> QED
    BY <1>5, <2>1, <2>2 DEF EndUpdate
<1>6. CASE MousePressed
  <2>1. PICK place, button : \E k \in Matches(touch, place) : touch' \in Pressed(touch, k, button)
    BY <1>6 DEF MousePressed
  <2>3. PICK k \in Matches(touch, place) : touch' \in Pressed(touch, k, button)
    BY <2>1
  <2>2. k \in DOMAIN touch.sticky \cup {0}
    BY MatchesArePlaces
  <2> QED
    BY <2>3, <2>2, PressedWorks
<1>7. CASE MouseDragged
  <2>1. touch.cursor \in Memory(touch)
    BY <1>7 DEF MouseDragged, Handled, Alive
  <2> QED
    BY <1>7, <2>1, ShownFacts DEF MouseDragged
<1>8. CASE MouseReleased
  BY <1>8, ReleasedWorks DEF MouseReleased
<1>9. CASE KeyPressed \/ UNCHANGED vars
  BY <1>1, <1>9 DEF KeyPressed, vars
<1> QED
  BY <1>2, <1>3, <1>4, <1>5, <1>6, <1>7, <1>8, <1>9 DEF Next

LEMMA TouchInvariant == Spec => [](IsTouch(touch) /\ Alive(touch))
<1>1. Init => IsTouch(touch) /\ Alive(touch)
  <2> SUFFICES ASSUME Init PROVE IsTouch(touch) /\ Alive(touch)
    OBVIOUS
  <2>1. touch.cursor = None /\ DOMAIN touch.mem = {}
    BY DEF Init, EmptyMap
  <2> QED
    BY <2>1 DEF Init, IsTouch, Alive, Memory
<1>2. IsTouch(touch) /\ Alive(touch) /\ [Next]_vars => (IsTouch(touch) /\ Alive(touch))'
  BY TouchStep DEF Works, IsTouch, Alive, Memory, Live, Sticky
<1> QED
  BY <1>1, <1>2, PTL DEF Spec

(***************************************************************************)
(* Whatever cursors were removed for points, by the mouse or by the random *)
(* signal, and whatever their addresses were used for again, the           *)
(* remembered cursor has not been deleted, and if the server has it no     *)
(* more it is a sticky one.                                                *)
(***************************************************************************)
THEOREM RememberedAlive == Spec => []CursorAlive
<1>1. Alive(touch) => CursorAlive
  BY DEF Alive, CursorAlive
<1> QED
  BY <1>1, TouchInvariant, PTL

(***************************************************************************)
(* No step of the application moves, removes or picks up again a cursor    *)
(* that only the server's list still has: what was forgotten stays on the  *)
(* server for good.                                                        *)
(***************************************************************************)
THEOREM ForgottenForGood == Spec => ForgottenStays
<1>1. IsTouch(touch) /\ Alive(touch) /\ [Next]_vars =>
        [\A c \in Forgotten : c \in Forgotten' /\ touch.mem[c] = touch.mem'[c]]_vars
  BY TouchStep DEF Works, Keeps, Lost, Forgotten, Live, Free, Memory, Sticky
<1> QED
  BY <1>1, TouchInvariant, PTL DEF Spec, ForgottenStays
-----------------------------------------------------------------------------
(***************************************************************************)
(* Without sticky cursors: the remembered cursor is on cursorList, which   *)
(* makes every removal the first one of its cursor.                        *)
(***************************************************************************)
Clean(t) ==
  /\ ~ t.broken /\ ListsSound(t) /\ DOMAIN t.sticky = {}
  /\ t.cursor \in Live(t) \cup {None}

LEMMA PlacedClean ==
  ASSUME NEW t, IsTouch(t), ~ t.broken, ListsSound(t), DOMAIN t.sticky = {},
         NEW id, NEW what, NEW u \in Placed(t, id, what)
  PROVE  /\ Clean(u)
         /\ Live(u) = Live(t) \cup {u.cursor}
         /\ u.mem[u.cursor] = [id |-> id, shows |-> what]
<1>1. /\ u.cursor \in Cursors \ Memory(t)
      /\ Memory(u) = Memory(t) \cup {u.cursor}
      /\ u.mem[u.cursor] = [id |-> id, shows |-> what]
      /\ Live(u) = Live(t) \cup {u.cursor}
      /\ u.free = t.free /\ u.sticky = t.sticky /\ u.broken = t.broken
  BY PlacedFacts
<1>2. Free(u) = Free(t)
  BY <1>1 DEF Free
<1> QED
  BY <1>1, <1>2 DEF Clean, ListsSound

LEMMA AddedClean ==
  ASSUME NEW t, IsTouch(t), Clean(t), NEW what, NEW u \in Added(t, what)
  PROVE  /\ Clean(u)
         /\ Live(u) = Live(t) \cup {u.cursor}
         /\ \E id : u.mem[u.cursor] = [id |-> id, shows |-> what]
<1> DEFINE size == BagCardinality(t.list)
<1>1. CASE size > t.max \/ Free(t) = {}
  <2> DEFINE v == [t EXCEPT !.max = size]
  <2>1. u \in Placed(v, size, what)
    BY <1>1 DEF Added
  <2> HIDE DEF size
  <2>2. v = [mem |-> t.mem, list |-> t.list, free |-> t.free, max |-> size,
             cursor |-> t.cursor, sticky |-> t.sticky, broken |-> t.broken]
    BY DEF IsTouch
  <2> HIDE DEF v
  <2>3. /\ v.mem = t.mem /\ v.list = t.list /\ v.free = t.free /\ v.max = size
        /\ v.cursor = t.cursor /\ v.sticky = t.sticky /\ v.broken = t.broken
    BY <2>2
  <2>4. IsTouch(v)
    BY <2>2, <2>3 DEF IsTouch, Memory
  <2>5. Live(v) = Live(t) /\ Free(v) = Free(t) /\ Memory(v) = Memory(t)
    BY <2>3 DEF Live, Free, Memory
  <2>6. ListsSound(v)
    BY <2>3, <2>5 DEF Clean, ListsSound
  <2>7. /\ Clean(u) /\ Live(u) = Live(v) \cup {u.cursor}
        /\ u.mem[u.cursor] = [id |-> size, shows |-> what]
    BY <2>1, <2>3, <2>4, <2>6, PlacedClean DEF Clean
  <2> QED
    BY <2>5, <2>7
<1>2. CASE ~ (size > t.max \/ Free(t) = {})
  <2>1. PICK f \in Free(t) :
          u \in Placed([Deleted(t, f) EXCEPT !.free = @ (-) SetToBag({f})], t.mem[f].id, what)
    BY <1>2 DEF Added, Clean, ListsSound
  <2> DEFINE mem == Without(t.mem, {f})
             free == t.free (-) SetToBag({f})
             v == [Deleted(t, f) EXCEPT !.free = @ (-) SetToBag({f})]
  <2>2. DOMAIN mem = DOMAIN t.mem \ {f}
    BY WithoutFacts
  <2>3. f \notin Live(t) /\ t.free[f] = 1
    BY DEF Clean, ListsSound
  <2>4. /\ BagToSet(free) \subseteq BagToSet(t.free) \ {f}
        /\ \A d \in BagToSet(free) : free[d] = t.free[d]
    BY <2>3, BagMinus
  <2>5. u \in Placed(v, t.mem[f].id, what)
    BY <2>1
  <2> HIDE DEF mem
  <2>6. Deleted(t, f) = [mem |-> mem, list |-> t.list, free |-> t.free, max |-> t.max,
                         cursor |-> t.cursor, sticky |-> t.sticky, broken |-> t.broken]
    BY DEF IsTouch, Deleted, mem
  <2> HIDE DEF free
  <2>7. v = [mem |-> mem, list |-> t.list, free |-> free, max |-> t.max,
             cursor |-> t.cursor, sticky |-> t.sticky, broken |-> t.broken]
    BY <2>6 DEF free
  <2> HIDE DEF v
  <2>8. /\ v.mem = mem /\ v.list = t.list /\ v.free = free /\ v.max = t.max
        /\ v.cursor = t.cursor /\ v.sticky = t.sticky /\ v.broken = t.broken
    BY <2>7
  <2>9. IsTouch(v)
    BY <2>2, <2>7, <2>8 DEF IsTouch, Memory
  <2>10. ListsSound(v) /\ Live(v) = Live(t)
    BY <2>2, <2>3, <2>4, <2>8 DEF Clean, ListsSound, Live, Free, Memory
  <2>11. /\ Clean(u) /\ Live(u) = Live(v) \cup {u.cursor}
         /\ u.mem[u.cursor] = [id |-> t.mem[f].id, shows |-> what]
    BY <2>5, <2>8, <2>9, <2>10, PlacedClean DEF Clean
  <2> QED
    BY <2>10, <2>11
<1> QED
  BY <1>1, <1>2

LEMMA RemovedClean ==
  ASSUME NEW t, IsTouch(t), Clean(t)
  PROVE  LET u == Removed(t, t.cursor)
         IN  /\ IsTouch(u) /\ ~ u.broken /\ ListsSound(u) /\ DOMAIN u.sticky = {}
             /\ Live(u) = Live(t) \ {t.cursor}
<1> DEFINE c == t.cursor
           u == Removed(t, c)
           rest == Without(t.list, {c})
           top  == GreatestId([d \in DOMAIN rest |-> t.mem[d].id])
           cut  == {f \in Free(t) : t.mem[f].id > top}
<1>1. IsTouch(u) /\ u.sticky = t.sticky
  BY RemovedFacts
<1>2. CASE c = None
  <2>1. u = t
    BY <1>2 DEF Removed
  <2> QED
    BY <1>2, <2>1 DEF Clean, ListsSound, IsTouch
<1>3. DOMAIN rest = DOMAIN t.list \ {c}
  BY WithoutFacts
<1>4. ASSUME c # None PROVE c \in Live(t) /\ c \in Memory(t) /\ c \notin Free(t)
  BY <1>4 DEF Clean, ListsSound
<1>5. CASE c # None /\ c \in Memory(t) /\ t.mem[c].id # t.max
  <2> DEFINE none == None
             mem == [t.mem EXCEPT ![c].shows = none]
             more == t.free (+) SetToBag({c})
             free == IF t.mem[c].id < t.max THEN more ELSE t.free
  <2>1. u = [t EXCEPT !.list = rest, !.mem = mem, !.free = free]
    BY <1>5 DEF Removed
  <2> HIDE DEF none
  <2>2. DOMAIN mem = DOMAIN t.mem
    OBVIOUS
  <2>3. /\ BagToSet(more) = BagToSet(t.free) \cup {c}
        /\ \A d \in BagToSet(t.free) \ {c} : t.free[d] = 1 => more[d] = 1
        /\ c \notin BagToSet(t.free) => more[c] = 1
    BY BagPlus
  <2> HIDE DEF more
  <2>4. /\ BagToSet(free) \subseteq BagToSet(t.free) \cup {c}
        /\ \A d \in BagToSet(free) : free[d] = 1
    BY <1>4, <1>5, <2>3 DEF Clean, ListsSound, Free
  <2> HIDE DEF u, mem, free, rest, c
  <2>5. u = [mem |-> mem, list |-> rest, free |-> free, max |-> t.max,
             cursor |-> t.cursor, sticky |-> t.sticky, broken |-> t.broken]
    BY <2>1 DEF IsTouch
  <2>6. u.mem = mem /\ u.list = rest /\ u.free = free /\ u.broken = t.broken
    BY <2>5
  <2>7. Live(u) = Live(t) \ {c} /\ Free(u) \subseteq Free(t) \cup {c} /\ Memory(u) = Memory(t)
    BY <1>3, <2>2, <2>4, <2>6 DEF Live, Free, Memory, BagToSet
  <2>8. ListsSound(u)
    BY <1>4, <1>5, <2>4, <2>6, <2>7 DEF Clean, ListsSound, Free
  <2> QED
    BY <1>1, <2>6, <2>7, <2>8 DEF Clean, u, c
<1>6. CASE c # None /\ t.mem[c].id = t.max
  <2> DEFINE mem == Without(t.mem, cut \cup {c})
             free == Without(t.free, cut)
  <2>1. cut \subseteq Free(t)
    OBVIOUS
  <2>2. /\ DOMAIN rest \cup Free(t) \subseteq Memory(t) \ {c}
        /\ \A f \in cut : t.free[f] = 1
    BY <1>3, <1>4, <1>6, <2>1 DEF Clean, ListsSound, Live, BagToSet
  <2>3. u = [t EXCEPT !.list = rest, !.mem = mem, !.free = free, !.max = top]
    BY <1>4, <1>6, <2>2 DEF Removed
  <2> HIDE DEF u, rest, top, cut, c
  <2>4. DOMAIN mem = DOMAIN t.mem \ (cut \cup {c})
    BY WithoutFacts
  <2>5. DOMAIN free = DOMAIN t.free \ cut /\ \A d \in DOMAIN t.free \ cut : free[d] = t.free[d]
    BY WithoutFacts
  <2> HIDE DEF mem, free
  <2>6. u = [mem |-> mem, list |-> rest, free |-> free, max |-> top,
             cursor |-> t.cursor, sticky |-> t.sticky, broken |-> t.broken]
    BY <2>3 DEF IsTouch
  <2>7. u.mem = mem /\ u.list = rest /\ u.free = free /\ u.broken = t.broken
    BY <2>6
  <2>8. /\ Live(u) = Live(t) \ {c} /\ Free(u) = Free(t) \ cut
        /\ Memory(u) = Memory(t) \ (cut \cup {c})
    BY <1>3, <2>4, <2>5, <2>7 DEF Live, Free, Memory, BagToSet
  <2>9. \A f \in Free(u) : u.free[f] = t.free[f]
    BY <2>5, <2>7 DEF Free, BagToSet
  <2>10. ListsSound(u)
    BY <1>4, <1>6, <2>1, <2>8, <2>9 DEF Clean, ListsSound
  <2> QED
    BY <1>1, <2>7, <2>8, <2>10 DEF Clean, u, c
<1> QED
  BY <1>2, <1>4, <1>5, <1>6

\* Nothing matches, and nothing is read.
LEMMA NoMatch ==
  ASSUME NEW t, DOMAIN t.sticky = {}, NEW place, NEW k \in Matches(t, place)
  PROVE  k = 0 /\ ~ ReadsDeleted(t, k)
  BY DEF Matches, ReadsDeleted, Reads

LEMMA ForgetsClean ==
  ASSUME NEW t, IsTouch(t), Clean(t), NEW place, NEW k \in Matches(t, place)
  PROVE  LET u == Forgets(t, k)
         IN  IsTouch(u) /\ Clean(u) /\ u.cursor = None /\ Live(u) = Live(t) \ {t.cursor}
<1> DEFINE none == None
           r == Removed(t, t.cursor)
           u == Forgets(t, k)
<1>1. k = 0 /\ ~ ReadsDeleted(t, k)
  BY NoMatch DEF Clean
<1>2. u = [r EXCEPT !.cursor = none]
  BY <1>1 DEF Forgets
<1>3. none = None
  OBVIOUS
<1>4. /\ IsTouch(r) /\ ~ r.broken /\ ListsSound(r) /\ DOMAIN r.sticky = {}
      /\ Live(r) = Live(t) \ {t.cursor}
  BY RemovedClean
<1> HIDE DEF none, r, u
<1>5. u = [mem |-> r.mem, list |-> r.list, free |-> r.free, max |-> r.max,
           cursor |-> none, sticky |-> r.sticky, broken |-> r.broken]
  BY <1>2, <1>4 DEF IsTouch
<1>6. /\ u.mem = r.mem /\ u.list = r.list /\ u.free = r.free /\ u.max = r.max
      /\ u.cursor = none /\ u.sticky = r.sticky /\ u.broken = r.broken
  BY <1>5
<1>7. Memory(u) = Memory(r) /\ Live(u) = Live(r) /\ Free(u) = Free(r)
  BY <1>6 DEF Memory, Live, Free
<1>8. IsTouch(u)
  BY <1>4, <1>5, <1>6, <1>7 DEF IsTouch
<1>9. Clean(u)
  BY <1>3, <1>4, <1>6, <1>7 DEF Clean, ListsSound
<1> QED
  BY <1>3, <1>4, <1>6, <1>7, <1>8, <1>9 DEF u

LEMMA ReleasedClean ==
  ASSUME NEW t, IsTouch(t), Clean(t), NEW place, NEW u \in Released(t, place)
  PROVE  IsTouch(u) /\ Clean(u)
<1>1. CASE u = t
  BY <1>1
<1>2. ASSUME NEW k \in Matches(t, place), u = Forgets(t, k) PROVE IsTouch(u) /\ Clean(u)
  BY <1>2, ForgetsClean
<1> QED
  BY <1>1, <1>2 DEF Released

LEMMA PressedClean ==
  ASSUME NEW t, IsTouch(t), Clean(t), NEW place, NEW k \in Matches(t, place),
         NEW button, button # 2, NEW u \in Pressed(t, k, button)
  PROVE  IsTouch(u) /\ Clean(u)
<1>1. k = 0 /\ ~ ReadsDeleted(t, k)
  BY NoMatch DEF Clean
<1>2. u \in Added(t, Mouse)
  BY <1>1 DEF Pressed
<1> QED
  BY <1>2, AddedFacts, AddedClean

LEMMA ShownClean ==
  ASSUME NEW t, IsTouch(t), Clean(t), t.cursor # None, NEW what
  PROVE  Clean(Shown(t, t.cursor, what))
<1> DEFINE u == Shown(t, t.cursor, what)
<1>0. t.cursor \in Memory(t)
  BY DEF Clean, ListsSound
<1>1. /\ Memory(u) = Memory(t) /\ Live(u) = Live(t) /\ u.cursor = t.cursor
      /\ u.sticky = t.sticky /\ u.broken = t.broken /\ u.free = t.free
  BY <1>0, ShownFacts
<1> HIDE DEF u
<1>2. Clean(u)
  BY <1>1 DEF Clean, ListsSound, Free
<1> QED
  BY <1>2 DEF u

LEMMA CleanCommitted == ASSUME NEW t, Clean(t) PROVE Committed(t) = t
  BY DEF Clean, ListsSound, Committed

LEMMA SignalledClean ==
  ASSUME IsTouch(touch), Clean(touch), NEW place, NEW t \in Signalled(place)
  PROVE  Clean(Committed(t))
<1>1. PICK r : /\ r = touch \/ r \in Released(touch, randomAt)
               /\ t = r \/ \E k \in Matches(r, place) : t \in Pressed(r, k, 1)
  BY DEF Signalled
<1>2. IsTouch(r) /\ Clean(r)
  BY <1>1, ReleasedClean
<1>3. ASSUME NEW k \in Matches(r, place), t \in Pressed(r, k, 1) PROVE Clean(t)
  BY <1>2, <1>3, PressedClean
<1>4. Clean(t)
  BY <1>1, <1>2, <1>3
<1> QED
  BY <1>4, CleanCommitted

CleanInv == used \in 0..3 /\ (used < 3 => Clean(touch))

LEMMA CleanStep == ASSUME IsTouch(touch), CleanInv, [Next]_vars PROVE CleanInv'
<1>1. \A what \in 0..3 : Uses(what) => used' \in 0..3 /\ used <= used' /\ what <= used'
  BY DEF Uses, CleanInv
<1> SUFFICES used' \in 0..3 /\ (used' < 3 => Clean(touch'))
  BY DEF CleanInv, Clean, ListsSound, Live, Free, Memory
<1>2. CASE BeginUpdate
  <2>1. PICK k \in Matches(touch, "corner") : touch' = touch \/ touch' = Forgets(touch, k)
    BY <1>2 DEF BeginUpdate
  <2>2. PICK report \in Reports : Uses(IF Len(report) <= 1 THEN 0 ELSE 1)
    BY <1>2 DEF BeginUpdate
  <2>3. used' \in 0..3 /\ used <= used'
    BY <1>1, <2>2
  <2>4. Clean(touch) => Clean(Forgets(touch, k))
    BY ForgetsClean
  <2> QED
    BY <2>1, <2>3, <2>4 DEF CleanInv
<1>3. CASE TrackKnown
  <2>1. used' = used
    BY <1>3 DEF TrackKnown
  <2>2. \/ touch' = touch
        \/ touch.cursor # None /\ touch' = Shown(touch, touch.cursor, trackPnts[next])
    BY <1>3 DEF TrackKnown
  <2> QED
    BY <2>1, <2>2, ShownClean DEF CleanInv
<1>4. CASE TrackNew
  <2>1. used' = used /\ touch' \in Added(touch, trackPnts[next])
    BY <1>4 DEF TrackNew
  <2> QED
    BY <2>1, AddedClean DEF CleanInv
<1>5. CASE EndUpdate
  <2>1. CASE RandomSignal
    <3>1. PICK place : \E t \in Signalled(place) : touch' = Committed(t)
      BY <2>1 DEF RandomSignal
    <3>2. Clean(touch) => Clean(touch')
      BY <3>1, SignalledClean
    <3>3. used' \in 0..3 /\ used <= used'
      BY <1>1, <2>1 DEF RandomSignal
    <3> QED
      BY <3>2, <3>3 DEF CleanInv
  <2>2. CASE touch' = Committed(touch) /\ UNCHANGED <<randomAt, used>>
    BY <2>2, CleanCommitted DEF CleanInv
  <2> QED
    BY <1>5, <2>1, <2>2 DEF EndUpdate
<1>6. CASE MousePressed
  <2>1. PICK place \in Places, button \in {0, 2} : \E k \in Matches(touch, place) :
          touch' \in Pressed(touch, k, button) /\ Uses(IF button = 2 THEN 3 ELSE 2)
    BY <1>6 DEF MousePressed
  <2>2. PICK k \in Matches(touch, place) :
          touch' \in Pressed(touch, k, button) /\ Uses(IF button = 2 THEN 3 ELSE 2)
    BY <2>1
  <2>3. used' \in 0..3 /\ used <= used' /\ (button = 2 => used' >= 3)
    BY <1>1, <2>2
  <2>4. Clean(touch) /\ button # 2 => Clean(touch')
    BY <2>2, PressedClean
  <2> QED
    BY <2>3, <2>4 DEF CleanInv
<1>7. CASE MouseDragged
  <2>1. used' \in 0..3 /\ used <= used'
    BY <1>1, <1>7 DEF MouseDragged
  <2> QED
    BY <1>7, <2>1, ShownClean DEF CleanInv, MouseDragged
<1>8. CASE MouseReleased
  <2>1. used' \in 0..3 /\ used <= used'
    BY <1>1, <1>8 DEF MouseReleased
  <2>2. Clean(touch) => Clean(touch')
    BY <1>8, ReleasedClean DEF MouseReleased
  <2> QED
    BY <2>1, <2>2 DEF CleanInv
<1>9. CASE KeyPressed \/ UNCHANGED vars
  BY <1>9 DEF KeyPressed, vars, CleanInv
<1> QED
  BY <1>2, <1>3, <1>4, <1>5, <1>6, <1>7, <1>8, <1>9 DEF Next

LEMMA CleanInvariant == Spec => []CleanInv
<1>1. Init => CleanInv
  <2> SUFFICES ASSUME Init PROVE CleanInv
    OBVIOUS
  <2>1. /\ touch.list = EmptyBag /\ touch.free = EmptyBag /\ touch.sticky = EmptyMap
        /\ touch.cursor = None /\ touch.broken = FALSE /\ used = 0
    BY DEF Init
  <2>2. Live(touch) = {} /\ Free(touch) = {} /\ DOMAIN touch.sticky = {}
    BY <2>1 DEF Live, Free, EmptyBag, EmptyMap, SetToBag, BagToSet
  <2> QED
    BY <2>1, <2>2 DEF CleanInv, Clean, ListsSound
<1> QED
  BY <1>1, CleanStep, TouchInvariant, PTL DEF Spec

(***************************************************************************)
(* Without the right mouse button no order of points, mouse and random     *)
(* signal has the server remove a cursor twice: it never uses a deleted    *)
(* one, and none is on two of its lists, or twice on one.                  *)
(***************************************************************************)
THEOREM EachRemovedOnce == Spec => []RemovedOnce
<1>1. CleanInv => RemovedOnce
  BY DEF CleanInv, Clean, RemovedOnce
<1> QED
  BY <1>1, CleanInvariant, PTL
-----------------------------------------------------------------------------
(***************************************************************************)
(* One point at a time, and nobody uses the mouse: between the points of   *)
(* an update the server has the remembered cursor and no other, or, where  *)
(* a point is about to get one, none.                                      *)
(***************************************************************************)
Shows(t, point) ==
  /\ Live(t) = {t.cursor}
  /\ \E id : t.mem[t.cursor] = [id |-> id, shows |-> point]

Bare(t) == Live(t) = {} /\ t.cursor = None

\* The server shows the points of a set that has one at most.
ShowsOnly(t, S) ==
  \/ S = {} /\ Bare(t)
  \/ \E point : S = {point} /\ Shows(t, point)

\* Before the n-th point of a report, of which some are known.
AtPoint(t, n, report, known) ==
  /\ n = Len(report) + 1 \/ (n = 1 /\ Len(report) = 1)
  /\ Len(report) <= 1
  /\ n = Len(report) + 1 => ShowsOnly(t, ToSet(report))
  /\ n # Len(report) + 1 => IF report[1] \in known THEN Shows(t, report[1]) ELSE Bare(t)

ShowsRight(t, n, report, known) ==
  IF n = 0 THEN ShowsOnly(t, known) ELSE AtPoint(t, n, report, known)

OneTouchInv ==
  trackPnts \in Seq(Points) /\ (used = 0 => ShowsRight(touch, next, trackPnts, currentPoints))

LEMMA ReportsAre == ASSUME NEW report \in Reports PROVE report \in Seq(Points)
  BY DEF Reports

\* What the camera reports is at most one point.
LEMMA ShortSequence ==
  ASSUME NEW S, NEW s \in Seq(S), Len(s) <= 1
  PROVE  \/ s = <<>> /\ Len(s) = 0 /\ DOMAIN s = {} /\ ToSet(s) = {}
         \/ s # <<>> /\ Len(s) = 1 /\ DOMAIN s = {1} /\ ToSet(s) = {s[1]}
<1>1. Len(s) \in Nat /\ DOMAIN s = 1..Len(s) /\ (Len(s) = 0 => s = <<>>)
  OBVIOUS
<1>2. CASE s = <<>>
  BY <1>2 DEF ToSet
<1>3. CASE s # <<>>
  <2>1. Len(s) = 1
    BY <1>1, <1>3
  <2>2. DOMAIN s = {1}
    BY <1>1, <2>1
  <2> QED
    BY <1>3, <2>1, <2>2 DEF ToSet
<1> QED
  BY <1>2, <1>3

\* The remembered cursor is moved to another point.
LEMMA ShownShows ==
  ASSUME NEW t, IsTouch(t), Clean(t), NEW point, Shows(t, point)
  PROVE  Shows(Shown(t, t.cursor, point), point)
<1> DEFINE c == t.cursor
           u == Shown(t, c, point)
           mem == [t.mem EXCEPT ![c].shows = point]
<1>0. c \in Memory(t)
  BY DEF Shows, Clean, ListsSound
<1>1. /\ Live(u) = Live(t) /\ u.cursor = t.cursor
  BY <1>0, ShownFacts
<1>2. PICK id : t.mem[c] = [id |-> id, shows |-> point]
  BY DEF Shows
<1>3. u.mem = mem
  BY <1>0 DEF Shown, IsTouch
<1>4. mem[c] = [id |-> id, shows |-> point]
  <2>1. c \in DOMAIN t.mem
    BY <1>0 DEF Memory
  <2> DEFINE old == t.mem[c]
  <2>2. mem[c] = [old EXCEPT !.shows = point]
    BY <2>1
  <2>3. old = [id |-> id, shows |-> point]
    BY <1>2
  <2> HIDE DEF old, mem
  <2> QED
    BY <2>2, <2>3
<1> HIDE DEF u, mem
<1>5. Shows(u, point)
  BY <1>1, <1>3, <1>4 DEF Shows, c
<1> QED
  BY <1>5 DEF u, c

LEMMA AddedShows ==
  ASSUME NEW t, IsTouch(t), Clean(t), Live(t) = {}, NEW point, NEW u \in Added(t, point)
  PROVE  Shows(u, point)
  BY AddedClean DEF Shows

LEMMA ReportStep == trackPnts \in Seq(Points) /\ [Next]_vars => trackPnts' \in Seq(Points)
<1> SUFFICES ASSUME trackPnts \in Seq(Points), [Next]_vars PROVE trackPnts' \in Seq(Points)
  OBVIOUS
<1>1. CASE BeginUpdate
  BY <1>1, ReportsAre DEF BeginUpdate
<1>2. CASE EndUpdate
  BY <1>2 DEF EndUpdate
<1>3. CASE TrackKnown \/ TrackNew
  BY <1>3 DEF TrackKnown, TrackNew
<1>4. CASE MousePressed \/ MouseDragged \/ MouseReleased \/ KeyPressed
  BY <1>4 DEF MousePressed, MouseDragged, MouseReleased, KeyPressed, Handled
<1>5. CASE UNCHANGED vars
  BY <1>5 DEF vars
<1> QED
  BY <1>1, <1>2, <1>3, <1>4, <1>5 DEF Next

\* The step to the points of the camera.
LEMMA BeginsRight ==
  ASSUME IsTouch(touch), Clean(touch), ShowsOnly(touch, currentPoints), BeginUpdate,
         NEW report \in Reports, Len(report) <= 1, trackPnts' = report,
         NEW k \in Matches(touch, "corner"), NEW del,
         del = IF currentPoints = {} THEN {} ELSE DeletePoints(report),
         touch' = IF del = {} THEN touch ELSE Forgets(touch, k),
         currentPoints' = currentPoints \ del
  PROVE  /\ next' = 1
         /\ report = <<>> => Bare(touch')
         /\ report # <<>> => IF report[1] \in currentPoints'
                               THEN Shows(touch', report[1]) ELSE Bare(touch')
<1>1. next' = 1
  BY DEF BeginUpdate
<1>2. del # {} => Bare(touch')
  <2> SUFFICES ASSUME del # {} PROVE Bare(touch')
    OBVIOUS
  <2>1. touch' = Forgets(touch, k)
    OBVIOUS
  <2>2. Live(touch) \subseteq {touch.cursor}
    BY DEF ShowsOnly, Shows, Bare
  <2>3. Forgets(touch, k).cursor = None /\ Live(Forgets(touch, k)) = Live(touch) \ {touch.cursor}
    BY ForgetsClean
  <2> HIDE DEF Bare
  <2>4. Bare(Forgets(touch, k))
    BY <2>2, <2>3 DEF Bare
  <2> QED
    BY <2>1, <2>4
<1>3. CASE report = <<>>
  <2>1. del = currentPoints
    BY <1>3 DEF DeletePoints
  <2>2. del = {} => Bare(touch')
    BY <2>1 DEF ShowsOnly
  <2> QED
    BY <1>1, <1>2, <1>3, <2>2
<1>4. CASE report # <<>>
  <2>1. ToSet(report) = {report[1]}
    BY <1>4, ReportsAre, ShortSequence
  <2>2. del = IF currentPoints = {} THEN {} ELSE {report[1]} \ currentPoints
    BY <1>4, <2>1 DEF DeletePoints
  <2>3. CASE report[1] \in currentPoints
    <3>1. del = {} /\ touch' = touch /\ currentPoints' = currentPoints
      BY <2>2, <2>3
    <3>2. Shows(touch, report[1])
      BY <2>3 DEF ShowsOnly
    <3>3. report[1] \in currentPoints' /\ Shows(touch', report[1])
      BY <2>3, <3>1, <3>2
    <3> QED
      BY <1>1, <1>4, <3>3
  <2>4. CASE report[1] \notin currentPoints
    <3>1. CASE currentPoints = {}
      <4>1. del = {} /\ touch' = touch
        BY <3>1
      <4>2. Bare(touch)
        BY <3>1 DEF ShowsOnly
      <4>3. Bare(touch')
        BY <4>1, <4>2
      <4> QED
        BY <1>1, <1>4, <2>4, <4>3
    <3>2. CASE currentPoints # {}
      BY <1>1, <1>2, <1>4, <2>2, <2>4, <3>2
    <3> QED
      BY <3>1, <3>2
  <2> QED
    BY <2>3, <2>4
<1> QED
  BY <1>3, <1>4

LEMMA OneTouchStep ==
  ASSUME IsTouch(touch), CleanInv, OneTouchInv, [Next]_vars
  PROVE  OneTouchInv'
<1> SUFFICES ASSUME used' = 0
             PROVE  ShowsRight(touch', next', trackPnts', currentPoints')
  BY ReportStep DEF OneTouchInv, ShowsRight, AtPoint, ShowsOnly, Shows, Bare, Live
<1>1. ASSUME used = 0
      PROVE  Clean(touch) /\ ShowsRight(touch, next, trackPnts, currentPoints)
  BY <1>1 DEF CleanInv, OneTouchInv
<1>2. \A what \in Nat : Uses(what) => used = 0 /\ what = 0
  BY DEF Uses, CleanInv
<1>3. CASE BeginUpdate
  <2>1. PICK report \in Reports, k \in Matches(touch, "corner") :
          LET del == IF currentPoints = {} THEN {} ELSE DeletePoints(report)
          IN  /\ touch' = IF del = {} THEN touch ELSE Forgets(touch, k)
              /\ currentPoints' = currentPoints \ del
              /\ trackPnts' = report
              /\ Uses(IF Len(report) <= 1 THEN 0 ELSE 1)
    BY <1>3 DEF BeginUpdate
  <2>2. used = 0 /\ Len(report) <= 1 /\ next = 0
    BY <1>2, <1>3, <2>1 DEF BeginUpdate
  <2>3. Clean(touch) /\ ShowsOnly(touch, currentPoints)
    BY <1>1, <2>2 DEF ShowsRight
  <2>4. /\ next' = 1
        /\ report = <<>> => Bare(touch')
        /\ report # <<>> => IF report[1] \in currentPoints'
                              THEN Shows(touch', report[1]) ELSE Bare(touch')
    BY <1>3, <2>1, <2>2, <2>3, BeginsRight
  <2>5. report \in Seq(Points)
    BY ReportsAre
  <2>6. CASE report = <<>>
    <3>1. Len(report) = 0 /\ ToSet(report) = {}
      BY <2>5, <2>6, <2>2, ShortSequence
    <3>2. ShowsOnly(touch', ToSet(report))
      BY <2>4, <2>6, <3>1 DEF ShowsOnly
    <3> QED
      BY <2>1, <2>4, <3>1, <3>2 DEF ShowsRight, AtPoint
  <2>7. CASE report # <<>>
    <3>1. Len(report) = 1
      BY <2>5, <2>7, <2>2, ShortSequence
    <3> QED
      BY <2>1, <2>4, <2>7, <3>1 DEF ShowsRight, AtPoint
  <2> QED
    BY <2>6, <2>7
<1>4. CASE TrackKnown \/ TrackNew
  <2>1. /\ used = 0 /\ next \in DOMAIN trackPnts /\ next' = next + 1
        /\ trackPnts' = trackPnts
    BY <1>4 DEF TrackKnown, TrackNew
  <2>2. next \in 1..Len(trackPnts) /\ trackPnts \in Seq(Points)
    BY <2>1 DEF OneTouchInv
  <2>3. /\ AtPoint(touch, next, trackPnts, currentPoints)
        /\ Clean(touch)
    BY <1>1, <2>1, <2>2 DEF ShowsRight
  <2> DEFINE point == trackPnts[1]
  <2>4. next = 1 /\ Len(trackPnts) = 1 /\ ToSet(trackPnts) = {point}
    BY <2>2, <2>3, ShortSequence DEF AtPoint
  <2>5. IF point \in currentPoints THEN Shows(touch, point) ELSE Bare(touch)
    BY <2>3, <2>4 DEF AtPoint
  <2>6. CASE TrackKnown
    <3>1. Shows(touch, point)
      BY <2>4, <2>5, <2>6 DEF TrackKnown
    <3>2. ASSUME touch' = touch PROVE Shows(touch', point)
      BY <3>1, <3>2
    <3>3. ASSUME touch' = Shown(touch, touch.cursor, point) PROVE Shows(touch', point)
      <4>1. Shows(Shown(touch, touch.cursor, point), point)
        BY <2>3, <3>1, ShownShows
      <4> QED
        BY <3>3, <4>1
    <3>4. Shows(touch', point)
      BY <2>4, <2>6, <3>2, <3>3 DEF TrackKnown
    <3> QED
      BY <2>1, <2>4, <3>4 DEF ShowsRight, AtPoint, ShowsOnly
  <2>7. CASE TrackNew
    <3>1. Live(touch) = {} /\ touch' \in Added(touch, point)
      BY <2>4, <2>5, <2>7 DEF TrackNew, Bare
    <3> HIDE DEF point
    <3>2. Shows(touch', point)
      BY <2>3, <3>1, AddedShows
    <3> QED
      BY <2>1, <2>4, <3>2 DEF ShowsRight, AtPoint, ShowsOnly, point
  <2> QED
    BY <1>4, <2>6, <2>7
<1>5. CASE EndUpdate
  <2>1. ~ RandomSignal
    BY <1>2 DEF RandomSignal
  <2>2. /\ used = 0 /\ touch' = Committed(touch)
        /\ next = Len(trackPnts) + 1 /\ next' = 0 /\ currentPoints' = ToSet(trackPnts)
    BY <1>5, <2>1 DEF EndUpdate
  <2>3. next # 0
    BY <2>2 DEF OneTouchInv
  <2>4. Clean(touch) /\ ShowsOnly(touch, ToSet(trackPnts))
    BY <1>1, <2>2, <2>3 DEF ShowsRight, AtPoint
  <2>5. touch' = touch
    BY <2>2, <2>4, CleanCommitted
  <2> QED
    BY <2>2, <2>4, <2>5 DEF ShowsRight
<1>6. CASE MousePressed \/ MouseDragged \/ MouseReleased
  <2>1. \E what \in {2, 3} : Uses(what)
    BY <1>6 DEF MousePressed, MouseDragged, MouseReleased
  <2> QED
    BY <1>2, <2>1
<1>7. CASE KeyPressed \/ UNCHANGED vars
  <2>1. /\ used = 0 /\ touch' = touch /\ trackPnts' = trackPnts
        /\ next' = next /\ currentPoints' = currentPoints
    BY <1>7 DEF KeyPressed, Handled, vars
  <2> QED
    BY <1>1, <2>1
<1> QED
  BY <1>3, <1>4, <1>5, <1>6, <1>7 DEF Next

(***************************************************************************)
(* While the camera has only ever seen one point at a time and nobody used *)
(* the mouse, the server shows exactly the point that is tracked.          *)
(***************************************************************************)
THEOREM OnePointShown == Spec => []OneTouchShown
<1>1. Init => OneTouchInv
  <2> SUFFICES ASSUME Init PROVE OneTouchInv
    OBVIOUS
  <2>1. /\ touch.list = EmptyBag /\ touch.cursor = None
        /\ currentPoints = {} /\ trackPnts = <<>> /\ next = 0
    BY DEF Init
  <2>2. Live(touch) = {}
    BY <2>1 DEF Live, EmptyBag, SetToBag, BagToSet
  <2> QED
    BY <2>1, <2>2 DEF OneTouchInv, ShowsRight, ShowsOnly, Bare
<1>2. OneTouchInv => OneTouchShown
  <2> SUFFICES ASSUME OneTouchInv, used = 0, next = 0
               PROVE  /\ Cardinality(Live(touch)) = Cardinality(currentPoints)
                      /\ \A c \in Live(touch) : touch.mem[c].shows \in currentPoints
    BY DEF OneTouchShown
  <2>1. ShowsOnly(touch, currentPoints)
    BY DEF OneTouchInv, ShowsRight
  <2>2. CASE currentPoints = {} /\ Bare(touch)
    BY <2>2 DEF Bare
  <2>3. ASSUME NEW point, currentPoints = {point}, Shows(touch, point)
        PROVE  /\ Cardinality(Live(touch)) = Cardinality(currentPoints)
               /\ \A c \in Live(touch) : touch.mem[c].shows \in currentPoints
    <3>1. Live(touch) = {touch.cursor}
      BY <2>3 DEF Shows
    <3>2. PICK id : touch.mem[touch.cursor] = [id |-> id, shows |-> point]
      BY <2>3 DEF Shows
    <3>3. touch.mem[touch.cursor].shows = point
      BY <3>2
    <3>4. Cardinality(Live(touch)) = 1 /\ Cardinality(currentPoints) = 1
      BY <2>3, <3>1, FS_Singleton
    <3> QED
      BY <2>3, <3>1, <3>3, <3>4
  <2> QED
    BY <2>1, <2>2, <2>3 DEF ShowsOnly
<1> QED
  BY <1>1, <1>2, OneTouchStep, CleanInvariant, TouchInvariant, PTL DEF Spec
=============================================================================
