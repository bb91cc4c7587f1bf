---------------------------- MODULE Thermitrack -----------------------------
(***************************************************************************)
(* The thermitrack application (testApp.cpp): points that a thermal camera *)
(* tracks become cursors of a TUIO server.  The application remembers one  *)
(* cursor, and a list of sticky cursors that the right mouse button makes. *)
(*                                                                         *)
(* Everything runs on one thread; update() is split into the steps of its  *)
(* loop over the points, and no handler runs before it is over.            *)
(***************************************************************************)
EXTENDS CursorPool, SequencesExt

CONSTANTS
  Points,       \* the ids that the camera gives to points
  Cursors,      \* bound: the addresses at which cursors are allocated; that of a
                \* deleted one may be used again
  MaxSticky,    \* bound: places in stickyCursorList
  MaxFree       \* bound: length of freeCursorList

None  == "none"
Mouse == "mouse"

ASSUME ThermitrackAssumption ==
  /\ MaxSticky \in Nat /\ MaxFree \in Nat
  /\ None \notin Cursors
  /\ Mouse \notin Points

\* Where the mouse is, as seen from the sticky cursors, whose positions are in
\* 0..1 while the mouse counts pixels: within ten pixels of all of them, of
\* some of them, or of none.
Places == {"corner", "rim", "away"}

VARIABLES
  touch,          \* the server's cursors and what the application knows of them:
                  \*   mem     the cursors that are allocated, by address: their id,
                  \*           and the point or mouse that they show, None when removed
                  \*   list    cursorList, a bag of addresses
                  \*   free    freeCursorList, likewise: a cursor that is removed twice
                  \*           is in it twice
                  \*   max     maxCursorID
                  \*   cursor  the remembered cursor, or None
                  \*   sticky  stickyCursorList, a function from the places of its
                  \*           cursors, in their order
                  \*   broken  the memory of a deleted cursor was used
  currentPoints,  \* ids of the points known from the last update
  trackPnts,      \* the points of the camera in this update, <<>> outside of it
  next,           \* index of the point that update() is at, 0 outside of it
  isSendingTUIO,
  randomOn,       \* randomSignalFrequencySec # -1
  randomAt,       \* where the last random signal was pressed, or None
  used            \* what there was so far: 0 at most one point at a time, 1 several
                  \* points, 2 the mouse or the random signal, 3 its right button

vars == <<touch, currentPoints, trackPnts, next, isSendingTUIO, randomOn,
          randomAt, used>>

-----------------------------------------------------------------------------
Memory(t) == DOMAIN t.mem
Live(t)   == BagToSet(t.list)
Free(t)   == BagToSet(t.free)
Sticky(t) == {t.sticky[i] : i \in DOMAIN t.sticky}

Crashed(t) == [t EXCEPT !.broken = TRUE]

\* updateTuioCursor.
Shown(t, c, what) ==
  IF c \in Memory(t) THEN [t EXCEPT !.mem[c].shows = what] ELSE Crashed(t)

\* A cursor is allocated, put on cursorList and remembered.
Placed(t, id, what) ==
  {[t EXCEPT !.mem = With(@, c, [id |-> id, shows |-> what]),
             !.list = @ (+) SetToBag({c}), !.cursor = c] : c \in Cursors \ Memory(t)}

\* The cursor f is deleted.
Deleted(t, f) == [t EXCEPT !.mem = Without(@, {f})]

\* addTuioCursor, with the new cursor remembered.  A free cursor, whichever is the
\* closest, gives its id to the new one and is deleted; to find it all are read.
Added(t, what) ==
  LET size == BagCardinality(t.list)
  IN  IF size > t.max \/ Free(t) = {}
        THEN Placed([t EXCEPT !.max = size], size, what)
      ELSE IF ~ Free(t) \subseteq Memory(t) THEN {Crashed(t)}
      ELSE UNION {Placed([Deleted(t, f) EXCEPT !.free = @ (-) SetToBag({f})],
                         t.mem[f].id, what) : f \in Free(t)}

\* removeTuioCursor, which ignores NULL.  The cursor with the greatest id is
\* deleted, and with it the free ones above those that are left; one with a lesser
\* id is kept on freeCursorList.
Removed(t, c) ==
  LET rest == Without(t.list, {c})
      top  == GreatestId([d \in DOMAIN rest |-> t.mem[d].id])
      cut  == {f \in Free(t) : t.mem[f].id > top}
  IN  IF c = None THEN t
      ELSE IF c \notin Memory(t) THEN Crashed(t)
      ELSE IF t.mem[c].id # t.max
        THEN [t EXCEPT !.list = rest, !.mem[c].shows = None,
                       !.free = IF t.mem[c].id < t.max THEN @ (+) SetToBag({c}) ELSE @]
      ELSE IF /\ DOMAIN rest \cup Free(t) \subseteq Memory(t) \ {c}
              /\ \A f \in cut : t.free[f] = 1
        THEN [t EXCEPT !.list = rest, !.mem = Without(@, cut \cup {c}),
                       !.free = Without(@, cut), !.max = top]
      ELSE Crashed(t)

\* The place in stickyCursorList that getMatch may stop at, 0 for no match.
Matches(t, place) ==
  LET places   == DOMAIN t.sticky
      first    == {k \in places : \A j \in places : k <= j}
      firstFor == {k \in places : \A j \in places : t.sticky[j] = t.sticky[k] => k <= j}
  IN  CASE place = "corner" -> IF places = {} THEN {0} ELSE first
        [] place = "rim"    -> {0} \cup firstFor
        [] OTHER            -> {0}

\* getMatch reads the sticky cursors up to the one it stops at, also those that
\* the server has removed and kept on freeCursorList.
Reads(t, k) == {t.sticky[i] : i \in {j \in DOMAIN t.sticky : k \in {0, j} \/ j < k}}

ReadsDeleted(t, k) == ~ Reads(t, k) \subseteq Memory(t)

\* Slip (see README, mutants): the removed cursor is still remembered.
ForgetsWithout(t, k) ==
  IF ReadsDeleted(t, k) THEN Crashed(t)
  ELSE IF k = 0 THEN Removed(t, t.cursor) ELSE t

\* Slip (see README, mutants): every cursor is taken off the list.
ForgetsAll(t, k) ==
  IF ReadsDeleted(t, k) THEN Crashed(t)
  ELSE [t EXCEPT !.list = IF k = 0 THEN EmptyBag ELSE @, !.cursor = None]

\* removeTUIOCursor, and mouseReleased when a cursor is remembered: without a
\* match the remembered cursor is removed, and it is forgotten in any case.
Forgets(t, k) ==
  IF ReadsDeleted(t, k) THEN Crashed(t)
  ELSE [(IF k = 0 THEN Removed(t, t.cursor) ELSE t) EXCEPT !.cursor = None]

\* The place behind all others.
NextPlace(t) == 1 + Greatest(DOMAIN t.sticky \cup {0})

\* Slip (see README, mutants): the list gets the cursor remembered before.
AddedStickyFirst(t) ==
  {IF u.broken THEN u ELSE [u EXCEPT !.sticky = With(@, NextPlace(t), t.cursor)] :
     u \in Added(t, Mouse)}

AddedSticky(t) ==
  {IF u.broken THEN u ELSE [u EXCEPT !.sticky = With(@, NextPlace(t), u.cursor)] :
     u \in Added(t, Mouse)}

\* updateTUIOCursor: a match is picked up, or removed with the right button;
\* otherwise there is a new cursor, a sticky one with the right button.
Pressed(t, k, button) ==
  IF ReadsDeleted(t, k) THEN {Crashed(t)}
  ELSE CASE k # 0 /\ button = 2 ->
              LET match == t.sticky[k]
              IN  {[Removed(t, match) EXCEPT
                      !.sticky = Without(@, {i \in DOMAIN @ : @[i] = match}), !.cursor = None]}
         [] k # 0 /\ button # 2 -> {[t EXCEPT !.cursor = t.sticky[k]]}
         [] k = 0 /\ button = 2 -> AddedSticky(t)
         [] k = 0 /\ button # 2 -> Added(t, Mouse)

\* mouseReleased.
Released(t, place) ==
  IF t.cursor = None THEN {t} ELSE {Forgets(t, k) : k \in Matches(t, place)}

\* run() sends the cursors of cursorList.
Committed(t) == IF Live(t) \subseteq Memory(t) THEN t ELSE Crashed(t)

-----------------------------------------------------------------------------
Init ==
  /\ touch = [mem |-> EmptyMap, list |-> EmptyBag, free |-> EmptyBag, max |-> -1,
              cursor |-> None, sticky |-> EmptyMap, broken |-> FALSE]
  /\ currentPoints = {} /\ trackPnts = <<>> /\ next = 0
  /\ isSendingTUIO = TRUE
  /\ randomOn \in BOOLEAN
  /\ randomAt = None
  /\ used = 0

Uses(what) == used' = IF used < what THEN what ELSE used

\* What the camera may report: each point once.
Reports == UNION {{s \in [1..n -> Points] : IsInjective(s)} : n \in 0..Cardinality(Points)}

\* Slip (see README, mutants): a new point deletes nothing.
DeletesNothing(report) == IF report = <<>> THEN currentPoints ELSE {}

\* computeDeletePoints: the known points if none is reported, otherwise those
\* of the reported points that are not known.
DeletePoints(report) ==
  IF report = <<>> THEN currentPoints ELSE ToSet(report) \ currentPoints

\* The first part of update(): every point to delete calls removeTUIOCursor with
\* coordinates in 0..1, which match the first sticky cursor if there is one.  The
\* calls after the first find no cursor to remove.
BeginUpdate ==
  /\ ~ touch.broken /\ next = 0
  /\ \E report \in Reports :
       LET del == IF currentPoints = {} THEN {} ELSE DeletePoints(report)
       IN  /\ \E k \in Matches(touch, "corner") :
                touch' = IF del = {} THEN touch ELSE Forgets(touch, k)
           /\ currentPoints' = currentPoints \ del
           /\ trackPnts' = report
           /\ Uses(IF Len(report) <= 1 THEN 0 ELSE 1)
  /\ next' = 1
  /\ UNCHANGED <<isSendingTUIO, randomOn, randomAt>>

\* A point that is known moves the remembered cursor, whichever point that
\* belongs to, if it is far from where it was.
TrackKnown ==
  /\ ~ touch.broken /\ next \in DOMAIN trackPnts
  /\ trackPnts[next] \in currentPoints
  /\ \E far \in BOOLEAN :
       touch' = IF touch.cursor # None /\ far
                  THEN Shown(touch, touch.cursor, trackPnts[next]) ELSE touch
  /\ next' = next + 1
  /\ UNCHANGED <<currentPoints, trackPnts, isSendingTUIO, randomOn, randomAt, used>>

\* A point that is not known gets a cursor.
TrackNew ==
  /\ ~ touch.broken /\ next \in DOMAIN trackPnts
  /\ trackPnts[next] \notin currentPoints
  /\ touch' \in Added(touch, trackPnts[next])
  /\ currentPoints' = currentPoints \cup {trackPnts[next]}
  /\ next' = next + 1
  /\ UNCHANGED <<trackPnts, isSendingTUIO, randomOn, randomAt, used>>

\* What randomSignal makes of the cursors when its time has come: the last one is
\* released, and the mouse is pressed somewhere.
Signalled(place) ==
  LET released == IF randomAt = None THEN {touch} ELSE Released(touch, randomAt)
  IN  UNION {IF t.broken \/ ~ isSendingTUIO THEN {t}
             ELSE UNION {Pressed(t, k, 1) : k \in Matches(t, place)} : t \in released}

RandomSignal ==
  /\ randomOn
  /\ \E place \in Places :
       /\ \E t \in Signalled(place) : touch' = Committed(t)
       /\ randomAt' = place
  /\ Uses(2)

\* The end of update(): the random signal, the frame that is sent, and the points
\* to know next time.
EndUpdate ==
  /\ ~ touch.broken /\ next = Len(trackPnts) + 1
  /\ RandomSignal \/ (touch' = Committed(touch) /\ UNCHANGED <<randomAt, used>>)
  /\ currentPoints' = ToSet(trackPnts)
  /\ trackPnts' = <<>> /\ next' = 0
  /\ UNCHANGED <<isSendingTUIO, randomOn>>

-----------------------------------------------------------------------------
Handled ==
  /\ ~ touch.broken /\ next = 0
  /\ UNCHANGED <<currentPoints, trackPnts, next>>

MousePressed ==
  /\ Handled
  /\ isSendingTUIO
  /\ \E place \in Places, button \in {0, 2} : \E k \in Matches(touch, place) :
       /\ k = 0 /\ button = 2 => MaxSticky \notin DOMAIN touch.sticky \cup {0}
       /\ touch' \in Pressed(touch, k, button)
       /\ Uses(IF button = 2 THEN 3 ELSE 2)
  /\ UNCHANGED <<isSendingTUIO, randomOn, randomAt>>

MouseDragged ==
  /\ Handled
  /\ isSendingTUIO
  /\ touch.cursor # None
  /\ touch' = Shown(touch, touch.cursor, Mouse)
  /\ Uses(2)
  /\ UNCHANGED <<isSendingTUIO, randomOn, randomAt>>

MouseReleased ==
  /\ Handled
  /\ touch.cursor # None
  /\ \E place \in Places : touch' \in Released(touch, place)
  /\ Uses(2)
  /\ UNCHANGED <<isSendingTUIO, randomOn, randomAt>>

\* ' ' stops and starts sending, '+' and '-' change the frequency of the random
\* signal, of which only whether there is one is kept.
KeyPressed ==
  /\ Handled
  /\ \/ isSendingTUIO' = ~ isSendingTUIO /\ UNCHANGED randomOn
     \/ randomOn' = TRUE /\ UNCHANGED isSendingTUIO
     \/ randomOn /\ randomOn' \in BOOLEAN /\ UNCHANGED isSendingTUIO
  /\ UNCHANGED <<touch, randomAt, used>>

\* No step follows the use of a deleted cursor: anything may happen then.
Next ==
  /\ \/ BeginUpdate \/ TrackKnown \/ TrackNew \/ EndUpdate
     \/ MousePressed \/ MouseDragged \/ MouseReleased \/ KeyPressed
  /\ BagCardinality(touch'.free) <= MaxFree

Spec == Init /\ [][Next]_vars

-----------------------------------------------------------------------------
\* Types of all variables.
TypeOK ==
  /\ touch = [mem |-> touch.mem, list |-> touch.list, free |-> touch.free,
              max |-> touch.max, cursor |-> touch.cursor, sticky |-> touch.sticky,
              broken |-> touch.broken]
  /\ touch.mem \in [Memory(touch) -> [id : Nat, shows : Points \cup {Mouse, None}]]
  /\ IsABag(touch.list) /\ IsABag(touch.free)
  /\ Memory(touch) \cup Live(touch) \cup Free(touch) \subseteq Cursors
  /\ touch.max \in Nat \cup {-1}
  /\ touch.cursor \in Cursors \cup {None}
  /\ DOMAIN touch.sticky \subseteq 1..MaxSticky /\ Sticky(touch) \subseteq Cursors
  /\ touch.broken \in BOOLEAN
  /\ currentPoints \subseteq Points
  /\ trackPnts \in Seq(Points)
  /\ next \in 0..(Len(trackPnts) + 1)
  /\ isSendingTUIO \in BOOLEAN /\ randomOn \in BOOLEAN
  /\ used \in 0..3
  /\ randomAt \in Places \cup {None}

\* The remembered cursor has not been deleted: testApp.cpp hands the pointer to
\* updateTuioCursor and removeTuioCursor and reads its time (324) long after it got
\* it, and points, mouse and random signal all delete cursors.  It is also one that
\* the server still shows, unless it is a sticky one: of those getMatch picks up
\* (290) one that the server has removed and only keeps for reuse.
CursorAlive ==
  ~ touch.broken /\ touch.cursor # None =>
    /\ touch.cursor \in Memory(touch)
    /\ touch.cursor \in Live(touch) \cup Sticky(touch)

\* The lists of the server hold no deleted cursor, and what is on freeCursorList is
\* there once, and not on cursorList.
ListsSound(t) ==
  /\ Live(t) \cup Free(t) \subseteq Memory(t)
  /\ \A f \in Free(t) : f \notin Live(t) /\ t.free[f] = 1

\* Up to the first sticky cursor the application has each cursor removed once at
\* most: whatever the order of points, left button and random signal, nothing
\* deleted is used and no cursor is freed twice.
RemovedOnce == used < 3 => ~ touch.broken /\ ListsSound(touch)

\* While the camera has only ever seen one point at a time and nobody used the
\* mouse, the server shows exactly the point that is tracked, also when one
\* point takes the place of another between two updates.  (Which point a cursor
\* shows, not where on its way the point is: small steps are not sent.)
OneTouchShown ==
  used = 0 /\ next = 0 =>
    /\ Cardinality(Live(touch)) = Cardinality(currentPoints)
    /\ \A c \in Live(touch) : touch.mem[c].shows \in currentPoints

\* The cursors that only cursorList has a pointer to any more.
Forgotten ==
  (Live(touch) \cap Memory(touch)) \ (Free(touch) \cup {touch.cursor} \cup Sticky(touch))

\* A cursor that the application has forgotten stays on the server for good,
\* where it was: nothing moves it, removes it or picks it up again.
ForgottenStays ==
  [][\A c \in Forgotten : c \in Forgotten' /\ touch.mem[c] = touch.mem'[c]]_vars

\* "delete points that disapeared" (testApp.cpp:67): after an update no cursor
\* shows a point that is not tracked any more, if nobody used the mouse.
DisappearedRemoved ==
  used < 2 /\ next = 0 => \A c \in Live(touch) : touch.mem[c].shows \in currentPoints
=============================================================================
