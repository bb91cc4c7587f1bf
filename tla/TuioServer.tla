----------------------------- MODULE TuioServer -----------------------------
(***************************************************************************)
(* The TUIO encoder, class TuioServer: it keeps the objects and cursors    *)
(* that a tracker reports between initFrame and commitFrame, and sends     *)
(* their changes as OSC bundles over UDP.                                  *)
(*                                                                         *)
(* The code has the same members twice, once per TUIO profile (objectList  *)
(* and cursorList, updateObject and updateCursor, ...).  Here each pair is *)
(* one function of the profile; only cursors also have a cursor id.        *)
(*                                                                         *)
(* Each action is one call of the public interface.  The calls are not     *)
(* guarded by the frame protocol, because the code does not guard them.    *)
(***************************************************************************)
EXTENDS CursorPool, Sequences

CONSTANTS
  Profiles,        \* the profiles in use, a subset of {"cur", "obj"}
  Positions,       \* the places a cursor or an object can be at
  MaxSpeed,        \* speeds are 0 .. MaxSpeed
  SetsPerBundle,   \* set messages that fit in a packet after the alive message
  TicksPerSecond,  \* frame times are in ticks, heartbeats in seconds
  ExternalProfiles,\* profiles of which the application makes containers itself
  ExternalIDs,     \* cursor ids that the application gives to its own cursors
  MaxSession,      \* bound on the session ids handed out
  MaxFrame,        \* bound on the frames begun
  MaxTime          \* bound on the frame time

ASSUME ServerAssumption ==
  /\ Profiles \subseteq {"cur", "obj"}
  /\ Positions # {}
  /\ MaxSpeed \in Nat \ {0}
  /\ SetsPerBundle \in Nat \ {0}
  /\ TicksPerSecond \in Nat \ {0}
  /\ ExternalProfiles \subseteq Profiles
  /\ ExternalIDs \subseteq Nat
  /\ MaxSession \in Nat
  /\ MaxFrame \in Nat
  /\ MaxTime \in Nat

VARIABLES
  list,             \* objectList and cursorList: session id -> container
  pool,             \* cursor id allocation (ids of cursorList included)
  granted,          \* session ids the application took with getSessionID and
                    \* does not have in a list
  external,         \* sessions in a list whose container the application owns
  sessionID,        \* the last session id handed out
  currentFrame,     \* number of the current frame
  currentFrameTime, \* time of the current frame, in ticks
  update,           \* updateObject and updateCursor: is there news to send
  lastUpdate,       \* second of the last heartbeat, lastObjectUpdate and
                    \* lastCursorUpdate
  fullUpdate,       \* full_update: send a set message for every container
  periodicUpdate,   \* periodic_update: a thread sends full messages
  connected,
  sweeping,         \* the profile whose list removeUntouchedStopped... walks
  out               \* the bundles the last call sent, per profile

vars == <<list, pool, granted, external, sessionID, currentFrame,
          currentFrameTime, update, lastUpdate, fullUpdate, periodicUpdate,
          connected, sweeping, out>>

None == "none"

Sessions == 0..MaxSession

-----------------------------------------------------------------------------
(***************************************************************************)
(* Containers: what TuioContainer keeps of an object or a cursor.          *)
(***************************************************************************)
Container == [time  : 0..MaxTime,
              pos   : Positions,
              speed : 0..MaxSpeed,
              state : {"added", "accelerating", "decelerating", "stopped"}]

Fresh(pos) ==
  [time |-> currentFrameTime, pos |-> pos, speed |-> 0, state |-> "added"]

\* The speeds at which a container can get from c.pos to pos.
SpeedsTo(c, pos) == IF pos = c.pos THEN {0} ELSE 1..MaxSpeed

Moved(c, pos, speed) ==
  [time  |-> currentFrameTime,
   pos   |-> pos,
   speed |-> speed,
   state |-> IF speed > c.speed THEN "accelerating"
             ELSE IF speed < c.speed THEN "decelerating" ELSE "stopped"]

IsMoving(c) == c.state \in {"accelerating", "decelerating"}

Touched(p) == {s \in DOMAIN list[p] : list[p][s].time = currentFrameTime}

-----------------------------------------------------------------------------
(***************************************************************************)
(* Bundles: an alive message with all sessions of the list, set messages   *)
(* for some of them, and an fseq message.                                  *)
(***************************************************************************)
Content(c) == [pos |-> c.pos, speed |-> c.speed]

\* Slip (see README, mutants): only what changed is alive.
BundleOfChanges(p, S, fseq) ==
  [profile |-> p,
   alive   |-> S,
   sets    |-> [s \in S |-> Content(list[p][s])],
   fseq    |-> fseq]

Bundle(p, S, fseq) ==
  [profile |-> p,
   alive   |-> DOMAIN list[p],
   sets    |-> [s \in S |-> Content(list[p][s])],
   fseq    |-> fseq]

\* The set messages of S may not all fit in one packet: walking the list, a
\* packet that has no room left is sent and the next one begun before every
\* container, whether that container has a set message or not.  Lists are
\* walked in the order of their session ids.
PacketOf(S, s) == Cardinality({t \in S : t < s}) \div SetsPerBundle

LastPacket(p, S) ==
  IF DOMAIN list[p] = {} THEN 0 ELSE PacketOf(S, Greatest(DOMAIN list[p]))

Bundles(p, S, fseq) ==
  [i \in 1..LastPacket(p, S) + 1 |->
     Bundle(p, {s \in S : PacketOf(S, s) = i - 1}, fseq)]

\* An alive message alone, with the sessions of the list.
Heartbeat(p, fseq) == <<Bundle(p, {}, fseq)>>

\* sendEmptyObjectBundle and sendEmptyCursorBundle, whatever the list holds.
EmptyBundle(p) ==
  <<[profile |-> p, alive |-> {}, sets |-> EmptyMap, fseq |-> -1]>>

Silent == out' = [p \in Profiles |-> <<>>]

-----------------------------------------------------------------------------
Init ==
  /\ list = [p \in Profiles |-> EmptyMap]
  /\ pool = EmptyPool
  /\ granted = {}
  /\ external = {}
  /\ sessionID = -1
  /\ currentFrame = -1
  /\ currentFrameTime = 0
  /\ update = [p \in Profiles |-> FALSE]
  /\ lastUpdate = [p \in Profiles |-> 0]
  /\ fullUpdate = FALSE
  /\ periodicUpdate = FALSE
  /\ connected = TRUE
  /\ sweeping = None
  /\ out = [p \in Profiles |-> EmptyBundle(p)]

Idle == connected /\ sweeping = None

frameVars  == <<currentFrame, currentFrameTime>>
sendVars   == <<lastUpdate, fullUpdate, periodicUpdate, connected>>
sessionVars == <<granted, external, sessionID>>

\* Put container c of session s in the list and mark the list as changed.
Put(p, s, c) ==
  /\ list' = [list EXCEPT ![p] = With(@, s, c)]
  /\ update' = [update EXCEPT ![p] = TRUE]

\* Slip (see README, mutants): a removal is no news.
TakeUnmarked(p, s) ==
  /\ list' = [list EXCEPT ![p] = Without(@, {s})]
  /\ UNCHANGED update

Take(p, s) ==
  /\ list' = [list EXCEPT ![p] = Without(@, {s})]
  /\ update' = [update EXCEPT ![p] = TRUE]

-----------------------------------------------------------------------------
AddTuioObject(pos) ==
  /\ Idle
  /\ "obj" \in Profiles
  /\ sessionID < MaxSession
  /\ sessionID' = sessionID + 1
  /\ Put("obj", sessionID + 1, Fresh(pos))
  /\ Silent
  /\ UNCHANGED <<pool, granted, external, frameVars, sendVars, sweeping>>

\* Slip (see README, mutants): the session id is not advanced.
AddTuioCursorSameSession(pos) ==
  /\ Idle
  /\ "cur" \in Profiles
  /\ sessionID < MaxSession
  /\ pool' \in AddCursor(pool, sessionID + 1)
  /\ Put("cur", sessionID + 1, Fresh(pos))
  /\ Silent
  /\ UNCHANGED <<sessionVars, frameVars, sendVars, sweeping>>

AddTuioCursor(pos) ==
  /\ Idle
  /\ "cur" \in Profiles
  /\ sessionID < MaxSession
  /\ sessionID' = sessionID + 1
  /\ pool' \in AddCursor(pool, sessionID + 1)
  /\ Put("cur", sessionID + 1, Fresh(pos))
  /\ Silent
  /\ UNCHANGED <<granted, external, frameVars, sendVars, sweeping>>

\* A container that was already touched in this frame keeps its state.
UpdateTuio(p, s, pos) ==
  /\ Idle
  /\ s \in DOMAIN list[p] \ external
  /\ \/ /\ s \notin Touched(p)
        /\ \E speed \in SpeedsTo(list[p][s], pos) :
             Put(p, s, Moved(list[p][s], pos, speed))
     \/ /\ s \in Touched(p)
        /\ UNCHANGED <<list, update>>
  /\ Silent
  /\ UNCHANGED <<pool, sessionVars, frameVars, sendVars, sweeping>>

RemoveTuioObject(s) ==
  /\ Idle
  /\ "obj" \in Profiles
  /\ s \in DOMAIN list["obj"] \ external
  /\ Take("obj", s)
  /\ Silent
  /\ UNCHANGED <<pool, sessionVars, frameVars, sendVars, sweeping>>

RemoveTuioCursor(s) ==
  /\ Idle
  /\ "cur" \in Profiles
  /\ s \in DOMAIN list["cur"] \ external
  /\ Take("cur", s)
  /\ pool' = RemoveCursor(pool, s, s)
  /\ Silent
  /\ UNCHANGED <<sessionVars, frameVars, sendVars, sweeping>>

-----------------------------------------------------------------------------
(***************************************************************************)
(* Containers that the application creates, updates and deletes itself.    *)
(***************************************************************************)
\* Slip (see README, mutants): the session id is not advanced.
GetSessionIDAgain ==
  /\ Idle
  /\ ExternalProfiles # {}
  /\ sessionID < MaxSession
  /\ granted' = granted \cup {sessionID + 1}
  /\ Silent
  /\ UNCHANGED <<list, pool, sessionID, external, frameVars, update, sendVars,
                 sweeping>>

GetSessionID ==
  /\ Idle
  /\ ExternalProfiles # {}
  /\ sessionID < MaxSession
  /\ sessionID' = sessionID + 1
  /\ granted' = granted \cup {sessionID + 1}
  /\ Silent
  /\ UNCHANGED <<list, pool, external, frameVars, update, sendVars, sweeping>>

AddExternalTuio(p, s, id, pos) ==
  /\ Idle
  /\ s \in granted
  /\ granted' = granted \ {s}
  /\ external' = external \cup {s}
  /\ Put(p, s, Fresh(pos))
  /\ pool' = IF p = "cur" THEN AddExternal(pool, s, id) ELSE pool
  /\ Silent
  /\ UNCHANGED <<sessionID, frameVars, sendVars, sweeping>>

\* Slip (see README, mutants): a movement is no news.
UpdateExternalTuioUnmarked(p, s, pos) ==
  /\ Idle
  /\ s \in DOMAIN list[p] \cap external
  /\ s \notin Touched(p)
  /\ \E speed \in SpeedsTo(list[p][s], pos) :
       list' = [list EXCEPT ![p][s] = Moved(@, pos, speed)]
  /\ Silent
  /\ UNCHANGED <<pool, update, sessionVars, frameVars, sendVars, sweeping>>

\* The application updates its container and tells the server.
UpdateExternalTuio(p, s, pos) ==
  /\ Idle
  /\ s \in DOMAIN list[p] \cap external
  /\ s \notin Touched(p)
  /\ \E speed \in SpeedsTo(list[p][s], pos) :
       Put(p, s, Moved(list[p][s], pos, speed))
  /\ Silent
  /\ UNCHANGED <<pool, sessionVars, frameVars, sendVars, sweeping>>

RemoveExternalTuio(p, s) ==
  /\ Idle
  /\ s \in DOMAIN list[p] \cap external
  /\ granted' = granted \cup {s}
  /\ external' = external \ {s}
  /\ Take(p, s)
  /\ pool' = IF p = "cur" THEN RemoveExternal(pool, s) ELSE pool
  /\ Silent
  /\ UNCHANGED <<sessionID, frameVars, sendVars, sweeping>>

-----------------------------------------------------------------------------
(***************************************************************************)
(* Frames.                                                                 *)
(***************************************************************************)
Seconds(t) == t \div TicksPerSecond

InitFrame(ttime) ==
  /\ Idle
  /\ currentFrame < MaxFrame
  /\ currentFrameTime' = ttime
  /\ currentFrame' = currentFrame + 1
  /\ Silent
  /\ UNCHANGED <<list, pool, sessionVars, update, sendVars, sweeping>>

\* A list without news still gets one alive message per second, unless the
\* periodic messages do that.
HeartbeatDue(p) ==
  /\ ~update[p]
  /\ ~periodicUpdate
  /\ lastUpdate[p] < Seconds(currentFrameTime)

CommitFrame ==
  /\ Idle
  /\ out' = [p \in Profiles |->
               IF update[p]
                 THEN Bundles(p,
                              IF fullUpdate THEN DOMAIN list[p] ELSE Touched(p),
                              currentFrame)
                 ELSE IF HeartbeatDue(p) THEN Heartbeat(p, currentFrame) ELSE <<>>]
  /\ lastUpdate' = [p \in Profiles |-> IF HeartbeatDue(p)
                                         THEN Seconds(currentFrameTime)
                                         ELSE lastUpdate[p]]
  /\ update' = [p \in Profiles |-> FALSE]
  /\ UNCHANGED <<list, pool, sessionVars, frameVars, fullUpdate,
                 periodicUpdate, connected, sweeping>>

\* Slip (see README, mutants): full messages carry a frame number.
SendFullMessagesNumbered ==
  /\ Idle
  /\ out' = [p \in Profiles |-> Bundles(p, DOMAIN list[p], currentFrame)]
  /\ UNCHANGED <<list, pool, sessionVars, frameVars, update, sendVars, sweeping>>

\* Called by the application or by the thread of enablePeriodicMessages.
SendFullMessages ==
  /\ Idle
  /\ out' = [p \in Profiles |-> Bundles(p, DOMAIN list[p], -1)]
  /\ UNCHANGED <<list, pool, sessionVars, frameVars, update, sendVars, sweeping>>

SetPeriodicMessages(enabled) ==
  /\ Idle
  /\ periodicUpdate # enabled
  /\ periodicUpdate' = enabled
  /\ Silent
  /\ UNCHANGED <<list, pool, sessionVars, frameVars, update, lastUpdate,
                 fullUpdate, connected, sweeping>>

SetFullUpdate(enabled) ==
  /\ Idle
  /\ fullUpdate # enabled
  /\ fullUpdate' = enabled
  /\ Silent
  /\ UNCHANGED <<list, pool, sessionVars, frameVars, update, lastUpdate,
                 periodicUpdate, connected, sweeping>>

-----------------------------------------------------------------------------
(***************************************************************************)
(* Housekeeping of the containers that the frame did not touch.            *)
(***************************************************************************)
UntouchedMoving(p) == {s \in DOMAIN list[p] \ Touched(p) : IsMoving(list[p][s])}

UntouchedStopped(p) == (DOMAIN list[p] \ Touched(p)) \ UntouchedMoving(p)

StopUntouchedMoving(p) ==
  /\ Idle
  /\ list' = [list EXCEPT ![p] =
                [s \in DOMAIN @ |-> IF s \in UntouchedMoving(p)
                                      THEN Moved(@[s], @[s].pos, 0) ELSE @[s]]]
  /\ update' = [update EXCEPT ![p] = @ \/ UntouchedMoving(p) # {}]
  /\ Silent
  /\ UNCHANGED <<pool, sessionVars, frameVars, sendVars, sweeping>>

\* The removal loop starts over from the head of the list after each removal.
\* It also removes the containers that the application owns.
BeginRemoveUntouchedStopped(p) ==
  /\ Idle
  /\ UntouchedStopped(p) # {}
  /\ sweeping' = p
  /\ Silent
  /\ UNCHANGED <<list, pool, sessionVars, frameVars, update, sendVars>>

RemoveNextUntouchedStopped(p) ==
  /\ sweeping = p
  /\ \E s \in UntouchedStopped(p) :
       /\ \A t \in UntouchedStopped(p) : s <= t
       /\ Take(p, s)
       /\ pool' = IF p = "cur" THEN RemoveCursor(pool, s, s) ELSE pool
       /\ external' = external \ {s}
       /\ sweeping' = IF UntouchedStopped(p) = {s} THEN None ELSE p
  /\ Silent
  /\ UNCHANGED <<granted, sessionID, frameVars, sendVars>>

\* The destructor tells the clients that nothing is alive any more.
Destroy ==
  /\ Idle
  /\ connected' = FALSE
  /\ out' = [p \in Profiles |-> EmptyBundle(p)]
  /\ UNCHANGED <<list, pool, sessionVars, frameVars, update, lastUpdate,
                 fullUpdate, periodicUpdate, sweeping>>

-----------------------------------------------------------------------------
\* The calls that report what the tracker sees.
Change ==
  \/ \E pos \in Positions : AddTuioObject(pos)
  \/ \E pos \in Positions : AddTuioCursor(pos)
  \/ \E p \in Profiles, s \in Sessions, pos \in Positions : UpdateTuio(p, s, pos)
  \/ \E s \in Sessions : RemoveTuioObject(s)
  \/ \E s \in Sessions : RemoveTuioCursor(s)
  \/ GetSessionID
  \/ \E p \in ExternalProfiles, s \in Sessions, id \in ExternalIDs,
        pos \in Positions :
       AddExternalTuio(p, s, id, pos)
  \/ \E p \in Profiles, s \in Sessions, pos \in Positions :
       UpdateExternalTuio(p, s, pos)
  \/ \E p \in Profiles, s \in Sessions : RemoveExternalTuio(p, s)
  \/ \E p \in Profiles : StopUntouchedMoving(p)
  \/ \E p \in Profiles : BeginRemoveUntouchedStopped(p)
  \/ \E p \in Profiles : RemoveNextUntouchedStopped(p)

\* The calls that an application or the periodic thread makes at any time.
Control ==
  \/ SendFullMessages
  \/ \E enabled \in BOOLEAN : SetPeriodicMessages(enabled)
  \/ \E enabled \in BOOLEAN : SetFullUpdate(enabled)
  \/ Destroy

BeginFrame == \E ttime \in currentFrameTime..MaxTime : InitFrame(ttime)

Next == Change \/ Control \/ BeginFrame \/ CommitFrame

Spec == Init /\ [][Next]_vars

-----------------------------------------------------------------------------
IsList(l) ==
  /\ l = [s \in DOMAIN l |-> l[s]]
  /\ DOMAIN l \subseteq 0..sessionID
  /\ \A s \in DOMAIN l : l[s] \in Container

(***************************************************************************)
(* Every variable of the server holds a value of its type, and the id      *)
(* allocation knows exactly the cursors of the cursor list.                *)
(***************************************************************************)
TypeOK ==
  /\ list = [p \in Profiles |-> list[p]]
  /\ \A p \in Profiles : IsList(list[p])
  /\ IsPool(pool)
  /\ DOMAIN pool.active = IF "cur" \in Profiles THEN DOMAIN list["cur"] ELSE {}
  /\ DOMAIN pool.free \subseteq 0..sessionID
  /\ granted \subseteq 0..sessionID
  /\ external \subseteq 0..sessionID
  /\ sessionID \in -1..MaxSession
  /\ currentFrame \in -1..MaxFrame
  /\ currentFrameTime \in 0..MaxTime
  /\ update \in [Profiles -> BOOLEAN]
  /\ lastUpdate \in [Profiles -> Nat]
  /\ fullUpdate \in BOOLEAN
  /\ periodicUpdate \in BOOLEAN
  /\ connected \in BOOLEAN
  /\ sweeping \in Profiles \cup {None}
  /\ DOMAIN out = Profiles

(***************************************************************************)
(* A session id names one thing: no session is in two lists, or in a list  *)
(* while it is in the free list or while the application still holds it    *)
(* for a container that it has not added (TuioServer::getSessionID,        *)
(* TuioContainer.h: "the unique session ID number").                       *)
(***************************************************************************)
SessionsUnique ==
  /\ \A p, q \in Profiles : p # q => DOMAIN list[p] \cap DOMAIN list[q] = {}
  /\ \A p \in Profiles : DOMAIN list[p] \cap (granted \cup DOMAIN pool.free) = {}
  /\ granted \cap (external \cup DOMAIN pool.free) = {}

(***************************************************************************)
(* The free list, maxCursorID and the size of cursorList stay in step      *)
(* through every order of additions, removals and removal sweeps, so that  *)
(* the id that addTuioCursor computes from the size is never one in use.   *)
(* Cursors of the application break this: addExternalTuioCursor lengthens  *)
(* the list whose size is the next id.                                     *)
(***************************************************************************)
CursorIdsConsistent == "cur" \notin ExternalProfiles => PoolConsistent(pool)

(***************************************************************************)
(* The cursor ids of the server are those of CursorSlots: free list,       *)
(* counter and reuse rule implement "any gap first, else the next id".     *)
(***************************************************************************)
Slots == INSTANCE CursorSlots WITH Cursors <- Sessions, held <- pool.active

SlotsKept == Slots!Spec
=============================================================================
