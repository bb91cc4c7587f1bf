--------------------------- MODULE TuioServerProofs -------------------------
(***************************************************************************)
(* Theorems about TuioServer, for every value of its constants: whatever   *)
(* the order of the calls, types, session ids and cursor ids stay right.   *)
(***************************************************************************)
EXTENDS TuioServer, CursorPoolProofs

USE ServerAssumption

-----------------------------------------------------------------------------
(***************************************************************************)
(* What putting a container in a list, and taking one out, does to it.     *)
(***************************************************************************)
LEMMA FreshType ==
  ASSUME TypeOK, NEW pos \in Positions
  PROVE  Fresh(pos) \in Container
BY DEF TypeOK, Fresh, Container

LEMMA MovedType ==
  ASSUME TypeOK, NEW c \in Container, NEW pos \in Positions,
         NEW speed \in SpeedsTo(c, pos)
  PROVE  Moved(c, pos, speed) \in Container
<1>1. speed \in 0..MaxSpeed
  BY DEF SpeedsTo
<1> QED
  BY <1>1 DEF TypeOK, Moved, Container

LEMMA PutType ==
  ASSUME TypeOK, NEW p \in Profiles, NEW s \in 0..sessionID',
         NEW c \in Container,
         sessionID' \in {sessionID, sessionID + 1},
         Put(p, s, c)
  PROVE  /\ list' = [q \in Profiles |-> list'[q]]
         /\ \A q \in Profiles : IsList(list[q])'
         /\ update' \in [Profiles -> BOOLEAN]
         /\ DOMAIN list'[p] = DOMAIN list[p] \cup {s}
         /\ \A q \in Profiles \ {p} : list'[q] = list[q]
<1>1. sessionID \in Int /\ sessionID' \in Int /\ sessionID <= sessionID'
  BY DEF TypeOK
<1>2. list' = [list EXCEPT ![p] = With(@, s, c)]
  BY DEF Put
<1>3. list'[p] = With(list[p], s, c) /\ \A q \in Profiles \ {p} : list'[q] = list[q]
  BY <1>2 DEF TypeOK
<1>4. IsList(list[p])'
  BY <1>1, <1>3 DEF TypeOK, IsList, With
<1>5. \A q \in Profiles \ {p} : IsList(list[q])'
  BY <1>1, <1>3 DEF TypeOK, IsList
<1>6. update' \in [Profiles -> BOOLEAN]
  BY DEF Put, TypeOK
<1> QED
  BY <1>2, <1>3, <1>4, <1>5, <1>6 DEF TypeOK, With

LEMMA TakeType ==
  ASSUME TypeOK, NEW p \in Profiles, NEW s \in DOMAIN list[p],
         sessionID' = sessionID,
         Take(p, s)
  PROVE  /\ list' = [q \in Profiles |-> list'[q]]
         /\ \A q \in Profiles : IsList(list[q])'
         /\ update' \in [Profiles -> BOOLEAN]
         /\ DOMAIN list'[p] = DOMAIN list[p] \ {s}
         /\ \A q \in Profiles \ {p} : list'[q] = list[q]
<1>1. list' = [list EXCEPT ![p] = Without(@, {s})]
  BY DEF Take
<1>2. list'[p] = Without(list[p], {s}) /\ \A q \in Profiles \ {p} : list'[q] = list[q]
  BY <1>1 DEF TypeOK
<1>3. IsList(list[p])'
  BY <1>2 DEF TypeOK, IsList, Without
<1>4. \A q \in Profiles \ {p} : IsList(list[q])'
  BY <1>2 DEF TypeOK, IsList
<1>5. update' \in [Profiles -> BOOLEAN]
  BY DEF Take, TypeOK
<1> QED
  BY <1>1, <1>2, <1>3, <1>4, <1>5 DEF TypeOK, Without

(***************************************************************************)
(* The cursors of the pool are finitely many: sessions are numbered.       *)
(***************************************************************************)
LEMMA PoolFinite ==
  ASSUME TypeOK
  PROVE  IsFiniteSet(DOMAIN pool.active)
<1>1. sessionID \in Int /\ sessionID >= -1
  BY DEF TypeOK
<1>2. DOMAIN pool.active \subseteq 0..sessionID
  BY DEF TypeOK, IsList
<1> QED
  BY <1>1, <1>2, IdsUpTo, FS_Subset

-----------------------------------------------------------------------------
(***************************************************************************)
(* TypeOK is inductive.                                                    *)
(***************************************************************************)
LEMMA TypeInit == Init => TypeOK
<1> SUFFICES ASSUME Init PROVE TypeOK
  OBVIOUS
<1>1. DOMAIN EmptyMap = {} /\ EmptyMap = [s \in DOMAIN EmptyMap |-> EmptyMap[s]]
  BY DEF EmptyMap
<1>2. IsPool(pool) /\ DOMAIN pool.active = {} /\ DOMAIN pool.free = {}
  BY <1>1 DEF Init, EmptyPool, IsPool
<1>3. \A p \in Profiles : DOMAIN list[p] = {} /\ IsList(list[p])
  BY <1>1 DEF Init, IsList
<1>4. /\ list = [p \in Profiles |-> list[p]]
      /\ update \in [Profiles -> BOOLEAN]
      /\ lastUpdate \in [Profiles -> Nat]
      /\ DOMAIN out = Profiles
  BY DEF Init
<1>5. /\ sessionID \in -1..MaxSession
      /\ currentFrame \in -1..MaxFrame
      /\ currentFrameTime \in 0..MaxTime
  BY DEF Init
<1>6. DOMAIN pool.active = IF "cur" \in Profiles THEN DOMAIN list["cur"] ELSE {}
  BY <1>2, <1>3
<1>7. /\ granted = {} /\ external = {}
      /\ fullUpdate = FALSE /\ periodicUpdate = FALSE /\ connected = TRUE
      /\ sweeping = None
  BY DEF Init
<1> QED
  BY <1>2, <1>3, <1>4, <1>5, <1>6, <1>7 DEF TypeOK

LEMMA TypeChange == TypeOK /\ Change => TypeOK'
<1> SUFFICES ASSUME TypeOK, Change PROVE TypeOK'
  OBVIOUS
<1> USE DEF sessionVars, frameVars, sendVars, Silent
<1>0. sessionID \in Int /\ sessionID >= -1 /\ 0..sessionID \subseteq Int
  BY DEF TypeOK
<1>1. ASSUME NEW pos \in Positions, AddTuioObject(pos) PROVE TypeOK'
  <2>1. sessionID' = sessionID + 1 /\ sessionID + 1 \in 0..sessionID'
        /\ sessionID' \in -1..MaxSession
    BY <1>0, <1>1 DEF AddTuioObject, TypeOK
  <2>2. Fresh(pos) \in Container
    BY FreshType
  <2>3. "obj" \in Profiles /\ Put("obj", sessionID + 1, Fresh(pos))
    BY <1>1 DEF AddTuioObject
  <2>4. /\ list' = [q \in Profiles |-> list'[q]]
        /\ \A q \in Profiles : IsList(list[q])'
        /\ update' \in [Profiles -> BOOLEAN]
        /\ \A q \in Profiles \ {"obj"} : list'[q] = list[q]
    BY <2>1, <2>2, <2>3, PutType
  <2>5. 0..sessionID \subseteq 0..sessionID'
    BY <1>0, <2>1
  <2> QED
    BY <1>1, <2>1, <2>4, <2>5 DEF AddTuioObject, TypeOK
<1>2. ASSUME NEW pos \in Positions, AddTuioCursor(pos) PROVE TypeOK'
  <2>1. sessionID' = sessionID + 1 /\ sessionID + 1 \in 0..sessionID'
        /\ sessionID' \in -1..MaxSession
    BY <1>0, <1>2 DEF AddTuioCursor, TypeOK
  <2>2. Fresh(pos) \in Container
    BY FreshType
  <2>3. "cur" \in Profiles /\ Put("cur", sessionID + 1, Fresh(pos))
    BY <1>2 DEF AddTuioCursor
  <2>4. /\ list' = [q \in Profiles |-> list'[q]]
        /\ \A q \in Profiles : IsList(list[q])'
        /\ update' \in [Profiles -> BOOLEAN]
        /\ DOMAIN list'["cur"] = DOMAIN list["cur"] \cup {sessionID + 1}
    BY <2>1, <2>2, <2>3, PutType
  <2>5. 0..sessionID \subseteq 0..sessionID'
    BY <1>0, <2>1
  <2>6. pool' \in AddCursor(pool, sessionID + 1)
    BY <1>2 DEF AddTuioCursor
  <2>7. /\ IsPool(pool')
        /\ DOMAIN pool'.active = DOMAIN pool.active \cup {sessionID + 1}
        /\ DOMAIN pool'.free \subseteq DOMAIN pool.free
    BY <2>6, PoolFinite, AddCursorType DEF TypeOK
  <2> QED
    BY <1>2, <2>1, <2>3, <2>4, <2>5, <2>7 DEF AddTuioCursor, TypeOK
<1>3. ASSUME NEW p \in Profiles, NEW s \in Sessions, NEW pos \in Positions,
             UpdateTuio(p, s, pos)
      PROVE  TypeOK'
  <2>1. CASE s \notin Touched(p)
    <3>1. PICK speed \in SpeedsTo(list[p][s], pos) :
            Put(p, s, Moved(list[p][s], pos, speed))
      BY <1>3, <2>1 DEF UpdateTuio
    <3>2. s \in DOMAIN list[p] /\ sessionID' = sessionID
      BY <1>3 DEF UpdateTuio
    <3>3. list[p][s] \in Container /\ s \in 0..sessionID'
      BY <3>2 DEF TypeOK, IsList
    <3>4. Moved(list[p][s], pos, speed) \in Container
      BY <3>3, MovedType
    <3>5. /\ list' = [q \in Profiles |-> list'[q]]
          /\ \A q \in Profiles : IsList(list[q])'
          /\ update' \in [Profiles -> BOOLEAN]
          /\ \A q \in Profiles : DOMAIN list'[q] = DOMAIN list[q]
      BY <3>1, <3>2, <3>3, <3>4, PutType
    <3> QED
      BY <1>3, <3>5 DEF UpdateTuio, TypeOK
  <2>2. CASE s \in Touched(p)
    BY <1>3, <2>2 DEF UpdateTuio, TypeOK, IsList
  <2> QED
    BY <2>1, <2>2
<1>4. ASSUME NEW s \in Sessions, RemoveTuioObject(s) PROVE TypeOK'
  <2>1. "obj" \in Profiles /\ s \in DOMAIN list["obj"] /\ Take("obj", s)
        /\ sessionID' = sessionID
    BY <1>4 DEF RemoveTuioObject
  <2>2. /\ list' = [q \in Profiles |-> list'[q]]
        /\ \A q \in Profiles : IsList(list[q])'
        /\ update' \in [Profiles -> BOOLEAN]
        /\ \A q \in Profiles \ {"obj"} : list'[q] = list[q]
    BY <2>1, TakeType
  <2> QED
    BY <1>4, <2>2 DEF RemoveTuioObject, TypeOK
<1>5. ASSUME NEW s \in DOMAIN list["cur"], "cur" \in Profiles,
             Take("cur", s), pool' = RemoveCursor(pool, s, s),
             external' \subseteq external, sweeping' \in Profiles \cup {None},
             Silent,
             UNCHANGED <<granted, sessionID, frameVars, sendVars>>
      PROVE  TypeOK'
  <2>1. /\ list' = [q \in Profiles |-> list'[q]]
        /\ \A q \in Profiles : IsList(list[q])'
        /\ update' \in [Profiles -> BOOLEAN]
        /\ DOMAIN list'["cur"] = DOMAIN list["cur"] \ {s}
    BY <1>5, TakeType
  <2>2. s \in DOMAIN pool.active /\ s \in 0..sessionID
    BY <1>5 DEF TypeOK, IsList
  <2>3. /\ IsPool(pool')
        /\ DOMAIN pool'.active = DOMAIN pool.active \ {s}
        /\ DOMAIN pool'.free \subseteq DOMAIN pool.free \cup {s}
    BY <1>5, <2>2, PoolFinite, RemoveCursorType DEF TypeOK
  <2> QED
    BY <1>5, <2>1, <2>2, <2>3 DEF TypeOK
<1>6. ASSUME NEW s \in Sessions, RemoveTuioCursor(s) PROVE TypeOK'
  BY <1>5, <1>6 DEF RemoveTuioCursor, TypeOK
<1>7. CASE GetSessionID
  <2>1. sessionID' = sessionID + 1 /\ sessionID' \in -1..MaxSession
    BY <1>0, <1>7 DEF GetSessionID, TypeOK
  <2>2. 0..sessionID \subseteq 0..sessionID' /\ sessionID + 1 \in 0..sessionID'
    BY <1>0, <2>1
  <2> QED
    BY <1>7, <2>1, <2>2 DEF GetSessionID, TypeOK, IsList
<1>8. ASSUME NEW p \in ExternalProfiles, NEW s \in Sessions, NEW id \in ExternalIDs,
             NEW pos \in Positions, AddExternalTuio(p, s, id, pos)
      PROVE  TypeOK'
  <2>1. s \in granted /\ sessionID' = sessionID /\ Put(p, s, Fresh(pos))
        /\ p \in Profiles
    BY <1>8 DEF AddExternalTuio
  <2>2. s \in 0..sessionID' /\ Fresh(pos) \in Container
    BY <2>1, FreshType DEF TypeOK
  <2>3. /\ list' = [q \in Profiles |-> list'[q]]
        /\ \A q \in Profiles : IsList(list[q])'
        /\ update' \in [Profiles -> BOOLEAN]
        /\ DOMAIN list'[p] = DOMAIN list[p] \cup {s}
        /\ \A q \in Profiles \ {p} : list'[q] = list[q]
    BY <2>1, <2>2, PutType
  <2>4. id \in Nat
    OBVIOUS
  <2>5. CASE p = "cur"
    <3>1. pool' = [pool EXCEPT !.active = With(@, s, id)]
      BY <1>8, <2>5 DEF AddExternalTuio, AddExternal
    <3>2. /\ IsPool(pool')
          /\ DOMAIN pool'.active = DOMAIN pool.active \cup {s}
          /\ pool'.free = pool.free
      BY <2>4, <3>1 DEF TypeOK, IsPool, With
    <3> QED
      BY <1>8, <2>1, <2>2, <2>3, <2>5, <3>2 DEF AddExternalTuio, TypeOK
  <2>6. CASE p # "cur"
    BY <1>8, <2>1, <2>2, <2>3, <2>6 DEF AddExternalTuio, TypeOK
  <2> QED
    BY <2>5, <2>6
<1>9. ASSUME NEW p \in Profiles, NEW s \in Sessions, NEW pos \in Positions,
             UpdateExternalTuio(p, s, pos)
      PROVE  TypeOK'
  <2>1. PICK speed \in SpeedsTo(list[p][s], pos) :
          Put(p, s, Moved(list[p][s], pos, speed))
    BY <1>9 DEF UpdateExternalTuio
  <2>2. s \in DOMAIN list[p] /\ sessionID' = sessionID
    BY <1>9 DEF UpdateExternalTuio
  <2>3. list[p][s] \in Container /\ s \in 0..sessionID'
    BY <2>2 DEF TypeOK, IsList
  <2>4. Moved(list[p][s], pos, speed) \in Container
    BY <2>3, MovedType
  <2>5. /\ list' = [q \in Profiles |-> list'[q]]
        /\ \A q \in Profiles : IsList(list[q])'
        /\ update' \in [Profiles -> BOOLEAN]
        /\ \A q \in Profiles : DOMAIN list'[q] = DOMAIN list[q]
    BY <2>1, <2>2, <2>3, <2>4, PutType
  <2> QED
    BY <1>9, <2>5 DEF UpdateExternalTuio, TypeOK
<1>10. ASSUME NEW p \in Profiles, NEW s \in Sessions, RemoveExternalTuio(p, s)
       PROVE  TypeOK'
  <2>1. s \in DOMAIN list[p] /\ sessionID' = sessionID /\ Take(p, s)
    BY <1>10 DEF RemoveExternalTuio
  <2>2. /\ list' = [q \in Profiles |-> list'[q]]
        /\ \A q \in Profiles : IsList(list[q])'
        /\ update' \in [Profiles -> BOOLEAN]
        /\ DOMAIN list'[p] = DOMAIN list[p] \ {s}
        /\ \A q \in Profiles \ {p} : list'[q] = list[q]
    BY <2>1, TakeType
  <2>3. s \in 0..sessionID
    BY <2>1 DEF TypeOK, IsList
  <2>4. CASE p = "cur"
    <3>1. pool' = [pool EXCEPT !.active = Without(@, {s})]
      BY <1>10, <2>4 DEF RemoveExternalTuio, RemoveExternal
    <3>2. /\ IsPool(pool')
          /\ DOMAIN pool'.active = DOMAIN pool.active \ {s}
          /\ pool'.free = pool.free
      BY <3>1 DEF TypeOK, IsPool, Without
    <3> QED
      BY <1>10, <2>1, <2>2, <2>3, <2>4, <3>2 DEF RemoveExternalTuio, TypeOK
  <2>5. CASE p # "cur"
    BY <1>10, <2>1, <2>2, <2>3, <2>5 DEF RemoveExternalTuio, TypeOK
  <2> QED
    BY <2>4, <2>5
<1>11. ASSUME NEW p \in Profiles, StopUntouchedMoving(p) PROVE TypeOK'
  <2> DEFINE moving == UntouchedMoving(p)
  <2>1. ASSUME NEW s \in DOMAIN list[p]
        PROVE  Moved(list[p][s], list[p][s].pos, 0) \in Container
    <3>1. list[p][s] \in Container
      BY DEF TypeOK, IsList
    <3>2. list[p][s].pos \in Positions
      BY <3>1 DEF Container
    <3> QED
      BY <3>1, <3>2, MovedType DEF SpeedsTo
  <2>2. list' = [list EXCEPT ![p] =
                   [s \in DOMAIN @ |-> IF s \in moving
                                         THEN Moved(@[s], @[s].pos, 0) ELSE @[s]]]
    BY <1>11 DEF StopUntouchedMoving
  <2> HIDE DEF moving
  <2>3. /\ list'[p] = [s \in DOMAIN list[p] |->
                         IF s \in moving THEN Moved(list[p][s], list[p][s].pos, 0)
                         ELSE list[p][s]]
        /\ \A q \in Profiles \ {p} : list'[q] = list[q]
        /\ list' = [q \in Profiles |-> list'[q]]
    BY <2>2 DEF TypeOK
  <2>4. sessionID' = sessionID /\ update' \in [Profiles -> BOOLEAN]
    BY <1>11 DEF StopUntouchedMoving, TypeOK
  <2>5. \A q \in Profiles : IsList(list[q])'
    <3>1. DOMAIN list'[p] = DOMAIN list[p]
      BY <2>3
    <3>2. \A s \in DOMAIN list[p] : list'[p][s] \in Container
      BY <2>1, <2>3 DEF TypeOK, IsList
    <3>3. list'[p] = [s \in DOMAIN list'[p] |-> list'[p][s]]
      BY <2>3
    <3>4. IsList(list[p])'
      BY <2>4, <3>1, <3>2, <3>3 DEF TypeOK, IsList
    <3>5. \A q \in Profiles \ {p} : IsList(list[q])'
      BY <2>3, <2>4 DEF TypeOK, IsList
    <3> QED
      BY <3>4, <3>5
  <2>6. \A q \in Profiles : DOMAIN list'[q] = DOMAIN list[q]
    BY <2>3
  <2> QED
    BY <1>11, <2>3, <2>4, <2>5, <2>6 DEF StopUntouchedMoving, TypeOK
<1>12. ASSUME NEW p \in Profiles, BeginRemoveUntouchedStopped(p) PROVE TypeOK'
  BY <1>12 DEF BeginRemoveUntouchedStopped, TypeOK, IsList
<1>13. ASSUME NEW p \in Profiles, RemoveNextUntouchedStopped(p) PROVE TypeOK'
  <2>1. PICK s \in UntouchedStopped(p) :
          /\ Take(p, s)
          /\ pool' = IF p = "cur" THEN RemoveCursor(pool, s, s) ELSE pool
          /\ external' = external \ {s}
          /\ sweeping' = IF UntouchedStopped(p) = {s} THEN None ELSE p
    BY <1>13 DEF RemoveNextUntouchedStopped
  <2>2. s \in DOMAIN list[p]
    BY DEF UntouchedStopped
  <2>3. CASE p = "cur"
    BY <1>5, <1>13, <2>1, <2>2, <2>3 DEF RemoveNextUntouchedStopped
  <2>4. CASE p # "cur"
    <3>1. sessionID' = sessionID
      BY <1>13 DEF RemoveNextUntouchedStopped
    <3>2. /\ list' = [q \in Profiles |-> list'[q]]
          /\ \A q \in Profiles : IsList(list[q])'
          /\ update' \in [Profiles -> BOOLEAN]
          /\ \A q \in Profiles \ {p} : list'[q] = list[q]
      BY <2>1, <2>2, <3>1, TakeType
    <3> QED
      BY <1>13, <2>1, <2>4, <3>2 DEF RemoveNextUntouchedStopped, TypeOK
  <2> QED
    BY <2>3, <2>4
<1> QED
  BY <1>1, <1>2, <1>3, <1>4, <1>6, <1>7, <1>8, <1>9, <1>10, <1>11, <1>12, <1>13
  DEF Change

LEMMA TypeStep == TypeOK /\ [Next]_vars => TypeOK'
<1> SUFFICES ASSUME TypeOK, [Next]_vars PROVE TypeOK'
  OBVIOUS
<1> USE DEF sessionVars, frameVars, sendVars, Silent
<1>1. CASE Change
  BY <1>1, TypeChange
<1>2. CASE Control
  <2>1. CASE SendFullMessages
    BY <2>1 DEF SendFullMessages, TypeOK, IsList
  <2>2. ASSUME NEW enabled \in BOOLEAN, SetPeriodicMessages(enabled) PROVE TypeOK'
    BY <2>2 DEF SetPeriodicMessages, TypeOK, IsList
  <2>3. ASSUME NEW enabled \in BOOLEAN, SetFullUpdate(enabled) PROVE TypeOK'
    BY <2>3 DEF SetFullUpdate, TypeOK, IsList
  <2>4. CASE Destroy
    BY <2>4 DEF Destroy, TypeOK, IsList
  <2> QED
    BY <1>2, <2>1, <2>2, <2>3, <2>4 DEF Control
<1>3. ASSUME NEW ttime \in currentFrameTime..MaxTime, InitFrame(ttime) PROVE TypeOK'
  <2>1. currentFrameTime' \in 0..MaxTime /\ currentFrame' \in -1..MaxFrame
    BY <1>3 DEF InitFrame, TypeOK
  <2> QED
    BY <1>3, <2>1 DEF InitFrame, TypeOK, IsList
<1>4. CASE CommitFrame
  <2>1. Seconds(currentFrameTime) \in Nat
    BY DEF TypeOK, Seconds
  <2>2. lastUpdate' \in [Profiles -> Nat]
    BY <1>4, <2>1 DEF CommitFrame, TypeOK
  <2>3. update' \in [Profiles -> BOOLEAN] /\ DOMAIN out' = Profiles
    BY <1>4 DEF CommitFrame
  <2> QED
    BY <1>4, <2>2, <2>3 DEF CommitFrame, TypeOK, IsList
<1>5. CASE UNCHANGED vars
  BY <1>5 DEF vars, TypeOK, IsList
<1> QED
  BY <1>1, <1>2, <1>3, <1>4, <1>5 DEF Next, BeginFrame

(***************************************************************************)
(* Every variable of the server keeps its type.                            *)
(***************************************************************************)
THEOREM TypeCorrect == Spec => []TypeOK
BY TypeInit, TypeStep, PTL DEF Spec

-----------------------------------------------------------------------------
(***************************************************************************)
(* What a step does to the sessions and to the pool: nothing, or one       *)
(* session enters a list or leaves it, or changes hands with the           *)
(* application.                                                            *)
(***************************************************************************)
OnlyIn(p) == \A q \in Profiles \ {p} : DOMAIN list'[q] = DOMAIN list[q]

SessionsStay ==
  /\ \A p \in Profiles : DOMAIN list'[p] = DOMAIN list[p]
  /\ UNCHANGED <<pool, sessionVars>>

SessionEnters(p) ==
  /\ DOMAIN list'[p] = DOMAIN list[p] \cup {sessionID + 1}
  /\ OnlyIn(p)
  /\ sessionID' = sessionID + 1
  /\ IF p = "cur" THEN pool' \in AddCursor(pool, sessionID + 1) ELSE pool' = pool
  /\ UNCHANGED <<granted, external>>

SessionLeaves(p, s) ==
  /\ s \in DOMAIN list[p]
  /\ DOMAIN list'[p] = DOMAIN list[p] \ {s}
  /\ OnlyIn(p)
  /\ pool' = IF p = "cur" THEN RemoveCursor(pool, s, s) ELSE pool
  /\ external' = external \ {s}
  /\ UNCHANGED <<sessionID, granted>>

SessionGranted ==
  /\ \A p \in Profiles : DOMAIN list'[p] = DOMAIN list[p]
  /\ sessionID' = sessionID + 1
  /\ granted' = granted \cup {sessionID + 1}
  /\ UNCHANGED <<pool, external>>

ExternalEnters(p, s) ==
  /\ p \in ExternalProfiles
  /\ s \in granted
  /\ DOMAIN list'[p] = DOMAIN list[p] \cup {s}
  /\ OnlyIn(p)
  /\ granted' = granted \ {s}
  /\ external' = external \cup {s}
  /\ pool'.free = pool.free
  /\ p # "cur" => pool' = pool
  /\ UNCHANGED sessionID

ExternalLeaves(p, s) ==
  /\ s \in DOMAIN list[p] \cap external
  /\ DOMAIN list'[p] = DOMAIN list[p] \ {s}
  /\ OnlyIn(p)
  /\ granted' = granted \cup {s}
  /\ external' = external \ {s}
  /\ pool'.free = pool.free
  /\ p # "cur" => pool' = pool
  /\ UNCHANGED sessionID

SessionStep ==
  \/ SessionsStay
  \/ \E p \in Profiles : SessionEnters(p)
  \/ \E p \in Profiles : \E s \in DOMAIN list[p] : SessionLeaves(p, s)
  \/ SessionGranted
  \/ \E p \in Profiles : \E s \in granted : ExternalEnters(p, s)
  \/ \E p \in Profiles : \E s \in external : ExternalLeaves(p, s)

LEMMA SessionSteps == TypeOK /\ [Next]_vars => SessionStep
<1> SUFFICES ASSUME TypeOK, [Next]_vars PROVE SessionStep
  OBVIOUS
<1> USE DEF sessionVars, frameVars, sendVars
<1>0. sessionID \in Int /\ sessionID >= -1
  BY DEF TypeOK
<1>1. ASSUME NEW pos \in Positions, AddTuioObject(pos) PROVE SessionEnters("obj")
  <2>1. "obj" \in Profiles /\ Put("obj", sessionID + 1, Fresh(pos))
        /\ sessionID' = sessionID + 1 /\ sessionID + 1 \in 0..sessionID'
    BY <1>0, <1>1 DEF AddTuioObject
  <2>2. /\ DOMAIN list'["obj"] = DOMAIN list["obj"] \cup {sessionID + 1}
        /\ \A q \in Profiles \ {"obj"} : list'[q] = list[q]
    BY <2>1, FreshType, PutType
  <2> QED
    BY <1>1, <2>1, <2>2 DEF AddTuioObject, SessionEnters, OnlyIn
<1>2. ASSUME NEW pos \in Positions, AddTuioCursor(pos) PROVE SessionEnters("cur")
  <2>1. "cur" \in Profiles /\ Put("cur", sessionID + 1, Fresh(pos))
        /\ sessionID' = sessionID + 1 /\ sessionID + 1 \in 0..sessionID'
    BY <1>0, <1>2 DEF AddTuioCursor
  <2>2. /\ DOMAIN list'["cur"] = DOMAIN list["cur"] \cup {sessionID + 1}
        /\ \A q \in Profiles \ {"cur"} : list'[q] = list[q]
    BY <2>1, FreshType, PutType
  <2> QED
    BY <1>2, <2>1, <2>2 DEF AddTuioCursor, SessionEnters, OnlyIn
<1>3. ASSUME NEW p \in Profiles, NEW s \in DOMAIN list[p], NEW pos \in Positions,
             NEW speed \in SpeedsTo(list[p][s], pos),
             Put(p, s, Moved(list[p][s], pos, speed)),
             UNCHANGED <<pool, sessionVars>>
      PROVE  SessionsStay
  <2>1. list[p][s] \in Container /\ s \in 0..sessionID'
    BY <1>3 DEF TypeOK, IsList
  <2>2. Moved(list[p][s], pos, speed) \in Container
    BY <2>1, MovedType
  <2>3. \A q \in Profiles : DOMAIN list'[q] = DOMAIN list[q]
    BY <1>3, <2>1, <2>2, PutType
  <2> QED
    BY <1>3, <2>3 DEF SessionsStay
<1>4. ASSUME NEW p \in Profiles, NEW s \in Sessions, NEW pos \in Positions,
             UpdateTuio(p, s, pos)
      PROVE  SessionsStay
  <2>1. CASE s \notin Touched(p)
    BY <1>3, <1>4, <2>1 DEF UpdateTuio
  <2>2. CASE s \in Touched(p)
    BY <1>4, <2>2 DEF UpdateTuio, SessionsStay
  <2> QED
    BY <2>1, <2>2
<1>5. ASSUME NEW s \in Sessions, RemoveTuioObject(s)
      PROVE  "obj" \in Profiles /\ SessionLeaves("obj", s)
  <2>1. "obj" \in Profiles /\ s \in DOMAIN list["obj"] /\ Take("obj", s)
        /\ sessionID' = sessionID /\ s \notin external
    BY <1>5 DEF RemoveTuioObject
  <2>2. /\ DOMAIN list'["obj"] = DOMAIN list["obj"] \ {s}
        /\ \A q \in Profiles \ {"obj"} : list'[q] = list[q]
    BY <2>1, TakeType
  <2> QED
    BY <1>5, <2>1, <2>2 DEF RemoveTuioObject, SessionLeaves, OnlyIn
<1>6. ASSUME NEW s \in Sessions, RemoveTuioCursor(s)
      PROVE  "cur" \in Profiles /\ SessionLeaves("cur", s)
  <2>1. "cur" \in Profiles /\ s \in DOMAIN list["cur"] /\ Take("cur", s)
        /\ sessionID' = sessionID /\ s \notin external
    BY <1>6 DEF RemoveTuioCursor
  <2>2. /\ DOMAIN list'["cur"] = DOMAIN list["cur"] \ {s}
        /\ \A q \in Profiles \ {"cur"} : list'[q] = list[q]
    BY <2>1, TakeType
  <2> QED
    BY <1>6, <2>1, <2>2 DEF RemoveTuioCursor, SessionLeaves, OnlyIn
<1>7. CASE GetSessionID
  BY <1>7 DEF GetSessionID, SessionStep, SessionGranted
<1>8. ASSUME NEW p \in ExternalProfiles, NEW s \in Sessions, NEW id \in ExternalIDs,
             NEW pos \in Positions, AddExternalTuio(p, s, id, pos)
      PROVE  p \in Profiles /\ s \in granted /\ ExternalEnters(p, s)
  <2>1. s \in granted /\ sessionID' = sessionID /\ Put(p, s, Fresh(pos))
        /\ p \in Profiles
    BY <1>8 DEF AddExternalTuio
  <2>2. s \in 0..sessionID'
    BY <2>1 DEF TypeOK
  <2>3. /\ DOMAIN list'[p] = DOMAIN list[p] \cup {s}
        /\ \A q \in Profiles \ {p} : list'[q] = list[q]
    BY <2>1, <2>2, FreshType, PutType
  <2>4. pool'.free = pool.free
    BY <1>8 DEF AddExternalTuio, AddExternal, TypeOK, IsPool
  <2> QED
    BY <1>8, <2>1, <2>3, <2>4 DEF AddExternalTuio, ExternalEnters, OnlyIn
<1>9. ASSUME NEW p \in Profiles, NEW s \in Sessions, NEW pos \in Positions,
             UpdateExternalTuio(p, s, pos)
      PROVE  SessionsStay
  BY <1>3, <1>9 DEF UpdateExternalTuio
<1>10. ASSUME NEW p \in Profiles, NEW s \in Sessions, RemoveExternalTuio(p, s)
       PROVE  s \in external /\ ExternalLeaves(p, s)
  <2>1. s \in DOMAIN list[p] \cap external /\ sessionID' = sessionID /\ Take(p, s)
    BY <1>10 DEF RemoveExternalTuio
  <2>2. /\ DOMAIN list'[p] = DOMAIN list[p] \ {s}
        /\ \A q \in Profiles \ {p} : list'[q] = list[q]
    BY <2>1, TakeType
  <2>3. pool'.free = pool.free
    BY <1>10 DEF RemoveExternalTuio, RemoveExternal, TypeOK, IsPool
  <2> QED
    BY <1>10, <2>1, <2>2, <2>3 DEF RemoveExternalTuio, ExternalLeaves, OnlyIn
<1>11. ASSUME NEW p \in Profiles, StopUntouchedMoving(p) PROVE SessionsStay
  BY <1>11 DEF StopUntouchedMoving, SessionsStay, TypeOK
<1>12. ASSUME NEW p \in Profiles, BeginRemoveUntouchedStopped(p) PROVE SessionsStay
  BY <1>12 DEF BeginRemoveUntouchedStopped, SessionsStay
<1>13. ASSUME NEW p \in Profiles, RemoveNextUntouchedStopped(p)
       PROVE  \E s \in DOMAIN list[p] : SessionLeaves(p, s)
  <2>1. PICK s \in UntouchedStopped(p) :
          /\ Take(p, s)
          /\ pool' = IF p = "cur" THEN RemoveCursor(pool, s, s) ELSE pool
          /\ external' = external \ {s}
    BY <1>13 DEF RemoveNextUntouchedStopped
  <2>2. s \in DOMAIN list[p] /\ sessionID' = sessionID /\ granted' = granted
    BY <1>13 DEF UntouchedStopped, RemoveNextUntouchedStopped
  <2>3. /\ DOMAIN list'[p] = DOMAIN list[p] \ {s}
        /\ \A q \in Profiles \ {p} : list'[q] = list[q]
    BY <2>1, <2>2, TakeType
  <2> QED
    BY <2>1, <2>2, <2>3 DEF SessionLeaves, OnlyIn
<1>14. CASE Control
  BY <1>14 DEF Control, SendFullMessages, SetPeriodicMessages, SetFullUpdate,
               Destroy, SessionStep, SessionsStay
<1>15. CASE BeginFrame
  BY <1>15 DEF BeginFrame, InitFrame, SessionStep, SessionsStay
<1>16. CASE CommitFrame
  BY <1>16 DEF CommitFrame, SessionStep, SessionsStay
<1>17. CASE UNCHANGED vars
  BY <1>17 DEF vars, SessionStep, SessionsStay
<1>18. CASE Change
  <2> USE DEF SessionStep
  <2>1. CASE \E pos \in Positions : AddTuioObject(pos)
    BY <2>1, <1>1 DEF AddTuioObject
  <2>2. CASE \E pos \in Positions : AddTuioCursor(pos)
    BY <2>2, <1>2 DEF AddTuioCursor
  <2>3. CASE \E p \in Profiles, s \in Sessions, pos \in Positions : UpdateTuio(p, s, pos)
    BY <2>3, <1>4
  <2>4. CASE \E s \in Sessions : RemoveTuioObject(s)
    BY <2>4, <1>5 DEF SessionLeaves
  <2>5. CASE \E s \in Sessions : RemoveTuioCursor(s)
    BY <2>5, <1>6 DEF SessionLeaves
  <2>6. CASE \E p \in ExternalProfiles, s \in Sessions, id \in ExternalIDs,
                pos \in Positions :
               AddExternalTuio(p, s, id, pos)
    BY <2>6, <1>8
  <2>7. CASE \E p \in Profiles, s \in Sessions, pos \in Positions :
               UpdateExternalTuio(p, s, pos)
    BY <2>7, <1>9
  <2>8. CASE \E p \in Profiles, s \in Sessions : RemoveExternalTuio(p, s)
    BY <2>8, <1>10
  <2> QED
    BY <1>18, <2>1, <2>2, <2>3, <2>4, <2>5, <1>7, <2>6, <2>7, <2>8, <1>11, <1>12,
       <1>13 DEF Change
<1> QED
  BY <1>14, <1>15, <1>16, <1>17, <1>18 DEF Next

-----------------------------------------------------------------------------
(***************************************************************************)
(* A session id names one thing.                                           *)
(***************************************************************************)
LEMMA UniqueStep == TypeOK /\ SessionsUnique /\ [Next]_vars => SessionsUnique'
<1> SUFFICES ASSUME TypeOK, SessionsUnique, [Next]_vars PROVE SessionsUnique'
  OBVIOUS
<1>0. SessionStep
  BY SessionSteps
<1>1. /\ sessionID + 1 \notin granted \cup external \cup DOMAIN pool.free
      /\ \A p \in Profiles : sessionID + 1 \notin DOMAIN list[p]
  <2>1. sessionID \in Int /\ sessionID + 1 \notin 0..sessionID
    BY DEF TypeOK
  <2> QED
    BY <2>1 DEF TypeOK, IsList
<1>2. CASE SessionsStay
  BY <1>2 DEF SessionsStay, SessionsUnique, sessionVars
<1>3. ASSUME NEW p \in Profiles, SessionEnters(p) PROVE SessionsUnique'
  <2>1. DOMAIN pool'.free \subseteq DOMAIN pool.free
    BY <1>3, PoolFinite, AddCursorType DEF SessionEnters, TypeOK
  <2> QED
    BY <1>1, <1>3, <2>1 DEF SessionEnters, OnlyIn, SessionsUnique
<1>4. ASSUME NEW p \in Profiles, NEW s \in DOMAIN list[p], SessionLeaves(p, s)
      PROVE  SessionsUnique'
  <2>1. DOMAIN pool'.free \subseteq DOMAIN pool.free \cup {s}
    BY <1>4, PoolFinite, RemoveCursorType DEF SessionLeaves, TypeOK
  <2>2. \A q \in Profiles \ {p} : s \notin DOMAIN list[q]
    BY DEF SessionsUnique
  <2>3. s \notin granted
    BY DEF SessionsUnique
  <2> QED
    BY <1>4, <2>1, <2>2, <2>3 DEF SessionLeaves, OnlyIn, SessionsUnique
<1>5. CASE SessionGranted
  BY <1>1, <1>5 DEF SessionGranted, SessionsUnique
<1>6. ASSUME NEW p \in Profiles, NEW s \in granted, ExternalEnters(p, s)
      PROVE  SessionsUnique'
  BY <1>6 DEF ExternalEnters, OnlyIn, SessionsUnique
<1>7. ASSUME NEW p \in Profiles, NEW s \in external, ExternalLeaves(p, s)
      PROVE  SessionsUnique'
  <2>1. s \notin DOMAIN pool.free /\ \A q \in Profiles \ {p} : s \notin DOMAIN list[q]
    BY <1>7 DEF ExternalLeaves, SessionsUnique
  <2> QED
    BY <1>7, <2>1 DEF ExternalLeaves, OnlyIn, SessionsUnique
<1> QED
  BY <1>0, <1>2, <1>3, <1>4, <1>5, <1>6, <1>7 DEF SessionStep

(***************************************************************************)
(* Session ids are never shared, between profiles, with the free list or   *)
(* with the application.                                                   *)
(***************************************************************************)
THEOREM SessionIdsUnique == Spec => []SessionsUnique
<1>1. Init => SessionsUnique
  BY DEF Init, SessionsUnique, EmptyMap, EmptyPool
<1> QED
  BY <1>1, TypeInit, TypeStep, UniqueStep, PTL DEF Spec

-----------------------------------------------------------------------------
(***************************************************************************)
(* Without cursors of the application, the cursor ids stay consistent.     *)
(***************************************************************************)
OwnOnly ==
  "cur" \in Profiles \ ExternalProfiles => external \cap DOMAIN list["cur"] = {}

IdsInv == TypeOK /\ SessionsUnique /\ OwnOnly /\ CursorIdsConsistent

LEMMA IdsInit == Init => IdsInv
<1> SUFFICES ASSUME Init PROVE IdsInv
  OBVIOUS
<1>1. TypeOK
  BY TypeInit
<1>2. SessionsUnique /\ OwnOnly
  BY DEF Init, SessionsUnique, OwnOnly, EmptyMap, EmptyPool
<1>3. pool.max = -1 /\ DOMAIN pool.active = {} /\ DOMAIN pool.free = {}
  BY DEF Init, EmptyPool, EmptyMap
<1>4. PoolConsistent(pool)
  BY <1>3 DEF PoolConsistent, IsInjection, Ids
<1> QED
  BY <1>1, <1>2, <1>4 DEF IdsInv, CursorIdsConsistent

LEMMA IdsStep == IdsInv /\ [Next]_vars => IdsInv'
<1> SUFFICES ASSUME IdsInv, [Next]_vars PROVE IdsInv'
  OBVIOUS
<1>1. TypeOK' /\ SessionsUnique'
  BY TypeStep, UniqueStep DEF IdsInv
<1>2. SessionStep
  BY SessionSteps DEF IdsInv
<1>3. OwnOnly'
  <2> SUFFICES ASSUME "cur" \in Profiles, "cur" \notin ExternalProfiles
               PROVE  external' \cap DOMAIN list'["cur"] = {}
    BY DEF OwnOnly
  <2>0. external \cap DOMAIN list["cur"] = {} /\ granted \cap DOMAIN list["cur"] = {}
    BY DEF IdsInv, OwnOnly, SessionsUnique
  <2>1. sessionID + 1 \notin external
    BY DEF IdsInv, TypeOK
  <2> QED
    BY <1>2, <2>0, <2>1
    DEF SessionStep, SessionsStay, SessionEnters, SessionLeaves, SessionGranted,
        ExternalEnters, ExternalLeaves, OnlyIn, sessionVars
<1>4. ASSUME "cur" \notin ExternalProfiles PROVE PoolConsistent(pool')
  <2>0. IsPool(pool) /\ PoolConsistent(pool)
    BY <1>4 DEF IdsInv, TypeOK, CursorIdsConsistent
  <2>1. CASE SessionsStay
    BY <2>0, <2>1 DEF SessionsStay
  <2>2. ASSUME NEW p \in Profiles, SessionEnters(p) PROVE PoolConsistent(pool')
    <3>1. CASE p = "cur"
      <4>1. sessionID + 1 \notin DOMAIN pool.active
        BY DEF IdsInv, TypeOK, IsList
      <4> QED
        BY <2>0, <2>2, <3>1, <4>1, AddCursorConsistent DEF SessionEnters
    <3>2. CASE p # "cur"
      BY <2>0, <2>2, <3>2 DEF SessionEnters
    <3> QED
      BY <3>1, <3>2
  <2>3. ASSUME NEW p \in Profiles, NEW s \in DOMAIN list[p], SessionLeaves(p, s)
        PROVE  PoolConsistent(pool')
    <3>1. CASE p = "cur"
      <4>1. s \in DOMAIN pool.active /\ s \notin DOMAIN pool.free
        BY <3>1 DEF IdsInv, TypeOK, SessionsUnique
      <4> QED
        BY <2>0, <2>3, <3>1, <4>1, RemoveCursorConsistent DEF SessionLeaves
    <3>2. CASE p # "cur"
      BY <2>0, <2>3, <3>2 DEF SessionLeaves
    <3> QED
      BY <3>1, <3>2
  <2>4. ASSUME NEW p \in Profiles, NEW s \in granted, ExternalEnters(p, s)
        PROVE  pool' = pool
    BY <1>4, <2>4 DEF ExternalEnters
  <2>5. ASSUME NEW p \in Profiles, NEW s \in external, ExternalLeaves(p, s)
        PROVE  pool' = pool
    BY <1>4, <2>5 DEF ExternalLeaves, IdsInv, OwnOnly
  <2> QED
    BY <1>2, <2>0, <2>1, <2>2, <2>3, <2>4, <2>5 DEF SessionStep, SessionGranted
<1> QED
  BY <1>1, <1>3, <1>4 DEF IdsInv, CursorIdsConsistent

(***************************************************************************)
(* Through every order of additions, removals and removal sweeps the free  *)
(* list, maxCursorID and the size of the cursor list stay in step, and no  *)
(* two cursors share an id.                                                *)
(***************************************************************************)
THEOREM CursorIdsCorrect == Spec => []CursorIdsConsistent
BY IdsInit, IdsStep, PTL DEF Spec, IdsInv

-----------------------------------------------------------------------------
(***************************************************************************)
(* The server implements CursorSlots: its ids are gaps first, then next.   *)
(***************************************************************************)
LEMMA SlotsStep ==
  IdsInv /\ "cur" \notin ExternalProfiles /\ [Next]_vars => [Slots!Next]_(pool.active)
<1> SUFFICES ASSUME IdsInv, "cur" \notin ExternalProfiles, [Next]_vars
             PROVE  Slots!Next \/ pool'.active = pool.active
  OBVIOUS
<1>0. SessionStep /\ TypeOK /\ TypeOK' /\ IsPool(pool) /\ PoolConsistent(pool)
  BY SessionSteps, TypeStep DEF IdsInv, TypeOK, CursorIdsConsistent
<1>1. CASE SessionsStay
  BY <1>1 DEF SessionsStay
<1>2. ASSUME NEW p \in Profiles, SessionEnters(p), p = "cur" PROVE Slots!Next
  <2> DEFINE s == sessionID + 1
  <2>1. s \notin DOMAIN pool.active /\ s \in Sessions
    BY <1>0, <1>2 DEF TypeOK, IsList, SessionEnters, Sessions
  <2>2. pool' \in AddCursor(pool, s)
    BY <1>2 DEF SessionEnters
  <2> HIDE DEF s
  <2>3. \E id \in Slots!Offered : pool'.active = With(pool.active, s, id)
    BY <1>0, <2>1, <2>2, AddCursorFillsGaps
    DEF Slots!Offered, Slots!Gaps, Slots!GreatestId, Slots!Greatest, Slots!Ids,
        GreatestId, Greatest, Ids
  <2> QED
    BY <2>1, <2>3 DEF Slots!Next, Slots!Appear, Slots!With, With
<1>3. ASSUME NEW p \in Profiles, NEW s \in DOMAIN list[p], SessionLeaves(p, s), p = "cur"
      PROVE  Slots!Next
  <2>1. s \in DOMAIN pool.active /\ s \in Sessions
    BY <1>0, <1>3 DEF TypeOK, IsList, Sessions
  <2>2. pool'.active = Without(pool.active, {s})
    BY <1>3 DEF SessionLeaves, RemoveCursor
  <2> QED
    BY <2>1, <2>2 DEF Slots!Next, Slots!Vanish, Slots!Without, Without
<1>4. ASSUME NEW p \in Profiles, NEW s \in granted, ExternalEnters(p, s)
      PROVE  pool' = pool
  BY <1>4 DEF ExternalEnters
<1>5. ASSUME NEW p \in Profiles, NEW s \in external, ExternalLeaves(p, s)
      PROVE  pool' = pool
  BY <1>5 DEF ExternalLeaves, IdsInv, OwnOnly
<1> QED
  BY <1>0, <1>1, <1>2, <1>3, <1>4, <1>5
  DEF SessionStep, SessionEnters, SessionLeaves, SessionGranted

(***************************************************************************)
(* Without cursors of the application, every behaviour of the server's id  *)
(* allocation is one of CursorSlots: a cursor gets a gap if there is one   *)
(* and the next id if not, and keeps it until it is removed.               *)
(***************************************************************************)
THEOREM SlotsImplemented ==
  ASSUME "cur" \notin ExternalProfiles
  PROVE  Spec => SlotsKept
<1>1. Init => Slots!Init
  BY DEF Init, Slots!Init, EmptyPool, Slots!EmptyMap, EmptyMap
<1>2. IdsInv /\ [Next]_vars => [Slots!Next]_(pool.active)
  BY SlotsStep
<1> QED
  BY <1>1, <1>2, IdsInit, IdsStep, PTL DEF Spec, SlotsKept, Slots!Spec
=============================================================================
