------------------------ MODULE TuioServerFramesProofs ----------------------
(***************************************************************************)
(* Used as documented, the server has told everything after commitFrame,   *)
(* for every value of the constants.                                       *)
(***************************************************************************)
EXTENDS TuioServerFrames, TuioServerProofs

USE ServerAssumption

-----------------------------------------------------------------------------
(***************************************************************************)
(* Packets: every container with a set message is in one of them.          *)
(***************************************************************************)
LEMMA DivMonotone ==
  ASSUME NEW a \in Nat, NEW b \in Nat, NEW k \in Nat \ {0}, a <= b
  PROVE  a \div k \in Nat /\ b \div k \in Nat /\ a \div k <= b \div k
OBVIOUS

LEMMA PacketsCover ==
  ASSUME TypeOK, NEW p \in Profiles, NEW S \in SUBSET DOMAIN list[p]
  PROVE  /\ LastPacket(p, S) \in Nat
         /\ \A s \in S : PacketOf(S, s) \in 0..LastPacket(p, S)
<1> DEFINE D == DOMAIN list[p]
           Before(s) == {t \in S : t < s}
<1>1. IsFiniteSet(D) /\ D \subseteq Int
  <2>1. sessionID \in Int /\ sessionID >= -1 /\ D \subseteq 0..sessionID
    BY DEF TypeOK, IsList
  <2>2. IsFiniteSet(0..sessionID)
    BY <2>1, IdsUpTo
  <2>3. IsFiniteSet(D)
    BY <2>1, <2>2, FS_Subset
  <2> QED
    BY <2>1, <2>3
<1>2. \A s \in D : Cardinality(Before(s)) \in Nat /\ IsFiniteSet(Before(s))
  <2> TAKE s \in D
  <2>1. Before(s) \subseteq D
    OBVIOUS
  <2> HIDE DEF Before
  <2> QED
    BY <1>1, <2>1, FS_Subset, FS_CardinalityType
<1>3. CASE D = {}
  BY <1>3 DEF LastPacket
<1>4. CASE D # {}
  <2> DEFINE g == Greatest(D)
  <2>1. g \in D /\ \A s \in D : s <= g
    BY <1>1, <1>4, GreatestExists
  <2>2. LastPacket(p, S) = Cardinality(Before(g)) \div SetsPerBundle
    BY <1>4 DEF LastPacket, PacketOf
  <2>3. ASSUME NEW s \in S
        PROVE  Cardinality(Before(s)) <= Cardinality(Before(g))
    <3>1. Before(s) \subseteq Before(g)
      BY <1>1, <2>1
    <3>2. IsFiniteSet(Before(g))
      BY <1>2, <2>1
    <3> HIDE DEF Before, g
    <3> QED
      BY <3>1, <3>2, FS_Subset
  <2>4. LastPacket(p, S) \in Nat
    <3>1. Cardinality(Before(g)) \in Nat
      BY <1>2, <2>1
    <3> HIDE DEF Before, g
    <3> QED
      BY <2>2, <3>1, DivMonotone
  <2>5. ASSUME NEW s \in S PROVE PacketOf(S, s) \in 0..LastPacket(p, S)
    <3>1. PacketOf(S, s) = Cardinality(Before(s)) \div SetsPerBundle
      BY DEF PacketOf
    <3>2. Cardinality(Before(s)) \in Nat /\ Cardinality(Before(g)) \in Nat
      BY <1>2, <2>1
    <3>3. Cardinality(Before(s)) <= Cardinality(Before(g))
      BY <2>3
    <3> HIDE DEF Before, g
    <3>4. /\ Cardinality(Before(s)) \div SetsPerBundle \in Nat
          /\ Cardinality(Before(s)) \div SetsPerBundle
               <= Cardinality(Before(g)) \div SetsPerBundle
      BY <3>2, <3>3, DivMonotone
    <3> QED
      BY <2>2, <2>4, <3>1, <3>4
  <2> QED
    BY <2>4, <2>5
<1> QED
  BY <1>3, <1>4

(***************************************************************************)
(* What the bundles of one call say: the list, with the contents of S.     *)
(***************************************************************************)
Merged(t, p, S) ==
  [s \in DOMAIN list[p] \cap (DOMAIN t \cup S) |->
     IF s \in S THEN Content(list[p][s]) ELSE t[s]]

LEMMA HearBundles ==
  ASSUME TypeOK, NEW p \in Profiles, NEW S \in SUBSET DOMAIN list[p], NEW f, NEW t
  PROVE  Hear(t, Bundles(p, S, f)) = Merged(t, p, S)
<1> DEFINE n  == LastPacket(p, S) + 1
           In(i) == {s \in S : PacketOf(S, s) = i - 1}
           bs == [i \in 1..n |-> Bundle(p, In(i), f)]
           setIn(s) == {i \in DOMAIN bs : s \in DOMAIN bs[i].sets}
           setAny   == UNION {DOMAIN bs[i].sets : i \in DOMAIN bs}
<1>1. LastPacket(p, S) \in Nat /\ n \in Nat /\ n >= 1
      /\ \A s \in S : PacketOf(S, s) \in 0..LastPacket(p, S)
  BY PacketsCover
<1>2. Bundles(p, S, f) = bs
  BY DEF Bundles
<1>3. DOMAIN bs = 1..n /\ 1..n # {}
  BY <1>1
<1>4. \A i \in 1..n : /\ bs[i].alive = DOMAIN list[p]
                      /\ DOMAIN bs[i].sets = In(i)
                      /\ \A s \in In(i) : bs[i].sets[s] = Content(list[p][s])
  BY DEF Bundle
<1>5. Greatest(DOMAIN bs) \in 1..n
  <2>1. IsFiniteSet(1..n) /\ 1..n \subseteq Int
    BY <1>1, FS_Interval
  <2> QED
    BY <1>3, <2>1, GreatestExists
<1> HIDE DEF bs, n
<1>6. \A s \in S : setIn(s) = {PacketOf(S, s) + 1} /\ PacketOf(S, s) + 1 \in 1..n
  BY <1>1, <1>3, <1>4 DEF n
<1>7. setAny = S
  <2>1. S \subseteq setAny
    BY <1>3, <1>6
  <2>2. setAny \subseteq S
    BY <1>3, <1>4
  <2> QED
    BY <2>1, <2>2
<1>8. \A s \in S : Greatest(setIn(s)) = PacketOf(S, s) + 1
  <2> TAKE s \in S
  <2>1. PacketOf(S, s) + 1 \in Int
    BY <1>6
  <2> QED
    BY <1>6, <2>1 DEF Greatest
<1>9. \A s \in S : bs[Greatest(setIn(s))].sets[s] = Content(list[p][s])
  BY <1>1, <1>4, <1>6, <1>8
<1>10. Hear(t, bs) =
         [s \in bs[Greatest(DOMAIN bs)].alive \cap (DOMAIN t \cup setAny) |->
            IF s \in setAny THEN bs[Greatest(setIn(s))].sets[s] ELSE t[s]]
  BY <1>3 DEF Hear
<1>11. bs[Greatest(DOMAIN bs)].alive = DOMAIN list[p]
  BY <1>4, <1>5
<1> HIDE DEF setIn, setAny
<1> QED
  BY <1>2, <1>7, <1>9, <1>10, <1>11 DEF Merged

(***************************************************************************)
(* A call that sends nothing tells nothing.                                *)
(***************************************************************************)
LEMMA HearSilent ==
  ASSUME NEW t, NEW bs, DOMAIN bs = {}
  PROVE  Hear(t, bs) = t
BY DEF Hear

(***************************************************************************)
(* An alive message alone drops what is not alive.                         *)
(***************************************************************************)
LEMMA HearHeartbeat ==
  ASSUME NEW p \in Profiles, NEW f, NEW t
  PROVE  Hear(t, Heartbeat(p, f)) = Merged(t, p, {})
<1> DEFINE bs == Heartbeat(p, f)
           setIn(s) == {i \in DOMAIN bs : s \in DOMAIN bs[i].sets}
           setAny   == UNION {DOMAIN bs[i].sets : i \in DOMAIN bs}
<1>1. DOMAIN bs = {1} /\ bs[1] = Bundle(p, {}, f)
  BY DEF Heartbeat
<1>2. bs[1].alive = DOMAIN list[p] /\ DOMAIN bs[1].sets = {}
  BY <1>1 DEF Bundle
<1>3. Greatest(DOMAIN bs) = 1
  BY <1>1 DEF Greatest
<1>4. setAny = {}
  BY <1>1, <1>2
<1>5. DOMAIN bs # {}
  BY <1>1
<1>6. Hear(t, bs) =
        [s \in bs[Greatest(DOMAIN bs)].alive \cap (DOMAIN t \cup setAny) |->
           IF s \in setAny THEN bs[Greatest(setIn(s))].sets[s] ELSE t[s]]
  BY <1>5 DEF Hear
<1> HIDE DEF bs, setIn, setAny
<1> QED
  BY <1>2, <1>3, <1>4, <1>6 DEF bs, Merged

LEMMA ZeroDiv == ASSUME NEW k \in Nat \ {0} PROVE 0 \div k = 0
OBVIOUS

(***************************************************************************)
(* An alive message alone is the packet of a call that has no set message. *)
(***************************************************************************)
LEMMA HeartbeatIsBundles ==
  ASSUME TypeOK, NEW p \in Profiles, NEW f
  PROVE  Heartbeat(p, f) = Bundles(p, {}, f)
<1>1. \A s : PacketOf({}, s) = 0
  <2> TAKE s
  <2>1. {t \in {} : t < s} = {}
    OBVIOUS
  <2>2. Cardinality({}) = 0
    BY FS_EmptySet
  <2>3. 0 \div SetsPerBundle = 0
    BY ZeroDiv
  <2>4. PacketOf({}, s) = Cardinality({}) \div SetsPerBundle
    BY <2>1 DEF PacketOf
  <2> QED
    BY <2>2, <2>3, <2>4
<1>2. LastPacket(p, {}) = 0
  BY <1>1 DEF LastPacket
<1>3. \A i : {s \in {} : PacketOf({}, s) = i - 1} = {}
  OBVIOUS
<1> DEFINE b == Bundle(p, {}, f)
<1>4. Bundles(p, {}, f) = [i \in 1..1 |-> b]
  BY <1>2, <1>3 DEF Bundles
<1>5. Heartbeat(p, f) = <<b>>
  BY DEF Heartbeat
<1> HIDE DEF b
<1>6. <<b>> = [i \in 1..1 |-> b]
  OBVIOUS
<1> QED
  BY <1>4, <1>5, <1>6

-----------------------------------------------------------------------------
(***************************************************************************)
(* Every call that changes a list marks the list, and leaves the time of   *)
(* the frame on each container that it adds or changes.                    *)
(***************************************************************************)
Marked(p) ==
  /\ \A s \in DOMAIN list'[p] :
       \/ s \in DOMAIN list[p] /\ list'[p][s] = list[p][s]
       \/ update'[p] /\ list'[p][s].time = currentFrameTime
  /\ DOMAIN list[p] \subseteq DOMAIN list'[p] \/ update'[p]
  /\ update[p] => update'[p]

LEMMA PutMarks ==
  ASSUME TypeOK, NEW p \in Profiles, NEW s, NEW c, c.time = currentFrameTime,
         Put(p, s, c)
  PROVE  \A q \in Profiles : Marked(q)
<1>1. /\ list'[p] = With(list[p], s, c)
      /\ update'[p] = TRUE
      /\ \A q \in Profiles \ {p} : list'[q] = list[q] /\ update'[q] = update[q]
  BY DEF Put, TypeOK
<1>2. Marked(p)
  BY <1>1 DEF Marked, With
<1>3. \A q \in Profiles \ {p} : Marked(q)
  BY <1>1 DEF Marked
<1> QED
  BY <1>2, <1>3

LEMMA TakeMarks ==
  ASSUME TypeOK, NEW p \in Profiles, NEW s, Take(p, s)
  PROVE  \A q \in Profiles : Marked(q)
<1>1. /\ list'[p] = Without(list[p], {s})
      /\ update'[p] = TRUE
      /\ \A q \in Profiles \ {p} : list'[q] = list[q] /\ update'[q] = update[q]
  BY DEF Take, TypeOK
<1>2. Marked(p)
  BY <1>1 DEF Marked, Without
<1>3. \A q \in Profiles \ {p} : Marked(q)
  BY <1>1 DEF Marked
<1> QED
  BY <1>2, <1>3

LEMMA ChangeMarks ==
  TypeOK /\ Change => /\ \A p \in Profiles : Marked(p)
                      /\ UNCHANGED <<currentFrameTime, connected>>
                      /\ Silent
<1> SUFFICES ASSUME TypeOK, Change
             PROVE  /\ \A p \in Profiles : Marked(p)
                    /\ UNCHANGED <<currentFrameTime, connected>>
                    /\ Silent
  OBVIOUS
<1>0. \A pos : Fresh(pos).time = currentFrameTime
  BY DEF Fresh
<1>1. \A c, pos, speed : Moved(c, pos, speed).time = currentFrameTime
  BY DEF Moved
<1>2. UNCHANGED <<currentFrameTime, connected>> /\ Silent
  BY DEF Change, AddTuioObject, AddTuioCursor, UpdateTuio, RemoveTuioObject,
     RemoveTuioCursor, GetSessionID, AddExternalTuio, UpdateExternalTuio,
     RemoveExternalTuio, StopUntouchedMoving, BeginRemoveUntouchedStopped,
     RemoveNextUntouchedStopped, frameVars, sendVars
<1> DEFINE Goal == \A p \in Profiles : Marked(p)
<1> HIDE DEF Goal
<1>3. ASSUME UNCHANGED <<list, update>> PROVE Goal
  BY <1>3 DEF Goal, Marked
<1>4. ASSUME NEW p \in Profiles, NEW s, NEW pos, Put(p, s, Fresh(pos)) PROVE Goal
  BY <1>0, <1>4, PutMarks DEF Goal
<1>5. ASSUME NEW p \in Profiles, NEW s, NEW c, NEW pos, NEW speed,
             Put(p, s, Moved(c, pos, speed))
      PROVE  Goal
  BY <1>1, <1>5, PutMarks DEF Goal
<1>6. ASSUME NEW p \in Profiles, NEW s, Take(p, s) PROVE Goal
  BY <1>6, TakeMarks DEF Goal
<1>7. ASSUME NEW p \in Profiles, StopUntouchedMoving(p) PROVE Goal
  <2> DEFINE moving == UntouchedMoving(p)
  <2>1. /\ list' = [list EXCEPT ![p] =
                      [s \in DOMAIN @ |-> IF s \in moving
                                            THEN Moved(@[s], @[s].pos, 0) ELSE @[s]]]
        /\ update' = [update EXCEPT ![p] = @ \/ moving # {}]
    BY <1>7 DEF StopUntouchedMoving
  <2>2. moving \subseteq DOMAIN list[p]
    BY DEF UntouchedMoving
  <2> HIDE DEF moving
  <2>3. /\ list'[p] = [s \in DOMAIN list[p] |->
                         IF s \in moving THEN Moved(list[p][s], list[p][s].pos, 0)
                         ELSE list[p][s]]
        /\ \A q \in Profiles \ {p} : list'[q] = list[q]
    BY <2>1 DEF TypeOK
  <2>4. /\ update'[p] <=> (update[p] \/ moving # {})
        /\ \A q \in Profiles \ {p} : update'[q] = update[q]
    BY <2>1 DEF TypeOK
  <2>5. Marked(p)
    <3>1. ASSUME NEW s \in DOMAIN list[p]
          PROVE  \/ list'[p][s] = list[p][s]
                 \/ update'[p] /\ list'[p][s].time = currentFrameTime
      <4>1. CASE s \in moving
        BY <1>1, <2>3, <2>4, <4>1
      <4>2. CASE s \notin moving
        BY <2>3, <4>2
      <4> QED
        BY <4>1, <4>2
    <3>2. DOMAIN list'[p] = DOMAIN list[p]
      BY <2>3
    <3> QED
      BY <2>4, <3>1, <3>2 DEF Marked
  <2>6. \A q \in Profiles \ {p} : Marked(q)
    BY <2>3, <2>4 DEF Marked
  <2> QED
    BY <2>5, <2>6 DEF Goal
<1>8. ASSUME NEW pos \in Positions, AddTuioObject(pos) PROVE Goal
  BY <1>4, <1>8 DEF AddTuioObject
<1>9. ASSUME NEW pos \in Positions, AddTuioCursor(pos) PROVE Goal
  BY <1>4, <1>9 DEF AddTuioCursor
<1>10. ASSUME NEW p \in Profiles, NEW s \in Sessions, NEW pos \in Positions,
              UpdateTuio(p, s, pos)
       PROVE  Goal
  BY <1>3, <1>5, <1>10 DEF UpdateTuio
<1>11. ASSUME NEW s \in Sessions, RemoveTuioObject(s) PROVE Goal
  BY <1>6, <1>11 DEF RemoveTuioObject
<1>12. ASSUME NEW s \in Sessions, RemoveTuioCursor(s) PROVE Goal
  BY <1>6, <1>12 DEF RemoveTuioCursor
<1>13. ASSUME GetSessionID PROVE Goal
  BY <1>3, <1>13 DEF GetSessionID
<1>14. ASSUME NEW p \in ExternalProfiles, NEW s \in Sessions, NEW id \in ExternalIDs,
              NEW pos \in Positions, AddExternalTuio(p, s, id, pos)
       PROVE  Goal
  BY <1>4, <1>14 DEF AddExternalTuio
<1>15. ASSUME NEW p \in Profiles, NEW s \in Sessions, NEW pos \in Positions,
              UpdateExternalTuio(p, s, pos)
       PROVE  Goal
  BY <1>5, <1>15 DEF UpdateExternalTuio
<1>16. ASSUME NEW p \in Profiles, NEW s \in Sessions, RemoveExternalTuio(p, s)
       PROVE  Goal
  BY <1>6, <1>16 DEF RemoveExternalTuio
<1>17. ASSUME NEW p \in Profiles, BeginRemoveUntouchedStopped(p) PROVE Goal
  BY <1>3, <1>17 DEF BeginRemoveUntouchedStopped
<1>18. ASSUME NEW p \in Profiles, RemoveNextUntouchedStopped(p) PROVE Goal
  BY <1>6, <1>18 DEF RemoveNextUntouchedStopped
<1>19. Goal
  BY <1>7, <1>8, <1>9, <1>10, <1>11, <1>12, <1>13, <1>14, <1>15, <1>16, <1>17, <1>18
  DEF Change
<1> QED
  BY <1>2, <1>19 DEF Goal

-----------------------------------------------------------------------------
(***************************************************************************)
(* The inductive invariant.                                                *)
(***************************************************************************)
FramesInv ==
  /\ TypeOK
  /\ inFrame \in BOOLEAN
  /\ \A p \in Profiles : told[p] = [s \in DOMAIN told[p] |-> told[p][s]]
  /\ OnlyNewsUntold

LEMMA FramesInit_Inv == FramesInit => FramesInv
<1> SUFFICES ASSUME FramesInit PROVE FramesInv
  OBVIOUS
<1>1. TypeOK
  BY TypeInit DEF FramesInit
<1>2. \A p \in Profiles : told[p] = EmptyMap /\ list[p] = EmptyMap
  BY DEF FramesInit, Init
<1>3. DOMAIN EmptyMap = {} /\ EmptyMap = [s \in DOMAIN EmptyMap |-> EmptyMap[s]]
  BY DEF EmptyMap
<1> QED
  BY <1>1, <1>2, <1>3 DEF FramesInit, FramesInv, OnlyNewsUntold

\* What is exactly the list's contents is what OnlyNewsUntold allows outside
\* of frames.
LEMMA ExactIsFine ==
  ASSUME \A p \in Profiles : told'[p] = Contents(list'[p])
  PROVE  OnlyNewsUntold'
BY DEF OnlyNewsUntold, Contents

LEMMA BetweenFramesExact ==
  ASSUME FramesInv, connected, NEW p \in Profiles, ~inFrame \/ ~update[p]
  PROVE  told[p] = Contents(list[p])
BY DEF FramesInv, OnlyNewsUntold, Contents

LEMMA FramesStep == FramesInv /\ [FramesNext]_frameSpecVars => FramesInv'
<1> SUFFICES ASSUME FramesInv, [FramesNext]_frameSpecVars PROVE FramesInv'
  OBVIOUS
<1>1. CASE UNCHANGED frameSpecVars
  <2>1. TypeOK'
    BY <1>1, TypeStep DEF frameSpecVars, FramesInv
  <2> QED
    BY <1>1, <2>1 DEF frameSpecVars, vars, FramesInv, OnlyNewsUntold, Touched
<1>2. CASE FramesNext
  <2>1. TypeOK'
    BY <1>2, TypeStep DEF FramesInv, FramesNext, Next
  <2>2. \A p \in Profiles : told'[p] = Hear(told[p], out'[p])
    BY <1>2 DEF FramesNext
  <2>3. inFrame' \in BOOLEAN
    BY <1>2 DEF FramesNext, FramesInv
  <2>4. ASSUME NEW p \in Profiles, Silent PROVE told'[p] = told[p]
    <3>1. told'[p] = Hear(told[p], out'[p])
      BY <2>2
    <3>2. out'[p] = <<>>
      BY <2>4 DEF Silent
    <3>3. DOMAIN out'[p] = {}
      BY <3>2
    <3>4. Hear(told[p], out'[p]) = told[p]
      BY <3>3, HearSilent
    <3> QED
      BY <3>1, <3>4
  <2>5. CASE ~inFrame /\ BeginFrame /\ inFrame' = TRUE
    <3>1. Silent /\ list' = list /\ connected' = connected /\ connected
      BY <2>5 DEF BeginFrame, InitFrame, sendVars, Idle
    <3>2. \A p \in Profiles : told'[p] = told[p] /\ told[p] = Contents(list[p])
      BY <2>4, <2>5, <3>1, BetweenFramesExact
    <3>3. OnlyNewsUntold'
      BY <3>1, <3>2, ExactIsFine
    <3> QED
      BY <2>1, <2>3, <3>2, <3>3 DEF FramesInv
  <2>6. CASE inFrame /\ Change /\ inFrame' = TRUE
    <3>1. /\ \A p \in Profiles : Marked(p)
          /\ UNCHANGED <<currentFrameTime, connected>>
          /\ Silent
      BY <2>6, ChangeMarks DEF FramesInv
    <3>2. \A p \in Profiles : told'[p] = told[p]
      BY <2>4, <3>1
    <3>3. ASSUME connected, NEW p \in Profiles
          PROVE  /\ \A s \in DOMAIN list'[p] :
                      \/ s \in DOMAIN told'[p] /\ told'[p][s] = Content(list'[p][s])
                      \/ update'[p] /\ list'[p][s].time = currentFrameTime'
                 /\ DOMAIN told'[p] \subseteq DOMAIN list'[p] \/ update'[p]
      BY <3>1, <3>2, <3>3 DEF Marked, FramesInv, OnlyNewsUntold, Touched
    <3>4. OnlyNewsUntold'
      BY <2>6, <3>1, <3>3 DEF OnlyNewsUntold, Touched
    <3> QED
      BY <2>1, <2>3, <3>2, <3>4 DEF FramesInv
  <2>7. CASE inFrame /\ CommitFrame /\ inFrame' = FALSE
    <3>1. connected /\ list' = list
      BY <2>7 DEF CommitFrame, Idle
    <3>2. ASSUME NEW p \in Profiles PROVE told'[p] = Contents(list[p])
      <4>1. CASE update[p]
        <5> DEFINE S == IF fullUpdate THEN DOMAIN list[p] ELSE Touched(p)
        <5>1. out'[p] = Bundles(p, S, currentFrame)
          BY <2>7, <4>1 DEF CommitFrame
        <5>2. S \in SUBSET DOMAIN list[p] /\ Touched(p) \subseteq S
          BY DEF Touched
        <5> HIDE DEF S
        <5>3. told'[p] = Merged(told[p], p, S)
          <6>1. TypeOK
            BY DEF FramesInv
          <6>2. Hear(told[p], Bundles(p, S, currentFrame)) = Merged(told[p], p, S)
            BY <5>2, <6>1, HearBundles
          <6> QED
            BY <2>2, <5>1, <6>2
        <5>4. \A s \in DOMAIN list[p] \ S :
                s \in DOMAIN told[p] /\ told[p][s] = Content(list[p][s])
          BY <3>1, <5>2 DEF FramesInv, OnlyNewsUntold
        <5> QED
          BY <5>2, <5>3, <5>4 DEF Contents, Merged
      <4>2. CASE ~update[p]
        <5>1. told[p] = Contents(list[p])
          BY <3>1, <4>2, BetweenFramesExact
        <5>2. CASE HeartbeatDue(p)
          <6>1. out'[p] = Heartbeat(p, currentFrame)
            BY <2>7, <4>2, <5>2 DEF CommitFrame
          <6>2. told'[p] = Merged(told[p], p, {})
            BY <2>2, <6>1, HearHeartbeat
          <6> QED
            BY <5>1, <6>2 DEF Contents, Merged
        <5>3. CASE ~HeartbeatDue(p)
          <6>1. out'[p] = <<>>
            BY <2>7, <4>2, <5>3 DEF CommitFrame
          <6>2. DOMAIN out'[p] = {}
            BY <6>1
          <6>3. Hear(told[p], out'[p]) = told[p]
            BY <6>2, HearSilent
          <6> QED
            BY <2>2, <5>1, <6>3
        <5> QED
          BY <5>2, <5>3
      <4> QED
        BY <4>1, <4>2
    <3>3. OnlyNewsUntold'
      BY <3>1, <3>2, ExactIsFine
    <3> QED
      BY <2>1, <2>3, <3>2, <3>3 DEF FramesInv, Contents
  <2>8. CASE Control /\ UNCHANGED inFrame
    <3>1. CASE SendFullMessages
      <4>1. list' = list
        BY <3>1 DEF SendFullMessages
      <4>2. ASSUME NEW p \in Profiles PROVE told'[p] = Contents(list[p])
        <5>1. out'[p] = Bundles(p, DOMAIN list[p], -1)
          BY <3>1 DEF SendFullMessages
        <5>2. Hear(told[p], Bundles(p, DOMAIN list[p], -1))
                = Merged(told[p], p, DOMAIN list[p])
          BY HearBundles DEF FramesInv
        <5>3. told'[p] = Merged(told[p], p, DOMAIN list[p])
          BY <2>2, <5>1, <5>2
        <5> QED
          BY <5>3 DEF Contents, Merged
      <4>3. OnlyNewsUntold'
        BY <4>1, <4>2, ExactIsFine
      <4> QED
        BY <2>1, <2>3, <4>2, <4>3 DEF FramesInv, Contents
    <3>2. ASSUME NEW enabled \in BOOLEAN,
                 SetPeriodicMessages(enabled) \/ SetFullUpdate(enabled)
          PROVE  FramesInv'
      <4>1. Silent /\ UNCHANGED <<list, update, currentFrameTime, connected>>
        BY <3>2 DEF SetPeriodicMessages, SetFullUpdate, frameVars
      <4>2. \A p \in Profiles : told'[p] = told[p]
        BY <2>4, <4>1
      <4> QED
        BY <2>1, <2>3, <2>8, <4>1, <4>2 DEF FramesInv, OnlyNewsUntold, Touched
    <3>3. CASE Destroy
      <4>1. ~connected'
        BY <3>3 DEF Destroy
      <4>2. \A p \in Profiles : told'[p] = [s \in DOMAIN told'[p] |-> told'[p][s]]
        <5> TAKE p \in Profiles
        <5>1. DOMAIN out'[p] # {}
          BY <3>3 DEF Destroy, EmptyBundle
        <5> QED
          BY <2>2, <5>1 DEF Hear
      <4> QED
        BY <2>1, <2>3, <4>1, <4>2 DEF FramesInv, OnlyNewsUntold
    <3> QED
      BY <2>8, <3>1, <3>2, <3>3 DEF Control
  <2> QED
    BY <1>2, <2>5, <2>6, <2>7, <2>8 DEF FramesNext
<1> QED
  BY <1>1, <1>2

(***************************************************************************)
(* What the messages have not said yet was touched in the frame that is    *)
(* not committed, and is marked for sending: no change can be overlooked.  *)
(***************************************************************************)
THEOREM NothingOverlooked == FramesSpec => []OnlyNewsUntold
<1>1. FramesInv => OnlyNewsUntold
  BY DEF FramesInv
<1> QED
  BY <1>1, FramesInit_Inv, FramesStep, PTL DEF FramesSpec

(***************************************************************************)
(* After commitFrame, and until the next frame begins, the messages sent   *)
(* so far say exactly what the server has.                                 *)
(***************************************************************************)
THEOREM CommitTells == FramesSpec => []CommitTellsAll
<1>1. FramesInv => CommitTellsAll
  BY BetweenFramesExact DEF CommitTellsAll
<1> QED
  BY <1>1, FramesInit_Inv, FramesStep, PTL DEF FramesSpec

(***************************************************************************)
(* A server that is used by frames is a server: what was shown of every    *)
(* use holds of it.                                                        *)
(***************************************************************************)
THEOREM FramesImplementServer == FramesSpec => Spec
<1>1. FramesInit => Init
  BY DEF FramesInit
<1>2. [FramesNext]_frameSpecVars => [Next]_vars
  BY DEF FramesNext, frameSpecVars, Next
<1> QED
  BY <1>1, <1>2, PTL DEF FramesSpec, Spec
=============================================================================
