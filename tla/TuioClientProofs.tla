--------------------------- MODULE TuioClientProofs -------------------------
(***************************************************************************)
(* Theorems about TuioClient, for every value of its constants: whatever   *)
(* bundles arrive in whatever order, and however often it is connected.    *)
(***************************************************************************)
EXTENDS TuioClient, CursorPoolProofs

USE ClientAssumption

-----------------------------------------------------------------------------
(***************************************************************************)
(* Free cursors are named by their ids: so a cursor that is removed enters *)
(* the free list beside the others.                                        *)
(***************************************************************************)
FreeNamedByIds == \A i \in DOMAIN pool.free : pool.free[i] = i

IInv == TypeOK /\ CursorIdsConsistent /\ FreeNamedByIds

LEMMA IInit == Init => IInv
<1> SUFFICES ASSUME Init PROVE IInv
  OBVIOUS
<1>1. IsPool(pool)
  BY DEF Init, EmptyPool, EmptyMap, IsPool
<1>2. \A p \in Profiles : /\ list[p] = EmptyMap /\ known[p] = EmptyMap
                          /\ DOMAIN list[p] = {} /\ DOMAIN known[p] = {}
  BY DEF Init, EmptyMap
<1>3. \A p \in Profiles : /\ list[p] \in [DOMAIN list[p] -> Content]
                          /\ known[p] \in [DOMAIN known[p] -> Content]
                          /\ DOMAIN list[p] \subseteq Sessions
  BY <1>2 DEF EmptyMap
<1>4. DOMAIN pool.active = {} /\ DOMAIN pool.free = {}
  BY DEF Init, EmptyPool, EmptyMap
<1>5. list = [p \in Profiles |-> list[p]] /\ known = [p \in Profiles |-> known[p]]
  BY <1>2 DEF Init
<1>6. DOMAIN pool.active = IF "cur" \in Profiles THEN DOMAIN list["cur"] ELSE {}
  BY <1>2, <1>4
<1>7. /\ currentFrame \in Nat \cup {-1} /\ frame = Rest
      /\ connects \in 0..MaxConnects
      /\ frame = [profile |-> frame.profile, news |-> frame.news, gone |-> frame.gone]
  BY DEF Init, Rest
<1>8. connected \in BOOLEAN
  BY DEF Init
<1>9. TypeOK
  BY <1>1, <1>3, <1>5, <1>6, <1>7, <1>8 DEF TypeOK
<1> QED
  BY <1>4, <1>9 DEF IInv, CursorIdsConsistent, FreeNamedByIds

(***************************************************************************)
(* The active cursors of a usable pool are finitely many.                  *)
(***************************************************************************)
LEMMA ActiveFinite == IInv => IsPool(pool) /\ IsFiniteSet(DOMAIN pool.active)
BY ConsistentIsFinite, FS_EmptySet DEF IInv, TypeOK, CursorIdsConsistent

(***************************************************************************)
(* The first cursor after a disconnect gets id 0, and the stale maxCursorID *)
(* is repaired.                                                            *)
(***************************************************************************)
LEMMA AddToEmpty ==
  ASSUME NEW p, IsPool(p), DOMAIN p.active = {}, DOMAIN p.free = {},
         NEW s, NEW q \in AddCursor(p, s)
  PROVE  q.active = With(p.active, s, 0) /\ PoolConsistent(q)
<1>1. Cardinality(DOMAIN p.active) = 0
  BY FS_EmptySet
<1>2. q = [active |-> With(p.active, s, 0), free |-> p.free, max |-> 0]
  BY <1>1 DEF AddCursor, Reuses
<1>3. Ids(q.active) = {0} /\ Ids(q.free) = {}
  BY <1>2 DEF Ids, With
<1>4. IsInjection(q.active) /\ IsInjection(q.free)
  BY <1>2 DEF IsInjection, With
<1>5. q.max = 0 /\ 0..0 = {0}
  BY <1>2
<1> QED
  BY <1>2, <1>3, <1>4, <1>5 DEF PoolConsistent

(***************************************************************************)
(* What the two steps with cursors do to the ids.                          *)
(***************************************************************************)
LEMMA PoolAdd ==
  ASSUME IInv, NEW s, s \notin DOMAIN pool.active, pool' \in AddCursor(pool, s)
  PROVE  /\ IsPool(pool') /\ DOMAIN pool'.active = DOMAIN pool.active \cup {s}
         /\ CursorIdsConsistent' /\ FreeNamedByIds'
<1>1. IsPool(pool) /\ IsFiniteSet(DOMAIN pool.active)
  BY ActiveFinite
<1>2. IsPool(pool') /\ DOMAIN pool'.active = DOMAIN pool.active \cup {s}
  BY <1>1, AddCursorType
<1>3. PoolConsistent(pool')
  BY <1>1, AddCursorConsistent, AddToEmpty DEF IInv, CursorIdsConsistent
<1>4. \/ pool'.free = pool.free
      \/ \E c \in DOMAIN pool.free : pool'.free = Without(pool.free, {c})
  <2>1. CASE Reuses(pool)
    <3>1. PICK c \in DOMAIN pool.free :
            pool' = [active |-> With(pool.active, s, pool.free[c]),
                     free   |-> Without(pool.free, {c}),
                     max    |-> pool.max]
      BY <2>1 DEF AddCursor
    <3> QED
      BY <3>1
  <2>2. CASE ~Reuses(pool)
    BY <2>2 DEF AddCursor
  <2> QED
    BY <2>1, <2>2
<1>5. FreeNamedByIds'
  BY <1>4 DEF IInv, FreeNamedByIds, Without
<1> QED
  BY <1>2, <1>3, <1>5 DEF CursorIdsConsistent

LEMMA PoolRemove ==
  ASSUME IInv, NEW s \in DOMAIN pool.active,
         pool' = RemoveCursor(pool, s, pool.active[s])
  PROVE  /\ IsPool(pool') /\ DOMAIN pool'.active = DOMAIN pool.active \ {s}
         /\ CursorIdsConsistent' /\ FreeNamedByIds'
<1> DEFINE k == pool.active[s]
<1>1. IsPool(pool) /\ IsFiniteSet(DOMAIN pool.active) /\ PoolConsistent(pool)
  BY ActiveFinite DEF IInv, CursorIdsConsistent
<1>2. k \notin DOMAIN pool.free
  BY <1>1 DEF IInv, FreeNamedByIds, PoolConsistent, Ids
<1>3. IsPool(pool') /\ DOMAIN pool'.active = DOMAIN pool.active \ {s}
  BY <1>1, RemoveCursorType
<1>4. PoolConsistent(pool')
  BY <1>1, <1>2, RemoveCursorConsistent
<1>5. \/ pool'.free = pool.free
      \/ pool'.free = With(pool.free, k, k)
      \/ \E C : pool'.free = Without(pool.free, C)
  BY DEF RemoveCursor
<1>6. FreeNamedByIds'
  BY <1>5 DEF IInv, FreeNamedByIds, Without, With
<1> QED
  BY <1>3, <1>4, <1>6 DEF CursorIdsConsistent

-----------------------------------------------------------------------------
(***************************************************************************)
(* A bundle concerns sessions of the sender; a frame that is processed,    *)
(* sessions of the bundle and of the list.                                 *)
(***************************************************************************)
LEMMA FrameBegins ==
  ASSUME TypeOK, NEW p \in Profiles, NEW b \in Bundle(p), Receive(b), ~Late(b)
  PROVE  /\ currentFrame' \in Nat \cup {-1}
         /\ frame' = [profile |-> frame'.profile, news |-> frame'.news, gone |-> frame'.gone]
         /\ frame'.profile \in Profiles
         /\ frame'.gone \subseteq DOMAIN list[frame'.profile]
         /\ frame'.news \in [DOMAIN frame'.news -> Content]
         /\ frame'.gone \cap DOMAIN frame'.news = {}
<1>1. PICK A \in SUBSET Sessions :
        b \in [profile : {p}, alive : {A}, sets : UNION {[S -> Content] : S \in SUBSET A},
               fseq : Fseqs]
  BY DEF Bundle
<1>2. PICK S \in SUBSET A : b.sets \in [S -> Content]
  BY <1>1
<1>3. b.profile = p /\ b.alive = A /\ b.fseq \in Fseqs
  BY <1>1
<1>4. currentFrame' \in Nat \cup {-1}
  BY <1>3 DEF Receive, TypeOK, Fseqs
<1>5. News(b) \subseteq S
  BY <1>2 DEF News
<1>6. frame' = [profile |-> b.profile,
                news    |-> [s \in News(b) |-> b.sets[s]],
                gone    |-> DOMAIN list[b.profile] \ b.alive]
  BY DEF Receive
<1>7. /\ frame'.profile = p
      /\ frame'.gone = DOMAIN list[p] \ A
      /\ frame'.news = [s \in News(b) |-> b.sets[s]]
  BY <1>3, <1>6
<1>8. \A s \in News(b) : b.sets[s] \in Content
  BY <1>2, <1>5
<1>9. DOMAIN frame'.news = News(b) /\ frame'.news \in [News(b) -> Content]
  BY <1>7, <1>8
<1>10. frame'.gone \cap News(b) = {}
  BY <1>2, <1>5, <1>7
<1>11. frame' = [profile |-> frame'.profile, news |-> frame'.news, gone |-> frame'.gone]
  BY <1>6
<1> QED
  BY <1>4, <1>7, <1>9, <1>10, <1>11

(***************************************************************************)
(* Content stays content when it is added or updated.                      *)
(***************************************************************************)
LEMMA StepContent ==
  ASSUME NEW c \in Content, NEW old \in Content
  PROVE  /\ \A d \in Added(c) : d \in Content /\ d.pos = c.pos
         /\ \A d \in Updated(old, c) : d \in Content /\ d.pos = c.pos
<1>1. \A d \in Added(c) : d \in Content /\ d.pos = c.pos
  BY DEF Added, Content
<1>2. \A d \in Updated(old, c) : d \in Content /\ d.pos = c.pos
  BY DEF Updated, Content
<1> QED
  BY <1>1, <1>2

(***************************************************************************)
(* One element of a frame: what is left of the frame, what the list and    *)
(* the listener get, and what happens to the ids.                          *)
(***************************************************************************)
NewsStep(p, s, c) ==
  /\ s \in DOMAIN frame.news
  /\ c \in Content /\ c.pos = frame.news[s].pos
  /\ list' = [list EXCEPT ![p] = With(@, s, c)]
  /\ known' = [known EXCEPT ![p] = With(@, s, c)]
  /\ frame' = [frame EXCEPT !.news = Without(@, {s})]
  /\ UNCHANGED <<currentFrame, connected, connects>>
  /\ IF p = "cur" /\ s \notin DOMAIN list[p]
       THEN pool' \in AddCursor(pool, s) ELSE pool' = pool

LEMMA NewsSteps ==
  ASSUME TypeOK, NEW s \in Sessions, ProcessNews(s)
  PROVE  /\ frame # Rest /\ frame.profile \in Profiles
         /\ \E c : NewsStep(frame.profile, s, c)
<1> DEFINE p == frame.profile
<1>1. frame # Rest
  BY DEF ProcessNews, Rest, EmptyMap
<1>2. /\ p \in Profiles /\ frame.news \in [DOMAIN frame.news -> Content]
      /\ s \in DOMAIN frame.news
  BY <1>1 DEF TypeOK, ProcessNews
<1>3. frame.news[s] \in Content
  BY <1>2
<1>4. CASE s \notin DOMAIN list[p]
  <2>1. PICK c \in Added(frame.news[s]) :
          /\ list' = [list EXCEPT ![p] = With(@, s, c)]
          /\ known' = [known EXCEPT ![p] = With(@, s, c)]
    BY <1>4 DEF ProcessNews
  <2>2. c \in Content /\ c.pos = frame.news[s].pos
    BY <1>3, StepContent
  <2>3. IF p = "cur" THEN pool' \in AddCursor(pool, s) ELSE pool' = pool
    BY <1>4 DEF ProcessNews
  <2>4. NewsStep(p, s, c)
    BY <1>2, <1>4, <2>1, <2>2, <2>3 DEF NewsStep, ProcessNews
  <2> QED
    BY <1>1, <1>2, <2>4
<1>5. CASE s \in DOMAIN list[p]
  <2>1. PICK c \in Updated(list[p][s], frame.news[s]) :
          /\ list' = [list EXCEPT ![p] = With(@, s, c)]
          /\ known' = [known EXCEPT ![p] = With(@, s, c)]
    BY <1>5 DEF ProcessNews
  <2>2. list[p][s] \in Content
    BY <1>2, <1>5 DEF TypeOK
  <2>3. c \in Content /\ c.pos = frame.news[s].pos
    BY <1>3, <2>2, StepContent
  <2>4. pool' = pool
    BY <1>5 DEF ProcessNews
  <2>5. NewsStep(p, s, c)
    BY <1>2, <1>5, <2>1, <2>3, <2>4 DEF NewsStep, ProcessNews
  <2> QED
    BY <1>1, <1>2, <2>5
<1> QED
  BY <1>4, <1>5

(***************************************************************************)
(* IInv is inductive.  Only the steps that change what it is about need    *)
(* more than a look at the action.                                         *)
(***************************************************************************)
LEMMA NewsKeeps ==
  ASSUME IInv, NEW s \in Sessions, ProcessNews(s)
  PROVE  IInv'
<1> DEFINE p == frame.profile
<1>1. TypeOK
  BY DEF IInv
<1>2. frame # Rest /\ p \in Profiles
  BY <1>1, NewsSteps
<1>3. PICK c : NewsStep(p, s, c)
  BY <1>1, NewsSteps
<1>4. /\ frame.gone \subseteq DOMAIN list[p]
      /\ frame.news \in [DOMAIN frame.news -> Content]
      /\ frame.gone \cap DOMAIN frame.news = {}
  BY <1>1, <1>2 DEF TypeOK
<1>5. /\ list' = [q \in Profiles |-> IF q = p THEN With(list[p], s, c) ELSE list[q]]
      /\ known' = [q \in Profiles |-> IF q = p THEN With(known[p], s, c) ELSE known[q]]
  BY <1>1, <1>2, <1>3 DEF NewsStep, TypeOK
<1>6. /\ DOMAIN With(list[p], s, c) = DOMAIN list[p] \cup {s}
      /\ With(list[p], s, c) \in [DOMAIN list[p] \cup {s} -> Content]
      /\ DOMAIN With(known[p], s, c) = DOMAIN known[p] \cup {s}
      /\ With(known[p], s, c) \in [DOMAIN known[p] \cup {s} -> Content]
  BY <1>1, <1>2, <1>3 DEF NewsStep, TypeOK, With
<1>7. /\ list' = [q \in Profiles |-> list'[q]] /\ known' = [q \in Profiles |-> known'[q]]
      /\ \A q \in Profiles :
           /\ list'[q] \in [DOMAIN list'[q] -> Content]
           /\ known'[q] \in [DOMAIN known'[q] -> Content]
           /\ DOMAIN list'[q] \subseteq Sessions
  <2>1. \A q \in Profiles : /\ list[q] \in [DOMAIN list[q] -> Content]
                            /\ known[q] \in [DOMAIN known[q] -> Content]
                            /\ DOMAIN list[q] \subseteq Sessions
    BY <1>1 DEF TypeOK
  <2> QED
    BY <1>5, <1>6, <2>1
<1>8. /\ frame' = [profile |-> frame'.profile, news |-> frame'.news, gone |-> frame'.gone]
      /\ frame'.profile = p /\ frame'.gone = frame.gone
      /\ frame'.news = Without(frame.news, {s})
  BY <1>1, <1>3 DEF NewsStep, TypeOK
<1>9. /\ frame'.gone \subseteq DOMAIN list'[p]
      /\ frame'.news \in [DOMAIN frame'.news -> Content]
      /\ frame'.gone \cap DOMAIN frame'.news = {}
  <2>1. Without(frame.news, {s}) \in [DOMAIN frame.news \ {s} -> Content]
    BY <1>4 DEF Without
  <2>2. DOMAIN list'[p] = DOMAIN list[p] \cup {s}
    BY <1>2, <1>5, <1>6
  <2> QED
    BY <1>4, <1>8, <2>1, <2>2
<1>10. /\ IsPool(pool') /\ CursorIdsConsistent' /\ FreeNamedByIds'
       /\ DOMAIN pool'.active = IF "cur" \in Profiles THEN DOMAIN list'["cur"] ELSE {}
  <2>1. CASE p = "cur" /\ s \notin DOMAIN list[p]
    <3>1. s \notin DOMAIN pool.active /\ pool' \in AddCursor(pool, s)
      BY <1>1, <1>2, <1>3, <2>1 DEF NewsStep, TypeOK
    <3>2. /\ IsPool(pool') /\ CursorIdsConsistent' /\ FreeNamedByIds'
          /\ DOMAIN pool'.active = DOMAIN pool.active \cup {s}
      BY <3>1, PoolAdd
    <3>3. DOMAIN list'["cur"] = DOMAIN list["cur"] \cup {s}
      BY <1>2, <1>5, <1>6, <2>1
    <3> QED
      BY <1>1, <1>2, <2>1, <3>2, <3>3 DEF TypeOK
  <2>2. CASE ~(p = "cur" /\ s \notin DOMAIN list[p])
    <3>1. pool' = pool
      BY <1>3, <2>2 DEF NewsStep
    <3>2. "cur" \in Profiles => DOMAIN list'["cur"] = DOMAIN list["cur"]
      BY <1>2, <1>5, <1>6, <2>2
    <3>3. IsPool(pool) /\ CursorIdsConsistent /\ FreeNamedByIds
          /\ DOMAIN pool.active = IF "cur" \in Profiles THEN DOMAIN list["cur"] ELSE {}
      BY DEF IInv, TypeOK
    <3> QED
      BY <3>1, <3>2, <3>3 DEF CursorIdsConsistent, FreeNamedByIds
  <2> QED
    BY <2>1, <2>2
<1>11. UNCHANGED <<currentFrame, connected, connects>>
  BY <1>3 DEF NewsStep
<1>12. currentFrame' \in Nat \cup {-1} /\ connects' \in 0..MaxConnects
  BY <1>1, <1>11 DEF TypeOK
<1>13. connected' \in BOOLEAN
  BY <1>1, <1>11 DEF TypeOK
<1>14. TypeOK'
  BY <1>2, <1>7, <1>8, <1>9, <1>10, <1>12, <1>13 DEF TypeOK
<1> QED
  BY <1>10, <1>14 DEF IInv

LEMMA GoneKeeps ==
  ASSUME IInv, NEW s \in Sessions, ProcessGone(s)
  PROVE  IInv'
<1> DEFINE p == frame.profile
<1>1. TypeOK
  BY DEF IInv
<1>2. /\ frame # Rest /\ p \in Profiles
      /\ frame.gone \subseteq DOMAIN list[p] /\ s \in frame.gone
      /\ frame.news \in [DOMAIN frame.news -> Content]
      /\ frame.gone \cap DOMAIN frame.news = {}
  <2>1. s \in frame.gone
    BY DEF ProcessGone
  <2>2. frame # Rest
    BY <2>1 DEF Rest
  <2> QED
    BY <1>1, <2>1, <2>2 DEF TypeOK
<1>3. /\ list' = [q \in Profiles |-> IF q = p THEN Without(list[p], {s}) ELSE list[q]]
      /\ known' = [q \in Profiles |-> IF q = p THEN Without(known[p], {s}) ELSE known[q]]
  BY <1>1, <1>2 DEF ProcessGone, TypeOK
<1>4. \A q \in Profiles : /\ list[q] \in [DOMAIN list[q] -> Content]
                          /\ known[q] \in [DOMAIN known[q] -> Content]
                          /\ DOMAIN list[q] \subseteq Sessions
  BY <1>1 DEF TypeOK
<1>5. /\ DOMAIN Without(list[p], {s}) = DOMAIN list[p] \ {s}
      /\ Without(list[p], {s}) \in [DOMAIN list[p] \ {s} -> Content]
      /\ DOMAIN Without(known[p], {s}) = DOMAIN known[p] \ {s}
      /\ Without(known[p], {s}) \in [DOMAIN known[p] \ {s} -> Content]
  BY <1>2, <1>4 DEF Without
<1>6. /\ list' = [q \in Profiles |-> list'[q]] /\ known' = [q \in Profiles |-> known'[q]]
      /\ \A q \in Profiles :
           /\ list'[q] \in [DOMAIN list'[q] -> Content]
           /\ known'[q] \in [DOMAIN known'[q] -> Content]
           /\ DOMAIN list'[q] \subseteq Sessions
  BY <1>3, <1>4, <1>5
<1>7. /\ frame' = [profile |-> frame'.profile, news |-> frame'.news, gone |-> frame'.gone]
      /\ frame'.profile = p /\ frame'.gone = frame.gone \ {s} /\ frame'.news = frame.news
  BY <1>1 DEF ProcessGone, TypeOK
<1>8. /\ frame'.gone \subseteq DOMAIN list'[p]
      /\ frame'.news \in [DOMAIN frame'.news -> Content]
      /\ frame'.gone \cap DOMAIN frame'.news = {}
  BY <1>2, <1>3, <1>5, <1>7
<1>9. /\ IsPool(pool') /\ CursorIdsConsistent' /\ FreeNamedByIds'
      /\ DOMAIN pool'.active = IF "cur" \in Profiles THEN DOMAIN list'["cur"] ELSE {}
  <2>1. CASE p = "cur"
    <3>1. s \in DOMAIN pool.active /\ pool' = RemoveCursor(pool, s, pool.active[s])
      BY <1>1, <1>2, <2>1 DEF ProcessGone, TypeOK
    <3>2. /\ IsPool(pool') /\ CursorIdsConsistent' /\ FreeNamedByIds'
          /\ DOMAIN pool'.active = DOMAIN pool.active \ {s}
      BY <3>1, PoolRemove
    <3>3. DOMAIN list'["cur"] = DOMAIN list["cur"] \ {s}
      BY <1>2, <1>3, <1>5, <2>1
    <3> QED
      BY <1>1, <1>2, <2>1, <3>2, <3>3 DEF TypeOK
  <2>2. CASE p # "cur"
    <3>1. pool' = pool
      BY <2>2 DEF ProcessGone
    <3>2. "cur" \in Profiles => DOMAIN list'["cur"] = DOMAIN list["cur"]
      BY <1>3, <2>2
    <3>3. IsPool(pool) /\ CursorIdsConsistent /\ FreeNamedByIds
          /\ DOMAIN pool.active = IF "cur" \in Profiles THEN DOMAIN list["cur"] ELSE {}
      BY DEF IInv, TypeOK
    <3> QED
      BY <3>1, <3>2, <3>3 DEF CursorIdsConsistent, FreeNamedByIds
  <2> QED
    BY <2>1, <2>2
<1>10. UNCHANGED <<currentFrame, connected, connects>>
  BY DEF ProcessGone
<1>11. currentFrame' \in Nat \cup {-1} /\ connects' \in 0..MaxConnects
  BY <1>1, <1>10 DEF TypeOK
<1>12. connected' \in BOOLEAN
  BY <1>1, <1>10 DEF TypeOK
<1>13. TypeOK'
  BY <1>2, <1>6, <1>7, <1>8, <1>9, <1>11, <1>12 DEF TypeOK
<1> QED
  BY <1>9, <1>13 DEF IInv

LEMMA IStep == IInv /\ [Next]_vars => IInv'
<1> SUFFICES ASSUME IInv, [Next]_vars PROVE IInv'
  OBVIOUS
<1>0. TypeOK /\ CursorIdsConsistent /\ FreeNamedByIds
  BY DEF IInv
<1>1. CASE Connect
  <2>1. connects' \in 0..MaxConnects /\ connected' = TRUE
    BY <1>0, <1>1 DEF Connect, TypeOK
  <2> QED
    BY <1>0, <1>1, <2>1
    DEF Connect, IInv, TypeOK, CursorIdsConsistent, FreeNamedByIds
<1>2. CASE Disconnect
  <2>1. IsPool(pool') /\ DOMAIN pool'.active = {} /\ DOMAIN pool'.free = {}
    BY <1>0, <1>2 DEF Disconnect, TypeOK, IsPool, EmptyPool, EmptyMap
  <2>2. /\ list' = [p \in Profiles |-> list'[p]]
        /\ \A p \in Profiles : DOMAIN list'[p] = {} /\ list'[p] \in [{} -> Content]
    BY <1>2 DEF Disconnect, EmptyMap
  <2>3. UNCHANGED <<currentFrame, frame, connects, known>> /\ frame = Rest
    BY <1>2 DEF Disconnect, Idle
  <2>4. connected' \in BOOLEAN
    BY <1>2 DEF Disconnect
  <2>5. TypeOK'
    BY <1>0, <2>1, <2>2, <2>3, <2>4 DEF TypeOK
  <2> QED
    BY <2>1, <2>5 DEF IInv, CursorIdsConsistent, FreeNamedByIds
<1>3. ASSUME NEW p \in Profiles, NEW b \in Bundle(p), Receive(b) PROVE IInv'
  <2>1. UNCHANGED <<list, pool, connected, connects, known>>
    BY <1>3 DEF Receive
  <2>2. CASE Late(b)
    <3>1. UNCHANGED <<currentFrame, frame>>
      BY <1>3, <2>2 DEF Receive
    <3> QED
      BY <1>0, <2>1, <3>1 DEF IInv, TypeOK, CursorIdsConsistent, FreeNamedByIds
  <2>3. CASE ~Late(b)
    <3>1. /\ currentFrame' \in Nat \cup {-1}
          /\ frame' = [profile |-> frame'.profile, news |-> frame'.news, gone |-> frame'.gone]
          /\ frame'.profile \in Profiles
          /\ frame'.gone \subseteq DOMAIN list[frame'.profile]
          /\ frame'.news \in [DOMAIN frame'.news -> Content]
          /\ frame'.gone \cap DOMAIN frame'.news = {}
      BY <1>0, <1>3, <2>3, FrameBegins
    <3>2. TypeOK'
      BY <1>0, <2>1, <3>1 DEF TypeOK
    <3> QED
      BY <1>0, <2>1, <3>2 DEF IInv, CursorIdsConsistent, FreeNamedByIds
  <2> QED
    BY <2>2, <2>3
<1>4. CASE ProcessFrame
  <2>1. ASSUME NEW s \in Sessions, ProcessNews(s) PROVE IInv'
    BY <2>1, NewsKeeps
  <2>2. ASSUME NEW s \in Sessions, ProcessGone(s) PROVE IInv'
    BY <2>2, GoneKeeps
  <2>3. CASE Refresh
    <3>1. /\ UNCHANGED <<list, pool, currentFrame, connected, connects, known>>
          /\ frame' = Rest
          /\ frame' = [profile |-> frame'.profile, news |-> frame'.news, gone |-> frame'.gone]
      BY <2>3 DEF Refresh, Rest
    <3> QED
      BY <1>0, <3>1 DEF IInv, TypeOK, CursorIdsConsistent, FreeNamedByIds
  <2> QED
    BY <1>4, <2>1, <2>2, <2>3 DEF ProcessFrame
<1>5. CASE UNCHANGED vars
  BY <1>0, <1>5 DEF vars, IInv, TypeOK, CursorIdsConsistent, FreeNamedByIds
<1> QED
  BY <1>1, <1>2, <1>3, <1>4, <1>5 DEF Next

(***************************************************************************)
(* Every reachable state of the client is well typed, its id allocation    *)
(* knows exactly the cursors of its list, and what is left of a frame      *)
(* concerns distinct sessions, whatever bundles are received.              *)
(***************************************************************************)
THEOREM TypeCorrect == Spec => []TypeOK
BY IInit, IStep, PTL DEF Spec, IInv

(***************************************************************************)
(* Cursors that the client shows together have distinct ids, 0..max with   *)
(* the free ones, through every order of bundles and over reconnections    *)
(* (the 2Dcur branch of ProcessMessage, and disconnect).                   *)
(***************************************************************************)
THEOREM CursorIdsCorrect == Spec => []CursorIdsConsistent
BY IInit, IStep, PTL DEF Spec, IInv

-----------------------------------------------------------------------------
(***************************************************************************)
(* From the first connect on, until a disconnect, the listener knows what  *)
(* the lists hold.                                                         *)
(***************************************************************************)
ListenerKnows ==
  /\ connects = 0 => ~connected
  /\ connects = 0 \/ (connected /\ connects = 1) => known = list

LEMMA ListenerKnowsStep == IInv /\ ListenerKnows /\ [Next]_vars => ListenerKnows'
<1> SUFFICES ASSUME IInv, ListenerKnows, [Next]_vars PROVE ListenerKnows'
  OBVIOUS
<1>0. TypeOK /\ connects \in Nat
  BY DEF IInv, TypeOK
<1>1. CASE Connect
  <2>1. connects' = connects + 1 /\ UNCHANGED <<list, known>>
    BY <1>1 DEF Connect
  <2>2. connects' # 0 /\ (connects' = 1 => connects = 0)
    BY <1>0, <2>1
  <2> QED
    BY <2>1, <2>2 DEF ListenerKnows
<1>2. CASE Disconnect
  <2>1. connected /\ ~connected' /\ connects' = connects
    BY <1>2 DEF Disconnect, Idle
  <2> QED
    BY <2>1 DEF ListenerKnows
<1>3. ASSUME NEW p \in Profiles, NEW b \in Bundle(p), Receive(b) PROVE ListenerKnows'
  BY <1>3 DEF Receive, ListenerKnows
<1>4. CASE ProcessFrame
  <2>1. ASSUME NEW s \in Sessions, ProcessNews(s) PROVE ListenerKnows'
    <3>1. PICK c : NewsStep(frame.profile, s, c)
      BY <1>0, <2>1, NewsSteps
    <3>2. known = list => known' = list'
      BY <3>1 DEF NewsStep
    <3>3. UNCHANGED <<connected, connects>>
      BY <3>1 DEF NewsStep
    <3> QED
      BY <3>2, <3>3 DEF ListenerKnows
  <2>2. ASSUME NEW s \in Sessions, ProcessGone(s) PROVE ListenerKnows'
    <3>1. known = list => known' = list'
      BY <2>2 DEF ProcessGone
    <3>2. UNCHANGED <<connected, connects>>
      BY <2>2 DEF ProcessGone
    <3> QED
      BY <3>1, <3>2 DEF ListenerKnows
  <2>3. CASE Refresh
    BY <2>3 DEF Refresh, ListenerKnows
  <2> QED
    BY <1>4, <2>1, <2>2, <2>3 DEF ProcessFrame
<1>5. CASE UNCHANGED vars
  BY <1>5 DEF vars, ListenerKnows
<1> QED
  BY <1>1, <1>2, <1>3, <1>4, <1>5 DEF Next

(***************************************************************************)
(* When a frame begins, what it will have told the listener is what the    *)
(* bundle says.                                                            *)
(***************************************************************************)
LEMMA FrameApplied ==
  ASSUME IInv, ListenerKnows, connects = 1,
         NEW p \in Profiles, NEW b \in Bundle(p), Receive(b), frame' # Rest
  PROVE  Outlook(p)' = Applied(Outlook(p), b)
<1> DEFINE K == DOMAIN list[p]
<1>0. TypeOK
  BY DEF IInv
<1>1. connected /\ frame = Rest /\ known' = known /\ known = list /\ ~Late(b)
  BY DEF Receive, Idle, ListenerKnows
<1>2. PICK A \in SUBSET Sessions :
        b \in [profile : {p}, alive : {A}, sets : UNION {[S -> Content] : S \in SUBSET A},
               fseq : Fseqs]
  BY DEF Bundle
<1>3. PICK S \in SUBSET A : b.sets \in [S -> Content]
  BY <1>2
<1>4. b.profile = p /\ b.alive = A /\ DOMAIN b.sets = S
  BY <1>2, <1>3
<1>5. News(b) = {s \in S : s \in K => list[p][s] # b.sets[s]}
  BY <1>4 DEF News
<1>6. frame' = [profile |-> p, news |-> [s \in News(b) |-> b.sets[s]], gone |-> K \ A]
  BY <1>1, <1>4 DEF Receive
<1>7. Rest.profile # p /\ DOMAIN Rest.news = {} /\ Rest.gone = {}
  BY DEF Rest, EmptyMap
<1>8. Outlook(p) = [s \in K |-> list[p][s].pos]
  BY <1>1, <1>7 DEF Outlook
<1>9. Outlook(p)' = [s \in (K \cup News(b)) \ (K \ A) |->
                      IF s \in News(b) THEN b.sets[s].pos ELSE list[p][s].pos]
  BY <1>1, <1>6 DEF Outlook
<1>10. Applied(Outlook(p), b) = [s \in A \cap (K \cup S) |->
                                  IF s \in S THEN b.sets[s].pos ELSE list[p][s].pos]
  BY <1>4, <1>8 DEF Applied
<1>11. (K \cup News(b)) \ (K \ A) = A \cap (K \cup S)
  BY <1>3, <1>5
<1>12. \A s \in A \cap (K \cup S) :
         (IF s \in News(b) THEN b.sets[s].pos ELSE list[p][s].pos)
           = IF s \in S THEN b.sets[s].pos ELSE list[p][s].pos
  BY <1>5
<1> QED
  BY <1>9, <1>10, <1>11, <1>12

(***************************************************************************)
(* Nothing else changes the outlook: a callback moves a session from what  *)
(* is left of the frame to what the listener knows.                        *)
(***************************************************************************)
LEMMA NewsOutlook ==
  ASSUME IInv, NEW s \in Sessions, ProcessNews(s), NEW p \in Profiles
  PROVE  Outlook(p)' = Outlook(p)
<1> DEFINE q == frame.profile
<1>0. TypeOK
  BY DEF IInv
<1>1. frame # Rest /\ q \in Profiles
  BY <1>0, NewsSteps
<1>2. PICK c : NewsStep(q, s, c)
  BY <1>0, NewsSteps
<1>3. /\ frame'.profile = q /\ frame'.gone = frame.gone
      /\ frame'.news = Without(frame.news, {s})
  BY <1>0, <1>2 DEF NewsStep, TypeOK
<1>4. /\ known'[q] = With(known[q], s, c)
      /\ p # q => known'[p] = known[p]
  BY <1>0, <1>1, <1>2 DEF NewsStep, TypeOK
<1>5. /\ s \in DOMAIN frame.news /\ s \notin frame.gone
      /\ c.pos = frame.news[s].pos
  BY <1>0, <1>1, <1>2 DEF NewsStep, TypeOK
<1>6. CASE p = q
  <2> DEFINE D == (DOMAIN known[p] \cup DOMAIN frame.news) \ frame.gone
  <2>1. Outlook(p) = [t \in D |-> IF t \in DOMAIN frame.news THEN frame.news[t].pos
                                                            ELSE known[p][t].pos]
    BY <1>6 DEF Outlook
  <2>2. Outlook(p)' = [t \in (DOMAIN known'[p] \cup DOMAIN frame'.news) \ frame'.gone |->
                        IF t \in DOMAIN frame'.news THEN frame'.news[t].pos
                                                    ELSE known'[p][t].pos]
    BY <1>3, <1>6 DEF Outlook
  <2>3. (DOMAIN known'[p] \cup DOMAIN frame'.news) \ frame'.gone = D
    BY <1>3, <1>4, <1>5, <1>6 DEF With, Without
  <2>4. \A t \in D : (IF t \in DOMAIN frame'.news THEN frame'.news[t].pos
                                                   ELSE known'[p][t].pos)
                     = IF t \in DOMAIN frame.news THEN frame.news[t].pos
                                                  ELSE known[p][t].pos
    BY <1>3, <1>4, <1>5, <1>6 DEF With, Without
  <2> QED
    BY <2>1, <2>2, <2>3, <2>4
<1>7. CASE p # q
  BY <1>3, <1>4, <1>7 DEF Outlook
<1> QED
  BY <1>6, <1>7

LEMMA GoneOutlook ==
  ASSUME IInv, NEW s \in Sessions, ProcessGone(s), NEW p \in Profiles
  PROVE  Outlook(p)' = Outlook(p)
<1> DEFINE q == frame.profile
<1>0. TypeOK
  BY DEF IInv
<1>1. s \in frame.gone /\ DOMAIN frame.news = {}
  BY DEF ProcessGone
<1>2. frame # Rest
  BY <1>1 DEF Rest
<1>3. q \in Profiles
  BY <1>0, <1>2 DEF TypeOK
<1>4. /\ frame'.profile = q /\ frame'.gone = frame.gone \ {s}
      /\ frame'.news = frame.news
  BY <1>0 DEF ProcessGone, TypeOK
<1>5. /\ known'[q] = Without(known[q], {s})
      /\ p # q => known'[p] = known[p]
  BY <1>0, <1>3 DEF ProcessGone, TypeOK
<1>6. CASE p = q
  <2> DEFINE D == DOMAIN known[p] \ frame.gone
  <2>1. Outlook(p) = [t \in D |-> known[p][t].pos]
    BY <1>1, <1>6 DEF Outlook
  <2>2. Outlook(p)' = [t \in DOMAIN known'[p] \ frame'.gone |-> known'[p][t].pos]
    BY <1>1, <1>4, <1>6 DEF Outlook
  <2>3. DOMAIN known'[p] \ frame'.gone = D
    BY <1>1, <1>4, <1>5, <1>6 DEF Without
  <2>4. \A t \in D : known'[p][t].pos = known[p][t].pos
    BY <1>1, <1>5, <1>6 DEF Without
  <2> QED
    BY <2>1, <2>2, <2>3, <2>4
<1>7. CASE p # q
  BY <1>4, <1>5, <1>7 DEF Outlook
<1> QED
  BY <1>6, <1>7

LEMMA OutlookKept ==
  ASSUME IInv, [Next]_vars, NEW p \in Profiles, frame'.profile # p \/ frame # Rest
  PROVE  Outlook(p)' = Outlook(p)
<1>1. CASE Connect
  BY <1>1 DEF Connect, Outlook
<1>2. CASE Disconnect
  BY <1>2 DEF Disconnect, Outlook
<1>3. ASSUME NEW q \in Profiles, NEW b \in Bundle(q), Receive(b)
      PROVE  Outlook(p)' = Outlook(p)
  <2>1. frame = Rest /\ known' = known /\ frame'.profile # p
    BY <1>3 DEF Receive, Idle
  <2>2. frame.profile # p
    BY <2>1 DEF Rest
  <2> QED
    BY <2>1, <2>2 DEF Outlook
<1>4. CASE ProcessFrame
  <2>1. CASE Refresh
    <3>1. /\ DOMAIN frame.news = {} /\ frame.gone = {} /\ frame' = Rest
          /\ known' = known
      BY <2>1 DEF Refresh
    <3>2. Rest.profile # p /\ DOMAIN Rest.news = {} /\ Rest.gone = {}
      BY DEF Rest, EmptyMap
    <3>3. Outlook(p)' = [s \in DOMAIN known[p] |-> known[p][s].pos]
      BY <3>1, <3>2 DEF Outlook
    <3>4. Outlook(p) = [s \in DOMAIN known[p] |-> known[p][s].pos]
      BY <3>1, <3>2 DEF Outlook
    <3> QED
      BY <3>3, <3>4
  <2> QED
    BY <1>4, <2>1, NewsOutlook, GoneOutlook DEF ProcessFrame
<1>5. CASE UNCHANGED vars
  BY <1>5 DEF vars, Outlook
<1> QED
  BY <1>1, <1>2, <1>3, <1>4, <1>5 DEF Next

(***************************************************************************)
(* The callbacks of a frame add up to its bundle, for any number of        *)
(* sessions, in whatever order the elements are processed and whatever     *)
(* bundles came before (the fseq branch of ProcessMessage).                *)
(***************************************************************************)
THEOREM CallbacksAddUp == Spec => FramesApplied
<1> DEFINE Step == connects' = 1 =>
             \A p \in Profiles :
               /\ \A b \in Bundle(p) :
                    Receive(b) /\ frame' # Rest => Outlook(p)' = Applied(Outlook(p), b)
               /\ frame'.profile # p \/ frame # Rest => Outlook(p)' = Outlook(p)
<1>1. Init => ListenerKnows
  BY DEF Init, ListenerKnows
<1>2. IInv /\ ListenerKnows /\ [Next]_vars => Step
  <2> SUFFICES ASSUME IInv, ListenerKnows, [Next]_vars, connects' = 1, NEW p \in Profiles
               PROVE  /\ \A b \in Bundle(p) :
                           Receive(b) /\ frame' # Rest =>
                             Outlook(p)' = Applied(Outlook(p), b)
                      /\ frame'.profile # p \/ frame # Rest => Outlook(p)' = Outlook(p)
    OBVIOUS
  <2>1. ASSUME NEW b \in Bundle(p), Receive(b), frame' # Rest
        PROVE  Outlook(p)' = Applied(Outlook(p), b)
    <3>1. connects = 1
      BY <2>1 DEF Receive
    <3> QED
      BY <2>1, <3>1, FrameApplied
  <2> QED
    BY <2>1, OutlookKept
<1>3. IInv /\ ListenerKnows /\ [Next]_vars => [Step]_vars
  BY <1>2
<1> QED
  BY <1>1, <1>3, IInit, IStep, ListenerKnowsStep, PTL DEF Spec, FramesApplied

-----------------------------------------------------------------------------
(***************************************************************************)
(* The client implements CursorSlots while it is connected.                *)
(***************************************************************************)
LEMMA SlotsAppear ==
  ASSUME IInv, NEW s \in Sessions, s \notin DOMAIN pool.active, pool' \in AddCursor(pool, s)
  PROVE  Slots!Appear(s)
<1>1. IsPool(pool)
  BY DEF IInv, TypeOK
<1>2. CASE PoolConsistent(pool)
  <2>1. \E id \in Slots!Offered : pool'.active = With(pool.active, s, id)
    BY <1>1, <1>2, AddCursorFillsGaps
    DEF Slots!Offered, Slots!Gaps, Slots!GreatestId, Slots!Greatest, Slots!Ids,
        GreatestId, Greatest, Ids
  <2> QED
    BY <2>1 DEF Slots!Appear, Slots!With, With
<1>3. CASE DOMAIN pool.active = {} /\ DOMAIN pool.free = {}
  <2>1. pool'.active = With(pool.active, s, 0)
    BY <1>1, <1>3, AddToEmpty
  <2>2. Slots!Offered = {0}
    BY <1>3 DEF Slots!Offered, Slots!Gaps, Slots!GreatestId, Slots!Ids
  <2> QED
    BY <2>1, <2>2 DEF Slots!Appear, Slots!With, With
<1> QED
  BY <1>2, <1>3 DEF IInv, CursorIdsConsistent

LEMMA SlotsStep ==
  IInv /\ [Next]_vars => [Slots!Next \/ Disconnect]_(pool.active)
<1> SUFFICES ASSUME IInv, [Next]_vars
             PROVE  Slots!Next \/ Disconnect \/ pool'.active = pool.active
  OBVIOUS
<1>0. TypeOK
  BY DEF IInv
<1>1. CASE Connect
  BY <1>1 DEF Connect
<1>2. ASSUME NEW p \in Profiles, NEW b \in Bundle(p), Receive(b)
      PROVE  pool'.active = pool.active
  BY <1>2 DEF Receive
<1>3. ASSUME NEW s \in Sessions, ProcessNews(s)
      PROVE  Slots!Next \/ pool'.active = pool.active
  <2>1. frame.profile \in Profiles
    BY <1>0, <1>3, NewsSteps
  <2>2. PICK c : NewsStep(frame.profile, s, c)
    BY <1>0, <1>3, NewsSteps
  <2>3. CASE frame.profile = "cur" /\ s \notin DOMAIN list["cur"]
    <3>1. s \notin DOMAIN pool.active /\ pool' \in AddCursor(pool, s)
      BY <1>0, <2>1, <2>2, <2>3 DEF TypeOK, NewsStep
    <3> QED
      BY <3>1, SlotsAppear DEF Slots!Next
  <2>4. CASE ~(frame.profile = "cur" /\ s \notin DOMAIN list["cur"])
    BY <2>2, <2>4 DEF NewsStep
  <2> QED
    BY <2>3, <2>4
<1>4. ASSUME NEW s \in Sessions, ProcessGone(s)
      PROVE  Slots!Next \/ pool'.active = pool.active
  <2>1. CASE frame.profile = "cur"
    <3>1. s \in frame.gone /\ pool' = RemoveCursor(pool, s, pool.active[s])
      BY <1>4, <2>1 DEF ProcessGone
    <3>2. frame # Rest
      BY <3>1 DEF Rest
    <3>3. s \in DOMAIN pool.active
      BY <1>0, <2>1, <3>1, <3>2 DEF TypeOK
    <3>4. pool'.active = Without(pool.active, {s})
      BY <3>1 DEF RemoveCursor
    <3> QED
      BY <3>3, <3>4 DEF Slots!Next, Slots!Vanish, Slots!Without, Without
  <2>2. CASE frame.profile # "cur"
    BY <1>4, <2>2 DEF ProcessGone
  <2> QED
    BY <2>1, <2>2
<1>5. CASE Refresh
  BY <1>5 DEF Refresh
<1>6. CASE UNCHANGED vars
  BY <1>6 DEF vars
<1> QED
  BY <1>1, <1>2, <1>3, <1>4, <1>5, <1>6 DEF Next, ProcessFrame

(***************************************************************************)
(* For as long as it stays connected, the client gives a new cursor a gap  *)
(* in the ids if there is one and the next id if not, and lets it keep it  *)
(* until it is removed.  A disconnect takes all cursors at once.           *)
(***************************************************************************)
THEOREM SlotsImplemented == Spec => SlotsKept
<1>1. Init => Slots!Init
  BY DEF Init, Slots!Init, EmptyPool, Slots!EmptyMap, EmptyMap
<1> QED
  BY <1>1, IInit, IStep, SlotsStep, PTL DEF Spec, SlotsKept
=============================================================================
