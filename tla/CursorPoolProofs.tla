--------------------------- MODULE CursorPoolProofs -------------------------
(***************************************************************************)
(* What the operations of a cursor pool preserve, for every pool.  The     *)
(* proofs about TuioServer and TuioClient cite these lemmas.               *)
(***************************************************************************)
EXTENDS CursorPool, FiniteSetTheorems, WellFoundedInduction, TLAPS

(***************************************************************************)
(* A finite nonempty set of integers has a greatest element: the sets of   *)
(* its elements above k are well-founded under inclusion, and a smallest   *)
(* of them belongs to the greatest k.                                      *)
(***************************************************************************)
LEMMA GreatestExists ==
  ASSUME NEW S, S \subseteq Int, IsFiniteSet(S), S # {}
  PROVE  /\ Greatest(S) \in S
         /\ \A m \in S : m <= Greatest(S)
<1> DEFINE Above(k) == {m \in S : m >= k}
           F == {Above(k) : k \in S}
           R == StrictSubsetOrdering(S)
<1>2. IsWellFoundedOn(R, FiniteSubsetsOf(S))
  BY FS_StrictSubsetOrderingWellFounded
<1>3. F \subseteq FiniteSubsetsOf(S)
  BY FS_Subset DEF FiniteSubsetsOf
<1>4. F # {}
  OBVIOUS
<1>5. PICK A \in F : \A B \in F : ~ (<<B, A>> \in R)
  BY <1>2, <1>3, <1>4, WFMin
<1>6. PICK k \in S : A = Above(k)
  OBVIOUS
<1>7. \A m \in S : m <= k
  <2> SUFFICES ASSUME NEW m \in S, ~(m <= k) PROVE FALSE
    OBVIOUS
  <2>1. m \in Int /\ k \in Int /\ \A x \in S : x \in Int
    OBVIOUS
  <2>2. k < m /\ k >= k
    BY <2>1
  <2>3. \A x \in S : x >= m => x >= k
    BY <2>1, <2>2
  <2>4. Above(m) \subseteq Above(k) /\ Above(m) # Above(k)
    BY <2>1, <2>2, <2>3
  <2>5. <<Above(m), Above(k)>> \in R
    BY <2>4 DEF StrictSubsetOrdering
  <2> QED
    BY <1>5, <1>6, <2>5
<1> QED
  BY <1>7 DEF Greatest

(***************************************************************************)
(* The ids 0..m are finitely many.                                         *)
(***************************************************************************)
LEMMA IdsUpTo ==
  ASSUME NEW m \in Int, m >= -1
  PROVE  IsFiniteSet(0..m) /\ Cardinality(0..m) = m + 1
<1>1. IsFiniteSet(0..m)
  BY FS_Interval
<1>2. Cardinality(0..m) = IF 0 > m THEN 0 ELSE m - 0 + 1
  BY FS_Interval
<1> QED
  BY <1>1, <1>2

(***************************************************************************)
(* A pool with finitely many cursors has finitely many ids, and GreatestId *)
(* is the greatest of them.                                                *)
(***************************************************************************)
LEMMA GreatestIdExists ==
  ASSUME NEW f, IsFiniteSet(DOMAIN f), f = [s \in DOMAIN f |-> f[s]],
         \A s \in DOMAIN f : f[s] \in Nat
  PROVE  /\ GreatestId(f) \in Nat \cup {-1}
         /\ GreatestId(f) # -1 => GreatestId(f) \in Ids(f)
         /\ \A i \in Ids(f) : i <= GreatestId(f)
<1>1. CASE DOMAIN f = {}
  BY <1>1 DEF GreatestId, Ids
<1>2. CASE DOMAIN f # {}
  <2>1. f \in Surjection(DOMAIN f, Ids(f))
    BY DEF Surjection, Ids
  <2>2. IsFiniteSet(Ids(f))
    BY <2>1, FS_Surjection
  <2>3. Ids(f) # {} /\ Ids(f) \subseteq Nat
    BY <1>2 DEF Ids
  <2>4. Ids(f) \subseteq Int
    BY <2>3
  <2>5. /\ Greatest(Ids(f)) \in Ids(f)
        /\ \A i \in Ids(f) : i <= Greatest(Ids(f))
    BY <2>2, <2>3, <2>4, GreatestExists
  <2> QED
    BY <1>2, <2>3, <2>5 DEF GreatestId
<1> QED
  BY <1>1, <1>2

-----------------------------------------------------------------------------
(***************************************************************************)
(* A consistent pool has finitely many cursors, at most one per id.        *)
(***************************************************************************)
LEMMA ConsistentIsFinite ==
  ASSUME NEW p, IsPool(p), PoolConsistent(p)
  PROVE  /\ p.active \in Injection(DOMAIN p.active, 0..p.max)
         /\ IsFiniteSet(DOMAIN p.active)
         /\ Cardinality(DOMAIN p.active) <= p.max + 1
         /\ Cardinality(DOMAIN p.active) = p.max + 1
              <=> p.active \in Surjection(DOMAIN p.active, 0..p.max)
<1>1. p.max \in Int /\ p.max >= -1
  BY DEF IsPool
<1>2. p.active \in Injection(DOMAIN p.active, 0..p.max)
  <2>1. p.active \in [DOMAIN p.active -> 0..p.max]
    BY DEF IsPool, PoolConsistent, Ids
  <2> QED
    BY <2>1 DEF PoolConsistent, IsInjection, Injection, IsInjective
<1>3. IsFiniteSet(0..p.max) /\ Cardinality(0..p.max) = p.max + 1
  BY <1>1, IdsUpTo
<1> QED
  BY <1>2, <1>3, FS_Injection

(***************************************************************************)
(* In a consistent pool the greatest active id is max.                     *)
(***************************************************************************)
LEMMA GreatestIsMax ==
  ASSUME NEW p, IsPool(p), PoolConsistent(p)
  PROVE  GreatestId(p.active) = p.max
<1>1. /\ GreatestId(p.active) \in Nat \cup {-1}
      /\ GreatestId(p.active) # -1 => GreatestId(p.active) \in Ids(p.active)
      /\ \A i \in Ids(p.active) : i <= GreatestId(p.active)
  BY ConsistentIsFinite, GreatestIdExists DEF IsPool
<1>2. /\ p.max \in Nat \cup {-1}
      /\ p.max # -1 => p.max \in Ids(p.active)
      /\ \A i \in Ids(p.active) : i <= p.max
  BY DEF IsPool, PoolConsistent
<1> QED
  BY <1>1, <1>2

(***************************************************************************)
(* When no id is reused, all ids 0..max are in use: the free list is empty *)
(* and the size of the list is the next id.                                *)
(***************************************************************************)
LEMMA FullUnlessReuse ==
  ASSUME NEW p, IsPool(p), PoolConsistent(p), ~Reuses(p)
  PROVE  /\ Cardinality(DOMAIN p.active) = p.max + 1
         /\ DOMAIN p.free = {}
         /\ Ids(p.active) = 0..p.max
<1> DEFINE D == DOMAIN p.active
<1>1. p.max \in Int /\ p.max >= -1
  BY DEF IsPool
<1>2. /\ p.active \in Injection(D, 0..p.max)
      /\ IsFiniteSet(D)
      /\ Cardinality(D) <= p.max + 1
      /\ Cardinality(D) = p.max + 1 <=> p.active \in Surjection(D, 0..p.max)
  BY ConsistentIsFinite
<1>3. Cardinality(D) \in Nat
  BY <1>2, FS_CardinalityType
<1>4. ASSUME DOMAIN p.free = {} PROVE p.active \in Surjection(D, 0..p.max)
  <2>1. Ids(p.active) = 0..p.max
    BY <1>4 DEF PoolConsistent, Ids
  <2> QED
    BY <1>2, <2>1 DEF Surjection, Injection, Ids
<1>5. Cardinality(D) = p.max + 1
  BY <1>1, <1>2, <1>3, <1>4 DEF Reuses
<1>6. Ids(p.active) = 0..p.max
  BY <1>2, <1>5 DEF Surjection, Ids
<1>7. DOMAIN p.free = {}
  BY <1>6 DEF PoolConsistent, Ids
<1> QED
  BY <1>5, <1>6, <1>7

-----------------------------------------------------------------------------
(***************************************************************************)
(* Adding and removing a cursor lead from a pool to a pool, also when ids  *)
(* of the application have made it inconsistent.                           *)
(***************************************************************************)
LEMMA AddCursorType ==
  ASSUME NEW p, IsPool(p), IsFiniteSet(DOMAIN p.active),
         NEW s, NEW q \in AddCursor(p, s)
  PROVE  /\ IsPool(q)
         /\ DOMAIN q.active = DOMAIN p.active \cup {s}
         /\ DOMAIN q.free \subseteq DOMAIN p.free
<1>1. CASE Reuses(p)
  <2>1. PICK c \in DOMAIN p.free :
          q = [active |-> With(p.active, s, p.free[c]),
               free   |-> Without(p.free, {c}),
               max    |-> p.max]
    BY <1>1 DEF AddCursor
  <2> QED
    BY <2>1 DEF IsPool, With, Without
<1>2. CASE ~Reuses(p)
  <2>1. q = [active |-> With(p.active, s, Cardinality(DOMAIN p.active)),
             free   |-> p.free,
             max    |-> Cardinality(DOMAIN p.active)]
    BY <1>2 DEF AddCursor
  <2>2. Cardinality(DOMAIN p.active) \in Nat
    BY FS_CardinalityType
  <2> QED
    BY <2>1, <2>2 DEF IsPool, With
<1> QED
  BY <1>1, <1>2

LEMMA RemoveCursorType ==
  ASSUME NEW p, IsPool(p), IsFiniteSet(DOMAIN p.active),
         NEW s \in DOMAIN p.active,
         NEW k, NEW q, q = RemoveCursor(p, s, k)
  PROVE  /\ IsPool(q)
         /\ DOMAIN q.active = DOMAIN p.active \ {s}
         /\ DOMAIN q.free \subseteq DOMAIN p.free \cup {k}
<1> DEFINE rest == Without(p.active, {s})
           top  == GreatestId(rest)
<1>1. /\ DOMAIN rest = DOMAIN p.active \ {s}
      /\ rest = [t \in DOMAIN rest |-> rest[t]]
      /\ \A t \in DOMAIN rest : rest[t] \in Nat
  BY DEF Without, IsPool
<1>2. IsFiniteSet(DOMAIN rest)
  BY <1>1, FS_Subset
<1>3. top \in Nat \cup {-1}
  BY <1>1, <1>2, GreatestIdExists
<1> HIDE DEF rest, top
<1>4. CASE p.active[s] = p.max
  <2>1. q = [active |-> rest,
             free   |-> Without(p.free, {c \in DOMAIN p.free : p.free[c] > top}),
             max    |-> top]
    BY <1>4 DEF RemoveCursor, rest, top
  <2> QED
    BY <1>1, <1>3, <2>1 DEF IsPool, Without
<1>5. CASE p.active[s] < p.max
  <2>1. p.active[s] # p.max
    BY <1>5 DEF IsPool
  <2>2. q = [active |-> rest, free |-> With(p.free, k, p.active[s]), max |-> p.max]
    BY <1>5, <2>1 DEF RemoveCursor, rest
  <2>3. p.active[s] \in Nat
    BY DEF IsPool
  <2> HIDE DEF RemoveCursor
  <2> QED
    BY <1>1, <2>2, <2>3 DEF IsPool, With
<1>6. CASE p.active[s] # p.max /\ ~(p.active[s] < p.max)
  <2>1. q = [active |-> rest, free |-> p.free, max |-> p.max]
    BY <1>6 DEF RemoveCursor, rest
  <2> QED
    BY <1>1, <2>1 DEF IsPool
<1> QED
  BY <1>4, <1>5, <1>6

-----------------------------------------------------------------------------
(***************************************************************************)
(* Adding a cursor keeps the pool consistent.                              *)
(***************************************************************************)
LEMMA AddCursorConsistent ==
  ASSUME NEW p, IsPool(p), PoolConsistent(p),
         NEW s, s \notin DOMAIN p.active,
         NEW q \in AddCursor(p, s)
  PROVE  PoolConsistent(q)
<1>1. CASE Reuses(p)
  <2>1. PICK c \in DOMAIN p.free :
          q = [active |-> With(p.active, s, p.free[c]),
               free   |-> Without(p.free, {c}),
               max    |-> p.max]
    BY <1>1 DEF AddCursor
  <2>2. IsInjection(q.active) /\ IsInjection(q.free)
    BY <2>1 DEF PoolConsistent, IsInjection, Ids, With, Without
  <2>3. Ids(q.active) = Ids(p.active) \cup {p.free[c]}
    BY <2>1 DEF Ids, With
  <2>4. Ids(q.free) = Ids(p.free) \ {p.free[c]}
    BY <2>1 DEF PoolConsistent, IsInjection, Ids, Without
  <2>5. p.free[c] \in Ids(p.free)
    BY DEF Ids
  <2>6. q.max = p.max
    BY <2>1
  <2> QED
    BY <2>2, <2>3, <2>4, <2>5, <2>6 DEF PoolConsistent
<1>2. CASE ~Reuses(p)
  <2> DEFINE id == Cardinality(DOMAIN p.active)
  <2>1. q = [active |-> With(p.active, s, id), free |-> p.free, max |-> id]
    BY <1>2 DEF AddCursor
  <2>2. id = p.max + 1 /\ DOMAIN p.free = {} /\ Ids(p.active) = 0..p.max
    BY <1>2, FullUnlessReuse
  <2>3. p.max \in Int /\ id \in Nat
    BY <2>2 DEF IsPool
  <2> HIDE DEF id
  <2>4. IsInjection(q.active) /\ IsInjection(q.free)
    BY <2>1, <2>2, <2>3 DEF PoolConsistent, IsInjection, Ids, With
  <2>5. Ids(q.active) = Ids(p.active) \cup {id} /\ Ids(q.free) = {}
    BY <2>1, <2>2 DEF Ids, With
  <2>6. Ids(p.active) \cup {id} = 0..id
    BY <2>2, <2>3
  <2> QED
    BY <2>1, <2>3, <2>4, <2>5, <2>6 DEF PoolConsistent
<1> QED
  BY <1>1, <1>2

(***************************************************************************)
(* The id it gets fills a gap below the greatest active id, or is the next *)
(* one when there is no gap.                                               *)
(***************************************************************************)
LEMMA AddCursorFillsGaps ==
  ASSUME NEW p, IsPool(p), PoolConsistent(p),
         NEW s, s \notin DOMAIN p.active,
         NEW q \in AddCursor(p, s)
  PROVE  LET gaps == 0..GreatestId(p.active) \ Ids(p.active)
         IN  \E id \in IF gaps # {} THEN gaps ELSE {GreatestId(p.active) + 1} :
               q.active = With(p.active, s, id)
<1>1. GreatestId(p.active) = p.max
  BY GreatestIsMax
<1>2. CASE Reuses(p)
  <2>1. PICK c \in DOMAIN p.free :
          q = [active |-> With(p.active, s, p.free[c]),
               free   |-> Without(p.free, {c}),
               max    |-> p.max]
    BY <1>2 DEF AddCursor
  <2>2. p.free[c] \in 0..p.max \ Ids(p.active)
    BY DEF PoolConsistent, Ids
  <2> QED
    BY <1>1, <2>1, <2>2
<1>3. CASE ~Reuses(p)
  <2>1. q.active = With(p.active, s, p.max + 1)
    BY <1>3, FullUnlessReuse DEF AddCursor
  <2>2. 0..p.max \ Ids(p.active) = {}
    BY <1>3, FullUnlessReuse
  <2> QED
    BY <1>1, <2>1, <2>2
<1> QED
  BY <1>2, <1>3

(***************************************************************************)
(* Removing a cursor keeps the pool consistent.                            *)
(***************************************************************************)
LEMMA RemoveCursorConsistent ==
  ASSUME NEW p, IsPool(p), PoolConsistent(p),
         NEW s \in DOMAIN p.active,
         NEW k, k \notin DOMAIN p.free,
         NEW q, q = RemoveCursor(p, s, k)
  PROVE  PoolConsistent(q)
<1> DEFINE id   == p.active[s]
           rest == Without(p.active, {s})
           top  == GreatestId(rest)
<1>1. id \in Ids(p.active) /\ id \in 0..p.max /\ id <= p.max /\ p.max \in Nat
  BY DEF PoolConsistent, Ids, IsPool
<1>2. Ids(rest) = Ids(p.active) \ {id} /\ IsInjection(rest)
  BY DEF PoolConsistent, IsInjection, Ids, Without
<1>3. CASE id = p.max
  <2> DEFINE kept == Without(p.free, {c \in DOMAIN p.free : p.free[c] > top})
  <2>1. q = [active |-> rest, free |-> kept, max |-> top]
    BY <1>3 DEF RemoveCursor
  <2>2. /\ top \in Nat \cup {-1}
        /\ top # -1 => top \in Ids(rest)
        /\ \A i \in Ids(rest) : i <= top
    <3>1. DOMAIN rest \subseteq DOMAIN p.active
      BY DEF Without
    <3>2. IsFiniteSet(DOMAIN rest)
      BY <3>1, ConsistentIsFinite, FS_Subset
    <3>3. rest = [t \in DOMAIN rest |-> rest[t]]
      BY DEF Without
    <3>4. \A t \in DOMAIN rest : rest[t] \in Nat
      BY DEF Without, IsPool
    <3> HIDE DEF rest
    <3> QED
      BY <3>2, <3>3, <3>4, GreatestIdExists
  <2>3. top < p.max
    <3>1. \A i \in Ids(rest) : i \in Nat /\ i < p.max
      BY <1>1, <1>2, <1>3 DEF PoolConsistent
    <3> QED
      BY <1>1, <2>2, <3>1
  <2> HIDE DEF top, rest, id
  <2>4. IsInjection(kept)
    BY DEF PoolConsistent, IsInjection, Without
  <2>5. Ids(kept) = {i \in Ids(p.free) : ~(i > top)}
    BY DEF Ids, Without
  <2>6. Ids(rest) \cap Ids(kept) = {}
    BY <1>2, <2>5 DEF PoolConsistent
  <2>7. Ids(rest) \cup Ids(kept) = 0..top
    <3>1. Ids(p.active) \cup Ids(p.free) = 0..p.max
      BY DEF PoolConsistent
    <3>2. ASSUME NEW i \in 0..top PROVE i \in Ids(rest) \cup Ids(kept)
      BY <1>1, <1>2, <1>3, <2>2, <2>3, <2>5, <3>1
    <3>3. ASSUME NEW i \in Ids(rest) \cup Ids(kept) PROVE i \in 0..top
      BY <1>1, <1>2, <2>2, <2>5, <3>1
    <3> QED
      BY <3>2, <3>3
  <2> QED
    BY <1>2, <2>1, <2>2, <2>4, <2>6, <2>7 DEF PoolConsistent
<1>4. CASE id < p.max
  <2>1. q = [active |-> rest, free |-> With(p.free, k, id), max |-> p.max]
    BY <1>1, <1>4 DEF RemoveCursor
  <2> HIDE DEF rest, id
  <2>2. IsInjection(With(p.free, k, id))
    BY <1>1 DEF PoolConsistent, IsInjection, Ids, With
  <2>3. Ids(With(p.free, k, id)) = Ids(p.free) \cup {id}
    BY DEF Ids, With
  <2>4. p.max \in Ids(rest)
    BY <1>1, <1>2, <1>4 DEF PoolConsistent
  <2> QED
    BY <1>1, <1>2, <2>1, <2>2, <2>3, <2>4 DEF PoolConsistent
<1> QED
  BY <1>1, <1>3, <1>4
=============================================================================
