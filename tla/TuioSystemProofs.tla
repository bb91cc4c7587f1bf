-------------------------- MODULE TuioSystemProofs --------------------------
(***************************************************************************)
(* Server, network and client together, for any number of sessions,        *)
(* places, frames and packets: in order and without loss the client shows  *)
(* what the server has; in order within each profile, and whatever is      *)
(* lost, no removed session returns; both parts keep in the system what    *)
(* they promise alone; and when the server rests, the listener only comes  *)
(* closer to it.                                                           *)
(*                                                                         *)
(* The first two proofs follow the packets that are still under way.  For  *)
(* the first there is one outlook per packet, what a receiver shows that   *)
(* has decoded it; the outlooks are the witness of an existential          *)
(* quantifier, so that no recursion over the packets is needed.            *)
(***************************************************************************)
EXTENDS TuioSystem, TuioServerFramesProofs, SequenceTheorems
LOCAL INSTANCE SequencesExt

-----------------------------------------------------------------------------
(***************************************************************************)
(* Sequences, whatever their elements are.                                 *)
(***************************************************************************)
IsSeq(n) == n \in Seq({n[i] : i \in DOMAIN n})

LEMMA FunctionIsSeq ==
  ASSUME NEW n, NEW m \in Nat, DOMAIN n = 1..m, n = [i \in 1..m |-> n[i]]
  PROVE  IsSeq(n) /\ Len(n) = m
<1> DEFINE R == {n[i] : i \in DOMAIN n}
<1>1. \A i \in 1..m : n[i] \in R
  OBVIOUS
<1> HIDE DEF R
<1>2. n \in Seq(R)
  BY <1>1, IsASeq
<1>3. Len(n) \in Nat /\ DOMAIN n = 1..Len(n)
  BY <1>2, LenProperties
<1>4. Len(n) = m
  BY <1>3
<1> QED
  BY <1>2, <1>4 DEF IsSeq, R

LEMMA SeqIsFunction ==
  ASSUME NEW n, IsSeq(n)
  PROVE  Len(n) \in Nat /\ DOMAIN n = 1..Len(n) /\ n = [i \in 1..Len(n) |-> n[i]]
BY LenProperties DEF IsSeq

LEMMA EmptyIsSeq == IsSeq(<<>>) /\ Len(<<>>) = 0
BY EmptySeq DEF IsSeq

LEMMA ConcatIsSeq ==
  ASSUME NEW a, NEW b, IsSeq(a), IsSeq(b)
  PROVE  /\ IsSeq(a \o b)
         /\ Len(a \o b) = Len(a) + Len(b)
         /\ \A i \in 1..Len(a) : (a \o b)[i] = a[i]
         /\ \A i \in 1..Len(b) : (a \o b)[Len(a) + i] = b[i]
<1> DEFINE R == {a[i] : i \in DOMAIN a} \cup {b[i] : i \in DOMAIN b}
<1>1. a \in Seq(R) /\ b \in Seq(R)
  <2>1. \A i \in DOMAIN a : a[i] \in R
    OBVIOUS
  <2>2. \A i \in DOMAIN b : b[i] \in R
    OBVIOUS
  <2>3. /\ Len(a) \in Nat /\ DOMAIN a = 1..Len(a) /\ a = [i \in 1..Len(a) |-> a[i]]
        /\ Len(b) \in Nat /\ DOMAIN b = 1..Len(b) /\ b = [i \in 1..Len(b) |-> b[i]]
    BY SeqIsFunction
  <2> HIDE DEF R
  <2> QED
    BY <2>1, <2>2, <2>3, IsASeq
<1> HIDE DEF R
<1> DEFINE c == a \o b
<1>2. /\ c \in Seq(R)
      /\ Len(c) = Len(a) + Len(b)
      /\ Len(a) \in Nat /\ Len(b) \in Nat
      /\ \A i \in 1..Len(a) + Len(b) : c[i] = IF i <= Len(a) THEN a[i] ELSE b[i - Len(a)]
  BY <1>1, ConcatProperties, LenProperties
<1>3. Len(c) \in Nat /\ DOMAIN c = 1..Len(c) /\ c = [i \in 1..Len(c) |-> c[i]]
  BY <1>2, LenProperties
<1> HIDE DEF c
<1>4. IsSeq(c)
  BY <1>3, FunctionIsSeq
<1>5. /\ \A i \in 1..Len(a) : c[i] = a[i]
      /\ \A i \in 1..Len(b) : c[Len(a) + i] = b[i]
  BY <1>2
<1> QED
  BY <1>2, <1>4, <1>5 DEF c

LEMMA RemoveAtIsSeq ==
  ASSUME NEW a, IsSeq(a), NEW i \in DOMAIN a
  PROVE  /\ IsSeq(RemoveAt(a, i))
         /\ Len(RemoveAt(a, i)) = Len(a) - 1
         /\ \A j \in 1..Len(a) - 1 :
              RemoveAt(a, i)[j] = a[IF j < i THEN j ELSE j + 1]
<1> DEFINE R == {a[j] : j \in DOMAIN a}
<1>1. a \in Seq(R)
  BY DEF IsSeq
<1> HIDE DEF R
<1>2. Len(a) \in Nat /\ i \in 1..Len(a)
  BY <1>1, LenProperties
<1> DEFINE x == SubSeq(a, 1, i - 1)
           y == SubSeq(a, i + 1, Len(a))
<1>3. /\ x \in Seq(R) /\ Len(x) = i - 1
      /\ \A j \in 1..i - 1 : x[j] = a[j]
  <2>1. \A j \in 1..i - 1 : a[j] \in R
    BY <1>1, <1>2, ElementOfSeq
  <2>2. CASE i = 1
    <3>1. x = <<>>
      BY <2>2
    <3> QED
      BY <2>2, <3>1, EmptySeq
  <2>3. CASE i # 1
    <3>1. 1 \in Int /\ i - 1 \in Int /\ 1 <= i - 1 + 1 
      BY <1>2
    <3> QED
      BY <1>1, <1>2, <2>1, <2>3, <3>1, SubSeqProperties
  <2> QED
    BY <2>2, <2>3
<1>4. /\ y \in Seq(R) /\ Len(y) = Len(a) - i
      /\ \A j \in 1..Len(a) - i : y[j] = a[i + j]
  BY <1>1, <1>2, SubSeqProperties
<1> HIDE DEF x, y
<1> DEFINE c == x \o y
<1>5. /\ c \in Seq(R) /\ Len(c) = Len(a) - 1
      /\ \A j \in 1..Len(a) - 1 : c[j] = IF j <= i - 1 THEN x[j] ELSE y[j - (i - 1)]
  <2>1. /\ c \in Seq(R) /\ Len(c) = Len(x) + Len(y)
        /\ \A j \in 1..Len(x) + Len(y) :
             c[j] = IF j <= Len(x) THEN x[j] ELSE y[j - Len(x)]
    BY <1>3, <1>4, ConcatProperties
  <2>2. Len(x) = i - 1 /\ Len(x) + Len(y) = Len(a) - 1
    BY <1>2, <1>3, <1>4
  <2> HIDE DEF c
  <2> QED
    BY <2>1, <2>2
<1> HIDE DEF c
<1>6. \A j \in 1..Len(a) - 1 : c[j] = a[IF j < i THEN j ELSE j + 1]
  <2> TAKE j \in 1..Len(a) - 1
  <2>1. CASE j < i
    <3>1. j <= i - 1 /\ j \in 1..i - 1
      BY <1>2, <2>1
    <3> QED
      BY <1>3, <1>5, <2>1, <3>1
  <2>2. CASE ~(j < i)
    <3>1. j - (i - 1) \in 1..Len(a) - i /\ i + (j - (i - 1)) = j + 1
      BY <1>2, <2>2
    <3>2. c[j] = y[j - (i - 1)]
      <4>1. ~(j <= i - 1)
        BY <1>2, <2>2
      <4> QED
        BY <1>5, <4>1
    <3> QED
      BY <1>4, <2>2, <3>1, <3>2
  <2> QED
    BY <2>1, <2>2
<1>7. Len(c) \in Nat /\ DOMAIN c = 1..Len(c) /\ c = [j \in 1..Len(c) |-> c[j]]
  BY <1>5, LenProperties
<1>8. RemoveAt(a, i) = c
  BY DEF RemoveAt, c, x, y
<1>9. IsSeq(c)
  BY <1>7, FunctionIsSeq
<1> QED
  BY <1>5, <1>6, <1>8, <1>9

LEMMA ConcatElements ==
  ASSUME NEW a, NEW b, IsSeq(a), IsSeq(b), NEW i \in DOMAIN (a \o b)
  PROVE  \/ i \in DOMAIN a /\ (a \o b)[i] = a[i]
         \/ /\ i \notin DOMAIN a
            /\ i - Len(a) \in DOMAIN b
            /\ (a \o b)[i] = b[i - Len(a)]
<1> DEFINE c == a \o b
<1>1. /\ Len(a) \in Nat /\ DOMAIN a = 1..Len(a)
      /\ Len(b) \in Nat /\ DOMAIN b = 1..Len(b)
      /\ DOMAIN c = 1..Len(c) /\ Len(c) = Len(a) + Len(b)
      /\ \A j \in 1..Len(a) : c[j] = a[j]
      /\ \A j \in 1..Len(b) : c[Len(a) + j] = b[j]
  BY ConcatIsSeq, SeqIsFunction
<1> HIDE DEF c
<1>2. i \in 1..Len(a) + Len(b)
  BY <1>1 DEF c
<1>3. CASE i \in 1..Len(a)
  BY <1>1, <1>3 DEF c
<1>4. CASE i \notin 1..Len(a)
  <2>1. i - Len(a) \in 1..Len(b) /\ Len(a) + (i - Len(a)) = i
    BY <1>1, <1>2, <1>4
  <2> QED
    BY <1>1, <1>4, <2>1 DEF c
<1> QED
  BY <1>3, <1>4

-----------------------------------------------------------------------------
(***************************************************************************)
(* What packets do to a receiver.  An outlook is a function from sessions  *)
(* to contents.  A receiver takes the content d of a set message for s as  *)
(* it is, and does not invent a speed, when a container that is new to it  *)
(* comes without speed and one that moved comes with one.                  *)
(***************************************************************************)
Takes(o, s, d) ==
  /\ d = [pos |-> d.pos, speed |-> d.speed]
  /\ s \notin DOMAIN o => d.speed = 0
  /\ s \in DOMAIN o /\ d.pos # o[s].pos => d.speed # 0

\* Packet b leads from outlook o to outlook t.
Hop(o, b, t) ==
  /\ DOMAIN b.sets \subseteq b.alive
  /\ \A s \in DOMAIN b.sets : Takes(o, s, b.sets[s])
  /\ t = [s \in b.alive \cap (DOMAIN o \cup DOMAIN b.sets) |->
            IF s \in DOMAIN b.sets THEN b.sets[s] ELSE o[s]]

\* The packets n, one after the other, lead for profile p from o to t, by the
\* outlooks v.
Leads(p, n, v) ==
  \A i \in 1..Len(n) :
    IF n[i].profile = p THEN Hop(v[i], n[i], v[i + 1]) ELSE v[i + 1] = v[i]

Path(p, o, n, t) == \E v : v[1] = o /\ v[Len(n) + 1] = t /\ Leads(p, n, v)

LEMMA PathOfOthers ==
  ASSUME NEW p, NEW o, NEW n, IsSeq(n), \A i \in 1..Len(n) : n[i].profile # p
  PROVE  Path(p, o, n, o)
<1> DEFINE v == [i \in 1..Len(n) + 1 |-> o]
<1>1. Len(n) \in Nat
  BY SeqIsFunction
<1>2. \A i \in 1..Len(n) + 1 : v[i] = o
  OBVIOUS
<1> HIDE DEF v
<1>3. v[1] = o /\ v[Len(n) + 1] = o
  BY <1>1, <1>2
<1>4. \A i \in 1..Len(n) : v[i] = o /\ v[i + 1] = o
  BY <1>1, <1>2
<1>5. Leads(p, n, v)
  BY <1>4 DEF Leads
<1> QED
  BY <1>3, <1>5 DEF Path

LEMMA PathConcat ==
  ASSUME NEW p, NEW o, NEW m, NEW t, NEW a, NEW b, IsSeq(a), IsSeq(b),
         Path(p, o, a, m), Path(p, m, b, t)
  PROVE  Path(p, o, a \o b, t)
<1>1. PICK u : u[1] = o /\ u[Len(a) + 1] = m /\ Leads(p, a, u)
  BY DEF Path
<1>2. PICK w : w[1] = m /\ w[Len(b) + 1] = t /\ Leads(p, b, w)
  BY DEF Path
<1> DEFINE c == a \o b
           v == [i \in 1..Len(a) + Len(b) + 1 |->
                   IF i <= Len(a) THEN u[i] ELSE w[i - Len(a)]]
<1>3. /\ Len(a) \in Nat /\ Len(b) \in Nat /\ Len(c) = Len(a) + Len(b)
      /\ \A i \in 1..Len(a) : c[i] = a[i]
      /\ \A i \in 1..Len(b) : c[Len(a) + i] = b[i]
  BY ConcatIsSeq, SeqIsFunction
<1>4. \A i \in 1..Len(a) : v[i] = u[i]
  BY <1>3
<1>5. \A i \in 1..Len(b) + 1 : v[Len(a) + i] = w[i]
  <2> TAKE i \in 1..Len(b) + 1
  <2>1. /\ Len(a) + i \in 1..Len(a) + Len(b) + 1
        /\ ~(Len(a) + i <= Len(a))
        /\ Len(a) + i - Len(a) = i
    BY <1>3
  <2> QED
    BY <2>1
<1> HIDE DEF c, v
<1>6. v[Len(a) + 1] = u[Len(a) + 1]
  BY <1>1, <1>2, <1>3, <1>5
<1>7. \A i \in 1..Len(a) : v[i + 1] = u[i + 1]
  <2> TAKE i \in 1..Len(a)
  <2>1. i + 1 \in 1..Len(a) \/ i = Len(a)
    BY <1>3
  <2> QED
    BY <1>4, <1>6, <2>1
<1>8. v[1] = o
  <2>1. 1 \in 1..Len(a) \/ Len(a) = 0
    BY <1>3
  <2>2. CASE 1 \in 1..Len(a)
    BY <1>1, <1>4, <2>2
  <2>3. CASE Len(a) = 0
    BY <1>1, <1>6, <2>3
  <2> QED
    BY <2>1, <2>2, <2>3
<1>9. v[Len(c) + 1] = t
  <2>1. Len(b) + 1 \in 1..Len(b) + 1 /\ Len(a) + (Len(b) + 1) = Len(c) + 1
    BY <1>3
  <2> QED
    BY <1>2, <1>5, <2>1
<1>10. Leads(p, c, v)
  <2> SUFFICES ASSUME NEW i \in 1..Len(c)
               PROVE  IF c[i].profile = p THEN Hop(v[i], c[i], v[i + 1])
                      ELSE v[i + 1] = v[i]
    BY DEF Leads
  <2>1. CASE i \in 1..Len(a)
    <3>1. c[i] = a[i] /\ v[i] = u[i] /\ v[i + 1] = u[i + 1]
      BY <1>3, <1>4, <1>7, <2>1
    <3> QED
      BY <1>1, <2>1, <3>1 DEF Leads
  <2>2. CASE i \notin 1..Len(a)
    <3> DEFINE j == i - Len(a)
    <3>1. /\ j \in 1..Len(b) /\ j \in 1..Len(b) + 1 /\ j + 1 \in 1..Len(b) + 1
          /\ Len(a) + j = i /\ Len(a) + (j + 1) = i + 1
      BY <1>3, <2>2
    <3> HIDE DEF j
    <3>2. c[i] = b[j] /\ v[i] = w[j] /\ v[i + 1] = w[j + 1]
      BY <1>3, <1>5, <3>1
    <3> QED
      BY <1>2, <3>1, <3>2 DEF Leads
  <2> QED
    BY <2>1, <2>2
<1> QED
  BY <1>8, <1>9, <1>10 DEF Path, c

\* The first packet leads to an outlook from which the others go on.
LEMMA PathFirst ==
  ASSUME NEW p, NEW o, NEW t, NEW n, IsSeq(n), 1 \in DOMAIN n, Path(p, o, n, t)
  PROVE  \E m : /\ IF n[1].profile = p THEN Hop(o, n[1], m) ELSE m = o
                /\ Path(p, m, RemoveAt(n, 1), t)
<1>1. PICK v : v[1] = o /\ v[Len(n) + 1] = t /\ Leads(p, n, v)
  BY DEF Path
<1> DEFINE r == RemoveAt(n, 1)
           w == [i \in 1..Len(n) |-> v[i + 1]]
<1>2. /\ Len(n) \in Nat /\ 1 \in 1..Len(n)
      /\ Len(r) = Len(n) - 1
      /\ \A j \in 1..Len(n) - 1 : r[j] = n[IF j < 1 THEN j ELSE j + 1]
  BY RemoveAtIsSeq, SeqIsFunction
<1>3. \A i \in 1..Len(n) : w[i] = v[i + 1]
  OBVIOUS
<1> HIDE DEF r, w
<1>4. IF n[1].profile = p THEN Hop(o, n[1], v[2]) ELSE v[2] = o
  <2>1. 1 + 1 = 2
    OBVIOUS
  <2> QED
    BY <1>1, <1>2, <2>1 DEF Leads
<1>5. w[1] = v[2] /\ w[Len(r) + 1] = t
  <2>1. Len(n) \in 1..Len(n) /\ Len(r) + 1 = Len(n) /\ 1 + 1 = 2
    BY <1>2
  <2> QED
    BY <1>1, <1>2, <1>3, <2>1
<1>6. Leads(p, r, w)
  <2> SUFFICES ASSUME NEW j \in 1..Len(r)
               PROVE  IF r[j].profile = p THEN Hop(w[j], r[j], w[j + 1])
                      ELSE w[j + 1] = w[j]
    BY DEF Leads
  <2>1. /\ j \in 1..Len(n) - 1 /\ ~(j < 1)
        /\ j \in 1..Len(n) /\ j + 1 \in 1..Len(n)
    BY <1>2
  <2>2. r[j] = n[j + 1] /\ w[j] = v[j + 1] /\ w[j + 1] = v[j + 1 + 1]
    BY <1>2, <1>3, <2>1
  <2> QED
    BY <1>1, <2>1, <2>2 DEF Leads
<1> QED
  BY <1>4, <1>5, <1>6 DEF Path, r

LEMMA PathEnd ==
  ASSUME NEW p, NEW o, NEW t, Path(p, o, <<>>, t)
  PROVE  o = t
<1>1. Len(<<>>) + 1 = 1
  BY EmptyIsSeq
<1> QED
  BY <1>1 DEF Path

-----------------------------------------------------------------------------
(***************************************************************************)
(* The packets of one call of the server.                                  *)
(***************************************************************************)
LEMMA BundlesAre ==
  ASSUME TypeOK, NEW p \in Profiles, NEW S \in SUBSET DOMAIN list[p], NEW f
  PROVE  /\ IsSeq(Bundles(p, S, f))
         /\ Len(Bundles(p, S, f)) = LastPacket(p, S) + 1
         /\ \A i \in 1..LastPacket(p, S) + 1 :
              /\ Bundles(p, S, f)[i].profile = p
              /\ Bundles(p, S, f)[i].alive = DOMAIN list[p]
              /\ Bundles(p, S, f)[i].fseq = f
              /\ DOMAIN Bundles(p, S, f)[i].sets = {s \in S : PacketOf(S, s) = i - 1}
              /\ \A s \in DOMAIN Bundles(p, S, f)[i].sets :
                   Bundles(p, S, f)[i].sets[s] = Content(list[p][s])
<1> DEFINE bs == Bundles(p, S, f)
           n  == LastPacket(p, S) + 1
<1>1. n \in Nat
  BY PacketsCover
<1>2. bs = [i \in 1..n |-> Bundle(p, {s \in S : PacketOf(S, s) = i - 1}, f)]
  BY DEF Bundles
<1> HIDE DEF n, bs
<1>3. DOMAIN bs = 1..n /\ bs = [i \in 1..n |-> bs[i]]
  BY <1>2
<1>4. IsSeq(bs) /\ Len(bs) = n
  BY <1>1, <1>3, FunctionIsSeq
<1>5. \A i \in 1..n : /\ bs[i].profile = p
                      /\ bs[i].alive = DOMAIN list[p]
                      /\ bs[i].fseq = f
                      /\ DOMAIN bs[i].sets = {s \in S : PacketOf(S, s) = i - 1}
                      /\ \A s \in DOMAIN bs[i].sets :
                           bs[i].sets[s] = Content(list[p][s])
  BY <1>2 DEF Bundle
<1> QED
  BY <1>4, <1>5 DEF bs, n

LEMMA PathOfBundles ==
  ASSUME TypeOK, NEW p \in Profiles, NEW S \in SUBSET DOMAIN list[p], NEW f, NEW t,
         \A s \in S : Takes(t, s, Content(list[p][s]))
  PROVE  Path(p, t, Bundles(p, S, f), Merged(t, p, S))
<1> DEFINE bs == Bundles(p, S, f)
           n  == LastPacket(p, S) + 1
           D  == DOMAIN list[p]
           In(i) == {s \in S : PacketOf(S, s) = i - 1}
           Upto(i) == {s \in S : PacketOf(S, s) < i - 1}
           After(U) == [s \in D \cap (DOMAIN t \cup U) |->
                          IF s \in U THEN Content(list[p][s]) ELSE t[s]]
           v == [i \in 1..n + 1 |-> IF i = 1 THEN t ELSE After(Upto(i))]
<1>1. n \in Nat /\ n >= 1 /\ \A s \in S : PacketOf(S, s) \in 0..n - 1
  BY PacketsCover
<1>2. /\ Len(bs) = n
      /\ \A i \in 1..n :
           /\ bs[i].profile = p
           /\ bs[i].alive = D
           /\ DOMAIN bs[i].sets = In(i)
           /\ \A s \in In(i) : bs[i].sets[s] = Content(list[p][s])
  BY BundlesAre
<1>3. v[1] = t
  BY <1>1
<1>4. \A i \in 2..n + 1 : v[i] = After(Upto(i))
  BY <1>1
<1>5. Upto(n + 1) = S
  BY <1>1
<1>6. \A i \in 1..n : Upto(i + 1) = Upto(i) \cup In(i) /\ Upto(i) \cap In(i) = {}
  BY <1>1
<1>7. Upto(1) = {}
  BY <1>1
<1>8. \A i : In(i) \subseteq S /\ Upto(i) \subseteq S
  OBVIOUS
<1> HIDE DEF bs, n, v, In, Upto
<1>9. v[n + 1] = Merged(t, p, S)
  <2>1. n + 1 \in 2..n + 1
    BY <1>1
  <2> QED
    BY <1>4, <1>5, <2>1 DEF Merged
<1>10. ASSUME NEW i \in 1..n PROVE Hop(v[i], bs[i], v[i + 1])
  <2> DEFINE b == bs[i]
  <2>1. /\ b.alive = D /\ DOMAIN b.sets = In(i) /\ In(i) \subseteq D
        /\ \A s \in In(i) : b.sets[s] = Content(list[p][s])
    BY <1>2, <1>8
  <2>2. v[i + 1] = After(Upto(i) \cup In(i))
    <3>1. i + 1 \in 2..n + 1
      BY <1>1
    <3> QED
      BY <1>4, <1>6, <3>1
  <2>3. \/ i = 1 /\ Upto(i) = {} /\ v[i] = t
        \/ v[i] = After(Upto(i))
    <3>1. i = 1 \/ i \in 2..n + 1
      BY <1>1
    <3> QED
      BY <1>3, <1>4, <1>7, <3>1
  <2>4. \A s \in In(i) : /\ s \in D
                         /\ s \in DOMAIN v[i] <=> s \in DOMAIN t
                         /\ s \in DOMAIN t => v[i][s] = t[s]
    BY <1>6, <1>8, <2>1, <2>3
  <2>5. \A s \in DOMAIN b.sets : Takes(v[i], s, b.sets[s])
    BY <1>8, <2>1, <2>4 DEF Takes
  <2>6. v[i + 1] = [s \in b.alive \cap (DOMAIN v[i] \cup DOMAIN b.sets) |->
                      IF s \in DOMAIN b.sets THEN b.sets[s] ELSE v[i][s]]
    <3> DEFINE w == [s \in D \cap (DOMAIN v[i] \cup In(i)) |->
                       IF s \in In(i) THEN Content(list[p][s]) ELSE v[i][s]]
    <3>1. [s \in b.alive \cap (DOMAIN v[i] \cup DOMAIN b.sets) |->
                      IF s \in DOMAIN b.sets THEN b.sets[s] ELSE v[i][s]] = w
      BY <2>1
    <3>2. D \cap (DOMAIN v[i] \cup In(i)) = D \cap (DOMAIN t \cup Upto(i) \cup In(i))
      BY <1>8, <2>3
    <3>3. \A s \in D \cap (DOMAIN v[i] \cup In(i)) : After(Upto(i) \cup In(i))[s] = w[s]
      BY <1>8, <2>3, <3>2
    <3>4. After(Upto(i) \cup In(i)) = w
      BY <3>2, <3>3
    <3> QED
      BY <2>2, <3>1, <3>4
  <2>7. DOMAIN b.sets \subseteq b.alive
    BY <2>1
  <2> QED
    BY <2>5, <2>6, <2>7 DEF Hop
<1>11. Leads(p, bs, v)
  BY <1>2, <1>10 DEF Leads
<1> QED
  BY <1>2, <1>3, <1>9, <1>11 DEF Path, bs

\* What one call sends to the receivers of profile p.
Says(p) ==
  \/ /\ out'[p] = <<>>
     /\ told'[p] = told[p]
  \/ /\ connected /\ connected' /\ list' = list
     /\ \E S \in SUBSET DOMAIN list[p], f \in {-1, currentFrame} :
          /\ out'[p] = Bundles(p, S, f)
          /\ told'[p] = Merged(told[p], p, S)
  \/ /\ connected /\ ~connected' /\ list' = list
     /\ out'[p] = EmptyBundle(p)
     /\ told'[p] = EmptyMap

LEMMA CallsSay ==
  FramesInv /\ FramesNext => \A p \in Profiles : Says(p)
<1> SUFFICES ASSUME FramesInv, FramesNext, NEW p \in Profiles PROVE Says(p)
  OBVIOUS
<1>0. TypeOK
  BY DEF FramesInv
<1>1. told'[p] = Hear(told[p], out'[p])
  BY DEF FramesNext
<1>2. ASSUME out'[p] = <<>> PROVE Says(p)
  <2>1. DOMAIN out'[p] = {}
    BY <1>2
  <2> QED
    BY <1>1, <1>2, <2>1, HearSilent DEF Says
<1>3. CASE Silent
  BY <1>2, <1>3 DEF Silent
<1>4. ASSUME NEW S \in SUBSET DOMAIN list[p], NEW f \in {-1, currentFrame},
             connected, connected', list' = list, out'[p] = Bundles(p, S, f)
      PROVE  Says(p)
  BY <1>0, <1>1, <1>4, HearBundles DEF Says
<1>5. CASE BeginFrame
  BY <1>3, <1>5 DEF BeginFrame, InitFrame
<1>6. CASE Change
  BY <1>0, <1>3, <1>6, ChangeMarks
<1>7. CASE CommitFrame
  <2>1. connected /\ connected' /\ list' = list
    BY <1>7 DEF CommitFrame, Idle
  <2>2. CASE update[p]
    <3> DEFINE S == IF fullUpdate THEN DOMAIN list[p] ELSE Touched(p)
    <3>1. out'[p] = Bundles(p, S, currentFrame)
      BY <1>7, <2>2 DEF CommitFrame
    <3>2. S \in SUBSET DOMAIN list[p]
      BY DEF Touched
    <3> HIDE DEF S
    <3> QED
      BY <1>4, <2>1, <3>1, <3>2
  <2>3. CASE ~update[p]
    <3>1. CASE HeartbeatDue(p)
      <4>1. out'[p] = Heartbeat(p, currentFrame)
        BY <1>7, <2>3, <3>1 DEF CommitFrame
      <4>2. out'[p] = Bundles(p, {}, currentFrame)
        BY <1>0, <4>1, HeartbeatIsBundles
      <4> QED
        BY <1>4, <2>1, <4>2
    <3>2. CASE ~HeartbeatDue(p)
      <4>1. out'[p] = <<>>
        BY <1>7, <2>3, <3>2 DEF CommitFrame
      <4> QED
        BY <1>2, <4>1
    <3> QED
      BY <3>1, <3>2
  <2> QED
    BY <2>2, <2>3
<1>8. CASE SendFullMessages
  <2>1. /\ connected /\ connected' /\ list' = list
        /\ out'[p] = Bundles(p, DOMAIN list[p], -1)
    BY <1>8 DEF SendFullMessages, sendVars, Idle
  <2> QED
    BY <1>4, <2>1
<1>9. ASSUME NEW enabled \in BOOLEAN,
             SetPeriodicMessages(enabled) \/ SetFullUpdate(enabled)
      PROVE  Says(p)
  BY <1>3, <1>9 DEF SetPeriodicMessages, SetFullUpdate
<1>10. CASE Destroy
  <2>1. connected /\ ~connected' /\ list' = list /\ out'[p] = EmptyBundle(p)
    BY <1>10 DEF Destroy, Idle
  <2>2. told'[p] = EmptyMap
    <3> DEFINE b == [profile |-> p, alive |-> {}, sets |-> EmptyMap, fseq |-> -1]
    <3>1. out'[p] = <<b>> /\ b.alive = {}
      BY <2>1 DEF EmptyBundle
    <3> HIDE DEF b
    <3>2. DOMAIN out'[p] = {1} /\ out'[p][1].alive = {}
      BY <3>1
    <3>3. Greatest(DOMAIN out'[p]) = 1
      BY <3>2 DEF Greatest
    <3>4. told'[p] = [s \in {} |-> s]
      BY <1>1, <3>2, <3>3 DEF Hear
    <3> QED
      BY <3>4 DEF EmptyMap
  <2> QED
    BY <2>1, <2>2 DEF Says
<1> QED
  BY <1>5, <1>6, <1>7, <1>8, <1>9, <1>10 DEF FramesNext, Control

-----------------------------------------------------------------------------
(***************************************************************************)
(* Every call reports a new container without speed, and one that moved    *)
(* with a speed; it changes only those that the frame did not touch.       *)
(***************************************************************************)
Reported(p) ==
  \A s \in DOMAIN list'[p] :
    \/ s \in DOMAIN list[p] /\ list'[p][s] = list[p][s]
    \/ s = sessionID + 1 /\ list'[p][s].speed = 0
    \/ /\ s \in DOMAIN list[p] \ Touched(p)
       /\ list'[p][s].pos # list[p][s].pos => list'[p][s].speed # 0

LEMMA ListsOfPut ==
  ASSUME TypeOK, NEW p \in Profiles, NEW s, NEW c, Put(p, s, c)
  PROVE  list'[p] = With(list[p], s, c) /\ \A q \in Profiles \ {p} : list'[q] = list[q]
BY DEF Put, TypeOK

LEMMA ListsOfTake ==
  ASSUME TypeOK, NEW p \in Profiles, NEW s, Take(p, s)
  PROVE  /\ list'[p] = Without(list[p], {s})
         /\ \A q \in Profiles \ {p} : list'[q] = list[q]
BY DEF Take, TypeOK

LEMMA CallsReport ==
  ASSUME TypeOK, ExternalProfiles = {}, FramesNext
  PROVE  \A p \in Profiles : Reported(p)
<1> DEFINE Goal == \A p \in Profiles : Reported(p)
<1> SUFFICES Goal
  OBVIOUS
<1>1. ASSUME list' = list PROVE Goal
  BY <1>1 DEF Reported
<1>2. ASSUME NEW p \in Profiles, NEW pos, Put(p, sessionID + 1, Fresh(pos)) PROVE Goal
  <2>1. Fresh(pos).speed = 0
    BY DEF Fresh
  <2>2. /\ list'[p] = With(list[p], sessionID + 1, Fresh(pos))
        /\ \A q \in Profiles \ {p} : list'[q] = list[q]
    BY <1>2, ListsOfPut
  <2> QED
    BY <2>1, <2>2 DEF Reported, With
<1>3. ASSUME NEW p \in Profiles, NEW s \in DOMAIN list[p] \ Touched(p), NEW pos,
             NEW speed \in SpeedsTo(list[p][s], pos),
             Put(p, s, Moved(list[p][s], pos, speed))
      PROVE  Goal
  <2> DEFINE c == Moved(list[p][s], pos, speed)
  <2>1. c.pos = pos /\ c.speed = speed
    BY DEF Moved
  <2>2. pos # list[p][s].pos => speed # 0
    BY DEF SpeedsTo
  <2>3. /\ list'[p] = With(list[p], s, c)
        /\ \A q \in Profiles \ {p} : list'[q] = list[q]
    BY <1>3, ListsOfPut
  <2> HIDE DEF c
  <2> QED
    BY <2>1, <2>2, <2>3 DEF Reported, With
<1>4. ASSUME NEW p \in Profiles, NEW s, Take(p, s) PROVE Goal
  <2>1. /\ list'[p] = Without(list[p], {s})
        /\ \A q \in Profiles \ {p} : list'[q] = list[q]
    BY <1>4, ListsOfTake
  <2>2. \A t \in DOMAIN list'[p] : t \in DOMAIN list[p] /\ list'[p][t] = list[p][t]
    BY <2>1 DEF Without
  <2> QED
    BY <2>1, <2>2 DEF Reported
<1>5. ASSUME NEW p \in Profiles, StopUntouchedMoving(p) PROVE Goal
  <2> DEFINE moving == UntouchedMoving(p)
  <2>1. list' = [list EXCEPT ![p] =
                   [s \in DOMAIN @ |-> IF s \in moving
                                         THEN Moved(@[s], @[s].pos, 0) ELSE @[s]]]
    BY <1>5 DEF StopUntouchedMoving
  <2>2. moving \subseteq DOMAIN list[p] \ Touched(p)
    BY DEF UntouchedMoving
  <2> HIDE DEF moving
  <2>3. /\ list'[p] = [s \in DOMAIN list[p] |->
                         IF s \in moving THEN Moved(list[p][s], list[p][s].pos, 0)
                         ELSE list[p][s]]
        /\ \A q \in Profiles \ {p} : list'[q] = list[q]
    BY <2>1 DEF TypeOK
  <2>4. \A c, pos : Moved(c, pos, 0).pos = pos
    BY DEF Moved
  <2>5. ASSUME NEW s \in DOMAIN list'[p]
        PROVE  \/ s \in DOMAIN list[p] /\ list'[p][s] = list[p][s]
               \/ /\ s \in DOMAIN list[p] \ Touched(p)
                  /\ list'[p][s].pos = list[p][s].pos
    BY <2>2, <2>3, <2>4
  <2> QED
    BY <2>3, <2>5 DEF Reported
<1> HIDE DEF Goal
<1>6. CASE Change
  <2>1. ASSUME NEW pos \in Positions, AddTuioObject(pos) PROVE Goal
    BY <1>2, <2>1 DEF AddTuioObject
  <2>2. ASSUME NEW pos \in Positions, AddTuioCursor(pos) PROVE Goal
    BY <1>2, <2>2 DEF AddTuioCursor
  <2>3. ASSUME NEW p \in Profiles, NEW s \in Sessions, NEW pos \in Positions,
               UpdateTuio(p, s, pos)
        PROVE  Goal
    BY <1>1, <1>3, <2>3 DEF UpdateTuio
  <2>4. ASSUME NEW s \in Sessions, RemoveTuioObject(s) PROVE Goal
    BY <1>4, <2>4 DEF RemoveTuioObject
  <2>5. ASSUME NEW s \in Sessions, RemoveTuioCursor(s) PROVE Goal
    BY <1>4, <2>5 DEF RemoveTuioCursor
  <2>6. ASSUME GetSessionID PROVE Goal
    BY <1>1, <2>6 DEF GetSessionID
  <2>7. ASSUME NEW p \in Profiles, NEW s \in Sessions, NEW pos \in Positions,
               UpdateExternalTuio(p, s, pos)
        PROVE  Goal
    BY <1>3, <2>7 DEF UpdateExternalTuio
  <2>8. ASSUME NEW p \in Profiles, NEW s \in Sessions, RemoveExternalTuio(p, s)
        PROVE  Goal
    BY <1>4, <2>8 DEF RemoveExternalTuio
  <2>9. ASSUME NEW p \in Profiles, BeginRemoveUntouchedStopped(p) PROVE Goal
    BY <1>1, <2>9 DEF BeginRemoveUntouchedStopped
  <2>10. ASSUME NEW p \in Profiles, RemoveNextUntouchedStopped(p) PROVE Goal
    BY <1>4, <2>10 DEF RemoveNextUntouchedStopped
  <2> QED
    BY <1>5, <1>6, <2>1, <2>2, <2>3, <2>4, <2>5, <2>6, <2>7, <2>8, <2>9, <2>10
    DEF Change
<1>7. CASE BeginFrame \/ CommitFrame \/ Control
  <2>1. list' = list
    BY <1>7 DEF BeginFrame, InitFrame, CommitFrame, Control, SendFullMessages,
       SetPeriodicMessages, SetFullUpdate, Destroy
  <2> QED
    BY <1>1, <2>1
<1> QED
  BY <1>6, <1>7 DEF FramesNext

LEMMA SessionIdGrows ==
  ASSUME TypeOK, FramesNext
  PROVE  sessionID \in Int /\ sessionID' \in Int /\ sessionID <= sessionID'
<1>1. Next
  BY DEF FramesNext, Next
<1>2. sessionID \in Int
  BY DEF TypeOK
<1>3. sessionID' = sessionID \/ sessionID' = sessionID + 1
  BY <1>1, SessionSteps DEF SessionStep, SessionsStay, SessionEnters, SessionLeaves,
     SessionGranted, ExternalEnters, ExternalLeaves, sessionVars
<1> QED
  BY <1>2, <1>3

\* A receiver takes what the lists hold as it is.
ListsTaken ==
  connected =>
    \A p \in Profiles :
      /\ DOMAIN told[p] \subseteq 0..sessionID
      /\ \A s \in DOMAIN list[p] : Takes(told[p], s, Content(list[p][s]))

LEMMA ListsTakenStep ==
  ASSUME FramesInv, ListsTaken, ExternalProfiles = {}, FramesNext
  PROVE  ListsTaken'
<1>1. TypeOK /\ \A p \in Profiles : IsList(list[p])
  BY DEF FramesInv, TypeOK
<1>2. sessionID \in Int /\ sessionID' \in Int /\ sessionID <= sessionID'
  BY <1>1, SessionIdGrows
<1>3. \A c : Content(c).pos = c.pos /\ Content(c).speed = c.speed
             /\ Content(c) = [pos |-> Content(c).pos, speed |-> Content(c).speed]
  BY DEF Content
<1> SUFFICES ASSUME connected', NEW p \in Profiles
             PROVE  /\ DOMAIN told'[p] \subseteq 0..sessionID'
                    /\ \A s \in DOMAIN list'[p] :
                         Takes(told'[p], s, Content(list'[p][s]))
  BY DEF ListsTaken
<1>4. Says(p) /\ Reported(p)
  BY <1>1, CallsSay, CallsReport
<1>5. connected
  BY <1>1, ChangeMarks
  DEF FramesNext, BeginFrame, InitFrame, CommitFrame, Control, SendFullMessages,
      SetPeriodicMessages, SetFullUpdate, Destroy, sendVars, Idle
<1>6. /\ DOMAIN told[p] \subseteq 0..sessionID
      /\ \A s \in DOMAIN list[p] : Takes(told[p], s, Content(list[p][s]))
  BY <1>5 DEF ListsTaken
<1>7. 0..sessionID \subseteq 0..sessionID' /\ sessionID + 1 \notin 0..sessionID
  BY <1>2
<1>8. CASE told'[p] = told[p]
  <2> SUFFICES ASSUME NEW s \in DOMAIN list'[p]
               PROVE  Takes(told[p], s, Content(list'[p][s]))
    BY <1>6, <1>7, <1>8
  <2>1. CASE s \in DOMAIN list[p] /\ list'[p][s] = list[p][s]
    BY <1>6, <2>1
  <2>2. CASE s = sessionID + 1 /\ list'[p][s].speed = 0
    <3>1. s \notin DOMAIN told[p]
      BY <1>6, <1>7, <2>2
    <3> QED
      BY <1>3, <2>2, <3>1 DEF Takes
  <2>3. CASE /\ s \in DOMAIN list[p] \ Touched(p)
             /\ list'[p][s].pos # list[p][s].pos => list'[p][s].speed # 0
    <3>1. s \in DOMAIN told[p] /\ told[p][s] = Content(list[p][s])
      BY <1>5, <2>3 DEF FramesInv, OnlyNewsUntold
    <3> QED
      BY <1>3, <2>3, <3>1 DEF Takes
  <2> QED
    BY <1>4, <2>1, <2>2, <2>3 DEF Reported
<1>9. ASSUME list' = list, NEW S \in SUBSET DOMAIN list[p],
             told'[p] = Merged(told[p], p, S)
      PROVE  /\ DOMAIN told'[p] \subseteq 0..sessionID'
             /\ \A s \in DOMAIN list'[p] : Takes(told'[p], s, Content(list'[p][s]))
  <2>1. DOMAIN told'[p] = DOMAIN list[p] \cap (DOMAIN told[p] \cup S)
    BY <1>9 DEF Merged
  <2>2. DOMAIN told'[p] \subseteq 0..sessionID'
    BY <1>1, <1>7, <2>1 DEF IsList
  <2>3. ASSUME NEW s \in DOMAIN list[p] PROVE Takes(told'[p], s, Content(list[p][s]))
    <3>1. CASE s \in S
      <4>1. s \in DOMAIN told'[p] /\ told'[p][s] = Content(list[p][s])
        BY <1>9, <3>1 DEF Merged
      <4> QED
        BY <1>3, <4>1 DEF Takes
    <3>2. CASE s \notin S
      <4>1. /\ s \in DOMAIN told'[p] <=> s \in DOMAIN told[p]
            /\ s \in DOMAIN told[p] => told'[p][s] = told[p][s]
        BY <1>9, <3>2 DEF Merged
      <4> QED
        BY <1>6, <4>1 DEF Takes
    <3> QED
      BY <3>1, <3>2
  <2> QED
    BY <1>9, <2>2, <2>3
<1> QED
  BY <1>4, <1>8, <1>9 DEF Says

-----------------------------------------------------------------------------
(***************************************************************************)
(* The packets that one call puts under way.                               *)
(***************************************************************************)
LEMMA SentFacts ==
  ASSUME NEW o,
         \A q \in Profiles : IsSeq(o[q]) /\ \A i \in DOMAIN o[q] : o[q][i].profile = q
  PROVE  /\ IsSeq(Sent(o))
         /\ \A i \in DOMAIN Sent(o) :
              \E q \in Profiles : \E j \in DOMAIN o[q] : Sent(o)[i] = o[q][j]
         /\ \A p \in Profiles : \A t, u : Path(p, t, o[p], u) => Path(p, t, Sent(o), u)
<1> DEFINE a == IF "cur" \in Profiles THEN o["cur"] ELSE <<>>
           b == IF "obj" \in Profiles THEN o["obj"] ELSE <<>>
<1>1. Sent(o) = a \o b
  BY DEF Sent
<1>2. /\ IsSeq(a) /\ \A i \in DOMAIN a : a[i].profile = "cur"
      /\ IsSeq(b) /\ \A i \in DOMAIN b : b[i].profile = "obj"
  <2>1. IsSeq(<<>>) /\ DOMAIN <<>> = {}
    BY EmptyIsSeq
  <2> QED
    BY <2>1
<1>3. /\ \A i \in DOMAIN a : \E q \in Profiles : \E j \in DOMAIN o[q] : a[i] = o[q][j]
      /\ \A i \in DOMAIN b : \E q \in Profiles : \E j \in DOMAIN o[q] : b[i] = o[q][j]
  <2>1. DOMAIN <<>> = {}
    OBVIOUS
  <2> QED
    BY <2>1
<1>4. Profiles \subseteq {"cur", "obj"}
  BY ServerAssumption
<1>5. /\ "cur" \in Profiles => a = o["cur"]
      /\ "obj" \in Profiles => b = o["obj"]
  OBVIOUS
<1> HIDE DEF a, b
<1>6. DOMAIN a = 1..Len(a) /\ DOMAIN b = 1..Len(b)
  BY <1>2, SeqIsFunction
<1>7. IsSeq(a \o b)
  BY <1>2, ConcatIsSeq
<1>8. ASSUME NEW i \in DOMAIN (a \o b)
      PROVE  \E q \in Profiles : \E j \in DOMAIN o[q] : (a \o b)[i] = o[q][j]
  <2>1. \/ i \in DOMAIN a /\ (a \o b)[i] = a[i]
        \/ i - Len(a) \in DOMAIN b /\ (a \o b)[i] = b[i - Len(a)]
    BY <1>2, ConcatElements
  <2> QED
    BY <1>3, <2>1
<1>9. ASSUME NEW p \in Profiles, NEW t, NEW u, Path(p, t, o[p], u)
      PROVE  Path(p, t, a \o b, u)
  <2>1. CASE p = "cur"
    <3>1. Path(p, t, a, u)
      BY <1>5, <1>9, <2>1
    <3>2. Path(p, u, b, u)
      BY <1>2, <1>6, <2>1, PathOfOthers
    <3> QED
      BY <1>2, <3>1, <3>2, PathConcat
  <2>2. CASE p = "obj"
    <3>1. Path(p, t, a, t)
      BY <1>2, <1>6, <2>2, PathOfOthers
    <3>2. Path(p, t, b, u)
      BY <1>5, <1>9, <2>2
    <3> QED
      BY <1>2, <3>1, <3>2, PathConcat
  <2> QED
    BY <1>4, <2>1, <2>2
<1> QED
  BY <1>1, <1>7, <1>8, <1>9

LEMMA EmptyBundleIs ==
  ASSUME NEW p
  PROVE  /\ IsSeq(EmptyBundle(p))
         /\ DOMAIN EmptyBundle(p) = {1} /\ Len(EmptyBundle(p)) = 1
         /\ EmptyBundle(p)[1].profile = p
         /\ EmptyBundle(p)[1].alive = {}
         /\ EmptyBundle(p)[1].fseq = -1
         /\ DOMAIN EmptyBundle(p)[1].sets = {}
         /\ \A o : Path(p, o, EmptyBundle(p), EmptyMap)
<1> DEFINE b == [profile |-> p, alive |-> {}, sets |-> EmptyMap, fseq |-> -1]
           n == <<b>>
<1>1. EmptyBundle(p) = n
  BY DEF EmptyBundle
<1>2. b.profile = p /\ b.alive = {} /\ b.fseq = -1 /\ DOMAIN b.sets = {}
  BY DEF EmptyMap
<1> HIDE DEF b
<1>3. DOMAIN n = 1..1 /\ n = [i \in 1..1 |-> n[i]] /\ n[1] = b /\ DOMAIN n = {1}
  OBVIOUS
<1> HIDE DEF n
<1>4. IsSeq(n) /\ Len(n) = 1
  <2>1. 1 \in Nat
    OBVIOUS
  <2> QED
    BY <1>3, <2>1, FunctionIsSeq
<1>5. ASSUME NEW o PROVE Path(p, o, n, EmptyMap)
  <2> DEFINE v == [i \in {1, 2} |-> IF i = 1 THEN o ELSE EmptyMap]
  <2>1. v[1] = o /\ v[2] = EmptyMap /\ 1 + 1 = 2
    OBVIOUS
  <2> HIDE DEF v
  <2>2. Hop(o, b, EmptyMap)
    BY <1>2 DEF Hop, EmptyMap
  <2>3. Leads(p, n, v)
    BY <1>2, <1>3, <1>4, <2>1, <2>2 DEF Leads
  <2> QED
    BY <1>4, <2>1, <2>3 DEF Path
<1> QED
  BY <1>1, <1>2, <1>3, <1>4, <1>5

\* What is sent is of its profile, and numbered by the frame or not at all.
LEMMA CallsSend ==
  ASSUME FramesInv, FramesNext, NEW p \in Profiles
  PROVE  /\ IsSeq(out'[p])
         /\ \A i \in DOMAIN out'[p] :
              /\ out'[p][i].profile = p
              /\ out'[p][i].fseq \in {-1, currentFrame}
              /\ DOMAIN out'[p][i].sets \subseteq out'[p][i].alive
              /\ out'[p][i].alive = IF connected' THEN DOMAIN list[p] ELSE {}
              /\ connected /\ list' = list
<1>1. Says(p) /\ TypeOK
  BY CallsSay DEF FramesInv
<1>2. CASE out'[p] = <<>>
  <2>1. DOMAIN <<>> = {}
    OBVIOUS
  <2> QED
    BY <1>2, <2>1, EmptyIsSeq
<1>3. ASSUME NEW S \in SUBSET DOMAIN list[p], NEW f \in {-1, currentFrame},
             connected', out'[p] = Bundles(p, S, f)
      PROVE  /\ IsSeq(out'[p])
             /\ \A i \in DOMAIN out'[p] :
                  /\ out'[p][i].profile = p
                  /\ out'[p][i].fseq \in {-1, currentFrame}
                  /\ DOMAIN out'[p][i].sets \subseteq out'[p][i].alive
                  /\ out'[p][i].alive = IF connected' THEN DOMAIN list[p] ELSE {}
  <2> DEFINE bs == Bundles(p, S, f)
             n  == LastPacket(p, S) + 1
  <2>1. /\ IsSeq(bs) /\ Len(bs) = n
        /\ \A i \in 1..n : /\ bs[i].profile = p
                           /\ bs[i].alive = DOMAIN list[p]
                           /\ bs[i].fseq = f
                           /\ DOMAIN bs[i].sets = {s \in S : PacketOf(S, s) = i - 1}
    BY <1>1, BundlesAre
  <2> HIDE DEF bs, n
  <2>2. DOMAIN bs = 1..n
    BY <2>1, SeqIsFunction
  <2> QED
    BY <1>3, <2>1, <2>2 DEF bs
<1>4. CASE connected /\ ~connected' /\ list' = list /\ out'[p] = EmptyBundle(p)
  BY <1>4, EmptyBundleIs
<1> QED
  BY <1>1, <1>2, <1>3, <1>4 DEF Says

LEMMA FrameGrows ==
  ASSUME TypeOK, FramesNext
  PROVE  currentFrame \in Int /\ currentFrame' \in Int /\ currentFrame <= currentFrame'
<1>1. currentFrame \in Int
  BY DEF TypeOK
<1>2. currentFrame' = currentFrame \/ currentFrame' = currentFrame + 1
  BY DEF FramesNext, BeginFrame, InitFrame, CommitFrame, Control, SendFullMessages,
     SetPeriodicMessages, SetFullUpdate, Destroy, Change, AddTuioObject, AddTuioCursor,
     UpdateTuio, RemoveTuioObject, RemoveTuioCursor, GetSessionID, AddExternalTuio,
     UpdateExternalTuio, RemoveExternalTuio, StopUntouchedMoving,
     BeginRemoveUntouchedStopped, RemoveNextUntouchedStopped, frameVars
<1> QED
  BY <1>1, <1>2

-----------------------------------------------------------------------------
(***************************************************************************)
(* The client.  What it will show for a profile when it is through with    *)
(* the packet it decodes:                                                  *)
(***************************************************************************)
Left(p) == IF decoding.profile = p THEN decoding ELSE Client!Rest

Prospect(p) ==
  [s \in (DOMAIN shown[p] \cup DOMAIN Left(p).news) \ Left(p).gone |->
     IF s \in DOMAIN Left(p).news THEN Left(p).news[s] ELSE shown[p][s]]

ClientOK ==
  /\ shown = [p \in Profiles |-> shown[p]]
  /\ heard = shown
  /\ \A p \in Profiles : shown[p] = [s \in DOMAIN shown[p] |-> shown[p][s]]
  /\ decoding = [profile |-> decoding.profile,
                 news    |-> decoding.news,
                 gone    |-> decoding.gone]
  /\ \/ decoding = Client!Rest
     \/ /\ decoding.profile \in Profiles
        /\ decoding.news = [s \in DOMAIN decoding.news |-> decoding.news[s]]
        /\ decoding.gone \subseteq DOMAIN shown[decoding.profile]
        /\ decoding.gone \cap DOMAIN decoding.news = {}

\* What is left to be done for a packet is taken as it is.
NewsTaken ==
  decoding # Client!Rest =>
    \A s \in DOMAIN decoding.news :
      Takes(shown[decoding.profile], s, decoding.news[s])

LEMMA RestIs ==
  /\ \A p \in Profiles : p # Client!Rest.profile
  /\ DOMAIN Client!Rest.news = {} /\ Client!Rest.gone = {}
<1>1. Client!Rest.profile = "none" /\ Client!Rest.news = Client!EmptyMap
      /\ Client!Rest.gone = {}
  BY DEF Client!Rest
<1>2. DOMAIN Client!EmptyMap = {}
  BY DEF Client!EmptyMap
<1> QED
  BY <1>1, <1>2, ServerAssumption

LEMMA ProspectAtRest ==
  ASSUME ClientOK, decoding = Client!Rest, NEW p \in Profiles
  PROVE  Left(p) = Client!Rest /\ Prospect(p) = shown[p]
<1>1. Left(p) = Client!Rest
  BY DEF Left
<1>2. (DOMAIN shown[p] \cup DOMAIN Left(p).news) \ Left(p).gone = DOMAIN shown[p]
      /\ DOMAIN Left(p).news = {}
  BY <1>1, RestIs
<1>3. Prospect(p) = [s \in DOMAIN shown[p] |-> shown[p][s]]
  BY <1>2 DEF Prospect
<1> QED
  BY <1>1, <1>3 DEF ClientOK

\* A step of the client through a packet: what it does to the lists and to
\* what is left of the packet.
LEMMA NewsStep ==
  ASSUME ClientOK, NEW s \in Sessions, Client!ProcessNews(s)
  PROVE  LET p == decoding.profile IN
         /\ p \in Profiles /\ decoding # Client!Rest
         /\ s \in DOMAIN decoding.news
         /\ decoding' = [profile |-> p,
                         news    |-> Without(decoding.news, {s}),
                         gone    |-> decoding.gone]
         /\ \E c : /\ shown' = [shown EXCEPT ![p] = With(@, s, c)]
                   /\ heard' = [heard EXCEPT ![p] = With(@, s, c)]
                   /\ Takes(shown[p], s, decoding.news[s]) => c = decoding.news[s]
<1> DEFINE p == decoding.profile
           d == decoding.news[s]
<1>1. s \in DOMAIN decoding.news
      /\ decoding' = [decoding EXCEPT !.news = Client!Without(@, {s})]
  BY DEF Client!ProcessNews
<1>2. decoding # Client!Rest /\ p \in Profiles
  BY <1>1, RestIs DEF ClientOK
<1>3. decoding' = [profile |-> p,
                   news    |-> Without(decoding.news, {s}),
                   gone    |-> decoding.gone]
  BY <1>1 DEF ClientOK, Client!Without, Without
<1>4. \E c : /\ shown' = [shown EXCEPT ![p] = With(@, s, c)]
             /\ heard' = [heard EXCEPT ![p] = With(@, s, c)]
             /\ \/ s \notin DOMAIN shown[p] /\ c \in Client!Added(d)
                \/ s \in DOMAIN shown[p] /\ c \in Client!Updated(shown[p][s], d)
  BY DEF Client!ProcessNews, Client!With, With
<1>5. ASSUME NEW c, Takes(shown[p], s, d),
             \/ s \notin DOMAIN shown[p] /\ c \in Client!Added(d)
             \/ s \in DOMAIN shown[p] /\ c \in Client!Updated(shown[p][s], d)
      PROVE  c = d
  <2>1. CASE s \notin DOMAIN shown[p] /\ c \in Client!Added(d)
    <3>1. c = [pos |-> d.pos, speed |-> 0]
      BY <2>1 DEF Client!Added
    <3>2. d.speed = 0 /\ d = [pos |-> d.pos, speed |-> d.speed]
      BY <1>5, <2>1 DEF Takes
    <3> HIDE DEF d
    <3> QED
      BY <3>1, <3>2
  <2>2. CASE s \in DOMAIN shown[p] /\ c \in Client!Updated(shown[p][s], d)
    <3>1. ~(d.pos # shown[p][s].pos /\ d.speed = 0)
      BY <1>5, <2>2 DEF Takes
    <3> QED
      BY <2>2, <3>1 DEF Client!Updated
  <2> QED
    BY <1>5, <2>1, <2>2
<1> HIDE DEF d
<1>6. \E c : /\ shown' = [shown EXCEPT ![p] = With(@, s, c)]
             /\ heard' = [heard EXCEPT ![p] = With(@, s, c)]
             /\ Takes(shown[p], s, d) => c = d
  BY <1>4, <1>5
<1> QED
  BY <1>1, <1>2, <1>3, <1>6 DEF d

LEMMA GoneStep ==
  ASSUME ClientOK, NEW s \in Sessions, Client!ProcessGone(s)
  PROVE  LET p == decoding.profile IN
         /\ p \in Profiles /\ decoding # Client!Rest
         /\ s \in decoding.gone /\ DOMAIN decoding.news = {}
         /\ decoding' = [profile |-> p,
                         news    |-> decoding.news,
                         gone    |-> decoding.gone \ {s}]
         /\ shown' = [shown EXCEPT ![p] = Without(@, {s})]
         /\ heard' = [heard EXCEPT ![p] = Without(@, {s})]
<1>1. /\ s \in decoding.gone /\ DOMAIN decoding.news = {}
      /\ decoding' = [decoding EXCEPT !.gone = @ \ {s}]
      /\ shown' = [shown EXCEPT ![decoding.profile] = Client!Without(@, {s})]
      /\ heard' = [heard EXCEPT ![decoding.profile] = Client!Without(@, {s})]
  BY DEF Client!ProcessGone
<1>2. decoding # Client!Rest /\ decoding.profile \in Profiles
  BY <1>1, RestIs DEF ClientOK
<1> QED
  BY <1>1, <1>2 DEF ClientOK, Client!Without, Without

LEMMA DecodeStep ==
  ASSUME ClientOK, Client!ProcessFrame
  PROVE  /\ ClientOK'
         /\ \A p \in Profiles : DOMAIN Prospect(p)' = DOMAIN Prospect(p)
         /\ NewsTaken => NewsTaken' /\ \A p \in Profiles : Prospect(p)' = Prospect(p)
<1> DEFINE Goal == /\ ClientOK'
                   /\ \A q \in Profiles : DOMAIN Prospect(q)' = DOMAIN Prospect(q)
                   /\ NewsTaken => /\ NewsTaken'
                                   /\ \A q \in Profiles : Prospect(q)' = Prospect(q)
<1>1. ASSUME NEW s \in Sessions, Client!ProcessNews(s) PROVE Goal
  <2>0. PICK p \in Profiles : p = decoding.profile
    BY <1>1, NewsStep
  <2>1. /\ p \in Profiles /\ decoding # Client!Rest
        /\ s \in DOMAIN decoding.news
        /\ decoding' = [profile |-> p,
                        news    |-> Without(decoding.news, {s}),
                        gone    |-> decoding.gone]
    BY <1>1, <2>0, NewsStep
  <2>2. PICK c : /\ shown' = [shown EXCEPT ![p] = With(@, s, c)]
                 /\ heard' = [heard EXCEPT ![p] = With(@, s, c)]
                 /\ Takes(shown[p], s, decoding.news[s]) => c = decoding.news[s]
    BY <1>1, <2>0, NewsStep
  <2>3. /\ shown'[p] = With(shown[p], s, c)
        /\ \A q \in Profiles \ {p} : shown'[q] = shown[q]
        /\ shown' = [q \in Profiles |-> shown'[q]]
        /\ heard' = shown'
    BY <2>1, <2>2 DEF ClientOK
  <2>4. /\ decoding'.profile = p /\ decoding'.gone = decoding.gone
        /\ decoding'.news = Without(decoding.news, {s})
    BY <2>1
  <2>5. /\ DOMAIN decoding'.news = DOMAIN decoding.news \ {s}
        /\ \A t \in DOMAIN decoding'.news : decoding'.news[t] = decoding.news[t]
        /\ decoding'.news = [t \in DOMAIN decoding'.news |-> decoding'.news[t]]
    BY <2>4 DEF Without
  <2>6. /\ DOMAIN shown'[p] = DOMAIN shown[p] \cup {s}
        /\ shown'[p][s] = c
        /\ \A t \in DOMAIN shown[p] \ {s} : shown'[p][t] = shown[p][t]
        /\ shown'[p] = [t \in DOMAIN shown'[p] |-> shown'[p][t]]
    BY <2>3 DEF With
  <2>7. ClientOK'
    <3>1. \A q \in Profiles : shown'[q] = [t \in DOMAIN shown'[q] |-> shown'[q][t]]
      BY <2>3, <2>6 DEF ClientOK
    <3>2. /\ decoding'.gone \subseteq DOMAIN shown'[p]
          /\ decoding'.gone \cap DOMAIN decoding'.news = {}
      BY <2>0, <2>1, <2>4, <2>5, <2>6 DEF ClientOK
    <3>3. decoding' = [profile |-> decoding'.profile, news |-> decoding'.news,
                       gone |-> decoding'.gone]
      BY <2>1
    <3> QED
      BY <2>1, <2>3, <2>4, <2>5, <3>1, <3>2, <3>3 DEF ClientOK
  <2>8. Left(p) = decoding /\ Left(p)' = decoding'
    BY <2>0, <2>4 DEF Left
  <2>9. \A q \in Profiles \ {p} : Left(q)' = Left(q)
    BY <2>0, <2>4 DEF Left, Client!Rest, Client!EmptyMap
  <2>10. \A q \in Profiles \ {p} : Prospect(q)' = Prospect(q)
    BY <2>3, <2>9 DEF Prospect
  <2>11. DOMAIN Prospect(p)' = DOMAIN Prospect(p)
    BY <2>1, <2>4, <2>5, <2>6, <2>8 DEF Prospect
  <2>12. ASSUME NewsTaken PROVE NewsTaken' /\ Prospect(p)' = Prospect(p)
    <3>1. \A t \in DOMAIN decoding.news : Takes(shown[p], t, decoding.news[t])
      BY <2>0, <2>1, <2>12 DEF NewsTaken
    <3>2. c = decoding.news[s]
      BY <2>1, <2>2, <3>1
    <3>3. \A t \in DOMAIN decoding'.news :
            /\ t # s
            /\ t \in DOMAIN shown'[p] <=> t \in DOMAIN shown[p]
            /\ t \in DOMAIN shown[p] => shown'[p][t] = shown[p][t]
      BY <2>5, <2>6
    <3>4. \A t \in DOMAIN decoding'.news : Takes(shown'[p], t, decoding'.news[t])
      BY <2>5, <3>1, <3>3 DEF Takes
    <3>5. NewsTaken'
      BY <2>4, <3>4 DEF NewsTaken
    <3>6. \A t \in DOMAIN Prospect(p) : Prospect(p)'[t] = Prospect(p)[t]
      <4> TAKE t \in DOMAIN Prospect(p)
      <4>1. t \in DOMAIN Prospect(p)' /\ t \in DOMAIN shown[p] \cup DOMAIN decoding.news
        BY <2>8, <2>11 DEF Prospect
      <4>2. Prospect(p)[t] = IF t \in DOMAIN decoding.news THEN decoding.news[t]
                             ELSE shown[p][t]
        BY <2>8 DEF Prospect
      <4>3. Prospect(p)'[t] = IF t \in DOMAIN decoding'.news THEN decoding'.news[t]
                              ELSE shown'[p][t]
        BY <2>8, <4>1 DEF Prospect
      <4> QED
        BY <2>1, <2>5, <2>6, <3>2, <4>1, <4>2, <4>3
    <3>7. Prospect(p)' = Prospect(p)
      <4>1. Prospect(p) = [t \in DOMAIN Prospect(p) |-> Prospect(p)[t]]
            /\ Prospect(p)' = [t \in DOMAIN Prospect(p)' |-> Prospect(p)'[t]]
        BY DEF Prospect
      <4> QED
        BY <2>11, <3>6, <4>1
    <3> QED
      BY <3>5, <3>7
  <2> QED
    BY <2>7, <2>10, <2>11, <2>12
<1>2. ASSUME NEW s \in Sessions, Client!ProcessGone(s) PROVE Goal
  <2>0. PICK p \in Profiles : p = decoding.profile
    BY <1>2, GoneStep
  <2>1. /\ p \in Profiles /\ decoding # Client!Rest
        /\ s \in decoding.gone /\ DOMAIN decoding.news = {}
        /\ decoding' = [profile |-> p,
                        news    |-> decoding.news,
                        gone    |-> decoding.gone \ {s}]
        /\ shown' = [shown EXCEPT ![p] = Without(@, {s})]
        /\ heard' = [heard EXCEPT ![p] = Without(@, {s})]
    BY <1>2, <2>0, GoneStep
  <2>2. /\ shown'[p] = Without(shown[p], {s})
        /\ \A q \in Profiles \ {p} : shown'[q] = shown[q]
        /\ shown' = [q \in Profiles |-> shown'[q]]
        /\ heard' = shown'
    BY <2>1 DEF ClientOK
  <2>3. /\ decoding'.profile = p /\ decoding'.gone = decoding.gone \ {s}
        /\ decoding'.news = decoding.news
    BY <2>1
  <2>4. /\ DOMAIN shown'[p] = DOMAIN shown[p] \ {s}
        /\ \A t \in DOMAIN shown'[p] : shown'[p][t] = shown[p][t]
        /\ shown'[p] = [t \in DOMAIN shown'[p] |-> shown'[p][t]]
    BY <2>2 DEF Without
  <2>5. ClientOK'
    <3>1. \A q \in Profiles : shown'[q] = [t \in DOMAIN shown'[q] |-> shown'[q][t]]
      BY <2>2, <2>4 DEF ClientOK
    <3>2. /\ decoding'.gone \subseteq DOMAIN shown'[p]
          /\ decoding'.gone \cap DOMAIN decoding'.news = {}
          /\ decoding'.news = [t \in DOMAIN decoding'.news |-> decoding'.news[t]]
      BY <2>0, <2>1, <2>3, <2>4 DEF ClientOK
    <3>3. decoding' = [profile |-> decoding'.profile, news |-> decoding'.news,
                       gone |-> decoding'.gone]
      BY <2>1
    <3> QED
      BY <2>1, <2>2, <2>3, <3>1, <3>2, <3>3 DEF ClientOK
  <2>6. Left(p) = decoding /\ Left(p)' = decoding'
    BY <2>0, <2>3 DEF Left
  <2>7. \A q \in Profiles \ {p} : Left(q)' = Left(q)
    BY <2>0, <2>3 DEF Left, Client!Rest, Client!EmptyMap
  <2>8. \A q \in Profiles \ {p} : Prospect(q)' = Prospect(q)
    BY <2>2, <2>7 DEF Prospect
  <2>9. Prospect(p)' = Prospect(p)
    <3>1. Prospect(p) = [t \in DOMAIN shown[p] \ decoding.gone |-> shown[p][t]]
      BY <2>1, <2>6 DEF Prospect
    <3>2. Prospect(p)' = [t \in DOMAIN shown'[p] \ decoding'.gone |-> shown'[p][t]]
      BY <2>1, <2>3, <2>6 DEF Prospect
    <3>3. DOMAIN shown'[p] \ decoding'.gone = DOMAIN shown[p] \ decoding.gone
      BY <2>1, <2>3, <2>4
    <3> QED
      BY <2>4, <3>1, <3>2, <3>3
  <2>10. NewsTaken'
    BY <2>1, <2>3 DEF NewsTaken
  <2> QED
    BY <2>5, <2>8, <2>9, <2>10
<1>3. CASE Client!Refresh
  <2>1. /\ decoding # Client!Rest /\ DOMAIN decoding.news = {} /\ decoding.gone = {}
        /\ decoding' = Client!Rest /\ shown' = shown /\ heard' = heard
    BY <1>3 DEF Client!Refresh
  <2>2. Client!Rest = [profile |-> Client!Rest.profile, news |-> Client!Rest.news,
                       gone |-> Client!Rest.gone]
    BY DEF Client!Rest
  <2>3. ClientOK'
    BY <2>1, <2>2 DEF ClientOK, Client!Rest, Client!EmptyMap
  <2>4. NewsTaken'
    BY <2>1 DEF NewsTaken, Client!Rest, Client!EmptyMap
  <2>5. ASSUME NEW q \in Profiles PROVE Prospect(q)' = Prospect(q)
    <3>1. DOMAIN Left(q).news = {} /\ Left(q).gone = {}
      BY <2>1, RestIs DEF Left
    <3>2. Left(q)' = Client!Rest
      BY <2>1 DEF Left, Client!Rest, Client!EmptyMap
    <3>3. Prospect(q) = [t \in DOMAIN shown[q] |-> shown[q][t]]
      BY <3>1 DEF Prospect
    <3>4. Prospect(q)' = [t \in DOMAIN shown[q] |-> shown[q][t]]
      BY <2>1, <3>2, RestIs DEF Prospect
    <3> QED
      BY <3>3, <3>4
  <2> QED
    BY <2>3, <2>4, <2>5
<1> QED
  BY <1>1, <1>2, <1>3 DEF Client!ProcessFrame

LEMMA ReceiveStep ==
  ASSUME ClientOK, NEW b, b.profile \in Profiles, DOMAIN b.sets \subseteq b.alive,
         Client!Receive(b)
  PROVE  /\ decoding = Client!Rest
         /\ shown' = shown /\ heard' = heard
         /\ ClientOK'
         /\ \A q \in Profiles \ {b.profile} : Left(q)' = Left(q) /\ Prospect(q)' = Prospect(q)
         /\ \/ /\ Client!Late(b)
               /\ shownFrame' = shownFrame /\ decoding' = decoding
            \/ /\ ~Client!Late(b)
               /\ shownFrame' = IF b.fseq > 0 THEN b.fseq ELSE shownFrame
               /\ decoding' = [profile |-> b.profile,
                               news    |-> [s \in Client!News(b) |-> b.sets[s]],
                               gone    |-> DOMAIN shown[b.profile] \ b.alive]
<1> DEFINE p == b.profile
           d == [profile |-> p,
                 news    |-> [s \in Client!News(b) |-> b.sets[s]],
                 gone    |-> DOMAIN shown[p] \ b.alive]
<1>1. decoding = Client!Rest /\ shown' = shown /\ heard' = heard
  BY DEF Client!Receive, Client!Idle
<1>2. \/ /\ Client!Late(b)
         /\ shownFrame' = shownFrame /\ decoding' = decoding
      \/ /\ ~Client!Late(b)
         /\ shownFrame' = IF b.fseq > 0 THEN b.fseq ELSE shownFrame
         /\ decoding' = d
  BY DEF Client!Receive
<1>3. ClientOK'
  <2>1. CASE decoding' = decoding
    BY <1>1, <2>1 DEF ClientOK
  <2>2. CASE decoding' = d
    <3> DEFINE news == [s \in Client!News(b) |-> b.sets[s]]
               gone == DOMAIN shown[p] \ b.alive
    <3>1. /\ decoding'.profile = p /\ decoding'.news = news /\ decoding'.gone = gone
          /\ decoding' = [profile |-> p, news |-> news, gone |-> gone]
      BY <2>2
    <3>2. news = [s \in DOMAIN news |-> news[s]]
      OBVIOUS
    <3>3. gone \subseteq DOMAIN shown[p] /\ gone \cap DOMAIN news = {}
      BY DEF Client!News
    <3> HIDE DEF news, gone
    <3> QED
      BY <1>1, <3>1, <3>2, <3>3 DEF ClientOK
  <2> QED
    BY <1>2, <2>1, <2>2
<1>4. ASSUME NEW q \in Profiles \ {p} PROVE Left(q)' = Left(q)
  <2>1. Left(q) = Client!Rest
    BY <1>1 DEF Left
  <2>2. decoding' = decoding \/ decoding'.profile = p
    BY <1>2
  <2>3. Left(q)' = Client!Rest
    BY <1>1, <2>2 DEF Left, Client!Rest, Client!EmptyMap
  <2> QED
    BY <2>1, <2>3
<1>5. \A q \in Profiles \ {p} : Prospect(q)' = Prospect(q)
  BY <1>1, <1>4 DEF Prospect
<1> QED
  BY <1>1, <1>2, <1>3, <1>4, <1>5

-----------------------------------------------------------------------------
(***************************************************************************)
(* The packets under way.                                                  *)
(***************************************************************************)
PacketsOK ==
  /\ IsSeq(net)
  /\ \A i \in DOMAIN net :
       /\ net[i].profile \in Profiles
       /\ DOMAIN net[i].sets \subseteq net[i].alive
       /\ net[i].fseq \in Int
       /\ net[i].fseq <= currentFrame

\* Packet i of net' is one that this call sent.
JustSent(i) ==
  /\ net'[i].fseq \in {-1, currentFrame}
  /\ net'[i].alive = IF connected' THEN DOMAIN list[net'[i].profile] ELSE {}
  /\ connected /\ list' = list

LEMMA NetGrows ==
  ASSUME FramesInv, PacketsOK, FramesNext, Send
  PROVE  /\ PacketsOK'
         /\ \A i \in DOMAIN net' : \/ i \in DOMAIN net /\ net'[i] = net[i]
                                   \/ i \notin DOMAIN net /\ JustSent(i)
         /\ \A i \in DOMAIN net, j \in DOMAIN net' \ DOMAIN net : i < j
<1> DEFINE new == Sent(out')
<1>0. IsSeq(net) /\ net' = net \o new /\ TypeOK
  BY DEF PacketsOK, Send, FramesInv
<1>1. \A p \in Profiles : /\ IsSeq(out'[p])
                          /\ \A i \in DOMAIN out'[p] : out'[p][i].profile = p
  BY CallsSend
<1>2. /\ IsSeq(new)
      /\ \A i \in DOMAIN new :
           \E q \in Profiles : \E j \in DOMAIN out'[q] : new[i] = out'[q][j]
  BY <1>1, SentFacts
<1> DEFINE Fits(b) ==
             /\ b.profile \in Profiles
             /\ DOMAIN b.sets \subseteq b.alive
             /\ b.fseq \in {-1, currentFrame}
             /\ b.alive = IF connected' THEN DOMAIN list[b.profile] ELSE {}
             /\ connected /\ list' = list
<1>3. \A i \in DOMAIN new : Fits(new[i])
  <2> TAKE i \in DOMAIN new
  <2>1. PICK q \in Profiles : \E j \in DOMAIN out'[q] : new[i] = out'[q][j]
    BY <1>2
  <2>2. PICK j \in DOMAIN out'[q] : new[i] = out'[q][j]
    BY <2>1
  <2> HIDE DEF new
  <2> QED
    BY <2>2, CallsSend
<1> HIDE DEF new
<1>4. currentFrame \in Int /\ currentFrame' \in Int /\ currentFrame <= currentFrame'
      /\ currentFrame >= -1
  <2>1. currentFrame \in -1..MaxFrame
    BY <1>0 DEF TypeOK
  <2> QED
    BY <1>0, <2>1, FrameGrows
<1>5. /\ IsSeq(net')
      /\ DOMAIN net = 1..Len(net) /\ Len(net) \in Nat
      /\ \A i \in DOMAIN net' : \/ i \in DOMAIN net /\ net'[i] = net[i]
                                \/ /\ i \notin DOMAIN net
                                   /\ i - Len(net) \in DOMAIN new
                                   /\ net'[i] = new[i - Len(net)]
  BY <1>0, <1>2, ConcatIsSeq, ConcatElements, SeqIsFunction
<1>6. DOMAIN net' = 1..Len(net') /\ Len(net') \in Nat
  BY <1>5, SeqIsFunction
<1>7. \A i \in DOMAIN net' : \/ i \in DOMAIN net /\ net'[i] = net[i]
                             \/ i \notin DOMAIN net /\ Fits(net'[i])
  BY <1>3, <1>5
<1>8. \A i \in DOMAIN net, j \in DOMAIN net' \ DOMAIN net : i < j
  BY <1>5, <1>6
<1>9. PacketsOK'
  <2> SUFFICES ASSUME NEW i \in DOMAIN net'
               PROVE  /\ net'[i].profile \in Profiles
                      /\ DOMAIN net'[i].sets \subseteq net'[i].alive
                      /\ net'[i].fseq \in Int
                      /\ net'[i].fseq <= currentFrame'
    BY <1>5 DEF PacketsOK
  <2>1. CASE i \in DOMAIN net /\ net'[i] = net[i]
    BY <1>4, <2>1 DEF PacketsOK
  <2>2. CASE Fits(net'[i])
    BY <1>4, <2>2
  <2> QED
    BY <1>7, <2>1, <2>2
<1>10. \A i \in DOMAIN net' : Fits(net'[i]) => JustSent(i)
  BY DEF JustSent
<1> HIDE DEF Fits
<1> QED
  BY <1>7, <1>8, <1>9, <1>10

\* Where packet j was before packet i was taken away.
Before(i, j) == IF j < i THEN j ELSE j + 1

LEMMA NetShrinks ==
  ASSUME PacketsOK, NEW i \in DOMAIN net, net' = RemoveAt(net, i),
         currentFrame' = currentFrame
  PROVE  /\ PacketsOK'
         /\ \A j \in DOMAIN net' : /\ Before(i, j) \in DOMAIN net
                                   /\ Before(i, j) # i
                                   /\ net'[j] = net[Before(i, j)]
         /\ \A j, k \in DOMAIN net' : j < k => Before(i, j) < Before(i, k)
<1>1. /\ IsSeq(net) /\ IsSeq(net')
      /\ Len(net') = Len(net) - 1
      /\ \A j \in 1..Len(net) - 1 : net'[j] = net[Before(i, j)]
  BY RemoveAtIsSeq DEF PacketsOK, Before
<1>2. /\ DOMAIN net = 1..Len(net) /\ Len(net) \in Nat
      /\ DOMAIN net' = 1..Len(net')
  BY <1>1, SeqIsFunction
<1>3. \A j \in DOMAIN net' : /\ Before(i, j) \in DOMAIN net
                             /\ Before(i, j) # i
                             /\ net'[j] = net[Before(i, j)]
  <2> TAKE j \in DOMAIN net'
  <2>1. j \in 1..Len(net) - 1
    BY <1>1, <1>2
  <2>2. Before(i, j) \in 1..Len(net) /\ Before(i, j) # i
    BY <1>2, <2>1 DEF Before
  <2> QED
    BY <1>1, <1>2, <2>1, <2>2
<1>4. \A j, k \in DOMAIN net' : j < k => Before(i, j) < Before(i, k)
  BY <1>1, <1>2 DEF Before
<1>5. PacketsOK'
  BY <1>1, <1>3 DEF PacketsOK
<1> QED
  BY <1>3, <1>4, <1>5

\* What is under way when the server starts.
LEMMA NetStarts ==
  ASSUME SystemInit
  PROVE  /\ PacketsOK
         /\ \A i \in DOMAIN net : net[i].alive = {} /\ net[i].fseq = -1
         /\ \A p \in Profiles : \A o : Path(p, o, net, told[p])
<1>1. /\ net = Sent(out)
      /\ \A p \in Profiles : out[p] = EmptyBundle(p) /\ told[p] = EmptyMap
      /\ currentFrame = -1
  BY DEF SystemInit, FramesInit, Init
<1>2. \A p \in Profiles : /\ IsSeq(out[p])
                          /\ \A i \in DOMAIN out[p] : out[p][i].profile = p
                          /\ \A o : Path(p, o, out[p], told[p])
  BY <1>1, EmptyBundleIs
<1>3. /\ IsSeq(net)
      /\ \A i \in DOMAIN net :
           \E q \in Profiles : \E j \in DOMAIN out[q] : net[i] = out[q][j]
      /\ \A p \in Profiles : \A o : Path(p, o, net, told[p])
  BY <1>1, <1>2, SentFacts
<1>4. ASSUME NEW i \in DOMAIN net
      PROVE  /\ net[i].profile \in Profiles
             /\ DOMAIN net[i].sets \subseteq net[i].alive
             /\ net[i].alive = {} /\ net[i].fseq = -1
  <2>1. PICK q \in Profiles : \E j \in DOMAIN out[q] : net[i] = out[q][j]
    BY <1>3
  <2>2. net[i] = EmptyBundle(q)[1]
    BY <1>1, <2>1, EmptyBundleIs
  <2> QED
    BY <2>2, EmptyBundleIs
<1>5. PacketsOK
  BY <1>1, <1>3, <1>4 DEF PacketsOK
<1> QED
  BY <1>3, <1>4, <1>5

-----------------------------------------------------------------------------
(***************************************************************************)
(* In order and without loss: the client catches up with what was told.    *)
(***************************************************************************)
Numbered ==
  /\ shownFrame \in Int
  /\ shownFrame <= currentFrame
  /\ \A i \in DOMAIN net : net[i].fseq > 0 => shownFrame <= net[i].fseq
  /\ \A i, j \in DOMAIN net :
       i < j /\ net[i].fseq > 0 /\ net[j].fseq > 0 => net[i].fseq <= net[j].fseq

\* The inductive invariant.
InOrderInv ==
  /\ starts \in Nat \ {0}
  /\ FramesInv
  /\ ListsTaken
  /\ ClientOK
  /\ NewsTaken
  /\ PacketsOK
  /\ Numbered
  /\ \A p \in Profiles : Path(p, Prospect(p), net, told[p])

LEMMA ClientStarts == SystemInit => ClientOK /\ NewsTaken /\ decoding = Client!Rest
<1> SUFFICES ASSUME SystemInit PROVE ClientOK /\ NewsTaken /\ decoding = Client!Rest
  OBVIOUS
<1>1. /\ shown = [p \in Profiles |-> EmptyMap] /\ heard = shown
      /\ decoding = Client!Rest
  BY DEF SystemInit
<1>2. EmptyMap = [s \in DOMAIN EmptyMap |-> EmptyMap[s]]
  BY DEF EmptyMap
<1>3. Client!Rest = [profile |-> Client!Rest.profile, news |-> Client!Rest.news,
                     gone |-> Client!Rest.gone]
  BY DEF Client!Rest
<1> QED
  BY <1>1, <1>2, <1>3 DEF ClientOK, NewsTaken

LEMMA InOrderInit == SystemInit => InOrderInv
<1> SUFFICES ASSUME SystemInit PROVE InOrderInv
  OBVIOUS
<1>1. FramesInit /\ shownFrame = -1 /\ starts = 1
  BY DEF SystemInit
<1>2. FramesInv
  BY <1>1, FramesInit_Inv
<1>3. ListsTaken
  BY <1>1 DEF ListsTaken, FramesInit, Init, EmptyMap
<1>4. PacketsOK /\ (\A i \in DOMAIN net : net[i].fseq = -1)
      /\ \A p \in Profiles : Path(p, Prospect(p), net, told[p])
  BY NetStarts
<1>5. currentFrame = -1
  BY <1>1 DEF FramesInit, Init
<1>6. Numbered
  BY <1>1, <1>4, <1>5 DEF Numbered
<1> QED
  BY <1>1, <1>2, <1>3, <1>4, <1>6, ClientStarts DEF InOrderInv

\* The server sends.
LEMMA InOrderSends ==
  ASSUME InOrderInv, ExternalProfiles = {}, FramesNext, Send, starts' = starts
  PROVE  InOrderInv'
<1>1. FramesInv'
  BY FramesStep DEF InOrderInv
<1>2. ListsTaken'
  BY ListsTakenStep DEF InOrderInv
<1>3. /\ PacketsOK'
      /\ \A i \in DOMAIN net' : \/ i \in DOMAIN net /\ net'[i] = net[i]
                                \/ i \notin DOMAIN net /\ JustSent(i)
      /\ \A i \in DOMAIN net, j \in DOMAIN net' \ DOMAIN net : i < j
  BY NetGrows DEF InOrderInv
<1>4. UNCHANGED clientVars
  BY DEF Send
<1>5. ClientOK' /\ NewsTaken' /\ \A p \in Profiles : Prospect(p)' = Prospect(p)
  BY <1>4 DEF InOrderInv, clientVars, ClientOK, NewsTaken, Prospect, Left,
     Client!Rest, Client!EmptyMap
<1>6. currentFrame \in Int /\ currentFrame' \in Int /\ currentFrame <= currentFrame'
      /\ currentFrame >= -1
  <2>1. TypeOK
    BY DEF InOrderInv, FramesInv
  <2>2. currentFrame \in -1..MaxFrame
    BY <2>1 DEF TypeOK
  <2> QED
    BY <2>1, <2>2, FrameGrows
<1>7. Numbered'
  <2>1. shownFrame' = shownFrame /\ shownFrame \in Int /\ shownFrame <= currentFrame
    BY <1>4 DEF InOrderInv, Numbered, clientVars
  <2>2. \A i \in DOMAIN net : net[i].fseq \in Int /\ net[i].fseq <= currentFrame
    BY DEF InOrderInv, PacketsOK
  <2>3. \A i \in DOMAIN net' :
          \/ i \in DOMAIN net /\ net'[i].fseq = net[i].fseq
          \/ i \notin DOMAIN net /\ net'[i].fseq \in {-1, currentFrame}
    BY <1>3 DEF JustSent
  <2>4. \A i \in DOMAIN net' : net'[i].fseq > 0 => shownFrame <= net'[i].fseq
    BY <1>6, <2>1, <2>3 DEF InOrderInv, Numbered
  <2>5. DOMAIN net = 1..Len(net) /\ DOMAIN net' = 1..Len(net')
    BY <1>3, SeqIsFunction DEF InOrderInv, PacketsOK
  <2>6. ASSUME NEW i \in DOMAIN net', NEW j \in DOMAIN net', i < j,
               net'[i].fseq > 0, net'[j].fseq > 0
        PROVE  net'[i].fseq <= net'[j].fseq
    <3>1. CASE j \notin DOMAIN net
      BY <1>6, <2>2, <2>3, <2>6, <3>1
    <3>2. CASE j \in DOMAIN net
      <4>1. i \in DOMAIN net
        BY <1>3, <2>5, <2>6, <3>2
      <4> QED
        BY <2>3, <2>6, <3>2, <4>1 DEF InOrderInv, Numbered
    <3> QED
      BY <3>1, <3>2
  <2> QED
    BY <1>6, <2>1, <2>4, <2>6 DEF Numbered
<1>8. ASSUME NEW p \in Profiles PROVE Path(p, Prospect(p)', net', told'[p])
  <2>1. \A q \in Profiles : /\ IsSeq(out'[q])
                            /\ \A i \in DOMAIN out'[q] : out'[q][i].profile = q
    BY CallsSend DEF InOrderInv
  <2>2. Path(p, told[p], out'[p], told'[p])
    <3>1. Says(p) /\ TypeOK
      BY CallsSay DEF InOrderInv, FramesInv
    <3>2. CASE out'[p] = <<>> /\ told'[p] = told[p]
      <4>1. IsSeq(<<>>) /\ \A i \in 1..Len(<<>>) : <<>>[i].profile # p
        BY EmptyIsSeq
      <4> QED
        BY <3>2, <4>1, PathOfOthers
    <3>3. ASSUME connected, NEW S \in SUBSET DOMAIN list[p], NEW f,
                 out'[p] = Bundles(p, S, f), told'[p] = Merged(told[p], p, S)
          PROVE  Path(p, told[p], out'[p], told'[p])
      <4>1. \A s \in S : Takes(told[p], s, Content(list[p][s]))
        BY <3>3 DEF InOrderInv, ListsTaken
      <4> QED
        BY <3>1, <3>3, <4>1, PathOfBundles
    <3>4. CASE out'[p] = EmptyBundle(p) /\ told'[p] = EmptyMap
      BY <3>4, EmptyBundleIs
    <3> QED
      BY <3>1, <3>2, <3>3, <3>4 DEF Says
  <2>3. IsSeq(Sent(out')) /\ Path(p, told[p], Sent(out'), told'[p])
    BY <2>1, <2>2, SentFacts
  <2>4. IsSeq(net) /\ Path(p, Prospect(p), net, told[p]) /\ net' = net \o Sent(out')
    BY DEF InOrderInv, PacketsOK, Send
  <2>5. Path(p, Prospect(p), net', told'[p])
    BY <2>3, <2>4, PathConcat
  <2> QED
    BY <1>5, <2>5
<1> QED
  BY <1>1, <1>2, <1>3, <1>5, <1>7, <1>8 DEF InOrderInv

\* The first packet arrives.
LEMMA InOrderArrives ==
  ASSUME InOrderInv, ~Overtaking, NEW i \in DOMAIN net, Deliver(i)
  PROVE  InOrderInv'
<1>1. i = 1 /\ 1 \in DOMAIN net
  <2>1. DOMAIN net = 1..Len(net) /\ Len(net) \in Nat
    BY SeqIsFunction DEF InOrderInv, PacketsOK
  <2> QED
    BY <2>1 DEF Deliver, Arriving
<1>b. PICK b : b = net[1]
  OBVIOUS
<1>p. PICK p \in Profiles : p = b.profile
  BY <1>1, <1>b DEF InOrderInv, PacketsOK
<1>2. b.profile \in Profiles /\ DOMAIN b.sets \subseteq b.alive /\ b.fseq \in Int
      /\ b.fseq <= currentFrame
  BY <1>1, <1>b DEF InOrderInv, PacketsOK
<1>3. /\ Client!Receive(b) /\ net' = RemoveAt(net, 1)
      /\ UNCHANGED <<frameSpecVars, met, starts>>
  BY <1>1, <1>b DEF Deliver
<1>4. /\ decoding = Client!Rest /\ ClientOK'
      /\ shown' = shown
      /\ \A q \in Profiles \ {p} : Left(q)' = Left(q) /\ Prospect(q)' = Prospect(q)
      /\ \/ /\ Client!Late(b)
            /\ shownFrame' = shownFrame /\ decoding' = decoding
         \/ /\ ~Client!Late(b)
            /\ shownFrame' = IF b.fseq > 0 THEN b.fseq ELSE shownFrame
            /\ decoding' = [profile |-> p,
                            news    |-> [s \in Client!News(b) |-> b.sets[s]],
                            gone    |-> DOMAIN shown[p] \ b.alive]
  BY <1>2, <1>3, <1>p, ReceiveStep DEF InOrderInv
<1>5. ~Client!Late(b)
  BY <1>1, <1>2, <1>b DEF Client!Late, InOrderInv, Numbered
<1>6. FramesInv' /\ ListsTaken'
  BY <1>3 DEF InOrderInv, FramesInv, ListsTaken, frameSpecVars, vars, TypeOK, IsList,
     OnlyNewsUntold, Touched
<1>7. currentFrame' = currentFrame /\ told' = told /\ starts' = starts
  BY <1>3 DEF frameSpecVars, vars
<1>8. /\ PacketsOK'
      /\ \A j \in DOMAIN net' : /\ Before(1, j) \in DOMAIN net
                                /\ Before(1, j) # 1
                                /\ net'[j] = net[Before(1, j)]
      /\ \A j, k \in DOMAIN net' : j < k => Before(1, j) < Before(1, k)
  BY <1>1, <1>3, <1>7, NetShrinks DEF InOrderInv
<1>9. Numbered'
  <2>1. shownFrame' = IF b.fseq > 0 THEN b.fseq ELSE shownFrame
    BY <1>4, <1>5
  <2>2. DOMAIN net = 1..Len(net) /\ Len(net) \in Nat
    BY SeqIsFunction DEF InOrderInv, PacketsOK
  <2>3. \A j \in DOMAIN net' : net'[j].fseq > 0 => shownFrame' <= net'[j].fseq
    <3> TAKE j \in DOMAIN net'
    <3>1. Before(1, j) \in DOMAIN net /\ 1 < Before(1, j)
          /\ net'[j].fseq = net[Before(1, j)].fseq
      BY <1>8, <2>2
    <3> QED
      BY <1>1, <1>b, <2>1, <3>1 DEF InOrderInv, Numbered
  <2>4. \A j, k \in DOMAIN net' :
          j < k /\ net'[j].fseq > 0 /\ net'[k].fseq > 0 => net'[j].fseq <= net'[k].fseq
    BY <1>8 DEF InOrderInv, Numbered
  <2> QED
    BY <1>2, <1>7, <2>1, <2>3, <2>4 DEF InOrderInv, Numbered
<1>10. ASSUME NEW q \in Profiles \ {p} PROVE Path(q, Prospect(q)', net', told'[q])
  <2>1. Path(q, Prospect(q), net, told[q]) /\ IsSeq(net)
    BY DEF InOrderInv, PacketsOK
  <2>2. PICK m : /\ IF net[1].profile = q THEN Hop(Prospect(q), net[1], m)
                    ELSE m = Prospect(q)
                 /\ Path(q, m, RemoveAt(net, 1), told[q])
    BY <1>1, <2>1, PathFirst
  <2>3. m = Prospect(q)
    BY <1>b, <1>p, <2>2
  <2> QED
    BY <1>3, <1>4, <1>7, <2>2, <2>3
<1>11. NewsTaken' /\ Path(p, Prospect(p)', net', told'[p])
  <2>1. Path(p, Prospect(p), net, told[p]) /\ IsSeq(net)
    BY <1>2 DEF InOrderInv, PacketsOK
  <2>2. Prospect(p) = shown[p]
    BY <1>2, <1>4, ProspectAtRest DEF InOrderInv
  <2>3. PICK m : Hop(shown[p], b, m) /\ Path(p, m, RemoveAt(net, 1), told[p])
    BY <1>1, <1>b, <1>p, <2>1, <2>2, PathFirst
  <2> DEFINE news == [s \in Client!News(b) |-> b.sets[s]]
             gone == DOMAIN shown[p] \ b.alive
  <2>4. /\ decoding' = [profile |-> p, news |-> news, gone |-> gone]
        /\ decoding'.profile = p /\ decoding'.news = news /\ decoding'.gone = gone
    BY <1>4, <1>5
  <2>5. /\ DOMAIN news \subseteq DOMAIN b.sets
        /\ \A s \in DOMAIN news : news[s] = b.sets[s]
        /\ \A s \in DOMAIN b.sets \ DOMAIN news :
             s \in DOMAIN shown[p] /\ shown[p][s] = b.sets[s]
    BY <1>p DEF Client!News
  <2> HIDE DEF news
  <2>6. NewsTaken'
    <3>1. \A s \in DOMAIN decoding'.news : Takes(shown'[p], s, decoding'.news[s])
      BY <1>4, <2>3, <2>4, <2>5 DEF Hop
    <3> QED
      BY <2>4, <3>1 DEF NewsTaken
  <2>7. Prospect(p)' = m
    <3>1. Left(p)' = decoding'
      BY <2>4 DEF Left
    <3>2. Prospect(p)' =
            [s \in (DOMAIN shown[p] \cup DOMAIN news) \ gone |->
               IF s \in DOMAIN news THEN news[s] ELSE shown[p][s]]
      BY <1>4, <2>4, <3>1 DEF Prospect
    <3>3. m = [s \in b.alive \cap (DOMAIN shown[p] \cup DOMAIN b.sets) |->
                 IF s \in DOMAIN b.sets THEN b.sets[s] ELSE shown[p][s]]
      BY <2>3 DEF Hop
    <3>4. (DOMAIN shown[p] \cup DOMAIN news) \ gone
            = b.alive \cap (DOMAIN shown[p] \cup DOMAIN b.sets)
      BY <1>2, <2>5
    <3>5. \A s : (IF s \in DOMAIN news THEN news[s] ELSE shown[p][s])
                   = (IF s \in DOMAIN b.sets THEN b.sets[s] ELSE shown[p][s])
      BY <2>5
    <3> HIDE DEF gone
    <3> QED
      BY <3>2, <3>3, <3>4, <3>5
  <2> QED
    BY <1>3, <1>7, <2>3, <2>6, <2>7
<1> QED
  BY <1>4, <1>6, <1>7, <1>8, <1>9, <1>10, <1>11 DEF InOrderInv

\* The client goes on with the packet that it decodes.
LEMMA InOrderDecodes == ASSUME InOrderInv, Decode PROVE InOrderInv'
<1>1. Client!ProcessFrame /\ UNCHANGED <<frameSpecVars, net, starts>>
  BY DEF Decode
<1>2. /\ ClientOK' /\ NewsTaken'
      /\ \A p \in Profiles : Prospect(p)' = Prospect(p)
  BY <1>1, DecodeStep DEF InOrderInv
<1>3. shownFrame' = shownFrame
  BY <1>1 DEF Client!ProcessFrame, Client!ProcessNews, Client!ProcessGone,
     Client!Refresh
<1>4. FramesInv' /\ ListsTaken' /\ PacketsOK' /\ Numbered'
  BY <1>1, <1>3 DEF InOrderInv, FramesInv, ListsTaken, frameSpecVars, vars, TypeOK,
     IsList, OnlyNewsUntold, Touched, PacketsOK, Numbered
<1>5. \A p \in Profiles : Path(p, Prospect(p)', net', told'[p])
  BY <1>1, <1>2 DEF InOrderInv, frameSpecVars
<1> QED
  BY <1>1, <1>2, <1>4, <1>5 DEF InOrderInv

LEMMA InOrderStep ==
  ASSUME ~Lossy, ~Overtaking, MaxStarts <= 1, ExternalProfiles = {},
         InOrderInv, [SystemNext]_systemVars
  PROVE  InOrderInv'
<1>1. CASE UNCHANGED systemVars
  <2>1. UNCHANGED frameSpecVars /\ UNCHANGED clientVars /\ UNCHANGED <<net, starts>>
    BY <1>1 DEF systemVars
  <2>2. FramesInv' /\ ListsTaken'
    BY <2>1, FramesStep DEF InOrderInv, ListsTaken, frameSpecVars, vars
  <2>3. ClientOK' /\ NewsTaken' /\ \A p \in Profiles : Prospect(p)' = Prospect(p)
    BY <2>1 DEF InOrderInv, clientVars, ClientOK, NewsTaken, Prospect, Left,
       Client!Rest, Client!EmptyMap
  <2>4. currentFrame' = currentFrame /\ told' = told /\ shownFrame' = shownFrame
    BY <2>1 DEF frameSpecVars, vars, clientVars
  <2>5. PacketsOK' /\ Numbered'
    BY <2>1, <2>4 DEF InOrderInv, PacketsOK, Numbered
  <2> QED
    BY <2>1, <2>2, <2>3, <2>4, <2>5 DEF InOrderInv
<1>2. CASE ServerStep \/ PeriodicMessage
  <2>1. FramesNext /\ Send /\ starts' = starts
    BY <1>2 DEF ServerStep, PeriodicMessage
  <2> QED
    BY <2>1, InOrderSends
<1>3. ~Restart
  BY SystemAssumption DEF Restart, InOrderInv
<1>4. CASE Arrival
  BY <1>4, InOrderArrives DEF Arrival
<1>5. ~Loss
  BY DEF Loss, Lose
<1>6. CASE Decode
  BY <1>6, InOrderDecodes
<1> QED
  BY <1>1, <1>2, <1>3, <1>4, <1>5, <1>6 DEF SystemNext

(***************************************************************************)
(* Without loss and in order, and with one server that makes all the       *)
(* containers itself, the client shows exactly what the server has as soon *)
(* as a frame is committed and everything under way has arrived.           *)
(***************************************************************************)
THEOREM ClientShowsServerInOrder ==
  ASSUME ~Lossy, ~Overtaking, MaxStarts <= 1, ExternalProfiles = {}
  PROVE  SystemSpec => []ClientShowsServer
<1>1. InOrderInv => ClientShowsServer
  <2> SUFFICES ASSUME InOrderInv, Settled, NEW p \in Profiles
               PROVE  shown[p] = Contents(list[p])
    BY DEF ClientShowsServer
  <2>1. connected /\ ~inFrame /\ net = <<>> /\ decoding = Client!Rest
    BY DEF Settled, Client!Idle
  <2>2. Prospect(p) = shown[p]
    BY <2>1, ProspectAtRest DEF InOrderInv
  <2>3. shown[p] = told[p]
    BY <2>1, <2>2, PathEnd DEF InOrderInv
  <2>4. told[p] = Contents(list[p])
    BY <2>1, BetweenFramesExact DEF InOrderInv
  <2> QED
    BY <2>3, <2>4
<1>2. InOrderInv /\ [SystemNext]_systemVars => InOrderInv'
  BY InOrderStep
<1> QED
  BY <1>1, <1>2, InOrderInit, PTL DEF SystemSpec

-----------------------------------------------------------------------------
(***************************************************************************)
(* Whatever is lost, with packets of one profile overtaking those of the   *)
(* other but not one another: a session is alive in consecutive packets of *)
(* its profile, so that one that the listener met and that was dropped     *)
(* since never comes again.                                                *)
(***************************************************************************)
\* The sessions that the listener met, or will have when the client is
\* through with the packet it decodes.
Met(p) == met[p] \cup DOMAIN Left(p).news

PacketsFor(p) == {i \in DOMAIN net : net[i].profile = p}

\* What is not in A any more is not in B either.
NeverIn(dropped, B) == dropped \cap B = {}

MetInv(p) ==
  /\ DOMAIN shown[p] \subseteq met[p]
  /\ met[p] \cap DOMAIN Left(p).news \subseteq DOMAIN shown[p]
  /\ Met(p) \subseteq 0..sessionID
  /\ \A k \in PacketsFor(p) : net[k].alive \subseteq 0..sessionID

\* For every packet that is still to come: what was met and is not shown, or
\* was alive in an earlier packet and is not in a later one, is not in it.
DroppedInNet(p) ==
  /\ \A k \in PacketsFor(p) : NeverIn(Met(p) \ DOMAIN Prospect(p), net[k].alive)
  /\ \A j, k \in PacketsFor(p) :
       j < k => NeverIn(Met(p) \ net[j].alive, net[k].alive)
  /\ \A i, j, k \in PacketsFor(p) :
       i < j /\ j < k => NeverIn(net[i].alive \ net[j].alive, net[k].alive)

\* The same for what the server will still send.
DroppedInList(p) ==
  connected =>
    /\ NeverIn(Met(p) \ DOMAIN Prospect(p), DOMAIN list[p])
    /\ \A j \in PacketsFor(p) : NeverIn(Met(p) \ net[j].alive, DOMAIN list[p])
    /\ \A i, j \in PacketsFor(p) :
         i < j => NeverIn(net[i].alive \ net[j].alive, DOMAIN list[p])

\* The inductive invariant.
MetOnceInv ==
  /\ starts \in Nat \ {0}
  /\ FramesInv
  /\ ClientOK
  /\ PacketsOK
  /\ met = [p \in Profiles |-> met[p]]
  /\ \A p \in Profiles : MetInv(p) /\ DroppedInNet(p) /\ DroppedInList(p)

LEMMA MetOnceInit == SystemInit => MetOnceInv
<1> SUFFICES ASSUME SystemInit PROVE MetOnceInv
  OBVIOUS
<1>1. FramesInv /\ ClientOK /\ decoding = Client!Rest
  BY FramesInit_Inv, ClientStarts DEF SystemInit
<1>2. PacketsOK /\ \A i \in DOMAIN net : net[i].alive = {}
  BY NetStarts
<1>3. /\ met = [p \in Profiles |-> {}] /\ starts = 1
      /\ \A p \in Profiles : DOMAIN shown[p] = {}
  BY DEF SystemInit, EmptyMap
<1>4. \A p \in Profiles : Met(p) = {} /\ met[p] = {} /\ DOMAIN Left(p).news = {}
  BY <1>1, <1>3, RestIs DEF Met, Left
<1>5. \A p \in Profiles : MetInv(p)
  BY <1>2, <1>3, <1>4 DEF MetInv, PacketsFor
<1>6. \A p \in Profiles : DroppedInNet(p) /\ DroppedInList(p)
  BY <1>2, <1>4 DEF DroppedInNet, DroppedInList, NeverIn, PacketsFor
<1> QED
  BY <1>1, <1>2, <1>3, <1>5, <1>6 DEF MetOnceInv

\* No session comes to a list but a new one.
LEMMA OnlyNewSessions ==
  ASSUME TypeOK, ExternalProfiles = {}, FramesNext
  PROVE  /\ \A p \in Profiles : DOMAIN list'[p] \subseteq DOMAIN list[p] \cup {sessionID + 1}
         /\ 0..sessionID \subseteq 0..sessionID'
         /\ sessionID + 1 \notin 0..sessionID
<1>1. sessionID \in Int /\ sessionID' \in Int /\ sessionID <= sessionID'
  BY SessionIdGrows
<1>2. SessionStep
  BY SessionSteps DEF FramesNext, Next
<1>3. ASSUME NEW p \in Profiles
      PROVE  DOMAIN list'[p] \subseteq DOMAIN list[p] \cup {sessionID + 1}
  <2>1. CASE SessionsStay \/ SessionGranted
    BY <2>1 DEF SessionsStay, SessionGranted
  <2>2. ASSUME NEW q \in Profiles, SessionEnters(q)
        PROVE  DOMAIN list'[p] \subseteq DOMAIN list[p] \cup {sessionID + 1}
    BY <2>2 DEF SessionEnters, OnlyIn
  <2>3. ASSUME NEW q \in Profiles, NEW s \in DOMAIN list[q], SessionLeaves(q, s)
        PROVE  DOMAIN list'[p] \subseteq DOMAIN list[p] \cup {sessionID + 1}
    BY <2>3 DEF SessionLeaves, OnlyIn
  <2>4. ASSUME NEW q \in Profiles, NEW s \in granted, ExternalEnters(q, s)
        PROVE  FALSE
    BY <2>4 DEF ExternalEnters
  <2>5. ASSUME NEW q \in Profiles, NEW s \in external, ExternalLeaves(q, s)
        PROVE  DOMAIN list'[p] \subseteq DOMAIN list[p] \cup {sessionID + 1}
    BY <2>5 DEF ExternalLeaves, OnlyIn
  <2> QED
    BY <1>2, <2>1, <2>2, <2>3, <2>4, <2>5 DEF SessionStep
<1> QED
  BY <1>1, <1>3

LEMMA MetOnceSends ==
  ASSUME MetOnceInv, ExternalProfiles = {}, FramesNext, Send, starts' = starts
  PROVE  MetOnceInv'
<1>0. TypeOK
  BY DEF MetOnceInv, FramesInv
<1>1. FramesInv'
  BY FramesStep DEF MetOnceInv
<1>2. /\ PacketsOK'
      /\ \A i \in DOMAIN net' : \/ i \in DOMAIN net /\ net'[i] = net[i]
                                \/ i \notin DOMAIN net /\ JustSent(i)
      /\ \A i \in DOMAIN net, j \in DOMAIN net' \ DOMAIN net : i < j
  BY NetGrows DEF MetOnceInv
<1>3. UNCHANGED <<clientVars, met>>
  BY DEF Send
<1>4. ClientOK' /\ \A p \in Profiles : /\ DOMAIN Prospect(p)' = DOMAIN Prospect(p)
                                       /\ Left(p)' = Left(p)
                                       /\ Met(p)' = Met(p)
                                       /\ shown'[p] = shown[p] /\ met'[p] = met[p]
  BY <1>3 DEF MetOnceInv, clientVars, ClientOK, Prospect, Left, Met,
     Client!Rest, Client!EmptyMap
<1>5. /\ \A p \in Profiles : DOMAIN list'[p] \subseteq DOMAIN list[p] \cup {sessionID + 1}
      /\ 0..sessionID \subseteq 0..sessionID'
      /\ sessionID + 1 \notin 0..sessionID
  BY <1>0, OnlyNewSessions
<1>6. \A p \in Profiles : DOMAIN list[p] \subseteq 0..sessionID
  BY <1>0 DEF TypeOK, IsList
<1>7. connected' => connected
  BY <1>0, ChangeMarks
  DEF FramesNext, BeginFrame, InitFrame, CommitFrame, Control, SendFullMessages,
      SetPeriodicMessages, SetFullUpdate, Destroy, sendVars, Idle
<1>8. DOMAIN net = 1..Len(net) /\ DOMAIN net' = 1..Len(net')
  BY <1>2, SeqIsFunction DEF MetOnceInv, PacketsOK
<1>9. ASSUME NEW p \in Profiles
      PROVE  /\ MetInv(p)' /\ DroppedInNet(p)' /\ DroppedInList(p)'
  <2> DEFINE Old == PacketsFor(p)
             New == PacketsFor(p)'
  <2>0. MetInv(p) /\ DroppedInNet(p) /\ DroppedInList(p)
    BY DEF MetOnceInv
  <2>1. \A k \in New :
          \/ /\ k \in Old /\ net'[k].alive = net[k].alive
          \/ /\ k \notin DOMAIN net
             /\ net'[k].alive = IF connected' THEN DOMAIN list[p] ELSE {}
             /\ connected /\ list' = list
    BY <1>2 DEF PacketsFor, JustSent
  <2>2. \A j \in New, k \in DOMAIN net : j < k => j \in Old /\ net'[j].alive = net[j].alive
    BY <1>2, <1>8, <2>1 DEF PacketsFor
  <2>3. Old \subseteq DOMAIN net
    BY DEF PacketsFor
  <2>4. MetInv(p)'
    BY <1>4, <1>5, <1>6, <2>0, <2>1 DEF MetInv
  <2> HIDE DEF Old, New
  <2>5. DroppedInNet(p)'
    <3>1. \A k \in New : NeverIn(Met(p) \ DOMAIN Prospect(p), net'[k].alive)
      BY <2>0, <2>1 DEF DroppedInNet, DroppedInList, NeverIn, Old
    <3>2. ASSUME NEW j \in New, NEW k \in New, j < k
          PROVE  NeverIn(Met(p) \ net'[j].alive, net'[k].alive)
      <4>1. CASE k \in Old /\ net'[k].alive = net[k].alive
        BY <2>0, <2>2, <2>3, <3>2, <4>1 DEF DroppedInNet, NeverIn, Old
      <4>2. CASE k \notin DOMAIN net
        BY <2>0, <2>1, <2>3, <3>2, <4>2 DEF DroppedInList, NeverIn, Old
      <4> QED
        BY <2>1, <4>1, <4>2
    <3>3. ASSUME NEW i \in New, NEW j \in New, NEW k \in New, i < j, j < k
          PROVE  NeverIn(net'[i].alive \ net'[j].alive, net'[k].alive)
      <4>1. CASE k \in Old /\ net'[k].alive = net[k].alive
        <5>1. j \in Old /\ net'[j].alive = net[j].alive
          BY <2>2, <2>3, <3>3, <4>1
        <5>2. i \in Old /\ net'[i].alive = net[i].alive
          BY <2>2, <2>3, <3>3, <5>1
        <5> QED
          BY <2>0, <3>3, <4>1, <5>1, <5>2 DEF DroppedInNet, Old
      <4>2. CASE k \notin DOMAIN net
        <5>1. CASE j \notin DOMAIN net
          BY <2>1, <2>3, <4>2, <5>1 DEF NeverIn
        <5>2. CASE j \in DOMAIN net
          <6>1. j \in Old /\ net'[j].alive = net[j].alive
            BY <2>1, <5>2
          <6>2. i \in Old /\ net'[i].alive = net[i].alive
            BY <2>2, <3>3, <5>2
          <6> QED
            BY <2>0, <2>1, <2>3, <3>3, <4>2, <6>1, <6>2
            DEF DroppedInList, NeverIn, Old
        <5> QED
          BY <5>1, <5>2
      <4> QED
        BY <2>1, <4>1, <4>2
    <3> QED
      BY <1>4, <3>1, <3>2, <3>3 DEF DroppedInNet, New
  <2>6. DroppedInList(p)'
    <3> SUFFICES ASSUME connected'
                 PROVE  /\ NeverIn(Met(p) \ DOMAIN Prospect(p), DOMAIN list'[p])
                        /\ \A j \in New : NeverIn(Met(p) \ net'[j].alive, DOMAIN list'[p])
                        /\ \A i, j \in New :
                             i < j => NeverIn(net'[i].alive \ net'[j].alive,
                                              DOMAIN list'[p])
      BY <1>4 DEF DroppedInList, New
    <3>1. /\ NeverIn(Met(p) \ DOMAIN Prospect(p), DOMAIN list[p])
          /\ \A j \in Old : NeverIn(Met(p) \ net[j].alive, DOMAIN list[p])
          /\ \A i, j \in Old :
               i < j => NeverIn(net[i].alive \ net[j].alive, DOMAIN list[p])
      BY <1>7, <2>0 DEF DroppedInList, Old
    <3>2. /\ sessionID + 1 \notin Met(p)
          /\ \A i \in Old : sessionID + 1 \notin net[i].alive
      BY <1>5, <2>0 DEF MetInv, Old
    <3>3. DOMAIN list'[p] \subseteq DOMAIN list[p] \cup {sessionID + 1}
      BY <1>5
    <3>4. NeverIn(Met(p) \ DOMAIN Prospect(p), DOMAIN list'[p])
      BY <3>1, <3>2, <3>3 DEF NeverIn
    <3>5. ASSUME NEW j \in New PROVE NeverIn(Met(p) \ net'[j].alive, DOMAIN list'[p])
      BY <2>1, <3>1, <3>2, <3>3 DEF NeverIn
    <3>6. ASSUME NEW i \in New, NEW j \in New, i < j
          PROVE  NeverIn(net'[i].alive \ net'[j].alive, DOMAIN list'[p])
      <4>1. CASE j \notin DOMAIN net
        BY <2>1, <2>3, <4>1 DEF NeverIn
      <4>2. CASE j \in DOMAIN net
        <5>1. j \in Old /\ net'[j].alive = net[j].alive
          BY <2>1, <4>2
        <5>2. i \in Old /\ net'[i].alive = net[i].alive
          BY <2>2, <3>6, <4>2
        <5> QED
          BY <3>1, <3>2, <3>3, <3>6, <5>1, <5>2 DEF NeverIn
      <4> QED
        BY <4>1, <4>2
    <3> QED
      BY <3>4, <3>5, <3>6
  <2> QED
    BY <2>4, <2>5, <2>6
<1>10. met' = [p \in Profiles |-> met'[p]] /\ starts' \in Nat \ {0}
  BY <1>3 DEF MetOnceInv
<1> QED
  BY <1>1, <1>2, <1>4, <1>9, <1>10 DEF MetOnceInv

\* A packet of those for p that may arrive is the first one of them.
LEMMA MetOnceArrives ==
  ASSUME MetOnceInv, NEW h \in DOMAIN net, Deliver(h)
  PROVE  MetOnceInv'
<1>b. PICK b : b = net[h]
  OBVIOUS
<1>r. PICK r \in Profiles : r = b.profile
  BY <1>b DEF MetOnceInv, PacketsOK
<1>1. /\ h \in Arriving /\ Client!Receive(b) /\ net' = RemoveAt(net, h)
      /\ UNCHANGED <<frameSpecVars, met, starts>>
      /\ b.profile = r /\ DOMAIN b.sets \subseteq b.alive
  BY <1>b, <1>r DEF Deliver, MetOnceInv, PacketsOK
<1>2. FramesInv'
  BY <1>1, FramesStep DEF MetOnceInv
<1>3. /\ currentFrame' = currentFrame /\ list' = list /\ sessionID' = sessionID
      /\ connected' = connected /\ met' = met /\ starts' = starts
  BY <1>1 DEF frameSpecVars, vars
<1>4. /\ PacketsOK'
      /\ \A j \in DOMAIN net' : /\ Before(h, j) \in DOMAIN net
                                /\ Before(h, j) # h
                                /\ net'[j] = net[Before(h, j)]
      /\ \A j, k \in DOMAIN net' : j < k => Before(h, j) < Before(h, k)
  BY <1>1, <1>3, NetShrinks DEF MetOnceInv
<1>5. /\ decoding = Client!Rest /\ ClientOK'
      /\ shown' = shown
      /\ \A q \in Profiles \ {r} : Left(q)' = Left(q) /\ Prospect(q)' = Prospect(q)
      /\ \/ decoding' = decoding
         \/ decoding' = [profile |-> r,
                         news    |-> [s \in Client!News(b) |-> b.sets[s]],
                         gone    |-> DOMAIN shown[r] \ b.alive]
  BY <1>1, ReceiveStep DEF MetOnceInv
<1>6. \A p \in Profiles : Left(p) = Client!Rest /\ Prospect(p) = shown[p]
                          /\ Met(p) = met[p]
  BY <1>5, ProspectAtRest, RestIs DEF MetOnceInv, Met
<1>7. DOMAIN net = 1..Len(net) /\ Len(net) \in Nat /\ DOMAIN net' \subseteq Int
  BY <1>4, SeqIsFunction DEF MetOnceInv, PacketsOK
<1>8. ASSUME NEW p \in Profiles
      PROVE  /\ \A k \in PacketsFor(p)' : /\ Before(h, k) \in PacketsFor(p)
                                          /\ net'[k].alive = net[Before(h, k)].alive
             /\ \A j, k \in PacketsFor(p)' : j < k => Before(h, j) < Before(h, k)
  BY <1>4 DEF PacketsFor
<1>9. ASSUME NEW p \in Profiles PROVE MetInv(p) /\ DroppedInNet(p) /\ DroppedInList(p)
  BY DEF MetOnceInv
<1>10. ASSUME NEW p \in Profiles,
              Met(p)' = Met(p), DOMAIN Prospect(p)' = DOMAIN Prospect(p),
              DOMAIN Left(p)'.news = DOMAIN Left(p).news
       PROVE  MetInv(p)' /\ DroppedInNet(p)' /\ DroppedInList(p)'
  <2>1. MetInv(p)'
    BY <1>3, <1>5, <1>8, <1>9, <1>10 DEF MetInv
  <2>2. DroppedInNet(p)'
    BY <1>8, <1>9, <1>10 DEF DroppedInNet
  <2>3. DroppedInList(p)'
    BY <1>3, <1>8, <1>9, <1>10 DEF DroppedInList
  <2> QED
    BY <2>1, <2>2, <2>3
<1>11. ASSUME NEW p \in Profiles, p # r \/ decoding' = decoding
       PROVE  MetInv(p)' /\ DroppedInNet(p)' /\ DroppedInList(p)'
  <2>1. Left(p)' = Left(p) /\ Prospect(p)' = Prospect(p)
    BY <1>5, <1>11 DEF Left, Prospect, Client!Rest, Client!EmptyMap
  <2>2. Met(p)' = Met(p)
    BY <1>3, <2>1 DEF Met
  <2> QED
    BY <1>10, <2>1, <2>2
<1>12. ASSUME decoding' = [profile |-> r,
                           news    |-> [s \in Client!News(b) |-> b.sets[s]],
                           gone    |-> DOMAIN shown[r] \ b.alive]
       PROVE  MetInv(r)' /\ DroppedInNet(r)' /\ DroppedInList(r)'
  <2> DEFINE News == Client!News(b)
  <2>1. News \subseteq b.alive
    BY <1>1 DEF Client!News
  <2>2. /\ DOMAIN decoding'.news = News /\ decoding'.profile = r
        /\ decoding'.gone = DOMAIN shown[r] \ b.alive
    BY <1>12
  <2> HIDE DEF News
  <2>3. Left(r)' = decoding'
    BY <2>2 DEF Left
  <2>4. DOMAIN Left(r)'.news = News /\ Met(r)' = met[r] \cup News
    BY <1>3, <2>2, <2>3 DEF Met
  <2>5. DOMAIN Prospect(r)' = (DOMAIN shown[r] \cap b.alive) \cup News
    BY <1>5, <2>1, <2>2, <2>3 DEF Prospect
  <2>6. /\ DOMAIN shown[r] \subseteq met[r]
        /\ met[r] \subseteq 0..sessionID
        /\ \A k \in PacketsFor(r) : net[k].alive \subseteq 0..sessionID
    BY <1>6, <1>9 DEF MetInv
  <2>7. /\ \A k \in PacketsFor(r) : NeverIn(met[r] \ DOMAIN shown[r], net[k].alive)
        /\ \A j, k \in PacketsFor(r) :
             j < k => NeverIn(met[r] \ net[j].alive, net[k].alive)
        /\ \A i, j, k \in PacketsFor(r) :
             i < j /\ j < k => NeverIn(net[i].alive \ net[j].alive, net[k].alive)
    BY <1>6, <1>9 DEF DroppedInNet
  <2>8. connected =>
          /\ NeverIn(met[r] \ DOMAIN shown[r], DOMAIN list[r])
          /\ \A j \in PacketsFor(r) : NeverIn(met[r] \ net[j].alive, DOMAIN list[r])
          /\ \A i, j \in PacketsFor(r) :
               i < j => NeverIn(net[i].alive \ net[j].alive, DOMAIN list[r])
    BY <1>6, <1>9 DEF DroppedInList
  <2>9. h \in PacketsFor(r) /\ net[h].alive = b.alive
    BY <1>b, <1>1 DEF PacketsFor
  <2>10. \A k \in PacketsFor(r)' : h < Before(h, k)
    <3> TAKE k \in PacketsFor(r)'
    <3>1. Before(h, k) \in DOMAIN net /\ net[Before(h, k)].profile = r
          /\ Before(h, k) # h
      BY <1>4, <1>8 DEF PacketsFor
    <3>2. ~(Before(h, k) < h)
      BY <1>b, <1>1, <1>7, <3>1 DEF Arriving
    <3> QED
      BY <1>7, <3>1, <3>2
  <2>11. MetInv(r)'
    <3>1. NeverIn(met[r] \ DOMAIN shown[r], b.alive)
      BY <2>7, <2>9
    <3>2. met'[r] \cap News \subseteq DOMAIN shown'[r]
      BY <1>3, <1>5, <2>1, <3>1 DEF NeverIn
    <3>3. Met(r)' \subseteq 0..sessionID'
      BY <1>3, <2>1, <2>4, <2>6, <2>9
    <3>4. \A k \in PacketsFor(r)' : net'[k].alive \subseteq 0..sessionID'
      BY <1>3, <1>8, <2>6
    <3> QED
      BY <1>3, <1>5, <2>4, <2>6, <3>2, <3>3, <3>4 DEF MetInv
  <2>12. DroppedInNet(r)'
    <3>1. ASSUME NEW k \in PacketsFor(r)'
          PROVE  NeverIn(Met(r)' \ DOMAIN Prospect(r)', net'[k].alive)
      <4>1. /\ NeverIn(met[r] \ DOMAIN shown[r], net'[k].alive)
            /\ NeverIn(met[r] \ b.alive, net'[k].alive)
        BY <1>8, <2>7, <2>9, <2>10
      <4> QED
        BY <2>4, <2>5, <4>1 DEF NeverIn
    <3>2. ASSUME NEW j \in PacketsFor(r)', NEW k \in PacketsFor(r)', j < k
          PROVE  NeverIn(Met(r)' \ net'[j].alive, net'[k].alive)
      <4>1. /\ NeverIn(met[r] \ net'[j].alive, net'[k].alive)
            /\ NeverIn(b.alive \ net'[j].alive, net'[k].alive)
        BY <1>8, <2>7, <2>9, <2>10, <3>2
      <4> QED
        BY <2>1, <2>4, <4>1 DEF NeverIn
    <3>3. \A i, j, k \in PacketsFor(r)' :
            i < j /\ j < k => NeverIn(net'[i].alive \ net'[j].alive, net'[k].alive)
      BY <1>8, <2>7
    <3> QED
      BY <3>1, <3>2, <3>3 DEF DroppedInNet
  <2>13. DroppedInList(r)'
    <3> SUFFICES ASSUME connected
                 PROVE  /\ NeverIn(Met(r)' \ DOMAIN Prospect(r)', DOMAIN list[r])
                        /\ \A j \in PacketsFor(r)' :
                             NeverIn(Met(r)' \ net'[j].alive, DOMAIN list[r])
                        /\ \A i, j \in PacketsFor(r)' :
                             i < j => NeverIn(net'[i].alive \ net'[j].alive, DOMAIN list[r])
      BY <1>3 DEF DroppedInList
    <3>1. NeverIn(Met(r)' \ DOMAIN Prospect(r)', DOMAIN list[r])
      <4>1. /\ NeverIn(met[r] \ DOMAIN shown[r], DOMAIN list[r])
            /\ NeverIn(met[r] \ b.alive, DOMAIN list[r])
        BY <2>8, <2>9
      <4> QED
        BY <2>4, <2>5, <4>1 DEF NeverIn
    <3>2. ASSUME NEW j \in PacketsFor(r)'
          PROVE  NeverIn(Met(r)' \ net'[j].alive, DOMAIN list[r])
      <4>1. /\ NeverIn(met[r] \ net'[j].alive, DOMAIN list[r])
            /\ NeverIn(b.alive \ net'[j].alive, DOMAIN list[r])
        BY <1>8, <2>8, <2>9, <2>10
      <4> QED
        BY <2>1, <2>4, <4>1 DEF NeverIn
    <3>3. \A i, j \in PacketsFor(r)' :
            i < j => NeverIn(net'[i].alive \ net'[j].alive, DOMAIN list[r])
      BY <1>8, <2>8
    <3> QED
      BY <3>1, <3>2, <3>3
  <2> QED
    BY <2>11, <2>12, <2>13
<1>13. \A p \in Profiles : MetInv(p)' /\ DroppedInNet(p)' /\ DroppedInList(p)'
  BY <1>5, <1>11, <1>12
<1> QED
  BY <1>2, <1>3, <1>4, <1>5, <1>13 DEF MetOnceInv

\* The loss of a packet.
LEMMA MetOnceLoses ==
  ASSUME MetOnceInv, NEW h \in DOMAIN net, Lose(h)
  PROVE  MetOnceInv'
<1>1. /\ net' = RemoveAt(net, h)
      /\ UNCHANGED <<frameSpecVars, clientVars, met, starts>>
  BY DEF Lose
<1>2. FramesInv'
  BY <1>1, FramesStep DEF MetOnceInv
<1>3. /\ currentFrame' = currentFrame /\ list' = list /\ sessionID' = sessionID
      /\ connected' = connected /\ met' = met /\ starts' = starts
  BY <1>1 DEF frameSpecVars, vars
<1>4. /\ PacketsOK'
      /\ \A j \in DOMAIN net' : /\ Before(h, j) \in DOMAIN net
                                /\ net'[j] = net[Before(h, j)]
      /\ \A j, k \in DOMAIN net' : j < k => Before(h, j) < Before(h, k)
  BY <1>1, <1>3, NetShrinks DEF MetOnceInv
<1>5. ClientOK' /\ \A p \in Profiles : /\ DOMAIN Prospect(p)' = DOMAIN Prospect(p)
                                       /\ Left(p)' = Left(p)
                                       /\ Met(p)' = Met(p)
                                       /\ shown'[p] = shown[p] /\ met'[p] = met[p]
  BY <1>1 DEF MetOnceInv, clientVars, ClientOK, Prospect, Left, Met,
     Client!Rest, Client!EmptyMap
<1>6. ASSUME NEW p \in Profiles
      PROVE  MetInv(p)' /\ DroppedInNet(p)' /\ DroppedInList(p)'
  <2>1. /\ \A k \in PacketsFor(p)' : /\ Before(h, k) \in PacketsFor(p)
                                     /\ net'[k].alive = net[Before(h, k)].alive
        /\ \A j, k \in PacketsFor(p)' : j < k => Before(h, j) < Before(h, k)
    BY <1>4 DEF PacketsFor
  <2>2. MetInv(p) /\ DroppedInNet(p) /\ DroppedInList(p)
    BY DEF MetOnceInv
  <2>3. MetInv(p)'
    BY <1>3, <1>5, <2>1, <2>2 DEF MetInv
  <2>4. DroppedInNet(p)'
    BY <1>5, <2>1, <2>2 DEF DroppedInNet
  <2>5. DroppedInList(p)'
    BY <1>3, <1>5, <2>1, <2>2 DEF DroppedInList
  <2> QED
    BY <2>3, <2>4, <2>5
<1> QED
  BY <1>2, <1>3, <1>4, <1>5, <1>6 DEF MetOnceInv

\* What a step of the decoder does to what the listener met.
LEMMA DecoderMeets ==
  ASSUME MetOnceInv, Decode, NEW p \in Profiles
  PROVE  /\ DOMAIN shown'[p] \subseteq met'[p]
         /\ Met(p)' = Met(p)
         /\ met'[p] \cap DOMAIN Left(p)'.news \subseteq DOMAIN shown'[p]
         /\ (DOMAIN heard'[p] \ DOMAIN heard[p]) \cap met[p] = {}
<1>1. /\ Client!ProcessFrame
      /\ met'[p] = met[p] \cup DOMAIN heard'[p]
      /\ ClientOK /\ ClientOK' /\ MetInv(p)
  BY DecodeStep DEF Decode, MetOnceInv
<1>2. heard = shown /\ heard' = shown'
  BY <1>1 DEF ClientOK
<1>3. /\ DOMAIN shown[p] \subseteq met[p]
      /\ met[p] \cap DOMAIN Left(p).news \subseteq DOMAIN shown[p]
  BY <1>1 DEF MetInv
<1> DEFINE Goal == /\ DOMAIN shown'[p] \subseteq met'[p]
                   /\ Met(p)' = Met(p)
                   /\ met'[p] \cap DOMAIN Left(p)'.news \subseteq DOMAIN shown'[p]
                   /\ (DOMAIN heard'[p] \ DOMAIN heard[p]) \cap met[p] = {}
<1>4. ASSUME shown'[p] = shown[p], DOMAIN Left(p)'.news = DOMAIN Left(p).news
      PROVE  Goal
  BY <1>1, <1>2, <1>3, <1>4 DEF Met
<1>5. ASSUME NEW s \in Sessions, Client!ProcessNews(s) PROVE Goal
  <2>1. /\ decoding.profile \in Profiles
        /\ s \in DOMAIN decoding.news
        /\ decoding'.profile = decoding.profile
        /\ decoding'.news = Without(decoding.news, {s})
        /\ \E c : shown' = [shown EXCEPT ![decoding.profile] = With(@, s, c)]
    BY <1>1, <1>5, NewsStep
  <2>2. CASE p # decoding.profile
    <3>1. shown'[p] = shown[p]
      BY <1>1, <2>1, <2>2 DEF ClientOK
    <3>2. Left(p)' = Left(p)
      BY <2>1, <2>2 DEF Left, Client!Rest, Client!EmptyMap
    <3> QED
      BY <1>4, <3>1, <3>2
  <2>3. CASE p = decoding.profile
    <3>1. PICK c : shown'[p] = With(shown[p], s, c)
      BY <1>1, <2>1, <2>3 DEF ClientOK
    <3>2. DOMAIN shown'[p] = DOMAIN shown[p] \cup {s}
      BY <3>1 DEF With
    <3>3. Left(p) = decoding /\ Left(p)' = decoding'
      BY <2>1, <2>3 DEF Left
    <3>4. DOMAIN Left(p)'.news = DOMAIN Left(p).news \ {s} /\ s \in DOMAIN Left(p).news
      BY <2>1, <3>3 DEF Without
    <3> QED
      BY <1>1, <1>2, <1>3, <3>2, <3>4 DEF Met
  <2> QED
    BY <2>2, <2>3
<1>6. ASSUME NEW s \in Sessions, Client!ProcessGone(s) PROVE Goal
  <2>1. /\ decoding.profile \in Profiles
        /\ DOMAIN decoding.news = {}
        /\ decoding'.profile = decoding.profile
        /\ decoding'.news = decoding.news
        /\ shown' = [shown EXCEPT ![decoding.profile] = Without(@, {s})]
    BY <1>1, <1>6, GoneStep
  <2>2. DOMAIN Left(p)'.news = DOMAIN Left(p).news /\ DOMAIN Left(p)'.news = {}
    BY <2>1, RestIs DEF Left, Client!Rest, Client!EmptyMap
  <2>3. DOMAIN shown'[p] \subseteq DOMAIN shown[p]
    BY <1>1, <2>1 DEF ClientOK, Without
  <2> QED
    BY <1>1, <1>2, <1>3, <2>2, <2>3 DEF Met
<1>7. CASE Client!Refresh
  <2>1. DOMAIN decoding.news = {} /\ decoding' = Client!Rest /\ shown' = shown
    BY <1>7 DEF Client!Refresh
  <2>2. DOMAIN Left(p)'.news = DOMAIN Left(p).news
    BY <2>1, RestIs DEF Left, Client!Rest, Client!EmptyMap
  <2> QED
    BY <1>4, <2>1, <2>2
<1> QED
  BY <1>1, <1>5, <1>6, <1>7 DEF Client!ProcessFrame

LEMMA MetOnceDecodes == ASSUME MetOnceInv, Decode PROVE MetOnceInv'
<1>1. /\ Client!ProcessFrame /\ UNCHANGED <<frameSpecVars, net, starts>>
      /\ met' = [p \in Profiles |-> met[p] \cup DOMAIN heard'[p]]
  BY DEF Decode
<1>2. ClientOK' /\ \A p \in Profiles : DOMAIN Prospect(p)' = DOMAIN Prospect(p)
  BY <1>1, DecodeStep DEF MetOnceInv
<1>3. FramesInv'
  BY <1>1, FramesStep DEF MetOnceInv
<1>4. /\ currentFrame' = currentFrame /\ list' = list /\ sessionID' = sessionID
      /\ connected' = connected /\ net' = net /\ starts' = starts
  BY <1>1 DEF frameSpecVars, vars
<1>5. PacketsOK' /\ met' = [p \in Profiles |-> met'[p]]
  BY <1>1, <1>4 DEF MetOnceInv, PacketsOK
<1>6. ASSUME NEW p \in Profiles
      PROVE  MetInv(p)' /\ DroppedInNet(p)' /\ DroppedInList(p)'
  <2>1. MetInv(p) /\ DroppedInNet(p) /\ DroppedInList(p)
    BY DEF MetOnceInv
  <2>2. PacketsFor(p)' = PacketsFor(p)
    BY <1>4 DEF PacketsFor
  <2>3. MetInv(p)'
    BY <1>4, <2>1, <2>2, DecoderMeets DEF MetInv
  <2>4. DroppedInNet(p)'
    BY <1>2, <1>4, <2>1, <2>2, DecoderMeets DEF DroppedInNet
  <2>5. DroppedInList(p)'
    BY <1>2, <1>4, <2>1, <2>2, DecoderMeets DEF DroppedInList
  <2> QED
    BY <2>3, <2>4, <2>5
<1> QED
  BY <1>2, <1>3, <1>4, <1>5, <1>6 DEF MetOnceInv

LEMMA MetOnceStep ==
  ASSUME MaxStarts <= 1, ExternalProfiles = {}, MetOnceInv, [SystemNext]_systemVars
  PROVE  /\ MetOnceInv'
         /\ \A p \in Profiles : (DOMAIN heard'[p] \ DOMAIN heard[p]) \cap met[p] = {}
<1>1. CASE UNCHANGED systemVars
  <2>1. UNCHANGED frameSpecVars /\ UNCHANGED clientVars /\ UNCHANGED <<net, met, starts>>
    BY <1>1 DEF systemVars
  <2>2. FramesInv'
    BY <2>1, FramesStep DEF MetOnceInv
  <2>3. ClientOK' /\ heard' = heard
        /\ \A p \in Profiles : /\ DOMAIN Prospect(p)' = DOMAIN Prospect(p)
                               /\ Left(p)' = Left(p) /\ Met(p)' = Met(p)
                               /\ shown'[p] = shown[p] /\ met'[p] = met[p]
    BY <2>1 DEF MetOnceInv, clientVars, ClientOK, Prospect, Left, Met,
       Client!Rest, Client!EmptyMap
  <2>4. /\ currentFrame' = currentFrame /\ list' = list /\ sessionID' = sessionID
        /\ connected' = connected /\ net' = net /\ met' = met /\ starts' = starts
    BY <2>1 DEF frameSpecVars, vars
  <2>5. PacketsOK' /\ \A p \in Profiles : PacketsFor(p)' = PacketsFor(p)
    BY <2>4 DEF MetOnceInv, PacketsOK, PacketsFor
  <2>6. ASSUME NEW p \in Profiles
        PROVE  MetInv(p)' /\ DroppedInNet(p)' /\ DroppedInList(p)'
    <3>1. MetInv(p) /\ DroppedInNet(p) /\ DroppedInList(p)
      BY DEF MetOnceInv
    <3> QED
      BY <2>3, <2>4, <2>5, <3>1 DEF MetInv, DroppedInNet, DroppedInList
  <2> QED
    BY <2>2, <2>3, <2>4, <2>5, <2>6 DEF MetOnceInv
<1>2. CASE ServerStep \/ PeriodicMessage
  <2>1. FramesNext /\ Send /\ starts' = starts
    BY <1>2 DEF ServerStep, PeriodicMessage
  <2>2. heard' = heard
    BY <2>1 DEF Send, clientVars
  <2> QED
    BY <2>1, <2>2, MetOnceSends
<1>3. ~Restart
  BY SystemAssumption DEF Restart, MetOnceInv
<1>4. ASSUME NEW h \in DOMAIN net, Deliver(h)
      PROVE  MetOnceInv' /\ heard' = heard
  BY <1>4, MetOnceArrives DEF Deliver, Client!Receive
<1>5. ASSUME NEW h \in DOMAIN net, Lose(h)
      PROVE  MetOnceInv' /\ heard' = heard
  BY <1>5, MetOnceLoses DEF Lose, clientVars
<1>6. CASE Decode
  BY <1>6, MetOnceDecodes, DecoderMeets
<1> QED
  BY <1>1, <1>2, <1>3, <1>4, <1>5, <1>6 DEF SystemNext, Arrival, Loss

(***************************************************************************)
(* Packets of one profile arrive in order, whatever else the network loses *)
(* or lets overtake (Arriving): then a listener meets a session of one     *)
(* server that makes all the containers itself only once; one that it was  *)
(* told to remove is never added again.                                    *)
(***************************************************************************)
THEOREM SessionsNeverReturn ==
  ASSUME MaxStarts <= 1, ExternalProfiles = {}
  PROVE  SystemSpec => NoSessionReturns
<1>1. MetOnceInv /\ [SystemNext]_systemVars => MetOnceInv'
  BY MetOnceStep
<1>2. MetOnceInv /\ [SystemNext]_systemVars =>
        [\A p \in Profiles : (DOMAIN heard'[p] \ DOMAIN heard[p]) \cap met[p] = {}]_heard
  BY MetOnceStep
<1> QED
  BY <1>1, <1>2, MetOnceInit, PTL DEF SystemSpec, NoSessionReturns

-----------------------------------------------------------------------------
(***************************************************************************)
(* The server in the system: what was shown of one server holds over any   *)
(* number of servers that follow one another, and whatever the network     *)
(* does.                                                                   *)
(***************************************************************************)
ServersInv == FramesInv /\ IdsInv

\* A server that is started begins where every server begins.
LEMMA RestartBegins == Restart => FramesInit'
<1> SUFFICES ASSUME Restart PROVE FramesInit'
  OBVIOUS
<1>1. Init'
  BY DEF Restart, Init
<1> QED
  BY <1>1 DEF Restart, FramesInit

LEMMA ServersBegin == FramesInit => ServersInv
BY FramesInit_Inv, IdsInit DEF FramesInit, ServersInv

LEMMA ServersBeginAgain == FramesInit' => ServersInv'
BY ServersBegin, PTL

\* The steps of the system that are steps of a server.
LEMMA ServerSteps ==
  [SystemNext]_systemVars => [FramesNext]_frameSpecVars \/ Restart
BY DEF SystemNext, systemVars, ServerStep, PeriodicMessage, Arrival, Deliver, Loss, Lose,
   Decode

LEMMA ServersStep == ServersInv /\ [SystemNext]_systemVars => ServersInv'
<1> SUFFICES ASSUME ServersInv, [SystemNext]_systemVars PROVE ServersInv'
  OBVIOUS
<1>1. CASE [FramesNext]_frameSpecVars
  <2>1. FramesInv'
    BY <1>1, FramesStep DEF ServersInv
  <2>2. [Next]_vars
    BY <1>1 DEF FramesNext, frameSpecVars, Next
  <2> QED
    BY <2>1, <2>2, IdsStep DEF ServersInv
<1>2. CASE Restart
  BY <1>2, RestartBegins, ServersBeginAgain
<1> QED
  BY <1>1, <1>2, ServerSteps

(***************************************************************************)
(* Over any number of servers in one place: no session id and no cursor id *)
(* is in use twice at a time, and after commitFrame the messages have said *)
(* what the server has.                                                    *)
(***************************************************************************)
THEOREM ServersKeepPromises ==
  SystemSpec => [](SessionsUnique /\ CursorIdsConsistent /\ CommitTellsAll)
<1>1. SystemInit => ServersInv
  BY ServersBegin DEF SystemInit
<1>2. ServersInv => SessionsUnique /\ CursorIdsConsistent /\ CommitTellsAll
  BY BetweenFramesExact DEF ServersInv, IdsInv, CommitTellsAll
<1> QED
  BY <1>1, <1>2, ServersStep, PTL DEF SystemSpec

(***************************************************************************)
(* One server that is never started again takes no step in the system but  *)
(* those of TuioServerFrames.                                              *)
(***************************************************************************)
THEOREM ServerInSystem == ASSUME MaxStarts <= 1 PROVE SystemSpec => FramesSpec
<1> DEFINE Started == starts \in Nat \ {0}
<1>1. SystemInit => Started /\ FramesInit
  BY DEF SystemInit
<1>2. Started /\ [SystemNext]_systemVars => Started'
  BY DEF SystemNext, systemVars, ServerStep, Restart, PeriodicMessage, Arrival, Deliver,
     Loss, Lose, Decode
<1>3. Started => ~Restart
  BY SystemAssumption DEF Restart
<1>4. Started /\ [SystemNext]_systemVars => [FramesNext]_frameSpecVars
  BY <1>3, ServerSteps
<1> QED
  BY <1>1, <1>2, <1>4, PTL DEF SystemSpec, FramesSpec

-----------------------------------------------------------------------------
(***************************************************************************)
(* The client in the system: the packets are bundles as TuioClient expects *)
(* them, so that what was shown of it holds here.                          *)
(***************************************************************************)
Decoder == INSTANCE TuioClientProofs WITH
  FrameNumbers <- 0..MaxFrame,
  MaxConnects  <- 1,
  list         <- shown,
  pool         <- shownIds,
  currentFrame <- shownFrame,
  frame        <- decoding,
  connected    <- listening,
  known        <- heard

LEMMA DecoderConstants == Decoder!ClientAssumption
BY ServerAssumption, SystemAssumption DEF Decoder!ClientAssumption

BundlesIn(n) == \A i \in DOMAIN n : \E q \in Profiles : n[i] \in Decoder!Bundle(q)

\* One packet, as the decoder expects it.
LEMMA PacketIsBundle ==
  ASSUME NEW p \in Profiles, NEW A \in SUBSET Sessions, NEW S \in SUBSET A,
         NEW g \in [S -> Decoder!Content], NEW f \in -1..MaxFrame,
         NEW b, b = [profile |-> p, alive |-> A, sets |-> g, fseq |-> f]
  PROVE  b \in Decoder!Bundle(p)
<1>1. f \in Decoder!Fseqs
  BY ServerAssumption DEF Decoder!Fseqs
<1>2. g \in UNION {[T -> Decoder!Content] : T \in SUBSET A}
  OBVIOUS
<1>3. b \in [profile : {p}, alive : {A},
             sets : UNION {[T -> Decoder!Content] : T \in SUBSET A},
             fseq : Decoder!Fseqs]
  BY <1>1, <1>2
<1> QED
  BY <1>3 DEF Decoder!Bundle

LEMMA EmptyIsBundle ==
  ASSUME NEW p \in Profiles
  PROVE  IsSeq(EmptyBundle(p)) /\ BundlesIn(EmptyBundle(p))
<1> DEFINE b == [profile |-> p, alive |-> {}, sets |-> EmptyMap, fseq |-> -1]
<1>1. EmptyMap \in [{} -> Decoder!Content] /\ -1 \in -1..MaxFrame
  BY ServerAssumption DEF EmptyMap
<1>2. b \in Decoder!Bundle(p)
  BY <1>1, PacketIsBundle
<1>3. EmptyBundle(p) = <<b>>
  BY DEF EmptyBundle
<1> HIDE DEF b
<1>4. DOMAIN EmptyBundle(p) = {1} /\ EmptyBundle(p)[1] = b
  BY <1>3
<1> QED
  BY <1>2, <1>4, EmptyBundleIs DEF BundlesIn

LEMMA BundleIsBundle ==
  ASSUME TypeOK, NEW p \in Profiles, NEW S \in SUBSET DOMAIN list[p],
         NEW f \in -1..MaxFrame
  PROVE  Bundle(p, S, f) \in Decoder!Bundle(p)
<1> DEFINE A == DOMAIN list[p]
           g == [s \in S |-> Content(list[p][s])]
<1>1. A \in SUBSET Sessions
  <2>1. A \subseteq 0..sessionID /\ sessionID \in -1..MaxSession
    BY DEF TypeOK, IsList
  <2> QED
    BY <2>1, ServerAssumption DEF Sessions
<1>2. g \in [S -> Decoder!Content]
  <2>1. \A s \in A : list[p][s] \in Container
    BY DEF TypeOK, IsList
  <2>2. \A c \in Container : c.pos \in Positions /\ c.speed \in 0..MaxSpeed
    BY DEF Container
  <2>3. \A s \in S : Content(list[p][s]) \in Decoder!Content
    BY <2>1, <2>2 DEF Content, Decoder!Content
  <2> QED
    BY <2>3
<1>3. Bundle(p, S, f) = [profile |-> p, alive |-> A, sets |-> g, fseq |-> f]
  BY DEF Bundle
<1> HIDE DEF A, g
<1>4. S \in SUBSET A
  BY DEF A
<1> QED
  BY <1>1, <1>2, <1>3, <1>4, PacketIsBundle

\* Whatever the server sends are such packets.
LEMMA CallsSendBundles ==
  ASSUME FramesInv, FramesNext, NEW p \in Profiles
  PROVE  IsSeq(out'[p]) /\ BundlesIn(out'[p])
<1>1. Says(p) /\ TypeOK /\ IsSeq(out'[p])
  BY CallsSay, CallsSend DEF FramesInv
<1>2. CASE out'[p] = <<>>
  BY <1>1, <1>2 DEF BundlesIn
<1>3. ASSUME NEW S \in SUBSET DOMAIN list[p], NEW f \in {-1, currentFrame},
             out'[p] = Bundles(p, S, f)
      PROVE  BundlesIn(out'[p])
  <2>1. f \in -1..MaxFrame
    <3>1. currentFrame \in -1..MaxFrame
      BY <1>1 DEF TypeOK
    <3> QED
      BY <3>1, ServerAssumption
  <2>2. \A i \in DOMAIN out'[p] :
          \E T \in SUBSET DOMAIN list[p] : out'[p][i] = Bundle(p, T, f)
    <3> DEFINE m == LastPacket(p, S) + 1
               T(i) == {s \in S : PacketOf(S, s) = i - 1}
    <3>1. out'[p] = [i \in 1..m |-> Bundle(p, T(i), f)]
      BY <1>3 DEF Bundles
    <3>2. \A i : T(i) \in SUBSET DOMAIN list[p]
      OBVIOUS
    <3> HIDE DEF m, T
    <3> QED
      BY <3>1, <3>2
  <2> QED
    BY <1>1, <2>1, <2>2, BundleIsBundle DEF BundlesIn
<1>4. CASE out'[p] = EmptyBundle(p)
  BY <1>4, EmptyIsBundle
<1> QED
  BY <1>1, <1>2, <1>3, <1>4 DEF Says

LEMMA SentBundles ==
  ASSUME NEW n, NEW o, IsSeq(n), BundlesIn(n),
         \A q \in Profiles : IsSeq(o[q]) /\ BundlesIn(o[q])
  PROVE  IsSeq(n \o Sent(o)) /\ BundlesIn(n \o Sent(o))
<1> DEFINE a == IF "cur" \in Profiles THEN o["cur"] ELSE <<>>
           b == IF "obj" \in Profiles THEN o["obj"] ELSE <<>>
<1>1. Sent(o) = a \o b
  BY DEF Sent
<1>2. IsSeq(a) /\ BundlesIn(a) /\ IsSeq(b) /\ BundlesIn(b)
  <2>1. IsSeq(<<>>) /\ BundlesIn(<<>>)
    BY EmptyIsSeq DEF BundlesIn
  <2> QED
    BY <2>1
<1> HIDE DEF a, b
<1>3. ASSUME NEW x, NEW y, IsSeq(x), BundlesIn(x), IsSeq(y), BundlesIn(y)
      PROVE  IsSeq(x \o y) /\ BundlesIn(x \o y)
  <2>1. IsSeq(x \o y)
    BY <1>3, ConcatIsSeq
  <2>2. ASSUME NEW i \in DOMAIN (x \o y)
        PROVE  \E q \in Profiles : (x \o y)[i] \in Decoder!Bundle(q)
    <3>1. \/ i \in DOMAIN x /\ (x \o y)[i] = x[i]
          \/ i - Len(x) \in DOMAIN y /\ (x \o y)[i] = y[i - Len(x)]
      BY <1>3, ConcatElements
    <3> QED
      BY <1>3, <3>1 DEF BundlesIn
  <2> QED
    BY <2>1, <2>2 DEF BundlesIn
<1> QED
  BY <1>1, <1>2, <1>3

LEMMA RemovedBundles ==
  ASSUME NEW n, IsSeq(n), BundlesIn(n), NEW i \in DOMAIN n
  PROVE  IsSeq(RemoveAt(n, i)) /\ BundlesIn(RemoveAt(n, i))
<1>1. /\ IsSeq(RemoveAt(n, i)) /\ Len(RemoveAt(n, i)) = Len(n) - 1
      /\ \A j \in 1..Len(n) - 1 : RemoveAt(n, i)[j] = n[IF j < i THEN j ELSE j + 1]
  BY RemoveAtIsSeq
<1>2. /\ DOMAIN n = 1..Len(n) /\ Len(n) \in Nat
      /\ DOMAIN RemoveAt(n, i) = 1..Len(n) - 1
  BY <1>1, SeqIsFunction
<1>3. \A j \in 1..Len(n) - 1 : (IF j < i THEN j ELSE j + 1) \in DOMAIN n
  BY <1>2
<1> QED
  BY <1>1, <1>2, <1>3 DEF BundlesIn

-----------------------------------------------------------------------------
(***************************************************************************)
(* Client and Decoder are the same instance of TuioClient.                 *)
(***************************************************************************)
LEMMA SameReceive == ASSUME NEW b PROVE Client!Receive(b) <=> Decoder!Receive(b)
BY DEF Client!Receive, Decoder!Receive, Client!Idle, Decoder!Idle,
   Client!Late, Decoder!Late, Client!News, Decoder!News,
   Client!Rest, Decoder!Rest, Client!EmptyMap, Decoder!EmptyMap

LEMMA SameNews == ASSUME NEW s PROVE Client!ProcessNews(s) <=> Decoder!ProcessNews(s)
BY DEF Client!ProcessNews, Decoder!ProcessNews, Client!Added, Decoder!Added,
   Client!Updated, Decoder!Updated, Client!With, Decoder!With,
   Client!Without, Decoder!Without, Client!AddCursor, Decoder!AddCursor,
   Client!Reuses, Decoder!Reuses, Client!Cardinality, Decoder!Cardinality

LEMMA SameGone == ASSUME NEW s PROVE Client!ProcessGone(s) <=> Decoder!ProcessGone(s)
BY DEF Client!ProcessGone, Decoder!ProcessGone, Client!With, Decoder!With,
   Client!Without, Decoder!Without, Client!RemoveCursor, Decoder!RemoveCursor,
   Client!GreatestId, Decoder!GreatestId, Client!Greatest, Decoder!Greatest,
   Client!Ids, Decoder!Ids

LEMMA SameRest == Client!Rest = Decoder!Rest
BY DEF Client!Rest, Decoder!Rest, Client!EmptyMap, Decoder!EmptyMap

LEMMA SameFrame == Client!ProcessFrame <=> Decoder!ProcessFrame
<1>1. Client!Refresh <=> Decoder!Refresh
  BY SameRest DEF Client!Refresh, Decoder!Refresh
<1> QED
  BY <1>1, SameNews, SameGone DEF Client!ProcessFrame, Decoder!ProcessFrame

LEMMA SameBundles == ASSUME NEW p PROVE Client!Bundle(p) = Decoder!Bundle(p)
BY DEF Client!Bundle, Decoder!Bundle, Client!Content, Decoder!Content,
   Client!Fseqs, Decoder!Fseqs

LEMMA SamePromises ==
  /\ Client!TypeOK <=> Decoder!TypeOK
  /\ Client!CursorIdsConsistent <=> Decoder!CursorIdsConsistent
<1>1. Client!Content = Decoder!Content
  BY DEF Client!Content, Decoder!Content
<1>2. Client!IsPool(shownIds) <=> Decoder!IsPool(shownIds)
  BY DEF Client!IsPool, Decoder!IsPool
<1>3. Client!PoolConsistent(shownIds) <=> Decoder!PoolConsistent(shownIds)
  BY DEF Client!PoolConsistent, Decoder!PoolConsistent, Client!IsInjection,
     Decoder!IsInjection, Client!Ids, Decoder!Ids
<1>4. Client!TypeOK <=> Decoder!TypeOK
  BY <1>1, <1>2, SameRest DEF Client!TypeOK, Decoder!TypeOK
<1>5. Client!CursorIdsConsistent <=> Decoder!CursorIdsConsistent
  BY <1>3 DEF Client!CursorIdsConsistent, Decoder!CursorIdsConsistent
<1> QED
  BY <1>4, <1>5

-----------------------------------------------------------------------------
ReceiverInv ==
  /\ ServersInv
  /\ IsSeq(net) /\ BundlesIn(net)
  /\ Decoder!IInv /\ Decoder!ListenerKnows

LEMMA ReceiverInit == SystemInit => ReceiverInv
<1> SUFFICES ASSUME SystemInit PROVE ReceiverInv
  OBVIOUS
<1>1. ServersInv
  BY ServersBegin DEF SystemInit
<1>2. IsSeq(net) /\ BundlesIn(net)
  <2>1. net = Sent(out) /\ \A p \in Profiles : out[p] = EmptyBundle(p)
    BY DEF SystemInit, FramesInit, Init
  <2>2. \A p \in Profiles : IsSeq(out[p]) /\ BundlesIn(out[p])
    BY <2>1, EmptyIsBundle
  <2>3. IsSeq(<<>>) /\ BundlesIn(<<>>)
    BY EmptyIsSeq DEF BundlesIn
  <2>4. IsSeq(<<>> \o Sent(out)) /\ BundlesIn(<<>> \o Sent(out))
    BY <2>2, <2>3, SentBundles
  <2>5. IsSeq(Sent(out))
    BY NetStarts, <2>1 DEF PacketsOK
  <2>6. <<>> \o Sent(out) = Sent(out)
    BY <2>5, ConcatEmptySeq DEF IsSeq
  <2> QED
    BY <2>1, <2>4, <2>6
<1>3. /\ shown = [p \in Profiles |-> EmptyMap] /\ heard = shown
      /\ shownIds = EmptyPool /\ shownFrame = -1 /\ decoding = Decoder!Rest
      /\ listening = TRUE /\ connects = 1
  BY SameRest DEF SystemInit
<1>4. \A p \in Profiles : DOMAIN shown[p] = {} /\ shown[p] \in [{} -> Decoder!Content]
  BY <1>3 DEF EmptyMap
<1>5. Decoder!IsPool(shownIds) /\ DOMAIN shownIds.active = {} /\ DOMAIN shownIds.free = {}
  BY <1>3 DEF Decoder!IsPool, EmptyPool, EmptyMap
<1>6. decoding = [profile |-> decoding.profile, news |-> decoding.news,
                  gone |-> decoding.gone]
  BY <1>3 DEF Decoder!Rest
<1>7. Decoder!TypeOK
  BY <1>3, <1>4, <1>5, <1>6 DEF Decoder!TypeOK
<1>8. Decoder!IInv
  BY <1>5, <1>7 DEF Decoder!IInv, Decoder!CursorIdsConsistent, Decoder!FreeNamedByIds
<1>9. Decoder!ListenerKnows
  BY <1>3 DEF Decoder!ListenerKnows
<1> QED
  BY <1>1, <1>2, <1>8, <1>9 DEF ReceiverInv

\* A step of the system is one of the client, or leaves the client alone.
LEMMA ClientSteps ==
  ASSUME ReceiverInv, [SystemNext]_systemVars
  PROVE  /\ IsSeq(net') /\ BundlesIn(net')
         /\ \/ UNCHANGED Decoder!vars
            \/ \E p \in Profiles : \E b \in Decoder!Bundle(p) : Decoder!Receive(b)
            \/ Decoder!ProcessFrame
<1> DEFINE Still == UNCHANGED Decoder!vars
           Kept  == IsSeq(net') /\ BundlesIn(net')
<1>1. UNCHANGED clientVars => Still
  BY DEF clientVars, Decoder!vars
<1>2. UNCHANGED net => Kept
  BY DEF ReceiverInv
<1>3. ASSUME net' = net \o Sent(out'),
             \A p \in Profiles : IsSeq(out'[p]) /\ BundlesIn(out'[p])
      PROVE  Kept
  BY <1>3, SentBundles DEF ReceiverInv
<1>4. ASSUME NEW i \in DOMAIN net, net' = RemoveAt(net, i) PROVE Kept
  BY <1>4, RemovedBundles DEF ReceiverInv
<1> HIDE DEF Still, Kept
<1>5. CASE UNCHANGED systemVars
  BY <1>1, <1>2, <1>5 DEF systemVars, Still, Kept
<1>6. CASE ServerStep \/ PeriodicMessage
  <2>1. FramesNext /\ Send
    BY <1>6 DEF ServerStep, PeriodicMessage
  <2>2. \A p \in Profiles : IsSeq(out'[p]) /\ BundlesIn(out'[p])
    BY <2>1, CallsSendBundles DEF ReceiverInv, ServersInv
  <2> QED
    BY <1>1, <1>3, <2>1, <2>2 DEF Send, Still, Kept
<1>7. CASE Restart
  <2>1. Send /\ out' = [p \in Profiles |-> EmptyBundle(p)]
    BY <1>7 DEF Restart
  <2>2. \A p \in Profiles : IsSeq(out'[p]) /\ BundlesIn(out'[p])
    BY <2>1, EmptyIsBundle
  <2> QED
    BY <1>1, <1>3, <2>1, <2>2 DEF Send, Still, Kept
<1>8. ASSUME NEW i \in DOMAIN net, Deliver(i)
      PROVE  /\ Kept
             /\ \E p \in Profiles : \E b \in Decoder!Bundle(p) : Decoder!Receive(b)
  <2>1. Client!Receive(net[i]) /\ net' = RemoveAt(net, i)
    BY <1>8 DEF Deliver
  <2> QED
    BY <1>4, <2>1, SameReceive DEF ReceiverInv, BundlesIn
<1>9. ASSUME NEW i \in DOMAIN net, Lose(i) PROVE Kept /\ Still
  BY <1>1, <1>4, <1>9 DEF Lose
<1>10. CASE Decode
  BY <1>2, <1>10, SameFrame DEF Decode, Kept
<1> QED
  BY <1>5, <1>6, <1>7, <1>8, <1>9, <1>10 DEF SystemNext, Arrival, Loss, Still, Kept

LEMMA ReceiverStep ==
  ASSUME ReceiverInv, [SystemNext]_systemVars
  PROVE  ReceiverInv' /\ [Decoder!Next]_(Decoder!vars) /\ connects' = connects
<1>1. [Decoder!Next]_(Decoder!vars)
  BY ClientSteps DEF Decoder!Next
<1>2. Decoder!IInv' /\ Decoder!ListenerKnows'
  BY <1>1, DecoderConstants, Decoder!IStep, Decoder!ListenerKnowsStep DEF ReceiverInv
<1>3. connects' = connects
  BY ClientSteps DEF Decoder!vars, Decoder!Receive, Decoder!ProcessFrame,
     Decoder!ProcessNews, Decoder!ProcessGone, Decoder!Refresh
<1> QED
  BY <1>1, <1>2, <1>3, ClientSteps, ServersStep DEF ReceiverInv

(***************************************************************************)
(* Whatever the network loses, and whichever profile overtakes the other,  *)
(* over any number of servers that follow one another: the client keeps    *)
(* its types, and the cursors that it shows together have distinct ids.    *)
(***************************************************************************)
THEOREM ClientKeepsPromises ==
  SystemSpec => [](Client!TypeOK /\ Client!CursorIdsConsistent)
<1>1. ReceiverInv => Client!TypeOK /\ Client!CursorIdsConsistent
  BY SamePromises DEF ReceiverInv, Decoder!IInv
<1>2. ReceiverInv /\ [SystemNext]_systemVars => ReceiverInv'
  BY ReceiverStep
<1> QED
  BY <1>1, <1>2, ReceiverInit, PTL DEF SystemSpec

(***************************************************************************)
(* In the system the client takes no step but those of TuioClient: every   *)
(* packet under way is a bundle as that module expects it.                 *)
(***************************************************************************)
THEOREM ClientInSystem == SystemSpec => [][Client!Next]_(Client!vars)
<1>1. Decoder!Next => Client!Next
  BY SameReceive, SameFrame, SameBundles, SameRest
  DEF Decoder!Next, Client!Next, Decoder!Connect, Client!Connect,
      Decoder!Disconnect, Client!Disconnect, Decoder!Idle, Client!Idle,
      Decoder!EmptyMap, Client!EmptyMap, Decoder!EmptyPool, Client!EmptyPool
<1>2. ReceiverInv /\ [SystemNext]_systemVars => ReceiverInv'
  BY ReceiverStep
<1>3. ReceiverInv /\ [SystemNext]_systemVars => [Client!Next]_(Client!vars)
  BY <1>1, ReceiverStep DEF Decoder!vars, Client!vars
<1> QED
  BY <1>2, <1>3, ReceiverInit, PTL DEF SystemSpec

LEMMA SameOutlook ==
  /\ \A p \in Profiles : Client!Outlook(p) = Decoder!Outlook(p)
  /\ \A o, b : Client!Applied(o, b) = Decoder!Applied(o, b)
BY SameRest DEF Client!Outlook, Decoder!Outlook, Client!Applied, Decoder!Applied

LEMMA SameOutlookNext == \A p \in Profiles : Client!Outlook(p)' = Decoder!Outlook(p)'
BY DEF Client!Outlook, Decoder!Outlook, Client!Rest, Decoder!Rest,
   Client!EmptyMap, Decoder!EmptyMap

(***************************************************************************)
(* In the system as well, the callbacks of a frame say to the listener     *)
(* what its packet says, whatever packets were lost, late or overtaken by  *)
(* those of the other profile before.                                      *)
(***************************************************************************)
THEOREM CallbacksAddUpInSystem == SystemSpec => Client!FramesApplied
<1> DEFINE Step == connects' = 1 =>
             \A p \in Profiles :
               /\ \A b \in Client!Bundle(p) :
                    Client!Receive(b) /\ decoding' # Client!Rest =>
                      Client!Outlook(p)' = Client!Applied(Client!Outlook(p), b)
               /\ decoding'.profile # p \/ decoding # Client!Rest =>
                    Client!Outlook(p)' = Client!Outlook(p)
<1>1. ReceiverInv /\ [SystemNext]_systemVars => Step
  <2> SUFFICES ASSUME ReceiverInv, [SystemNext]_systemVars, connects' = 1,
                      NEW p \in Profiles
               PROVE  /\ \A b \in Client!Bundle(p) :
                           Client!Receive(b) /\ decoding' # Client!Rest =>
                             Client!Outlook(p)' = Client!Applied(Client!Outlook(p), b)
                      /\ decoding'.profile # p \/ decoding # Client!Rest =>
                           Client!Outlook(p)' = Client!Outlook(p)
    OBVIOUS
  <2>1. /\ Decoder!IInv /\ Decoder!ListenerKnows /\ connects = 1
        /\ [Decoder!Next]_(Decoder!vars)
    BY ReceiverStep DEF ReceiverInv
  <2>2. ASSUME NEW b \in Decoder!Bundle(p), Decoder!Receive(b), decoding' # Decoder!Rest
        PROVE  Decoder!Outlook(p)' = Decoder!Applied(Decoder!Outlook(p), b)
    BY <2>1, <2>2, DecoderConstants, Decoder!FrameApplied
  <2>3. decoding'.profile # p \/ decoding # Decoder!Rest =>
          Decoder!Outlook(p)' = Decoder!Outlook(p)
    BY <2>1, DecoderConstants, Decoder!OutlookKept
  <2> QED
    BY <2>2, <2>3, SameReceive, SameRest, SameBundles, SameOutlook, SameOutlookNext
<1>2. ReceiverInv /\ [SystemNext]_systemVars => ReceiverInv'
  BY ReceiverStep
<1>3. ReceiverInv /\ [SystemNext]_systemVars => [Step]_(Client!vars)
  BY <1>1
<1> QED
  BY <1>2, <1>3, ReceiverInit, PTL DEF SystemSpec, Client!FramesApplied

-----------------------------------------------------------------------------
(***************************************************************************)
(* Convergence, the safety side of it: while the lists of the server rest  *)
(* and nothing older is under way, the listener only comes closer.         *)
(***************************************************************************)
CurrentIn(n) == \A i \in DOMAIN n : IsCurrent(n[i])

\* The invariant of the client in the system, which was connected once and for all.
ShownInv == ReceiverInv /\ connects = 1 /\ listening

LEMMA ShownInit == SystemInit => ShownInv
BY ReceiverInit DEF SystemInit, ShownInv

LEMMA ShownStep == ShownInv /\ [SystemNext]_systemVars => ShownInv'
<1> SUFFICES ASSUME ShownInv, [SystemNext]_systemVars PROVE ShownInv'
  OBVIOUS
<1>1. listening'
  BY ClientSteps DEF ShownInv, Decoder!vars, Decoder!Receive, Decoder!ProcessFrame,
     Decoder!ProcessNews, Decoder!ProcessGone, Decoder!Refresh
<1> QED
  BY <1>1, ReceiverStep DEF ShownInv

\* So its listener knows what it shows.
LEMMA ShownFacts == ASSUME ShownInv PROVE ClientOK
<1>1. /\ shown = [p \in Profiles |-> shown[p]]
      /\ heard = shown
      /\ \A p \in Profiles : shown[p] \in [DOMAIN shown[p] -> Decoder!Content]
      /\ decoding = [profile |-> decoding.profile, news |-> decoding.news,
                     gone |-> decoding.gone]
      /\ \/ decoding = Decoder!Rest
         \/ /\ decoding.profile \in Profiles
            /\ decoding.gone \subseteq DOMAIN shown[decoding.profile]
            /\ decoding.news \in [DOMAIN decoding.news -> Decoder!Content]
            /\ decoding.gone \cap DOMAIN decoding.news = {}
  BY DEF ShownInv, ReceiverInv, Decoder!IInv, Decoder!TypeOK, Decoder!ListenerKnows
<1>2. \A p \in Profiles : shown[p] = [s \in DOMAIN shown[p] |-> shown[p][s]]
  BY <1>1
<1> QED
  BY <1>1, <1>2, SameRest DEF ClientOK

\* While its lists rest, a server that goes on sends what it has.
LEMMA CallsSendCurrent ==
  ASSUME FramesInv, FramesNext, list' = list, connected', NEW p \in Profiles
  PROVE  /\ IsSeq(out'[p])
         /\ \A i \in DOMAIN out'[p] : out'[p][i].profile = p
         /\ CurrentIn(out'[p])
<1>1. Says(p) /\ TypeOK
  BY CallsSay DEF FramesInv
<1>2. IsSeq(out'[p]) /\ \A i \in DOMAIN out'[p] : out'[p][i].profile = p
  BY CallsSend
<1>3. CASE out'[p] = <<>>
  BY <1>2, <1>3 DEF CurrentIn
<1>4. ASSUME NEW S \in SUBSET DOMAIN list[p], NEW f, out'[p] = Bundles(p, S, f)
      PROVE  CurrentIn(out'[p])
  <2>1. DOMAIN out'[p] = 1..LastPacket(p, S) + 1
    BY <1>1, <1>2, <1>4, BundlesAre, SeqIsFunction
  <2> QED
    BY <1>1, <1>4, <2>1, BundlesAre DEF CurrentIn, IsCurrent
<1> QED
  BY <1>1, <1>2, <1>3, <1>4 DEF Says

LEMMA SentCurrent ==
  ASSUME NEW n, IsSeq(n), CurrentIn(n), NEW o,
         \A q \in Profiles : /\ IsSeq(o[q])
                             /\ \A i \in DOMAIN o[q] : o[q][i].profile = q
                             /\ CurrentIn(o[q])
  PROVE  CurrentIn(n \o Sent(o))
<1>1. /\ IsSeq(Sent(o))
      /\ \A i \in DOMAIN Sent(o) :
           \E q \in Profiles : \E j \in DOMAIN o[q] : Sent(o)[i] = o[q][j]
  BY SentFacts
<1>2. CurrentIn(Sent(o))
  BY <1>1 DEF CurrentIn
<1>3. ASSUME NEW i \in DOMAIN (n \o Sent(o)) PROVE IsCurrent((n \o Sent(o))[i])
  <2>1. \/ i \in DOMAIN n /\ (n \o Sent(o))[i] = n[i]
        \/ i - Len(n) \in DOMAIN Sent(o) /\ (n \o Sent(o))[i] = Sent(o)[i - Len(n)]
    BY <1>1, ConcatElements
  <2> QED
    BY <1>2, <2>1 DEF CurrentIn
<1> QED
  BY <1>3 DEF CurrentIn

LEMMA RemovedCurrent ==
  ASSUME NEW n, IsSeq(n), CurrentIn(n), NEW i \in DOMAIN n
  PROVE  CurrentIn(RemoveAt(n, i))
<1>1. /\ IsSeq(RemoveAt(n, i)) /\ Len(RemoveAt(n, i)) = Len(n) - 1
      /\ \A j \in 1..Len(n) - 1 : RemoveAt(n, i)[j] = n[IF j < i THEN j ELSE j + 1]
  BY RemoveAtIsSeq
<1>2. /\ DOMAIN n = 1..Len(n) /\ Len(n) \in Nat
      /\ DOMAIN RemoveAt(n, i) = 1..Len(n) - 1
  BY <1>1, SeqIsFunction
<1>3. \A j \in 1..Len(n) - 1 : (IF j < i THEN j ELSE j + 1) \in DOMAIN n
  BY <1>2
<1> QED
  BY <1>1, <1>2, <1>3 DEF CurrentIn

\* The packets of a server that is started say that it has nothing.
LEMMA RestartSendsCurrent ==
  ASSUME Restart, list' = list, NEW p \in Profiles
  PROVE  /\ IsSeq(out'[p])
         /\ \A i \in DOMAIN out'[p] : out'[p][i].profile = p
         /\ CurrentIn(out'[p])
<1>1. out'[p] = EmptyBundle(p) /\ list[p] = EmptyMap
  BY DEF Restart
<1>2. DOMAIN list[p] = {}
  BY <1>1 DEF EmptyMap
<1>3. IsSeq(EmptyBundle(p)) /\ DOMAIN EmptyBundle(p) = {1}
      /\ EmptyBundle(p)[1].profile = p /\ EmptyBundle(p)[1].alive = {}
      /\ DOMAIN EmptyBundle(p)[1].sets = {}
  BY EmptyBundleIs
<1>4. IsCurrent(EmptyBundle(p)[1])
  BY <1>2, <1>3 DEF IsCurrent
<1>5. CurrentIn(EmptyBundle(p))
  BY <1>3, <1>4 DEF CurrentIn
<1> QED
  BY <1>1, <1>3, <1>5

-----------------------------------------------------------------------------
\* What is under way stays current, while the lists rest.
LEMMA NetStaysCurrent ==
  ASSUME ShownInv, CurrentIn(net), [SystemNext]_systemVars, list' = list, connected'
  PROVE  \A i \in DOMAIN net' : IsCurrent(net[i])'
<1>1. CurrentIn(net')
  <2>0. IsSeq(net) /\ FramesInv
    BY DEF ShownInv, ReceiverInv, ServersInv
  <2>1. ASSUME net' = net \o Sent(out'),
               \A q \in Profiles : /\ IsSeq(out'[q])
                                   /\ \A i \in DOMAIN out'[q] : out'[q][i].profile = q
                                   /\ CurrentIn(out'[q])
        PROVE  CurrentIn(net')
    BY <2>0, <2>1, SentCurrent
  <2>2. CASE ServerStep \/ PeriodicMessage
    <3>1. FramesNext /\ net' = net \o Sent(out')
      BY <2>2 DEF ServerStep, PeriodicMessage, Send
    <3> QED
      BY <2>0, <2>1, <3>1, CallsSendCurrent
  <2>3. CASE Restart
    <3>1. net' = net \o Sent(out')
      BY <2>3 DEF Restart, Send
    <3> QED
      BY <2>1, <2>3, <3>1, RestartSendsCurrent
  <2>4. ASSUME NEW i \in DOMAIN net, net' = RemoveAt(net, i) PROVE CurrentIn(net')
    BY <2>0, <2>4, RemovedCurrent
  <2>5. CASE UNCHANGED net
    BY <2>5
  <2> QED
    BY <2>2, <2>3, <2>4, <2>5
    DEF SystemNext, systemVars, Arrival, Deliver, Loss, Lose, Decode
<1> QED
  BY <1>1 DEF CurrentIn, IsCurrent, Content

\* At most two messages are needed, and a frame that is being decoded counts as one.
LEMMA LagIs ==
  ASSUME NEW p, NEW s
  PROVE  Lag(p, s) \in 0..2 /\ LagAhead(p, s) \in 0..2 /\ LagAhead(p, s) <= Lag(p, s)
BY DEF Lag, LagAhead

\* What is left of a frame stays current as well.
RestCurrent ==
  decoding # Client!Rest =>
    LET l == list[decoding.profile] IN
    /\ \A s \in DOMAIN decoding.news : s \in DOMAIN l /\ decoding.news[s] = Content(l[s])
    /\ decoding.gone \cap DOMAIN l = {}

\* A step that leaves the client alone.
LEMMA ClientRests ==
  ASSUME RestCurrent, list' = list, UNCHANGED clientVars, NEW p, NEW s
  PROVE  RestCurrent' /\ LagAhead(p, s)' = LagAhead(p, s)
<1>1. heard' = heard /\ decoding' = decoding
  BY DEF clientVars
<1>2. Lag(p, s)' = Lag(p, s) /\ Pending(p)' = Pending(p)
  BY <1>1 DEF Lag, Pending, Content
<1>3. RestCurrent'
  BY <1>1 DEF RestCurrent, Content, Client!Rest, Client!EmptyMap
<1> QED
  BY <1>2, <1>3 DEF LagAhead

-----------------------------------------------------------------------------
\* The listener's distance to a session that a step does not tell it of.
LEMMA LagStays ==
  ASSUME list' = list, NEW p, NEW s,
         s \in DOMAIN heard'[p] <=> s \in DOMAIN heard[p],
         s \in DOMAIN heard[p] => heard'[p][s] = heard[p][s]
  PROVE  Lag(p, s)' = Lag(p, s)
BY DEF Lag, Content

LEMMA SetsAlive ==
  ASSUME NEW n, BundlesIn(n), NEW i \in DOMAIN n
  PROVE  DOMAIN n[i].sets \subseteq n[i].alive
<1>1. PICK q \in Profiles : n[i] \in Decoder!Bundle(q)
  BY DEF BundlesIn
<1>2. PICK A \in SUBSET Sessions :
        n[i].alive = A /\ n[i].sets \in UNION {[S -> Decoder!Content] : S \in SUBSET A}
  BY <1>1 DEF Decoder!Bundle
<1> QED
  BY <1>2

\* A packet arrives.
LEMMA ArrivalInforms ==
  ASSUME ShownInv, CurrentIn(net), list' = list, NEW i \in DOMAIN net, Deliver(i),
         NEW p \in Profiles, NEW s
  PROVE  /\ LagAhead(p, s)' <= LagAhead(p, s)
         /\ net[i].profile = p /\ ~ Client!Late(net[i])
            /\ (s \in DOMAIN net[i].sets \/ s \notin net[i].alive)
            /\ LagAhead(p, s) > 0
              => LagAhead(p, s)' < LagAhead(p, s)
<1> DEFINE b == net[i]
<1>1. Client!Receive(b) /\ decoding = Client!Rest /\ heard' = heard /\ heard = shown
  BY ShownFacts DEF Deliver, Client!Receive, Client!Idle, ClientOK
<1>2. Lag(p, s)' = Lag(p, s)
  BY <1>1, LagStays
<1>3. LagAhead(p, s) = Lag(p, s)
  BY <1>1, RestIs DEF LagAhead, Pending
<1>4. Lag(p, s) \in 0..2
  BY LagIs
<1>5. LagAhead(p, s)' =
        IF (s \in Pending(p))' /\ Lag(p, s) > 0 THEN Lag(p, s) - 1 ELSE Lag(p, s)
  BY <1>2 DEF LagAhead
<1>6. ASSUME b.profile = p, ~ Client!Late(b), Lag(p, s) > 0,
             s \in DOMAIN b.sets \/ s \notin b.alive
      PROVE  (s \in Pending(p))'
  <2>1. decoding' = [profile |-> b.profile,
                     news    |-> [t \in Client!News(b) |-> b.sets[t]],
                     gone    |-> DOMAIN shown[b.profile] \ b.alive]
    BY <1>1, <1>6 DEF Client!Receive
  <2>2. Pending(p)' = Client!News(b) \cup (DOMAIN shown[p] \ b.alive)
    BY <1>6, <2>1 DEF Pending
  <2>3. /\ b.alive = DOMAIN list[p]
        /\ \A t \in DOMAIN b.sets : b.sets[t] = Content(list[p][t])
    BY <1>6 DEF CurrentIn, IsCurrent
  <2>4. DOMAIN b.sets \subseteq b.alive
    BY SetsAlive DEF ShownInv, ReceiverInv
  <2>5. CASE s \notin b.alive
    <3>1. s \in DOMAIN shown[p]
      BY <1>1, <1>6, <2>3, <2>5 DEF Lag
    <3> QED
      BY <2>2, <2>5, <3>1
  <2>6. CASE s \in DOMAIN b.sets
    <3>1. s \in DOMAIN shown[p] => shown[p][s] # Content(list[p][s])
      BY <1>1, <1>6, <2>3, <2>4, <2>6 DEF Lag, Content
    <3>2. s \in Client!News(b)
      BY <1>6, <2>3, <2>6, <3>1 DEF Client!News
    <3> QED
      BY <2>2, <3>2
  <2> QED
    BY <1>6, <2>5, <2>6
<1> HIDE DEF b
<1>7. LagAhead(p, s)' <= LagAhead(p, s)
  BY <1>3, <1>4, <1>5
<1>8. ASSUME (s \in Pending(p))', LagAhead(p, s) > 0
      PROVE  LagAhead(p, s)' < LagAhead(p, s)
  BY <1>3, <1>4, <1>5, <1>8
<1> QED
  BY <1>3, <1>6, <1>7, <1>8 DEF b

LEMMA ArrivalCurrent ==
  ASSUME ShownInv, CurrentIn(net), list' = list, NEW i \in DOMAIN net, Deliver(i)
  PROVE  RestCurrent'
<1> DEFINE b == net[i]
<1>1. Client!Receive(b) /\ decoding = Client!Rest
  BY DEF Deliver, Client!Receive, Client!Idle
<1>2. CASE decoding' = Client!Rest
  <2>1. decoding' = Client!Rest'
    BY <1>2 DEF Client!Rest, Client!EmptyMap
  <2> QED
    BY <2>1 DEF RestCurrent
<1>3. CASE decoding' # Client!Rest
  <2>1. decoding' = [profile |-> b.profile,
                     news    |-> [t \in Client!News(b) |-> b.sets[t]],
                     gone    |-> DOMAIN shown[b.profile] \ b.alive]
    BY <1>1, <1>3 DEF Client!Receive
  <2>2. /\ b.alive = DOMAIN list[b.profile]
        /\ \A t \in DOMAIN b.sets : b.sets[t] = Content(list[b.profile][t])
    BY DEF CurrentIn, IsCurrent
  <2>3. DOMAIN b.sets \subseteq b.alive
    BY SetsAlive DEF ShownInv, ReceiverInv
  <2>4. /\ decoding'.profile = b.profile
        /\ DOMAIN decoding'.news = Client!News(b)
        /\ \A t \in Client!News(b) : decoding'.news[t] = b.sets[t]
        /\ decoding'.gone = DOMAIN shown[b.profile] \ b.alive
        /\ Client!News(b) \subseteq DOMAIN b.sets
    BY <2>1 DEF Client!News
  <2> HIDE DEF b
  <2> QED
    BY <2>2, <2>3, <2>4 DEF RestCurrent, Content
<1> QED
  BY <1>2, <1>3

\* A step of the client through a packet, for what its listener is told.
LEMMA NewsBrings ==
  ASSUME ClientOK, NEW s \in Sessions, Client!ProcessNews(s)
  PROVE  \E c : /\ heard' = [heard EXCEPT ![decoding.profile] = With(@, s, c)]
                /\ c.pos = decoding.news[s].pos
                /\ s \in DOMAIN heard[decoding.profile]
                   /\ heard[decoding.profile][s].pos = decoding.news[s].pos
                     => c = decoding.news[s]
<1> DEFINE p == decoding.profile
           d == decoding.news[s]
<1>1. heard = shown
  BY DEF ClientOK
<1>2. PICK c : /\ heard' = [heard EXCEPT ![p] = With(@, s, c)]
               /\ \/ s \notin DOMAIN shown[p] /\ c \in Client!Added(d)
                  \/ s \in DOMAIN shown[p] /\ c \in Client!Updated(shown[p][s], d)
  BY DEF Client!ProcessNews, Client!With, With
<1> HIDE DEF p, d
<1>3. /\ c.pos = d.pos
      /\ s \in DOMAIN shown[p] /\ shown[p][s].pos = d.pos => c = d
  BY <1>2 DEF Client!Added, Client!Updated
<1> QED
  BY <1>1, <1>2, <1>3 DEF p, d

LEMMA NewsCloser ==
  ASSUME ShownInv, RestCurrent, list' = list, NEW r \in Sessions, Client!ProcessNews(r),
         NEW p \in Profiles, NEW s
  PROVE  RestCurrent' /\ LagAhead(p, s)' <= LagAhead(p, s)
<1> DEFINE q == decoding.profile
<1>1. ClientOK
  BY ShownFacts
<1>2. /\ q \in Profiles /\ decoding # Client!Rest /\ r \in DOMAIN decoding.news
      /\ decoding' = [profile |-> q, news |-> Without(decoding.news, {r}),
                      gone |-> decoding.gone]
  BY <1>1, NewsStep
<1>3. PICK c : /\ heard' = [heard EXCEPT ![q] = With(@, r, c)]
               /\ c.pos = decoding.news[r].pos
               /\ r \in DOMAIN heard[q] /\ heard[q][r].pos = decoding.news[r].pos
                    => c = decoding.news[r]
  BY <1>1, NewsBrings
<1>4. r \in DOMAIN list[q] /\ decoding.news[r] = Content(list[q][r])
  BY <1>2 DEF RestCurrent
<1>5. /\ heard'[q] = With(heard[q], r, c)
      /\ \A t \in Profiles \ {q} : heard'[t] = heard[t]
  BY <1>1, <1>2, <1>3 DEF ClientOK
<1>6. /\ DOMAIN heard'[q] = DOMAIN heard[q] \cup {r} /\ heard'[q][r] = c
      /\ \A t \in DOMAIN heard[q] \ {r} : heard'[q][t] = heard[q][t]
  BY <1>5 DEF With
<1>7. /\ decoding'.profile = q /\ decoding'.gone = decoding.gone
      /\ DOMAIN decoding'.news = DOMAIN decoding.news \ {r}
      /\ \A t \in DOMAIN decoding.news \ {r} : decoding'.news[t] = decoding.news[t]
  BY <1>2 DEF Without
<1>8. r \notin decoding.gone
  BY <1>1, <1>2 DEF ClientOK
<1> HIDE DEF q
<1>9. RestCurrent'
  <2>1. decoding # Client!Rest /\ decoding.profile = q
    BY <1>2 DEF q
  <2>2. /\ \A t \in DOMAIN decoding'.news :
             t \in DOMAIN list[q] /\ decoding'.news[t] = Content(list[q][t])
        /\ decoding'.gone \cap DOMAIN list[q] = {}
    BY <1>7, <2>1 DEF RestCurrent
  <2> QED
    BY <1>7, <2>2 DEF RestCurrent, Content
<1>10. CASE p # q \/ s # r
  <2>1. Lag(p, s)' = Lag(p, s)
    BY <1>5, <1>6, <1>10, LagStays
  <2>2. (s \in Pending(p))' <=> s \in Pending(p)
    BY <1>7, <1>10 DEF Pending, q
  <2>3. Lag(p, s) \in 0..2
    BY LagIs
  <2> QED
    BY <1>9, <2>1, <2>2, <2>3 DEF LagAhead
<1>11. CASE p = q /\ s = r
  <2>1. s \in Pending(p) /\ ~ (s \in Pending(p))'
    BY <1>2, <1>7, <1>8, <1>11 DEF Pending, q
  <2>2. Lag(p, s)' = IF c.pos # list[p][s].pos THEN 2
                     ELSE IF c = Content(list[p][s]) THEN 0 ELSE 1
    BY <1>4, <1>6, <1>11 DEF Lag, Content
  <2>3. c.pos = list[p][s].pos
    BY <1>3, <1>4, <1>11 DEF Content
  <2>4. Lag(p, s)' \in {0, 1}
    BY <2>2, <2>3
  <2>5. Lag(p, s) # 2 => Lag(p, s)' = 0
    <3> SUFFICES ASSUME Lag(p, s) # 2 PROVE Lag(p, s)' = 0
      OBVIOUS
    <3>1. s \in DOMAIN heard[p] /\ heard[p][s].pos = list[p][s].pos
      BY <1>4, <1>11 DEF Lag
    <3>2. c = Content(list[p][s])
      BY <1>3, <1>4, <1>11, <3>1 DEF Content
    <3> QED
      BY <2>2, <2>3, <3>2
  <2>6. LagAhead(p, s)' = Lag(p, s)'
    BY <2>1 DEF LagAhead
  <2>7. LagAhead(p, s) = IF Lag(p, s) > 0 THEN Lag(p, s) - 1 ELSE Lag(p, s)
    BY <2>1 DEF LagAhead
  <2>8. Lag(p, s) \in 0..2
    BY LagIs
  <2> QED
    BY <1>9, <2>4, <2>5, <2>6, <2>7, <2>8
<1> QED
  BY <1>10, <1>11

LEMMA GoneCloser ==
  ASSUME ShownInv, RestCurrent, list' = list, NEW r \in Sessions, Client!ProcessGone(r),
         NEW p \in Profiles, NEW s
  PROVE  RestCurrent' /\ LagAhead(p, s)' <= LagAhead(p, s)
<1> DEFINE q == decoding.profile
<1>1. ClientOK
  BY ShownFacts
<1>2. /\ q \in Profiles /\ decoding # Client!Rest /\ r \in decoding.gone
      /\ decoding' = [profile |-> q, news |-> decoding.news, gone |-> decoding.gone \ {r}]
      /\ heard' = [heard EXCEPT ![q] = Without(@, {r})]
  BY <1>1, GoneStep
<1>3. r \notin DOMAIN list[q]
  BY <1>2 DEF RestCurrent
<1>4. /\ heard'[q] = Without(heard[q], {r})
      /\ \A t \in Profiles \ {q} : heard'[t] = heard[t]
  BY <1>1, <1>2 DEF ClientOK
<1>5. /\ DOMAIN heard'[q] = DOMAIN heard[q] \ {r}
      /\ \A t \in DOMAIN heard[q] \ {r} : heard'[q][t] = heard[q][t]
  BY <1>4 DEF Without
<1>6. /\ decoding'.profile = q /\ decoding'.gone = decoding.gone \ {r}
      /\ decoding'.news = decoding.news
  BY <1>2
<1> HIDE DEF q
<1>7. RestCurrent'
  <2>1. decoding # Client!Rest /\ decoding.profile = q
    BY <1>2 DEF q
  <2>2. /\ \A t \in DOMAIN decoding'.news :
             t \in DOMAIN list[q] /\ decoding'.news[t] = Content(list[q][t])
        /\ decoding'.gone \cap DOMAIN list[q] = {}
    BY <1>6, <2>1 DEF RestCurrent
  <2> QED
    BY <1>6, <2>2 DEF RestCurrent, Content
<1>8. CASE p # q \/ s # r
  <2>1. Lag(p, s)' = Lag(p, s)
    BY <1>4, <1>5, <1>8, LagStays
  <2>2. (s \in Pending(p))' <=> s \in Pending(p)
    BY <1>6, <1>8 DEF Pending, q
  <2>3. Lag(p, s) \in 0..2
    BY LagIs
  <2> QED
    BY <1>7, <2>1, <2>2, <2>3 DEF LagAhead
<1>9. CASE p = q /\ s = r
  <2>1. Lag(p, s)' = 0
    BY <1>3, <1>5, <1>9 DEF Lag
  <2>2. LagAhead(p, s)' = 0
    BY <2>1 DEF LagAhead
  <2> QED
    BY <1>7, <2>2, LagIs
<1> QED
  BY <1>8, <1>9

LEMMA RefreshCloser ==
  ASSUME ShownInv, list' = list, Client!Refresh, NEW p \in Profiles, NEW s
  PROVE  RestCurrent' /\ LagAhead(p, s)' <= LagAhead(p, s)
<1>1. /\ decoding' = Client!Rest /\ heard' = heard
      /\ DOMAIN decoding.news = {} /\ decoding.gone = {}
  BY DEF Client!Refresh
<1>2. RestCurrent'
  BY <1>1 DEF RestCurrent, Client!Rest, Client!EmptyMap
<1>3. Lag(p, s)' = Lag(p, s)
  BY <1>1, LagStays
<1>4. ~ (s \in Pending(p))' /\ s \notin Pending(p)
  <2>1. Pending(p) = {}
    BY <1>1 DEF Pending
  <2>2. Pending(p)' = {}
    BY <1>1, RestIs DEF Pending
  <2> QED
    BY <2>1, <2>2
<1>5. Lag(p, s) \in 0..2
  BY LagIs
<1> QED
  BY <1>2, <1>3, <1>4, <1>5 DEF LagAhead

-----------------------------------------------------------------------------
LEMMA StaysUpToDate ==
  ASSUME ShownInv, [SystemNext]_systemVars, UpToDate, list' = list, connected'
  PROVE  UpToDate'
<1>1. CurrentIn(net) /\ RestCurrent
  BY DEF UpToDate, CurrentIn, RestCurrent
<1>2. \A i \in DOMAIN net' : IsCurrent(net[i])'
  BY <1>1, NetStaysCurrent
<1>3. CASE UNCHANGED clientVars
  <2>1. RestCurrent'
    BY <1>1, <1>3, ClientRests
  <2> QED
    BY <1>2, <2>1 DEF UpToDate, RestCurrent
<1>4. ASSUME NEW i \in DOMAIN net, Deliver(i) PROVE UpToDate'
  <2>1. RestCurrent'
    BY <1>1, <1>4, ArrivalCurrent
  <2> QED
    BY <1>2, <2>1 DEF UpToDate, RestCurrent
<1>5. CASE Client!ProcessFrame
  <2>1. decoding # Client!Rest
    BY <1>5, RestIs DEF Client!ProcessFrame, Client!ProcessNews, Client!ProcessGone,
       Client!Refresh
  <2>2. decoding.profile \in Profiles
    BY <2>1, ShownFacts DEF ClientOK
  <2>3. RestCurrent'
    BY <1>1, <1>5, <2>2, NewsCloser, GoneCloser, RefreshCloser DEF Client!ProcessFrame
  <2> QED
    BY <1>2, <2>3 DEF UpToDate, RestCurrent
<1> QED
  BY <1>3, <1>4, <1>5
  DEF SystemNext, systemVars, ServerStep, PeriodicMessage, Restart, Send, Arrival, Loss,
      Lose, Decode

LEMMA ComesCloser ==
  ASSUME ShownInv, [SystemNext]_systemVars, UpToDate, list' = list, connected',
         NEW p \in Profiles, NEW s \in Sessions
  PROVE  /\ LagAhead(p, s)' <= LagAhead(p, s)
         /\ Informed(p, s) /\ LagAhead(p, s) > 0 => LagAhead(p, s)' < LagAhead(p, s)
<1>1. CurrentIn(net) /\ RestCurrent
  BY DEF UpToDate, CurrentIn, RestCurrent
<1>2. LagAhead(p, s)' <= LagAhead(p, s)
  <2>1. CASE UNCHANGED clientVars
    <3>1. LagAhead(p, s)' = LagAhead(p, s)
      BY <1>1, <2>1, ClientRests
    <3> QED
      BY <3>1, LagIs
  <2>2. ASSUME NEW i \in DOMAIN net, Deliver(i)
        PROVE  LagAhead(p, s)' <= LagAhead(p, s)
    BY <1>1, <2>2, ArrivalInforms
  <2>3. CASE Client!ProcessFrame
    BY <1>1, <2>3, NewsCloser, GoneCloser, RefreshCloser DEF Client!ProcessFrame
  <2> QED
    BY <2>1, <2>2, <2>3
    DEF SystemNext, systemVars, ServerStep, PeriodicMessage, Restart, Send, Arrival, Loss,
        Lose, Decode
<1>3. Informed(p, s) /\ LagAhead(p, s) > 0 => LagAhead(p, s)' < LagAhead(p, s)
  BY <1>1, ArrivalInforms DEF Informed
<1> QED
  BY <1>2, <1>3

(***************************************************************************)
(* Whatever the network loses, and whichever profile overtakes the other,  *)
(* over any number of servers that follow one another, sessions, places    *)
(* and packets: from the moment that the lists of the server rest and      *)
(* nothing older is under way, no step of the system takes the listener    *)
(* away from them, and every message in time brings it closer.  (A new     *)
(* server starts from empty lists, so it can be such a moment too.)        *)
(***************************************************************************)
THEOREM ListenerComesCloser == SystemSpec => OnlyImproves
<1> DEFINE Step == UpToDate /\ list' = list /\ connected' =>
             /\ UpToDate'
             /\ \A p \in Profiles : \A s \in Sessions :
                  /\ LagAhead(p, s)' <= LagAhead(p, s)
                  /\ Informed(p, s) /\ LagAhead(p, s) > 0
                       => LagAhead(p, s)' < LagAhead(p, s)
<1>1. ShownInv /\ [SystemNext]_systemVars => Step
  <2> SUFFICES ASSUME ShownInv, [SystemNext]_systemVars, UpToDate, list' = list, connected'
               PROVE  /\ UpToDate'
                      /\ \A p \in Profiles : \A s \in Sessions :
                           /\ LagAhead(p, s)' <= LagAhead(p, s)
                           /\ Informed(p, s) /\ LagAhead(p, s) > 0
                                => LagAhead(p, s)' < LagAhead(p, s)
    OBVIOUS
  <2> QED
    BY StaysUpToDate, ComesCloser
<1>2. ShownInv /\ [SystemNext]_systemVars => ShownInv'
  BY ShownStep
<1>3. ShownInv /\ [SystemNext]_systemVars => [Step]_systemVars
  BY <1>1
<1> QED
  BY <1>2, <1>3, ShownInit, PTL DEF SystemSpec, OnlyImproves
=============================================================================
