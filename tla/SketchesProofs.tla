--------------------------- MODULE SketchesProofs ---------------------------
(***************************************************************************)
(* The parts that stand alone: the animator shows frames that exist,       *)
(* whatever a crash left of its file, and an animation that was saved at   *)
(* the exit comes back; the lines that EdgesBox2d will save are the last   *)
(* edges of its world; sums and differences of times are right.  All of it *)
(* for any number of frames, points, lines and times.                      *)
(***************************************************************************)
EXTENDS VectorAnimator, EdgesBox2d, TuioTime, TLAPS

USE AnimatorAssumption, EdgesAssumption

Animations == Seq(Seq(Positions))

(***************************************************************************)
(* A whole file has a frame, which is why an animation that was read from  *)
(* it has one to show; after an exit the file is what was shown.           *)
(***************************************************************************)
AnimatorInv ==
  /\ frames \in Animations /\ maxFrames \in Nat /\ currentFrame \in Nat /\ drawn \in Int
  /\ file = [kind |-> file.kind, frames |-> file.frames]
  /\ file.frames \in Animations
  /\ file.kind = "whole" => Len(file.frames) > 0
  /\ FrameInRange
  /\ state = "exited" => file.kind = "whole" /\ file.frames = frames

\* Facts about sequences of anything.
LEMMA Concatenation ==
  ASSUME NEW S, NEW a \in Seq(S), NEW b \in Seq(S)
  PROVE  a \o b \in Seq(S) /\ Len(a \o b) = Len(a) + Len(b)
  OBVIOUS

LEMMA ConstantSequence ==
  ASSUME NEW S, NEW x \in S, NEW n \in Nat
  PROVE  [i \in 1..n |-> x] \in Seq(S) /\ Len([i \in 1..n |-> x]) = n
  OBVIOUS

\* What setup() makes of the file.
LEMMA StartStep ==
  ASSUME AnimatorInv, Start
  PROVE  /\ frames' \in Animations /\ maxFrames' \in Nat
         /\ 0 < maxFrames' /\ maxFrames' <= Len(frames')
         /\ file.kind = "whole" => frames' = file.frames /\ maxFrames' = Len(file.frames)
<1> DEFINE empty == [i \in 1..Frames |-> <<>>]
<1>1. file.frames \in Animations
  BY DEF AnimatorInv
<1>2. CASE file.kind = "whole"
  <2>1. frames' = file.frames \o <<>> /\ maxFrames' = Len(file.frames)
    BY <1>2 DEF Start, Loaded
  <2>2. file.frames \o <<>> = file.frames
    BY <1>1 DEF Animations
  <2>3. Len(file.frames) \in Nat /\ Len(file.frames) > 0
    BY <1>1, <1>2 DEF AnimatorInv, Animations
  <2> QED
    BY <1>1, <2>1, <2>2, <2>3
<1>3. CASE file.kind # "whole"
  <2>1. frames' = file.frames \o empty /\ maxFrames' = Frames
    BY <1>3 DEF Start, Loaded
  <2>2. empty \in Animations /\ Len(empty) = Frames
    BY ConstantSequence DEF Animations
  <2> HIDE DEF empty
  <2>3. file.frames \o empty \in Animations
        /\ Len(file.frames \o empty) = Len(file.frames) + Len(empty)
    BY <1>1, <2>2, Concatenation DEF Animations
  <2>4. Len(file.frames) \in Nat
    BY <1>1 DEF Animations
  <2> QED
    BY <1>3, <2>1, <2>2, <2>3, <2>4
<1> QED
  BY <1>2, <1>3

\* Adding a point leaves the number of frames as it is.
LEMMA PointAdded ==
  ASSUME NEW fs \in Animations, NEW i \in Int, NEW p \in Positions
  PROVE  /\ [fs EXCEPT ![i] = Append(@, p)] \in Animations
         /\ Len([fs EXCEPT ![i] = Append(@, p)]) = Len(fs)
<1>1. CASE i \in DOMAIN fs
  <2>1. fs[i] \in Seq(Positions)
    BY <1>1 DEF Animations
  <2> DEFINE f == Append(fs[i], p)
  <2>2. f \in Seq(Positions)
    BY <2>1
  <2> HIDE DEF f
  <2>3. [fs EXCEPT ![i] = f] \in Animations /\ Len([fs EXCEPT ![i] = f]) = Len(fs)
    BY <1>1, <2>2 DEF Animations
  <2> QED
    BY <2>3 DEF f
<1>2. CASE i \notin DOMAIN fs
  <2>1. [fs EXCEPT ![i] = Append(@, p)] = fs
    BY <1>2 DEF Animations
  <2> QED
    BY <2>1
<1> QED
  BY <1>1, <1>2

\* Every step keeps the invariant.
LEMMA AnimatorStep == AnimatorInv /\ [AnimatorNext]_animatorVars => AnimatorInv'
<1> SUFFICES ASSUME AnimatorInv, [AnimatorNext]_animatorVars PROVE AnimatorInv'
  OBVIOUS
<1>1. CASE Start
  <2>1. currentFrame' \in Nat /\ drawn' = -1 /\ state' = "running" /\ UNCHANGED file
    BY <1>1 DEF Start
  <2>2. frames' \in Animations /\ maxFrames' \in Nat /\ 0 < maxFrames' /\ maxFrames' <= Len(frames')
    BY <1>1, StartStep
  <2>3. drawn' \in Int /\ drawn' < maxFrames'
    BY <2>1, <2>2
  <2> QED
    BY <2>1, <2>2, <2>3 DEF AnimatorInv, FrameInRange
<1>2. CASE Update
  <2>1. maxFrames \in Nat /\ currentFrame \in Nat /\ 0 < maxFrames /\ state = "running"
    BY <1>2 DEF AnimatorInv, FrameInRange, Update
  <2>2. currentFrame' \in Nat /\ currentFrame' < maxFrames
    BY <1>2, <2>1 DEF Update
  <2>3. frames \in Animations /\ currentFrame' + 1 \in Int
    BY <2>2 DEF AnimatorInv
  <2>4. \/ frames' = frames
        \/ \E p \in Positions : frames' = [frames EXCEPT ![currentFrame' + 1] = Append(@, p)]
    BY <1>2 DEF Update
  <2>5. frames' \in Animations /\ Len(frames') = Len(frames)
    BY <2>3, <2>4, PointAdded
  <2> QED
    BY <1>2, <2>1, <2>2, <2>5 DEF AnimatorInv, FrameInRange, Update
<1>3. CASE Mouse
  BY <1>3 DEF AnimatorInv, FrameInRange, Mouse
<1>4. CASE Clear
  <2>1. /\ frames \in Animations /\ Len(frames) \in Nat
        /\ frames' = [i \in 1..Len(frames) |-> <<>>]
    BY <1>4 DEF AnimatorInv, Animations, Clear
  <2>2. <<>> \in Seq(Positions)
    OBVIOUS
  <2>3. frames' \in Animations /\ Len(frames') = Len(frames)
    BY <2>1, <2>2, ConstantSequence DEF Animations
  <2> QED
    BY <1>4, <2>3 DEF AnimatorInv, FrameInRange, Clear
<1>5. CASE Exit
  <2>1. Len(frames) \in Nat /\ Len(frames) > 0
    BY <1>5 DEF AnimatorInv, Animations, FrameInRange, Exit, Stopped
  <2> QED
    BY <1>5, <2>1 DEF AnimatorInv, FrameInRange, Exit, Stopped, Saved
<1>6. CASE Crash
  BY <1>6 DEF AnimatorInv, FrameInRange, Crash, Stopped
<1>7. CASE CrashInExit
  <2>1. PICK k \in 0..Len(frames) : file' = [kind |-> "torn", frames |-> SubSeq(frames, 1, k)]
    BY <1>7 DEF CrashInExit
  <2>2. SubSeq(frames, 1, k) \in Animations
    BY DEF AnimatorInv, Animations
  <2> QED
    BY <1>7, <2>1, <2>2 DEF AnimatorInv, FrameInRange, CrashInExit, Stopped
<1>8. CASE UNCHANGED animatorVars
  BY <1>8 DEF AnimatorInv, FrameInRange, animatorVars
<1> QED
  BY <1>1, <1>2, <1>3, <1>4, <1>5, <1>6, <1>7, <1>8 DEF AnimatorNext

\* So it always holds.
LEMMA AnimatorAlways == AnimatorSpec => []AnimatorInv
<1>1. AnimatorInit => AnimatorInv
  BY DEF AnimatorInit, AnimatorInv, FrameInRange, Animations
<1> QED
  BY <1>1, AnimatorStep, PTL DEF AnimatorSpec

(***************************************************************************)
(* Whatever was left of the file, after the start there is a frame to      *)
(* show, and the frame that is shown exists.                               *)
(***************************************************************************)
THEOREM FramesExist == AnimatorSpec => []FrameInRange
  BY AnimatorAlways, PTL DEF AnimatorInv

(***************************************************************************)
(* A start after a normal exit finds the frames of that exit, with their   *)
(* points, up to the rounding of coordinates (see ExitKept).               *)
(***************************************************************************)
THEOREM AnimationKept == AnimatorSpec => ExitKept
<1>1. AnimatorInv /\ [AnimatorNext]_animatorVars =>
        [state = "exited" /\ state' = "running" =>
           frames' = frames /\ maxFrames' = Len(frames)]_animatorVars
  <2> SUFFICES ASSUME AnimatorInv, AnimatorNext, state = "exited", state' = "running"
               PROVE  frames' = frames /\ maxFrames' = Len(frames)
    BY DEF animatorVars
  <2>1. Start
    BY DEF AnimatorNext, Update, Mouse, Clear, Exit, Crash, CrashInExit, Stopped
  <2> QED
    BY <2>1, StartStep DEF AnimatorInv
<1> QED
  BY <1>1, AnimatorAlways, PTL DEF AnimatorSpec, ExitKept
-----------------------------------------------------------------------------
(***************************************************************************)
(* EdgesBox2d.  Lines are compared, never looked into, so that what they   *)
(* are made of does not matter.                                            *)
(***************************************************************************)
\* The lines that are complete.
Strokes == IF stroke /\ lines # <<>> THEN Front(lines) ELSE lines

EdgesInv ==
  /\ \E S : lines \in Seq(S) /\ edges \in Seq(S) /\ saved \in Seq(S)
  /\ mode = "off" => lines = <<>> /\ stroke = FALSE
  /\ mode = "running" => IsSuffix(Strokes, edges)

LEMMA SequencesGrow ==
  ASSUME NEW S, NEW x, NEW s \in Seq(S)
  PROVE  s \in Seq(S \cup {x})
  OBVIOUS

LEMMA ReversedSequence ==
  ASSUME NEW S, NEW s \in Seq(S)
  PROVE  /\ Reverse(s) \in Seq(S) /\ Len(Reverse(s)) = Len(s)
         /\ \A i \in 1..Len(s) : Reverse(s)[i] = s[(Len(s) - i) + 1]
  BY DEF Reverse

\* A suffix element by element.
LEMMA SuffixElements ==
  ASSUME NEW S, NEW s \in Seq(S), NEW t \in Seq(S)
  PROVE  IsSuffix(s, t) <=>
           /\ Len(s) <= Len(t)
           /\ \A i \in 1..Len(s) : s[i] = t[(Len(t) - Len(s)) + i]
<1> DEFINE r == Reverse(s)
           u == Reverse(t)
           m == Len(s)
           n == Len(t)
<1>1. /\ r \in Seq(S) /\ Len(r) = m /\ \A i \in 1..m : r[i] = s[(m - i) + 1]
      /\ u \in Seq(S) /\ Len(u) = n /\ \A i \in 1..n : u[i] = t[(n - i) + 1]
      /\ m \in Nat /\ n \in Nat
  BY ReversedSequence
<1>2. IsSuffix(s, t) <=> m <= n /\ SubSeq(r, 1, m) = SubSeq(u, 1, m)
  BY <1>1 DEF IsSuffix, IsPrefix
<1> HIDE DEF r, u, m, n
<1>3. m <= n =>
        (SubSeq(r, 1, m) = SubSeq(u, 1, m) <=> \A i \in 1..m : r[i] = u[i])
  <2> SUFFICES ASSUME m <= n
               PROVE  SubSeq(r, 1, m) = SubSeq(u, 1, m) <=> \A i \in 1..m : r[i] = u[i]
    OBVIOUS
  <2>1. SubSeq(r, 1, m) = [i \in 1..m |-> r[i]]
    BY <1>1
  <2>2. SubSeq(u, 1, m) = [i \in 1..m |-> u[i]]
    BY <1>1
  <2> QED
    BY <2>1, <2>2
<1>4. m <= n =>
        ((\A i \in 1..m : r[i] = u[i]) <=> \A i \in 1..m : s[i] = t[(n - m) + i])
  <2> SUFFICES ASSUME m <= n
               PROVE  (\A i \in 1..m : r[i] = u[i])
                        <=> \A i \in 1..m : s[i] = t[(n - m) + i]
    OBVIOUS
  <2>1. \A i \in 1..m : r[i] = s[(m - i) + 1] /\ u[i] = t[(n - m) + ((m - i) + 1)]
    <3> TAKE i \in 1..m
    <3>1. (n - i) + 1 = (n - m) + ((m - i) + 1) /\ i \in 1..n
      BY <1>1
    <3> QED
      BY <1>1, <3>1
  <2>2. \A i \in 1..m : (m - i) + 1 \in 1..m /\ (m - ((m - i) + 1)) + 1 = i
    BY <1>1
  <2> QED
    BY <2>1, <2>2
<1> QED
  BY <1>2, <1>3, <1>4 DEF m, n

LEMMA LastAppended ==
  ASSUME NEW S, NEW s \in Seq(S), NEW x \in S
  PROVE  /\ Append(s, x) \in Seq(S) /\ Append(s, x) # <<>>
         /\ Front(Append(s, x)) = s
<1>1. /\ Append(s, x) \in Seq(S) /\ Len(Append(s, x)) = Len(s) + 1 /\ Len(s) \in Nat
      /\ \A i \in 1..Len(s) : Append(s, x)[i] = s[i]
  OBVIOUS
<1>2. Front(Append(s, x)) = [i \in 1..Len(s) |-> Append(s, x)[i]]
  BY <1>1 DEF Front
<1>3. s = [i \in 1..Len(s) |-> s[i]]
  OBVIOUS
<1>4. Front(Append(s, x)) = s
  BY <1>1, <1>2, <1>3
<1>5. Append(s, x) # <<>>
  BY <1>1
<1> QED
  BY <1>1, <1>4, <1>5

LEMMA FrontSequence ==
  ASSUME NEW S, NEW s \in Seq(S), s # <<>>
  PROVE  Front(s) \in Seq(S)
  BY DEF Front

LEMMA EmptySuffix == ASSUME NEW S, NEW t \in Seq(S) PROVE IsSuffix(<<>>, t)
<1>1. PICK s : s = <<>>
  OBVIOUS
<1>2. s \in Seq(S) /\ Len(s) = 0 /\ Len(t) \in Nat
  BY <1>1
<1>3. Len(s) <= Len(t) /\ \A i \in 1..Len(s) : s[i] = t[(Len(t) - Len(s)) + i]
  BY <1>2
<1>4. IsSuffix(s, t)
  BY <1>2, <1>3, SuffixElements
<1> QED
  BY <1>1, <1>4

LEMMA SuffixAppended ==
  ASSUME NEW S, NEW s \in Seq(S), NEW t \in Seq(S), NEW x \in S, IsSuffix(s, t)
  PROVE  IsSuffix(Append(s, x), Append(t, x))
<1> DEFINE u == Append(s, x)
           v == Append(t, x)
<1>1. /\ u \in Seq(S) /\ Len(u) = Len(s) + 1 /\ u[Len(s) + 1] = x
      /\ \A i \in 1..Len(s) : u[i] = s[i]
      /\ v \in Seq(S) /\ Len(v) = Len(t) + 1 /\ v[Len(t) + 1] = x
      /\ \A i \in 1..Len(t) : v[i] = t[i]
      /\ Len(s) \in Nat /\ Len(t) \in Nat
  OBVIOUS
<1>2. /\ Len(s) <= Len(t)
      /\ \A i \in 1..Len(s) : s[i] = t[(Len(t) - Len(s)) + i]
  BY SuffixElements
<1> HIDE DEF u, v
<1>3. \A i \in 1..Len(u) : u[i] = v[(Len(v) - Len(u)) + i]
  <2> TAKE i \in 1..Len(u)
  <2>1. Len(v) - Len(u) = Len(t) - Len(s)
    BY <1>1
  <2>2. CASE i = Len(s) + 1
    <3>1. (Len(t) - Len(s)) + i = Len(t) + 1
      BY <1>1, <2>2
    <3> QED
      BY <1>1, <2>1, <2>2, <3>1
  <2>3. CASE i \in 1..Len(s)
    <3>1. (Len(t) - Len(s)) + i \in 1..Len(t)
      BY <1>1, <1>2, <2>3
    <3> QED
      BY <1>1, <1>2, <2>1, <2>3, <3>1
  <2> QED
    BY <1>1, <2>2, <2>3
<1>4. Len(u) <= Len(v)
  BY <1>1, <1>2
<1>5. IsSuffix(u, v)
  BY <1>1, <1>3, <1>4, SuffixElements
<1> QED
  BY <1>5 DEF u, v

LEMMA EdgesStep == EdgesInv /\ [EdgesNext]_edgesVars => EdgesInv'
<1> SUFFICES ASSUME EdgesInv, [EdgesNext]_edgesVars PROVE EdgesInv'
  OBVIOUS
<1>1. PICK S : lines \in Seq(S) /\ edges \in Seq(S) /\ saved \in Seq(S)
  BY DEF EdgesInv
<1>2. ASSUME NEW p \in Places, MousePressed(p) PROVE EdgesInv'
  <2> DEFINE T == S \cup {<<p>>}
  <2>1. lines \in Seq(T) /\ edges \in Seq(T) /\ saved \in Seq(T) /\ <<p>> \in T
    BY <1>1, SequencesGrow
  <2> HIDE DEF T
  <2>2. /\ mode = "running" /\ mode' = mode /\ stroke' = TRUE /\ ~ stroke
        /\ lines' = Append(lines, <<p>>) /\ edges' = edges /\ saved' = saved
    BY <1>2 DEF MousePressed
  <2> QED
    BY <1>2, <2>1, LastAppended DEF MousePressed, EdgesInv, Strokes
<1>3. ASSUME NEW p \in Places, MouseDragged(p) PROVE EdgesInv'
  <2> DEFINE x == Append(Last(lines), p)
             T == S \cup {x}
  <2>1. lines \in Seq(T) /\ edges \in Seq(T) /\ saved \in Seq(T) /\ x \in T
    BY <1>1, SequencesGrow
  <2>2. /\ mode = "running" /\ stroke /\ lines # <<>>
        /\ lines' = Append(Front(lines), x)
        /\ UNCHANGED <<mode, edges, stroke, saved>>
    BY <1>3 DEF MouseDragged
  <2> HIDE DEF T, x
  <2>3. Front(lines) \in Seq(T)
    BY <2>1, <2>2, FrontSequence
  <2> QED
    BY <2>1, <2>2, <2>3, LastAppended DEF EdgesInv, Strokes
<1>4. CASE MouseReleased
  <2>1. PICK x : /\ lines' = Append(Front(lines), x) /\ edges' = Append(edges, x)
                 /\ mode = "running" /\ stroke /\ lines # <<>>
                 /\ stroke' = FALSE /\ UNCHANGED <<mode, saved>>
    BY <1>4 DEF MouseReleased
  <2> DEFINE T == S \cup {x}
  <2>2. lines \in Seq(T) /\ edges \in Seq(T) /\ saved \in Seq(T) /\ x \in T
    BY <1>1, SequencesGrow
  <2> HIDE DEF T
  <2>3. Front(lines) \in Seq(T) /\ IsSuffix(Front(lines), edges)
    BY <2>1, <2>2, FrontSequence DEF EdgesInv, Strokes
  <2>4. lines' \in Seq(T) /\ edges' \in Seq(T) /\ saved' \in Seq(T)
    BY <2>1, <2>2, <2>3, LastAppended
  <2>5. IsSuffix(lines', edges')
    BY <2>1, <2>2, <2>3, SuffixAppended
  <2> QED
    BY <2>1, <2>4, <2>5 DEF EdgesInv, Strokes
<1>5. CASE UseMissingLine
  BY <1>5 DEF UseMissingLine, EdgesInv
<1>6. CASE ClearLines
  <2>1. <<>> \in Seq(S)
    OBVIOUS
  <2> QED
    BY <1>1, <1>6, <2>1, EmptySuffix DEF ClearLines, EdgesInv, Strokes
<1>7. CASE SaveLines
  <2>1. <<>> \in Seq(S)
    OBVIOUS
  <2> QED
    BY <1>1, <1>7, <2>1, EmptySuffix DEF SaveLines, EdgesInv, Strokes
<1>8. CASE LoadLines
  <2> DEFINE T == S \cup {<<>>}
  <2>1. lines \in Seq(T) /\ saved \in Seq(T) /\ <<>> \in T
    BY <1>1, SequencesGrow
  <2>2. /\ lines' = <<>> /\ stroke' = FALSE /\ mode' = "running"
        /\ edges' = Append(saved, <<>>) /\ saved' = saved
    BY <1>8 DEF LoadLines, EdgesInv
  <2> HIDE DEF T
  <2>3. edges' \in Seq(T) /\ saved' \in Seq(T) /\ lines' \in Seq(T)
    BY <2>1, <2>2, LastAppended
  <2> QED
    BY <2>2, <2>3, EmptySuffix DEF EdgesInv, Strokes
<1>9. CASE Quit
  <2>1. <<>> \in Seq(S)
    OBVIOUS
  <2> QED
    BY <1>1, <1>9, <2>1 DEF Quit, EdgesInv
<1>10. CASE UNCHANGED edgesVars
  BY <1>1, <1>10 DEF edgesVars, EdgesInv, Strokes
<1> QED
  BY <1>2, <1>3, <1>4, <1>5, <1>6, <1>7, <1>8, <1>9, <1>10 DEF EdgesNext

(***************************************************************************)
(* Whatever is drawn, simplified, saved, cleared and loaded: what the key  *)
(* space will save are the last edges of the world.                        *)
(***************************************************************************)
THEOREM SavedAsDrawn == EdgesSpec => []LinesAreEdges
<1>1. EdgesInit => EdgesInv
  <2> SUFFICES ASSUME EdgesInit PROVE EdgesInv
    OBVIOUS
  <2>1. <<>> \in Seq({})
    OBVIOUS
  <2> QED
    BY <2>1 DEF EdgesInit, EdgesInv
<1>2. EdgesInv => LinesAreEdges
  BY DEF EdgesInv, LinesAreEdges, Strokes
<1> QED
  BY <1>1, <1>2, EdgesStep, PTL DEF EdgesSpec

-----------------------------------------------------------------------------
(***************************************************************************)
(* Times.  Of the number of microseconds in a second the proofs use only   *)
(* that it is at least 1000.                                               *)
(***************************************************************************)
LEMMA Units == USEC_SECOND \in Nat /\ USEC_SECOND >= 1000 /\ MSEC_SECOND = 1000
  BY SMT DEF USEC_SECOND, MSEC_SECOND

LEMMA NormalTime ==
  ASSUME NEW sec \in Int, NEW usec \in 0..(USEC_SECOND - 1)
  PROVE  /\ Normal(Time(sec, usec))
         /\ Microseconds(Time(sec, usec)) = sec * USEC_SECOND + usec
  BY DEF Normal, Microseconds, Time

LEMMA NormalFields ==
  ASSUME NEW t, Normal(t)
  PROVE  /\ t.seconds \in Int
         /\ t.micro_seconds \in Int
         /\ 0 <= t.micro_seconds /\ t.micro_seconds < USEC_SECOND
         /\ t.seconds * USEC_SECOND \in Int
         /\ Microseconds(t) \in Int
  BY Units DEF Normal, Microseconds

\* The sum of two normal times is normal, and the right instant.
LEMMA PlusRight ==
  ASSUME NEW t, NEW u, Normal(t), Normal(u)
  PROVE  Normal(Plus(t, u)) /\ Microseconds(Plus(t, u)) = Microseconds(t) + Microseconds(u)
<1> DEFINE ts == t.seconds  tu == t.micro_seconds
           us == u.seconds  uu == u.micro_seconds
           carry == IF tu + uu < USEC_SECOND THEN 0 ELSE 1
           sec   == ts + us + carry
           usec  == tu + uu - carry * USEC_SECOND
<1>1. /\ ts \in Int /\ us \in Int /\ tu \in Int /\ uu \in Int
      /\ 0 <= tu /\ tu < USEC_SECOND /\ 0 <= uu /\ uu < USEC_SECOND
  BY NormalFields
<1>2. (tu + uu) \div USEC_SECOND = carry /\ (tu + uu) % USEC_SECOND = usec
  <2>1. CASE tu + uu < USEC_SECOND
    BY <1>1, <2>1, Units
  <2>2. CASE USEC_SECOND <= tu + uu
    BY <1>1, <2>2, Units
  <2> QED
    BY <1>1, <2>1, <2>2, Units
<1>3. Plus(t, u) = Time(sec, usec)
  BY <1>2 DEF Plus
<1>4. sec \in Int /\ usec \in 0..(USEC_SECOND - 1)
  BY <1>1, Units
<1>5. sec * USEC_SECOND + usec = (ts * USEC_SECOND + tu) + (us * USEC_SECOND + uu)
  BY <1>1, Units
<1> HIDE DEF sec, usec
<1> QED
  BY <1>3, <1>4, <1>5, NormalTime DEF Microseconds

\* The difference of two normal times is normal, and the right one.
LEMMA MinusRight ==
  ASSUME NEW t, NEW u, Normal(t), Normal(u)
  PROVE  Normal(Minus(t, u)) /\ Microseconds(Minus(t, u)) = Microseconds(t) - Microseconds(u)
<1> DEFINE ts == t.seconds  tu == t.micro_seconds
           us == u.seconds  uu == u.micro_seconds
           borrow == IF tu - uu < 0 THEN 1 ELSE 0
           sec    == ts - us - borrow
           usec   == tu - uu + borrow * USEC_SECOND
<1>1. /\ ts \in Int /\ us \in Int /\ tu \in Int /\ uu \in Int
      /\ 0 <= tu /\ tu < USEC_SECOND /\ 0 <= uu /\ uu < USEC_SECOND
  BY NormalFields
<1>2. Minus(t, u) = Time(sec, usec)
  BY <1>1, Units DEF Minus
<1>3. sec \in Int /\ usec \in 0..(USEC_SECOND - 1)
  BY <1>1, Units
<1>4. sec * USEC_SECOND + usec = (ts * USEC_SECOND + tu) - (us * USEC_SECOND + uu)
  BY <1>1, Units
<1> HIDE DEF sec, usec
<1> QED
  BY <1>2, <1>3, <1>4, NormalTime DEF Microseconds

\* The milliseconds between two times, which TuioContainer.h:161 divides by, are
\* zero exactly if less than one millisecond lies between them.
LEMMA MillisecondsBetween ==
  ASSUME NEW t, NEW u, Normal(t), Normal(u), Microseconds(u) <= Microseconds(t)
  PROVE  /\ TotalMilliseconds(Minus(t, u)) >= 0
         /\ TotalMilliseconds(Minus(t, u)) = 0 <=> Microseconds(t) - Microseconds(u) < 1000
<1> DEFINE d == Minus(t, u)
           sec == d.seconds
           usec == d.micro_seconds
<1>1. Normal(d) /\ Microseconds(d) = Microseconds(t) - Microseconds(u)
  BY MinusRight
<1>2. Microseconds(d) \in Int /\ Microseconds(d) >= 0
  BY <1>1, NormalFields
<1>3. sec \in Int /\ usec \in Int /\ 0 <= usec /\ usec < USEC_SECOND
  BY <1>1, NormalFields
<1>4. Microseconds(d) = sec * USEC_SECOND + usec
  BY DEF Microseconds
<1>5. TotalMilliseconds(d) = sec * 1000 + usec \div 1000
  BY Units DEF TotalMilliseconds
<1> HIDE DEF d, sec, usec
<1>6. sec >= 0
  <2>1. sec < 0 => sec * USEC_SECOND <= - USEC_SECOND
    BY <1>3, Units
  <2> QED
    BY <1>2, <1>3, <1>4, <2>1, Units
<1>7. usec \div 1000 \in Nat /\ (usec \div 1000 = 0 <=> usec < 1000)
  BY <1>3
<1>8. sec > 0 => sec * USEC_SECOND >= 1000
  BY <1>3, Units
<1>9. sec * 1000 + usec \div 1000 >= 0
  BY <1>3, <1>6, <1>7
<1>10. sec * 1000 + usec \div 1000 = 0 <=> sec * USEC_SECOND + usec < 1000
  <2>1. CASE sec = 0
    BY <1>3, <1>7, <2>1, Units
  <2>2. CASE sec > 0
    BY <1>3, <1>7, <1>8, <2>2, Units
  <2> QED
    BY <1>3, <1>6, <2>1, <2>2
<1>11. TotalMilliseconds(d) >= 0 /\ (TotalMilliseconds(d) = 0 <=> Microseconds(d) < 1000)
  BY <1>4, <1>5, <1>9, <1>10
<1> QED
  BY <1>1, <1>11 DEF d

\* What the system clock shows is a normal time, of its instant.
LEMMA SystemTimeRight ==
  ASSUME now \in Nat
  PROVE  Normal(SystemTime) /\ Microseconds(SystemTime) = now
<1> DEFINE sec == now \div USEC_SECOND  usec == now % USEC_SECOND
<1>1. sec \in Int /\ usec \in 0..(USEC_SECOND - 1) /\ sec * USEC_SECOND + usec = now
  BY Units
<1>2. SystemTime = Time(sec, usec)
  BY DEF SystemTime
<1> HIDE DEF sec, usec
<1> QED
  BY <1>1, <1>2, NormalTime

\* Normal times are equal exactly if they are the same instant.
LEMMA EqualTimes ==
  ASSUME NEW t, NEW u, Normal(t), Normal(u)
  PROVE  t = u <=> Microseconds(t) = Microseconds(u)
<1> DEFINE ts == t.seconds  tu == t.micro_seconds
           us == u.seconds  uu == u.micro_seconds
<1>1. /\ ts \in Int /\ us \in Int /\ tu \in Int /\ uu \in Int
      /\ 0 <= tu /\ tu < USEC_SECOND /\ 0 <= uu /\ uu < USEC_SECOND
  BY NormalFields
<1>2. t = Time(ts, tu) /\ u = Time(us, uu)
  BY DEF Normal
<1>3. Microseconds(t) = ts * USEC_SECOND + tu /\ Microseconds(u) = us * USEC_SECOND + uu
  BY DEF Microseconds
<1> HIDE DEF ts, tu, us, uu
<1>4. ts < us => ts * USEC_SECOND + USEC_SECOND <= us * USEC_SECOND
  BY <1>1, Units
<1>5. us < ts => us * USEC_SECOND + USEC_SECOND <= ts * USEC_SECOND
  BY <1>1, Units
<1>6. ts * USEC_SECOND \in Int /\ us * USEC_SECOND \in Int
  BY <1>1, Units
<1>7. Microseconds(t) = Microseconds(u) => ts = us /\ tu = uu
  BY <1>1, <1>3, <1>4, <1>5, <1>6, Units
<1> QED
  BY <1>2, <1>3, <1>7

(***************************************************************************)
(* Every time is normal, and those read since the session began are the    *)
(* time from its beginning to the instant at which they were read; a stamp *)
(* is of no later frame than the one that the server is in.                *)
(***************************************************************************)
ClockInv ==
  /\ now \in Nat /\ frameAt \in Nat /\ stampAt \in Nat /\ frameAt <= now
  /\ Normal(startTime) /\ Normal(frameTime) /\ Normal(stamp)
  /\ ofSession \in {{}, {"frame"}, {"frame", "stamp"}}
  /\ "frame" \in ofSession =>
       Microseconds(frameTime) = frameAt - Microseconds(startTime)
  /\ "stamp" \in ofSession =>
       /\ Microseconds(stamp) = stampAt - Microseconds(startTime)
       /\ stampAt <= frameAt

\* The time of the session is the time since it began.
LEMMA SessionTimeRight ==
  ASSUME ClockInv
  PROVE  Normal(SessionTime) /\ Microseconds(SessionTime) = now - Microseconds(startTime)
  BY SystemTimeRight, MinusRight DEF ClockInv, SessionTime

LEMMA ClockStep == ClockInv /\ [ClockNext]_clockVars => ClockInv'
<1> SUFFICES ASSUME ClockInv, [ClockNext]_clockVars PROVE ClockInv'
  OBVIOUS
<1>1. CASE ClockRuns
  <2>1. PICK i \in Instants : now < i /\ now' = i
    BY <1>1 DEF ClockRuns
  <2>2. now' \in Nat /\ frameAt <= now'
    BY <2>1, InstantsAssumption DEF ClockInv
  <2> QED
    BY <1>1, <2>2 DEF ClockRuns, ClockInv, Normal, Microseconds
<1>2. CASE InitSession
  <2>1. Normal(startTime')
    BY <1>2, SystemTimeRight DEF InitSession, ClockInv
  <2> QED
    BY <1>2, <2>1 DEF InitSession, ClockInv, Normal
<1>3. CASE InitFrame
  <2>1. Normal(frameTime') /\ Microseconds(frameTime') = frameAt' - Microseconds(startTime)
    BY <1>3, SessionTimeRight DEF InitFrame
  <2>2. ofSession' \in {{"frame"}, {"frame", "stamp"}}
    BY <1>3 DEF InitFrame, ClockInv
  <2>3. "stamp" \in ofSession' => "stamp" \in ofSession
    BY <1>3 DEF InitFrame
  <2>4. stampAt <= frameAt => stampAt' <= frameAt'
    BY <1>3 DEF InitFrame, ClockInv
  <2> QED
    BY <1>3, <2>1, <2>2, <2>3, <2>4 DEF InitFrame, ClockInv, Normal, Microseconds
<1>4. CASE UpdateContainer
  BY <1>4 DEF UpdateContainer, ClockInv, Normal, Microseconds
<1>5. CASE UNCHANGED clockVars
  BY <1>5 DEF clockVars, ClockInv, Normal, Microseconds
<1> QED
  BY <1>1, <1>2, <1>3, <1>4, <1>5 DEF ClockNext

LEMMA ClockAlways == ClockSpec => []ClockInv
<1>1. ClockInit => ClockInv
  <2> SUFFICES ASSUME ClockInit PROVE ClockInv
    OBVIOUS
  <2>1. now \in Nat
    BY InstantsAssumption DEF ClockInit
  <2>2. Normal(startTime) /\ Microseconds(startTime) = 0
    <3>1. 0 \in 0..(USEC_SECOND - 1) /\ 0 * USEC_SECOND + 0 = 0
      BY Units
    <3> QED
      BY <3>1, NormalTime DEF ClockInit
  <2>3. Normal(SessionTime) /\ Microseconds(SessionTime) = now - Microseconds(startTime)
    BY <2>1, <2>2, SystemTimeRight, MinusRight DEF SessionTime
  <2> QED
    BY <2>1, <2>2, <2>3 DEF ClockInit, ClockInv
<1> QED
  BY <1>1, ClockStep, PTL DEF ClockSpec

(***************************************************************************)
(* Whatever instants the clock shows and however often a session begins,   *)
(* the sums and differences of the times are right, and the comparison of  *)
(* two stamps of one session by == tells whether they are of one instant.  *)
(***************************************************************************)
THEOREM SumsAreRight == ClockSpec => []TimesRight
<1>1. ClockInv => TimesRight
  <2> SUFFICES ASSUME ClockInv PROVE TimesRight
    OBVIOUS
  <2>1. ASSUME NEW t \in {SystemTime, startTime, frameTime, stamp},
               NEW u \in {SystemTime, startTime, frameTime, stamp}
        PROVE  SumsRight(t, u)
    <3>1. Normal(t) /\ Normal(u)
      BY SystemTimeRight DEF ClockInv
    <3> QED
      BY <3>1, PlusRight, MinusRight DEF SumsRight
  <2>2. ASSUME ofSession = {"frame", "stamp"}
        PROVE  stamp = frameTime <=> stampAt = frameAt
    <3>1. stamp = frameTime <=> Microseconds(stamp) = Microseconds(frameTime)
      BY EqualTimes DEF ClockInv
    <3>2. Microseconds(startTime) \in Int
      BY NormalFields DEF ClockInv
    <3> QED
      BY <2>2, <3>1, <3>2 DEF ClockInv
  <2> QED
    BY <2>1, <2>2 DEF TimesRight
<1> QED
  BY <1>1, ClockAlways, PTL

(***************************************************************************)
(* Unless connect began a session in between, the dt by which speeds are   *)
(* computed is never negative, and zero exactly if less than a millisecond *)
(* lies between the two frames.                                            *)
(***************************************************************************)
THEOREM DtIsPositive == ClockSpec => []DtRight
<1>1. ClockInv => DtRight
  <2> SUFFICES ASSUME ClockInv, ofSession = {"frame", "stamp"}
               PROVE  Dt >= 0 /\ (Dt = 0 <=> frameAt - stampAt < 1000)
    BY DEF DtRight
  <2>1. Microseconds(startTime) \in Int
    BY NormalFields DEF ClockInv
  <2>2. /\ Microseconds(stamp) <= Microseconds(frameTime)
        /\ Microseconds(frameTime) - Microseconds(stamp) = frameAt - stampAt
    BY <2>1 DEF ClockInv
  <2> QED
    BY <2>2, MillisecondsBetween DEF ClockInv, Dt
<1> QED
  BY <1>1, ClockAlways, PTL
=============================================================================
