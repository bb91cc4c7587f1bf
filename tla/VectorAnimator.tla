--------------------------- MODULE VectorAnimator ---------------------------
(***************************************************************************)
(* The animateVector sketch (VectorAnimator.cpp, ofApp.cpp): an animation  *)
(* of frames that loops while the user drags points into it, loaded at the *)
(* start and saved at the exit.  The file that the key s writes is never   *)
(* read, and is left out.  The window keeps its size; a position stands    *)
(* for all that the file does not tell apart once x / width is text.       *)
(***************************************************************************)
EXTENDS Integers, SequencesExt

CONSTANTS
  Positions,   \* of the mouse
  Frames,      \* the number of frames that a new animation gets, 60 in ofApp.cpp
  MaxPoints,   \* bound: points that are drawn in all
  MaxFrames    \* bound: frames of an animation

ASSUME AnimatorAssumption == Frames \in Nat \ {0} /\ MaxPoints \in Nat /\ MaxFrames \in Nat

VARIABLES
  state,         \* "off", "running", "exited", or "crashed"
  frames,        \* per frame the sequence of its points
  maxFrames,
  currentFrame,  \* counted from 0; what it is before the first update is unknown
  bDragging,
  drawn,         \* the frame that the last draw() showed, -1 before
  file           \* animatorData.xml: none, whole, or torn by a crash while it
                 \* was written, and its frames

animatorVars == <<state, frames, maxFrames, currentFrame, bDragging, drawn, file>>

Points(fs) == FoldSeq(LAMBDA f, n : Len(f) + n, 0, fs)

AnimatorInit ==
  /\ state = "off"
  /\ frames = <<>> /\ maxFrames = 0 /\ currentFrame = 0 /\ bDragging = FALSE
  /\ drawn = -1
  /\ file = [kind |-> "none", frames |-> <<>>]

\* Slip (see README, mutants): the result of reading is ignored.
LoadedAnyway(f) == Len(f.frames)

\* maxFrames after setup(): a file that cannot be read does not count.
Loaded(f) == IF f.kind = "whole" THEN Len(f.frames) ELSE Frames

\* setup(): the frames that were read before an error stay, and empty ones are
\* added to them.
Start ==
  /\ state # "running"
  /\ Len(file.frames) + Frames <= MaxFrames
  /\ state' = "running"
  /\ frames' = file.frames \o
       (IF file.kind = "whole" THEN <<>> ELSE [i \in 1..Frames |-> <<>>])
  /\ maxFrames' = Loaded(file)
  /\ currentFrame' \in 0..(MaxFrames - 1)
  /\ bDragging' = FALSE
  /\ drawn' = -1
  /\ UNCHANGED file

\* update() and draw(): the number of the frame is that of the program modulo
\* maxFrames, and no frame of the program is skipped that could be shown.
Update ==
  /\ state = "running"
  /\ currentFrame' = IF drawn = -1 THEN 0 ELSE (currentFrame + 1) % maxFrames
  /\ \/ ~ bDragging /\ UNCHANGED frames
     \/ /\ bDragging
        /\ Points(frames) < MaxPoints
        /\ \E p \in Positions : frames' = [frames EXCEPT ![currentFrame' + 1] = Append(@, p)]
  /\ drawn' = currentFrame'
  /\ UNCHANGED <<state, maxFrames, bDragging, file>>

\* startDrag() and endDrag().
Mouse ==
  /\ state = "running"
  /\ bDragging' = ~ bDragging
  /\ UNCHANGED <<state, frames, maxFrames, currentFrame, drawn, file>>

\* clear(), the key c.
Clear ==
  /\ state = "running"
  /\ frames' = [i \in DOMAIN frames |-> <<>>]
  /\ UNCHANGED <<state, maxFrames, currentFrame, bDragging, drawn, file>>

\* Slip (see README, mutants): the last frame is not written.
SavedButLast(fs) == IF fs = <<>> THEN fs ELSE Front(fs)

\* saveToXml writes every frame.
Saved(fs) == fs

Stopped(how) ==
  /\ state = "running"
  /\ state' = how
  /\ UNCHANGED <<frames, maxFrames, currentFrame, bDragging, drawn>>

\* The destructor of ofApp.
Exit == Stopped("exited") /\ file' = [kind |-> "whole", frames |-> Saved(frames)]

\* The program ends without it, or while it writes the file.
Crash == Stopped("crashed") /\ UNCHANGED file

CrashInExit ==
  /\ Stopped("crashed")
  /\ \E k \in 0..Len(frames) : file' = [kind |-> "torn", frames |-> SubSeq(frames, 1, k)]

AnimatorNext ==
  \/ Start \/ Update \/ Mouse \/ Clear \/ Exit \/ Crash \/ CrashInExit

AnimatorSpec == AnimatorInit /\ [][AnimatorNext]_animatorVars

-----------------------------------------------------------------------------
\* Whatever was left of the file, after the start there is a frame to show, and
\* update, draw and addPoint only ever use frames that exist.
FrameInRange ==
  state = "running" =>
    /\ 0 < maxFrames /\ maxFrames <= Len(frames)
    /\ drawn < maxFrames

\* A start after a normal exit finds the frames of that exit, with their points, also
\* if earlier crashes left more frames in it than a new one has.  (Points as the file
\* tells them: what x / width loses on its way to text and back, VectorAnimator.cpp:98
\* and 123, is not modelled.)
ExitKept ==
  [][state = "exited" /\ state' = "running" =>
       frames' = frames /\ maxFrames' = Len(frames)]_animatorVars
=============================================================================
