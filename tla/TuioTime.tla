------------------------------ MODULE TuioTime ------------------------------
(***************************************************************************)
(* Times of the TUIO library (TuioTime.h, TuioTime.cpp): seconds and       *)
(* microseconds, with their operators, and how the library comes by them:  *)
(* the session that TuioClient::connect starts for the whole process, the  *)
(* frames of a server in that process, and the stamp of a container.       *)
(*                                                                         *)
(* The division of C++ truncates; no quotient here has a negative dividend *)
(* other than by the seconds of a difference, which are not divided.       *)
(***************************************************************************)
EXTENDS Integers

CONSTANT Instants   \* of the system clock, in microseconds

ASSUME InstantsAssumption == Instants \subseteq Nat

VARIABLES
  now,         \* the instant that the system clock shows
  startTime,   \* start_seconds and start_micro_seconds
  frameTime,   \* currentFrameTime of the server
  frameAt,     \* the instant at which it was read
  stamp,       \* the frame time of the last update of a container
  stampAt,     \* the instant at which that was read
  ofSession    \* of "frame" and "stamp", those read since the last initSession

clockVars == <<now, startTime, frameTime, frameAt, stamp, stampAt, ofSession>>

MSEC_SECOND == 1000
USEC_SECOND == 1000000

Time(sec, usec) == [seconds |-> sec, micro_seconds |-> usec]

\* Slip (see README, mutants): the microseconds are not carried over.
PlusUncarried(t, u) ==
  Time(t.seconds + u.seconds, t.micro_seconds + u.micro_seconds)

\* operator+(TuioTime).
Plus(t, u) ==
  LET usec == t.micro_seconds + u.micro_seconds
  IN  Time(t.seconds + u.seconds + usec \div USEC_SECOND, usec % USEC_SECOND)

\* Slip (see README, mutants): a second is not borrowed.
MinusUnborrowed(t, u) ==
  LET usec == t.micro_seconds - u.micro_seconds
  IN  Time(t.seconds - u.seconds, IF usec < 0 THEN usec + USEC_SECOND ELSE usec)

\* operator-(TuioTime).
Minus(t, u) ==
  LET sec  == t.seconds - u.seconds
      usec == t.micro_seconds - u.micro_seconds
  IN  IF usec < 0 THEN Time(sec - 1, usec + USEC_SECOND) ELSE Time(sec, usec)

TotalMilliseconds(t) == t.seconds * MSEC_SECOND + t.micro_seconds \div MSEC_SECOND

-----------------------------------------------------------------------------
SystemTime == Time(now \div USEC_SECOND, now % USEC_SECOND)

SessionTime == Minus(SystemTime, startTime)

\* A container that was added in the first frame.
ClockInit ==
  /\ now \in Instants
  /\ startTime = Time(0, 0)
  /\ frameTime = SessionTime /\ frameAt = now
  /\ stamp = SessionTime /\ stampAt = now
  /\ ofSession = {"frame", "stamp"}

\* The system clock is not put back.
ClockRuns ==
  /\ \E i \in Instants : now < i /\ now' = i
  /\ UNCHANGED <<startTime, frameTime, frameAt, stamp, stampAt, ofSession>>

\* TuioClient::connect.
InitSession ==
  /\ startTime' = SystemTime
  /\ ofSession' = {}
  /\ UNCHANGED <<now, frameTime, frameAt, stamp, stampAt>>

\* initFrame(TuioTime::getSessionTime()), as TuioServer.h:59 has it.
InitFrame ==
  /\ frameTime' = SessionTime /\ frameAt' = now
  /\ ofSession' = ofSession \cup {"frame"}
  /\ UNCHANGED <<now, startTime, stamp, stampAt>>

\* updateTuioObject and updateTuioCursor, of a container not touched in the frame.
UpdateContainer ==
  /\ stamp # frameTime
  /\ stamp' = frameTime /\ stampAt' = frameAt
  /\ ofSession' = IF "frame" \in ofSession THEN {"frame", "stamp"} ELSE {}
  /\ UNCHANGED <<now, startTime, frameTime, frameAt>>

ClockNext == ClockRuns \/ InitSession \/ InitFrame \/ UpdateContainer

ClockSpec == ClockInit /\ [][ClockNext]_clockVars

\* What TuioContainer::update divides by, in milliseconds.
Dt == TotalMilliseconds(Minus(frameTime, stamp))

-----------------------------------------------------------------------------
\* What operator== compares correctly: two normal times are the same instant
\* exactly if they are equal.
Normal(t) ==
  /\ t = Time(t.seconds, t.micro_seconds)
  /\ t.seconds \in Int
  /\ t.micro_seconds \in 0..(USEC_SECOND - 1)

Microseconds(t) == t.seconds * USEC_SECOND + t.micro_seconds

SumsRight(t, u) ==
  /\ Normal(Plus(t, u)) /\ Microseconds(Plus(t, u)) = Microseconds(t) + Microseconds(u)
  /\ Normal(Minus(t, u)) /\ Microseconds(Minus(t, u)) = Microseconds(t) - Microseconds(u)

\* Sums and differences of the times that occur are right and normal, so that the
\* comparisons of stamps by == in TuioServer.cpp tell whether a container was
\* touched in this frame, for stamps of the running session.
TimesRight ==
  /\ \A t, u \in {SystemTime, startTime, frameTime, stamp} : SumsRight(t, u)
  /\ ofSession = {"frame", "stamp"} => (stamp = frameTime <=> stampAt = frameAt)

\* Unless connect started the session anew in between, the dt of TuioContainer.h:155
\* is not negative, and zero exactly if less than a millisecond passed.
DtRight ==
  ofSession = {"frame", "stamp"} =>
    /\ Dt >= 0
    /\ Dt = 0 <=> frameAt - stampAt < 1000
=============================================================================
