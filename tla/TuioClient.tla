----------------------------- MODULE TuioClient -----------------------------
(***************************************************************************)
(* The TUIO decoder, class TuioClient: it turns the bundles it receives    *)
(* into lists of objects and cursors, gives the cursors ids, and calls its *)
(* listener for every change.                                              *)
(*                                                                         *)
(* ProcessMessage has the same code twice, once per TUIO profile; here it  *)
(* is one, with the profile of the bundle as a field.  A bundle is         *)
(* processed in the steps that can be told apart from outside: decoding    *)
(* it up to the judgement on its fseq message, one step per element of the *)
(* frame, and the refresh at its end.  In the code the order of the        *)
(* elements is that of the set messages and of the lists, both of which    *)
(* are orders of arrival: here it is open.                                 *)
(***************************************************************************)
EXTENDS CursorPool

CONSTANTS
  Profiles,     \* the profiles in use, a subset of {"cur", "obj"}
  Sessions,     \* session ids that senders use
  Positions,
  MaxSpeed,     \* speeds are 0 .. MaxSpeed
  FrameNumbers, \* the numbers of frames that senders use
  LateWindow,   \* a frame this far behind or less is late (100 in the code)
  MaxConnects   \* bound on the calls of connect

ASSUME ClientAssumption ==
  /\ Profiles \subseteq {"cur", "obj"}
  /\ MaxSpeed \in Nat \ {0}
  /\ FrameNumbers \subseteq Nat
  /\ LateWindow \in Nat
  /\ MaxConnects \in Nat

VARIABLES
  list,           \* objectList and cursorList: session id -> content
  pool,           \* cursor id allocation (ids of cursorList included)
  currentFrame,   \* number of the newest frame, of any profile
  frame,          \* what frameObjects or frameCursors has still to be done
  connected,
  connects,       \* how often connect was called
  known           \* the listener's copy: session id -> content it was told

vars == <<list, pool, currentFrame, frame, connected, connects, known>>

Content == [pos : Positions, speed : 0..MaxSpeed]

\* Full messages have no frame number.
Fseqs == FrameNumbers \cup {-1}

Bundle(p) ==
  UNION {[profile : {p}, alive : {A}, sets : UNION {[S -> Content] : S \in SUBSET A},
          fseq : Fseqs] : A \in SUBSET Sessions}

\* No frame is being processed.
Rest == [profile |-> "none", news |-> EmptyMap, gone |-> {}]

Idle == connected /\ frame = Rest

-----------------------------------------------------------------------------
Init ==
  /\ list = [p \in Profiles |-> EmptyMap]
  /\ pool = EmptyPool
  /\ currentFrame = -1
  /\ frame = Rest
  /\ connected = FALSE
  /\ connects = 0
  /\ known = [p \in Profiles |-> EmptyMap]

Connect ==
  /\ ~connected
  /\ connects < MaxConnects
  /\ connected' = TRUE
  /\ connects' = connects + 1
  /\ UNCHANGED <<list, pool, currentFrame, frame, known>>

\* Slip (see README, mutants): the lists are not emptied.
DisconnectKeepingLists ==
  /\ Idle
  /\ connected' = FALSE
  /\ pool' = [EmptyPool EXCEPT !.max = pool.max]
  /\ UNCHANGED <<list, currentFrame, frame, connects, known>>

\* The lists are emptied without a word to the listener.  maxCursorID and
\* currentFrame keep their values.
Disconnect ==
  /\ Idle
  /\ connected' = FALSE
  /\ list' = [p \in Profiles |-> EmptyMap]
  /\ pool' = [EmptyPool EXCEPT !.max = pool.max]
  /\ UNCHANGED <<currentFrame, frame, connects, known>>

-----------------------------------------------------------------------------
(***************************************************************************)
(* Receiving a bundle b: alive message, set messages, fseq message.        *)
(* Sessions with a set message are assumed to be in the alive message, as  *)
(* in every bundle of a TuioServer.                                        *)
(***************************************************************************)
\* Slip (see README, mutants): a second packet of a frame is late.
LateOrSame(b) ==
  b.fseq > 0 /\ b.fseq <= currentFrame /\ currentFrame - b.fseq <= LateWindow

\* Slip (see README, mutants): full messages are not exempt.
LateAny(b) == b.fseq < currentFrame /\ currentFrame - b.fseq <= LateWindow

Late(b) ==
  b.fseq > 0 /\ b.fseq < currentFrame /\ currentFrame - b.fseq <= LateWindow

\* The set messages that say something new.
News(b) == {s \in DOMAIN b.sets :
              s \in DOMAIN list[b.profile] => list[b.profile][s] # b.sets[s]}

Receive(b) ==
  /\ Idle
  /\ \/ /\ ~Late(b)
        /\ currentFrame' = IF b.fseq > 0 THEN b.fseq ELSE currentFrame
        /\ frame' = [profile |-> b.profile,
                     news    |-> [s \in News(b) |-> b.sets[s]],
                     gone    |-> DOMAIN list[b.profile] \ b.alive]
     \/ /\ Late(b)
        /\ UNCHANGED <<currentFrame, frame>>
  /\ UNCHANGED <<list, pool, connected, connects, known>>

\* A new container starts with speed 0, whatever the set message says.  When
\* a container moved and the message has no speed, the speed is computed.
Added(c) == {[pos |-> c.pos, speed |-> 0]}

Updated(old, c) ==
  IF c.pos # old.pos /\ c.speed = 0
    THEN [pos : {c.pos}, speed : 1..MaxSpeed] ELSE {c}

\* Slip (see README, mutants): the listener is not told of an update.
ProcessNewsUntold(s) ==
  LET p   == frame.profile
      c   == frame.news[s]
      new == s \notin DOMAIN list[p]
  IN
  /\ s \in DOMAIN frame.news
  /\ frame' = [frame EXCEPT !.news = Without(@, {s})]
  /\ \E d \in IF new THEN Added(c) ELSE Updated(list[p][s], c) :
       /\ list' = [list EXCEPT ![p] = With(@, s, d)]
       /\ known' = IF new THEN [known EXCEPT ![p] = With(@, s, d)] ELSE known
  /\ IF new /\ p = "cur" THEN pool' \in AddCursor(pool, s) ELSE UNCHANGED pool
  /\ UNCHANGED <<currentFrame, connected, connects>>

ProcessNews(s) ==
  LET p == frame.profile IN
  /\ s \in DOMAIN frame.news
  /\ frame' = [frame EXCEPT !.news = Without(@, {s})]
  /\ \/ /\ s \notin DOMAIN list[p]
        /\ \E c \in Added(frame.news[s]) :
             /\ list' = [list EXCEPT ![p] = With(@, s, c)]
             /\ known' = [known EXCEPT ![p] = With(@, s, c)]
        /\ IF p = "cur" THEN pool' \in AddCursor(pool, s) ELSE UNCHANGED pool
     \/ /\ s \in DOMAIN list[p]
        /\ \E c \in Updated(list[p][s], frame.news[s]) :
             /\ list' = [list EXCEPT ![p] = With(@, s, c)]
             /\ known' = [known EXCEPT ![p] = With(@, s, c)]
        /\ UNCHANGED pool
  /\ UNCHANGED <<currentFrame, connected, connects>>

\* Removals are at the end of the frame.  A session may come back while its
\* old cursor is in the free list, so that list is named by cursor ids.
ProcessGone(s) ==
  LET p == frame.profile IN
  /\ DOMAIN frame.news = {}
  /\ s \in frame.gone
  /\ frame' = [frame EXCEPT !.gone = @ \ {s}]
  /\ list' = [list EXCEPT ![p] = Without(@, {s})]
  /\ known' = [known EXCEPT ![p] = Without(@, {s})]
  /\ pool' = IF p = "cur" THEN RemoveCursor(pool, s, pool.active[s]) ELSE pool
  /\ UNCHANGED <<currentFrame, connected, connects>>

\* Slip (see README, mutants): the frame is not cleared.
RefreshUncleared ==
  /\ frame # Rest
  /\ DOMAIN frame.news = {} /\ frame.gone = {}
  /\ UNCHANGED vars

Refresh ==
  /\ frame # Rest
  /\ DOMAIN frame.news = {} /\ frame.gone = {}
  /\ frame' = Rest
  /\ UNCHANGED <<list, pool, currentFrame, connected, connects, known>>

ProcessFrame ==
  \/ \E s \in Sessions : ProcessNews(s)
  \/ \E s \in Sessions : ProcessGone(s)
  \/ Refresh

Next ==
  \/ Connect
  \/ Disconnect
  \/ \E p \in Profiles : \E b \in Bundle(p) : Receive(b)
  \/ ProcessFrame

Spec == Init /\ [][Next]_vars

\* The thread that runs the socket finishes the bundles it begins.
FairSpec == Spec /\ WF_vars(ProcessFrame)

-----------------------------------------------------------------------------
(***************************************************************************)
(* Every variable of the client holds a value of its type, the id          *)
(* allocation knows exactly the cursors of the list, and what is left of a *)
(* frame concerns distinct sessions.                                       *)
(***************************************************************************)
TypeOK ==
  /\ list = [p \in Profiles |-> list[p]]
  /\ known = [p \in Profiles |-> known[p]]
  /\ \A p \in Profiles :
       /\ list[p] \in [DOMAIN list[p] -> Content]
       /\ known[p] \in [DOMAIN known[p] -> Content]
       /\ DOMAIN list[p] \subseteq Sessions
  /\ IsPool(pool)
  /\ DOMAIN pool.active = IF "cur" \in Profiles THEN DOMAIN list["cur"] ELSE {}
  /\ currentFrame \in Nat \cup {-1}
  /\ frame = [profile |-> frame.profile, news |-> frame.news, gone |-> frame.gone]
  /\ frame = Rest \/ /\ frame.profile \in Profiles
                     /\ frame.gone \subseteq DOMAIN list[frame.profile]
                     /\ frame.news \in [DOMAIN frame.news -> Content]
                     /\ frame.gone \cap DOMAIN frame.news = {}
  /\ connected \in BOOLEAN
  /\ connects \in 0..MaxConnects

(***************************************************************************)
(* Cursors that are present at the same time have distinct ids, 0..max     *)
(* without holes but for the free list; also after disconnect, which       *)
(* leaves a stale maxCursorID behind that the next cursor has to repair.   *)
(***************************************************************************)
CursorIdsConsistent ==
  \/ PoolConsistent(pool)
  \/ DOMAIN pool.active = {} /\ DOMAIN pool.free = {}

(***************************************************************************)
(* What the listener will know at the end of the frame that is processed.  *)
(***************************************************************************)
Outlook(p) ==
  LET left == IF frame.profile = p THEN frame ELSE Rest
  IN  [s \in (DOMAIN known[p] \cup DOMAIN left.news) \ left.gone |->
         IF s \in DOMAIN left.news THEN left.news[s].pos ELSE known[p][s].pos]

\* What a bundle says to a listener that knows the positions o.
Applied(o, b) ==
  [s \in b.alive \cap (DOMAIN o \cup DOMAIN b.sets) |->
     IF s \in DOMAIN b.sets THEN b.sets[s].pos ELSE o[s]]

(***************************************************************************)
(* The callbacks of a frame say to the listener what the bundle says, no   *)
(* more and no less, in whatever order they are made and whatever bundles  *)
(* were lost, repeated or reordered before.  (For a client that was not    *)
(* disconnected before: disconnect empties the lists without a callback.)  *)
(***************************************************************************)
FramesApplied ==
  [][connects' = 1 =>
       \A p \in Profiles :
         /\ \A b \in Bundle(p) :
              Receive(b) /\ frame' # Rest => Outlook(p)' = Applied(Outlook(p), b)
         /\ frame'.profile # p \/ frame # Rest => Outlook(p)' = Outlook(p)]_vars

(***************************************************************************)
(* Every bundle is finished, and its listener refreshed: the client comes  *)
(* back to rest.                                                           *)
(***************************************************************************)
FrameEnds == frame # Rest ~> frame = Rest

(***************************************************************************)
(* The ids of the cursors that the client shows are those of CursorSlots   *)
(* for as long as it stays connected.                                      *)
(***************************************************************************)
Slots == INSTANCE CursorSlots WITH Cursors <- Sessions, held <- pool.active

SlotsKept == Slots!Init /\ [][Slots!Next \/ Disconnect]_(pool.active)
=============================================================================
