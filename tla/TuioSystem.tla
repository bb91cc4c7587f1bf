----------------------------- MODULE TuioSystem -----------------------------
(***************************************************************************)
(* A TuioServer and a TuioClient with the network between them.            *)
(*                                                                         *)
(* The server (see TuioServerFrames) sends its bundles as UDP packets      *)
(* (sendObjectBundle and sendCursorBundle, UdpTransmitSocket::Send), the   *)
(* client (see TuioClient) takes them one at a time from its socket.  The  *)
(* socket and the network are not in the repository; from them the program *)
(* has whole packets that can be lost, or be overtaken by packets of the   *)
(* other profile.                                                          *)
(***************************************************************************)
EXTENDS TuioServerFrames
LOCAL INSTANCE SequencesExt

CONSTANTS
  LateWindow,    \* of the client
  MaxInFlight,   \* bound on the packets under way
  Lossy,         \* may packets be lost
  Overtaking,    \* may packets of one profile overtake those of the other
  MaxStarts      \* bound on the starts of the server

ASSUME SystemAssumption ==
  /\ MaxInFlight \in Nat
  /\ LateWindow \in Nat
  /\ Lossy \in BOOLEAN
  /\ Overtaking \in BOOLEAN
  /\ MaxStarts \in Nat

VARIABLES
  net,                                              \* the packets under way
  shown, shownIds, shownFrame, decoding, listening, connects, heard,
                                                    \* state of the client
  met,           \* the sessions that the listener was ever told of, per profile
  starts         \* how often the server was started

clientVars == <<shown, shownIds, shownFrame, decoding, listening, connects, heard>>
systemVars == <<frameSpecVars, net, clientVars, met, starts>>

Client == INSTANCE TuioClient WITH
  FrameNumbers <- 0..MaxFrame,
  MaxConnects  <- 1,
  list         <- shown,
  pool         <- shownIds,
  currentFrame <- shownFrame,
  frame        <- decoding,
  connected    <- listening,
  known        <- heard

\* The packets that one call sends: cursors first.
Sent(o) == (IF "cur" \in Profiles THEN o["cur"] ELSE <<>>)
             \o (IF "obj" \in Profiles THEN o["obj"] ELSE <<>>)

-----------------------------------------------------------------------------
\* The client listens before the server starts.
SystemInit ==
  /\ FramesInit
  /\ net = Sent(out)
  /\ shown = [p \in Profiles |-> EmptyMap]
  /\ shownIds = EmptyPool
  /\ shownFrame = -1
  /\ decoding = Client!Rest
  /\ listening = TRUE
  /\ connects = 1
  /\ heard = [p \in Profiles |-> EmptyMap]
  /\ met = [p \in Profiles |-> {}]
  /\ starts = 1

Send ==
  /\ net' = net \o Sent(out')
  /\ Len(net') <= MaxInFlight
  /\ UNCHANGED <<clientVars, met>>

\* The server does not switch its modes here.
ServerStep ==
  /\ FramesNext
  /\ ~SendFullMessages
  /\ fullUpdate' = fullUpdate
  /\ periodicUpdate' = periodicUpdate
  /\ Send
  /\ UNCHANGED starts

\* A new server in the place of one that is gone, at the same client.
Restart ==
  /\ ~connected
  /\ starts < MaxStarts
  /\ starts' = starts + 1
  /\ list' = [p \in Profiles |-> EmptyMap]
  /\ pool' = EmptyPool
  /\ granted' = {} /\ external' = {} /\ sessionID' = -1
  /\ currentFrame' = -1 /\ currentFrameTime' = 0
  /\ update' = [p \in Profiles |-> FALSE]
  /\ lastUpdate' = [p \in Profiles |-> 0]
  /\ fullUpdate' = FALSE /\ periodicUpdate' = FALSE
  /\ connected' = TRUE /\ sweeping' = None /\ inFrame' = FALSE
  /\ out' = [p \in Profiles |-> EmptyBundle(p)]
  /\ told' = [p \in Profiles |-> EmptyMap]
  /\ Send

\* A removal loop that was begun is finished.
Sweep == sweeping # None /\ ServerStep

\* enablePeriodicMessages: a thread calls sendFullMessages again and again.
PeriodicMessage ==
  /\ SendFullMessages
  /\ FramesNext
  /\ Send
  /\ UNCHANGED starts

\* Packets of one profile keep their order.  UDP does not promise that: a full
\* message, which has no number, would bring a removed session back if it came
\* after the packet that removed it.
Arriving == {i \in DOMAIN net :
               \A j \in 1..i - 1 : Overtaking /\ net[j].profile # net[i].profile}

Deliver(i) ==
  /\ i \in Arriving
  /\ Client!Receive(net[i])
  /\ net' = RemoveAt(net, i)
  /\ UNCHANGED <<frameSpecVars, met, starts>>

\* That a packet was lost matters when the client would have taken it.
Lose(i) ==
  /\ Lossy
  /\ Client!Idle
  /\ i \in Arriving
  /\ net' = RemoveAt(net, i)
  /\ UNCHANGED <<frameSpecVars, clientVars, met, starts>>

Decode ==
  /\ Client!ProcessFrame
  /\ met' = [p \in Profiles |-> met[p] \cup DOMAIN heard'[p]]
  /\ UNCHANGED <<frameSpecVars, net, starts>>

Arrival == \E i \in DOMAIN net : Deliver(i)

ArrivalFor(p) == \E i \in DOMAIN net : net[i].profile = p /\ Deliver(i)

ArrivalOf(s) == \E i \in DOMAIN net : s \in DOMAIN net[i].sets /\ Deliver(i)

Loss == \E i \in DOMAIN net : Lose(i)

SystemNext == ServerStep \/ Restart \/ PeriodicMessage \/ Arrival \/ Loss \/ Decode

SystemSpec == SystemInit /\ [][SystemNext]_systemVars

\* The application finishes the call it is in, the periodic thread of the
\* server keeps sending, the thread of the client keeps decoding, and of
\* packets sent for ever, also of those of one profile and of those with a
\* certain session, some arrive.
FairSystemSpec ==
  /\ SystemSpec
  /\ WF_systemVars(Sweep)
  /\ WF_systemVars(PeriodicMessage)
  /\ \A p \in Profiles : SF_systemVars(ArrivalFor(p))
  /\ \A s \in Sessions : SF_systemVars(ArrivalOf(s))
  /\ WF_systemVars(Decode)

-----------------------------------------------------------------------------
(***************************************************************************)
(* When the network keeps every packet and their order, the client shows   *)
(* exactly what the server has as soon as a frame is committed and         *)
(* everything under way has arrived; its listener knows the same.          *)
(***************************************************************************)
Settled == connected /\ ~inFrame /\ net = <<>> /\ Client!Idle

ClientShowsServer ==
  Settled => \A p \in Profiles : shown[p] = Contents(list[p])

(***************************************************************************)
(* Whatever is lost, and whichever profile overtakes the other: when the   *)
(* application has nothing more to report, the full messages of the        *)
(* periodic thread bring the client to the state of the server, for good.  *)
(***************************************************************************)
Converges ==
  <>[](connected => \A p \in Profiles : heard[p] = Contents(list[p]))

(***************************************************************************)
(* A listener meets a session once: whatever is lost, and as long as the   *)
(* packets of a profile arrive in order, one that it was told to remove is *)
(* never added again (TuioListener.h: addTuioCursor is for "a new          *)
(* TuioCursor").                                                           *)
(***************************************************************************)
NoSessionReturns ==
  [][\A p \in Profiles :
       (DOMAIN heard'[p] \ DOMAIN heard[p]) \cap met[p] = {}]_heard

\* A packet that says what the server has now.
IsCurrent(b) ==
  LET l == list[b.profile] IN
  /\ b.alive = DOMAIN l
  /\ \A s \in DOMAIN b.sets : b.sets[s] = Content(l[s])

\* Everything that is under way or left of a frame says so.
UpToDate ==
  /\ \A i \in DOMAIN net : IsCurrent(net[i])
  /\ decoding # Client!Rest =>
       LET l == list[decoding.profile] IN
       /\ \A s \in DOMAIN decoding.news : s \in DOMAIN l /\ decoding.news[s] = Content(l[s])
       /\ decoding.gone \cap DOMAIN l = {}

\* How many messages about s the listener still needs: a container that is new or
\* moved may get another speed than that of the message that says so.
Lag(p, s) ==
  IF s \notin DOMAIN list[p] THEN IF s \in DOMAIN heard[p] THEN 1 ELSE 0
  ELSE IF s \notin DOMAIN heard[p] \/ heard[p][s].pos # list[p][s].pos THEN 2
  ELSE IF heard[p][s] = Content(list[p][s]) THEN 0 ELSE 1

Pending(p) ==
  IF decoding.profile = p THEN DOMAIN decoding.news \cup decoding.gone ELSE {}

\* The same when the frame is finished.
LagAhead(p, s) ==
  IF s \in Pending(p) /\ Lag(p, s) > 0 THEN Lag(p, s) - 1 ELSE Lag(p, s)

\* A packet arrives in time that has a set message for s or does not list it.
Informed(p, s) ==
  \E i \in DOMAIN net :
    /\ net[i].profile = p
    /\ s \in DOMAIN net[i].sets \/ s \notin net[i].alive
    /\ ~ Client!Late(net[i])
    /\ Deliver(i)

(***************************************************************************)
(* Why it converges: once the lists of the server rest and nothing older   *)
(* is under way, no step takes the listener away from them, whatever is    *)
(* lost, repeated or overtakes the other profile, and every message that   *)
(* comes in time brings it closer, so that two suffice.                    *)
(***************************************************************************)
OnlyImproves ==
  [][UpToDate /\ list' = list /\ connected' =>
       /\ UpToDate'
       /\ \A p \in Profiles : \A s \in Sessions :
            /\ LagAhead(p, s)' <= LagAhead(p, s)
            /\ Informed(p, s) /\ LagAhead(p, s) > 0
                 => LagAhead(p, s)' < LagAhead(p, s)]_systemVars
=============================================================================
