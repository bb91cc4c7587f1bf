# A TLA+ model of the TUIO core of ofEight

ofEight is a collection of some 35 openFrameworks sketches: interactive
installations that take data from a sensor (Kinect, thermal camera, PS3 camera,
microphone, OSC) and draw. Most of them are one `update` and one `draw` over
vendored libraries. One part has a protocol, state that lives across frames,
threads and two ends that must agree: the **TUIO library** of `thermitrack/src`
(the same files are in `kinectTUIO/src`). It is the core of this project; the
application around it and four parts of sketches with state or an algorithm worth
checking are modelled too.
Paths below are relative to `thermitrack/src` unless they say otherwise.

## Inventory

| component | state | operations | interacts with |
|---|---|---|---|
| cursor id allocation (in `TuioServer.cpp` and again in `TuioClient.cpp`) | `cursorList`, `freeCursorList`, `maxCursorID` | add and remove a cursor, with reuse of ids | part of server and client |
| `TuioServer` | two lists of containers, session counter, frame number and time, one "news" flag and one heartbeat second per profile, modes | add, update, remove (own and external containers), `initFrame`, `commitFrame`, `sendFullMessages`, `stopUntouchedMoving…`, `removeUntouchedStopped…`, modes, destructor | sends OSC bundles over UDP; a thread calls `sendFullMessages` |
| periodic thread (`ThreadFunc` in `TuioServer.cpp`) | `periodic_update`, the threads that exist | `enablePeriodicMessages`, `disablePeriodicMessages`, the loop | calls `sendFullMessages` of the server |
| `TuioContainer`, `TuioCursor`, `TuioObject`, `TuioPoint` | position, speed, acceleration, time stamp, state | `update`, `stop`, `remove` | owned by server, client or application |
| `TuioTime` | seconds, microseconds; the start of the session | sums, differences, comparison, `initSession`, `getSessionTime` | time stamps of containers and frames; `connect` starts the session of the whole process |
| `TuioClient` | two lists, what the current bundle changes, alive lists, `currentFrame`, free list, mutexes, `connected` | `connect`, `disconnect`, `ProcessMessage` (`set`, `alive`, `fseq`), getters under locks | receives bundles on a thread, calls `TuioListener`s |
| thermitrack application (`testApp.cpp`) | points of the last frame, one remembered cursor, sticky cursors | `update`, mouse and key handlers, random signal | calls the server |
| animateVector (`VectorAnimator.cpp`, `ofApp.cpp`) | frames of points, the current frame, a file | load, loop, drag, clear, save | file on disk |
| EdgesBox2d (`testApp.cpp`) | strokes, edges, a file | mouse, clear, save, load | file on disk, physics engine |
| LSystem (`LSystem.cpp`) | rules, axiom, a turtle | `make`, `compute_figure` | draws a mesh |
| kinectTUIO application, KinectToObj, FaceTrackBox2d, oscToDrawRibbons, recorders, ps3eyeMesh | see `PROJECT.json` and *Not modelled* | | sensors, OSC |
| graphics sketches | parameters of shaders | | none |

What is hard here: the id allocation is right only as an invariant over long
sequences of calls; what a frame changes is sent once and then never again;
packets are lost, are split, and those of one profile overtake the other's; the client judges by frame
numbers that two profiles share and that a restarted server begins anew;
listeners only know what they are told; two threads share the client's lists,
under mutexes that are used only while a flag is set; the application keeps one
pointer for cursors that points, mouse and random signal make and remove.
`PROJECT.json` lists each hazard at its line.

What makes each component correct:
* ids: cursors that live at the same time have distinct ids and the ids have no
  avoidable holes (`CursorIdsConsistent`, `SlotsKept`);
* server: a session id names one thing (`SessionsUnique`); after `commitFrame` the
  messages sent so far say exactly what the server has (`CommitTellsAll`);
* client: the callbacks of a frame say exactly what its bundle says (`FramesApplied`); every bundle is
  finished (`FrameEnds`);
* both: the client shows what the server has when all has arrived
  (`ClientShowsServer`); under loss, but with packets of one profile in order, no removed
  session returns (`NoSessionReturns`) and full messages repair everything (`Converges`), because once
  the server rests the listener only comes closer to it (`OnlyImproves`);
* threads of the client: no path leaves a mutex locked (`LocksOwned`), the two
  threads are not in one list (`LocksExclude`), nobody waits for somebody who waits
  (`NoDeadlock`), every bundle and every getter ends
  (`BundleEnds`, `GetterReturns`); `disconnect` within a bundle can break the first,
  third and fourth of these for the receiving thread (`LockedOut`, see *Runs*), and each
  of them names this as its only exception;
* periodic thread: full messages are sent for as long as they are enabled
  (`SendsAgain`) and no thread is left over (`Subsides`);
* thermitrack: the remembered cursor is not a deleted one (`CursorAlive`), no cursor is
  removed twice before there are sticky ones (`RemovedOnce`), one point alone is shown
  by one cursor (`OneTouchShown`), and what is forgotten stays (`ForgottenStays`, which
  describes what the code does and bounds the harm);
* animator: only frames that exist are used (`FrameInRange`), an exit keeps the
  animation (`ExitKept`); edges: what will be saved is what the world has
  (`LinesAreEdges`); L-system: the recursion draws the expanded word
  (`FiguresAreExpansions`); times: sums and differences are right, and so
  are the comparison of stamps and the `dt` of speeds that are made of them (`TimesRight`,
  `DtRight`).

## Modules

`CursorPool` is the id allocation as operators on a record of type *pool*
(`AddCursor` is the set of its outcomes, since the closest free cursor depends on
positions; `RemoveCursor` has one). `CursorSlots` is its abstract specification:
cursors appear with an id from a gap, or with the next id when there is no gap.

`TuioServer` has one action per public operation. The code has everything
twice, for objects and cursors; here a pair is one function or action of the
profile `"obj"` or `"cur"`. Correspondence of the state:

| model | code |
|---|---|
| `list[p]` | `objectList`, `cursorList`: session id to container (time, position, speed, state) |
| `pool` | `cursorList` (ids), `freeCursorList`, `maxCursorID` |
| `granted`, `external` | session ids that `getSessionID` gave to the application, and those of its containers in a list |
| `update[p]`, `lastUpdate[p]` | `updateObject`/`updateCursor`, `lastObjectUpdate`/`lastCursorUpdate` |
| `sweeping` | the loop of `removeUntouchedStopped…`, which restarts after every removal |
| `out[p]` | the bundles that the last call sent |

`TuioServerFrames` restricts it to the use that `TuioServer.h:51-73` documents
(changes between `initFrame` and `commitFrame`; modes and full messages at any
time) and adds `told`, what a receiver of all bundles knows.

`TuioClient` is the decoder. Both branches of `ProcessMessage` are one; the steps
are those that can be told apart from outside: `Receive` (up to the
judgement on `fseq`), `ProcessNews` and `ProcessGone` (one element of
`frameCursors` or `frameObjects`, with its callback), `Refresh`. `known` is the
picture of a listener that was registered before `connect`.

`TuioSystem` composes `TuioServerFrames`, a network and an instance of
`TuioClient`. `net` is the sequence of packets under way. `Lossy`
and `Overtaking` choose what the network may do, `MaxStarts` how often the
server may be started.

`TuioClientThreads` has the client's two threads at the grain of the locks: every lock and
unlock, and every statement of `connect` and `disconnect` that the other thread can see,
is a step. `mutex[q]` says who holds a mutex, `wants` and `threadAt` who waits. Of what the
lists hold it has one thing only: whether the bundle will update an object that it found
(`update`) after `disconnect` has emptied the list (`app = "emptied"`), because the search
for that object then ends in `LeaveMissing`, which keeps the mutex (`TuioClient.cpp:227`).
The rest is in `TuioClient`, which takes a bundle's access to a list as
one step, as `LocksExclude` justifies. (`ListsUndisturbed` shows where it does not:
just after `connect`.) `TuioPeriodic` has the threads that
`enablePeriodicMessages` starts. `MCThreads` puts the two side by side, as in a
program that has a client and a server.

`Thermitrack` is the application. `touch` is the part of the state that most handlers change
together: the memory of the server's cursors (`mem`, by address), `cursorList` and
`freeCursorList` as bags of addresses, `maxCursorID`, the remembered cursor, the sticky ones.
A removed cursor whose id is below `maxCursorID` stays allocated and readable on
`freeCursorList` until its id is reused or trimmed, and the address of a deleted one may be
that of a later cursor, as in the code; the operators `Added` and `Removed` are
`addTuioCursor` and `removeTuioCursor` with their reads and deletions. (`TuioServer` need not have
addresses: it is given each cursor for removal once.) `used` is a history variable, which
says how much of the application was used so far. `update()` is
split into a beginning (deletions), one step for each point, and an end (random signal),
and no handler runs in between.

`VectorAnimator` is the animator with its file, `EdgesBox2d` the strokes of the mouse
and the edges of the physics world that are made of them, `LSystem` the interpreter
(`Interpret`, one case per kind of character) next to a definition of what it should draw
(`DrawnExpansion`: expand first, then walk with a stack), `TuioTime` the arithmetic
of times and the clock that uses it: the session that `connect` starts, the frame times of
a server in the same process, the stamp of one container.
`MCSketches` checks the four in one run.

`…Proofs` modules hold the theorems. `MC…` modules only extend the module that TLC
checks; the `.cfg` files give the constants values. Operators whose comment
begins with *Slip* are **mutants**: a definition with a plausible slip of the
code. Each property of a passing run is violated when the slip in
`PROJECT.json` is put in the place of the definition, which shows that the property
has something to say about the code.

### Abstractions

* Positions are a small set without distances, so any free cursor may be the
  closest. Speeds are `0..MaxSpeed`: 0 exactly when the container did not move. The
  acceleration, and with it the state, follows from comparing speeds. Time
  stamps of a container and of the frame are compared as in the code; at
  least a millisecond between updates of one container is assumed
  (`TuioContainer.h:161` divides by the difference).
* A packet holds the alive message and `SetsPerBundle` set messages; in the
  code the limit is the number of bytes left. The test for room is
  made before every container of the list, also before those without a
  set message, as in the code. The list is walked in the order of session ids, which is
  its order unless the application adds containers with older ids.
* Names, symbols, rotation, OSC encoding and verbose output are left out.
  A server whose socket cannot be created is not modelled.
* The application updates a container of its own at most once per frame.
* The client receives bundles whose set messages are all in the alive message, as
  those of a `TuioServer` are. With such bundles an object that is updated is in the list,
  unless `disconnect` empties it within the bundle. `TuioClient` has `disconnect` only
  between bundles and does not have that branch (`TuioClient.cpp:227`);
  `TuioClientThreads` has it, as `LeaveMissing`. The search for a cursor (404-410) has no
  such branch: it goes on without a cursor, which is undefined and not modelled.
* Packets of one profile arrive in the order in which they were sent (`Arriving`), also when
  `Overtaking` lets those of the two profiles overtake each other. UDP promises neither; a full message
  has no number, and an old one that comes after the packet that removed a session brings that
  session back. The client alone (`client_frames`) receives bundles in any order.
* In `TuioClient`, `disconnect` happens between bundles. In `TuioClientThreads` it
  happens at any time; there the mutexes are POSIX mutexes: unlocking frees a mutex whoever
  locked it, one that is destroyed cannot be locked, a locked one is not destroyed. The
  application has one thread, locks a list at most once at a time, holds none while it
  connects or disconnects, and connects again only when the old thread is gone.
* In `Thermitrack` the server's messages are left out (`TuioServer` has them); of a commit
  there is only that it reads the cursors of `cursorList`. The mouse is within ten pixels of all sticky cursors, of some, or of
  none, because sticky positions lie in 0..1. Only the use of memory that was
  deleted ends the behaviour (`broken`), with everything that the application and the server's list
  walks read or delete. Of a point's place there is only whose cursor it is
  (`shows`). A camera reports a point once.
* In `VectorAnimator` a crash while the file is written leaves any number of its first
  frames readable. `FrameInRange` needs no more, and holds as well for a file that is torn
  within a frame and still parses, which is not modelled. The window keeps its size.
  Positions are the classes that text of `x / width` keeps apart; the rounding itself
  (`VectorAnimator.cpp:98`, `:123`) is not modelled.
* In `EdgesBox2d` the mouse has one button and `lines.txt` is there and was written whole.
  `simplify` of openFrameworks may drop any vertices but the first and the last. Once a key
  has emptied the lines within a stroke, the rest of the stroke is undefined (`mode`).
* In `TuioPeriodic` the loop test leaves out `isConnected()`: it is false only without a
  socket, or once the destructor has begun (`TuioServer.cpp:201`), and neither is modelled there.
* In `LSystem` there are three letters, quarter turns, a step that is halved at each level,
  and no noise.
* In `TuioTime` the system clock is not put back; without that assumption `DtRight` would be
  wrong of the code. `ofSession` tells which times were read since the last `connect` of the
  process: those from before and after it are not comparable, and both properties say so.
* The model of the client drops the speed of the first set message of a
  session, because the constructors at `TuioClient.cpp:388` and `:211` take no speed.

## Runs

Every bound is a constant of the `.cfg`. `MaxSession`, `MaxFrame`, `MaxTime`,
`MaxConnects`, `MaxStarts` and `MaxInFlight` bound counters that the code lets grow;
deadlock is not checked because the calls stop at these bounds and because
server and client may be shut down.

| run | asks | bounds and why they are enough |
|---|---|---|
| `server_ids` | do the ids stay consistent, and implement `CursorSlots`? | the calls that change the lists in any order, without those that only send; four sessions of cursors, objects and objects of the application, three frame times: two free ids below an active one, with a third added, and sweeps; holes need three |
| `server_frames` | does a session id ever stand for two things? do the messages say what the server has? type invariant, and the inductive invariant `OnlyNewsUntold` of the proof | two sessions, two places, three frames, packets of one set message (so a frame takes several), heartbeats, all modes, containers of the application |
| `client_ids` | the client's ids, for sessions that come back and over two connections | four sessions, no frame numbers: full messages |
| `client_frames` | do the callbacks of a frame say what its bundle says? is each frame finished? | one profile, two sessions, two places, frame numbers in any order: this includes loss, duplication, reordering and a restarted sender |
| `system_in_order` | does the client show the server? | two cursors, three frames of up to two packets, three packets under way |
| `system_lossy` | does a removed session return? does the client converge? | two cursors, two frames, full messages of two packets of which any may be lost |
| `system_recovers` | does it converge when the server is restarted, and when cursor packets overtake object packets and the reverse? why: does any step take the listener away from a server that rests? | one cursor or object per start, both profiles, three frames, two starts, any packet lost; `MaxTime = 0`: all frames of a start have one time, so containers appear and vanish but do not move, and `OnlyImproves` meets movement and speeds only in `ListenerComesCloser` |
| `threads` | are locks given back, do they exclude, is there no deadlock, do bundles and getters end? do periodic messages go on, and end? | two lists, bundles with three entries (an object is found, its update meets the emptied list, the next entry waits for ever: `LockedOut` is reached), two connections (so a disconnect and a connect meet a thread in every state), two sending threads (the old one and the new one of a quick change) |
| `thermitrack` | which cursors live, who has them, and which are removed twice? | two points, two addresses (so that a new cursor must take a deleted one's), two places for sticky cursors, a free list of three entries (so that one address is in it twice) |
| `sketches` | the animator, the edges, the L-system, times | two frames, three points, files from two crashes; four edges, strokes of three points, of which one may be dropped; all axioms of up to four symbols at depths 0 to 2, with a rule that nests brackets; a clock that shows seven instants around a millisecond and a second, with sessions, frames and updates in every order |

Two runs end in a violation, each of a statement of the sources:

* `client_connect` — the receiving thread begins before `connected` is set, so its first
  locks are skipped, and `connect` then unlocks both mutexes whoever holds them; an
  application that locks a list right after `connect` can meet the thread in it
  ("Locks the TuioCursor list in order to avoid updates during access",
  `TuioClient.h:158`). It heals at the first moment when nobody is in a list
  (`LocksExclude`).
* `thermitrack_deleted` — when a point disappears while another is seen, its cursor stays
  on the server ("delete points that disapeared", `testApp.cpp:67`), because
  `computeDeletePoints` collects new points, not missing ones.

Two more ways in which the code can fail have no line of the sources that denies them in
so many words; the properties name them as exceptions:

* `disconnect` in the middle of a bundle of objects can lock the receiving thread out for ever
  (`LockedOut`). The thread holds `objectMutex` when `disconnect` should destroy it
  (`TuioClient.cpp:498`), so the mutex stays; the list is emptied (507-509); the thread looks for the
  object that it wants to update, does not find it, and leaves the switch without unlocking (227);
  `connected` is still true (it is cleared at 519), so the next `lockObjectList` waits for the
  thread's own mutex. `LocksOwned`, `NoDeadlock` and `BundleEnds` say that this is the only
  case.
* A sticky cursor that `removeTUIOCursor` or `mouseReleased` removes stays in
  `stickyCursorList`. If its id was below `maxCursorID` the server keeps it for reuse, and a click
  on it makes it the remembered cursor again (`testApp.cpp:290`) although it is not shown;
  removed once more, it is on `freeCursorList` twice, and deleted memory is used when its id is
  reused or trimmed. `RemovedOnce` says that without sticky cursors nothing of the kind
  happens.

Behaviour of the code that limits what can be stated, met while modelling: cursors that the
application adds itself make the server give one cursor id twice (`TuioServer.cpp:302`),
so properties of ids assume that it adds none (`"cur"` not in
`ExternalProfiles`; its objects take session ids only and may be there); `disconnect` tells no listener
(`TuioClient.cpp:504`), so `FramesApplied` ends there; both profiles share
`currentFrame`, so an overtaken cursor bundle is discarded, and frames of a restarted
server are discarded until its numbers pass the old ones or are more than 100 behind
(`TuioClient.cpp:299`). Full messages have no number and repair both
(`system_recovers`).

### Fairness

`TuioClient!FairSpec` assumes weak fairness of `ProcessFrame`: the thread that runs
the socket finishes the bundle it began, and nothing in it waits (the mutexes are
not held across callbacks). `FairSystemSpec` assumes in addition weak fairness of
`Sweep` (a loop that the application is in goes on), of `PeriodicMessage`
(`ThreadFunc`, `TuioServer.cpp:28-43`, sends again and again; `SendsAgain` shows that the
threads do so across any disabling and enabling), and strong
fairness of arrivals: of packets that are sent for ever, some arrive, also of those of one
profile, and of those that carry a certain session. Without the last
assumptions a network that loses each second packet of every full message would
keep a cursor from the client for ever. `Converges` says nothing of a server that is
gone: if its farewell is lost, the client shows its cursors for good.

In `TuioClientThreads` both threads go on whenever no mutex keeps them from it
(weak fairness: a mutex is not fair to its waiters, therefore `BundleEnds` and
`GetterReturns` suppose that the other side stops coming back). Nothing makes the
application stop reading, connect or disconnect, and no bundle need arrive. In `TuioPeriodic`
every thread goes on: it never waits for anything but its sleep.

## Proofs

All theorems hold for every value of the constants that satisfies the named
assumptions (`ServerAssumption`, …): any number of sessions, places,
frames, any packet size. Where a theorem supposes more, it says so before its `PROVE`.

* `CursorPoolProofs`: what `AddCursor` and `RemoveCursor` do to a pool.
  `FullUnlessReuse` is the heart: in a consistent pool, if no id is reused, then the
  free list is empty and the active ids are exactly `0..max`, so the size of the list
  is the next id. `AddCursorConsistent`, `RemoveCursorConsistent` and
  `AddCursorFillsGaps` follow.
* `TuioServerProofs`: `TypeCorrect`, `SessionIdsUnique`, `CursorIdsCorrect`
  and `SlotsImplemented` (refinement of `CursorSlots`). `SessionSteps`
  sorts the actions by what they do to the sessions (none, one enters, one leaves,
  …), which the later proofs split on. `CursorIdsConsistent` is not inductive
  alone: `IdsInv` adds the types, unique sessions and that (`OwnOnly`) no cursor of
  the list is the application's.
* `TuioServerFramesProofs`: `CommitTells`. `CommitTellsAll` says nothing of
  the states within a frame; the inductive invariant is `OnlyNewsUntold`: what was not
  told yet was touched in this frame and the flag of its profile is set. `PacketsCover`
  and `HearBundles` show that the packets of a split frame together say what one
  packet would.
* `TuioClientProofs`: `TypeCorrect`, `CursorIdsCorrect`, `SlotsImplemented` and
  `CallbacksAddUp`. A session may return while its old cursor waits in the free list,
  so that list is named by ids; that these names are right (`FreeNamedByIds`), and that a
  disconnected client has neither active nor free cursors, completes the
  inductive invariant. `AddToEmpty` is where the stale `maxCursorID` is
  repaired. `CallbacksAddUp` needs in addition `ListenerKnows`: from the first
  `connect` to the first `disconnect` the listener knows what the lists hold. After a
  disconnect it does not: no callback is made.
* `TuioClientThreadsProofs`: `LocksGivenBack` and `LocksProtect`. Who is in a list without
  its mutex can only be left from the time before `connected` was set; the inductive
  invariant says that this is over once `settled` holds, and that from then on everyone
  in a list holds its mutex until `Break`. `NobodyDeadlocks` (`NoDeadlock`): who waits for a
  mutex waits for the other thread inside that list, and who is inside waits for nothing; or it
  is the receiving thread, locked out by `disconnect`.
  It is not inductive alone: `Waits` adds that the application waits only while connected and
  never for a list it reads, holds none once `disconnect` destroys, and that a thread that
  meets `connected` false finds its lock free, because locking is then skipped. The exception of
  `LocksOwned` is confined by the place of `disconnect` (`app = "emptied"`): before it nothing is
  left locked, and after it `connected` is false.
* `TuioSystemProofs`: server, network and client together.
  `ClientShowsServerInOrder` (`ClientShowsServer`) supposes a network that neither loses
  packets nor lets them overtake, one start of the server, and no containers of the
  application: one of those that is removed and added again with its session within a frame
  arrives as a cursor that moved with speed 0, for which the client computes a speed of its
  own. The inductive invariant `InOrderInv` says that the packets under way lead from what
  the client shows to what was told (`Path`: one outlook per packet, as the witness of an
  existential quantifier), that the client takes each set message as it is
  (`NewsTaken`, `ListsTaken`), and that no packet under way will be judged late
  (`Numbered`). With `FramesInv` of the server, what was told is what it has.
  `SessionsNeverReturn` (`NoSessionReturns`) holds under any loss, and with any overtaking
  between the two profiles; packets of one profile arrive in order (see *Abstractions*: it would
  not hold otherwise). It supposes one start and no containers of the application, which may bring their sessions
  back. Its invariant `MetOnceInv` follows the sessions that are alive in the packets
  of a profile: what a later packet, the list or the listener has dropped never comes again.
  Both invariants were model-checked on instances like those of the runs before they were proved.
  The rest of the module shows that the parts keep in the system what they promise alone:
  `ServersKeepPromises`, `ClientKeepsPromises` and `CallbacksAddUpInSystem`, over any number
  of starts and whatever the network loses or delays, `ServerInSystem` (the server's steps are those
  of `TuioServerFrames`; for one start) and `ClientInSystem` (the client's steps are those of
  `TuioClient`: every packet is a bundle as it expects it). `FramesImplementServer`, in
  `TuioServerFramesProofs`, continues this chain to `TuioServer`.
  `ListenerComesCloser` (`OnlyImproves`) is the safety half of `Converges`, for any network, any
  number of starts, and containers of the application too. `Lag` counts the messages that the
  listener still needs of a session: two when it is new or moved, since a container that is
  added starts with speed 0 and a full message without speed makes the client compute one.
  `UpToDate` says that every packet under way, and what is left of the frame being decoded,
  tells what the server has. The theorem: from a state that is up to date, a step that leaves
  the lists alone keeps it so (`NetStaysCurrent`, `StaysUpToDate`), never makes a lag greater,
  and makes it smaller when a message of that session is taken (`ArrivalInforms`, `NewsCloser`,
  `GoneCloser`). The invariant is that of the client, with its connection (`ShownInv`): the
  lag is one of the listener's copy, the steps go by the client's lists, and the two are equal.
  What is left to TLC is that enough messages come: fairness.
* `ThermitrackProofs`: one invariant, `IsTouch` (the shape of `touch`) with `Alive` (what
  `CursorAlive` says of it), and one lemma per helper operator, `Works`: its outcome is broken
  or of that shape and alive, and the cursors that nobody points to are kept with their memory
  (`Keeps`). `RememberedAlive` and `ForgottenForGood` follow, with sticky cursors as
  well. `EachRemovedOnce` (`RemovedOnce`) is not inductive alone: `CleanInv` says what is true
  up to the first sticky cursor (`Clean`): the lists hold no deleted cursor and share none,
  each cursor is on one of them once, and a remembered cursor is on `cursorList`, so that
  `removeTuioCursor` is given it once. `OnePointShown`: between two updates, `OneTouchShown` is no
  invariant of the steps; `OneTouchInv` says what the server shows at each point of
  `update()`, before the new point was looked at and after.
* `SketchesProofs`: `FramesExist` (with the frames in the file counted) and
  `AnimationKept` (after an exit the file is whole and holds the frames; rounding aside) of the animator;
  `SavedAsDrawn` (`LinesAreEdges`) of the edges, whose invariant `EdgesInv` adds that lines, edges and
  file are sequences of the same things and that nothing is left of a stroke when the program is off; `SumsAreRight` (`TimesRight`) and
  `DtIsPositive` (`DtRight`), for any instants of the clock. Their invariant `ClockInv` says
  which instant each time stands for, counted from the start of the session it was read in;
  `EqualTimes` (times in normal form are equal exactly if they stand for the same instant) and
  `MillisecondsBetween` carry this to `==` and to `dt`.

Only model-checked: liveness (`FrameEnds`, `Converges`, `BundleEnds`, `GetterReturns`,
`SendsAgain`, `Subsides`), which is beyond the prover, `FiguresAreExpansions`, because
`LSystem` is recursive, and `TypeOK` of `Thermitrack`. The runs of `ClientShowsServer` and `NoSessionReturns` make the same
assumptions as their theorems; nothing is shown of either with several starts.

## Not modelled

* Walks over lists that another thread changes (`TuioServer.cpp:35`, `:206`,
  `TuioClient.cpp:507`): their outcome is undefined. What the locks promise, and when, is
  modelled.
* Blobs (`TuioBlob.h`; none is ever made), rotation of objects, several listeners and changes
  of the listener list during a callback.
* The kinectTUIO application (four OSC messages per blob, nothing kept), KinectToObj
  (its exporter is never called; the directory holds a copy of Boost, more lines than
  everything else together), FaceTrackBox2d (its OSC bundle is never sent),
  oscToDrawRibbons (one growing list of points), the recorders and ps3eyeMesh
  (one update per frame around a sensor's library).
* The boxes and the sound of EdgesBox2d: one number that the audio callback writes and
  `update` reads, in a physics engine that is not in the repository.
* The graphics sketches: each frame is a function of its input, no two parties share
  state. Vendored libraries, and the visual system of `LSystem-master`, which comes from
  another project.

The share of the repository's lines that is modelled is therefore small: nearly all of them
belong to the copies of Boost and of other libraries.
