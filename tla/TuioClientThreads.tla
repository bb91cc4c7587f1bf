-------------------------- MODULE TuioClientThreads -------------------------
(***************************************************************************)
(* The two threads of a TuioClient and its two mutexes (TuioClient.cpp).   *)
(* The thread that connect() starts runs the socket; every element of a    *)
(* bundle makes it enter a list under the mutex of that list.  The         *)
(* application connects, disconnects, and reads the lists through the      *)
(* getters or between lockObjectList/lockCursorList and the unlocks.       *)
(*                                                                         *)
(* What the lists hold is left to TuioClient; here only who is in them,    *)
(* and whether a bundle is about to update an object that disconnect() has *)
(* taken away.                                                             *)
(* A listener's callback holds no mutex; a getter that it calls is one     *)
(* more entry of the thread.                                               *)
(***************************************************************************)
EXTENDS Integers

CONSTANTS
  Profiles,      \* a list and a mutex each: "cur" and "obj"
  MaxEntries,    \* bound: how often a bundle enters a list
  MaxConnects    \* bound: connections

ASSUME ThreadsAssumption ==
  /\ "obj" \in Profiles
  /\ MaxEntries \in Nat
  /\ MaxConnects \in Nat

None == "none"
ASSUME NoneAssumption == None \notin Profiles

VARIABLES
  mutex,      \* per profile: "free", who locked it, or "destroyed"
  connected,  \* read without a lock by all four functions that lock and unlock
  app,        \* how far connect() or disconnect() is, "idle" outside of them;
              \* "emptied": the lists are empty, the client still connected
  wants,      \* the profile whose mutex the application waits for, or None
  reads,      \* the profiles whose list the application reads
  threadAt,   \* "off", "waiting" for a bundle, or where it is in one:
              \* "between" two entries, "entering" or "inside" a list
  list,       \* the profile of that list
  left,       \* entries that the bundle still makes
  update,     \* an update that the bundle will make of an object: "none" so far,
              \* "found" in this entry to objectList, or "made" in an earlier one
  breaking,   \* socket->Break() was called
  connects,   \* number of connections so far
  settled     \* since connect() there was a moment with nobody in a list

vars == <<mutex, connected, app, wants, reads, threadAt, list, left, update,
          breaking, connects, settled>>

appVars    == <<app, wants, reads, connects>>
threadVars == <<threadAt, list, left, update>>

-----------------------------------------------------------------------------
Init ==
  /\ mutex = [q \in Profiles |-> "destroyed"]
  /\ connected = FALSE
  /\ app = "idle" /\ wants = None /\ reads = {}
  /\ threadAt = "off" /\ list = None /\ left = 0 /\ update = "none"
  /\ breaking = FALSE
  /\ connects = 0
  /\ settled = FALSE

\* pthread_mutex_unlock frees the mutex, whoever locked it.
Unlocked(q) == IF mutex[q] = "destroyed" THEN mutex ELSE [mutex EXCEPT ![q] = "free"]

\* pthread_mutex_lock returns at once, without a lock, for a destroyed mutex.
CanLock(q) == mutex[q] \in {"free", "destroyed"}

Locked(q, who) == IF mutex[q] = "free" THEN [mutex EXCEPT ![q] = who] ELSE mutex

\* The locks mean what they should from the first moment on at which the client
\* is connected and nobody is in a list.
Settles ==
  settled' = (settled \/ (connected /\ app' = "idle" /\ threadAt' # "inside" /\ reads' = {}))

-----------------------------------------------------------------------------
(* The thread. *)

ReceiveBundle ==
  /\ threadAt = "waiting" /\ ~ breaking
  /\ threadAt' = "between"
  /\ left' \in 1..MaxEntries
  /\ UNCHANGED <<mutex, connected, appVars, list, update, breaking, settled>>

\* lockCursorList or lockObjectList looks at connected, and returns without a
\* lock if it is FALSE.
EnterList ==
  /\ threadAt = "between" /\ left > 0
  /\ list' \in Profiles
  /\ left' = left - 1
  /\ threadAt' = IF connected THEN "entering" ELSE "inside"
  /\ UNCHANGED <<mutex, connected, appVars, update, breaking, settled>>

ThreadLocks ==
  /\ threadAt = "entering"
  /\ CanLock(list)
  /\ mutex' = Locked(list, "thread")
  /\ threadAt' = "inside"
  /\ UNCHANGED <<connected, appVars, list, left, update, breaking, settled>>

\* A set message that finds its object in objectList makes an update of it, for
\* which the thread looks in that list once more.
FindObject ==
  /\ threadAt = "inside" /\ list = "obj"
  /\ update = "none" /\ app # "emptied"
  /\ update' = "found"
  /\ UNCHANGED <<mutex, connected, appVars, threadAt, list, left, breaking, settled>>

\* Slip (see README, mutants): a path out of the list that keeps the mutex.
LeaveListLocked ==
  /\ threadAt = "inside"
  /\ mutex' \in {mutex, IF connected THEN Unlocked(list) ELSE mutex}
  /\ threadAt' = "between"
  /\ update' = IF update = "found" THEN "made" ELSE update
  /\ UNCHANGED <<connected, appVars, list, left, breaking>>
  /\ Settles

\* Slip (see README, mutants): the mutex of the other profile is unlocked.
LeaveListOther ==
  /\ threadAt = "inside"
  /\ mutex' = IF connected
                THEN [q \in Profiles |->
                        IF q = list \/ mutex[q] = "destroyed" THEN mutex[q] ELSE "free"]
                ELSE mutex
  /\ threadAt' = "between"
  /\ update' = IF update = "found" THEN "made" ELSE update
  /\ UNCHANGED <<connected, appVars, list, left, breaking>>
  /\ Settles

\* unlockCursorList or unlockObjectList.
LeaveList ==
  /\ threadAt = "inside"
  /\ mutex' = IF connected THEN Unlocked(list) ELSE mutex
  /\ threadAt' = "between"
  /\ update' = IF update = "found" THEN "made" ELSE update
  /\ UNCHANGED <<connected, appVars, list, left, breaking>>
  /\ Settles

\* The object is not in the list any more: the switch is left without an unlock
\* (TuioClient.cpp:227).
LeaveMissing ==
  /\ threadAt = "inside" /\ list = "obj"
  /\ update = "made" /\ app = "emptied"
  /\ threadAt' = "between"
  /\ UNCHANGED <<mutex, connected, appVars, list, left, update, breaking>>
  /\ Settles

EndBundle ==
  /\ threadAt = "between" /\ left = 0
  /\ threadAt' = "waiting"
  /\ update' = "none"
  /\ UNCHANGED <<mutex, connected, appVars, list, left, breaking, settled>>

\* socket->Run() returns after Break().
StopThread ==
  /\ threadAt = "waiting" /\ breaking
  /\ threadAt' = "off"
  /\ UNCHANGED <<mutex, connected, appVars, list, left, update, breaking, settled>>

ThreadNext ==
  \/ ReceiveBundle \/ EnterList \/ ThreadLocks
  \/ FindObject \/ LeaveList \/ LeaveMissing
  \/ EndBundle \/ StopThread

\* What the thread does once it has a bundle, and at its end.
ThreadGoesOn ==
  EnterList \/ ThreadLocks \/ LeaveList \/ LeaveMissing \/ EndBundle \/ StopThread

-----------------------------------------------------------------------------
(* The application. *)

Ready == app = "idle" /\ wants = None

\* connect() begins: the mutexes are made and the thread is started while
\* connected is still FALSE.  An application connects again only when the
\* thread of the last connection is gone.
StartThread ==
  /\ Ready /\ reads = {} /\ ~ connected /\ threadAt = "off"
  /\ connects < MaxConnects
  /\ mutex' = [q \in Profiles |-> "free"]
  /\ threadAt' = "waiting"
  /\ breaking' = FALSE
  /\ app' = "starting"
  /\ connects' = connects + 1
  /\ UNCHANGED <<connected, wants, reads, list, left, update, settled>>

SetConnected ==
  /\ app = "starting"
  /\ connected' = TRUE
  /\ app' = "unlocking"
  /\ UNCHANGED <<mutex, wants, reads, connects, threadVars, breaking, settled>>

\* The end of connect(): both mutexes are unlocked, the cursors' first.
UnlockFirst ==
  /\ app = "unlocking"
  /\ mutex' = IF "cur" \in Profiles THEN Unlocked("cur") ELSE mutex
  /\ app' = "unlocking objects"
  /\ UNCHANGED <<connected, wants, reads, connects, threadVars, breaking, settled>>

UnlockSecond ==
  /\ app = "unlocking objects"
  /\ mutex' = Unlocked("obj")
  /\ app' = "idle"
  /\ UNCHANGED <<connected, wants, reads, connects, threadVars, breaking>>
  /\ Settles

\* disconnect() begins with Break(), which does not wait for the thread.
Break ==
  /\ Ready /\ reads = {} /\ connected
  /\ breaking' = TRUE
  /\ app' = "destroying"
  /\ settled' = FALSE
  /\ UNCHANGED <<mutex, connected, wants, reads, connects, threadVars>>

\* pthread_mutex_destroy refuses a mutex that is locked.
DestroyMutexes ==
  /\ app = "destroying"
  /\ mutex' = [q \in Profiles |-> IF mutex[q] = "free" THEN "destroyed" ELSE mutex[q]]
  /\ app' = "clearing"
  /\ UNCHANGED <<connected, wants, reads, connects, threadVars, breaking, settled>>

\* The lists are emptied, while the client still counts as connected.
ClearLists ==
  /\ app = "clearing"
  /\ app' = "emptied"
  /\ UNCHANGED <<mutex, connected, wants, reads, connects, threadVars, breaking, settled>>

\* The end of disconnect().
SetDisconnected ==
  /\ app = "emptied"
  /\ connected' = FALSE
  /\ app' = "idle"
  /\ UNCHANGED <<mutex, wants, reads, connects, threadVars, breaking, settled>>

\* A getter, lockObjectList or lockCursorList is called.  A list that the
\* application has locked is not locked once more: the mutex is not recursive.
ReadList(q) ==
  /\ Ready /\ q \notin reads
  /\ IF connected THEN wants' = q /\ UNCHANGED reads
                  ELSE reads' = reads \cup {q} /\ UNCHANGED wants
  /\ UNCHANGED <<mutex, connected, app, connects, threadVars, breaking, settled>>

\* Slip (see README, mutants): the mutex is not waited for.
AppLocksAtOnce ==
  /\ wants # None
  /\ mutex' = [mutex EXCEPT ![wants] = "app"]
  /\ wants' = None
  /\ reads' = reads \cup {wants}
  /\ UNCHANGED <<connected, app, connects, threadVars, breaking, settled>>

AppLocks ==
  /\ wants # None
  /\ CanLock(wants)
  /\ mutex' = Locked(wants, "app")
  /\ wants' = None
  /\ reads' = reads \cup {wants}
  /\ UNCHANGED <<connected, app, connects, threadVars, breaking, settled>>

\* Slip (see README, mutants): an early return of a getter keeps the mutex.
StopReadingLocked(q) ==
  /\ Ready /\ q \in reads
  /\ reads' = reads \ {q}
  /\ mutex' \in {mutex, IF connected THEN Unlocked(q) ELSE mutex}
  /\ UNCHANGED <<connected, app, wants, connects, threadVars, breaking>>
  /\ Settles

\* A getter returns, or the application unlocks the list.
StopReading(q) ==
  /\ Ready /\ q \in reads
  /\ reads' = reads \ {q}
  /\ mutex' = IF connected THEN Unlocked(q) ELSE mutex
  /\ UNCHANGED <<connected, app, wants, connects, threadVars, breaking>>
  /\ Settles

AppNext ==
  \/ StartThread \/ SetConnected \/ UnlockFirst \/ UnlockSecond
  \/ Break \/ DestroyMutexes \/ ClearLists \/ SetDisconnected
  \/ AppLocks
  \/ \E q \in Profiles : ReadList(q) \/ StopReading(q)

Next == ThreadNext \/ AppNext

Spec == Init /\ [][Next]_vars

\* Both threads run whenever nothing keeps them from it.  The application need
\* not ask for a list, stop reading one, connect or disconnect.
Fairness ==
  /\ WF_vars(ThreadGoesOn)
  /\ WF_vars(\/ SetConnected \/ UnlockFirst \/ UnlockSecond
             \/ DestroyMutexes \/ ClearLists \/ SetDisconnected)
  /\ WF_vars(AppLocks)

FairSpec == Spec /\ Fairness

-----------------------------------------------------------------------------
TypeOK ==
  /\ mutex \in [Profiles -> {"free", "thread", "app", "destroyed"}]
  /\ connected \in BOOLEAN
  /\ app \in {"idle", "starting", "unlocking", "unlocking objects",
              "destroying", "clearing", "emptied"}
  /\ wants \in Profiles \cup {None}
  /\ reads \subseteq Profiles
  /\ threadAt \in {"off", "waiting", "between", "entering", "inside"}
  /\ list \in Profiles \cup {None}
  /\ threadAt \in {"entering", "inside"} => list \in Profiles
  /\ left \in 0..MaxEntries
  /\ update \in {"none", "found", "made"}
  /\ breaking \in BOOLEAN
  /\ connects \in 0..MaxConnects
  /\ settled \in BOOLEAN

ThreadIn(q) == threadAt = "inside" /\ list = q

\* No path through the client leaves a mutex locked behind it: while a client is
\* connected, who holds the mutex of a list is in that list.  There is one
\* exception, the thread that comes to objectList between the moment at which
\* disconnect() has emptied it and the moment at which it clears connected.
LocksOwned ==
  connected => \A q \in Profiles :
    /\ mutex[q] = "thread" => ThreadIn(q) \/ (q = "obj" /\ app = "emptied")
    /\ mutex[q] = "app" => q \in reads

\* From the first moment after connect() at which nobody is in a list, and until
\* disconnect(), the application never reads a list that the thread is changing.
LocksExclude == settled => \A q \in Profiles : ~ (ThreadIn(q) /\ q \in reads)

ThreadWaits == threadAt = "entering" /\ ~ CanLock(list)

AppWaits == wants # None /\ ~ CanLock(wants)

\* The receiving thread waits for a mutex that it holds itself.
LockedOut == ThreadWaits /\ mutex[list] = "thread"

\* Whoever waits for a mutex waits for the other one, who is in that list and can
\* give it back: the thread for an application that is reading, while unlocking
\* still unlocks, and the application for a thread that is inside.  So they never
\* wait both, in any order of the two lists and also while connect() or
\* disconnect() is on.  Only disconnect() can lock the thread out of objectList,
\* with a mutex that the thread has kept.
NoDeadlock ==
  /\ ThreadWaits => \/ connected /\ list \in reads
                    \/ LockedOut /\ list = "obj" /\ breaking
  /\ AppWaits => ThreadIn(wants)

\* "Locks the TuioCursor list in order to avoid updates during access"
\* (TuioClient.h:158), from the moment on at which connect() has returned.
ListsUndisturbed ==
  connected /\ app = "idle" => \A q \in Profiles : ~ (ThreadIn(q) /\ q \in reads)

\* Unless the application keeps a list for ever or comes back to it for ever, the
\* thread gets through every bundle, and ends after disconnect(), if disconnect()
\* has not locked it out.
BundleEnds ==
  <>[](reads = {}) =>
     /\ []<>(threadAt \in {"waiting", "off"} \/ LockedOut)
     /\ breaking ~> (threadAt = "off" \/ ~ breaking \/ LockedOut)

\* Unless bundles come for ever, every getter gets its lock.
GetterReturns == <>[](threadAt \in {"waiting", "off"}) => []<>(wants = None)
=============================================================================
