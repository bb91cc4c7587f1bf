---------------------- MODULE TuioClientThreadsProofs -----------------------
(***************************************************************************)
(* The locks of a TuioClient: they are given back, until disconnect() has  *)
(* emptied the lists, and from the first quiet moment after connect() on   *)
(* they keep application and thread apart, for any number of lists,        *)
(* entries and connections.                                                *)
(***************************************************************************)
EXTENDS TuioClientThreads, TLAPS

USE ThreadsAssumption, NoneAssumption

(***************************************************************************)
(* While connect() has not yet set connected, nobody holds or waits for a  *)
(* mutex; the application waits for none in the middle of its own calls.   *)
(***************************************************************************)
Calls ==
  /\ app = "starting" => ~ connected /\ threadAt # "entering"
  /\ app = "starting" => \A q \in Profiles : mutex[q] = "free"
  /\ app # "idle" => wants = None
  /\ app \in {"unlocking", "unlocking objects"} \/ (connected /\ app = "idle") =>
       \A q \in Profiles : mutex[q] # "destroyed"
  /\ app \in {"destroying", "clearing", "emptied"} => connected

\* From that quiet moment on whoever is in a list holds its mutex.
HoldsLock ==
  settled =>
    /\ connected /\ app = "idle"
    /\ \A q \in Profiles : /\ ThreadIn(q) => mutex[q] = "thread"
                           /\ q \in reads => mutex[q] = "app"

LocksInv == TypeOK /\ Calls /\ LocksOwned /\ HoldsLock

(***************************************************************************)
(* The application waits for a list only while it is connected, and for    *)
(* none that it reads; it ends a connection without reading any; and the   *)
(* thread, when it comes late to a mutex of an ended connection, finds it  *)
(* free or destroyed, unless disconnect() has locked it out.               *)
(***************************************************************************)
Waits ==
  /\ wants # None => connected /\ wants \notin reads
  /\ app \in {"destroying", "clearing", "emptied"} => reads = {}
  /\ app \in {"destroying", "clearing", "emptied"} => breaking
  /\ threadAt = "entering" /\ ~ connected =>
       CanLock(list) \/ (mutex[list] = "thread" /\ list = "obj" /\ breaking)

-----------------------------------------------------------------------------
\* Every step keeps the types.
LEMMA TypeStep == TypeOK /\ [Next]_vars => TypeOK'
<1> SUFFICES ASSUME TypeOK, [Next]_vars PROVE TypeOK'
  OBVIOUS
<1>1. CASE ReceiveBundle
  <2>1. left' \in 0..MaxEntries
    BY <1>1 DEF ReceiveBundle
  <2> QED
    BY <1>1, <2>1 DEF TypeOK, ReceiveBundle, appVars
<1>2. CASE EnterList
  <2>1. left \in 0..MaxEntries /\ left > 0 /\ left' = left - 1
    BY <1>2 DEF TypeOK, EnterList
  <2>2. left' \in 0..MaxEntries
    BY <2>1
  <2> QED
    BY <1>2, <2>2 DEF TypeOK, EnterList, appVars
<1>3. CASE ThreadLocks
  BY <1>3 DEF TypeOK, ThreadLocks, CanLock, Locked, appVars, threadVars
<1>4. CASE LeaveList
  BY <1>4 DEF TypeOK, LeaveList, Unlocked, Settles, appVars, threadVars
<1>5. CASE EndBundle
  BY <1>5 DEF TypeOK, EndBundle, appVars, threadVars
<1>6. CASE StopThread
  BY <1>6 DEF TypeOK, StopThread, appVars, threadVars
<1>7. CASE StartThread
  <2>1. connects \in 0..MaxConnects /\ connects < MaxConnects /\ connects' = connects + 1
    BY <1>7 DEF TypeOK, StartThread
  <2>2. connects' \in 0..MaxConnects
    BY <2>1
  <2>3. mutex' \in [Profiles -> {"free", "thread", "app", "destroyed"}]
    BY <1>7 DEF StartThread
  <2> QED
    BY <1>7, <2>2, <2>3 DEF TypeOK, StartThread
<1>8. CASE SetConnected
  BY <1>8 DEF TypeOK, SetConnected, appVars, threadVars
<1>9. CASE UnlockFirst
  BY <1>9 DEF TypeOK, UnlockFirst, Unlocked, appVars, threadVars
<1>10. CASE UnlockSecond
  BY <1>10 DEF TypeOK, UnlockSecond, Unlocked, Settles, appVars, threadVars
<1>11. CASE Break
  BY <1>11 DEF TypeOK, Break, Ready, appVars, threadVars
<1>12. CASE DestroyMutexes
  BY <1>12 DEF TypeOK, DestroyMutexes, appVars, threadVars
<1>13. CASE ClearLists
  BY <1>13 DEF TypeOK, ClearLists, appVars, threadVars
<1>14. CASE AppLocks
  BY <1>14 DEF TypeOK, AppLocks, CanLock, Locked, appVars, threadVars
<1>15. ASSUME NEW q \in Profiles, ReadList(q) PROVE TypeOK'
  BY <1>15 DEF TypeOK, ReadList, Ready, threadVars
<1>16. ASSUME NEW q \in Profiles, StopReading(q) PROVE TypeOK'
  BY <1>16 DEF TypeOK, StopReading, Ready, Unlocked, Settles, threadVars
<1>17. CASE LeaveMissing
  BY <1>17 DEF TypeOK, LeaveMissing, Settles, appVars, threadVars
<1>18. CASE SetDisconnected
  BY <1>18 DEF TypeOK, SetDisconnected, appVars, threadVars
<1>19. CASE FindObject
  BY <1>19 DEF TypeOK, FindObject, appVars
<1>20. CASE UNCHANGED vars
  BY <1>20 DEF TypeOK, vars, appVars, threadVars
<1> QED
  BY <1>1, <1>2, <1>3, <1>4, <1>5, <1>6, <1>7, <1>8, <1>9, <1>10, <1>11,
     <1>12, <1>13, <1>14, <1>15, <1>16, <1>17, <1>18, <1>19, <1>20 DEF Next, ThreadNext, AppNext

\* Every step keeps what is known of calls and locks.
LEMMA LocksStep == LocksInv /\ [Next]_vars => (Calls /\ LocksOwned /\ HoldsLock)'
<1> SUFFICES ASSUME LocksInv, [Next]_vars PROVE (Calls /\ LocksOwned /\ HoldsLock)'
  OBVIOUS
<1>1. CASE ReceiveBundle
  BY <1>1 DEF LocksInv, TypeOK, Calls, LocksOwned, HoldsLock, ThreadIn, ReceiveBundle, appVars, threadVars
<1>2. CASE EnterList
  BY <1>2 DEF LocksInv, TypeOK, Calls, LocksOwned, HoldsLock, ThreadIn, EnterList, appVars, threadVars
<1>3. CASE ThreadLocks
  <2>1. Calls'
    BY <1>3 DEF LocksInv, TypeOK, Calls, LocksOwned, HoldsLock, ThreadIn, ThreadLocks, CanLock, Locked, appVars, threadVars
  <2>2. LocksOwned'
    BY <1>3 DEF LocksInv, TypeOK, LocksOwned, ThreadIn, ThreadLocks, CanLock, Locked, appVars
  <2>3. HoldsLock'
    BY <1>3 DEF LocksInv, TypeOK, Calls, LocksOwned, HoldsLock, ThreadIn, ThreadLocks, CanLock, Locked, appVars, threadVars
  <2> QED
    BY <2>1, <2>2, <2>3
<1>4. CASE LeaveList
  <2>1. /\ threadAt = "inside" /\ list \in Profiles /\ threadAt' = "between"
        /\ mutex' = IF connected THEN Unlocked(list) ELSE mutex
        /\ connected' = connected /\ app' = app /\ wants' = wants /\ reads' = reads
    BY <1>4 DEF LocksInv, TypeOK, LeaveList, Settles, appVars
  <2>2. /\ Calls /\ LocksOwned /\ HoldsLock /\ list' = list
        /\ mutex \in [Profiles -> {"free", "thread", "app", "destroyed"}]
    BY <1>4 DEF LocksInv, TypeOK, LeaveList
  <2>3. \A q \in Profiles : mutex'[q] = IF connected /\ q = list /\ mutex[q] # "destroyed"
                                         THEN "free" ELSE mutex[q]
    BY <2>1, <2>2 DEF Unlocked
  <2>4. Calls'
    BY <2>1, <2>2, <2>3 DEF Calls
  <2>5. LocksOwned'
    BY <2>1, <2>2, <2>3 DEF LocksOwned, ThreadIn
  <2>6. settled' => settled \/ (connected /\ app = "idle" /\ reads = {})
    BY <1>4, <2>1 DEF LeaveList, Settles
  <2>7. ASSUME settled' PROVE connected' /\ app' = "idle"
    BY <2>1, <2>2, <2>6, <2>7 DEF HoldsLock
  <2>8. ASSUME settled', NEW q \in Profiles, q \in reads PROVE mutex'[q] = "app"
    <3>1. settled
      BY <2>6, <2>8
    <3>2. mutex[q] = "app" /\ mutex[list] = "thread"
      BY <2>1, <2>2, <2>8, <3>1 DEF HoldsLock, ThreadIn
    <3> QED
      BY <2>3, <3>2
  <2>9. HoldsLock'
    BY <2>1, <2>7, <2>8 DEF HoldsLock, ThreadIn
  <2> QED
    BY <2>4, <2>5, <2>9
<1>5. CASE EndBundle
  BY <1>5 DEF LocksInv, TypeOK, Calls, LocksOwned, HoldsLock, ThreadIn, EndBundle, appVars, threadVars
<1>6. CASE StopThread
  BY <1>6 DEF LocksInv, TypeOK, Calls, LocksOwned, HoldsLock, ThreadIn, StopThread, appVars, threadVars
<1>7. CASE StartThread
  BY <1>7 DEF LocksInv, TypeOK, Calls, LocksOwned, HoldsLock, ThreadIn, StartThread, Ready, appVars, threadVars
<1>8. CASE SetConnected
  BY <1>8 DEF LocksInv, TypeOK, Calls, LocksOwned, HoldsLock, ThreadIn, SetConnected, appVars, threadVars
<1>9. CASE UnlockFirst
  BY <1>9 DEF LocksInv, TypeOK, Calls, LocksOwned, HoldsLock, ThreadIn, UnlockFirst, Unlocked, appVars, threadVars
<1>10. CASE UnlockSecond
  BY <1>10 DEF LocksInv, TypeOK, Calls, LocksOwned, HoldsLock, ThreadIn, UnlockSecond, Unlocked, Settles, appVars, threadVars
<1>11. CASE Break
  BY <1>11 DEF LocksInv, TypeOK, Calls, LocksOwned, HoldsLock, ThreadIn, Break, Ready, appVars, threadVars
<1>12. CASE DestroyMutexes
  BY <1>12 DEF LocksInv, TypeOK, Calls, LocksOwned, HoldsLock, ThreadIn, DestroyMutexes, appVars, threadVars
<1>13. CASE ClearLists
  BY <1>13 DEF LocksInv, TypeOK, Calls, LocksOwned, HoldsLock, ThreadIn, ClearLists, appVars, threadVars
<1>14. CASE AppLocks
  BY <1>14 DEF LocksInv, TypeOK, Calls, LocksOwned, HoldsLock, ThreadIn, AppLocks, CanLock, Locked, appVars, threadVars
<1>15. ASSUME NEW q \in Profiles, ReadList(q) PROVE (Calls /\ LocksOwned /\ HoldsLock)'
  BY <1>15 DEF LocksInv, TypeOK, Calls, LocksOwned, HoldsLock, ThreadIn, ReadList, Ready, threadVars
<1>16. ASSUME NEW q \in Profiles, StopReading(q) PROVE (Calls /\ LocksOwned /\ HoldsLock)'
  BY <1>16 DEF LocksInv, TypeOK, Calls, LocksOwned, HoldsLock, ThreadIn, StopReading, Ready, Unlocked, Settles, threadVars
<1>17. CASE LeaveMissing
  BY <1>17 DEF LocksInv, TypeOK, Calls, LocksOwned, HoldsLock, ThreadIn, LeaveMissing, Settles, appVars, threadVars
<1>18. CASE SetDisconnected
  BY <1>18 DEF LocksInv, TypeOK, Calls, LocksOwned, HoldsLock, ThreadIn, SetDisconnected, appVars, threadVars
<1>19. CASE FindObject
  BY <1>19 DEF LocksInv, TypeOK, Calls, LocksOwned, HoldsLock, ThreadIn, FindObject, appVars
<1>20. CASE UNCHANGED vars
  BY <1>20 DEF LocksInv, TypeOK, Calls, LocksOwned, HoldsLock, ThreadIn, vars, appVars, threadVars
<1> QED
  BY <1>1, <1>2, <1>3, <1>4, <1>5, <1>6, <1>7, <1>8, <1>9, <1>10, <1>11,
     <1>12, <1>13, <1>14, <1>15, <1>16, <1>17, <1>18, <1>19, <1>20 DEF Next, ThreadNext, AppNext

\* Together this is an inductive invariant.
LEMMA LocksInvariant == Spec => []LocksInv
<1>1. Init => LocksInv
  <2> SUFFICES ASSUME Init PROVE LocksInv
    OBVIOUS
  <2>1. 0 \in 0..MaxEntries /\ 0 \in 0..MaxConnects
    OBVIOUS
  <2>2. mutex \in [Profiles -> {"free", "thread", "app", "destroyed"}]
    BY DEF Init
  <2>3. TypeOK
    BY <2>1, <2>2 DEF Init, TypeOK
  <2> QED
    BY <2>3 DEF Init, LocksInv, Calls, LocksOwned, HoldsLock, ThreadIn
<1>2. LocksInv /\ [Next]_vars => LocksInv'
  BY TypeStep, LocksStep DEF LocksInv
<1> QED
  BY <1>1, <1>2, PTL DEF Spec

(***************************************************************************)
(* Whoever holds the mutex of a list of a connected client is in that      *)
(* list: no path through the client leaves it locked behind it, but for    *)
(* that of the thread at an objectList that disconnect() has just emptied. *)
(***************************************************************************)
THEOREM LocksGivenBack == Spec => []LocksOwned
  BY LocksInvariant, PTL DEF LocksInv

(***************************************************************************)
(* From the first moment after connect() at which nobody is in a list, and *)
(* until disconnect(), the application never reads a list that the thread  *)
(* of the client is changing.                                              *)
(***************************************************************************)
THEOREM LocksProtect == Spec => []LocksExclude
<1>1. LocksInv => LocksExclude
  BY DEF LocksInv, HoldsLock, LocksExclude
<1> QED
  BY <1>1, LocksInvariant, PTL
-----------------------------------------------------------------------------
\* Every step keeps what is known of those who wait.
LEMMA WaitsStep == LocksInv /\ Waits /\ [Next]_vars => Waits'
<1> SUFFICES ASSUME LocksInv, Waits, [Next]_vars PROVE Waits'
  OBVIOUS
<1> USE DEF LocksInv, TypeOK, Calls, LocksOwned, ThreadIn, Waits, CanLock, appVars, threadVars
<1>1. CASE ReceiveBundle
  BY <1>1 DEF ReceiveBundle
<1>2. CASE EnterList
  BY <1>2 DEF EnterList
<1>3. CASE ThreadLocks
  BY <1>3 DEF ThreadLocks, Locked
<1>4. CASE LeaveList
  BY <1>4 DEF LeaveList, Unlocked, Settles
<1>5. CASE EndBundle
  BY <1>5 DEF EndBundle
<1>6. CASE StopThread
  BY <1>6 DEF StopThread
<1>7. CASE StartThread
  BY <1>7 DEF StartThread, Ready
<1>8. CASE SetConnected
  BY <1>8 DEF SetConnected
<1>9. CASE UnlockFirst
  BY <1>9 DEF UnlockFirst, Unlocked
<1>10. CASE UnlockSecond
  BY <1>10 DEF UnlockSecond, Unlocked, Settles
<1>11. CASE Break
  BY <1>11 DEF Break, Ready
<1>12. CASE DestroyMutexes
  BY <1>12 DEF DestroyMutexes
<1>13. CASE ClearLists
  BY <1>13 DEF ClearLists
<1>14. CASE AppLocks
  BY <1>14 DEF AppLocks, Locked
<1>15. ASSUME NEW q \in Profiles, ReadList(q) PROVE Waits'
  BY <1>15 DEF ReadList, Ready
<1>16. ASSUME NEW q \in Profiles, StopReading(q) PROVE Waits'
  BY <1>16 DEF StopReading, Ready, Unlocked, Settles
<1>17. CASE LeaveMissing
  BY <1>17 DEF LeaveMissing, Settles
<1>18. CASE SetDisconnected
  BY <1>18 DEF SetDisconnected
<1>19. CASE FindObject
  BY <1>19 DEF FindObject
<1>20. CASE UNCHANGED vars
  BY <1>20 DEF vars
<1> QED
  BY <1>1, <1>2, <1>3, <1>4, <1>5, <1>6, <1>7, <1>8, <1>9, <1>10, <1>11, <1>12, <1>13, <1>14, <1>15, <1>16,
     <1>17, <1>18, <1>19, <1>20 DEF Next, ThreadNext, AppNext

(***************************************************************************)
(* In every interleaving of the two threads, over any number of lists and  *)
(* connections, whoever waits for a mutex waits for someone who is in that *)
(* list and gives the mutex back when he leaves it.  The one deadlock is   *)
(* that of the thread with itself: it is left waiting for a mutex that it  *)
(* kept when disconnect() had emptied objectList.                          *)
(***************************************************************************)
THEOREM NobodyDeadlocks == Spec => []NoDeadlock
<1>1. Init => Waits
  BY DEF Init, Waits
<1>2. LocksInv /\ Waits => NoDeadlock
  <2> SUFFICES ASSUME LocksInv, Waits PROVE NoDeadlock
    OBVIOUS
  <2>1. /\ \A q \in Profiles : mutex[q] \in {"free", "thread", "app", "destroyed"}
        /\ threadAt = "entering" => list \in Profiles
        /\ wants # None => wants \in Profiles
    BY DEF LocksInv, TypeOK
  <2>2. ASSUME ThreadWaits
        PROVE  \/ connected /\ list \in reads
               \/ LockedOut /\ list = "obj" /\ breaking
    <3>1. threadAt = "entering" /\ list \in Profiles /\ mutex[list] \in {"thread", "app"}
      BY <2>1, <2>2 DEF ThreadWaits, CanLock
    <3>2. CASE ~ connected
      BY <2>2, <3>1, <3>2 DEF Waits, CanLock, LockedOut
    <3>3. CASE connected /\ mutex[list] = "app"
      BY <3>1, <3>3 DEF LocksInv, LocksOwned
    <3>4. CASE connected /\ mutex[list] = "thread"
      <4>1. list = "obj" /\ app = "emptied"
        BY <3>1, <3>4 DEF LocksInv, LocksOwned, ThreadIn
      <4> QED
        BY <2>2, <3>4, <4>1 DEF Waits, LockedOut
    <3> QED
      BY <3>1, <3>2, <3>3, <3>4
  <2>3. ASSUME AppWaits PROVE ThreadIn(wants)
    <3>1. wants # None /\ wants \in Profiles /\ mutex[wants] \in {"thread", "app"}
      BY <2>1, <2>3 DEF AppWaits, CanLock
    <3>2. connected /\ wants \notin reads /\ app = "idle"
      BY <3>1 DEF Waits, LocksInv, Calls
    <3> QED
      BY <3>1, <3>2 DEF LocksInv, LocksOwned
  <2> QED
    BY <2>2, <2>3 DEF NoDeadlock
<1> QED
  BY <1>1, <1>2, WaitsStep, LocksInvariant, PTL DEF Spec
=============================================================================
