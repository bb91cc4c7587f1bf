---------------------------- MODULE TuioPeriodic ----------------------------
(***************************************************************************)
(* The periodic full messages of a TuioServer (TuioServer.cpp:28-67): every *)
(* enablePeriodicMessages() that finds them disabled starts a thread, which *)
(* ends when it finds them disabled after one of its sleeps; nobody waits   *)
(* for it.  TuioSystem takes one weakly fair PeriodicMessage for all of     *)
(* this; the properties below say that it may.                              *)
(***************************************************************************)

CONSTANT Threads   \* bound: threads that exist at one time

VARIABLES
  periodic,   \* periodic_update
  thread      \* where each thread is in ThreadFunc, "off" outside of it

periodicVars == <<periodic, thread>>

Init ==
  /\ periodic = FALSE
  /\ thread = [t \in Threads |-> "off"]

EnablePeriodicMessages(t) ==
  /\ ~ periodic /\ thread[t] = "off"
  /\ periodic' = TRUE
  /\ thread' = [thread EXCEPT ![t] = "testing"]

DisablePeriodicMessages ==
  /\ periodic
  /\ periodic' = FALSE
  /\ UNCHANGED thread

\* Slip (see README, mutants): the flag is tested only once.
TestUnlessSlept(t) ==
  /\ thread[t] \in {"testing", "slept"}
  /\ thread' = [thread EXCEPT ![t] =
                  IF periodic \/ thread[t] = "slept" THEN "sending" ELSE "off"]
  /\ UNCHANGED periodic

\* Slip (see README, mutants): the loop is a single test.
TestOnce(t) ==
  /\ thread[t] \in {"testing", "slept"}
  /\ thread' = [thread EXCEPT ![t] =
                  IF periodic /\ thread[t] = "testing" THEN "sending" ELSE "off"]
  /\ UNCHANGED periodic

\* The condition of the loop.
Test(t) ==
  /\ thread[t] \in {"testing", "slept"}
  /\ thread' = [thread EXCEPT ![t] = IF periodic THEN "sending" ELSE "off"]
  /\ UNCHANGED periodic

\* sendFullMessages ends, and usleep begins.
Send(t) ==
  /\ thread[t] = "sending"
  /\ thread' = [thread EXCEPT ![t] = "sleeping"]
  /\ UNCHANGED periodic

Wake(t) ==
  /\ thread[t] = "sleeping"
  /\ thread' = [thread EXCEPT ![t] = "slept"]
  /\ UNCHANGED periodic

ThreadFunc(t) == Test(t) \/ Send(t) \/ Wake(t)

Next ==
  \/ DisablePeriodicMessages
  \/ \E t \in Threads : EnablePeriodicMessages(t) \/ Test(t) \/ Send(t) \/ Wake(t)

Spec == Init /\ [][Next]_periodicVars

\* Every thread goes on.
Fairness == \A t \in Threads : WF_periodicVars(ThreadFunc(t))

\* Full messages are sent again and again for as long as they stay enabled, also
\* when they were disabled and enabled again before the last thread woke.
SendsAgain == <>[]periodic => []<>(\E t \in Threads : thread[t] = "sending")

\* When they stay disabled, all threads end: none is left over from quick changes.
Subsides == <>[](~ periodic) => <>[](\A t \in Threads : thread[t] = "off")
=============================================================================
