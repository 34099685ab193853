----------------------------- MODULE EventWait ------------------------------
(***************************************************************************)
(* Sleeping on an endpoint.  A thread of the application polls the event   *)
(* queue with the endpoint lock held (omx_wait in libopen-mx/omx_test.c);  *)
(* when nothing is there it records the indexes it has seen, releases the  *)
(* lock and enters omx_ioctl_wait_event (driver/linux/omx_event.c), which  *)
(* queues a waiter, compares the indexes and sleeps.  Producers of events, *)
(* threads that complete requests without the driver, omx_wakeup, timers   *)
(* and signals wake it.                                                    *)
(***************************************************************************)
EXTENDS EventQueue

CONSTANTS
  Threads,   \* the application's threads
  MAXUSER    \* bound: user events notified

VARIABLES
  tpc,         \* where each thread is: "out" of the lock, "locked", "user_wake" between the
               \* halves of omx__notify_user_event, or inside the ioctl: "enter" "queued"
               \* "asleep" "leave"
  seen,        \* the indexes a thread hands to the ioctl
  wstatus,     \* waiter->status: NONE EVENT PROGRESS TIMEOUT RACE WAKEUP
  waiters,     \* endpoint->waiters
  signal,      \* signal_pending(current)
  user_event   \* userdesc->user_event_index

waitVars == <<tpc, seen, wstatus, waiters, signal, user_event>>
wvars == <<qvars, waitVars>>

WInit ==
  /\ QInit
  /\ tpc = [t \in Threads |-> "out"]
  /\ seen = [t \in Threads |-> [unexp |-> 0, user |-> 0]]
  /\ wstatus = [t \in Threads |-> "NONE"]
  /\ waiters = {}
  /\ signal = [t \in Threads |-> FALSE]
  /\ user_event = 0

\* omx_wakeup_waiter_list
WakeupWaiters(status) ==
  wstatus' = [t \in Threads |-> IF t \in waiters THEN status ELSE wstatus[t]]

\* The steps of a producer that no waiter sees, and the one that wakes them.
Producer(p) ==
  /\ \/ NotifyTake(p) \/ NotifyCheck(p) \/ NotifyRollback(p)
     \/ \E nr \in 1..FRAGS : PrepareTake(p, nr)
     \/ PrepareCheck(p) \/ PrepareRollback(p)
     \/ CommitTake(p) \/ Store(p) \/ Publish(p)
  /\ UNCHANGED waitVars

ProducerWakes(p) ==
  /\ Wake(p)
  /\ WakeupWaiters("EVENT")
  /\ UNCHANGED <<tpc, seen, waiters, signal, user_event>>

LockFree == \A t \in Threads : tpc[t] \notin {"locked", "user_wake"}

\* omx_wait takes the endpoint lock, on entry and after sleeping.
Lock(t) ==
  /\ tpc[t] = "out"
  /\ LockFree
  /\ tpc' = [tpc EXCEPT ![t] = "locked"]
  /\ UNCHANGED <<qvars, seen, wstatus, waiters, signal, user_event>>

\* omx__progress handles one event.
Poll(t) ==
  /\ tpc[t] = "locked"
  /\ Consume
  /\ UNCHANGED waitVars

\* omx__notify_user_event: the thread completes a request that another thread
\* may be waiting for; it steps the index, then enters the driver.
UserEvent(t) ==
  /\ tpc[t] = "locked"
  /\ user_event < MAXUSER
  /\ user_event' = user_event + 1
  /\ tpc' = [tpc EXCEPT ![t] = "user_wake"]
  /\ UNCHANGED <<qvars, seen, wstatus, waiters, signal>>

UserWake(t) ==
  /\ tpc[t] = "user_wake"
  /\ WakeupWaiters("EVENT")
  /\ tpc' = [tpc EXCEPT ![t] = "locked"]
  /\ UNCHANGED <<qvars, seen, waiters, signal, user_event>>

\* omx_wakeup takes the lock, enters the driver and releases it.
Wakeup(t) ==
  /\ tpc[t] = "out"
  /\ LockFree
  /\ WakeupWaiters("WAKEUP")
  /\ UNCHANGED <<qvars, tpc, seen, waiters, signal, user_event>>

\* omx__wait: nothing is ready; record what was seen and release the lock.
Wait(t) ==
  /\ tpc[t] = "locked"
  /\ ~Ready
  /\ seen' = [seen EXCEPT ![t] = [unexp |-> next_event, user |-> user_event]]
  /\ tpc' = [tpc EXCEPT ![t] = "enter"]
  /\ UNCHANGED <<qvars, wstatus, waiters, signal, user_event>>

\* omx_wait returns, with its request, at its timeout or after a wakeup; the
\* application calls again when it likes.
Return(t) ==
  /\ tpc[t] = "locked"
  /\ ~Ready
  /\ tpc' = [tpc EXCEPT ![t] = "out"]
  /\ UNCHANGED <<qvars, seen, wstatus, waiters, signal, user_event>>

\* omx_ioctl_wait_event has no memory for the waiter: the library polls again.
EnterFails(t) ==
  /\ tpc[t] = "enter"
  /\ seen' = [seen EXCEPT ![t] = [unexp |-> 0, user |-> 0]]
  /\ signal' = [signal EXCEPT ![t] = FALSE]
  /\ tpc' = [tpc EXCEPT ![t] = "out"]
  /\ UNCHANGED <<qvars, wstatus, waiters, user_event>>

\* omx_ioctl_wait_event: queue ourself on the wait queue first ...
Queue(t) ==
  /\ tpc[t] = "enter"
  /\ wstatus' = [wstatus EXCEPT ![t] = "NONE"]
  /\ waiters' = waiters \cup {t}
  /\ tpc' = [tpc EXCEPT ![t] = "queued"]
  /\ UNCHANGED <<qvars, seen, signal, user_event>>

\* Mutant of Race: only user events are compared.
RaceUserOnly(t) == seen[t].user # user_event

\* ... did we deposit an event before the lib decided to go to sleep? ...
Race(t) == seen[t].unexp # nextreserved \/ seen[t].user # user_event

\* ... if so leave: the RACE status set here in cmd is overwritten on the way
\* out.  A timer that has already expired sets RACE in the waiter instead.
Check(t) ==
  /\ tpc[t] = "queued"
  /\ \/ /\ Race(t)
        /\ tpc' = [tpc EXCEPT ![t] = "leave"]
        /\ UNCHANGED wstatus
     \/ /\ ~Race(t)
        /\ \/ tpc' = [tpc EXCEPT ![t] = "asleep"] /\ UNCHANGED wstatus
           \/ /\ tpc' = [tpc EXCEPT ![t] = "leave"]
              /\ wstatus' = [wstatus EXCEPT ![t] = "RACE"]
  /\ UNCHANGED <<qvars, seen, waiters, signal, user_event>>

\* The application's timeout or the library's retransmission timeout expires.
Timer(t) ==
  /\ tpc[t] = "asleep"
  /\ \E status \in {"TIMEOUT", "PROGRESS"} : wstatus' = [wstatus EXCEPT ![t] = status]
  /\ UNCHANGED <<qvars, tpc, seen, waiters, signal, user_event>>

\* A signal is delivered to the thread while it is in the ioctl.
Signal(t) ==
  /\ tpc[t] \in {"enter", "queued", "asleep"}
  /\ ~signal[t]
  /\ signal' = [signal EXCEPT ![t] = TRUE]
  /\ UNCHANGED <<qvars, tpc, seen, wstatus, waiters, user_event>>

\* schedule() returns, or is skipped, once the status changed or a signal came.
Awake(t) ==
  /\ tpc[t] = "asleep"
  /\ wstatus[t] # "NONE" \/ signal[t]
  /\ tpc' = [tpc EXCEPT ![t] = "leave"]
  /\ UNCHANGED <<qvars, seen, wstatus, waiters, signal, user_event>>

\* The wakeup label: leave the list and report the status, INTR when it is
\* still NONE.  The waiter and the parameters of the ioctl die here; what the
\* application does with the status, it comes back for the lock.
Reported(t) == IF wstatus[t] = "NONE" THEN "INTR" ELSE wstatus[t]

Leave(t) ==
  /\ tpc[t] = "leave"
  /\ waiters' = waiters \ {t}
  /\ wstatus' = [wstatus EXCEPT ![t] = "NONE"]
  /\ seen' = [seen EXCEPT ![t] = [unexp |-> 0, user |-> 0]]
  /\ signal' = [signal EXCEPT ![t] = FALSE]
  /\ tpc' = [tpc EXCEPT ![t] = "out"]
  /\ UNCHANGED <<qvars, user_event>>

WNext ==
  \/ \E p \in Procs : Producer(p) \/ ProducerWakes(p)
  \/ \E t \in Threads :
       \/ Lock(t) \/ Poll(t) \/ UserEvent(t) \/ UserWake(t) \/ Wakeup(t) \/ Wait(t)
       \/ Return(t) \/ EnterFails(t) \/ Queue(t) \/ Check(t) \/ Timer(t) \/ Signal(t)
       \/ Awake(t) \/ Leave(t)

WSpec == WInit /\ [][WNext]_wvars

\* A context that took a slot finishes its delivery.
Finishes(p) == pc[p] # "idle" /\ (Producer(p) \/ ProducerWakes(p))

\* A thread inside the library goes on: it polls until nothing is ready, then sleeps,
\* and leaves the ioctl once it is woken.
Proceeds(t) ==
  Poll(t) \/ UserWake(t) \/ Wait(t) \/ Queue(t) \/ Check(t) \/ Awake(t) \/ Leave(t)

\* Interrupt handlers run to completion, a lock that stays free is taken by a
\* thread that wants it, and runnable threads are scheduled.  The application
\* keeps calling the library.  Nothing is assumed of timers, signals or new events.
WFair ==
  /\ \A p \in Procs : WF_wvars(Finishes(p))
  /\ \A t \in Threads : WF_wvars(Lock(t)) /\ WF_wvars(Proceeds(t))

WFairSpec == WSpec /\ WFair
-----------------------------------------------------------------------------
Sleeping(t) == tpc[t] = "asleep" /\ wstatus[t] = "NONE" /\ ~signal[t]

\* Events in the queue that the library has not processed.
Unprocessed == {s \in Fresh : unexp_eventq[s].type = "EVENT"}

\* "queue ourself on the wait queue first, in case a packet arrives in the
\* meantime": no thread sleeps while an event is in the queue, or a request was
\* completed by another thread after its last poll, unless the one that did it
\* is about to wake it.
NoLostWakeup ==
  \A t \in Threads : Sleeping(t) =>
    /\ Unprocessed # {} => \E p \in Procs : pc[p] \in {"publish", "wake"} /\ evt[p].type = "EVENT"
    /\ seen[t].user # user_event => \E u \in Threads : tpc[u] = "user_wake"

\* The status documented as "interrupted by a signal without any event" is
\* reported only to a thread that had a signal.
IntrMeansSignal ==
  \A t \in Threads : (tpc[t] = "leave" /\ Reported(t) = "INTR") => signal[t]

EventInQueue(i) == InQueue(i) /\ unexp_eventq[Slot(i)].type = "EVENT"

=============================================================================
