--------------------------- MODULE EventWaitProofs ---------------------------
(***************************************************************************)
(* No wakeup is lost, for any numbers of producers and threads and any     *)
(* sizes of the queue.  A thread falls asleep only when next_event is      *)
(* nextreserved: by PolledOnce nothing is then in the queue or under way.  *)
(* Every event found in the queue later was stored and published after     *)
(* that, by a context that has yet to wake the thread.                     *)
(***************************************************************************)
EXTENDS EventWait, EventQueueProofs

TPCs == {"out", "locked", "user_wake", "enter", "queued", "asleep", "leave"}
Statuses == {"NONE", "EVENT", "PROGRESS", "TIMEOUT", "RACE", "WAKEUP"}

WTypeOK ==
  /\ tpc \in [Threads -> TPCs]
  /\ seen \in [Threads -> [unexp : Int, user : Int]]
  /\ wstatus \in [Threads -> Statuses]
  /\ waiters \subseteq Threads
  /\ user_event \in Int

\* A context that will wake the waiters.
Waker(p) == pc[p] \in {"publish", "wake"} /\ evt[p].type = "EVENT"

\* Since a sleeping thread compared the indexes: the slots of Old were not
\* stored again, so they hold nothing new; an event in one of the others has a
\* waker.
NothingMissed ==
  \E Old \in SUBSET (0..NR-1) :
    /\ Old \cap Fresh = {}
    /\ \A p \in Procs : pc[p] = "publish" => Slot(index[p]) \notin Old
    /\ \A s \in (0..NR-1) \ Old :
         unexp_eventq[s].type = "EVENT" => \E p \in Procs : Waker(p)

UserToldOf(t) == seen[t].user # user_event => \E u \in Threads : tpc[u] = "user_wake"

Dozing(t) == tpc[t] = "asleep" /\ wstatus[t] = "NONE"

WInv ==
  /\ WTypeOK
  /\ \A t \in Threads : tpc[t] \in {"queued", "asleep", "leave"} => t \in waiters
  /\ \A t \in Threads : tpc[t] \in {"enter", "queued"} => seen[t].unexp <= next_event
  /\ \A t \in Threads : Dozing(t) => NothingMissed /\ UserToldOf(t)

-----------------------------------------------------------------------------
(***************************************************************************)
(* What threads do to the queue is what the queue's specification allows:  *)
(* its invariants hold here too.                                           *)
(***************************************************************************)
\* A step of producers and threads is a step of the queue.
LEMMA QueueStep == [WNext]_wvars => [QNext]_qvars
<1> SUFFICES ASSUME [WNext]_wvars PROVE [QNext]_qvars
  OBVIOUS
<1>1. ASSUME NEW p \in Procs, Producer(p) \/ ProducerWakes(p) PROVE QNext
  BY <1>1 DEF Producer, ProducerWakes, QNext
<1>2. ASSUME NEW t \in Threads, Poll(t) PROVE QNext
  BY <1>2 DEF Poll, QNext
<1>3. ASSUME NEW t \in Threads,
             \/ Lock(t) \/ UserEvent(t) \/ UserWake(t) \/ Wakeup(t) \/ Wait(t)
             \/ Return(t) \/ EnterFails(t) \/ Queue(t) \/ Check(t) \/ Timer(t) \/ Signal(t)
             \/ Awake(t) \/ Leave(t)
      PROVE  UNCHANGED qvars
  BY <1>3 DEF Lock, UserEvent, UserWake, Wakeup, Wait, Return, EnterFails, Queue, Check, Timer,
              Signal, Awake, Leave
<1>4. CASE UNCHANGED wvars
  BY <1>4 DEF wvars
<1> QED BY <1>1, <1>2, <1>3, <1>4 DEF WNext

\* The event queue keeps what it promises when threads sleep on it.
THEOREM WaitImplementsQueue == WSpec => QSpec
<1>1. WInit => QInit BY DEF WInit
<1> QED BY <1>1, QueueStep, PTL DEF WSpec, QSpec

-----------------------------------------------------------------------------
\* An unprocessed event has a waker when nothing was missed.
LEMMA UnprocessedHasWaker ==
  ASSUME NothingMissed, Unprocessed # {}
  PROVE  \E p \in Procs : Waker(p)
<1>1. PICK s \in Fresh : unexp_eventq[s].type = "EVENT"
  BY DEF Unprocessed
<1>2. s \in 0..NR-1
  BY DEF Fresh
<1> QED BY <1>1, <1>2 DEF NothingMissed

\* When every reserved index has been processed nothing is missed.
LEMMA CaughtUp ==
  ASSUME QTypeOK, PollInv, next_event = nextreserved
  PROVE  NothingMissed
<1>1. Cardinality(Holding) = 0 /\ Cardinality(Fresh) = 0
  BY FreshFinite, FS_CardinalityType DEF PollInv, PolledOnce, QTypeOK
<1>2. Holding = {} /\ Fresh = {}
  BY <1>1, FreshFinite, FS_EmptySet DEF PollInv
<1>3. \A p \in Procs : pc[p] # "publish"
  BY <1>2 DEF Holding
<1>4. Fresh \subseteq 0..NR-1
  BY DEF Fresh
<1> QED
  <2>1. 0..NR-1 \in SUBSET (0..NR-1) OBVIOUS
  <2> QED BY <1>2, <1>3, <2>1, Zenon DEF NothingMissed

\* Steps that leave the slots, the published set and the contexts past Store as
\* they are miss nothing.
LEMMA MissStutter ==
  ASSUME NothingMissed, Fresh' \subseteq Fresh, unexp_eventq' = unexp_eventq,
         \A p \in Procs : pc[p] \in {"publish", "wake"} \/ pc'[p] \in {"publish", "wake"} =>
           pc'[p] = pc[p] /\ index'[p] = index[p] /\ evt'[p] = evt[p]
  PROVE  NothingMissed'
<1>1. PICK Old \in SUBSET (0..NR-1) :
        /\ Old \cap Fresh = {}
        /\ \A p \in Procs : pc[p] = "publish" => Slot(index[p]) \notin Old
        /\ \A s \in (0..NR-1) \ Old :
             unexp_eventq[s].type = "EVENT" => \E p \in Procs : Waker(p)
  BY DEF NothingMissed
<1>2. Old \cap Fresh' = {}
  BY <1>1
<1>3. \A p \in Procs : pc'[p] = "publish" => Slot(index'[p]) \notin Old
  BY <1>1 DEF Slot
<1>4. \A s \in (0..NR-1) \ Old :
        unexp_eventq'[s].type = "EVENT" => \E p \in Procs : Waker(p)'
  BY <1>1 DEF Waker
<1> QED BY <1>2, <1>3, <1>4, Zenon DEF NothingMissed, Slot

\* A store takes its slot out of Old: if it is an event, its context is a waker.
LEMMA MissStore ==
  ASSUME QTypeOK, NothingMissed, NEW q \in Procs, Store(q)
  PROVE  NothingMissed'
<1>1. PICK Old \in SUBSET (0..NR-1) :
        /\ Old \cap Fresh = {}
        /\ \A p \in Procs : pc[p] = "publish" => Slot(index[p]) \notin Old
        /\ \A s \in (0..NR-1) \ Old :
             unexp_eventq[s].type = "EVENT" => \E p \in Procs : Waker(p)
  BY DEF NothingMissed
<1> DEFINE k == Slot(index[q])
           New == Old \ {k}
<1>2. New \in SUBSET (0..NR-1) /\ New \cap Fresh' = {}
  BY <1>1, StoreFresh, Zenon
<1>3. \A p \in Procs : pc'[p] = "publish" => Slot(index'[p]) \notin New
  BY <1>1 DEF Slot, Store, QTypeOK
<1>4. ASSUME NEW s \in (0..NR-1) \ New, unexp_eventq'[s].type = "EVENT"
      PROVE  \E p \in Procs : Waker(p)'
  <2>1. CASE s = k
    <3>1. Waker(q)'
      BY <1>4, <2>1 DEF Store, QTypeOK, Waker
    <3> QED BY <3>1
  <2>2. CASE s # k
    <3>1. unexp_eventq[s].type = "EVENT" /\ s \notin Old
      BY <1>4, <2>2 DEF Store, QTypeOK
    <3>2. PICK p \in Procs : Waker(p)
      BY <1>1, <1>4, <3>1
    <3>3. Waker(p)'
      BY <3>2 DEF Store, QTypeOK, Waker
    <3> QED BY <3>3
  <2> QED BY <2>1, <2>2
<1> HIDE DEF New
<1> QED BY <1>2, <1>3, <1>4, Zenon DEF NothingMissed, Slot

\* A publication makes a slot outside Old fresh; its context goes on to wake.
LEMMA MissPublish ==
  ASSUME QTypeOK, NothingMissed, NEW q \in Procs, Publish(q)
  PROVE  NothingMissed'
<1>1. PICK Old \in SUBSET (0..NR-1) :
        /\ Old \cap Fresh = {}
        /\ \A p \in Procs : pc[p] = "publish" => Slot(index[p]) \notin Old
        /\ \A s \in (0..NR-1) \ Old :
             unexp_eventq[s].type = "EVENT" => \E p \in Procs : Waker(p)
  BY DEF NothingMissed
<1>2. Old \cap Fresh' = {}
  <2>1. Slot(index[q]) \notin Old
    BY <1>1 DEF Publish
  <2> QED BY <1>1, <2>1, PublishFresh
<1>3. \A p \in Procs : pc'[p] = "publish" => Slot(index'[p]) \notin Old
  BY <1>1 DEF Slot, Publish, QTypeOK, Resume
<1>4. ASSUME NEW s \in (0..NR-1) \ Old, unexp_eventq'[s].type = "EVENT"
      PROVE  \E p \in Procs : Waker(p)'
  <2>1. unexp_eventq[s].type = "EVENT"
    BY <1>4 DEF Publish, QTypeOK
  <2>2. PICK p \in Procs : Waker(p)
    BY <1>1, <1>4, <2>1
  <2>3. Waker(p)'
    BY <2>2 DEF Publish, QTypeOK, Waker
  <2> QED BY <2>3
<1> QED BY <1>2, <1>3, <1>4, Zenon DEF NothingMissed, Slot

\* A step of the queue that wakes nobody hides no event from a sleeper.
LEMMA MissQueue ==
  ASSUME QTypeOK, PollInv, NothingMissed,
         (\E p \in Procs : Producer(p)) \/ Consume
  PROVE  NothingMissed'
<1>1. ASSUME UNCHANGED <<unexp_eventq, next_event>>
      PROVE  Fresh' = Fresh
  BY <1>1 DEF Fresh, Slot, Id
<1>2. ASSUME NEW p \in Procs,
             \/ NotifyTake(p) \/ NotifyCheck(p) \/ NotifyRollback(p)
             \/ \E nr \in 1..FRAGS : PrepareTake(p, nr)
             \/ PrepareCheck(p) \/ PrepareRollback(p) \/ CommitTake(p)
      PROVE  NothingMissed'
  <2>1. UNCHANGED <<unexp_eventq, next_event>>
    BY <1>2 DEF NotifyTake, NotifyCheck, NotifyRollback, PrepareTake, PrepareCheck,
                PrepareRollback, CommitTake, libVars
  <2>2. /\ pc[p] \notin {"publish", "wake"} /\ pc'[p] \notin {"publish", "wake"}
        /\ \A q \in Procs \ {p} : pc'[q] = pc[q] /\ index'[q] = index[q] /\ evt'[q] = evt[q]
    BY <1>2 DEF NotifyTake, NotifyCheck, NotifyRollback, PrepareTake, PrepareCheck,
                PrepareRollback, CommitTake, QTypeOK
  <2> QED BY <1>1, <2>1, <2>2, MissStutter
<1>3. CASE Consume
  <2>1. UNCHANGED <<unexp_eventq, pc, index, evt>>
    BY <1>3 DEF Consume, procVars
  <2>2. Fresh' \subseteq Fresh
    BY <1>3, ConsumeFresh DEF PollInv
  <2> QED BY <2>1, <2>2, MissStutter
<1>4. ASSUME NEW p \in Procs, Producer(p) PROVE NothingMissed'
  BY <1>2, <1>4, MissStore, MissPublish DEF Producer
<1> QED BY <1>3, <1>4

\* No thread is asleep, or between the compared indexes and sleep, at first.
LEMMA WInvInit == WInit => WInv
  BY DEF WInit, QInit, WInv, WTypeOK, TPCs, Statuses, Dozing

\* One step of a context or a thread keeps WInv.
LEMMA WInvStep ==
  ASSUME QTypeOK, PollInv, WInv, [WNext]_wvars
  PROVE  WInv'
<1> USE DEF TPCs, Statuses
<1>1. ASSUME UNCHANGED qvars
      PROVE  (NothingMissed => NothingMissed') /\ next_event' = next_event
  <2>1. Fresh' = Fresh /\ UNCHANGED <<unexp_eventq, pc, index, evt, next_event>>
    BY <1>1 DEF Fresh, Slot, Id, qvars, procVars, libVars
  <2> QED BY <2>1, MissStutter
<1>2. ASSUME UNCHANGED waitVars, next_event' \in Int, next_event' >= next_event,
             NothingMissed => NothingMissed'
      PROVE  WInv'
  BY <1>2 DEF WInv, WTypeOK, waitVars, Dozing, UserToldOf, QTypeOK
<1>3. ASSUME NEW p \in Procs, Producer(p) PROVE WInv'
  <2>1. next_event' = next_event /\ UNCHANGED waitVars
    BY <1>3 DEF Producer, NotifyTake, NotifyCheck, NotifyRollback, PrepareTake, PrepareCheck,
                PrepareRollback, CommitTake, Store, Publish, libVars
  <2> QED BY <1>2, <1>3, <2>1, MissQueue DEF QTypeOK
<1>4. ASSUME NEW t \in Threads, Poll(t) PROVE WInv'
  BY <1>2, <1>4, MissQueue DEF Poll, Consume, QTypeOK
<1>5. ASSUME NEW st \in {"EVENT", "WAKEUP"}, WakeupWaiters(st), next_event' = next_event,
             UNCHANGED <<seen, waiters, user_event>>,
             tpc' = tpc \/ \E t \in Threads : tpc[t] = "user_wake" /\ tpc' = [tpc EXCEPT ![t] = "locked"]
      PROVE  WInv'
  <2>1. \A t \in Threads : ~Dozing(t)'
    BY <1>5 DEF WakeupWaiters, Dozing, WInv, WTypeOK
  <2>2. WTypeOK'
    BY <1>5 DEF WakeupWaiters, WInv, WTypeOK
  <2>3. \A t \in Threads : tpc'[t] \in {"enter", "queued", "asleep", "leave"} => tpc'[t] = tpc[t]
    BY <1>5 DEF WInv, WTypeOK
  <2> QED BY <1>5, <2>1, <2>2, <2>3 DEF WInv
<1>6. ASSUME NEW p \in Procs, ProducerWakes(p) PROVE WInv'
  BY <1>5, <1>6 DEF ProducerWakes, Wake, libVars
<1>7. ASSUME NEW t \in Threads, UserWake(t) \/ Wakeup(t) PROVE WInv'
  BY <1>5, <1>7 DEF UserWake, Wakeup, qvars, libVars
<1>8. ASSUME NEW t \in Threads, Lock(t) PROVE WInv'
  BY <1>1, <1>8 DEF Lock, WInv, WTypeOK, Dozing, UserToldOf
<1>9. ASSUME NEW t \in Threads, UserEvent(t) PROVE WInv'
  BY <1>1, <1>9 DEF UserEvent, WInv, WTypeOK, Dozing, UserToldOf
<1>10. ASSUME NEW t \in Threads, Wait(t) PROVE WInv'
  BY <1>1, <1>10 DEF Wait, WInv, WTypeOK, Dozing, UserToldOf, QTypeOK
<1>11. ASSUME NEW t \in Threads, Return(t) PROVE WInv'
  BY <1>1, <1>11 DEF Return, WInv, WTypeOK, Dozing, UserToldOf
<1>12. ASSUME NEW t \in Threads, EnterFails(t) PROVE WInv'
  BY <1>1, <1>12 DEF EnterFails, WInv, WTypeOK, Dozing, UserToldOf
<1>13. ASSUME NEW t \in Threads, Queue(t) PROVE WInv'
  BY <1>1, <1>13 DEF Queue, WInv, WTypeOK, Dozing, UserToldOf
<1>14. ASSUME NEW t \in Threads, Check(t) PROVE WInv'
  <2>1. ~Race(t) => NothingMissed /\ seen[t].user = user_event
    <3>1. next_event <= nextreserved
      BY FreshFinite, FS_CardinalityType DEF PollInv, PolledOnce, QTypeOK
    <3>2. ~Race(t) => next_event = nextreserved /\ seen[t].user = user_event
      BY <1>14, <3>1 DEF Race, Check, WInv, WTypeOK, QTypeOK
    <3> QED BY <3>2, CaughtUp
  <2>2. UNCHANGED <<qvars, seen, waiters, user_event>> /\ tpc[t] = "queued"
    BY <1>14 DEF Check
  <2>3. CASE tpc' = [tpc EXCEPT ![t] = "asleep"] /\ UNCHANGED wstatus /\ ~Race(t)
    BY <1>1, <2>1, <2>2, <2>3 DEF WInv, WTypeOK, Dozing, UserToldOf
  <2>4. CASE /\ tpc' = [tpc EXCEPT ![t] = "leave"]
             /\ wstatus' = [wstatus EXCEPT ![t] = "RACE"] \/ UNCHANGED wstatus
    BY <1>1, <2>2, <2>4 DEF WInv, WTypeOK, Dozing, UserToldOf
  <2> QED BY <1>14, <2>3, <2>4 DEF Check
<1>15. ASSUME NEW t \in Threads, Timer(t) PROVE WInv'
  BY <1>1, <1>15 DEF Timer, WInv, WTypeOK, Dozing, UserToldOf
<1>16. ASSUME NEW t \in Threads, Signal(t) PROVE WInv'
  BY <1>1, <1>16 DEF Signal, WInv, WTypeOK, Dozing, UserToldOf
<1>17. ASSUME NEW t \in Threads, Awake(t) PROVE WInv'
  BY <1>1, <1>17 DEF Awake, WInv, WTypeOK, Dozing, UserToldOf
<1>18. ASSUME NEW t \in Threads, Leave(t) PROVE WInv'
  BY <1>1, <1>18 DEF Leave, WInv, WTypeOK, Dozing, UserToldOf
<1>19. CASE UNCHANGED wvars
  BY <1>1, <1>2, <1>19 DEF wvars, QTypeOK
<1> QED
  BY <1>3, <1>4, <1>6, <1>7, <1>8, <1>9, <1>10, <1>11, <1>12, <1>13, <1>14, <1>15, <1>16,
     <1>17, <1>18, <1>19, Zenon DEF WNext

\* WInv holds in every state of the wait protocol.
THEOREM WInvHolds == WSpec => []WInv
<1>1. QTypeOK /\ PollInv /\ WInv /\ [WNext]_wvars => WInv'
  BY WInvStep
<1> QED BY <1>1, WInvInit, WaitImplementsQueue, QTypeCorrect, PollInvHolds, PTL DEF WSpec

\* "queue ourself on the wait queue first, in case a packet arrives in the
\* meantime" is enough: no thread sleeps on an event, or on a request completed
\* by another thread, that nobody is about to wake it for.
THEOREM NoWakeupIsLost == WSpec => []NoLostWakeup
<1>1. WInv => NoLostWakeup
  <2> SUFFICES ASSUME WInv, NEW t \in Threads, Sleeping(t)
               PROVE  /\ Unprocessed # {} => \E p \in Procs : Waker(p)
                      /\ UserToldOf(t)
    BY DEF NoLostWakeup, Waker, UserToldOf
  <2>1. NothingMissed /\ UserToldOf(t)
    BY DEF WInv, Sleeping, Dozing
  <2> QED BY <2>1, UnprocessedHasWaker
<1> QED BY <1>1, WInvHolds, PTL
=============================================================================
