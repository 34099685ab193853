----------------------------- MODULE EventQueue -----------------------------
(***************************************************************************)
(* The unexpected event queue of an endpoint.  The driver side             *)
(* (driver/linux/omx_event.c) is run by bottom halves on several CPUs and  *)
(* by shared-memory senders in process context: they reserve a slot, fill  *)
(* it and publish it by writing its id last.  The library side             *)
(* (omx__progress in libopen-mx/omx_lib.c) polls the slot of its next      *)
(* index, processes it and gives slots back a batch at a time.             *)
(*                                                                         *)
(* Every step between two lock operations, and every separate write to     *)
(* the memory shared with the library, is an action of its own.            *)
(***************************************************************************)
EXTENDS Integers, FiniteSets

CONSTANTS
  Procs,     \* the contexts that may deliver events to the endpoint
  NR,        \* OMX_UNEXP_EVENTQ_ENTRY_NR = OMX_RECVQ_ENTRY_NR
  BATCH,     \* OMX_UNEXP_RELEASE_SLOTS_BATCH_NR
  IDMAX,     \* OMX_EVENT_ID_MAX
  FRAGS,     \* the most recvq slots that one prepare asks for
  MAXINDEX   \* bound: no slot is taken once nextfree has reached it

ASSUME QueueSizes ==
  /\ NR \in Nat \ {0}
  /\ BATCH \in Nat \ {0}
  /\ IDMAX \in Nat \ {0}
  /\ FRAGS \in Nat \ {0}
  /\ MAXINDEX \in Nat

\* 1024 entries and ids from 1 to 255: the id of a slot changes at every lap.
ASSUME IdsChange == NR % IDMAX # 0

\* A context's position in notify, prepare, commit or cancel.
PCs == {"idle", "notify_check", "notify_full", "prepare_check", "prepare_full",
        "fill", "store", "publish", "wake"}

Types == {"EVENT", "IGNORE"}

NoRecvq == -1

VARIABLES
  nextfree, nextreserved, nextreleased,  \* the three unexp_eventq indexes
  next_recvq,                            \* next_recvq_index
  unexp_eventq,  \* slot -> [id, type, recvq, index]; index is a ghost
  pc,            \* position of each context
  index,         \* the slot index each context has reserved
  evt,           \* the event each context is storing
  cancelling,    \* whether a context gives its prepared slots up
  granted,       \* {<<p, r>>} : recvq index r was prepared by p, not committed
  next_event,    \* the library's next_unexp_event_index
  aborted        \* the library has called omx__abort

driverVars == <<nextfree, nextreserved, nextreleased, next_recvq>>
procVars == <<pc, index, evt, cancelling, granted>>
libVars == <<next_event, aborted>>
qvars == <<driverVars, unexp_eventq, procVars, libVars>>

Slot(i) == i % NR
\* Mutant of Id: the id is the same at every lap.
IdOfSlot(i) == 1 + Slot(i)

Id(i) == 1 + (i % IDMAX)

\* The recvq indexes that p prepared and has neither committed nor cancelled.
Grant(p) == {g[2] : g \in {h \in granted : h[1] = p}}

\* The test of every reservation: unsigned difference of two indexes read
\* outside the lock.
WentTooFar == nextfree - nextreleased > NR

-----------------------------------------------------------------------------
\* omx_endpoint_queues_init
QInit ==
  /\ nextfree = 0 /\ nextreserved = 0 /\ nextreleased = 0 /\ next_recvq = 0
  /\ unexp_eventq = [s \in 0..NR-1 |->
                       [id |-> 0, type |-> "EVENT", recvq |-> NoRecvq, index |-> -1]]
  /\ pc = [p \in Procs |-> "idle"]
  /\ index = [p \in Procs |-> 0]
  /\ evt = [p \in Procs |-> [type |-> "EVENT", recvq |-> NoRecvq]]
  /\ cancelling = [p \in Procs |-> FALSE]
  /\ granted = {}
  /\ next_event = 0 /\ aborted = FALSE

\* omx_notify_unexp_event: take the next slot under unexp_lock...
NotifyTake(p) ==
  /\ pc[p] = "idle"
  /\ nextfree < MAXINDEX
  /\ nextfree' = nextfree + 1
  /\ index' = [index EXCEPT ![p] = nextreserved]
  /\ nextreserved' = nextreserved + 1
  /\ evt' = [evt EXCEPT ![p] = [type |-> "EVENT", recvq |-> NoRecvq]]
  /\ pc' = [pc EXCEPT ![p] = "notify_check"]
  /\ UNCHANGED <<nextreleased, next_recvq, unexp_eventq, cancelling, granted, libVars>>

\* ... then test for overflow without the lock ...
NotifyCheck(p) ==
  /\ pc[p] = "notify_check"
  /\ pc' = [pc EXCEPT ![p] = IF WentTooFar THEN "notify_full" ELSE "store"]
  /\ UNCHANGED <<driverVars, unexp_eventq, index, evt, cancelling, granted, libVars>>

\* Mutant of NotifyRollback: the index stays reserved.
NotifyRollbackKeepsReserved(p) ==
  /\ pc[p] = "notify_full"
  /\ nextfree' = nextfree - 1
  /\ pc' = [pc EXCEPT ![p] = "idle"]
  /\ UNCHANGED <<nextreserved, nextreleased, next_recvq, unexp_eventq, index, evt, cancelling,
                 granted, libVars>>

\* ... and give the slot back under the lock: -EBUSY, the packet is dropped.
NotifyRollback(p) ==
  /\ pc[p] = "notify_full"
  /\ nextfree' = nextfree - 1
  /\ nextreserved' = nextreserved - 1
  /\ pc' = [pc EXCEPT ![p] = "idle"]
  /\ UNCHANGED <<nextreleased, next_recvq, unexp_eventq, index, evt, cancelling,
                 granted, libVars>>

\* omx_prepare_notify_unexp_event(s)_with_recvq for nr slots.
PrepareTake(p, nr) ==
  /\ pc[p] = "idle"
  /\ nextfree + nr <= MAXINDEX
  /\ nextfree' = nextfree + nr
  /\ granted' = granted \cup ({p} \X (next_recvq .. next_recvq + nr - 1))
  /\ next_recvq' = next_recvq + nr
  /\ pc' = [pc EXCEPT ![p] = "prepare_check"]
  /\ UNCHANGED <<nextreserved, nextreleased, unexp_eventq, index, evt, cancelling,
                 libVars>>

\* When the slots are there the caller goes on to fill its recvq slots; its
\* copy may fail, and then it cancels all of them.
PrepareCheck(p) ==
  /\ pc[p] = "prepare_check"
  /\ \/ /\ WentTooFar
        /\ pc' = [pc EXCEPT ![p] = "prepare_full"]
        /\ UNCHANGED cancelling
     \/ /\ ~WentTooFar
        /\ pc' = [pc EXCEPT ![p] = "fill"]
        /\ \E failed \in BOOLEAN : cancelling' = [cancelling EXCEPT ![p] = failed]
  /\ UNCHANGED <<driverVars, unexp_eventq, index, evt, granted, libVars>>

\* Mutant of PrepareRollback: one slot is given back of several.
PrepareRollbackOne(p) ==
  /\ pc[p] = "prepare_full"
  /\ nextfree' = nextfree - 1
  /\ next_recvq' = next_recvq - 1
  /\ granted' = granted \ ({p} \X Grant(p))
  /\ pc' = [pc EXCEPT ![p] = "idle"]
  /\ UNCHANGED <<nextreserved, nextreleased, unexp_eventq, index, evt, cancelling,
                 libVars>>

PrepareRollback(p) ==
  /\ pc[p] = "prepare_full"
  /\ nextfree' = nextfree - Cardinality(Grant(p))
  /\ next_recvq' = next_recvq - Cardinality(Grant(p))
  /\ granted' = granted \ ({p} \X Grant(p))
  /\ pc' = [pc EXCEPT ![p] = "idle"]
  /\ UNCHANGED <<nextreserved, nextreleased, unexp_eventq, index, evt, cancelling,
                 libVars>>

\* omx_commit_... and omx_cancel_notify_unexp_event_with_recvq: under the lock,
\* take the next reserved slot for the caller's next recvq slot.
CommitTake(p) ==
  /\ pc[p] = "fill"
  /\ \E r \in Grant(p) :
       /\ \A s \in Grant(p) : r <= s
       /\ evt' = [evt EXCEPT ![p] =
                    [type |-> IF cancelling[p] THEN "IGNORE" ELSE "EVENT", recvq |-> r]]
       /\ granted' = granted \ {<<p, r>>}
  /\ index' = [index EXCEPT ![p] = nextreserved]
  /\ nextreserved' = nextreserved + 1
  /\ pc' = [pc EXCEPT ![p] = "store"]
  /\ UNCHANGED <<nextfree, nextreleased, next_recvq, unexp_eventq, cancelling, libVars>>

\* The event is copied with a null id ...
Store(p) ==
  /\ pc[p] = "store"
  /\ unexp_eventq' = [unexp_eventq EXCEPT ![Slot(index[p])] =
                        [id |-> 0, type |-> evt[p].type, recvq |-> evt[p].recvq,
                         index |-> index[p]]]
  /\ pc' = [pc EXCEPT ![p] = "publish"]
  /\ UNCHANGED <<driverVars, index, evt, cancelling, granted, libVars>>

\* A context that prepared several slots goes on with the next one.
Resume(p) == IF Grant(p) = {} THEN "idle" ELSE "fill"

\* ... and the actual id is written after the barrier.  A cancelled slot wakes
\* nobody.
Publish(p) ==
  /\ pc[p] = "publish"
  /\ unexp_eventq' = [unexp_eventq EXCEPT ![Slot(index[p])].id = Id(index[p])]
  /\ pc' = [pc EXCEPT ![p] = IF evt[p].type = "IGNORE" THEN Resume(p) ELSE "wake"]
  /\ UNCHANGED <<driverVars, index, evt, cancelling, granted, libVars>>

\* omx_wakeup_waiter_list returns; what it does to waiters is in EventWait.
Wake(p) ==
  /\ pc[p] = "wake"
  /\ pc' = [pc EXCEPT ![p] = Resume(p)]
  /\ UNCHANGED <<driverVars, unexp_eventq, index, evt, cancelling, granted, libVars>>

\* What the library's poll tests.
Ready == unexp_eventq[Slot(next_event)].id = Id(next_event)

\* Mutant of ReleaseRefused: an off-by-one.
ReleaseRefusedFullBatch == nextreserved - nextreleased <= BATCH

\* omx_ioctl_release_unexp_slots refuses when fewer than a batch is reserved.
ReleaseRefused == nextreserved - nextreleased < BATCH

\* One iteration of the unexpected loop of omx__progress: process the event,
\* step the index and, at a batch boundary, release the batch.
Consume ==
  /\ ~aborted
  /\ Ready
  /\ next_event' = next_event + 1
  /\ IF (next_event + 1) % BATCH = 0
       THEN /\ aborted' = ReleaseRefused
            /\ nextreleased' = IF ReleaseRefused THEN nextreleased
                                                 ELSE nextreleased + BATCH
       ELSE UNCHANGED <<aborted, nextreleased>>
  /\ UNCHANGED <<nextfree, nextreserved, next_recvq, unexp_eventq, procVars>>

QNext ==
  \/ \E p \in Procs :
       \/ NotifyTake(p) \/ NotifyCheck(p) \/ NotifyRollback(p)
       \/ \E nr \in 1..FRAGS : PrepareTake(p, nr)
       \/ PrepareCheck(p) \/ PrepareRollback(p)
       \/ CommitTake(p) \/ Store(p) \/ Publish(p) \/ Wake(p)
  \/ Consume

QSpec == QInit /\ [][QNext]_qvars
-----------------------------------------------------------------------------
\* Every variable stays within its type; a context holds recvq slots only
\* inside prepare and commit.
QTypeOK ==
  /\ nextfree \in Int /\ nextreserved \in Int /\ nextreleased \in Int
  /\ next_recvq \in Int /\ next_event \in Int
  /\ unexp_eventq \in [0..NR-1 -> [id : 0..IDMAX, type : Types, recvq : Int, index : Int]]
  /\ pc \in [Procs -> PCs]
  /\ index \in [Procs -> Int]
  /\ evt \in [Procs -> [type : Types, recvq : Int]]
  /\ cancelling \in [Procs -> BOOLEAN]
  /\ granted \subseteq Procs \X Int
  /\ aborted \in BOOLEAN

\* BUG_ON of commit and cancel ("the caller should have called prepare()
\* earlier"): whatever other contexts reserve, commit or roll back in between,
\* a context that prepared a slot finds a reserved slot left for it.
CommitFindsSlot ==
  \A p \in Procs : pc[p] = "fill" => nextreserved < nextfree

\* The slots between nextreserved and nextfree are the prepared ones: every
\* interleaving of takes, rollbacks, commits and cancels keeps the two indexes
\* apart by the number of recvq slots handed out and not yet committed.
SlotsAccounted == nextfree - nextreserved = Cardinality(granted)

\* omx__progress aborts the application when the driver refuses to release a
\* batch: no order of reservations, rollbacks and polls makes it refuse.
ReleaseNeverRefused == ~aborted

\* The contexts between taking an index and publishing it or giving it back.
Holding == {p \in Procs : pc[p] \in {"notify_check", "notify_full", "store", "publish"}}

Holds(p, i) == p \in Holding /\ index[p] = i

\* The slots published since the library last polled them: their id is not the
\* one it found there one lap ago.
Fresh ==
  {s \in 0..NR-1 :
     /\ unexp_eventq[s].id # 0
     /\ \A i \in next_event - NR .. next_event - 1 :
          i >= 0 /\ Slot(i) = s => unexp_eventq[s].id # Id(i)}

\* The library never takes one delivery for two: whatever contexts overlap,
\* overwrite or roll back, the events it has processed, those it may still find
\* in the queue and those under way are no more than the indexes reserved.  The
\* poll knows an event of this lap from one it has processed by its one-byte id
\* alone.
PolledOnce ==
  Cardinality(Holding) + Cardinality(Fresh) <= nextreserved - next_event

InQueue(i) == LET slot == unexp_eventq[Slot(i)] IN slot.id # 0 /\ slot.index = i

\* The event that the library processes is the one of the index it polls, not
\* one that another context, a lap ahead or behind, left in the slot.
PollSeesOwnIndex ==
  Ready => unexp_eventq[Slot(next_event)].index = next_event

\* "we went too far, rollback": giving a slot back leaves the queue as if it
\* had not been taken, so every reserved index that the library has not
\* consumed is in the queue or in the hands of a context that will fill it.
NoHole ==
  \A i \in next_event .. nextreserved - 1 : InQueue(i) \/ \E p \in Procs : Holds(p, i)

\* A recvq slot in use: prepared for a context that writes the packet in it,
\* or named by an event that the library has not processed yet.  A cancelled
\* event names none.
UsesRecvq(e) == e.type = "EVENT" /\ e.recvq # NoRecvq

RecvqUses ==
  {<<"filling", g[1], g[2]>> : g \in {h \in granted : pc[h[1]] \notin {"prepare_check", "prepare_full"}}}
    \cup {<<"storing", p, evt[p].recvq>> : p \in {q \in Procs : pc[q] = "store" /\ UsesRecvq(evt[q])}}
    \cup {<<"queued", s, unexp_eventq[s].recvq>> :
            s \in {t \in 0..NR-1 : unexp_eventq[t].index >= next_event /\ UsesRecvq(unexp_eventq[t])}}

\* "The recvq accounting is trivial since there are as many recvq slots than
\* unexp event slots, the latter are accounted": two packets never share a
\* recvq slot.
RecvqExclusive ==
  \A u, v \in RecvqUses : u # v => u[3] % NR # v[3] % NR
=============================================================================
