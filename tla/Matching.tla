------------------------------ MODULE Matching ------------------------------
(***************************************************************************)
(* Matching of messages and receives in one endpoint of the library that   *)
(* several threads use: posted receives, unexpected messages, messages to  *)
(* self, context ids, the queues of completed requests, and the unexpected *)
(* handler, which runs without the endpoint lock (omx_recv.c, omx_test.c,  *)
(* omx_lib.c).  Everything else of the library runs with the lock held, so *)
(* a call is one action up to omx__progress, one per event, and one from   *)
(* the end of the progression to the return.                               *)
(*                                                                         *)
(* Packets come here in the order of their sequence numbers, duplicates    *)
(* included: module Partner has the early ones and the acks.  A match info *)
(* is a context id c and a tag t; a mask keeps or ignores each of them.    *)
(***************************************************************************)
EXTENDS Integers, Sequences, FiniteSets, SequencesExt

CONSTANTS
  Threads,   \* the application's threads
  NoThread,  \* the owner of a free lock
  Configs    \* what the application does and what arrives: see MInit

ASSUME MatchingConstants == NoThread \notin Threads /\ Threads # {}

VARIABLES
  cf,   \* the configuration
  ep,   \* the endpoint
  th    \* th[t]: the call that thread t is in

mvars == <<cf, ep, th>>

Ctxids == 0..cf.ctxids-1
HasCtxids == cf.ctxids > 1

\* Does a receive (or a probe) with these criteria accept message m?
Accepts(crit, m) == (crit.mc => m.c = crit.c) /\ (crit.mt => m.t = crit.t)

NoMsg == [src |-> "none", seq |-> 0, c |-> 0, t |-> 0, kind |-> "eager"]
NoCall == [op |-> "none", c |-> 0, t |-> 0, mc |-> FALSE, mt |-> FALSE]
NoEvent == [m |-> NoMsg, frag |-> 0]

\* Configuration: the number of context ids, whether there is a handler, the packets
\* that come, the calls that each thread makes (any order, any number up to a bound),
\* how often an allocation fails, and whether the application keeps from sending to
\* itself while the progression is disabled.
MInit ==
  /\ cf \in Configs
  /\ ep = [lock |-> NoThread, disabled |-> {}, waiting |-> {}, arrived |-> 0, next |-> 0,
           reqs |-> <<>>, posted |-> [c \in Ctxids |-> <<>>], unexp |-> <<>>,
           cunexp |-> [c \in Ctxids |-> <<>>], done |-> <<>>, cdone |-> [c \in Ctxids |-> <<>>],
           selfq |-> {}, pulling |-> {}, expq |-> <<>>, match |-> [s \in cf.sources |-> 0],
           fails |-> 0,
           \* ghosts: who took each message, self messages sent, a failed assertion, a
           \* completed or unexpected message that a call should have found
           fate |-> <<>>, selfs |-> 0, broken |-> FALSE, missed |-> {}]
  /\ th = [t \in Threads |->
       [pc |-> "idle", call |-> NoCall, idx |-> 0, event |-> NoEvent, sreq |-> 0, calls |-> 0]]
-----------------------------------------------------------------------------
\* The queues of requests

Without(q, r) == SelectSeq(q, LAMBDA i : i # r)

\* omx__match_recv: the first posted receive of the message's context id that accepts it.
MatchRecv(x, m) ==
  LET q == x.posted[m.c]
      i == SelectInSeq(q, LAMBDA r : Accepts(x.reqs[r].crit, m))
  IN IF i = 0 THEN 0 ELSE q[i]

\* omx__notify_request_done
NotifyRequestDone(x, r, ctxid) ==
  [x EXCEPT !.reqs[r].state = {"DONE"}, !.done = Append(@, r),
            !.cdone[ctxid] = IF HasCtxids THEN Append(@, r) ELSE @]

\* omx__recv_complete and omx__send_complete
Complete(x, r) == NotifyRequestDone(x, r, x.reqs[r].msg.c)

EnqueueUnexp(x, r) ==
  [x EXCEPT !.unexp = Append(@, r),
            !.cunexp[x.reqs[r].msg.c] = IF HasCtxids THEN Append(@, r) ELSE @]

\* The request that a test found leaves the queue of done requests and is freed.
TestSuccess(x, r) ==
  [x EXCEPT !.reqs[r].state = {"FREE"}, !.done = Without(@, r),
            !.cdone = [c \in Ctxids |-> Without(@[c], r)]]
-----------------------------------------------------------------------------
\* Receiving

Unexpected(x, r) == "UNEXPECTED" \in x.reqs[r].state

\* omx__process_recv_tiny, omx__process_recv_small
ProcessRecvEager(x, r) ==
  LET y == [x EXCEPT !.reqs[r].got = {1}]
  IN IF Unexpected(x, r) THEN EnqueueUnexp(y, r) ELSE Complete(y, r)

\* Mutant of ProcessRecvMediumFrag: an unexpected message is queued when it is complete.
ProcessRecvMediumFragLate(x, r, frag) ==
  LET y == [x EXCEPT !.reqs[r].got = @ \cup {frag}]
  IN IF frag \in x.reqs[r].got THEN x
     ELSE IF y.reqs[r].got # {1, 2} THEN [y EXCEPT !.reqs[r].state = @ \cup {"PARTIAL"}]
     ELSE LET z == [y EXCEPT !.reqs[r].state = @ \ {"PARTIAL"}]
          IN IF Unexpected(x, r) THEN EnqueueUnexp(z, r) ELSE Complete(z, r)

\* omx__process_recv_medium_frag: two fragments.  An unexpected request is queued with
\* its first fragment and stays there.
ProcessRecvMediumFrag(x, r, frag) ==
  LET new == x.reqs[r].got = {}
      y == [x EXCEPT !.reqs[r].got = @ \cup {frag}]
      z == IF ~new THEN y
           ELSE [IF Unexpected(x, r) THEN EnqueueUnexp(y, r) ELSE y
                   EXCEPT !.reqs[r].state = @ \cup {"PARTIAL"}]
      last == [z EXCEPT !.reqs[r].state = @ \ {"PARTIAL"}]
  IN IF frag \in x.reqs[r].got THEN x
     ELSE IF z.reqs[r].got # {1, 2} THEN z
     ELSE IF Unexpected(x, r) THEN last ELSE Complete(last, r)

\* omx__process_recv_rndv
ProcessRecvRndv(x, r) ==
  LET y == [x EXCEPT !.reqs[r].state = @ \cup {"PARTIAL"}]
  IN IF Unexpected(x, r) THEN EnqueueUnexp(y, r) ELSE [y EXCEPT !.pulling = @ \cup {r}]

ProcessRecv(x, r, ev) ==
  CASE ev.m.kind = "eager"  -> ProcessRecvEager(x, r)
    [] ev.m.kind = "medium" -> ProcessRecvMediumFrag(x, r, ev.frag)
    [] ev.m.kind = "large"  -> ProcessRecvRndv(x, r)

NewRequest(type, state, crit, m, sreq) ==
  [type |-> type, state |-> state, crit |-> crit, msg |-> m, got |-> {}, sreq |-> sreq]

TookIt(x, m, who) == [x EXCEPT !.fate = Append(@, <<m, who>>)]

\* omx__try_match_next_recv from the point where a receive was found or not.
Matched(x, r, ev) ==
  ProcessRecv(TookIt([x EXCEPT !.posted[ev.m.c] = Without(@, r), !.reqs[r].msg = ev.m,
                               !.reqs[r].state = @ \ {"NEED_MATCHING"}], ev.m, r), r, ev)

NoMatch(x, ev) ==
  LET r == Len(x.reqs) + 1
  IN ProcessRecv(TookIt([x EXCEPT !.reqs = Append(@, NewRequest("recv", {"UNEXPECTED"}, NoCall, ev.m, 0))],
                        ev.m, r), r, ev)

NextSeq(x, m) == [x EXCEPT !.match[m.src] = @ + 1]

MatchOrQueue(x, ev) ==
  LET r == MatchRecv(x, ev.m) IN NextSeq(IF r > 0 THEN Matched(x, r, ev) ELSE NoMatch(x, ev), ev.m)

\* omx__process_partner_ordered_recv for a packet that is not the next one to match:
\* a fragment of a message that was matched, or a duplicate.
Continue(x, ev) ==
  LET rs == {r \in DOMAIN x.reqs : x.reqs[r].msg = ev.m /\ "PARTIAL" \in x.reqs[r].state}
  IN IF ev.m.kind # "medium" \/ rs = {} THEN x ELSE ProcessRecv(x, CHOOSE r \in rs : TRUE, ev)
-----------------------------------------------------------------------------
\* Messages to self

\* The two requests of a message to self complete together.
SelfMatched(x, s, r) ==
  LET m == x.reqs[s].msg
      y == [x EXCEPT !.posted[m.c] = Without(@, r), !.reqs[r].msg = m, !.reqs[r].got = {1}]
  IN Complete(Complete(TookIt(y, m, r), s), r)

SelfNoMatch(x, s) ==
  LET m == x.reqs[s].msg
      r == Len(x.reqs) + 1
      y == [x EXCEPT !.reqs = Append(@, [NewRequest("self_unexp", {"UNEXPECTED"}, NoCall, m, s)
                                           EXCEPT !.got = {1}])]
  IN TookIt([EnqueueUnexp(y, r) EXCEPT !.reqs[s].state = @ \cup {"UNEXPECTED_SELF"},
                                       !.selfq = @ \cup {s}], m, r)

SelfMatchOrQueue(x, s) ==
  LET r == MatchRecv(x, x.reqs[s].msg)
  IN IF r > 0 THEN SelfMatched(x, s, r) ELSE SelfNoMatch(x, s)

\* omx__process_self_send up to its matching: the request.
SelfRequest(x, call) ==
  LET m == [src |-> "self", seq |-> x.selfs + 1, c |-> call.c, t |-> call.t, kind |-> "eager"]
  IN [x EXCEPT !.reqs = Append(@, NewRequest("self", {}, NoCall, m, 0)), !.selfs = @ + 1]
-----------------------------------------------------------------------------
\* omx_irecv

\* omx__complete_unexp_req_as_irecv
Adopt(x, r) ==
  LET y == [x EXCEPT !.unexp = Without(@, r), !.reqs[r].state = @ \ {"UNEXPECTED"},
                     !.cunexp[x.reqs[r].msg.c] = Without(@, r)]
      s == x.reqs[r].sreq
  IN CASE x.reqs[r].type = "self_unexp" ->
            Complete([Complete(y, r) EXCEPT !.selfq = @ \ {s}], s)
       [] x.reqs[r].msg.kind = "large" -> [y EXCEPT !.pulling = @ \cup {r}]
       [] OTHER -> IF "PARTIAL" \in x.reqs[r].state THEN y ELSE Complete(y, r)

\* The first unexpected message that a receive accepts.
FindUnexp(x, call) ==
  LET q == IF HasCtxids THEN x.cunexp[call.c] ELSE x.unexp
      i == SelectInSeq(q, LAMBDA r : Accepts(call, x.reqs[r].msg))
  IN IF i = 0 THEN 0 ELSE q[i]

\* omx__irecv_segs: an unexpected message is taken and given the criteria of the
\* receive (a ghost), or the receive is posted.
Irecv(x, call) ==
  LET r == FindUnexp(x, call)
      n == Len(x.reqs) + 1
  IN IF r > 0 THEN [Adopt(x, r) EXCEPT !.reqs[r].crit = call]
     ELSE [x EXCEPT !.reqs = Append(@, NewRequest("recv", {"NEED_MATCHING"}, call, NoMsg, 0)),
                    !.posted[call.c] = Append(@, n)]
-----------------------------------------------------------------------------
\* Testing, probing and cancelling, after the progression

\* MATCHING_CROSS_CTXIDS is given the mask: its test holds when the mask keeps the
\* context id, so that the queues of one context are used when it does not.
UseAny(call) == ~HasCtxids \/ call.mc

\* The first request of a queue that has a message accepted by the call.
FirstIn(x, q, call) ==
  LET i == SelectInSeq(q, LAMBDA r : Accepts(call, x.reqs[r].msg))
  IN IF i = 0 THEN 0 ELSE q[i]

Missed(x, any, call) ==
  [x EXCEPT !.missed = IF FirstIn(x, any, call) > 0 THEN @ \cup {call} ELSE @]

\* omx__test_any_common
TestAny(x, call) ==
  LET r == FirstIn(x, IF UseAny(call) THEN x.done ELSE x.cdone[call.c], call)
  IN IF r > 0 THEN TestSuccess(x, r) ELSE Missed(x, x.done, call)

\* omx__iprobe_common
Iprobe(x, call) ==
  LET r == FirstIn(x, IF UseAny(call) THEN x.unexp ELSE x.cunexp[call.c], call)
  IN IF r > 0 THEN x ELSE Missed(x, x.unexp, call)

\* omx__cancel_common for a receive that was not matched.
Cancel(x, r) ==
  [x EXCEPT !.posted[x.reqs[r].crit.c] = Without(@, r), !.reqs[r].state = @ \ {"NEED_MATCHING"}]

Posted(x) == {r \in DOMAIN x.reqs : "NEED_MATCHING" \in x.reqs[r].state}

\* What is left of a call after its progression, one result for each request that it
\* may be about.  The match info of a receive that was never matched is not set: the
\* queue of omx_cancel_notest may be that of any context id.
Finish(x, call) ==
  LET of(rs, result(_)) == IF rs = {} THEN {x} ELSE {result(r) : r \in rs}
  IN CASE call.op = "test"     -> of(ToSet(x.done), LAMBDA r : TestSuccess(x, r))
       [] call.op = "test_any" -> {TestAny(x, call)}
       [] call.op = "iprobe"   -> {Iprobe(x, call)}
       [] call.op = "cancel"   -> of(Posted(x), LAMBDA r : [Cancel(x, r) EXCEPT !.reqs[r].state = {"FREE"}])
       [] call.op = "cancel_notest" ->
            UNION {of(Posted(x), LAMBDA r : NotifyRequestDone(Cancel(x, r), r, c)) : c \in Ctxids}
       [] OTHER -> {x}
-----------------------------------------------------------------------------
\* Threads

LockFree == ep.lock = NoThread /\ ~ep.broken

\* Thread t leaves its call with endpoint x.
Leave(t, x) ==
  /\ ep' = [x EXCEPT !.lock = NoThread]
  /\ th' = [th EXCEPT ![t] = [@ EXCEPT !.pc = "idle", !.call = NoCall, !.idx = 0,
                                       !.event = NoEvent, !.sreq = 0, !.calls = @ + 1]]
  /\ UNCHANGED cf

\* Mutant of Progress: it does not look whether the progression is disabled.
ProgressAlways(t, x, call) ==
  /\ ep' = [x EXCEPT !.lock = t]
  /\ th' = [th EXCEPT ![t] = [@ EXCEPT !.pc = "progress", !.call = call, !.idx = x.next,
                                       !.event = NoEvent, !.sreq = 0]]
  /\ UNCHANGED cf

\* Thread t starts omx__progress, or finishes its call when the progression is disabled.
Progress(t, x, call) ==
  IF x.disabled # {} THEN \E y \in Finish(x, call) : Leave(t, y)
  ELSE /\ ep' = [x EXCEPT !.lock = t]
       /\ th' = [th EXCEPT ![t] = [@ EXCEPT !.pc = "progress", !.call = call, !.idx = x.next,
                                            !.event = NoEvent, !.sreq = 0]]
       /\ UNCHANGED cf

\* The handler is called without the lock.  In a build with assertions it is an error
\* to get here while the progression is disabled.
CallHandler(t, x, pc, call, ev, s) ==
  IF x.disabled # {} /\ cf.debug THEN ep' = [x EXCEPT !.broken = TRUE] /\ UNCHANGED <<cf, th>>
  ELSE /\ ep' = [x EXCEPT !.disabled = {"IN_HANDLER"}, !.lock = NoThread]
       /\ th' = [th EXCEPT ![t] = [@ EXCEPT !.pc = pc, !.call = call, !.event = ev, !.sreq = s]]
       /\ UNCHANGED cf

\* Every allocation may fail, a bounded number of times.
Fails(x) == IF x.fails < cf.fails THEN {[x EXCEPT !.fails = @ + 1]} ELSE {}

\* omx_isend and omx_issend to the endpoint itself
SelfSend(t, call) ==
  LET x == SelfRequest(ep, call)
      s == Len(x.reqs)
  IN IF cf.handler /\ MatchRecv(x, x.reqs[s].msg) = 0
       THEN CallHandler(t, x, "self_handler", call, NoEvent, s)
     ELSE \/ Progress(t, SelfMatchOrQueue(x, s), call)
          \/ /\ MatchRecv(x, x.reqs[s].msg) = 0
             /\ \E y \in Fails(x) : Progress(t, Complete(y, s), call)

\* omx_disable_progression waits for the handler, without the lock.
Disable(t) ==
  IF "BY_API" \in ep.disabled THEN Leave(t, ep)
  ELSE IF "IN_HANDLER" \in ep.disabled
    THEN /\ ep' = [ep EXCEPT !.waiting = @ \cup {t}]
         /\ th' = [th EXCEPT ![t].pc = "waiting"]
         /\ UNCHANGED cf
  ELSE Leave(t, [ep EXCEPT !.disabled = {"BY_API"}])

\* omx_reenable_progression
Reenable(t, call) ==
  IF "BY_API" \notin ep.disabled THEN Leave(t, ep)
  ELSE Progress(t, [ep EXCEPT !.disabled = @ \ {"BY_API"}], call)

\* A thread calls the library.
Call(t) ==
  /\ th[t].pc = "idle" /\ LockFree /\ th[t].calls < cf.calls[t]
  /\ \E call \in cf.ops[t] :
       CASE call.op = "irecv" ->
              IF FindUnexp(ep, call) > 0 THEN Leave(t, Irecv(ep, call))
                                         ELSE Progress(t, Irecv(ep, call), call)
         [] call.op = "self" -> (cf.careful => ep.disabled = {}) /\ SelfSend(t, call)
         [] call.op = "disable" -> Disable(t)
         [] call.op = "reenable" -> Reenable(t, call)
         [] OTHER -> Progress(t, ep, call)

\* The loop of omx_disable_progression, once the condition was signalled.
Woken(t) == th[t].pc = "woken" /\ LockFree /\ Disable(t)

\* One event of omx__progress.
ProgressEvent(t) ==
  LET ev == cf.events[th[t].idx + 1]
      next(x) == /\ ep' = x
                 /\ th' = [th EXCEPT ![t].idx = @ + 1]
                 /\ UNCHANGED cf
  IN /\ th[t].pc = "progress" /\ th[t].idx < ep.arrived /\ ~ep.broken
     /\ IF ev.m.seq # ep.match[ev.m.src] + 1 THEN next(Continue(ep, ev))
        ELSE IF MatchRecv(ep, ev.m) = 0 /\ cf.handler
               THEN CallHandler(t, ep, "handler", th[t].call, ev, 0)
        ELSE \/ next(MatchOrQueue(ep, ev))
             \/ MatchRecv(ep, ev.m) = 0 /\ \E y \in Fails(ep) : next(y)

\* The end of omx__progress: the index is stored, the pulls that are over complete
\* their receives, and the call finishes.
ProgressEnd(t) ==
  LET x == [ep EXCEPT !.next = th[t].idx, !.expq = <<>>]
      y == FoldLeft(LAMBDA z, r : Complete([z EXCEPT !.reqs[r].got = {1}], r), x, ep.expq)
  IN /\ th[t].pc = "progress" /\ th[t].idx = ep.arrived /\ ~ep.broken
     /\ \E z \in Finish(y, th[t].call) : Leave(t, z)

\* The handler of t has returned: t has the lock again, enables the progression and
\* signals one of the threads that wait.
Resumed(t, w) == [ep EXCEPT !.lock = t, !.disabled = {}, !.waiting = @ \ {w}]


Signalled == IF ep.waiting = {} THEN {NoThread} ELSE ep.waiting
WakeUp(threads, w) == IF w = NoThread THEN threads ELSE [threads EXCEPT ![w].pc = "woken"]

\* Mutant of AfterHandler: receives posted meanwhile are not looked for.
AfterHandlerNoSearch(x, ev) ==
  {NextSeq(TookIt(x, ev.m, 0), ev.m), NextSeq(NoMatch(x, ev), ev.m)} \cup Fails(x)

\* The outcomes of a message that the handler has seen: discarded when the handler took
\* it, else matched with a receive posted meanwhile or queued; without memory it is
\* dropped and will be sent again.
AfterHandler(x, ev) ==
  {NextSeq(TookIt(x, ev.m, 0), ev.m), MatchOrQueue(x, ev)}
    \cup (IF MatchRecv(x, ev.m) = 0 THEN Fails(x) ELSE {})

\* omx__try_match_next_recv goes on after the handler.
HandlerReturn(t) ==
  /\ th[t].pc = "handler" /\ LockFree
  /\ \E w \in Signalled : \E y \in AfterHandler(Resumed(t, w), th[t].event) :
       /\ ep' = y
       /\ th' = WakeUp([th EXCEPT ![t] = [@ EXCEPT !.pc = "progress", !.idx = @ + 1,
                                                   !.event = NoEvent]], w)
  /\ UNCHANGED cf

\* omx__process_self_send goes on after the handler, and the send progresses.
SelfAfterHandler(x, s) ==
  {Complete(TookIt(x, x.reqs[s].msg, 0), s), SelfMatchOrQueue(x, s)}
    \cup (IF MatchRecv(x, x.reqs[s].msg) = 0 THEN {Complete(y, s) : y \in Fails(x)} ELSE {})

SelfHandlerReturn(t) ==
  /\ th[t].pc = "self_handler" /\ LockFree
  /\ \E w \in Signalled : \E y \in SelfAfterHandler(Resumed(t, w), th[t].sreq) :
       /\ ep' = y
       /\ th' = WakeUp([th EXCEPT ![t] = [@ EXCEPT !.pc = "progress", !.idx = y.next,
                                                   !.sreq = 0]], w)
  /\ UNCHANGED cf

\* The handler posts a receive itself.
HandlerIrecv(t) ==
  /\ th[t].pc \in {"handler", "self_handler"} /\ LockFree /\ ep.disabled # {}
  /\ th[t].calls < cf.calls[t]
  /\ \E call \in {c \in cf.ops[t] : c.op = "irecv"} : ep' = Irecv(ep, call)
  /\ th' = [th EXCEPT ![t].calls = @ + 1]
  /\ UNCHANGED cf

\* The driver delivers a packet, or the end of a pull.
Arrive ==
  /\ ep.arrived < Len(cf.events)
  /\ ep' = [ep EXCEPT !.arrived = @ + 1]
  /\ UNCHANGED <<cf, th>>

PullDone ==
  /\ \E r \in ep.pulling : ep' = [ep EXCEPT !.pulling = @ \ {r}, !.expq = Append(@, r)]
  /\ UNCHANGED <<cf, th>>

MNext ==
  \/ \E t \in Threads :
       \/ Call(t) \/ Woken(t) \/ ProgressEvent(t) \/ ProgressEnd(t)
       \/ HandlerReturn(t) \/ SelfHandlerReturn(t) \/ HandlerIrecv(t)
  \/ Arrive \/ PullDone

MSpec == MInit /\ [][MNext]_mvars
-----------------------------------------------------------------------------
\* The assertions of the handler's two callers: the progression is enabled.
HandlerNotNested == ~ep.broken

Is(r, flag) == flag \in ep.reqs[r].state
Requests(flag) == {r \in DOMAIN ep.reqs : Is(r, flag)}

\* Received by the application: matched by a receive, whether or not it is complete.
Taken(r) == ep.reqs[r].type # "self" /\ ep.reqs[r].msg.src # "none" /\ ~Is(r, "UNEXPECTED")

\* No posted receive accepts a message that waits in the unexpected queue, nor one that
\* came after it was posted and was given to another receive: posting a receive,
\* queueing a message and the handler's window between the two searches never pass
\* each other.
NothingMatchable ==
  \A r \in Requests("NEED_MATCHING") : \A u \in DOMAIN ep.reqs :
    ep.reqs[u].type # "self" /\ ep.reqs[u].msg.src # "none" /\ (Is(u, "UNEXPECTED") \/ u > r)
      => ~Accepts(ep.reqs[r].crit, ep.reqs[u].msg)

\* Messages of one source do not overtake each other: when a receive has one of them,
\* those sent before it that the receive accepts as well were taken already.
NotOvertaken ==
  \A r \in DOMAIN ep.reqs : Taken(r) =>
    \A u \in DOMAIN ep.reqs :
      LET m == ep.reqs[u].msg
      IN Is(u, "UNEXPECTED") /\ m.src = ep.reqs[r].msg.src /\ m.seq < ep.reqs[r].msg.seq
           => ~Accepts(ep.reqs[r].crit, m)

\* A message is matched, queued or given to the handler once, whatever threads and
\* handlers do while the lock is released.
DeliveredOnce ==
  \A i, j \in DOMAIN ep.fate : ep.fate[i][1] = ep.fate[j][1] => i = j

\* The queues hold exactly the requests whose state says so, in the same order in the
\* queue of all contexts and in that of one; a message to self that waits has one send.
QueuesExact ==
  LET of(q, c) == SelectSeq(q, LAMBDA r : ep.reqs[r].msg.c = c)
  IN /\ ToSet(ep.unexp) = Requests("UNEXPECTED") /\ ToSet(ep.done) = Requests("DONE")
     /\ UNION {ToSet(ep.posted[c]) : c \in Ctxids} = Requests("NEED_MATCHING")
     /\ HasCtxids => /\ \A c \in Ctxids : ep.cunexp[c] = of(ep.unexp, c)
                     /\ UNION {ToSet(ep.cdone[c]) : c \in Ctxids} = ToSet(ep.done)
     /\ ep.selfq = Requests("UNEXPECTED_SELF")
     /\ ep.selfq = {ep.reqs[r].sreq : r \in Requests("UNEXPECTED")} \ {0}

\* A receive that the application sees as done has all of its message.
DoneIsWhole ==
  \A r \in Requests("DONE") :
    ep.reqs[r].type # "self" /\ ep.reqs[r].msg.src # "none" =>
      ep.reqs[r].got = IF ep.reqs[r].msg.kind = "medium" THEN {1, 2} ELSE {1}

\* While the application has disabled the progression no thread is inside it.
DisabledIsQuiet ==
  "BY_API" \in ep.disabled =>
    \A t \in Threads : th[t].pc \notin {"progress", "handler", "self_handler"}

\* A call that names its context id finds what is there.
NoneMissed == \A call \in ep.missed : HasCtxids /\ ~call.mc

\* "matching across multiple ctxids, so use the anyctxid queue": so does one that does not.
NoneMissedAcross == ep.missed = {}

\* A thread that waits for the handler in omx_disable_progression will be signalled: a
\* handler is running.
WaiterHasHandler ==
  \A t \in Threads : th[t].pc = "waiting" =>
    \E u \in Threads : th[u].pc \in {"handler", "self_handler"}

\* A message ends in one queue or one receive, whole (omx__process_recv).
DeliveredOnceWhole == DeliveredOnce /\ DoneIsWhole /\ QueuesExact

=============================================================================
