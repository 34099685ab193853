------------------------------ MODULE Requests ------------------------------
(***************************************************************************)
(* The life of the requests of one endpoint in the library: from the call  *)
(* that submits them, through the queues where they wait for resources,    *)
(* for a sequence number, for the driver, for an ack or for a reply, to    *)
(* the completion that the application tests (omx_send.c, omx_large.c,     *)
(* omx_ack.c, omx_request.h, omx_test.c, omx_lib.c), and their end when a  *)
(* partner is dropped or the endpoint is closed.                           *)
(*                                                                         *)
(* API calls hold the endpoint lock, except in the unexpected handler that *)
(* the processing of an event may call: calls and events interleave.  The  *)
(* resending and the delayed requests at the end of a progression are not  *)
(* interrupted: "phase" is "api" outside of them.  The driver and the      *)
(* peers are external: they accept or refuse packets (an outcome o) and    *)
(* answer later.                                                           *)
(*                                                                         *)
(* The library is built with OMX_LIB_DEBUG: a failed assertion aborts it.  *)
(* e.dead tells how the process ended.                                     *)
(***************************************************************************)
EXTENDS RegCache

CONSTANTS Partners,     \* remote endpoints
          Configs       \* see cf

VARIABLES cf,       \* [kinds, bufs, frags, n, exps, slots, regs, sends, window, zombies,
                    \*  cache, parallel, resends, ios, registers, drops, forgets, peers]
          e,        \* the endpoint: windows (see RegCache), requests, queues, counters
          phase     \* "api", "resend", "delayed" or "closed"

rvars == <<cf, e, phase>>

Reqs == 1..cf.n
Slots == 1..cf.slots

\* What the driver answers: packets accepted by a post, and a new window.
Outcomes == [io : cf.ios, reg : cf.registers]

\* A recvlarge is a receive through a pull, then the notify that answers it.
Resources(kind) ==
  CASE kind = "mediumsq" -> {"exp", "sendq"}
    [] kind = "large" -> {"sendlarge", "region"}
    [] kind = "recvlarge" -> {"exp", "region", "handle"}
    [] OTHER -> {}

\* "told", "late", "posted" and "refused" are observations of the model: the
\* application may reuse the buffer, the library read it after that, the driver
\* took the whole message, and it took nothing of the first post.
NoRequest ==
  [live |-> FALSE, kind |-> "none", p |-> NOREQ, buf |-> NOREQ, st |-> {}, missing |-> {},
   frags |-> 1, pending |-> 0, slots |-> {}, rid |-> NOREQ, rseq |-> 0, seq |-> 0,
   sends |-> 0, q |-> "none", posted |-> FALSE, told |-> FALSE,
   late |-> FALSE, refused |-> FALSE]

Crash(x, why) == [x EXCEPT !.dead = IF @ = "" THEN why ELSE @]

DebugAssert(x, condition) == IF condition THEN x ELSE Crash(x, "assert")

State(x, r, minus, plus) == [x EXCEPT !.req[r].st = (@ \ minus) \cup plus]

\* queue_elt leaves the queue that the caller names ...
Dequeue(x, r, queue) ==
  [DebugAssert(x, x.req[r].q = queue)
     EXCEPT !.req[r].q = "none", !.delayed = Remove(@, r), !.nonacked = Remove(@, r),
            !.resent = Remove(@, r)]

\* ... and enters another at its tail ...
Enqueue(x, r, queue) ==
  [x EXCEPT !.req[r].q = queue,
            !.delayed = IF queue = "delayed" THEN Append(@, r) ELSE @,
            !.nonacked = IF queue = "nonacked" THEN Append(@, r) ELSE @,
            !.resent = IF queue = "resent" THEN Append(@, r) ELSE @]

\* ... or, for delayed requests and resends, at its head.
Requeue(x, r, queue) ==
  [x EXCEPT !.req[r].q = queue,
            !.delayed = IF queue = "delayed" THEN <<r>> \o @ ELSE @,
            !.nonacked = IF queue = "nonacked" THEN <<r>> \o @ ELSE @]

-----------------------------------------------------------------------------
(* Completion. *)

\* Of a freed request, the model only remembers what its peer may still send.
FreeRequest(x, r) ==
  LET q == x.req[r]
  IN [DebugAssert(x, q.q = "none")
        EXCEPT !.req[r] = [NoRequest EXCEPT !.kind = q.kind, !.p = q.p,
                                            !.rid = IF q.kind = "large" THEN q.rid ELSE NOREQ,
                                            !.rseq = IF q.kind = "large" THEN q.rseq ELSE 0,
                                            !.posted = q.posted]]

NotifyDoneEarly(x, r) ==
  IF x.zombies >= cf.zombies THEN x
  ELSE [State(DebugAssert(x, "done" \notin x.req[r].st), r, {}, {"done"})
          EXCEPT !.done = IF "zombie" \in x.req[r].st THEN @ ELSE @ \cup {r}]

NotifyDone(x, r) ==
  LET st == x.req[r].st
  IN IF "zombie" \in st
     THEN [FreeRequest(x, r) EXCEPT !.zombies = @ - 1]
     ELSE Enqueue([State(DebugAssert(x, st \subseteq {"done"}), r, {}, {"done"})
                     EXCEPT !.done = @ \cup {r}, !.req[r].told = TRUE], r, "done")

\* Putting no slot back writes the head of the free list from outside the array.
SendqPut(x, r) ==
  IF x.req[r].frags = 0 THEN Crash(x, "wild")
  ELSE [x EXCEPT !.user = [s \in Slots |-> IF s \in x.req[r].slots THEN NOREQ ELSE @[s]],
                 !.req[r].slots = {}]

\* The status that the application reads is not modelled.
SendComplete(x, r) ==
  NotifyDone(IF "seqnum" \notin x.req[r].st /\ x.req[r].kind = "mediumsq"
             THEN SendqPut(x, r) ELSE x, r)

RecvComplete(x, r) == NotifyDone(x, r)

ReleaseRegion(x, r, reserver) ==
  IF PutAllowed(x, x.req[r].rid, reserver)
  THEN PutRegion(x, x.req[r].rid, reserver, cf.cache) ELSE Crash(x, "assert")

-----------------------------------------------------------------------------
(* Posting to the driver. *)

Sent(x, r, o) == [x EXCEPT !.req[r].sends = @ + 1, !.req[r].posted = @ \/ o.io > 0]

\* The driver takes the data of a tiny from the request, that of a small from
\* its copy, and that of a medium from the buffer of the application.
PostIsendTiny(x, r, o) == Sent(x, r, o)

PostIsendSmall(x, r, o) == Sent(x, r, o)

ReadsBuffer(x, r) == [x EXCEPT !.req[r].late = @ \/ x.req[r].told]

PostIsendMediumva(x, r, o) == Sent(ReadsBuffer(x, r), r, o)

PostIsendRndv(x, r, o) == Sent(x, r, o)

PostNotify(x, r, o) == Sent(x, r, o)

\* A medium through the send queue is copied there by its first post; n of its
\* fragments are accepted.
PostFrags(x, r, n) ==
  LET q == x.req[r]
      sent == {s \in q.slots : Cardinality({t \in q.slots : t < s}) < n}
  IN [(IF q.sends = 0 THEN ReadsBuffer(x, r) ELSE x)
        EXCEPT !.req[r].pending = n,
               !.req[r].refused = @ \/ (n = 0 /\ q.sends = 0),
               !.req[r].sends = @ + (IF n = 0 THEN 0 ELSE 1),
               !.req[r].posted = @ \/ n = q.frags,
               !.req[r].st = @ \cup (IF n = 0 THEN {} ELSE {"sending"}),
               !.fly = [s \in Slots |-> IF s \in sent THEN r ELSE @[s]]]

Accepted(x, r, o) == IF o.io < x.req[r].frags THEN o.io ELSE x.req[r].frags

CopyNeverEnds(x, r, o) == Accepted(x, r, o) + 1 < x.req[r].frags /\ x.req[r].sends = 0


\* A refused fragment ends the post and gives its event slots back.  When it is
\* the first post and another fragment follows, the copy of the rest never ends.
PostIsendMediumsq(x, r, o) ==
  IF CopyNeverEnds(x, r, o) THEN Crash(x, "hang")
  ELSE PostFrags([x EXCEPT !.exp = @ + (x.req[r].frags - Accepted(x, r, o))],
                 r, Accepted(x, r, o))

Post(x, r, o) ==
  CASE x.req[r].kind = "tiny" -> PostIsendTiny(x, r, o)
    [] x.req[r].kind = "small" -> PostIsendSmall(x, r, o)
    [] x.req[r].kind = "mediumva" -> PostIsendMediumva(x, r, o)
    [] x.req[r].kind = "mediumsq" -> PostIsendMediumsq(x, r, o)
    [] x.req[r].kind = "large" -> PostIsendRndv(x, r, o)
    [] x.req[r].kind = "recvlarge" -> PostNotify(x, r, o)

-----------------------------------------------------------------------------
(* The first post: a sequence number, and the queues of requests to be     *)
(* acked.  What is buffered is reported at once.                           *)

Numbered(x, r) ==
  [x EXCEPT !.req[r].seq = x.next[x.req[r].p], !.next[x.req[r].p] = @ + 1, !.req[r].sends = 0]

Unacked(x, r, needs) ==
  [Enqueue(State(x, r, {}, needs), r,
           IF "sending" \in x.req[r].st THEN "sending" ELSE "nonacked")
     EXCEPT !.pq[x.req[r].p] = Append(@, r)]

Reported(x, r) == NotifyDoneEarly([x EXCEPT !.req[r].told = TRUE], r)

SetupIsendTiny(x, r, o) ==
  Reported(Unacked(PostIsendTiny(Numbered(x, r), r, o), r, {"ack"}), r)

SetupIsendSmall(x, r, o) ==
  Reported(Unacked(PostIsendSmall(Numbered(x, r), r, o), r, {"ack"}), r)

\* The mistake of reporting a medium that the driver still reads.
SetupIsendMediumvaEarly(x, r, o) ==
  Reported(Unacked(PostIsendMediumva(Numbered(x, r), r, o), r, {"ack"}), r)

SetupIsendMediumva(x, r, o) == Unacked(PostIsendMediumva(Numbered(x, r), r, o), r, {"ack"})

SetupIsendMediumsq(x, r, o) ==
  Reported(Unacked(PostIsendMediumsq(Numbered(x, r), r, o), r, {"ack"}), r)

SetupIsendRndv(x, r, o) == Unacked(PostIsendRndv(Numbered(x, r), r, o), r, {"ack", "reply"})

\* The partner of a pull may be gone when the pull ends.
SetupNotify(x, r, o) ==
  IF x.conn[x.req[r].p] = "gone" THEN Crash(x, "wild")
  ELSE Reported(Unacked(PostNotify(Numbered(x, r), r, o), r, {"ack"}), r)

Setup(x, r, o) ==
  CASE x.req[r].kind = "tiny" -> SetupIsendTiny(x, r, o)
    [] x.req[r].kind = "small" -> SetupIsendSmall(x, r, o)
    [] x.req[r].kind = "mediumva" -> SetupIsendMediumva(x, r, o)
    [] x.req[r].kind = "mediumsq" -> SetupIsendMediumsq(x, r, o)
    [] x.req[r].kind = "large" -> SetupIsendRndv(x, r, o)
    [] x.req[r].kind = "recvlarge" -> SetupNotify(x, r, o)

Throttled(x, p) == x.next[p] - x.acked[p] >= cf.window

SetupOrThrottle(x, r, o) ==
  IF Throttled(x, x.req[r].p)
  THEN [Enqueue(State(x, r, {}, {"seqnum"}), r, "seqnum")
          EXCEPT !.seqq[x.req[r].p] = Append(@, r)]
  ELSE Setup(x, r, o)

-----------------------------------------------------------------------------
(* Resources: each step takes one, or leaves the request with it missing.  *)

Got(x, r, res) == [x EXCEPT !.req[r].missing = @ \ {res}]

NeedExp(x, r, nr) ==
  IF "exp" \in x.req[r].missing /\ x.exp >= nr
  THEN Got([x EXCEPT !.exp = @ - nr], r, "exp") ELSE x

NeedSendq(x, r) ==
  LET free == {s \in Slots : x.user[s] = NOREQ}
      mine == {s \in free : Cardinality({t \in free : t < s}) < x.req[r].frags}
  IN IF {"exp", "sendq"} \cap x.req[r].missing = {"sendq"}
        /\ Cardinality(free) >= x.req[r].frags
     THEN Got([x EXCEPT !.req[r].slots = mine,
                        !.user = [s \in Slots |-> IF s \in mine THEN r ELSE @[s]]], r, "sendq")
     ELSE x

NeedSendLarge(x, r) ==
  IF "sendlarge" \in x.req[r].missing /\ x.sends > 0
  THEN Got([x EXCEPT !.sends = @ - 1], r, "sendlarge") ELSE x

\* The window of a large send is reserved for it, under a new number.
NeedSendRegion(x, r, o) ==
  LET g == GetRegion(x, x.req[r].buf, r, cf.cache, cf.parallel, o.reg)
  IN IF x.req[r].missing # {"region"} THEN x
     ELSE IF g.id = NOREQ THEN g.m
     ELSE Got([g.m EXCEPT !.req[r].rid = g.id, !.req[r].rseq = g.m.reg[g.id].last,
                          !.reg[g.id].last = (@ + 1) % SEQNUMS], r, "region")

\* The pull is posted with the window that this call got: a call that starts at
\* the pull handle, because an earlier one got the window, has none.
NeedPull(x, r, o) ==
  LET g == GetRegion(x, x.req[r].buf, NOREQ, cf.cache, cf.parallel, o.reg)
      y == Got(g.m, r, "region")
  IN IF "exp" \in x.req[r].missing THEN x
     ELSE IF "region" \notin x.req[r].missing THEN Crash(x, "wild")
     ELSE IF g.id = NOREQ THEN g.m
     ELSE IF o.io = 0 THEN y
     ELSE Enqueue(State(Got([y EXCEPT !.req[r].rid = g.id], r, "handle"),
                        r, {}, {"pulling"}), r, "pulling")

IsPull(q) == q.kind = "recvlarge" /\ "partial" \in q.st

\* A request with all its resources is throttled or sent; the others stay as
\* they are, with what they got.
SendIfReady(x, r, o) == IF x.req[r].missing = {} THEN SetupOrThrottle(x, r, o) ELSE x

AllocSetupTiny(x, r, o) == SendIfReady(x, r, o)

AllocSetupSmall(x, r, o) == SendIfReady(x, r, o)

AllocSetupMediumva(x, r, o) == SendIfReady(x, r, o)

AllocSetupMediumsq(x, r, o) == SendIfReady(NeedSendq(NeedExp(x, r, x.req[r].frags), r), r, o)

AllocSetupLarge(x, r, o) == SendIfReady(NeedSendRegion(NeedSendLarge(x, r), r, o), r, o)

AllocSetupPull(x, r, o) == NeedPull(NeedExp(x, r, 1), r, o)

AllocSetupNotify(x, r, o) == SendIfReady(x, r, o)

AllocSetup(x, r, o) ==
  CASE x.req[r].kind = "tiny" -> AllocSetupTiny(x, r, o)
    [] x.req[r].kind = "small" -> AllocSetupSmall(x, r, o)
    [] x.req[r].kind = "mediumva" -> AllocSetupMediumva(x, r, o)
    [] x.req[r].kind = "mediumsq" -> AllocSetupMediumsq(x, r, o)
    [] x.req[r].kind = "large" -> AllocSetupLarge(x, r, o)
    [] IsPull(x.req[r]) -> AllocSetupPull(x, r, o)
    [] OTHER -> AllocSetupNotify(x, r, o)

Delay(x, r) == Enqueue(State(x, r, {}, {"res"}), r, "delayed")

Allocated(x, r) == IF x.req[r].missing = {} THEN x ELSE Delay(x, r)

\* The mistake of sending a tiny at once, since it needs no resources.
SubmitIsendTinyOvertakes(x, r, o) == AllocSetupTiny(x, r, o)

\* A request waits behind those that wait for resources.
SubmitIsendTiny(x, r, o) ==
  IF x.delayed = <<>> THEN AllocSetupTiny(x, r, o) ELSE Delay(x, r)

SubmitIsendSmall(x, r, o) ==
  IF x.delayed = <<>> THEN AllocSetupSmall(x, r, o) ELSE Delay(x, r)

SubmitIsendMedium(x, r, o) ==
  IF x.delayed = <<>>
  THEN Allocated(IF x.req[r].kind = "mediumsq" THEN AllocSetupMediumsq(x, r, o)
                 ELSE AllocSetupMediumva(x, r, o), r)
  ELSE Delay(x, r)

SubmitIsendLarge(x, r, o) ==
  IF x.delayed = <<>> THEN Allocated(AllocSetupLarge(x, r, o), r) ELSE Delay(x, r)

SubmitNotify(x, r, o, delayed) ==
  IF x.delayed # <<>> \/ delayed
  THEN Requeue(State(x, r, {}, {"res"}), r, "delayed")
  ELSE SetupOrThrottle(x, r, o)

\* With nothing to pull, the notify waits for the end of the progression.
SubmitPull(x, r, o, empty) ==
  IF empty THEN SubmitNotify(State([x EXCEPT !.req[r].missing = {}], r, {"partial"}, {}),
                             r, o, TRUE)
  ELSE Allocated(AllocSetupPull(x, r, o), r)

-----------------------------------------------------------------------------
(* Acks, nacks and replies. *)

\* The mistake of completing at its ack a medium that the driver still sends.
MarkRequestAckedSending(x, r, ok) ==
  LET y == State(x, r, {"ack"}, {})
      kind == x.req[r].kind
  IN CASE kind = "mediumsq" -> SendComplete(Dequeue(y, r, x.req[r].q), r)
       [] kind = "recvlarge" -> RecvComplete(Dequeue(y, r, "nonacked"), r)
       [] kind = "large" /\ ok /\ "reply" \in y.req[r].st ->
            Enqueue(Dequeue(y, r, "nonacked"), r, "reply")
       [] OTHER -> SendComplete(Dequeue(y, r, "nonacked"), r)

\* A large send that is not delivered gives its window back; one that is waits
\* for the notify unless it has come.
MarkRequestAcked(x, r, ok) ==
  LET y == State(DebugAssert(x, "ack" \in x.req[r].st), r, {"ack"}, {})
      d == Dequeue(y, r, "nonacked")
      kind == x.req[r].kind
  IN CASE kind = "mediumsq" /\ "sending" \in y.req[r].st -> y
       [] kind = "large" /\ ~ok ->
            SendComplete([ReleaseRegion(State(d, r, {"reply"}, {}), r, r)
                            EXCEPT !.sends = @ + 1], r)
       [] kind = "large" /\ ok /\ "reply" \in y.req[r].st -> Enqueue(d, r, "reply")
       [] kind = "recvlarge" -> RecvComplete(d, r)
       [] OTHER -> SendComplete(d, r)

\* Throttled requests take the sequence numbers that n acks make available.
ProcessThrottling(x, p, n, o) ==
  LET ready == SubSeq(x.seqq[p], 1, IF n < Len(x.seqq[p]) THEN n ELSE Len(x.seqq[p]))
      One(y, r) == Setup(Dequeue(State(y, r, {"seqnum"}, {}), r, "seqnum"), r, o)
  IN FoldLeft(One, [x EXCEPT !.seqq[p] = SubSeq(@, Len(ready) + 1, Len(@))], ready)

HandleAck(x, p, before, o) ==
  LET new == before - x.acked[p]
      acked == SelectSeq(x.pq[p], LAMBDA r : x.req[r].seq < before)
      One(y, r) == MarkRequestAcked([y EXCEPT !.pq[p] = Remove(@, r)], r, TRUE)
  IN IF new <= 0 \/ before > x.next[p] THEN x
     ELSE ProcessThrottling([FoldLeft(One, x, acked) EXCEPT !.acked[p] = before], p, new, o)

HandleNack(x, r) == MarkRequestAcked([x EXCEPT !.pq[x.req[r].p] = Remove(@, r)], r, FALSE)

\* The notify that answers the large send r: it names a window and its number.
\* "stray" tells whether it was taken for another send.
ProcessRecvNotify(x, r) ==
  LET h == x.reg[x.req[r].rid].reserver
      z == DebugAssert(x, "reply" \in x.req[h].st)
      y == State([ReleaseRegion(z, h, h) EXCEPT !.sends = @ + 1, !.stray = @ \/ h # r],
                 h, {"reply"}, {})
  IN IF h = NOREQ \/ x.req[h].rseq # x.req[r].rseq THEN x
     ELSE IF "ack" \in x.req[h].st THEN y
     ELSE SendComplete(Dequeue(y, h, "reply"), h)

-----------------------------------------------------------------------------
(* A partner goes away. *)

ReleaseUnsent(x, r) ==
  LET q == x.req[r]
      exp == IF "exp" \notin q.missing THEN [x EXCEPT !.exp = @ + q.frags] ELSE x
      sends == IF "sendlarge" \notin q.missing THEN [x EXCEPT !.sends = @ + 1] ELSE x
  IN CASE q.kind = "mediumsq" ->
            IF "sendq" \in q.missing THEN [exp EXCEPT !.req[r].frags = 0] ELSE exp
       [] q.kind = "large" ->
            IF "region" \notin q.missing THEN ReleaseRegion(sends, r, r) ELSE sends
       [] OTHER -> x

\* Of a pull that waits, every flag but "partial" is cleared.
CompleteUnsent(x, r) ==
  CASE IsPull(x.req[r]) ->
         RecvComplete([x EXCEPT !.req[r].st = @ \cap {"partial"}], r)
    [] x.req[r].kind = "recvlarge" -> RecvComplete(x, r)
    [] OTHER -> SendComplete(ReleaseUnsent(x, r), r)

\* "lossy" records that a large send was dropped with its window and its slot:
\* here, one that waits for its reply.
PartnerCleanup(x, p, disconnect) ==
  LET Nack(y, r) == MarkRequestAcked([y EXCEPT !.pq[p] = Remove(@, r)], r, FALSE)
      Unanswered(y) == SetToSeq({r \in Reqs : y.req[r].q = "reply" /\ y.req[r].p = p})
      DropReply(y, r) ==
        SendComplete([State(Dequeue(y, r, "reply"), r, {"reply"}, {}) EXCEPT !.lossy = TRUE],
                     r)
      DropDelayed(y, r) ==
        IF y.req[r].p = p
        THEN CompleteUnsent(State(Dequeue(y, r, "delayed"), r, {"res"}, {}), r) ELSE y
      x1 == FoldLeft(Nack, x, x.pq[p])
      x2 == FoldLeft(DropReply, x1, Unanswered(x1))
      x3 == FoldLeft(DropDelayed, x2, x2.delayed)
      x4 == FoldLeft(CompleteUnsent, [x3 EXCEPT !.seqq[p] = <<>>], x3.seqq[p])
  IN [x4 EXCEPT !.next[p] = 0, !.acked[p] = 0,
                !.conn[p] = IF disconnect > 1 THEN "gone" ELSE "down"]

-----------------------------------------------------------------------------
Init ==
  /\ cf \in Configs
  /\ e = MapInit(cf.regs) @@
         [req |-> [r \in 1..cf.n |-> NoRequest], delayed |-> <<>>, nonacked |-> <<>>,
          resent |-> <<>>, done |-> {}, seqq |-> [p \in Partners |-> <<>>],
          pq |-> [p \in Partners |-> <<>>], exp |-> cf.exps, sends |-> cf.sends,
          user |-> [s \in 1..cf.slots |-> NOREQ], fly |-> [s \in 1..cf.slots |-> NOREQ],
          zombies |-> 0, next |-> [p \in Partners |-> 0], acked |-> [p \in Partners |-> 0],
          conn |-> [p \in Partners |-> "up"], dead |-> "", lossy |-> FALSE, stray |-> FALSE]
  /\ phase = "api"

\* Requests are numbered in the order in which they are submitted.
Used == {r \in Reqs : e.req[r].kind # "none"}
Fresh == Cardinality(Used) + 1

NewRequest(kind, p, b, frags, st) ==
  [e EXCEPT !.req[Fresh] = [NoRequest EXCEPT !.live = TRUE, !.kind = kind, !.p = p, !.buf = b,
                                             !.frags = frags, !.st = st,
                                             !.missing = Resources(kind)]]

\* omx__forget, when nobody is to test the request.
ForgetRequest(x, r) ==
  IF x.req[r].st = {"done"}
  THEN FreeRequest(Dequeue([x EXCEPT !.done = @ \ {r}], r, "done"), r)
  ELSE [State(x, r, {"done"}, {"zombie"}) EXCEPT !.done = @ \ {r}, !.zombies = @ + 1]

Calling == phase = "api" /\ e.dead = ""

\* The step ends in x; an aborted process keeps the state before the step.
Becomes(x, next) ==
  /\ \E y \in {x} : e' = IF y.dead = "" THEN y ELSE [e EXCEPT !.dead = y.dead, !.lossy = y.lossy,
                                                           !.conn = y.conn]
  /\ phase' = next
  /\ UNCHANGED cf

SubmitIsend(x, r, o) ==
  CASE x.req[r].kind = "tiny" -> SubmitIsendTiny(x, r, o)
    [] x.req[r].kind = "small" -> SubmitIsendSmall(x, r, o)
    [] x.req[r].kind = "large" -> SubmitIsendLarge(x, r, o)
    [] OTHER -> SubmitIsendMedium(x, r, o)

Isend(kind, p, b, frags, o, forget) ==
  /\ Calling
  /\ Fresh \in Reqs
  /\ kind \in cf.kinds \ {"recvlarge"} /\ e.conn[p] # "gone"
  /\ LET x == SubmitIsend(NewRequest(kind, p, b, IF kind = "mediumsq" THEN frags ELSE 1, {}), Fresh, o)
     IN Becomes(IF forget THEN ForgetRequest(x, Fresh) ELSE x, "api")

\* A receive meets a rendezvous, which comes from the network or was unexpected.
RecvRndv(p, b, o, empty) ==
  /\ Calling
  /\ Fresh \in Reqs
  /\ "recvlarge" \in cf.kinds /\ e.conn[p] = "up"
  /\ Becomes(SubmitPull(NewRequest("recvlarge", p, b, 1, {"partial"}), Fresh, o, empty), "api")

\* A rendezvous that the unexpected handler consumed is answered by a notify alone.
SubmitDiscardedNotify(p, o) ==
  /\ Calling
  /\ Fresh \in Reqs
  /\ "recvlarge" \in cf.kinds /\ e.conn[p] = "up"
  /\ LET x == [NewRequest("recvlarge", p, NOREQ, 1, {"zombie"})
                 EXCEPT !.req[Fresh].missing = {}, !.zombies = @ + 1]
     IN Becomes(SubmitNotify(x, Fresh, o, TRUE), "api")

Test(r) ==
  /\ Calling
  /\ r \in e.done
  /\ LET x == [e EXCEPT !.done = @ \ {r}]
     IN Becomes(IF e.req[r].st = {"done"} THEN FreeRequest(Dequeue(x, r, "done"), r)
                ELSE [State(x, r, {"done"}, {"zombie"}) EXCEPT !.zombies = @ + 1], "api")

Forget(r) ==
  /\ Calling
  /\ e.req[r].live /\ "zombie" \notin e.req[r].st
  /\ Becomes(ForgetRequest(e, r), "api")

\* The end of a progression, once the events are processed.
Progress == Calling /\ Becomes(e, "resend")

\* Unexpected events.  A peer acks what it received from the first message on.
RecvAck(p, before, o) ==
  /\ Calling /\ e.conn[p] = "up"
  /\ before \in (e.acked[p] + 1)..e.next[p]
  /\ \A r \in ToSet(e.pq[p]) : e.req[r].seq < before => e.req[r].posted
  /\ Becomes(HandleAck(e, p, before, o), "api")

RecvNack(r) ==
  /\ Calling
  /\ e.req[r].p # NOREQ /\ r \in ToSet(e.pq[e.req[r].p])
  /\ e.req[r].posted /\ cf.drops
  /\ Becomes(HandleNack(e, r), "api")

\* The notify may come again when its sender cannot see our acks.
RecvNotify(r) ==
  /\ Calling
  /\ e.req[r].kind = "large" /\ e.req[r].posted /\ e.conn[e.req[r].p] = "up"
  /\ Becomes(ProcessRecvNotify(e, r), "api")

\* The peer comes back as a new instance.
NewInstance(p) ==
  /\ Calling /\ e.conn[p] = "up" /\ cf.drops
  /\ Becomes(PartnerCleanup(e, p, 0), "api")

FragDone(x, s) ==
  LET r == x.user[s]
      y == [x EXCEPT !.exp = @ + 1, !.fly[s] = NOREQ, !.req[r].pending = @ - 1]
      z == Dequeue(State(y, r, {"sending"}, {}), r, "sending")
  IN IF r = NOREQ THEN Crash(x, "assert")
     ELSE IF y.req[r].pending > 0 THEN y
     ELSE IF "ack" \in x.req[r].st THEN Enqueue(z, r, "nonacked")
     ELSE SendComplete(z, r)

MediumsqFragDone(s) ==
  /\ Calling
  /\ e.fly[s] # NOREQ
  /\ Becomes(FragDone(e, s), "api")

PullDone(r, o) ==
  /\ Calling
  /\ "pulling" \in e.req[r].st
  /\ LET x == [e EXCEPT !.exp = @ + 1]
         y == Dequeue(ReleaseRegion(x, r, NOREQ), r, "pulling")
     IN Becomes(SubmitNotify(State(y, r, {"pulling", "partial"}, {}), r, o, FALSE), "api")

\* Resending goes through the queue in order; what was resent goes back at the end.
Oldest == Head(e.nonacked)

ResendOne(o) ==
  /\ e.dead = "" /\ phase = "resend" /\ e.nonacked # <<>>
  /\ e.req[Oldest].sends <= cf.resends
  /\ LET q == e.req[Oldest]
         nr == IF q.kind = "mediumsq" THEN q.frags ELSE 0
         x == Post([Dequeue(e, Oldest, "nonacked") EXCEPT !.exp = @ - nr], Oldest, o)
     IN /\ nr <= e.exp
        /\ Becomes(Enqueue(x, Oldest, IF "sending" \in x.req[Oldest].st
                                      THEN "sending" ELSE "resent"), "resend")

ResendGivesUp ==
  /\ e.dead = "" /\ phase = "resend" /\ e.nonacked # <<>>
  /\ e.req[Oldest].sends > cf.resends
  /\ Becomes(PartnerCleanup(e, e.req[Oldest].p, 1), "resend")

EndResend ==
  /\ e.dead = "" /\ phase = "resend"
  /\ Becomes([e EXCEPT !.nonacked = @ \o e.resent, !.resent = <<>>,
                       !.req = [r \in Reqs |-> IF @[r].q = "resent"
                                               THEN [@[r] EXCEPT !.q = "nonacked"] ELSE @[r]]],
             "delayed")

\* The check at the end of a progression: the requests that are allocated are
\* those that the queues hold.
RequestAllocCheck(x) == \A r \in Reqs : x.req[r].live <=> x.req[r].q # "none"

\* Delayed requests are tried in order, up to the first that cannot be sent.
DelayedOne(o) ==
  /\ e.dead = "" /\ phase = "delayed" /\ e.delayed # <<>>
  /\ LET r == Head(e.delayed)
     IN \E x \in {AllocSetup(State(Dequeue(e, r, "delayed"), r, {"res"}, {}), r, o)} :
          LET y == Requeue(State(x, r, {}, {"res"}), r, "delayed")
          IN IF x.req[r].missing = {} THEN Becomes(x, "delayed")
             ELSE Becomes(DebugAssert(y, RequestAllocCheck(y)), "api")

EndDelayed ==
  /\ e.dead = "" /\ phase = "delayed" /\ e.delayed = <<>>
  /\ Becomes(DebugAssert(e, RequestAllocCheck(e)), "api")

Disconnect(p) ==
  /\ Calling /\ e.conn[p] # "gone" /\ cf.drops
  /\ Becomes(PartnerCleanup(e, p, 2), "api")

\* The application gives back a buffer that none of its requests needs any more.
Clean(b) ==
  /\ Calling
  /\ \A r \in Reqs : /\ e.req[r].live /\ e.req[r].buf # NOREQ
                     /\ Intersect(b.va, b.len, e.req[r].buf.va, e.req[r].buf.len)
       => e.req[r].told
  /\ Touched(e, b.va, b.len) # {}
  /\ Becomes(IF CleanAborts(e, b.va, b.len) THEN Crash(e, "inuse")
             ELSE RegcacheClean(e, b.va, b.len), "api")

\* What each request gives back when the endpoint is closed: a large send that
\* waits for a sequence number does not give its window back.
DestroyOnClose(x, r) ==
  LET q == x.req[r]
      y == CASE q.kind = "large" /\ "region" \notin q.missing /\ "reply" \in q.st ->
                  ReleaseRegion(x, r, r)
             [] q.kind = "large" /\ "seqnum" \in q.st -> [x EXCEPT !.lossy = TRUE]
             [] IsPull(q) /\ "region" \notin q.missing ->
                  IF "handle" \in q.missing THEN Crash(x, "wild")
                  ELSE ReleaseRegion(x, r, NOREQ)
             [] OTHER -> x
  IN FreeRequest(Dequeue([y EXCEPT !.done = @ \ {r}], r, q.q), r)

Close ==
  /\ Calling
  /\ LET x == FoldLeft(DestroyOnClose, e, SetToSeq({r \in Reqs : e.req[r].live}))
         y == DebugAssert(x, x.done = {} /\ \A i \in DOMAIN x.reg : x.reg[i].use = 0)
     IN Becomes(IF y.dead = "" THEN MapExit(y) ELSE y, "closed")

Next ==
  \/ \E kind \in cf.kinds, p \in cf.peers, b \in cf.bufs, frags \in cf.frags, o \in Outcomes,
        forget \in cf.forgets : Isend(kind, p, b, frags, o, forget)
  \/ \E p \in cf.peers, b \in cf.bufs, o \in Outcomes, empty \in BOOLEAN :
        RecvRndv(p, b, o, empty)
  \/ \E p \in cf.peers, o \in Outcomes : SubmitDiscardedNotify(p, o)
  \/ \E r \in Reqs : Test(r)
  \/ \E r \in Reqs, forget \in cf.forgets : forget /\ Forget(r)
  \/ Progress
  \/ \E p \in cf.peers, o \in Outcomes : \E before \in 1..cf.n : RecvAck(p, before, o)
  \/ \E r \in Reqs : RecvNack(r)
  \/ \E r \in Reqs : RecvNotify(r)
  \/ \E p \in cf.peers : NewInstance(p)
  \/ \E s \in Slots : MediumsqFragDone(s)
  \/ \E r \in Reqs, o \in Outcomes : PullDone(r, o)
  \/ \E o \in Outcomes : ResendOne(o)
  \/ ResendGivesUp
  \/ EndResend
  \/ \E o \in Outcomes : DelayedOne(o)
  \/ EndDelayed
  \/ \E p \in cf.peers : Disconnect(p)
  \/ \E b \in cf.bufs : Clean(b)
  \/ Close

Spec == Init /\ [][Next]_rvars

-----------------------------------------------------------------------------
Live == {r \in Reqs : e.req[r].live}
Alive == e.dead = "" /\ phase # "closed"

ReqTypeOK ==
  /\ phase \in {"api", "resend", "delayed", "closed"}
  /\ e.exp \in 0..cf.exps /\ e.sends \in 0..cf.sends /\ e.zombies \in 0..cf.n
  /\ e.done \subseteq Reqs
  /\ e.dead \in {"", "assert", "wild", "hang", "inuse"}
  /\ \A r \in Reqs : /\ e.req[r].kind \in cf.kinds \cup {"none"}
                     /\ e.req[r].missing \subseteq Resources(e.req[r].kind)
                     /\ e.req[r].pending \in 0..e.req[r].frags

\* The states of a request and the queue that holds it agree, as the table of
\* omx_types.h says, and no live request is in no queue, which
\* omx__request_alloc_check counts: a request that is in none is never completed.
QueueOf(q) ==
  CASE "res" \in q.st -> {"delayed"}
    [] "seqnum" \in q.st -> {"seqnum"}
    [] "sending" \in q.st -> {"sending"}
    [] "ack" \in q.st -> {"nonacked", "resent"}
    [] "reply" \in q.st -> {"reply"}
    [] "pulling" \in q.st -> {"pulling"}
    [] OTHER -> {"done"}

QueueMatchesState ==
  Alive => \A r \in Live :
    /\ e.req[r].q \in QueueOf(e.req[r])
    /\ e.req[r].q = "done" => e.req[r].st = {"done"}
    /\ "ack" \in e.req[r].st <=> r \in ToSet(e.pq[e.req[r].p])
    /\ "seqnum" \in e.req[r].st <=> r \in ToSet(e.seqq[e.req[r].p])
    /\ r \in e.done <=> ("done" \in e.req[r].st /\ "zombie" \notin e.req[r].st)

\* Every event slot, send slot, send of a large and window that is taken is held
\* by exactly the requests that use it: none is lost when a post is refused, a
\* message is resent, nacked or dropped, and none is given back twice.
SumOver(S, f(_)) == FoldLeft(LAMBDA acc, r : acc + f(r), 0, SetToSeq(S))

HoldsExp(r) ==
  LET q == e.req[r]
  IN IF q.kind = "mediumsq"
     THEN IF "sending" \in q.st THEN q.pending
          ELSE IF "exp" \notin q.missing /\ {"res", "seqnum"} \cap q.st # {} THEN q.frags ELSE 0
     ELSE IF q.kind = "recvlarge" /\ "partial" \in q.st /\ "exp" \notin q.missing THEN 1 ELSE 0

HoldsSend(r) == e.req[r].kind = "large" /\ "sendlarge" \notin e.req[r].missing
                /\ {"res", "seqnum", "reply"} \cap e.req[r].st # {}

HoldsWindow(r, i) ==
  /\ "region" \notin e.req[r].missing /\ e.req[r].rid = i
  /\ IF e.req[r].kind = "large" THEN {"res", "seqnum", "reply"} \cap e.req[r].st # {}
     ELSE "pulling" \in e.req[r].st

ResourcesExact ==
  Alive =>
    /\ e.exp = cf.exps - SumOver(Live, HoldsExp)
    /\ \A s \in Slots : e.user[s] # NOREQ => e.req[e.user[s]].live /\ s \in e.req[e.user[s]].slots
    /\ \A r \in Live : e.req[r].kind = "mediumsq" /\ "sendq" \notin e.req[r].missing
         /\ {"res", "seqnum", "sending", "ack"} \cap e.req[r].st # {}
            => Cardinality({s \in Slots : e.user[s] = r}) = e.req[r].frags
    /\ ~e.lossy =>
         /\ e.sends = cf.sends - Cardinality({r \in Live : HoldsSend(r)})
         /\ \A i \in DOMAIN e.reg :
              e.reg[i].use - Cardinality({r \in Live : HoldsWindow(r, i)})
                \in 0..Cardinality({r \in Live : IsPull(e.req[r]) /\ e.req[r].missing = {"handle"}})

\* The requests that the application has given up are counted, so that the limit
\* on early completions neither stays reached for ever nor is ignored.
ZombiesExact == Alive => e.zombies = Cardinality({r \in Live : "zombie" \in e.req[r].st})

\* A buffer is not read again after the application was told that it may reuse it
\* (except after a first post of which the driver took nothing).
BufferKept == \A r \in Reqs : e.req[r].late => e.req[r].refused

\* What omx_ibuffered says of mediums: once they have their resources and a
\* sequence number, they are buffered in the send queue.
BufferedIsBuffered == \A r \in Reqs : ~e.req[r].late

\* Messages to a partner are numbered in the order in which they were sent, none
\* overtakes one that waits, and only a full window makes them wait.
SendsInOrder ==
  Alive =>
    \A p \in Partners :
      /\ e.seqq[p] # <<>> => e.next[p] - e.acked[p] >= cf.window
      /\ \A i, j \in DOMAIN e.pq[p] : i < j => e.req[e.pq[p][i]].seq < e.req[e.pq[p][j]].seq
      /\ \A a, b \in Live : /\ a < b
                            /\ e.req[a].p = p /\ e.req[b].p = p
                            /\ e.req[a].kind # "recvlarge" /\ e.req[b].kind # "recvlarge"
                            /\ "ack" \in e.req[b].st
           => {"res", "seqnum"} \cap e.req[a].st = {}

\* A notify, even one that comes twice, answers the large send that it is for.
NotifyAnswersItsSend == ~e.stray

\* The driver's report about a slot reaches the request that sent it.
FragDoneFindsOwner == Alive => \A s \in Slots : e.fly[s] # NOREQ => e.user[s] = e.fly[s]

\* A buffer whose requests are complete can be freed: no window on it is in use.
FreeIsAllowed == ~e.lossy => e.dead # "inuse"


\* As long as no partner is dropped and nothing is nacked, none of the library's
\* assertions on the states, the queues and the windows of requests fails,
\* whatever the driver refuses.
AssertionsHold ==
  ~cf.drops /\ (\A p \in Partners : e.conn[p] = "up") /\ ~e.lossy => e.dead # "assert"

\* Closing destroys every request and gives back every window.
CloseIsClean ==
  phase = "closed" /\ ~e.lossy /\ e.dead # "wild"
    => e.dead = "" /\ Live = {} /\ e.list = <<>> /\ e.vect = <<>>

\* States, queues and resources of requests agree from their posting to the close of
\* the endpoint, which gives everything back (omx_request.h, omx_endpoint.c).
RequestsConsistent ==
  ReqTypeOK /\ QueueMatchesState /\ ResourcesExact /\ ZombiesExact /\ CloseIsClean

\* What the driver and the peer report reaches the request it is about
\* (omx__process_recv_notify, OMX_EVT_SEND_MEDIUMSQ_FRAG_DONE), and no assertion of the
\* library fails on the way.
ReportsFindTheirRequest ==
  NotifyAnswersItsSend /\ FragDoneFindsOwner /\ FreeIsAllowed /\ AssertionsHold
=============================================================================
