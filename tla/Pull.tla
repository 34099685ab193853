-------------------------------- MODULE Pull --------------------------------
(***************************************************************************)
(* The pull engine of the driver (omx_pull.c): how one endpoint reads a    *)
(* range of a remote user region, frame by frame.                          *)
(*                                                                         *)
(* The puller asks for blocks of frames and keeps DESCS blocks in flight.  *)
(* Replies come in any order to bottom halves that run concurrently: each  *)
(* finds the handle through a slot number, updates it under its lock,      *)
(* copies its frame without the lock, and takes the lock again to see      *)
(* whether the pull is complete.  A timer asks again for missing blocks    *)
(* and gives up in the end; a nack ends the pull at once.  DMA copies go   *)
(* on behind and may defer the completion to a work.                       *)
(*                                                                         *)
(* A step of this module is a section under the lock of the handle, or     *)
(* what a context does between two of them.                                *)
(***************************************************************************)
EXTENDS RegionCopy, FiniteSets

CONSTANTS Handles,       \* memory for pull handles
          BHs,           \* bottom halves that receive packets
          Configs,       \* [dma, pulls, into, nack, faults]: whether a DMA engine copies,
                         \* the pulls the application issues, [offset, length], the
                         \* segments of the local region, how the peer may fail, and
                         \* how many allocations may
          PulledSegs,    \* segments of the remote region
          REPLY_MAX,     \* OMX_PULL_REPLY_LENGTH_MAX
          PER_BLOCK,     \* OMX_PULL_REPLY_PER_BLOCK
          DESCS,         \* OMX_PULL_BLOCK_DESCS_NR
          SEQMOD,        \* 256: frame sequence numbers on the wire
          SLOTS,         \* OMX_PULL_HANDLE_SLOT_INDEX_MAX
          GENS,          \* generation numbers of a slot
          COPY_MAX,      \* omx_skb_copy_max
          MAXTRIES,      \* bound: retransmissions by the timer, per pull
          NULL

ASSUME PullAssumption ==
  /\ REPLY_MAX \in Nat \ {0} /\ PER_BLOCK \in Nat \ {0} /\ DESCS \in Nat \ {0}
  /\ SEQMOD >= PER_BLOCK * DESCS

VARIABLES conf,      \* the configuration; its pulls that are not issued yet
          hd,        \* the pull handles
          slots,     \* the slot array: [gen, h], a generation and a handle
          free,      \* the list of free slots
          ep,        \* the endpoint: [open, refs]
          net,       \* packets in flight
          bh,        \* what each bottom half is doing
          remote,    \* "OK", or the reason why the peer refuses requests
          result,    \* the events reported: [cookie, status, exact]
          faults,    \* allocations that may still fail
          bug        \* the assertion that failed, or "none"

pvars == <<conf, hd, slots, free, ep, net, bh, remote, result, faults, bug>>

OUT == AddSegments(PulledSegs)
IN_ == AddSegments(conf.into)
BLOCK_MAX == REPLY_MAX * PER_BLOCK

NoDesc == [frame |-> 0, length |-> 0, first |-> 0, missing |-> {}]
NoHandle == [live |-> FALSE, status |-> "EXITED", refs |-> 0, slot |-> NULL, cookie |-> 0,
             pull |-> NULL, remaining |-> 0, frame |-> 0, next |-> 0, requested |-> 0,
             nmissing |-> 0, valid |-> 0, again |-> 0, desc |-> [i \in 1 .. DESCS |-> NoDesc],
             copying |-> 0, queue |-> <<>>, chan |-> FALSE, work |-> FALSE, event |-> NULL,
             timer |-> FALSE, tries |-> 0, data |-> <<>>]
NoBh == [pc |-> "idle", h |-> NULL, cookie |-> 0, m |-> NULL, rest |-> 0]

\* omx_endpoint_pull_handles_init and omx_pull_handle_slots_init
PullInit ==
  /\ conf \in Configs
  /\ hd = [h \in Handles |-> NoHandle]
  /\ slots = [k \in 1 .. SLOTS |-> [gen |-> 0, h |-> NULL]]
  /\ free = [k \in 1 .. SLOTS |-> k]
  /\ ep = [open |-> TRUE, refs |-> 1]
  /\ net = {} /\ remote = "OK" /\ result = <<>> /\ faults = conf.faults /\ bug = "none"
  /\ bh = [b \in BHs |-> NoBh]

-----------------------------------------------------------------------------
(***************************************************************************)
(* Packets.                                                                *)
(***************************************************************************)
\* The header that omx_pull_handle_pkt_hdr_fill prepares once per handle, and
\* the rest that omx_fill_pull_block_request adds for a block
PktHdr(x) == [t |-> "request", handle |-> x.slot, offset |-> x.pull.offset]

Request(x, i) ==
  PktHdr(x) @@ [frame |-> x.desc[i].frame, length |-> x.desc[i].length, first |-> x.desc[i].first]

\* The requests for the descriptors in is, when only the first n are allocated.
Requests(x, is, n) == {Request(x, is[k]) : k \in 1 .. n}

\* Allocations fail rarely: n of the total packets are built.
Allocated(total, n) ==
  /\ n \in 0 .. total
  /\ n < total => faults > 0
  /\ faults' = IF n < total THEN faults - 1 ELSE faults

\* omx_send_nack_mcp
Nack(m) == [t |-> "nack", handle |-> m.handle, type |-> remote]

-----------------------------------------------------------------------------
(***************************************************************************)
(* Blocks of frames.                                                       *)
(***************************************************************************)
Frames(first, length) == (first + length + REPLY_MAX - 1) \div REPLY_MAX

\* omx_pull_handle_append_needed_frames
AppendFrames(x, length, first) ==
  LET new == Frames(first, length)
  IN [x EXCEPT !.desc[x.valid + 1] = [frame |-> x.next, length |-> length, first |-> first,
                                      missing |-> 0 .. new - 1],
               !.requested = @ + new, !.nmissing = @ + new, !.next = @ + new,
               !.remaining = @ - length, !.valid = @ + 1]

\* The loops that prepare as many new blocks as needed.
AppendBlocks(x) ==
  LET Turn(y) == IF y.valid < DESCS /\ y.remaining > 0
                   THEN AppendFrames(y, Least(BLOCK_MAX, y.remaining), 0) ELSE y
  IN Iterate(Turn, x, DESCS)

\* A mutant: the frames of the block stay in the window.
FirstBlockDoneKeeps(x) ==
  LET valid == x.valid - 1
  IN [x EXCEPT !.frame = @ + Least(x.requested, PER_BLOCK), !.valid = valid,
               !.again = IF @ > 0 THEN @ - 1 ELSE 0,
               !.desc = [i \in 1 .. DESCS |->
                  LET d == IF i <= valid THEN x.desc[i + 1] ELSE x.desc[i]
                  IN IF i = DESCS THEN [d EXCEPT !.missing = {}] ELSE d]]

\* omx_pull_handle_first_block_done: the valid descriptors move down, and the
\* last one of the array is cleared
FirstBlockDone(x) ==
  LET n == Least(x.requested, PER_BLOCK)
      valid == x.valid - 1
  IN [x EXCEPT !.frame = @ + n, !.requested = @ - n, !.valid = valid,
               !.again = IF @ > 0 THEN @ - 1 ELSE 0,
               !.desc = [i \in 1 .. DESCS |->
                  LET d == IF i <= valid THEN x.desc[i + 1] ELSE x.desc[i]
                  IN IF i = DESCS THEN [d EXCEPT !.missing = {}] ELSE d]]

FirstBlocksDone(x) ==
  LET Turn(y) == IF y.valid = 0 \/ y.desc[1].missing # {} THEN y ELSE FirstBlockDone(y)
  IN Iterate(Turn, FirstBlockDone(x), DESCS - 1)

\* The descriptors among is whose blocks miss frames.
Missing(x, is) == SelectSeq(is, LAMBDA i : x.desc[i].missing # {})
UpTo(a, b) == [k \in 1 .. (IF a <= b THEN b - a + 1 ELSE 0) |-> a + k - 1]

\* omx_progress_pull_on_recv_pull_reply_locked: the handle after a frame of
\* block idesc came, and the descriptors to request.
Rerequests(x, idesc) ==
  IF x.desc[idesc].missing = {} /\ x.again < idesc - 1
    THEN Missing(x, UpTo(x.again + 1, idesc - 1)) ELSE <<>>

ProgressOnReply(x, idesc) ==
  IF x.desc[1].missing # {}
    THEN [x |-> x, is |-> Rerequests(x, idesc)]
    ELSE LET done == FirstBlocksDone(x)
             more == AppendBlocks(done)
         IN [x |-> more, is |-> UpTo(done.valid + 1, more.valid)]

\* ... and once n of those requests are built.
AfterRequests(x, p, n) ==
  IF x.desc[1].missing # {} /\ n > 0 THEN [p.x EXCEPT !.again = p.is[n]] ELSE p.x

-----------------------------------------------------------------------------
(***************************************************************************)
(* Handles, slots and completion.                                          *)
(***************************************************************************)
\* omx_pull_handle_release: the last one frees the handle.  The memory keeps
\* its content, of which only the last descriptor is not written again.
PutHandle(x) ==
  IF x.refs > 1 THEN [x EXCEPT !.refs = @ - 1]
  ELSE [NoHandle EXCEPT !.desc[DESCS] = x.desc[DESCS]]

\* ... whose timer must have exited by then, and whose offloaded copies must be done
PutBug(x) ==
  IF x.refs = 1 /\ x.status # "EXITED" THEN "release"
  ELSE IF x.refs = 1 /\ x.chan THEN "dma" ELSE "none"

\* omx_endpoint_release
PutEndpoint == ep' = [ep EXCEPT !.refs = @ - 1]

\* omx_pull_handle_alloc_slot and omx_pull_handle_free_slot
AllocSlot(h) ==
  /\ slots' = [slots EXCEPT ![Head(free)].h = h]
  /\ free' = Tail(free)

FreeSlot(x) ==
  LET k == x.slot.index
  IN /\ slots' = [slots EXCEPT ![k] = [gen |-> (@.gen + 1) % GENS, h |-> NULL]]
     /\ free' = Append(free, k)

\* omx_pull_handle_mark_completed, without its BUG_ON
MarkCompleted(x, event) == [x EXCEPT !.status = "MUST_EXIT", !.event = event]

\* omx_pull_handle_poll_dma_completions
PollDma(x) == IF x.queue = <<>> THEN [x EXCEPT !.chan = FALSE] ELSE x

\* The bytes the pull was asked for are in the local region.
Exact(x) == x.data = [k \in 0 .. x.pull.length - 1 |-> x.pull.offset + k]

\* omx_pull_handle_notify: the event is reported, then the references of the
\* caller are released
Notify(h, x) ==
  /\ result' = Append(result, [cookie |-> x.cookie, status |-> x.event, exact |-> Exact(x)])
  /\ hd' = [hd EXCEPT ![h] = PutHandle(x)]
  /\ bug' = PutBug(x)
  /\ PutEndpoint

\* omx_pull_handle_bh_notify and omx_pull_handle_deferred_wait_dma_completions
BhNotify(h, x) ==
  LET y == PollDma(x)
  IN IF y.chan
       THEN /\ hd' = [hd EXCEPT ![h] = [y EXCEPT !.work = TRUE]]
            /\ UNCHANGED <<ep, result, bug>>
       ELSE Notify(h, y)

\* omx_pull_handle_deferred_dma_completions_wait_workfunc
DeferredWork(h) ==
  /\ bug = "none" /\ hd[h].work /\ hd[h].queue = <<>>
  /\ Notify(h, [hd[h] EXCEPT !.work = FALSE, !.chan = FALSE])
  /\ UNCHANGED <<conf, slots, free, net, bh, remote, faults>>

\* A context that gives up releases its references on the handle and the endpoint.
GiveUp(h, x) ==
  /\ hd' = [hd EXCEPT ![h] = PutHandle(x)]
  /\ bug' = PutBug(x)
  /\ PutEndpoint
  /\ UNCHANGED result

-----------------------------------------------------------------------------
(***************************************************************************)
(* The application starts a pull.                                          *)
(***************************************************************************)
\* omx_pull_handle_create.  The loop that clears the descriptors stops before
\* the last one.
Create(h, p) ==
  [NoHandle EXCEPT !.live = TRUE, !.status = "OK", !.refs = 1,
     !.slot = [index |-> Head(free), gen |-> slots[Head(free)].gen],
     !.cookie = Len(conf.pulls), !.pull = p, !.remaining = p.length,
     !.desc[DESCS] = hd[h].desc[DESCS], !.timer = TRUE,
     !.data = [k \in 0 .. p.length - 1 |-> -1]]

\* omx_ioctl_pull: the first block starts inside a frame.  Without a free slot
\* it fails.
Pull(h) ==
  LET p == Head(conf.pulls)
      offset == p.offset % REPLY_MAX
      x == AppendBlocks(AppendFrames(Create(h, p), Least(BLOCK_MAX - offset, p.length), offset))
  IN /\ bug = "none" /\ ep.open /\ conf.pulls # <<>> /\ ~hd[h].live
     /\ conf' = [conf EXCEPT !.pulls = Tail(@)]
     /\ IF free = <<>>
          THEN UNCHANGED <<hd, slots, free, ep, net, faults>>
          ELSE /\ AllocSlot(h)
               /\ hd' = [hd EXCEPT ![h] = x]
               /\ ep' = [ep EXCEPT !.refs = @ + 1]
               /\ \E n \in 0 .. x.valid :
                    Allocated(x.valid, n) /\ net' = net \cup Requests(x, UpTo(1, x.valid), n)
     /\ UNCHANGED <<bh, remote, result, bug>>

\* The endpoint is closed: packets do not find it any more.
Close ==
  /\ bug = "none" /\ ep.open /\ conf.pulls = <<>>
  /\ ep' = [open |-> FALSE, refs |-> ep.refs - 1]
  /\ UNCHANGED <<conf, hd, slots, free, net, bh, remote, result, faults, bug>>

-----------------------------------------------------------------------------
(***************************************************************************)
(* The peer.                                                               *)
(***************************************************************************)
\* One turn of the reply loop, on w = [cache, remaining, offset, frame, replies].
\* Pages are attached to the packet, or copied when they cannot be.
ReplyTurn(m, w) ==
  LET max == IF w.replies = <<>> THEN REPLY_MAX - m.first ELSE REPLY_MAX
      length == Least(max, w.remaining)
      attached == AppendPages(OUT, w.cache, length)
      walk == IF length <= COPY_MAX \/ attached.remaining > 0
                THEN CopyPages(OUT, w.cache, length) ELSE attached
  IN [cache |-> walk.cache, remaining |-> w.remaining - length,
      offset |-> w.offset + length, frame |-> w.frame + 1,
      replies |-> Append(w.replies,
         [t |-> "reply", handle |-> m.handle, seqnum |-> w.frame % SEQMOD,
          offset |-> w.offset, data |-> BytesOfPieces(OUT, walk.pieces)])]

Replies(m) ==
  LET offset == (m.frame * REPLY_MAX - (m.offset % REPLY_MAX)) + m.first
      nr == Frames(m.first, m.length)
      start == [cache |-> CacheInit(OUT, offset + m.offset), remaining |-> m.length,
                offset |-> offset, frame |-> m.frame, replies |-> <<>>]
  IN IF nr > PER_BLOCK \/ ~CacheInitOk(OUT, offset + m.offset, m.length) THEN <<>>
     ELSE Iterate(LAMBDA w : ReplyTurn(m, w), start, nr).replies

\* omx_recv_pull_request: replies until an allocation fails, or a nack
RecvPullRequest(m) ==
  /\ bug = "none" /\ m.t = "request"
  /\ IF remote # "OK"
       THEN \E n \in 0 .. 1 :
              Allocated(1, n) /\ net' = (net \ {m}) \cup {Nack(m) : k \in 1 .. n}
       ELSE LET rs == Replies(m)
            IN \E n \in 0 .. Len(rs) :
                 Allocated(Len(rs), n) /\ net' = (net \ {m}) \cup {rs[k] : k \in 1 .. n}
  /\ UNCHANGED <<conf, hd, slots, free, ep, bh, remote, result, bug>>

\* The peer loses its region, its session or its endpoint.
RemoteFails ==
  /\ bug = "none" /\ remote = "OK" /\ conf.nack # "OK"
  /\ remote' = conf.nack
  /\ UNCHANGED <<conf, hd, slots, free, ep, net, bh, result, faults, bug>>

-----------------------------------------------------------------------------
(***************************************************************************)
(* Bottom halves of the puller.                                            *)
(***************************************************************************)
Bh(b, rec) == bh' = [bh EXCEPT ![b] = rec]

\* A bottom half takes a packet and acquires the endpoint;
\* omx_pull_handle_acquire_from_slot reads the slot ...
BhLookup(b, m) ==
  LET s == slots[m.handle.index]
  IN /\ bug = "none" /\ bh[b].pc = "idle" /\ m.t # "request"
     /\ net' = net \ {m}
     /\ IF ep.open /\ s.h # NULL /\ s.gen = m.handle.gen
          THEN /\ Bh(b, [pc |-> "get", h |-> s.h, cookie |-> hd[s.h].cookie, m |-> m, rest |-> 0])
               /\ ep' = [ep EXCEPT !.refs = @ + 1]
          ELSE UNCHANGED <<bh, ep>>
     /\ UNCHANGED <<conf, hd, slots, free, remote, result, faults, bug>>

\* ... and takes a reference, which the read side of RCU alone does not make
\* safe: the memory of the handle is freed without a grace period.
BhGet(b) ==
  LET h == bh[b].h
  IN /\ bug = "none" /\ bh[b].pc = "get"
     /\ IF hd[h].live /\ hd[h].cookie = bh[b].cookie
          THEN /\ hd' = [hd EXCEPT ![h].refs = @ + 1]
               /\ Bh(b, [bh[b] EXCEPT !.pc = "lock"])
               /\ UNCHANGED bug
          ELSE bug' = "freed" /\ UNCHANGED <<hd, bh>>
     /\ UNCHANGED <<conf, slots, free, ep, net, remote, result, faults>>

\* A mutant: the frame is not checked against its offset in the message.
FrameWantedWrapped(x, m) ==
  LET off == ((m.seqnum - (x.frame % SEQMOD)) + SEQMOD) % SEQMOD
  IN /\ off < x.requested
     /\ off % PER_BLOCK \in x.desc[off \div PER_BLOCK + 1].missing

\* The checks of omx_recv_pull_reply under the lock.
FrameOffset(x, m) == ((m.seqnum - (x.frame % SEQMOD)) + SEQMOD) % SEQMOD
FrameWanted(x, m) ==
  LET off == FrameOffset(x, m)
  IN /\ (m.offset + REPLY_MAX - 1) \div REPLY_MAX = x.frame + off
     /\ off < x.requested
     /\ off % PER_BLOCK \in x.desc[off \div PER_BLOCK + 1].missing

\* omx_pull_handle_reply_try_dma_copy, when the engine takes n chunks: the
\* handle, and how much remains to be copied by the host.
DmaCopy(x, m, n) ==
  LET w == DmaSkbCopy(IN_, m.offset, <<Len(m.data)>>, n)
      to == BytesOfPieces(IN_, w.pieces)
  IN IF ~conf.dma \/ n = 0 \/ ~CacheInitOk(IN_, m.offset, Len(m.data))
       THEN [x |-> x, rest |-> Len(m.data)]
       ELSE [x |-> [x EXCEPT !.chan = TRUE,
                             !.queue = Append(@, [k \in 1 .. Len(to) |-> <<to[k], m.data[k]>>])],
             rest |-> w.remaining]

\* omx_recv_pull_reply up to the copy: the frame is accounted, copies are
\* offloaded, and blocks are requested
BhReply(b) ==
  LET h == bh[b].h
      m == bh[b].m
      x == hd[h]
      off == FrameOffset(x, m)
      idesc == off \div PER_BLOCK + 1
      y == [x EXCEPT !.desc[idesc].missing = @ \ {off % PER_BLOCK}, !.nmissing = @ - 1,
                     !.copying = @ + 1]
  IN /\ bug = "none" /\ bh[b].pc = "lock" /\ m.t = "reply"
     /\ IF x.status # "OK" \/ ~FrameWanted(x, m)
          THEN GiveUp(h, x) /\ Bh(b, NoBh) /\ UNCHANGED <<net, faults>>
          ELSE \E k \in 0 .. (IF conf.dma THEN Len(m.data) ELSE 0) :
               \E d \in {DmaCopy(y, m, k)} :
               \E p \in {ProgressOnReply(d.x, idesc)} :
               \E n \in 0 .. Len(p.is) :
                 LET z == AfterRequests(d.x, p, n)
                 IN /\ Allocated(Len(p.is), n)
                    /\ net' = net \cup Requests(p.x, p.is, n)
                    /\ hd' = [hd EXCEPT ![h] =
                         IF y.desc[idesc].missing = {} THEN PollDma(z) ELSE z]
                    /\ Bh(b, [bh[b] EXCEPT !.pc = "copy", !.rest = d.rest])
                    /\ UNCHANGED <<ep, result, bug>>
     /\ UNCHANGED <<conf, slots, free, remote>>

\* The pages that data fill, byte by byte.
Filled(x, writes) ==
  [x EXCEPT !.data = [k \in DOMAIN @ |->
      IF \E i \in 1 .. Len(writes) : writes[i][1] = k
        THEN writes[CHOOSE i \in 1 .. Len(writes) : writes[i][1] = k][2] ELSE @[k]]]

\* omx_user_region_fill_pages on the whole frame, when something remains
HostCopied(x, m) ==
  LET to == BytesOfPieces(IN_, FillPages(IN_, m.offset, Len(m.data)))
  IN Filled(x, [k \in 1 .. Len(to) |-> <<to[k], m.data[k]>>])

\* All frames were requested, received and copied.
Complete(x) == x.remaining = 0 /\ x.nmissing = 0 /\ x.copying = 0

\* The rest of omx_recv_pull_reply.  A frame that does not fit aborts the
\* pull; that path does not look at the status again.
BhCopied(b) ==
  LET h == bh[b].h
      m == bh[b].m
      fits == bh[b].rest = 0 \/ FillOk(IN_, m.offset, Len(m.data))
      x == IF bh[b].rest > 0 THEN HostCopied(hd[h], m) ELSE hd[h]
      y == [x EXCEPT !.copying = @ - 1]
  IN /\ bug = "none" /\ bh[b].pc = "copy"
     /\ IF ~fits
          THEN IF hd[h].status # "OK"
                 THEN bug' = "completed" /\ UNCHANGED <<hd, ep, result, slots, free>>
                 ELSE BhNotify(h, MarkCompleted(hd[h], "ABORTED")) /\ FreeSlot(hd[h])
          ELSE IF y.status = "OK" /\ Complete(y)
                 THEN BhNotify(h, MarkCompleted(y, "SUCCESS")) /\ FreeSlot(y)
                 ELSE GiveUp(h, y) /\ UNCHANGED <<slots, free>>
     /\ Bh(b, NoBh)
     /\ UNCHANGED <<conf, net, remote, faults>>

\* A mutant: the slot is not freed.
BhNackKeepsSlot(b) ==
  LET h == bh[b].h
      x == hd[h]
  IN /\ bug = "none" /\ bh[b].pc = "lock" /\ bh[b].m.t = "nack"
     /\ IF x.status = "OK" THEN BhNotify(h, MarkCompleted(x, bh[b].m.type)) ELSE GiveUp(h, x)
     /\ Bh(b, NoBh)
     /\ UNCHANGED <<conf, slots, free, net, remote, faults>>

\* omx_recv_nack_mcp
BhNack(b) ==
  LET h == bh[b].h
      x == hd[h]
  IN /\ bug = "none" /\ bh[b].pc = "lock" /\ bh[b].m.t = "nack"
     /\ IF x.status = "OK"
          THEN BhNotify(h, MarkCompleted(x, bh[b].m.type)) /\ FreeSlot(x)
          ELSE GiveUp(h, x) /\ UNCHANGED <<slots, free>>
     /\ Bh(b, NoBh)
     /\ UNCHANGED <<conf, net, remote, faults>>

-----------------------------------------------------------------------------
(***************************************************************************)
(* The timer and the DMA engine.                                           *)
(***************************************************************************)
\* The timer of a handle expires at any time: pushing it back
\* (omx_mod_timer_pending) does not stop a handler that waits for the lock.

\* omx_pull_handle_timeout_handler when the pull is over
TimerExit(h) ==
  /\ bug = "none" /\ hd[h].timer /\ hd[h].status # "OK"
  /\ GiveUp(h, [hd[h] EXCEPT !.status = "EXITED", !.timer = FALSE])
  /\ UNCHANGED <<conf, slots, free, net, bh, remote, faults>>

\* ... when the last retransmit time is reached
TimerAbort(h) ==
  LET x == [MarkCompleted(hd[h], "TIMEOUT") EXCEPT !.status = "EXITED", !.timer = FALSE]
  IN /\ bug = "none" /\ hd[h].timer /\ hd[h].status = "OK"
     /\ FreeSlot(hd[h])
     /\ BhNotify(h, x)
     /\ UNCHANGED <<conf, net, bh, remote, faults>>


\* ... and otherwise, with omx_progress_pull_on_handle_timeout_handle_locked:
\* the first block and any other whose descriptor misses frames are requested,
\* among all descriptors
TimerResend(h) ==
  LET x == hd[h]
      is == <<1>> \o Missing(x, UpTo(2, DESCS))
      y == [PollDma(x) EXCEPT !.tries = @ + 1]
  IN /\ bug = "none" /\ x.timer /\ x.status = "OK" /\ x.tries < MAXTRIES
     /\ IF x.desc[1].missing = {}
          THEN bug' = "timer" /\ UNCHANGED <<hd, net, faults>>
          ELSE \E n \in 0 .. Len(is) :
                 /\ Allocated(Len(is), n)
                 /\ net' = net \cup Requests(x, is, n)
                 /\ hd' = [hd EXCEPT ![h] = [y EXCEPT !.again = IF n > 0 THEN 0 ELSE @]]
                 /\ UNCHANGED bug
     /\ UNCHANGED <<conf, slots, free, ep, bh, remote, result>>

\* The engine finishes its oldest copy.
DmaDone(h) ==
  /\ bug = "none" /\ hd[h].queue # <<>>
  /\ hd' = [hd EXCEPT ![h] = [Filled(@, Head(@.queue)) EXCEPT !.queue = Tail(@)]]
  /\ UNCHANGED <<conf, slots, free, ep, net, bh, remote, result, faults, bug>>

-----------------------------------------------------------------------------
PullNext ==
  \/ \E h \in Handles : \/ Pull(h) \/ DeferredWork(h) \/ TimerExit(h)
                        \/ TimerAbort(h) \/ TimerResend(h) \/ DmaDone(h)
  \/ \E m \in net : RecvPullRequest(m) \/ \E b \in BHs : BhLookup(b, m)
  \/ \E b \in BHs : BhGet(b) \/ BhReply(b) \/ BhCopied(b) \/ BhNack(b)
  \/ RemoteFails \/ Close

PullSpec == PullInit /\ [][PullNext]_pvars

-----------------------------------------------------------------------------
(***************************************************************************)
(* Properties.                                                             *)
(***************************************************************************)
Live == {h \in Handles : hd[h].live}
Using(h) == {b \in BHs : bh[b].h = h /\ bh[b].pc \in {"lock", "copy"}}
Copying(h) == {b \in BHs : bh[b].h = h /\ bh[b].pc = "copy"}
One(p) == IF p THEN 1 ELSE 0

\* Statuses, counters and the content of the local region stay in range; a
\* byte of the local region is either untouched or a byte of the remote one.
PullTypeOK ==
  /\ \A h \in Handles :
       /\ hd[h].status \in {"OK", "MUST_EXIT", "EXITED"}
       /\ hd[h].timer \in BOOLEAN
       /\ hd[h].valid \in 0 .. DESCS /\ hd[h].again \in 0 .. DESCS
       /\ hd[h].live => \A k \in DOMAIN hd[h].data : hd[h].data[k] \in -1 .. TotalLength(OUT) - 1
  /\ bug \in {"none", "timer", "freed", "completed", "release", "dma"}
  /\ ep.refs >= 0

\* The frames a handle waits for (nr_missing_frames, nr_requested_frames and
\* host_copy_nr_frames) are the ones its valid blocks miss, its window covers
\* and its bottom halves copy; block i of the window starts where the bottom
\* half looks for it.
FramesAccounted ==
  \A h \in Live :
    LET x == hd[h]
    IN /\ x.requested = x.next - x.frame
       /\ x.requested <= SEQMOD
       /\ x.nmissing = FoldLeft(LAMBDA a, i : a + Cardinality(x.desc[i].missing), 0, UpTo(1, x.valid))
       /\ x.status = "OK" => x.copying = Cardinality(Copying(h))
       /\ \A i \in 1 .. x.valid : x.desc[i].frame = x.frame + (i - 1) * PER_BLOCK
       /\ x.remaining + x.next * REPLY_MAX >= x.pull.length

\* The references of a handle are those of its timer, of the bottom halves
\* that hold it and of the deferred work; the endpoint is held once by each of
\* them, and by the bottom halves on their way to a handle.
PullRefsExact ==
  bug = "none" =>
    /\ \A h \in Handles :
         hd[h].refs = One(hd[h].timer) + Cardinality(Using(h)) + One(hd[h].work)
    /\ ep.refs = One(ep.open) + Cardinality({h \in Handles : hd[h].timer})
                 + Cardinality({h \in Handles : hd[h].work})
                 + Cardinality({b \in BHs : bh[b].pc # "idle"})

\* A handle is found through its slot as long as its pull is not over, and no
\* longer; every other slot is in the free list, once.
SlotsExact ==
  /\ \A k \in 1 .. SLOTS, h \in Handles :
       slots[k].h = h <=> hd[h].live /\ hd[h].status = "OK" /\ hd[h].slot.index = k
                          /\ hd[h].slot.gen = slots[k].gen
  /\ \A k \in 1 .. SLOTS : slots[k].h = NULL <=> \E i \in 1 .. Len(free) : free[i] = k
  /\ \A i, j \in 1 .. Len(free) : free[i] = free[j] => i = j

\* A pull reported as successful has brought every byte, each at its place:
\* frames of earlier windows and of earlier pulls are not taken for others,
\* and neither the copies of other bottom halves nor those of the DMA engine
\* are still going on.
SuccessMeansCopied ==
  \A i \in 1 .. Len(result) : result[i].status = "SUCCESS" => result[i].exact

\* A pull is reported once, whoever ends it first (last reply, nack, timer),
\* and exactly when it is over.
EventOnce ==
  bug = "none" =>
    /\ \A i, j \in 1 .. Len(result) : result[i].cookie = result[j].cookie => i = j
    /\ \A h \in Live : (hd[h].status = "OK" \/ hd[h].work)
                       <=> \A i \in 1 .. Len(result) : result[i].cookie # hd[h].cookie

\* The memory of a handle is not freed while its timer may run, and no DMA
\* copy is in progress then (BUG_ON of __omx_pull_handle_last_release).
NotFreedInUse == bug \notin {"release", "dma"}


\* The retransmission timer finds a first block that misses frames: BUG_ON in
\* omx_pull_handle_timeout_handler.
TimerFindsMissing == bug # "timer"

\* Pull handles are accounted for: their references and those of their endpoint, their
\* slots, and no handle is freed by __omx_pull_handle_last_release while it is in use.
HandlesAccounted == PullTypeOK /\ PullRefsExact /\ SlotsExact /\ NotFreedInUse

\* The application is told of the end of each pull once (omx_pull_handle_done_notify),
\* and of success only when all its bytes are there.
OutcomeExact == SuccessMeansCopied /\ EventOnce
=============================================================================
