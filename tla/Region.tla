------------------------------- MODULE Region -------------------------------
(***************************************************************************)
(* User regions of one process of the driver (omx_reg.c, omx_reg.h) and    *)
(* the operations that use them: rendezvous sends and pulls, over the      *)
(* network and between two endpoints of the host.                          *)
(*                                                                         *)
(* A region is created by an ioctl, looked up by its identifier under RCU, *)
(* kept by reference counts and freed with its last reference.  Its pages  *)
(* are pinned at creation, or on demand by the first user, and then other  *)
(* users wait for that one to pin far enough ("watching").  The kernel may *)
(* invalidate a range of the address space at any time.                    *)
(*                                                                         *)
(* A configuration cfg of the module parameters is chosen at load time:    *)
(* when pages are pinned (pin), whether a DMA engine copies (dma), and     *)
(* which of the two rare events a behaviour may meet (rare): get_user_pages*)
(* failing or the address range being invalidated.                         *)
(***************************************************************************)
EXTENDS RegionCopy, FiniteSets

CONSTANTS Objs,        \* memory for region descriptors
          Ids,         \* region identifiers, 0 .. OMX_USER_REGION_MAX-1
          Users,       \* threads and bottom halves that use regions
          Layouts,     \* the segment list the application registers under each identifier
          Pulls,       \* pulls between regions: [soff, length]
          Configs,     \* module parameters and rare events to explore
          CHUNK_MIN,   \* omx_pin_chunk_pages_min
          CHUNK_MAX,   \* omx_pin_chunk_pages_max
          VMALLOC,     \* OMX_REGION_VMALLOC_NR_PAGES_THRESHOLD
          MAXCREATE,   \* bound: regions created
          MAXRARE,     \* bound: failures or invalidations
          NULL

ASSUME RegionAssumption == CHUNK_MIN \in Nat \ {0} /\ CHUNK_MAX >= CHUNK_MIN

VARIABLES cfg,         \* the configuration
          obj,         \* the region descriptors
          table,       \* endpoint->user_regions
          rcu,         \* regions whose RCU callback is pending
          work,        \* regions whose destruction is left to a work queue
          announced,   \* regions a rendezvous event was reported for
          mmap,        \* readers of mm->mmap_sem
          user,        \* what each user is doing
          inval,       \* the invalidation in progress: a region, or NULL
          count        \* regions created, rare events seen

rvars == <<cfg, obj, table, rcu, work, announced, mmap, user, inval, count>>

FreeObj == [live |-> FALSE, segs |-> <<>>, status |-> "NOT_PINNED", refs |-> 0,
            registered |-> 0, held |-> <<>>]
Idle == [pc |-> "idle", op |-> NULL, r |-> NULL, d |-> NULL, watching |-> FALSE,
         ps |-> NULL, need |-> 0, then |-> NULL, cp |-> NULL, res |-> 0]

RInit == /\ cfg \in Configs
         /\ obj = [o \in Objs |-> FreeObj]
         /\ table = [i \in Ids |-> NULL]
         /\ rcu = {} /\ work = {} /\ announced = {} /\ mmap = {} /\ inval = NULL
         /\ user = [u \in Users |-> Idle]
         /\ count = [create |-> 0, rare |-> 0]

NoPages(segs) == [s \in 1 .. Len(segs) |-> [p \in 1 .. segs[s].nr_pages |-> 0]]

-----------------------------------------------------------------------------
(***************************************************************************)
(* Pinning.  A pin state is [seg, page, remaining, offset, next]: the      *)
(* place of the next chunk and its number of pages; page is NULL when the  *)
(* next chunk opens a segment.                                             *)
(***************************************************************************)
\* omx__user_region_pin_init
PinInit(next) == [seg |-> 1, page |-> NULL, remaining |-> 0, offset |-> 0, next |-> next]

\* omx__user_region_pin_new_segment
PinNewSegment(segs, ps) ==
  IF ps.page # NULL THEN ps
  ELSE [ps EXCEPT !.page = 0, !.remaining = segs[ps.seg].length,
                  !.offset = segs[ps.seg].first_page_offset]

\* A mutant: the next chunk starts on the last page of this one.
PinAdvanceOverlaps(ps, chunk) ==
  IF chunk.length < ps.remaining
    THEN [ps EXCEPT !.page = @ + chunk.pages - 1, !.remaining = @ - chunk.length,
                    !.offset = 0, !.next = CHUNK_MAX]
    ELSE [ps EXCEPT !.page = NULL, !.seg = @ + 1, !.next = CHUNK_MAX]

\* omx__user_region_pin_add_chunk: the chunk pinned next, [pages, length],
ChunkToPin(ps) ==
  LET length == IF ps.offset + ps.remaining <= ps.next * PAGE_SIZE
                  THEN ps.remaining ELSE ps.next * PAGE_SIZE - ps.offset
  IN [pages |-> (ps.offset + length + PAGE_SIZE - 1) \div PAGE_SIZE, length |-> length]

\* ... where the pin state stands behind it,
PinAdvance(ps, chunk) ==
  LET next == IF ps.next < CHUNK_MAX THEN Least(2 * ps.next, CHUNK_MAX) ELSE ps.next
  IN IF chunk.length < ps.remaining
       THEN [ps EXCEPT !.page = @ + chunk.pages, !.remaining = @ - chunk.length,
                       !.offset = 0, !.next = next]
       ELSE [ps EXCEPT !.page = NULL, !.seg = @ + 1, !.next = next]

\* ... and the region once its pages are taken.
PinChunk(o, ps, chunk) ==
  [o EXCEPT !.segs[ps.seg].pinned_pages = @ + chunk.pages,
            !.registered = @ + chunk.length,
            !.held[ps.seg] = [p \in DOMAIN @ |->
               IF p - 1 \in ps.page .. ps.page + chunk.pages - 1 THEN @[p] + 1 ELSE @[p]]]

\* omx_user_region_immediate_full_pin, of a region nobody else knows yet
FullyPinned(o) ==
  LET Turn(x) == IF x.o.registered = TotalLength(x.o.segs) THEN x
                 ELSE LET ps == PinNewSegment(x.o.segs, x.ps)
                          chunk == ChunkToPin(ps)
                      IN [o |-> PinChunk(x.o, ps, chunk), ps |-> PinAdvance(ps, chunk)]
  IN Iterate(Turn, [o |-> [o EXCEPT !.status = "PINNED"], ps |-> PinInit(CHUNK_MIN)],
             TotalLength(o.segs)).o

\* omx_user_region_destroy_segments: the pinned pages are put back
PutPages(o) ==
  [o EXCEPT !.held = [s \in DOMAIN @ |-> [p \in DOMAIN @[s] |->
       IF p <= o.segs[s].pinned_pages THEN @[s][p] - 1 ELSE @[s][p]]]]

-----------------------------------------------------------------------------
(***************************************************************************)
(* Creation, destruction and references.                                   *)
(***************************************************************************)
\* omx_ioctl_user_region_create.  With synchronous pinning the pages are
\* pinned before the region is published; a failure, or a busy identifier,
\* puts them back and frees the region.
Create(i) ==
  /\ count.create < MAXCREATE
  /\ table[i] = NULL
  /\ \E o \in Objs :
       LET segs == AddSegments(Layouts[i])
           new == [FreeObj EXCEPT !.live = TRUE, !.segs = segs, !.refs = 1, !.held = NoPages(segs)]
       IN /\ ~obj[o].live
          /\ obj' = [obj EXCEPT ![o] = IF cfg.pin = "sync" THEN FullyPinned(new) ELSE new]
          /\ table' = [table EXCEPT ![i] = o]
  /\ count' = [count EXCEPT !.create = @ + 1]
  /\ UNCHANGED <<cfg, rcu, work, announced, mmap, user, inval>>

\* A mutant: the identifier still finds the region.
DestroyKeepsId(i) ==
  /\ table[i] # NULL
  /\ rcu' = rcu \union {table[i]}
  /\ UNCHANGED <<cfg, obj, table, work, announced, mmap, user, inval, count>>

\* omx_ioctl_user_region_destroy: the reference of the table is released
\* after the grace period
Destroy(i) ==
  /\ table[i] # NULL
  /\ table' = [table EXCEPT ![i] = NULL]
  /\ rcu' = rcu \union {table[i]}
  /\ announced' = {a \in announced : a[1] # table[i]}
  /\ UNCHANGED <<cfg, obj, work, mmap, user, inval, count>>

\* omx_endpoint_user_regions_exit
RegionsExit ==
  /\ \E i \in Ids : table[i] # NULL
  /\ table' = [i \in Ids |-> NULL]
  /\ rcu' = rcu \union {table[i] : i \in {j \in Ids : table[j] # NULL}}
  /\ announced' = {}
  /\ UNCHANGED <<cfg, obj, work, mmap, user, inval, count>>

\* __omx_user_region_last_release: in interrupt context a region with a
\* vmalloc'ed page array is left to a work
Deferred(o, irq) == irq /\ \E s \in 1 .. Len(o.segs) : o.segs[s].nr_pages > VMALLOC

\* The descriptor after kfree; pages it still holds are remembered.
Freed(o) == LET put == PutPages(o)
            IN IF put.held = NoPages(put.segs) THEN FreeObj
               ELSE [put EXCEPT !.live = FALSE, !.refs = 0]

\* omx_user_region_release and the last release
Released(objs, o, irq) ==
  IF objs[o].refs > 1 THEN [objs EXCEPT ![o].refs = @ - 1]
  ELSE IF Deferred(objs[o], irq) THEN [objs EXCEPT ![o].refs = 0]
  ELSE [objs EXCEPT ![o] = Freed(objs[o])]
ToWork(objs, o, irq) ==
  IF objs[o].refs = 1 /\ Deferred(objs[o], irq) THEN {o} ELSE {}

\* __omx_user_region_rcu_release_callback
RcuCallback(o) ==
  /\ o \in rcu
  /\ inval # o
  /\ rcu' = rcu \ {o}
  /\ obj' = Released(obj, o, TRUE)
  /\ work' = work \union ToWork(obj, o, TRUE)
  /\ UNCHANGED <<cfg, table, announced, mmap, user, inval, count>>

\* omx_region_destroy_workfunc
DestroyWork(o) ==
  /\ o \in work
  /\ work' = work \ {o}
  /\ obj' = [obj EXCEPT ![o] = Freed(@)]
  /\ UNCHANGED <<cfg, table, rcu, announced, mmap, user, inval, count>>

\* omx_user_region_acquire
Acquired(objs, o) == [objs EXCEPT ![o].refs = @ + 1]

-----------------------------------------------------------------------------
(***************************************************************************)
(* Demand pinning.                                                         *)
(***************************************************************************)
\* omx_user_region_demand_pin_init: the compare-and-exchange makes the first
\* user the pinner and the others watchers
DemandPinInit(o, full) ==
  IF obj[o].status = "NOT_PINNED"
    THEN [watching |-> FALSE, ps |-> PinInit(IF full THEN CHUNK_MAX ELSE CHUNK_MIN)]
    ELSE [watching |-> TRUE, ps |-> NULL]
StatusAfterInit(o) ==
  IF obj[o].status = "NOT_PINNED" THEN "PINNED" ELSE obj[o].status

\* The region u is pinning or watching.
Pinned(u) == IF user[u].op = "spull" THEN user[u].d ELSE user[u].r

\* What the caller of a pinning does with its result; the one that ends a DMA
\* copy is ignored, "only the copy success matters".
AfterPin(x, o, res) ==
  [x EXCEPT !.pc = x.then,
            !.res = IF x.then = "fallback" THEN @ ELSE res,
            !.cp = IF @ = NULL THEN NULL ELSE [@ EXCEPT !.dpin = obj[o].registered]]

\* omx__user_region_pin_continue takes mmap_sem
PinContinue(u) ==
  /\ user[u].pc = "pin" /\ ~user[u].watching
  /\ ~(inval # NULL /\ cfg.rare = "unmap")
  /\ mmap' = mmap \union {u}
  /\ user' = [user EXCEPT ![u].pc = "pinning"]
  /\ UNCHANGED <<cfg, obj, table, rcu, work, announced, inval, count>>

\* ... pins chunk by chunk (omx__user_region_pin_add_chunk)
PinStep(u) ==
  LET o == Pinned(u)
      ps == PinNewSegment(obj[o].segs, user[u].ps)
      chunk == ChunkToPin(ps)
  IN /\ user[u].pc = "pinning" /\ obj[o].registered < user[u].need
     /\ user[u].ps.seg <= Len(obj[o].segs)
     /\ obj' = [obj EXCEPT ![o] = PinChunk(@, ps, chunk)]
     /\ user' = [user EXCEPT ![u].ps = PinAdvance(ps, chunk)]
     /\ UNCHANGED <<cfg, table, rcu, work, announced, mmap, inval, count>>

\* ... and runs off the segment array when an invalidation has reset
\* total_registered_length behind it: what follows is undefined
PinOverrun(u) ==
  LET o == Pinned(u)
  IN /\ user[u].pc = "pinning" /\ obj[o].registered < user[u].need
     /\ user[u].ps.seg > Len(obj[o].segs)
     /\ user' = [user EXCEPT ![u].pc = "wild"]
     /\ UNCHANGED <<cfg, obj, table, rcu, work, announced, mmap, inval, count>>

\* ... until get_user_pages fails: the region is marked as failed
PinFail(u) ==
  LET o == Pinned(u)
  IN /\ user[u].pc = "pinning" /\ obj[o].registered < user[u].need
     /\ cfg.rare = "fail" /\ count.rare < MAXRARE
     /\ count' = [count EXCEPT !.rare = @ + 1]
     /\ obj' = [obj EXCEPT ![o].status = "FAILED"]
     /\ mmap' = mmap \ {u}
     /\ user' = [user EXCEPT ![u] = AfterPin(@, o, -1)]
     /\ UNCHANGED <<cfg, table, rcu, work, announced, inval>>

\* ... or enough is registered
PinDone(u) ==
  /\ user[u].pc = "pinning" /\ obj[Pinned(u)].registered >= user[u].need
  /\ mmap' = mmap \ {u}
  /\ user' = [user EXCEPT ![u] = AfterPin(@, Pinned(u), 0)]
  /\ UNCHANGED <<cfg, obj, table, rcu, work, announced, inval, count>>

\* omx_user_region_parallel_pin_wait: the loop ends, and its result
WaitOver(o, need) == need <= obj[o].registered \/ obj[o].status # "PINNED"
WaitResult(o) == IF obj[o].status = "FAILED" THEN -1 ELSE 0

\* omx_user_region_demand_pin_continue/_finish of a watcher
Watch(u) ==
  /\ user[u].pc = "pin" /\ user[u].watching
  /\ WaitOver(Pinned(u), user[u].need)
  /\ user' = [user EXCEPT ![u] = AfterPin(@, Pinned(u), WaitResult(Pinned(u)))]
  /\ UNCHANGED <<cfg, obj, table, rcu, work, announced, mmap, inval, count>>

-----------------------------------------------------------------------------
(***************************************************************************)
(* Rendezvous: the sender makes its region available and reports it.       *)
(***************************************************************************)
\* A report reaches a peer that finds the region through the table.
Announce(o, kind) == IF \E i \in Ids : table[i] = o THEN {<<o, kind>>} ELSE {}

\* omx_ioctl_send_rndv ("net") and omx_shared_send_rndv ("shared") up to the
\* pinning; progressive pinning only serves local peers
StartRndv(u, i, kind) ==
  LET o == table[i]
      full == kind = "net" \/ cfg.pin = "async"
      init == DemandPinInit(o, full)
  IN /\ user[u].pc = "idle" /\ o # NULL
     /\ IF cfg.pin = "sync"
          THEN announced' = announced \union {<<o, kind>>} /\ UNCHANGED <<obj, user>>
          ELSE /\ obj' = [Acquired(obj, o) EXCEPT ![o].status = StatusAfterInit(o)]
               /\ user' = [user EXCEPT ![u] =
                    [Idle EXCEPT !.pc = IF full THEN "pin" ELSE "report", !.op = kind,
                                 !.r = o, !.watching = init.watching, !.ps = init.ps,
                                 !.need = TotalLength(obj[o].segs), !.then = "sent"]]
               /\ UNCHANGED announced
     /\ UNCHANGED <<cfg, table, rcu, work, mmap, inval, count>>

\* omx_shared_send_rndv, progressive: the event is reported (or dropped when
\* the queue is full) between the start of the pinning and its end
ReportRndv(u) ==
  /\ user[u].pc = "report"
  /\ LET x == [user[u] EXCEPT !.pc = "pin", !.op = "reported"]
     IN \/ /\ announced' = announced \union Announce(x.r, "shared")
           /\ user' = [user EXCEPT ![u] = x]
        \/ /\ user' = [user EXCEPT ![u] = IF x.watching THEN x ELSE [x EXCEPT !.ps.next = CHUNK_MAX]]
           /\ UNCHANGED announced
  /\ UNCHANGED <<cfg, obj, table, rcu, work, mmap, inval, count>>

\* A mutant: the result of the pinning is ignored.
EndRndvIgnoresFailure(u) ==
  /\ user[u].pc = "sent"
  /\ announced' = announced \union
       (IF user[u].op = "reported" THEN {} ELSE Announce(user[u].r, user[u].op))
  /\ obj' = Released(obj, user[u].r, FALSE)
  /\ user' = [user EXCEPT ![u] = Idle]
  /\ UNCHANGED <<cfg, table, rcu, work, mmap, inval, count>>

\* The end of both: a rendezvous whose region could not be pinned is not sent.
EndRndv(u) ==
  LET x == user[u]
  IN /\ x.pc = "sent"
     /\ announced' = announced \union
          (IF x.op = "reported" \/ x.res < 0 THEN {} ELSE Announce(x.r, x.op))
     /\ obj' = Released(obj, x.r, FALSE)
     /\ user' = [user EXCEPT ![u] = Idle]
     /\ UNCHANGED <<cfg, table, rcu, work, mmap, inval, count>>

-----------------------------------------------------------------------------
(***************************************************************************)
(* Pulls over the network.                                                 *)
(***************************************************************************)
\* omx_ioctl_pull up to the creation of the handle, which keeps the region
StartPull(u, i) ==
  LET o == table[i]
      init == DemandPinInit(o, TRUE)
      x == [Idle EXCEPT !.op = "pull", !.r = o, !.need = TotalLength(obj[o].segs), !.then = "hold"]
  IN /\ user[u].pc = "idle" /\ o # NULL
     /\ IF cfg.pin = "sync"
          THEN /\ obj' = Acquired(obj, o)
               /\ user' = [user EXCEPT ![u] = [x EXCEPT !.pc = "hold"]]
          ELSE /\ obj' = [Acquired(obj, o) EXCEPT ![o].status = StatusAfterInit(o)]
               /\ user' = [user EXCEPT ![u] = [x EXCEPT !.pc = "pin",
                             !.watching = init.watching, !.ps = init.ps]]
     /\ UNCHANGED <<cfg, table, rcu, work, announced, mmap, inval, count>>

\* omx_recv_pull_request: a reply packet holds the region it points into
StartReply(u, i) ==
  LET o == table[i]
  IN /\ user[u].pc = "idle" /\ o # NULL /\ <<o, "net">> \in announced
     /\ obj' = Acquired(obj, o)
     /\ user' = [user EXCEPT ![u] = [Idle EXCEPT !.pc = "hold", !.op = "reply", !.r = o]]
     /\ UNCHANGED <<cfg, table, rcu, work, announced, mmap, inval, count>>

\* omx_send_pull_reply_skb_destructor, or the last release of a pull handle,
\* both in interrupt context, or the error path of omx_ioctl_pull
EndHold(u) ==
  LET o == user[u].r
      irq == user[u].res = 0
  IN /\ user[u].pc = "hold"
     /\ obj' = Released(obj, o, irq)
     /\ work' = work \union ToWork(obj, o, irq)
     /\ user' = [user EXCEPT ![u] = Idle]
     /\ UNCHANGED <<cfg, table, rcu, announced, mmap, inval, count>>

-----------------------------------------------------------------------------
(***************************************************************************)
(* Pulls between two endpoints of the host: omx_copy_between_user_regions. *)
(* The copy state is [soff, doff, rem, s, d, spin, dpin, dma]: the region  *)
(* offsets, what remains, the two cursors, the lengths known to be pinned. *)
(***************************************************************************)
CopyState(ssegs, soff, dsegs, doff, length, dma) ==
  [soff |-> soff, doff |-> doff, rem |-> length, dma |-> dma, spin |-> 0, dpin |-> 0,
   s |-> CacheInit(ssegs, soff), d |-> CacheInit(dsegs, doff)]

\* The chunk copied next: the destination of a memcpy is virtual memory, so
\* only a DMA chunk ends at its pages.
CopyChunk(ssegs, dsegs, cp) ==
  LET byseg == Least(VectChunk(ssegs, cp.s, cp.rem), dsegs[cp.d.seg].length - cp.d.segoff)
  IN IF cp.dma THEN Least(byseg, PAGE_SIZE - cp.d.pageoff) ELSE byseg

\* The destination cursor of a memcpy: a segment and an offset in it.
DestNext(dsegs, d, chunk) ==
  IF d.segoff + chunk = dsegs[d.seg].length
    THEN [d EXCEPT !.seg = @ + 1, !.segoff = 0]
    ELSE [d EXCEPT !.segoff = @ + chunk]

CopyAdvance(ssegs, dsegs, cp, chunk) ==
  LET moved == [cp EXCEPT !.soff = @ + chunk, !.doff = @ + chunk, !.rem = @ - chunk]
  IN IF moved.rem = 0 THEN moved
     ELSE [moved EXCEPT !.s = VectNext(ssegs, @, chunk),
                        !.d = IF cp.dma THEN VectNext(dsegs, @, chunk)
                                        ELSE DestNext(dsegs, @, chunk)]

\* omx_shared_pull and omx_copy_between_user_regions.  A DMA copy also pins
\* its destination: all of it first, or progressively.
StartSharedPull(u, i, j, pull) ==
  LET src == table[i]
      dst == table[j]
      init == DemandPinInit(dst, cfg.pin = "async")
      x == [Idle EXCEPT !.op = "spull", !.r = src, !.d = dst]
      Copy(dma) == CopyState(obj[src].segs, pull.soff, obj[dst].segs, 0, pull.length, dma)
      got == Acquired(Acquired(obj, src), dst)
  IN /\ user[u].pc = "idle" /\ src # NULL /\ dst # NULL /\ src # dst
     /\ {<<src, "net">>, <<src, "shared">>} \intersect announced # {}
     /\ pull.soff + pull.length <= TotalLength(obj[src].segs)
     /\ pull.length <= TotalLength(obj[dst].segs)
     /\ \/ /\ obj' = got
           /\ user' = [user EXCEPT ![u] = [x EXCEPT !.pc = "copy", !.cp = Copy(FALSE)]]
        \/ /\ cfg.dma /\ cfg.pin = "sync"
           /\ obj' = got
           /\ user' = [user EXCEPT ![u] = [x EXCEPT !.pc = "copy", !.cp = Copy(TRUE)]]
        \/ /\ cfg.dma /\ cfg.pin # "sync"
           /\ obj' = [got EXCEPT ![dst].status = StatusAfterInit(dst)]
           /\ user' = [user EXCEPT ![u] =
                [x EXCEPT !.pc = IF cfg.pin = "async" THEN "pin" ELSE "copy",
                          !.cp = Copy(TRUE), !.watching = init.watching, !.ps = init.ps,
                          !.need = TotalLength(obj[dst].segs), !.then = "copy"]]
     /\ UNCHANGED <<cfg, table, rcu, work, announced, mmap, inval, count>>

\* Locals of a copy in progress.
Src(u) == obj[user[u].r].segs
Dst(u) == obj[user[u].d].segs
NextChunk(u) == CopyChunk(Src(u), Dst(u), user[u].cp)

\* The head of the copy loop: with progressive pinning, wait until the source
\* is pinned up to the end of the chunk, and have the destination pinned.
CopyHead(u) ==
  LET x == user[u]
      chunk == NextChunk(u)
      waits == cfg.pin = "progressive" /\ x.cp.spin < x.cp.soff + chunk
      pins == x.cp.dma /\ cfg.pin = "progressive" /\ x.cp.dpin < x.cp.doff + chunk
  IN /\ x.pc = "copy" /\ x.res = 0
     /\ waits => WaitOver(x.r, x.cp.soff + chunk)
     /\ user' = [user EXCEPT ![u] =
          IF waits /\ WaitResult(x.r) < 0 THEN [x EXCEPT !.pc = "fin", !.res = -1]
          ELSE [x EXCEPT !.pc = IF pins THEN "pin" ELSE "move",
                         !.cp.spin = IF waits THEN obj[x.r].registered ELSE @,
                         !.need = IF pins THEN x.cp.doff + chunk ELSE @,
                         !.then = "move"]]
     /\ UNCHANGED <<cfg, obj, table, rcu, work, announced, mmap, inval, count>>

\* The copy of one chunk, which a DMA channel may refuse.
CopyMove(u) ==
  LET x == user[u]
      cp == CopyAdvance(Src(u), Dst(u), x.cp, NextChunk(u))
  IN /\ x.pc = "move"
     /\ \/ /\ x.res = 0
           /\ user' = [user EXCEPT ![u] =
                [x EXCEPT !.cp = cp, !.pc = IF cp.rem = 0 THEN "fin" ELSE "copy"]]
        \/ /\ x.res < 0 \/ x.cp.dma
           /\ user' = [user EXCEPT ![u].pc = "fin"]
     /\ UNCHANGED <<cfg, obj, table, rcu, work, announced, mmap, inval, count>>

\* After a DMA loop the pinning is finished, and what a channel refused is
\* copied by memcpy from there.
CopyFallback(u) ==
  LET x == user[u]
      left == [x EXCEPT !.pc = "copy",
                 !.cp = CopyState(Src(u), x.cp.soff, Dst(u), x.cp.doff, x.cp.rem, FALSE)]
      again == x.cp.dma /\ x.res = 0 /\ x.cp.rem > 0
  IN /\ \/ /\ x.pc = "fin" /\ x.cp.dma /\ cfg.pin = "progressive"
           /\ user' = [user EXCEPT ![u] = [x EXCEPT !.pc = "pin", !.then = "fallback",
                                                    !.need = TotalLength(Dst(u))]]
        \/ /\ \/ x.pc = "fin" /\ cfg.pin # "progressive"
              \/ x.pc = "fallback"
           /\ again
           /\ user' = [user EXCEPT ![u] = left]
     /\ UNCHANGED <<cfg, obj, table, rcu, work, announced, mmap, inval, count>>

\* The end of omx_shared_pull: both references are released.
EndSharedPull(u) ==
  LET x == user[u]
  IN /\ \/ x.pc = "copy" /\ x.res < 0
        \/ x.pc = "fin" /\ ~x.cp.dma
        \/ /\ x.pc = IF cfg.pin = "progressive" THEN "fallback" ELSE "fin"
           /\ x.cp.dma /\ (x.res < 0 \/ x.cp.rem = 0)
     /\ obj' = Released(Released(obj, x.r, FALSE), x.d, FALSE)
     /\ user' = [user EXCEPT ![u] = Idle]
     /\ UNCHANGED <<cfg, table, rcu, work, announced, mmap, inval, count>>

-----------------------------------------------------------------------------
(***************************************************************************)
(* MMU notifier: omx_mmu_invalidate_handler on a range that overlaps the   *)
(* region o, with mmap_sem held for writing when the range is unmapped.    *)
(* With synchronous pinning the handler only warns.                        *)
(***************************************************************************)
InvalidateStart(o) ==
  /\ inval = NULL /\ count.rare < MAXRARE
  /\ cfg.pin # "sync"
  /\ cfg.rare = "truncate" \/ (cfg.rare = "unmap" /\ mmap = {})
  /\ \E i \in Ids : table[i] = o
  /\ obj[o].status = "PINNED"
  /\ inval' = o
  /\ count' = [count EXCEPT !.rare = @ + 1]
  /\ UNCHANGED <<cfg, obj, table, rcu, work, announced, mmap, user>>

\* omx_invalidate_region: once the pinner is done the pages are released.
\* The loop over the pages of a segment resets its bound: it ends after the
\* first page.
InvalidatedPages(o) ==
  [o EXCEPT !.held = [s \in DOMAIN @ |-> [p \in DOMAIN @[s] |->
       IF p = 1 /\ o.segs[s].pinned_pages > 0 THEN @[s][p] - 1 ELSE @[s][p]]]]

InvalidateRegion(o) ==
  /\ inval = o
  /\ obj[o].registered = TotalLength(obj[o].segs)
  /\ obj' = [obj EXCEPT ![o] = [InvalidatedPages(@) EXCEPT
                 !.segs = [s \in DOMAIN @ |-> [@[s] EXCEPT !.pinned_pages = 0]],
                 !.registered = 0, !.status = "NOT_PINNED"]]
  /\ inval' = NULL
  /\ UNCHANGED <<cfg, table, rcu, work, announced, mmap, user, count>>

-----------------------------------------------------------------------------
UserStep(u) ==
  \/ PinContinue(u) \/ PinStep(u) \/ PinOverrun(u) \/ PinDone(u) \/ Watch(u)
  \/ ReportRndv(u) \/ EndRndv(u) \/ EndHold(u)
  \/ CopyHead(u) \/ CopyMove(u) \/ CopyFallback(u) \/ EndSharedPull(u)

StartStep(u) ==
  \/ \E i \in Ids : StartPull(u, i) \/ StartReply(u, i)
  \/ \E i \in Ids, kind \in {"net", "shared"} : StartRndv(u, i, kind)
  \/ \E i, j \in Ids, pull \in Pulls : StartSharedPull(u, i, j, pull)

RNext ==
  \/ \E i \in Ids : Create(i) \/ Destroy(i)
  \/ RegionsExit
  \/ \E o \in Objs : RcuCallback(o) \/ DestroyWork(o) \/ InvalidateStart(o) \/ InvalidateRegion(o)
  \/ \E u \in Users : StartStep(u) \/ UserStep(u) \/ PinFail(u)

RSpec == RInit /\ [][RNext]_rvars

-----------------------------------------------------------------------------
(***************************************************************************)
(* Properties.                                                             *)
(***************************************************************************)
\* The variables have their types.
RTypeOK ==
  /\ cfg \in Configs
  /\ table \in [Ids -> Objs \union {NULL}]
  /\ rcu \subseteq Objs /\ work \subseteq Objs /\ mmap \subseteq Users
  /\ announced \subseteq Objs \X {"net", "shared"}
  /\ inval \in Objs \union {NULL}
  /\ \A o \in Objs : /\ obj[o].status \in {"NOT_PINNED", "PINNED", "FAILED"}
                      /\ obj[o].refs \in Nat /\ obj[o].registered \in Nat
  /\ \A u \in Users : /\ user[u].pc \in {"idle", "pin", "pinning", "report", "sent", "hold",
                                          "copy", "move", "fin", "fallback", "wild"}
                       /\ {user[u].r, user[u].d} \subseteq Objs \union {NULL}

\* Who may use region o: the table or a pending callback (one reference in
\* all), and the users.
Holders(o) == {u \in Users : o \in {user[u].r, user[u].d}}
Published(o) == o \in rcu \/ \E i \in Ids : table[i] = o

\* The reference count of a region is exactly the number of those who may
\* use it, through every interleaving of creation, lookup, destruction, RCU
\* callbacks and error paths: a region is freed, with its pages, when the
\* last of them is done and not before (kref_get/kref_put of omx_reg.c).
RefsExact ==
  \A o \in Objs :
    /\ obj[o].refs = Cardinality(Holders(o)) + (IF Published(o) THEN 1 ELSE 0)
    /\ obj[o].live <=> obj[o].refs > 0 \/ o \in work

\* A region holds exactly one reference on each page it has pinned, and none
\* once it is freed: no chunk is pinned twice, a failure in the middle of a
\* region leaks nothing, and nothing is put twice.
PagesExact ==
  \A o \in Objs : \A s \in 1 .. Len(obj[o].held) : \A p \in 1 .. Len(obj[o].held[s]) :
    obj[o].held[s][p] = IF obj[o].live /\ p <= obj[o].segs[s].pinned_pages THEN 1 ELSE 0

\* Without invalidations the same property is about pinning alone.
PagesExactUnlessInvalidated == cfg.rare \notin {"truncate", "unmap"} => PagesExact

\* total_registered_length, which watchers poll without a lock, never runs
\* ahead of the pages: the pages of the first bytes it counts are pinned.
RegisteredIsPinned ==
  \A o \in Objs : obj[o].live =>
    \A b \in 0 .. obj[o].registered - 1 :
      LET c == CacheInit(obj[o].segs, b) IN c.page < obj[o].segs[c.seg].pinned_pages

\* "*spage is valid now": the source page of the chunk a local pull copies
\* is pinned at that moment, whatever the progress of the sender.
CopyReadsPinned ==
  \A u \in Users : user[u].pc = "move" /\ user[u].res = 0 =>
    obj[user[u].r].held[user[u].cp.s.seg][user[u].cp.s.page + 1] > 0

CopyReadsPinnedUnlessInvalidated ==
  cfg.rare \notin {"truncate", "unmap"} => CopyReadsPinned

\* A region reported to a remote peer is pinned to its end, since replies do
\* not look at its state (omx_recv_pull_request).
RndvMeansPinned ==
  cfg.rare \notin {"truncate", "unmap"} =>
    \A a \in announced : a[2] = "net" => obj[a[1]].registered = TotalLength(obj[a[1]].segs)

\* Each chunk of a local pull moves the right bytes: source and destination
\* cursors, advanced across pages and segments of different shapes, stand
\* for the offsets of the copy, and the chunk crosses no boundary of theirs.
CopyExact ==
  \A u \in Users : user[u].pc = "move" =>
    LET cp == user[u].cp
        n == NextChunk(u)
    IN /\ n > 0
       /\ BytesOf(Src(u), Piece(cp.s, n)) = Bytes(cp.soff, n)
       /\ cp.s.pageoff + n <= PAGE_SIZE
       /\ LengthUpTo(Dst(u), cp.d.seg - 1) + cp.d.segoff = cp.doff
       /\ cp.d.segoff + n <= Dst(u)[cp.d.seg].length
       /\ cp.dma => /\ BytesOf(Dst(u), Piece(cp.d, n)) = Bytes(cp.doff, n)
                    /\ cp.d.pageoff + n <= PAGE_SIZE

\* Who waits for pages is served: as long as the region is being pinned, a
\* user other than the waiter is its pinner, with the rest of it to pin, and
\* marks it as failed otherwise.  A waiter alone would spin for ever in
\* omx_user_region_parallel_pin_wait.
Waits(u, o) ==
  \/ user[u].pc = "pin" /\ user[u].watching /\ o = Pinned(u) /\ ~WaitOver(o, user[u].need)
  \/ /\ user[u].pc = "copy" /\ cfg.pin = "progressive" /\ o = user[u].r /\ user[u].res = 0
     /\ ~WaitOver(o, user[u].cp.soff + NextChunk(u))
IsPinner(u, o) ==
  /\ user[u].pc # "idle" /\ ~user[u].watching /\ user[u].ps # NULL /\ o = Pinned(u)
WatchedIsPinning ==
  \A u \in Users, o \in Objs : Waits(u, o) => \E v \in Users \ {u} : IsPinner(v, o)

\* The state of regions is consistent at every step of their users: the types, the
\* reference counts of omx_user_region_t and a pinner for whoever waits in
\* omx_user_region_parallel_pin_wait.
RegionsConsistent == RTypeOK /\ RefsExact /\ WatchedIsPinning

\* Every use of pages finds them pinned: those counted in total_registered_length, those
\* a local pull copies from, and those announced to a remote peer by a rendezvous.
UsedIsPinned == RegisteredIsPinned /\ CopyReadsPinnedUnlessInvalidated /\ RndvMeansPinned
=============================================================================
