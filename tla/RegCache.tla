------------------------------ MODULE RegCache ------------------------------
(***************************************************************************)
(* The windows of an endpoint in the library (omx_large.c): user memory    *)
(* registered in the driver for large messages, and the cache that keeps   *)
(* idle contiguous windows registered.                                     *)
(*                                                                         *)
(* These are operators on a record m that holds                            *)
(*   reg      the slots: [use, reserver, last, buf], buf = NOREQ when free *)
(*   rfree    the free slots, first one first                              *)
(*   list     registered contiguous windows (reg_list)                     *)
(*   vect     registered vectorial windows (reg_vect_list)                 *)
(*   unused   cached windows that nobody uses, oldest first                *)
(* among fields they leave alone.  A buffer is [va, len, nseg].            *)
(***************************************************************************)
EXTENDS Integers, Sequences, FiniteSets, SequencesExt

CONSTANTS NOREQ,        \* no request, no buffer, no window
          SEQNUMS       \* 256: values of region->last_seqnum

\* Window slots 1..n, all free.
MapInit(n) ==
  [reg |-> [i \in 1..n |-> [use |-> 0, reserver |-> NOREQ, last |-> 23 % SEQNUMS, buf |-> NOREQ]],
   rfree |-> [i \in 1..n |-> i], list |-> <<>>, vect |-> <<>>, unused |-> <<>>]

FreeSlot(m, i) ==
  [m EXCEPT !.rfree = <<i>> \o @, !.reg[i].buf = NOREQ]

Destroy(m, i) ==
  FreeSlot([m EXCEPT !.list = Remove(@, i), !.vect = Remove(@, i)], i)

\* The mistake of evicting any cached window, used or not.
EvictedAny(m, cache) ==
  IF m.rfree = <<>> /\ cache /\ m.list # <<>>
  THEN Destroy([m EXCEPT !.unused = Remove(@, Head(m.list))], Head(m.list))
  ELSE m

\* A free slot, after dropping the oldest unused window when there is none.
Evicted(m, cache) ==
  IF m.rfree = <<>> /\ cache /\ m.unused # <<>>
  THEN Destroy([m EXCEPT !.unused = Tail(@)], Head(m.unused))
  ELSE m

\* A new window on buffer b; "registered" tells whether the driver accepts it.
\* The window is NOREQ when there is no slot or the driver refuses.
CreateRegion(m, b, cache, registered) ==
  LET m1 == Evicted(m, cache)
      i == Head(m1.rfree)
      m2 == [m1 EXCEPT !.rfree = Tail(@), !.reg[i].use = 0, !.reg[i].buf = b,
                       !.reg[i].reserver = NOREQ]
  IN IF m1.rfree = <<>> THEN [m |-> m1, id |-> NOREQ]
     ELSE IF registered THEN [m |-> m2, id |-> i]
     ELSE [m |-> FreeSlot(m2, i), id |-> NOREQ]

\* Whether a cached window serves buffer b.
Reusable(w, b, reserver, parallel) ==
  /\ reserver = NOREQ \/ w.reserver = NOREQ
  /\ parallel \/ w.use = 0
  /\ w.buf.va = b.va
  /\ w.buf.len >= b.len

Reserve(m, i, reserver) ==
  IF reserver = NOREQ THEN m ELSE [m EXCEPT !.reg[i].reserver = reserver]

GetVectRegion(m, b, reserver, cache, registered) ==
  LET c == CreateRegion(m, b, cache, registered)
  IN IF c.id = NOREQ THEN c
     ELSE [m |-> Reserve([c.m EXCEPT !.vect = Append(@, c.id), !.reg[c.id].use = @ + 1],
                         c.id, reserver),
           id |-> c.id]

GetContigousRegion(m, b, reserver, cache, parallel, registered) ==
  LET k == SelectInSeq(m.list, LAMBDA i : Reusable(m.reg[i], b, reserver, parallel))
      i == m.list[k]
      c == CreateRegion(m, b, cache, registered)
  IN IF cache /\ k # 0
     THEN [m |-> Reserve([m EXCEPT !.reg[i].use = @ + 1,
                                   !.unused = IF m.reg[i].use = 0 THEN Remove(@, i) ELSE @],
                         i, reserver),
           id |-> i]
     ELSE IF c.id = NOREQ THEN c
     ELSE [m |-> Reserve([c.m EXCEPT !.list = Append(@, c.id), !.reg[c.id].use = @ + 1],
                         c.id, reserver),
           id |-> c.id]

GetRegion(m, b, reserver, cache, parallel, registered) ==
  IF b.nseg > 1 THEN GetVectRegion(m, b, reserver, cache, registered)
  ELSE GetContigousRegion(m, b, reserver, cache, parallel, registered)

\* A release by a holder that passes the reserver it believes in.
PutRegion(m, i, reserver, cache) ==
  LET m1 == [m EXCEPT !.reg[i].use = @ - 1,
                      !.reg[i].reserver = IF reserver = NOREQ THEN @ ELSE NOREQ]
  IN IF cache /\ m.reg[i].buf.nseg = 1
     THEN [m1 EXCEPT !.unused = IF m1.reg[i].use = 0 THEN Append(@, i) ELSE @]
     ELSE Destroy(m1, i)

\* Assertions of a release: the window is in use, and by this reserver.
PutAllowed(m, i, reserver) ==
  /\ m.reg[i].use > 0
  /\ reserver # NOREQ => m.reg[i].reserver = reserver

Intersect(va1, len1, va2, len2) ==
  LET Min2(a, b) == IF a < b THEN a ELSE b
      Max2(a, b) == IF a > b THEN a ELSE b
  IN Min2(va1 + len1, va2 + len2) > Max2(va1, va2)

\* Cached windows on memory that the application gives back.
Touched(m, va, len) ==
  {i \in ToSet(m.list) : Intersect(va, len, m.reg[i].buf.va, m.reg[i].buf.len)}

\* The application bug that aborts a cleaning of the cache.
CleanAborts(m, va, len) == \E i \in Touched(m, va, len) : m.reg[i].use > 0

RegcacheClean(m, va, len) ==
  FoldLeft(LAMBDA acc, i : IF i \in Touched(m, va, len)
                           THEN Destroy([acc EXCEPT !.unused = Remove(@, i)], i)
                           ELSE acc,
           m, m.list)

\* Closing an endpoint destroys every window.
MapExit(m) ==
  FoldLeft(LAMBDA acc, i : Destroy([acc EXCEPT !.unused = Remove(@, i)], i), m, m.list \o m.vect)
=============================================================================
