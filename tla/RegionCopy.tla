----------------------------- MODULE RegionCopy -----------------------------
(***************************************************************************)
(* How the driver walks the pages of a user region (omx_reg.c, omx_dma.c). *)
(*                                                                         *)
(* A region is a sequence of segments of virtual memory; a segment is an   *)
(* array of pages, entered at first_page_offset.  The driver never keeps a *)
(* byte index: it keeps a cursor (segment, offset in the segment, page,    *)
(* offset in the page) and moves it chunk by chunk, where a chunk ends at  *)
(* a page end, at a segment end or at the end of the request.  Eight       *)
(* callbacks repeat that loop, for one segment ("contig") or for several   *)
(* ("vect"), to append pages to a packet, to copy them, or to submit them  *)
(* to a DMA channel.                                                       *)
(*                                                                         *)
(* What a loop touches is a sequence of pieces: which bytes of which page. *)
(* Bytes of the region are numbered from 0; BytesOf says which of them a   *)
(* piece is made of.                                                       *)
(***************************************************************************)
EXTENDS Integers, Sequences, SequencesExt

CONSTANTS PAGE_SIZE,    \* bytes per page
          SKB_FRAGS     \* omx_skb_frags: pages one packet may carry

ASSUME PageAssumption == PAGE_SIZE \in Nat \ {0} /\ SKB_FRAGS \in Nat

Least(a, b) == IF a <= b THEN a ELSE b

\* x after n applications of Step.
Iterate(Step(_), x, n) ==
  LET it[k \in 0 .. n] == IF k = 0 THEN x ELSE Step(it[k - 1])
  IN it[n]

-----------------------------------------------------------------------------
(***************************************************************************)
(* Segments.                                                               *)
(***************************************************************************)
\* omx_user_region_add_segment: the page array that covers the segment.
AddSegment(useg) ==
  LET offset == useg.vaddr % PAGE_SIZE
  IN [aligned_vaddr |-> useg.vaddr - offset, first_page_offset |-> offset,
      length |-> useg.len,
      nr_pages |-> (offset + useg.len + PAGE_SIZE - 1) \div PAGE_SIZE,
      pinned_pages |-> 0]

\* The loop of omx_ioctl_user_region_create: empty segments are skipped.
AddSegments(usegs) ==
  LET full == SelectSeq(usegs, LAMBDA u : u.len > 0)
  IN [i \in 1 .. Len(full) |-> AddSegment(full[i])]

\* Length of the first n segments, and of the region.
LengthUpTo(segs, n) == FoldLeft(LAMBDA a, s : a + s.length, 0, SubSeq(segs, 1, n))
TotalLength(segs) == LengthUpTo(segs, Len(segs))

\* The segment that holds byte o of the region.
SegmentOf(segs, o) ==
  CHOOSE i \in 1 .. Len(segs) : LengthUpTo(segs, i - 1) <= o /\ o < LengthUpTo(segs, i)

\* The bytes of the region that a piece [seg, page, off, len] covers.
BytesOf(segs, p) ==
  LET start == LengthUpTo(segs, p.seg - 1)
               + p.page * PAGE_SIZE + p.off - segs[p.seg].first_page_offset
  IN [k \in 1 .. p.len |-> start + k - 1]

BytesOfPieces(segs, ps) == FoldLeft(LAMBDA a, p : a \o BytesOf(segs, p), <<>>, ps)

\* The bytes offset, offset+1, ... offset+length-1.
Bytes(offset, length) == [k \in 1 .. length |-> offset + k - 1]

-----------------------------------------------------------------------------
(***************************************************************************)
(* The cursor.                                                             *)
(***************************************************************************)
CacheInitOk(segs, offset, length) == segs # <<>> /\ offset + length <= TotalLength(segs)

\* omx_user_region_offset_cache_init
CacheInit(segs, offset) ==
  LET s == IF Len(segs) > 1 THEN SegmentOf(segs, offset) ELSE 1
      segoff == offset - LengthUpTo(segs, s - 1)
      inpages == segoff + segs[s].first_page_offset
  IN [seg |-> s, segoff |-> segoff,
      page |-> inpages \div PAGE_SIZE, pageoff |-> inpages % PAGE_SIZE]

ContigChunk(c, remaining) == Least(remaining, PAGE_SIZE - c.pageoff)

VectChunk(segs, c, remaining) ==
  Least(ContigChunk(c, remaining), segs[c.seg].length - c.segoff)

\* The cursor moves on inside the only segment; segoff is not maintained.
ContigNext(c, chunk) ==
  IF c.pageoff + chunk = PAGE_SIZE
    THEN [c EXCEPT !.page = @ + 1, !.pageoff = 0]
    ELSE [c EXCEPT !.pageoff = @ + chunk]

\* A mutant: the next segment is entered at the start of its first page.
VectNextNoOffset(segs, c, chunk) ==
  IF c.segoff + chunk = segs[c.seg].length
    THEN [seg |-> c.seg + 1, segoff |-> 0, page |-> 0, pageoff |-> 0]
    ELSE [ContigNext(c, chunk) EXCEPT !.segoff = @ + chunk]

\* The cursor moves on across segments.  At the end of the last one the
\* bounds test of the code still passes and the fields of the segment behind
\* the array are loaded: their values are unknown and must not be used.
VectNext(segs, c, chunk) ==
  IF c.segoff + chunk = segs[c.seg].length
    THEN IF c.seg < Len(segs)
           THEN [seg |-> c.seg + 1, segoff |-> 0, page |-> 0,
                 pageoff |-> segs[c.seg + 1].first_page_offset]
           ELSE [seg |-> c.seg + 1, segoff |-> 0, page |-> 0, pageoff |-> "unknown"]
    ELSE [ContigNext(c, chunk) EXCEPT !.segoff = @ + chunk]

Piece(c, chunk) == [seg |-> c.seg, page |-> c.page, off |-> c.pageoff, len |-> chunk]

\* One turn of the loops, on w = [cache, remaining, pieces].
ContigTurn(w) ==
  IF w.remaining = 0 THEN w
  ELSE LET chunk == ContigChunk(w.cache, w.remaining)
       IN [cache |-> ContigNext(w.cache, chunk), remaining |-> w.remaining - chunk,
           pieces |-> Append(w.pieces, Piece(w.cache, chunk))]

VectTurn(segs, w) ==
  IF w.remaining = 0 THEN w
  ELSE LET chunk == VectChunk(segs, w.cache, w.remaining)
       IN [cache |-> VectNext(segs, w.cache, chunk), remaining |-> w.remaining - chunk,
           pieces |-> Append(w.pieces, Piece(w.cache, chunk))]

Start(c, length) == [cache |-> c, remaining |-> length, pieces |-> <<>>]

-----------------------------------------------------------------------------
(***************************************************************************)
(* The callbacks.  Each returns the walk it made; an append that needs     *)
(* more pages than a packet carries fails and leaves the cursor alone.     *)
(***************************************************************************)
\* omx_user_region_offset_cache_contig_append_callback
ContigAppend(c, length) ==
  LET w == Iterate(ContigTurn, Start(c, length), Least(length, SKB_FRAGS))
  IN IF w.remaining = 0 THEN w ELSE Start(c, length)

\* omx_user_region_offset_cache_vect_append_callback
VectAppend(segs, c, length) ==
  LET w == Iterate(LAMBDA x : VectTurn(segs, x), Start(c, length), Least(length, SKB_FRAGS))
  IN IF w.remaining = 0 THEN w ELSE Start(c, length)

\* omx_user_region_offset_cache_contig_copy_callback
ContigCopy(c, length) == Iterate(ContigTurn, Start(c, length), length)

\* omx_user_region_offset_cache_vect_copy_callback
VectCopy(segs, c, length) ==
  Iterate(LAMBDA x : VectTurn(segs, x), Start(c, length), length)

\* omx_user_region_offset_cache_dma_contig_memcpy_from_buf_callback, when the
\* channel takes n chunks before it refuses one
DmaContigFromBuf(c, length, n) == Iterate(ContigTurn, Start(c, length), Least(n, length))

\* omx_user_region_offset_cache_dma_vect_memcpy_from_buf_callback: a refusal
\* stores the page and the page offset of the cursor, not its segment
DmaVectFromBuf(segs, c, length, n) ==
  LET w == Iterate(LAMBDA x : VectTurn(segs, x), Start(c, length), Least(n, length))
  IN IF w.remaining = 0 THEN w
     ELSE [w EXCEPT !.cache = [@ EXCEPT !.seg = c.seg, !.segoff = c.segoff]]

\* omx_user_region_offset_cache_dma_contig_memcpy_from_pg_callback
DmaContigFromPg(c, length, n) == Iterate(ContigTurn, Start(c, length), Least(n, length))

\* omx_user_region_offset_cache_dma_vect_memcpy_from_pg_callback
DmaVectFromPg(segs, c, length, n) ==
  LET w == Iterate(LAMBDA x : VectTurn(segs, x), Start(c, length), Least(n, length))
  IN IF w.remaining = 0 THEN w
     ELSE [w EXCEPT !.cache = [@ EXCEPT !.seg = c.seg, !.segoff = c.segoff]]

\* The callbacks that omx_user_region_offset_cache_init installs.
AppendPages(segs, c, length) ==
  IF Len(segs) > 1 THEN VectAppend(segs, c, length) ELSE ContigAppend(c, length)
CopyPages(segs, c, length) ==
  IF Len(segs) > 1 THEN VectCopy(segs, c, length) ELSE ContigCopy(c, length)
DmaFromBuf(segs, c, length, n) ==
  IF Len(segs) > 1 THEN DmaVectFromBuf(segs, c, length, n) ELSE DmaContigFromBuf(c, length, n)
DmaFromPg(segs, c, length, n) ==
  IF Len(segs) > 1 THEN DmaVectFromPg(segs, c, length, n) ELSE DmaContigFromPg(c, length, n)

-----------------------------------------------------------------------------
(***************************************************************************)
(* Received data.                                                          *)
(***************************************************************************)
\* omx__user_region_segment_fill_pages
SegmentFillPages(segs, s, segoff, length) ==
  LET inpages == segoff + segs[s].first_page_offset
      c == [seg |-> s, segoff |-> segoff,
            page |-> inpages \div PAGE_SIZE, pageoff |-> inpages % PAGE_SIZE]
  IN Iterate(ContigTurn, Start(c, length), length).pieces

FillOk(segs, offset, length) == offset + length <= TotalLength(segs)

\* omx_user_region_fill_pages: one turn per segment of the region
FillPages(segs, offset, length) ==
  LET Turn(w) ==
        LET s == w.seg
            off == w.segoff
            n == Least(w.remaining, segs[s].length - off)
        IN IF w.remaining = 0 THEN w
           ELSE IF off >= segs[s].length
             THEN [w EXCEPT !.seg = s + 1, !.segoff = off - segs[s].length]
             ELSE [seg |-> s + 1, segoff |-> 0, remaining |-> w.remaining - n,
                   pieces |-> w.pieces \o SegmentFillPages(segs, s, off, n)]
  IN Iterate(Turn, [seg |-> 1, segoff |-> offset, remaining |-> length, pieces |-> <<>>],
             Len(segs)).pieces

\* omx_dma_skb_copy_datagram_to_user_region: the linear part of the packet is
\* submitted from its buffer, each page fragment from its page; the first
\* refusal ends the submission.  The result says how much is left to copy.
DmaSkbCopy(segs, offset, parts, n) ==
  LET Submit(w, i) ==
        LET left == n - Len(w.pieces)
            r == IF i = 1 THEN DmaFromBuf(segs, w.cache, parts[i], left)
                          ELSE DmaFromPg(segs, w.cache, parts[i], left)
        IN IF w.refused \/ parts[i] = 0 THEN w
           ELSE [cache |-> r.cache, pieces |-> w.pieces \o r.pieces,
                 remaining |-> w.remaining - parts[i] + r.remaining,
                 refused |-> r.remaining > 0]
      total == FoldLeft(LAMBDA a, p : a + p, 0, parts)
      start == [cache |-> CacheInit(segs, offset), pieces |-> <<>>,
                remaining |-> total, refused |-> FALSE]
      w[i \in 0 .. Len(parts)] == IF i = 0 THEN start ELSE Submit(w[i - 1], i)
  IN w[Len(parts)]
=============================================================================
