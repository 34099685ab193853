------------------------------ MODULE Partner -------------------------------
(***************************************************************************)
(* Reliable in-order delivery between two connected endpoints of the       *)
(* library: sequence numbers and throttling of sends (omx_send.c), acks    *)
(* (omx_ack.c), matching, early packets and partially received medium      *)
(* messages (omx_recv.c), resending, and the disconnection of a partner    *)
(* that never answers (omx_partner.c).  Each action is one handler or one  *)
(* API call, run with the endpoint lock held.  The network loses,          *)
(* duplicates and reorders packets.                                        *)
(*                                                                         *)
(* A handler is a function of the partner record; the packets it posts are *)
(* gathered in the field out.                                              *)
(***************************************************************************)
EXTENDS Integers, Sequences, FiniteSets, SequencesExt

CONSTANTS
  Nodes,          \* the two endpoints
  Frags,          \* Frags[n][i]: fragments of the i-th message that n sends
  SEQNUMS,        \* 2^OMX__SEQNUM_BITS
  EARLY_MAX,      \* OMX__EARLY_PACKET_OFFSET_MAX
  NOT_ACKED_MAX,  \* omx__globals.not_acked_max
  RESENDS_MAX,    \* req_resends_max
  Closers,        \* the endpoints that may be closed
  BASE,           \* sequence number reached by earlier traffic, all acked
  NETMAX,         \* bound: packets in flight
  FAULTS          \* bound: duplications, failed allocations and failed ioctls

ASSUME PartnerConstants ==
  /\ Cardinality(Nodes) = 2
  /\ SEQNUMS > 2 * EARLY_MAX
  /\ Closers \subseteq Nodes
  /\ BASE \in 0..SEQNUMS-1

VARIABLES
  partner,  \* partner[n]: what n knows of its peer
  net,      \* packets in flight
  faults    \* faults so far

vars == <<partner, net, faults>>

Peer(n) == CHOOSE m \in Nodes : m # n
SEQNUM(x) == x % SEQNUMS
THROTTLING_OFFSET_MAX == (SEQNUMS - 1) \div 2

\* A freshly connected partner, and the messages that went through ghosts:
\* submitted, matched (in matching order), received (all fragments), acked, failed.
PInit ==
  /\ partner = [n \in Nodes |->
       [next_send |-> BASE, next_acked |-> BASE, next_match |-> BASE, next_frag |-> BASE,
        last_acked |-> BASE, need_ack |-> "no", send_acknum |-> 0, recv_acknum |-> 0,
        non_acked |-> <<>>, need_seqnum |-> <<>>, partial |-> <<>>, early |-> <<>>,
        status |-> "connected", out |-> {},
        submitted |-> 0, matched |-> <<>>, received |-> {}, acked |-> {}, failed |-> {}]]
  /\ net = {}
  /\ faults = 0
-----------------------------------------------------------------------------
\* Acks owed to the peer

NeedAckDelayed(s) == [s EXCEPT !.need_ack = IF @ = "no" THEN "delayed" ELSE @]
NeedAckImmediate(s) == [s EXCEPT !.need_ack = "immediate"]
MarkAckSent(s) == [s EXCEPT !.need_ack = "no", !.last_acked = s.next_frag]

\* Sending

\* Mutant of Post: acks what was matched, not what was received.
PostAcksMatched(s, n, req, err) ==
  MarkAckSent([s EXCEPT !.out = @ \cup
    {[type |-> "msg", dst |-> Peer(n), seq |-> req.seq, frag |-> f, msg |-> req.msg,
      piggyack |-> s.next_match] : f \in 1..Frags[n][req.msg]}])

\* omx__post_isend_*: every fragment carries the current ack.  An ioctl that fails
\* before the last fragment is left to the retransmission and acks nothing.
Post(s, n, req, err) ==
  LET last == IF err THEN Frags[n][req.msg] - 1 ELSE Frags[n][req.msg]
      s1   == [s EXCEPT !.out = @ \cup
                {[type |-> "msg", dst |-> Peer(n), seq |-> req.seq, frag |-> f, msg |-> req.msg,
                  piggyack |-> s.next_frag] : f \in 1..last}]
  IN  IF err THEN s1 ELSE MarkAckSent(s1)

\* omx__setup_isend_*: take a sequence number, post, queue as non acked.
Setup(s, n, msg, err) ==
  LET req == [seq |-> s.next_send, msg |-> msg, resends |-> 1]
      s1  == [s EXCEPT !.next_send = SEQNUM(@ + 1)]
  IN  [Post(s1, n, req, err) EXCEPT !.non_acked = Append(@, req)]

MissingAcks(s) == SEQNUM(s.next_send - s.next_acked)

\* omx__alloc_setup_isend_*
AllocSetup(s, n, msg, err) ==
  IF MissingAcks(s) >= THROTTLING_OFFSET_MAX
    THEN [s EXCEPT !.need_seqnum = Append(@, msg)]
    ELSE Setup(s, n, msg, err)

\* Mutant of ProcessThrottling: one request too few is released.
ProcessThrottlingOneLess(s, n, nr, err) ==
  LET sent == IF nr - 1 < Len(s.need_seqnum) THEN nr - 1 ELSE Len(s.need_seqnum)
      s1   == [s EXCEPT !.need_seqnum = SubSeq(@, sent + 1, Len(@))]
  IN  FoldLeft(LAMBDA t, msg : Setup(t, n, msg, err), s1, SubSeq(s.need_seqnum, 1, sent))

\* omx__process_throttling_requests
ProcessThrottling(s, n, nr, err) ==
  LET sent == IF nr < Len(s.need_seqnum) THEN nr ELSE Len(s.need_seqnum)
      s1   == [s EXCEPT !.need_seqnum = SubSeq(@, sent + 1, Len(@))]
  IN  FoldLeft(LAMBDA t, msg : Setup(t, n, msg, err), s1, SubSeq(s.need_seqnum, 1, sent))

\* omx__handle_ack: ack the non-acked requests up to the first one that is not
\* covered, then let throttled requests go.
HandleAck(s, n, ack, err) ==
  LET new == SEQNUM(ack - s.next_acked)
      uncovered == SelectInSeq(s.non_acked, LAMBDA r : SEQNUM(r.seq - s.next_acked) >= new)
      nr  == IF uncovered = 0 THEN Len(s.non_acked) ELSE uncovered - 1
      s1  == [s EXCEPT !.non_acked = SubSeq(@, nr + 1, Len(@)),
                       !.acked = @ \cup {s.non_acked[i].msg : i \in 1..nr},
                       !.next_acked = ack]
  IN  IF new = 0 \/ new > MissingAcks(s) THEN s ELSE ProcessThrottling(s1, n, new, err)

\* omx__handle_liback
HandleLiback(s, n, pkt, err) ==
  IF pkt.acknum <= s.recv_acknum THEN s
  ELSE HandleAck([s EXCEPT !.recv_acknum = pkt.acknum], n, pkt.ack, err)

\* omx__handle_nack: the request completes with an error, its sequence number
\* stays in the window.
HandleNack(s, pkt) ==
  LET i == SelectInSeq(s.non_acked, LAMBDA r : r.seq = pkt.seq)
  IN  IF i = 0 THEN s
      ELSE [s EXCEPT !.non_acked = RemoveAt(@, i), !.failed = @ \cup {s.non_acked[i].msg}]
-----------------------------------------------------------------------------
\* Receiving

\* Mutant of UpdateNextFrag: partial receives are forgotten.
UpdateNextFragMatched(s) == NeedAckDelayed([s EXCEPT !.next_frag = s.next_match])

\* omx__update_partner_next_frag_recv_seq
UpdateNextFrag(s) ==
  LET new == IF s.partial = <<>> THEN s.next_match ELSE s.partial[1].seq
      s1  == [s EXCEPT !.next_frag = new]
  IN  IF new = s.next_frag THEN s
      ELSE IF SEQNUM(new - s.last_acked) >= NOT_ACKED_MAX
             THEN NeedAckImmediate(s1) ELSE NeedAckDelayed(s1)

\* Fragments of the messages sent to n.
FragsTo(n, msg) == Frags[Peer(n)][msg]
IsMedium(n, pkt) == FragsTo(n, pkt.msg) > 1

\* omx__process_recv_medium_frag for the i-th partial request, queued last by its
\* first fragment: it stays there until the last one comes.  A duplicate fragment
\* changes nothing.
MediumFrag(s, n, i, pkt) ==
  LET queued == IF i <= Len(s.partial) THEN s.partial
                ELSE Append(s.partial, [seq |-> pkt.seq, msg |-> pkt.msg, frags |-> {}])
      all == queued[i].frags \cup {pkt.frag}
  IN  IF Cardinality(all) = FragsTo(n, pkt.msg)
        THEN [s EXCEPT !.partial = RemoveAt(queued, i), !.received = @ \cup {queued[i].msg}]
        ELSE [s EXCEPT !.partial = [queued EXCEPT ![i].frags = all]]

\* omx__try_match_next_recv: the message is matched and its receive callback run.
MatchNext(s, n, pkt) ==
  LET s1 == [s EXCEPT !.matched = Append(@, pkt.msg)]
  IN  IF IsMedium(n, pkt)
        THEN MediumFrag(s1, n, Len(s.partial) + 1, pkt)
        ELSE [s1 EXCEPT !.received = @ \cup {pkt.msg}]

\* Mutant of ContinuePartial: the last fragment does not move next_frag.
ContinuePartialNoUpdate(s, n, pkt) ==
  LET i == SelectInSeq(s.partial, LAMBDA r : r.seq = pkt.seq)
  IN  IF i = 0 THEN s ELSE MediumFrag(s, n, i, pkt)

\* omx__continue_partial_request
ContinuePartial(s, n, pkt) ==
  LET index(seq) == SEQNUM(seq - s.next_frag)
      i == SelectInSeq(s.partial, LAMBDA r : index(r.seq) >= index(pkt.seq))
  IN  IF i = 0 \/ index(s.partial[i].seq) # index(pkt.seq) THEN s
      ELSE UpdateNextFrag(MediumFrag(s, n, i, pkt))

\* Mutant of OrderedRecv: a duplicate that is not behind next_frag is matched.
OrderedRecvDuplicates(s, n, pkt, ok) ==
  LET behind == SEQNUM(pkt.seq - s.next_frag) < SEQNUM(s.next_match - s.next_frag)
  IN  IF IsMedium(n, pkt) /\ behind THEN ContinuePartial(s, n, pkt)
      ELSE IF behind \/ pkt.seq = s.next_match
        THEN UpdateNextFrag([MatchNext(s, n, pkt) EXCEPT !.next_match = SEQNUM(@ + 1)])
        ELSE s

\* omx__process_partner_ordered_recv; ok is FALSE when the message is
\* unexpected and no memory is left for it.
OrderedRecv(s, n, pkt, ok) ==
  LET frag_index == SEQNUM(pkt.seq - s.next_frag)
      frag_index_max == SEQNUM(s.next_match - s.next_frag)
  IN  IF pkt.seq = s.next_match
        THEN IF ok THEN UpdateNextFrag([MatchNext(s, n, pkt) EXCEPT !.next_match = SEQNUM(@ + 1)])
                   ELSE s
        ELSE IF IsMedium(n, pkt) /\ frag_index < frag_index_max
               THEN ContinuePartial(s, n, pkt) ELSE s

\* The early queue is sorted by sequence number, then by fragment.
Precedes(s, p, q) ==
  LET index(e) == SEQNUM(e.seq - s.next_match)
  IN  index(p) < index(q) \/ (index(p) = index(q) /\ p.frag < q.frag)

\* omx__postpone_early_packet, with omx__find_previous_early_packet: a duplicate
\* or a failed allocation drops the packet.
Postpone(s, pkt, ok) ==
  LET before == SelectSeq(s.early, LAMBDA e : Precedes(s, e, pkt))
      after  == SelectSeq(s.early, LAMBDA e : Precedes(s, pkt, e))
  IN  IF ok /\ Len(before) + Len(after) = Len(s.early)
        THEN [s EXCEPT !.early = before \o <<pkt>> \o after] ELSE s

\* The loop over early packets at the end of omx__process_recv: how far it goes
\* is fixed before it starts.
ProcessEarly(s, n, old_match, early_ok) ==
  LET max == SEQNUM(s.next_match - old_match)
      due(e) == SEQNUM(e.seq - old_match) <= max
      s1  == [s EXCEPT !.early = SelectSeq(@, LAMBDA e : ~due(e))]
  IN  FoldLeft(LAMBDA t, e : OrderedRecv(t, n, e, early_ok), s1, SelectSeq(s.early, due))

\* omx__process_recv; ok and early_ok: is there memory for the packet, and for the
\* early ones that become due.
ProcessRecv(s0, n, pkt, ok, early_ok, err) ==
  LET s == HandleAck(s0, n, pkt.piggyack, err)
      frag_index == SEQNUM(pkt.seq - s.next_frag)
      frag_index_max == SEQNUM(s.next_match - s.next_frag)
      s1 == OrderedRecv(s, n, pkt, ok)
  IN  CASE frag_index <= frag_index_max ->
             IF s1.next_match # s.next_match THEN ProcessEarly(s1, n, s.next_match, early_ok) ELSE s1
        [] frag_index > frag_index_max /\ frag_index <= frag_index_max + EARLY_MAX ->
             Postpone(s, pkt, ok)
        [] frag_index > frag_index_max + EARLY_MAX ->
             IF frag_index = SEQNUM(-1) THEN NeedAckImmediate(s) ELSE s

\* Whatever is pending completes with an error; nothing is left of the partner.
Drop(s, status) ==
  [s EXCEPT !.failed = @ \cup {s.non_acked[i].msg : i \in DOMAIN s.non_acked}
                         \cup Range(s.need_seqnum),
            !.non_acked = <<>>, !.need_seqnum = <<>>, !.partial = <<>>, !.early = <<>>,
            !.need_ack = "no", !.status = status]

\* Mutant of Cleanup: throttled requests are left where they are.
CleanupKeepsThrottled(s) ==
  [Drop([s EXCEPT !.need_seqnum = <<>>], "disconnected") EXCEPT !.need_seqnum = s.need_seqnum]

\* omx__partner_cleanup with disconnect = 1: the new session number makes the
\* packets of the old session obsolete.
Cleanup(s) == Drop(s, "disconnected")
-----------------------------------------------------------------------------
\* Put the packets of s on the network, which may lose any of them.
Transmit(n, s, rest) ==
  /\ \E sent \in SUBSET s.out :
       /\ Cardinality(rest \cup sent) <= NETMAX
       /\ net' = rest \cup sent
  /\ partner' = [partner EXCEPT ![n] = [s EXCEPT !.out = {}]]

\* Faults of a step are counted against the bound.
Faulty(nr) == faults + nr <= FAULTS /\ faults' = faults + nr
Count(b) == IF b THEN 1 ELSE 0

\* omx_isend
Isend(n) ==
  LET s == partner[n]
      msg == s.submitted + 1
  IN  /\ s.status = "connected" /\ msg <= Len(Frags[n])
      /\ \E err \in BOOLEAN :
           /\ Faulty(Count(err))
           /\ Transmit(n, AllocSetup([s EXCEPT !.submitted = msg], n, msg, err), net)

\* A packet reaches its connected endpoint, and may come again.
Recv(n) ==
  \E pkt \in {p \in net : p.dst = n} :
    \E ok, early_ok, err, again \in BOOLEAN :
      LET s == partner[n]
          s1 == CASE pkt.type = "msg"    -> ProcessRecv(s, n, pkt, ok, early_ok, err)
                  [] pkt.type = "liback" -> HandleLiback(s, n, pkt, err)
                  [] pkt.type = "nack"   -> HandleNack(s, pkt)
      IN  /\ s.status = "connected"
          /\ Faulty(Count(~ok) + Count(~early_ok) + Count(err) + Count(again))
          /\ Transmit(n, s1, IF again THEN net ELSE net \ {pkt})

\* After a disconnection the session number of a packet is obsolete.  When the
\* endpoint is closed the driver answers a message, and nothing else, with a nack.
RecvObsolete(n) ==
  \E pkt \in {p \in net : p.dst = n} :
    LET s == partner[n]
        nack == [type |-> "nack", dst |-> Peer(n), seq |-> pkt.seq]
    IN  /\ s.status # "connected"
        /\ Transmit(n, [s EXCEPT !.out = IF s.status = "closed" /\ pkt.type = "msg"
                                          THEN {nack} ELSE {}], net \ {pkt})
        /\ UNCHANGED faults

\* omx__submit_send_liback: the ack number is used up even when the ioctl fails.
SubmitLiback(s, n, err) ==
  LET acknum == s.send_acknum + 1
      liback == [type |-> "liback", dst |-> Peer(n), ack |-> s.next_frag, acknum |-> acknum]
      s1     == [s EXCEPT !.send_acknum = acknum]
  IN  IF err THEN s1 ELSE MarkAckSent([s1 EXCEPT !.out = @ \cup {liback}])

\* omx__process_partners_to_ack: at once for an immediate ack, after a delay for
\* the others.
SendLiback(n) ==
  /\ partner[n].need_ack # "no"
  /\ \E err \in BOOLEAN :
       /\ Faulty(Count(err))
       /\ Transmit(n, SubmitLiback(partner[n], n, err), net)

\* omx_close_endpoint: delayed acks are flushed, pending requests are destroyed.
Close(n) ==
  LET s == partner[n]
  IN  /\ n \in Closers /\ s.status # "closed"
      /\ Transmit(n, Drop(IF s.need_ack = "delayed" THEN SubmitLiback(s, n, FALSE) ELSE s,
                          "closed"), net)
      /\ UNCHANGED faults

\* omx__process_resend_requests, one request whose delay has expired at a time and
\* in any order, which covers the order of the endpoint's queue.
Resend(n) ==
  \E i \in DOMAIN partner[n].non_acked :
    LET s == partner[n]
        req == s.non_acked[i]
        s1 == [s EXCEPT !.non_acked[i].resends = @ + 1]
    IN  IF req.resends > RESENDS_MAX
          THEN Transmit(n, Cleanup(s), net) /\ UNCHANGED faults
          ELSE \E err \in BOOLEAN : Faulty(Count(err)) /\ Transmit(n, Post(s1, n, req, err), net)

PNext ==
  \E n \in Nodes :
    Isend(n) \/ Recv(n) \/ RecvObsolete(n) \/ SendLiback(n) \/ Resend(n) \/ Close(n)

PSpec == PInit /\ [][PNext]_vars

\* Every progress call looks at the requests to resend.  Nothing is assumed of the
\* network.
PFairSpec == PSpec /\ \A n \in Nodes : WF_vars(Resend(n))
-----------------------------------------------------------------------------
MsgsOf(n) == 1..Len(Frags[n])

\* Sequence numbers stay within OMX__SEQNUM_BITS, a request is never posted more
\* often than its resends_max allows, and a handler posts all its packets.
PTypeOK ==
  /\ \A n \in Nodes :
       LET s == partner[n]
       IN  /\ {s.next_send, s.next_acked, s.next_match, s.next_frag, s.last_acked}
                \subseteq 0..SEQNUMS-1
           /\ s.need_ack \in {"no", "delayed", "immediate"}
           /\ Range(s.non_acked) \subseteq [seq : 0..SEQNUMS-1, msg : MsgsOf(n), resends : 1..RESENDS_MAX+1]
           /\ s.out = {}
           /\ s.status \in {"connected", "disconnected", "closed"}
  /\ Cardinality(net) <= NETMAX

\* A send that completed with success was entirely received: no piggybacked,
\* library or stale ack covers a message with a missing fragment.
AckedWasReceived ==
  \A n \in Nodes : partner[n].acked \subseteq partner[Peer(n)].received

\* "limit the seqnum of non-acked send, throttle other sends": the window is
\* never exceeded, and a send waits for a sequence number only when it is full,
\* so that some ack is due that will release it.
ThrottledOnlyWhenFull ==
  \A n \in Nodes :
    LET s == partner[n]
    IN  s.status = "connected" =>
          /\ MissingAcks(s) <= THROTTLING_OFFSET_MAX
          /\ s.need_seqnum # <<>> => MissingAcks(s) = THROTTLING_OFFSET_MAX

\* "it also limits the number of possible partial recv in the remote side, which
\* means we don't have to check/throttle there".
PartialsBounded == \A n \in Nodes : Len(partner[n].partial) <= THROTTLING_OFFSET_MAX

\* The ack sent to the peer is the oldest incomplete message: partial receives
\* stay sorted though they complete in any order, and an early packet is never
\* left behind the sequence number to match.
ReceiveQueuesSorted ==
  \A n \in Nodes :
    LET s == partner[n]
        index(x) == SEQNUM(x.seq - s.next_frag)
        max == SEQNUM(s.next_match - s.next_frag)
    IN  s.status = "connected" =>
          /\ \A i, j \in DOMAIN s.partial : i < j => index(s.partial[i]) < index(s.partial[j])
          /\ \A i \in DOMAIN s.partial : index(s.partial[i]) < max
          /\ s.next_frag = IF s.partial = <<>> THEN s.next_match ELSE s.partial[1].seq
          /\ \A i \in DOMAIN s.early : index(s.early[i]) \in max .. max + EARLY_MAX

\* "process early packets in case they match the new expected seqnum": no packet
\* that could be matched is left in the early queue.
NoDueEarlyLeft ==
  \A n \in Nodes : \A i \in DOMAIN partner[n].early :
    partner[n].early[i].seq # partner[n].next_match

\* Every send completes, with success or with an error once it was resent too
\* often, whatever the network does.
EverySendCompletes ==
  \A n \in Nodes : \A m \in MsgsOf(n) :
    (m <= partner[n].submitted) ~> (m \in partner[n].acked \cup partner[n].failed)

\* The protocol implements an ordered channel: what the application sees of it.
Channel == INSTANCE MessageChannel WITH
  sent      <- [n \in Nodes |-> partner[n].submitted],
  delivered <- [n \in Nodes |-> partner[n].matched],
  arrived   <- [n \in Nodes |-> partner[n].received],
  succeeded <- [n \in Nodes |-> partner[n].acked],
  failed    <- [n \in Nodes |-> partner[n].failed]

\* What applications see of omx_isend and of matching (omx__process_recv): messages
\* come in order and at most once, and each send completes at most once, with success
\* only after its message arrived.
ChannelSpec == Channel!CSpec

\* The queues of a partner stay as omx_ack.c and omx_recv.c need them: sorted, in their
\* windows and bounded by the sender's throttling.
QueuesBounded == PTypeOK /\ PartialsBounded /\ ReceiveQueuesSorted
=============================================================================
