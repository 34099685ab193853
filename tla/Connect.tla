------------------------------ MODULE Connect -------------------------------
(***************************************************************************)
(* Connections between two endpoints of the library that may be closed and *)
(* opened again: connect requests and replies, their resends and timeouts  *)
(* (omx_partner.c), the session ids that the driver checks (driver         *)
(* omx_recv.c), the session number carried in every sequence number, and   *)
(* the cleanup of a partner that changed, timed out or was disconnected.   *)
(* Messages are single packets here: module Partner has the fragments and  *)
(* the throttling of one connection; this module has what one connection   *)
(* leaves to the next.                                                     *)
(*                                                                         *)
(* The network loses packets but keeps the order of those between two      *)
(* hosts.  A handler is a function of the node record; the packets it      *)
(* posts are gathered in the field out.                                    *)
(***************************************************************************)
EXTENDS Integers, Sequences, FiniteSets, SequencesExt

CONSTANTS
  Nodes,        \* the two endpoints
  Configs,      \* what the applications do: see CInit
  SESSIONS,     \* bound: incarnations of an endpoint
  SEQNUMS,      \* 2^OMX__SEQNUM_BITS
  SESNUMS,      \* 2^OMX__SESNUM_BITS
  EARLY_MAX,    \* OMX__EARLY_PACKET_OFFSET_MAX
  RESENDS_MAX,  \* req_resends_max
  NETMAX        \* bound: packets in flight one way, the others are lost

ASSUME ConnectConstants ==
  /\ Cardinality(Nodes) = 2
  /\ SEQNUMS > 4 * EARLY_MAX /\ SESNUMS > 1 /\ EARLY_MAX > 0
  /\ SESSIONS > 0

VARIABLES
  cf,    \* the configuration
  e,     \* e[n]: endpoint n and what it knows of the other one
  chan,  \* chan[n]: packets on their way to n
  losses \* packets lost so far

cvars == <<cf, e, chan, losses>>

Peer(n) == CHOOSE m \in Nodes : m # n
Sess == 1..SESSIONS
NONE == 0  \* no session: -1 in the code

\* A sequence number with the session number of its upper bits.
Num(ses, num) == [ses |-> ses % SESNUMS, num |-> num % SEQNUMS]
Minus1 == Num(SESNUMS - 1, SEQNUMS - 1)
Increase(q) == Num(q.ses, q.num + 1)
Offset(q, from) == (q.num - from.num) % SEQNUMS

\* OMX__SEQNUM_RESET
SeqnumReset(q) == Num(q.ses, 1)

\* What a node knows of a partner that omx__partner_create has just made.
NoPartner ==
  [known |-> FALSE, true |-> NONE, back |-> NONE, send |-> Minus1, acked |-> Minus1,
   match |-> Num(0, 1), frag |-> Num(0, 1), cseq |-> 0, sacknum |-> 0, racknum |-> 0,
   need |-> "no"]

\* Configuration: how often each node connects, sends and opens its endpoint, whether
\* it sends to a partner that it did not connect to, the keys that it connects with,
\* whether requests time out, are given up or disconnected, and how many packets get lost.
CInit ==
  /\ cf \in Configs
  /\ e = [n \in Nodes |->
       [sess |-> 1, last |-> 1, p |-> NoPartner, creqs |-> <<>>, nonacked |-> <<>>, early |-> {},
        out |-> <<>>, issued |-> 0, sends |-> 0,
        \* ghosts: messages sent to each incarnation, those completed with success,
        \* those matched from each incarnation, incarnations cleaned up, connects
        \* that succeeded, incarnations let in
        sent |-> [t \in Sess |-> 0], ok |-> {},
        log |-> [s \in Sess |-> [t \in Sess |-> <<>>]], dropped |-> {},
        joined |-> {}, took |-> {}]]
  /\ chan = [n \in Nodes |-> <<>>]
  /\ losses = 0
-----------------------------------------------------------------------------
\* Requests and their completion

\* omx__connect_complete: the request leaves its queues.
ConnectComplete(x, i, session) ==
  [x EXCEPT !.creqs = RemoveAt(@, i),
            !.joined = IF session = NONE THEN @ ELSE @ \cup {session}]

\* omx__partner_reset
PartnerReset(x) ==
  [x EXCEPT !.p = [NoPartner EXCEPT !.known = TRUE, !.match = SeqnumReset(x.p.match),
                                    !.frag = SeqnumReset(x.p.match)]]

\* The sequence numbers that nobody uses before the next connect.
FarMatch(q) == Num(q.ses + 1, q.num + SEQNUMS \div 2)
FarFrag(q) == Num(q.ses + 1, q.num + SEQNUMS \div 4)

\* The incarnations that a cleanup gives up: all of them when it disconnects.
Dropped(x, disconnect) ==
  {<<x.sess, t>> : t \in IF disconnect > 0 THEN Sess ELSE {x.p.true, x.p.back} \ {NONE}}

\* omx__partner_cleanup: pending sends and connects complete with an error, early
\* packets are dropped.  disconnect = 1 moves to the next session number, 2 also
\* frees the partner.
PartnerCleanup(x, disconnect) ==
  LET y == PartnerReset([x EXCEPT !.nonacked = <<>>, !.creqs = <<>>, !.early = {},
              !.dropped = @ \cup Dropped(x, disconnect)])
  IN IF disconnect = 2 THEN [y EXCEPT !.p = NoPartner]
     ELSE IF disconnect = 1 THEN [y EXCEPT !.p.match = FarMatch(@), !.p.frag = FarFrag(@)]
     ELSE y
-----------------------------------------------------------------------------
\* Connecting

\* omx__post_connect_request
PostConnectRequest(x, req) ==
  [x EXCEPT !.out = Append(@, [type |-> "creq", src |-> x.sess, start |-> x.p.match,
                               cseq |-> req.cseq, key |-> req.key])]

\* omx__connect_common
ConnectCommon(x, key) ==
  LET y == [x EXCEPT !.p.known = TRUE]
      req == [id |-> x.issued + 1, cseq |-> y.p.cseq, key |-> key, resends |-> 1]
  IN [PostConnectRequest(y, req) EXCEPT !.p.cseq = @ + 1, !.issued = @ + 1,
                                        !.creqs = Append(@, req)]

\* Mutant of HandleConnectReply: a new instance of the partner is not noticed.
HandleConnectReplyNoCleanup(x, i, pkt) ==
  LET y == ConnectComplete(x, i, IF pkt.ok THEN pkt.target ELSE NONE)
  IN IF ~pkt.ok THEN y
     ELSE [y EXCEPT !.p.send = IF y.p.true # pkt.target THEN pkt.start ELSE @,
                    !.p.acked = IF y.p.true # pkt.target THEN pkt.start ELSE @,
                    !.p.true = pkt.target]

\* omx__handle_connect_reply for the i-th connect request.
HandleConnectReply(x, i, pkt) ==
  LET y == ConnectComplete(x, i, IF pkt.ok THEN pkt.target ELSE NONE)
      z == IF y.p.back \notin {pkt.target, NONE}
             THEN PartnerCleanup(y, 0) ELSE y
      new == z.p.true # pkt.target
  IN IF ~pkt.ok THEN y
     ELSE [z EXCEPT !.p.send = IF new THEN pkt.start ELSE @,
                    !.p.acked = IF new THEN pkt.start ELSE @,
                    !.p.true = pkt.target]

\* omx__process_recv_connect_reply: the request is found by our session and its
\* connect sequence number.
ProcessRecvConnectReply(x, pkt) ==
  LET y == [x EXCEPT !.p.known = TRUE]
      i == SelectInSeq(y.creqs, LAMBDA req : pkt.src = x.sess /\ pkt.cseq = req.cseq)
  IN IF i = 0 THEN y ELSE HandleConnectReply(y, i, pkt)

\* The reply, and what it says of the key.
PostConnectReply(x, pkt) ==
  [x EXCEPT !.out = Append(@, [type |-> "crep", src |-> pkt.src, target |-> x.sess,
                               start |-> x.p.match, cseq |-> pkt.cseq, ok |-> pkt.key]),
            !.took = IF pkt.key THEN @ \cup {<<x.sess, pkt.src>>} ELSE @]

\* Mutant of ProcessRecvConnectRequest: every request restarts the sequence numbers.
ProcessRecvConnectRequestResets(x0, pkt) ==
  LET x == [x0 EXCEPT !.p.known = TRUE]
      y == IF x.p.back \notin {pkt.src, NONE} THEN PartnerCleanup(x, 0) ELSE x
      new == y.p.true # pkt.src
  IN PostConnectReply(
       [y EXCEPT !.p.match = SeqnumReset(@), !.p.frag = SeqnumReset(@),
                 !.p.send = IF new THEN pkt.start ELSE @,
                 !.p.acked = IF new THEN pkt.start ELSE @,
                 !.p.true = pkt.src, !.p.back = pkt.src], pkt)

\* omx__process_recv_connect_request, whatever the key.
ProcessRecvConnectRequest(x0, pkt) ==
  LET x == [x0 EXCEPT !.p.known = TRUE]
      y == IF x.p.back \notin {pkt.src, NONE} THEN PartnerCleanup(x, 0) ELSE x
      z == IF x.p.back = pkt.src THEN x
           ELSE [y EXCEPT !.p.match = SeqnumReset(@), !.p.frag = SeqnumReset(@)]
      new == z.p.true # pkt.src
  IN PostConnectReply(
       [z EXCEPT !.p.send = IF new THEN pkt.start ELSE @,
                 !.p.acked = IF new THEN pkt.start ELSE @,
                 !.p.true = pkt.src, !.p.back = pkt.src], pkt)
-----------------------------------------------------------------------------
\* Messages, acks and nacks

\* A message carries the session it was allocated for and the current ack.
PostIsend(x, req) ==
  [x EXCEPT !.out = Append(@, [type |-> "msg", session |-> req.to, seq |-> req.seq,
                               piggyack |-> x.p.frag, from |-> x.sess, m |-> req.m]),
            !.p.need = "no"]

SetupIsend(x) ==
  LET to == x.p.true
      req == [seq |-> x.p.send, m |-> x.sent[to] + 1, to |-> to, resends |-> 1,
              mutual |-> x.p.back = to]
  IN [PostIsend(x, req) EXCEPT !.p.send = Increase(@), !.nonacked = Append(@, req),
                               !.sent[to] = @ + 1, !.sends = @ + 1]


\* omx__handle_ack
HandleAck(x, ack) ==
  LET new == Offset(ack, x.p.acked)
      covered(req) == Offset(req.seq, x.p.acked) < new
      stop == SelectInSeq(x.nonacked, LAMBDA req : ~covered(req))
      nr == IF stop = 0 THEN Len(x.nonacked) ELSE stop - 1
  IN IF new = 0 \/ new > Offset(x.p.send, x.p.acked) THEN x
     ELSE [x EXCEPT !.nonacked = SubSeq(@, nr + 1, Len(@)), !.p.acked = ack,
                    !.ok = @ \cup {[m |-> x.nonacked[i].m, to |-> x.nonacked[i].to,
                                    mutual |-> x.nonacked[i].mutual] : i \in 1..nr}]

\* omx__handle_liback
HandleLiback(x, pkt) ==
  IF ~x.p.known \/ pkt.ack.ses # x.p.send.ses \/ pkt.acknum <= x.p.racknum THEN x
  ELSE HandleAck([x EXCEPT !.p.racknum = pkt.acknum], pkt.ack)

\* omx__handle_nack: a send with this sequence number, or else the oldest connect.
HandleNack(x, pkt) ==
  LET i == SelectInSeq(x.nonacked, LAMBDA req : pkt.seq = req.seq)
  IN IF ~x.p.known THEN x
     ELSE IF pkt.seq.ses = x.p.send.ses /\ i > 0
            THEN [x EXCEPT !.nonacked = RemoveAt(@, i)]
     ELSE IF x.creqs # <<>> THEN ConnectComplete(x, 1, NONE)
     ELSE x

NeedAckDelayed(x) == [x EXCEPT !.p.need = IF @ = "no" THEN "delayed" ELSE @]

Matched(x, pkt) ==
  NeedAckDelayed([x EXCEPT !.log[x.sess][pkt.from] = Append(@, pkt.m),
                           !.p.match = Increase(@), !.p.frag = Increase(x.p.match)])

\* A message is matched, then the early one that follows it: how far the loop over
\* early packets goes is fixed before it starts.
MatchNext(x, pkt) ==
  LET y == Matched(x, pkt)
      due == {q \in x.early : Offset(q.seq, x.p.match) <= 1}
      next == {q \in due : q.seq = y.p.match}
      z == [y EXCEPT !.early = @ \ due]
  IN IF next = {} THEN z ELSE Matched(z, CHOOSE q \in next : TRUE)

\* omx__process_recv
ProcessRecv(x0, pkt) ==
  LET x == HandleAck(x0, pkt.piggyack)
      index == Offset(pkt.seq, x.p.frag)
      max == Offset(x.p.match, x.p.frag)
  IN CASE ~x0.p.known \/ pkt.seq.ses # x0.p.frag.ses \/ pkt.piggyack.ses # x0.p.send.ses -> x0
       [] OTHER ->
            IF index <= max
              THEN IF pkt.seq = x.p.match THEN MatchNext(x, pkt) ELSE x
            ELSE IF index <= max + EARLY_MAX
              THEN IF \E q \in x.early : q.seq = pkt.seq THEN x
                   ELSE [x EXCEPT !.early = @ \cup {pkt}]
            ELSE IF index = SEQNUMS - 1 THEN [x EXCEPT !.p.need = "immediate"]
            ELSE x

\* omx__submit_send_liback
SubmitLiback(x) ==
  [x EXCEPT !.out = Append(@, [type |-> "ack", session |-> x.p.back, ack |-> x.p.frag,
                               acknum |-> x.p.sacknum + 1]),
            !.p.sacknum = @ + 1, !.p.need = "no"]

\* What the driver hands to the library: nothing for a closed endpoint, no message and
\* no ack of another session.  It nacks connect packets with sequence number 0.
Nack(x, seq) == [x EXCEPT !.out = Append(@, [type |-> "nack", seq |-> seq])]
Delivered(x, pkt) ==
  LET closed == x.sess = NONE
  IN CASE pkt.type = "creq" -> IF closed THEN Nack(x, Num(0, 0))
                               ELSE ProcessRecvConnectRequest(x, pkt)
       [] pkt.type = "crep" -> IF closed THEN Nack(x, Num(0, 0))
                               ELSE ProcessRecvConnectReply(x, pkt)
       [] pkt.type = "msg"  -> IF closed \/ pkt.session # x.sess THEN Nack(x, pkt.seq)
                               ELSE ProcessRecv(x, pkt)
       [] pkt.type = "ack"  -> IF closed \/ pkt.session # x.sess THEN x
                               ELSE HandleLiback(x, pkt)
       [] pkt.type = "nack" -> IF closed THEN x ELSE HandleNack(x, pkt)
-----------------------------------------------------------------------------
\* Node n becomes x, the packets that it posted go on their way after rest.
Transmit(n, x, mine) ==
  LET room(c) == SubSeq(c, 1, IF Len(c) < NETMAX THEN Len(c) ELSE NETMAX)
  IN /\ e' = [e EXCEPT ![n] = [x EXCEPT !.out = <<>>]]
     /\ chan' = [chan EXCEPT ![n] = mine, ![Peer(n)] = room(@ \o x.out)]
     /\ UNCHANGED <<cf, losses>>

Becomes(n, x) == Transmit(n, x, chan[n])
Open(n) == e[n].sess # NONE

\* omx_connect and omx_iconnect
Connect(n) ==
  /\ Open(n) /\ e[n].issued < cf.connects[n]
  /\ \E key \in cf.keys : Becomes(n, ConnectCommon(e[n], key))

\* omx_cancel, and omx_connect when its timeout expires: the request is dequeued.
Abandon(n) ==
  /\ Open(n) /\ cf.abandon
  /\ \E i \in DOMAIN e[n].creqs : Becomes(n, [e[n] EXCEPT !.creqs = RemoveAt(@, i)])

\* Mutant of ResendConnect: the request is posted for ever.
ResendConnectForever(n) ==
  \E i \in DOMAIN e[n].creqs :
    Becomes(n, PostConnectRequest(e[n], e[n].creqs[i]))

\* omx__process_resend_requests: a connect request that was not answered in time.
ResendConnect(n) ==
  \E i \in DOMAIN e[n].creqs :
    LET req == e[n].creqs[i]
    IN /\ req.resends <= RESENDS_MAX \/ cf.timeouts
       /\ Becomes(n, IF req.resends > RESENDS_MAX THEN PartnerCleanup(e[n], 1)
                     ELSE PostConnectRequest([e[n] EXCEPT !.creqs[i].resends = @ + 1], req))

\* omx_isend, to an incarnation that the application has connected to; when it answers
\* also to one that has only connected to us.
Isend(n) ==
  /\ Open(n) /\ e[n].sends < cf.sends[n]
  /\ e[n].p.true # NONE /\ (e[n].p.true \in e[n].joined \/ cf.answers)
  /\ Becomes(n, SetupIsend(e[n]))

\* omx__process_resend_requests: a message that was not acked in time.
ResendMessage(n) ==
  \E i \in DOMAIN e[n].nonacked :
    LET req == e[n].nonacked[i]
    IN /\ req.resends <= RESENDS_MAX \/ cf.timeouts
       /\ Becomes(n, IF req.resends > RESENDS_MAX THEN PartnerCleanup(e[n], 1)
                     ELSE PostIsend([e[n] EXCEPT !.nonacked[i].resends = @ + 1], req))

\* omx__process_partners_to_ack
SendLiback(n) == Open(n) /\ e[n].p.need # "no" /\ Becomes(n, SubmitLiback(e[n]))

\* omx_disconnect
Disconnect(n) ==
  /\ Open(n) /\ cf.disconnect /\ e[n].p.true \in e[n].joined
  /\ Becomes(n, PartnerCleanup(e[n], 2))

\* omx_close_endpoint flushes delayed acks and destroys everything.
CloseEndpoint(n) ==
  LET x == IF e[n].p.need = "delayed" THEN SubmitLiback(e[n]) ELSE e[n]
  IN /\ Open(n) /\ e[n].last < cf.opens[n]
     /\ Becomes(n, [x EXCEPT !.sess = NONE, !.p = NoPartner, !.creqs = <<>>,
                             !.nonacked = <<>>, !.early = {}, !.ok = {}, !.joined = {},
                             !.sent = [t \in Sess |-> 0]])

\* omx_open_endpoint: the driver gives a session id of its own.  The process that opens
\* the endpoint again may come at any time.
OpenEndpoint(n) ==
  /\ ~Open(n)
  /\ Becomes(n, [e[n] EXCEPT !.sess = e[n].last + 1, !.last = @ + 1])

\* A packet reaches the host of n, or is lost on its way.
Recv(n) ==
  /\ chan[n] # <<>>
  /\ Transmit(n, Delivered(e[n], Head(chan[n])), Tail(chan[n]))

Lose(n) ==
  /\ chan[n] # <<>> /\ losses < cf.losses
  /\ losses' = losses + 1
  /\ chan' = [chan EXCEPT ![n] = Tail(@)]
  /\ UNCHANGED <<cf, e>>

CNext ==
  \E n \in Nodes :
    \/ Connect(n) \/ Abandon(n) \/ ResendConnect(n) \/ Isend(n) \/ ResendMessage(n)
    \/ SendLiback(n) \/ Disconnect(n) \/ CloseEndpoint(n) \/ OpenEndpoint(n)
    \/ Recv(n) \/ Lose(n)

CSpec == CInit /\ [][CNext]_cvars

\* Every progress call looks at the connect requests to resend.  Nothing is assumed of
\* the network nor of the other endpoint.
CFairSpec == CSpec /\ \A n \in Nodes : WF_cvars(ResendConnect(n))
-----------------------------------------------------------------------------
Seqs == [ses : 0..SESNUMS-1, num : 0..SEQNUMS-1]

\* Sequence and session numbers keep their width, and a connect request is never
\* resent more often than it may.
CTypeOK ==
  \A n \in Nodes :
    LET x == e[n]
    IN /\ x.sess \in 0..SESSIONS /\ x.last \in Sess
       /\ x.p.true \in 0..SESSIONS /\ x.p.back \in 0..SESSIONS
       /\ {x.p.send, x.p.acked, x.p.match, x.p.frag} \subseteq Seqs
       /\ x.p.need \in {"no", "delayed", "immediate"}
       /\ \A i \in DOMAIN x.creqs : x.creqs[i].resends \in 1..RESENDS_MAX+1
       /\ x.out = <<>> /\ Len(chan[n]) <= NETMAX

\* The two session ids of a partner never name two incarnations: one that changed was
\* cleaned up first.
SessionsAgree == \A n \in Nodes : e[n].p.back \in {NONE, e[n].p.true}

\* "true_session_id being set implies that back_session_id is set to the same."
TrueImpliesBack == \A n \in Nodes : e[n].p.true # NONE => e[n].p.back = e[n].p.true

\* Incarnation s of n and incarnation t of its peer never cleaned up each other.
Intact(n, s, t) == <<s, t>> \notin e[n].dropped /\ <<t, s>> \notin e[Peer(n)].dropped

\* What an endpoint matches of another one is all that it sent, once and in order, and
\* nothing of an earlier incarnation, until one of them gives the other up.
DeliveredInOrder ==
  \A n \in Nodes : \A s, t \in Sess :
    Intact(n, s, t) => \A i \in DOMAIN e[n].log[s][t] : e[n].log[s][t][i] = i


\* Two endpoints that are connected to each other agree on the sequence numbers: the
\* next message to match is one that the sender has not seen acked, and neither side
\* takes the numbers of the other for those of an obsolete session.
ConnectedAgree ==
  \A n \in Nodes :
    LET x == e[n]  y == e[Peer(n)]
    IN /\ Open(n) /\ Open(Peer(n)) /\ Intact(n, x.sess, y.sess)
       /\ x.p.true = y.sess /\ y.p.back = x.sess
       => /\ x.p.send.ses = y.p.match.ses /\ y.p.match.ses = y.p.frag.ses
          /\ Offset(y.p.match, x.p.acked) <= Offset(x.p.send, x.p.acked)

\* A connect that succeeded was let in, with the right key, by the incarnation whose
\* address it returns, and for this incarnation of the caller.
JoinedWasLetIn ==
  \A n \in Nodes : \A t \in e[n].joined : <<t, e[n].sess>> \in e[Peer(n)].took

\* A connect request of n that omx__connect_complete has not completed yet.
Pending(n, id) == \E i \in DOMAIN e[n].creqs : e[n].creqs[i].id = id

\* Every connect request completes: with an error once it was resent too often,
\* whatever the network and the other endpoint do (in the configurations that let
\* requests time out).
EveryConnectCompletes ==
  \A n \in Nodes : \A id \in 1..2 : cf.timeouts /\ Pending(n, id) ~> ~Pending(n, id)

\* The session ids and sequence numbers that two endpoints keep of each other are of the
\* same incarnations and agree, through connects both ways, disconnects, timeouts and
\* endpoints that are closed and opened again (omx_partner.c).
SessionsExact == CTypeOK /\ SessionsAgree /\ ConnectedAgree /\ JoinedWasLetIn
=============================================================================
