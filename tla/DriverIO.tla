------------------------------- MODULE DriverIO -------------------------------
(***************************************************************************)
(* Messages between endpoints through the driver: the send ioctls          *)
(* (omx_send.c), the receive handlers (omx_recv.c) and the path between    *)
(* endpoints of the same host (omx_shared.c), over the peer tables of      *)
(* PeerTable.                                                              *)
(*                                                                         *)
(* A packet names its target by address, endpoint index and session, and   *)
(* its source by the reverse index of the sending interface.  Payloads and *)
(* lengths are left out: an ioctl that refuses its arguments or finds no   *)
(* memory does nothing.  An event queue may always be full; the last event *)
(* reported is kept in told, with where it came from.                      *)
(***************************************************************************)
EXTENDS PeerTable, TLC

\* cf.eps: endpoint indexes of an interface; cf.types: the messages that are sent;
\* cf.opens and cf.sends: bounds.
VARIABLES ep,          \* the session of each endpoint, 0 when it is closed
          opens,       \* sessions given so far; they are random and never equal
          sent,        \* the endpoints that sent the messages 1, 2, ...
          owed,        \* completion events of medium fragments and pulls
          told         \* the last event reported, or NULL

vars == <<pvars, ep, opens, sent, owed, told>>

IOInit ==
  /\ PeerInit
  /\ ep = [a \in Addrs |-> [k \in cf.eps |-> 0]]
  /\ opens = 0 /\ sent = <<>> /\ told = NULL
  /\ owed = [n \in 1 .. cf.sends |-> "none"]

Connects == {"connect", "connected"}

\* A command: the type of the message, the index of the peer, its endpoint and
\* session as the library knows them, and whether to use the local path.
Commands ==
  [type : cf.types, peer : Indexes, dep : cf.eps, session : 1 .. opens, shared : BOOLEAN]

\* The peer table is left alone ...
SameTable == UNCHANGED <<cf, tab, queued, busy, cleared, detached, wild>>

-----------------------------------------------------------------------------
\* An endpoint is opened on an interface, with a new session, or closed.
OpenEndpoint(h, a, k) ==
  /\ wild = "none" /\ a \in Attached(h) /\ ep[a][k] = 0 /\ opens < cf.opens
  /\ opens' = opens + 1
  /\ ep' = [ep EXCEPT ![a][k] = opens + 1]
  /\ told' = NULL
  /\ SameTable /\ UNCHANGED <<iface, net, sent, owed>>

CloseEndpoint(h, a, k) ==
  /\ wild = "none" /\ a \in Attached(h) /\ ep[a][k] # 0
  /\ ep' = [ep EXCEPT ![a][k] = 0]
  /\ told' = NULL
  /\ SameTable /\ UNCHANGED <<iface, net, opens, sent, owed>>

\* The event is reported, or dropped when the queue is full.
Notify(event) == told' \in {event, NULL}

-----------------------------------------------------------------------------
(***************************************************************************)
(* Sending command c from endpoint k of interface a of host h.             *)
(***************************************************************************)
\* omx_set_target_peer, omx_new_skb and omx_queue_xmit: packet n of the message
Packet(h, a, k, c, n) ==
  [type |-> c.type, src |-> a, dst |-> tab[h].array[c.peer], from |-> iface[a].reverse[c.peer],
   index |-> c.peer, sep |-> k, dep |-> c.dep, session |-> c.session, seq |-> Len(sent) + 1, frag |-> n]

Wire(h, a, k, c, frags) ==
  /\ tab[h].array[c.peer] # NULL
  /\ net' = Sent(net, {Packet(h, a, k, c, n) : n \in frags})
  /\ told' = NULL

\* omx_local_peer_acquire_endpoint and omx_shared_get_endpoint_or_nack_type; a
\* connect has no session to check
Local(h, i) == tab[h].array[i] \in Attached(h)
Reached(h, c) ==
  LET b == tab[h].array[c.peer]
  IN Local(h, c.peer) /\ ep[b][c.dep] # 0 /\ (c.type \in Connects \/ ep[b][c.dep] = c.session)

\* The event of a message of endpoint k of a at endpoint d of b.
SharedEvent(type, b, d, a, k, peer, c) ==
  [type |-> type, at |-> b, ep |-> d, peer |-> peer, src |-> a, sep |-> k, session |-> c.session,
   seq |-> Len(sent) + 1, shared |-> TRUE]

\* The message becomes an event of the target at once ...
SharedDeliver(h, a, k, c) ==
  Reached(h, c) /\ Notify(SharedEvent(c.type, tab[h].array[c.peer], c.dep, a, k, tab[h].index[a], c))

\* ... or the sender gets a nack, or nothing when the peer is not local or the
\* message is an acknowledgement (omx_shared_get_endpoint_or_notify_nack)
SharedRefuse(h, a, k, c) ==
  /\ ~Reached(h, c)
  /\ IF Local(h, c.peer) /\ c.type # "truc"
       THEN Notify(SharedEvent("nack", a, k, tab[h].array[c.peer], c.dep, c.peer, c))
       ELSE told' = NULL

\* The functions of the local path; those for medium messages and pulls follow.
SharedPath(h, a, k, c) == SharedDeliver(h, a, k, c) \/ SharedRefuse(h, a, k, c)
SharedRequest(h, a, k, c) == SharedPath(h, a, k, c)
SharedReply(h, a, k, c) == SharedPath(h, a, k, c)
SharedTiny(h, a, k, c) == SharedPath(h, a, k, c)
SharedSmall(h, a, k, c) == SharedPath(h, a, k, c)
SharedMediumva(h, a, k, c) == SharedPath(h, a, k, c)
SharedRndv(h, a, k, c) == SharedPath(h, a, k, c)
SharedNotify(h, a, k, c) == SharedPath(h, a, k, c)
SharedLiback(h, a, k, c) == SharedPath(h, a, k, c)

\* An ioctl of an open endpoint.
Ioctl(h, a, k) ==
  /\ wild = "none" /\ a \in Attached(h) /\ ep[a][k] # 0 /\ Len(sent) < cf.sends
  /\ sent' = Append(sent, <<a, k>>)
  /\ SameTable /\ UNCHANGED <<iface, ep, opens>>

\* A message without a completion event, as one of the sets of packets.
Message(h, a, k, c, fragss, Path(_, _, _, _)) ==
  /\ Ioctl(h, a, k)
  /\ IF c.shared THEN Path(h, a, k, c) /\ UNCHANGED net
     ELSE \E frags \in fragss : Wire(h, a, k, c, frags)
  /\ UNCHANGED owed

\* For a connect the local path is tried first, unless it is disabled, and the wire
\* is used for peers that are not local.
TryShared(h, c) == [c EXCEPT !.shared = @ /\ Local(h, c.peer)]

SendConnectRequest(h, a, k, c) ==
  c.type = "connect" /\ Message(h, a, k, TryShared(h, c), {{1}}, SharedRequest)
SendConnectReply(h, a, k, c) ==
  c.type = "connected" /\ Message(h, a, k, TryShared(h, c), {{1}}, SharedReply)
SendTiny(h, a, k, c) == c.type = "tiny" /\ Message(h, a, k, c, {{1}}, SharedTiny)
SendSmall(h, a, k, c) == c.type = "small" /\ Message(h, a, k, c, {{1}}, SharedSmall)
SendRndv(h, a, k, c) == c.type = "rndv" /\ Message(h, a, k, c, {{1}}, SharedRndv)
SendNotify(h, a, k, c) == c.type = "notify" /\ Message(h, a, k, c, {{1}}, SharedNotify)
SendLiback(h, a, k, c) == c.type = "truc" /\ Message(h, a, k, c, {{1}}, SharedLiback)

\* Of two fragments: memory may be short for the second after the first was sent.
SendMediumva(h, a, k, c) ==
  c.type = "mediumva" /\ Message(h, a, k, c, {{1}, {1, 2}}, SharedMediumva)

Owe(o) == owed' = [owed EXCEPT ![Len(sent) + 1] = o]


\* omx_shared_send_mediumsq_frag: the end of the fragment is reported at once, but
\* not when the target is wrong
SharedMediumsq(h, a, k, c) ==
  \/ SharedDeliver(h, a, k, c) /\ Owe("done")
  \/ SharedRefuse(h, a, k, c) /\ Owe("never")

\* omx_ioctl_send_mediumsq_frag: a packet that refers to pages of the send queue
\* reports the end of the fragment when it is freed, a linear packet at once
SendMediumsq(h, a, k, c) ==
  /\ c.type = "medium" /\ Ioctl(h, a, k)
  /\ IF c.shared THEN SharedMediumsq(h, a, k, c) /\ UNCHANGED net
     ELSE Wire(h, a, k, c, {1}) /\ \E o \in {"skb", "done"} : Owe(o)

\* omx_medium_frag_skb_destructor, when the device is done with the packet
FragFreed(n) ==
  /\ wild = "none" /\ owed[n] \in {"skb", "done and skb"}
  /\ owed' = [owed EXCEPT ![n] = IF @ = "skb" THEN "done" ELSE "twice"]
  /\ told' = NULL
  /\ SameTable /\ UNCHANGED <<iface, net, ep, opens, sent>>

\* omx_shared_pull: whatever happens to the copy, its end is reported
SharedPull(h, a, k, c) ==
  /\ c.type = "pull" /\ c.shared /\ Ioctl(h, a, k)
  /\ Owe("done") /\ told' = NULL /\ UNCHANGED net

-----------------------------------------------------------------------------
(***************************************************************************)
(* Receiving packet p on host h (omx_recv and the handlers).               *)
(***************************************************************************)
Taken(h, p) ==
  /\ wild = "none" /\ p \in net /\ p.dst \in Attached(h)
  /\ SameTable /\ UNCHANGED <<ep, opens, sent, owed>>

\* omx_check_recv_peer_index; the address is only compared in a debugging build
CheckPeer(h, p) == p.from # Unknown /\ tab[h].array[p.from] # NULL

\* What is reported of a packet, whose sender has index peer
Received(p, peer) ==
  [type |-> p.type, at |-> p.dst, ep |-> p.dep, peer |-> peer, src |-> p.src, sep |-> p.sep,
   session |-> p.session, seq |-> p.seq, shared |-> FALSE]

\* A mutant: the nack has the endpoints of the packet.
SendNackSame(h, p, i) ==
  net' = Sent(net \ {p}, {[p EXCEPT !.type = "nack", !.src = p.dst, !.dst = tab[h].array[i],
                                    !.from = iface[p.dst].reverse[i], !.index = i, !.frag = 1]})

\* omx_send_nack_lib, to the peer with index i
SendNack(h, p, i) ==
  net' = Sent(net \ {p}, {[p EXCEPT !.type = "nack", !.src = p.dst, !.dst = tab[h].array[i],
                                    !.from = iface[p.dst].reverse[i], !.index = i, !.frag = 1,
                                    !.sep = p.dep, !.dep = p.sep]})

Drop(p) == net' = net \ {p} /\ told' = NULL /\ UNCHANGED iface

\* The checks of every handler: the index of the peer, the endpoint, the session
Handle(h, p, nacks) ==
  /\ Taken(h, p)
  /\ IF ~CheckPeer(h, p) THEN Drop(p)
     ELSE IF ep[p.dst][p.dep] # p.session
       THEN IF nacks THEN SendNack(h, p, p.from) /\ told' = NULL /\ UNCHANGED iface ELSE Drop(p)
     ELSE net' = net \ {p} /\ Notify(Received(p, p.from)) /\ UNCHANGED iface

RecvTiny(h, p) == p.type = "tiny" /\ Handle(h, p, TRUE)
RecvSmall(h, p) == p.type = "small" /\ Handle(h, p, TRUE)
RecvMediumFrag(h, p) == p.type \in {"medium", "mediumva"} /\ Handle(h, p, TRUE)
RecvRndv(h, p) == p.type = "rndv" /\ Handle(h, p, TRUE)
RecvNotify(h, p) == p.type = "notify" /\ Handle(h, p, TRUE)
RecvTruc(h, p) == p.type = "truc" /\ Handle(h, p, FALSE)

\* omx_recv_connect: the peer is found by its address and the interface learns its
\* reverse index, even if there is no such endpoint
RecvConnect(h, p) ==
  /\ p.type \in Connects /\ Taken(h, p)
  /\ IF ~Hashed(tab[h], p.src) THEN Drop(p)
     ELSE LET i == tab[h].index[p.src]
          IN /\ iface' = SetReverse(h, p.dst, p.src, p.index)
             /\ IF ep[p.dst][p.dep] = 0
                  THEN /\ net' = Sent(net \ {p}, {[type |-> "nack", src |-> p.dst, dst |-> p.src, from |-> p.index,
                                 index |-> i, sep |-> p.dep, dep |-> p.sep, session |-> p.session,
                                 seq |-> p.seq, frag |-> 1]})
                       /\ told' = NULL
                  ELSE net' = net \ {p} /\ Notify(Received(p, i))

\* omx_recv_nack_lib: an unknown index is replaced by that of the source address;
\* there is no session to check and a nack is never answered
RecvNackLib(h, p) ==
  /\ p.type = "nack" /\ Taken(h, p)
  /\ LET i == IF CheckPeer(h, p) THEN p.from ELSE IF p.from = Unknown THEN tab[h].index[p.src] ELSE Unknown
     IN IF i = Unknown \/ ep[p.dst][p.dep] = 0 THEN Drop(p)
        ELSE net' = net \ {p} /\ Notify(Received(p, i)) /\ UNCHANGED iface

-----------------------------------------------------------------------------
\* A step of the peer tables; an interface that is detached loses its endpoints.
TableStep ==
  /\ PeerNext
  /\ ep' = [a \in Addrs |-> IF iface'[a].attached THEN ep[a] ELSE [k \in cf.eps |-> 0]]
  /\ told' = NULL
  /\ UNCHANGED <<opens, sent, owed>>

IoctlStep(h, a, k) ==
  \E c \in Commands :
    \/ SendConnectRequest(h, a, k, c) \/ SendConnectReply(h, a, k, c) \/ SendTiny(h, a, k, c)
    \/ SendSmall(h, a, k, c) \/ SendRndv(h, a, k, c)
    \/ SendNotify(h, a, k, c) \/ SendLiback(h, a, k, c) \/ SendMediumsq(h, a, k, c)
    \/ SendMediumva(h, a, k, c) \/ SharedPull(h, a, k, c)

RecvStep(h, p) ==
  \/ RecvConnect(h, p) \/ RecvTiny(h, p) \/ RecvSmall(h, p) \/ RecvMediumFrag(h, p) \/ RecvRndv(h, p)
  \/ RecvNotify(h, p) \/ RecvTruc(h, p) \/ RecvNackLib(h, p)

IONext ==
  \/ TableStep
  \/ \E h \in Hosts : \E a \in Attached(h), k \in cf.eps :
       OpenEndpoint(h, a, k) \/ CloseEndpoint(h, a, k) \/ IoctlStep(h, a, k)
  \/ \E h \in Hosts, p \in net : RecvStep(h, p)
  \/ \E n \in 1 .. cf.sends : FragFreed(n)

IOSpec == IOInit /\ [][IONext]_vars

-----------------------------------------------------------------------------
(***************************************************************************)
(* Properties.                                                             *)
(***************************************************************************)
\* The index of the peer in an event is that of the board that sent the message or
\* the nack, as long as the table was not cleared; on the wire between two boards
\* of a host it may be the index of the receiver.
SourceExact ==
  told # NULL /\ cleared[Owner(told.at)] = 0 =>
    LET board == tab[Owner(told.at)].array[told.peer]
    IN board = told.src \/ (~told.shared /\ Owner(told.src) = Owner(told.at) /\ board = told.at)

\* A message is only reported by the incarnation of an endpoint that it was meant
\* for, also when endpoints are closed and opened again and tables are cleared
\* meanwhile; a connect is for any.
SessionExact ==
  told # NULL /\ told.type \notin Connects \cup {"nack"} => ep[told.at][told.ep] = told.session

\* A nack arrives where the message came from, as long as no table was cleared,
\* except on the wire between two boards of a host.
NackToSender ==
  told # NULL /\ told.type = "nack" /\ (\A h \in Hosts : cleared[h] = 0) =>
    \/ sent[told.seq] = <<told.at, told.ep>>
    \/ ~told.shared /\ Owner(told.src) = Owner(told.at)


\* The comment of omx_shared_send_mediumsq_frag: "fill and notify the src event
\* anyway, so that the sender doesn't leak eventq slots".
CompletionAlways == \A n \in DOMAIN owed : owed[n] # "never"

\* The comment of omx_check_recv_peer_index: "peer index pointing to an invalid peer
\* should not occur unless the driver is buggy".
PeerIndexValid == told # NULL => tab[Owner(told.at)].array[told.peer] = told.src

\* The array, the hash lists and the list of peers to query agree with each other
\* through every addition, reply, clear and detach (omx_peer.c).
TablesExact == PeerTypeOK /\ TableExact /\ QueryListExact /\ ReverseExact

\* An event names where its message came from, and reaches only the endpoint that the
\* message was for (omx_recv.c, omx_shared.c).
EventsNameTheirSource == SourceExact /\ SessionExact /\ NackToSender
=============================================================================
