------------------------------ MODULE PeerTable ------------------------------
(***************************************************************************)
(* The peer tables of the drivers of several hosts (omx_peer.c): addresses *)
(* of boards and their indexes, the reverse indexes each interface keeps   *)
(* (its own index in the table of a peer), and the queries for the names   *)
(* of peers.                                                               *)
(*                                                                         *)
(* A packet names its sender by the index that the sender believes to have *)
(* in the table of the receiver.  Everything that changes a table runs     *)
(* under omx_ifaces_peers_mutex and is one step; a board address stands    *)
(* for the peer structure that is hashed under it.  Names are abstracted   *)
(* to whether one is known.                                                *)
(***************************************************************************)
EXTENDS Integers, Sequences, FiniteSets, SequencesExt

CONSTANTS Hosts, Addrs,
          Configs,     \* what a behaviour may do, see PeerInit
          PeerMax,     \* omx_peer_max
          QueueMax,    \* bound: packets waiting for the work of a host
          NULL

VARIABLES cf,          \* the configuration of this behaviour
          tab,         \* the peer table of each host
          iface,       \* its interfaces, by address
          queued,      \* host queries and replies waiting for the work
          busy,        \* the host query that the work is answering
          net,         \* packets on the wire
          cleared,     \* how often each table was cleared
          detached,    \* bound: how often interfaces were detached
          wild         \* freed memory that was used, or "none"

tvars == <<tab, queued, busy, net, cleared, detached, wild>>
pvars == <<cf, iface, tvars>>

Unknown == -1          \* OMX_UNKNOWN_REVERSE_PEER_INDEX
Indexes == 0 .. PeerMax - 1

Owner(a) == IF \E h \in Hosts : a \in cf.own[h] THEN CHOOSE h \in Hosts : a \in cf.own[h] ELSE NULL

NoTable == [array |-> [i \in Indexes |-> NULL], index |-> [a \in Addrs |-> Unknown], next |-> 0,
            full |-> FALSE, named |-> {}, query |-> <<>>, timer |-> FALSE, work |-> FALSE, magic |-> 0]
NoIface == [attached |-> FALSE, reverse |-> [i \in Indexes |-> Unknown]]

\* The table after the interfaces and the named peers of a sequence were added.
TableOf(seq) ==
  [NoTable EXCEPT !.array = [i \in Indexes |-> IF i < Len(seq) THEN seq[i + 1] ELSE NULL],
                  !.index = [a \in Addrs |-> SelectInSeq(seq, LAMBDA b : b = a) - 1],
                  !.next = Len(seq), !.named = ToSet(seq)]

\* The reverse index of interface a for the peer b with index i: that of the peer
\* for a local one; of a remote one, what was learned if cf.met.
Learned(a, b, i) ==
  CASE Owner(b) = Owner(a) -> i
    [] Owner(b) \notin {Owner(a), NULL} /\ cf.met -> SelectInSeq(cf.setup[Owner(b)], LAMBDA x : x = a) - 1
    [] OTHER -> Unknown

\* cf.own: the addresses of the interfaces of each host; cf.setup: what was added
\* to its table before, if anything (the state after omx_peers_init); cf.adds: the
\* peers that may be added, with a name or not; cf.met: whether the hosts have
\* already exchanged packets; the others are bounds.
PeerInit ==
  /\ cf \in Configs
  /\ tab = [h \in Hosts |-> TableOf(cf.setup[h])]
  /\ iface = [a \in Addrs |->
       LET g == Owner(a)
       IN IF g = NULL \/ ~Contains(cf.setup[g], a) THEN NoIface
          ELSE [attached |-> TRUE, reverse |-> [i \in Indexes |->
                  IF i >= Len(cf.setup[g]) THEN Unknown ELSE Learned(a, cf.setup[g][i + 1], i)]]]
  /\ queued = [h \in Hosts |-> <<>>]
  /\ busy = [h \in Hosts |-> NULL]
  /\ net = {}
  /\ cleared = [h \in Hosts |-> 0]
  /\ detached = 0 /\ wild = "none"

\* Packets that do not fit on the wire are lost.
Sent(old, pkts) == IF Cardinality(old \cup pkts) <= cf.packets THEN old \cup pkts ELSE old

Attached(h) == {a \in cf.own[h] : iface[a].attached}

-----------------------------------------------------------------------------
(***************************************************************************)
(* Helpers.                                                                *)
(***************************************************************************)
\* omx_init_peer_reverse_indexes, for the interfaces ifs
InitPeerReverse(ifs, h, i, local) ==
  [a \in Addrs |-> IF a \in cf.own[h] /\ ifs[a].attached
                     THEN [ifs[a] EXCEPT !.reverse[i] = IF local THEN i ELSE Unknown] ELSE ifs[a]]

\* omx_init_iface_reverse_indexes, for interface a that gets index i
InitIfaceReverse(h, a, i) ==
  LET locals == {tab[h].index[b] : b \in Attached(h)} \cup {i}
  IN [InitPeerReverse(iface, h, i, TRUE) EXCEPT ![a] =
        [attached |-> TRUE, reverse |-> [j \in Indexes |-> IF j \in locals THEN j ELSE Unknown]]]

\* The queries of omx_peer_host_query for address a of table t of host h.
HostQuery(h, t, a) ==
  {[type |-> "query", src |-> b, dst |-> a, index |-> t.index[a], magic |-> t.magic] : b \in Attached(h)}

\* A peer without a name enters the list and the timer is started ...
NeedsQuery(t, a) == [t EXCEPT !.query = Append(@, a), !.timer = @ \/ t.query = <<>>]

\* ... or leaves it, and the timer is stopped with the last one.
NoMoreQuery(t, a) ==
  LET rest == SelectSeq(t.query, LAMBDA b : b # a)
  IN [t EXCEPT !.query = rest, !.timer = @ /\ rest # <<>>]

\* A new peer gets the next index.
NewPeer(t, a) ==
  [t EXCEPT !.array[t.next] = a, !.index[a] = t.next, !.next = @ + 1]

Hashed(t, a) == t.index[a] # Unknown

-----------------------------------------------------------------------------
(***************************************************************************)
(* The operations on a table.                                              *)
(***************************************************************************)
\* omx_peer_add
PeerAdd(h, a, named) ==
  LET t == tab[h]
      local == a \in Attached(h)
      t1 == CASE local -> t
              [] ~local /\ Hashed(t, a) /\ a \notin t.named /\ named -> NoMoreQuery(t, a)
              [] ~local /\ (Hashed(t, a) => a \in t.named) /\ ~named -> NeedsQuery(t, a)
              [] OTHER -> t
      t2 == [t1 EXCEPT !.named = IF named THEN @ \cup {a} ELSE IF local THEN @ ELSE @ \ {a}]
      t3 == IF Hashed(t, a) THEN t2 ELSE NewPeer(t2, a)
  IN /\ wild = "none" /\ <<h, a, named>> \in cf.adds
     /\ IF ~Hashed(t, a) /\ t.next = PeerMax
          THEN tab' = [tab EXCEPT ![h].full = TRUE] /\ UNCHANGED <<iface, net>>
          ELSE /\ tab' = [tab EXCEPT ![h] = t3]
               /\ iface' = IF Hashed(t, a) THEN iface ELSE InitPeerReverse(iface, h, t.next, local)
               /\ net' = IF t1.query # t.query /\ ~named THEN Sent(net, HostQuery(h, t3, a)) ELSE net
     /\ UNCHANGED <<cf, queued, busy, cleared, detached, wild>>

\* omx_peers_notify_iface_attach, from omx_iface_attach
IfaceAttach(h, a) ==
  LET t == tab[h]
      t1 == IF Hashed(t, a) THEN (IF a \in t.named THEN t ELSE NoMoreQuery(t, a)) ELSE NewPeer(t, a)
  IN /\ wild = "none" /\ a \in cf.own[h] /\ ~iface[a].attached
     /\ IF ~Hashed(t, a) /\ t.next = PeerMax
          THEN tab' = [tab EXCEPT ![h].full = TRUE] /\ UNCHANGED iface
          ELSE /\ tab' = [tab EXCEPT ![h] = [t1 EXCEPT !.named = @ \cup {a}]]
               /\ iface' = InitIfaceReverse(h, a, t1.index[a])
     /\ UNCHANGED <<cf, queued, busy, net, cleared, detached, wild>>

\* omx_peers_notify_iface_detach, from omx_iface_detach: the index stays unused.
\* Packets queued for the work still point to the interface.
IfaceDetach(h, a) ==
  LET t == tab[h]
  IN /\ wild = "none" /\ iface[a].attached /\ a \in cf.own[h] /\ detached < cf.detaches
     /\ tab' = [tab EXCEPT ![h] = [t EXCEPT !.array[t.index[a]] = NULL, !.index[a] = Unknown,
                                            !.named = @ \ {a}]]
     /\ iface' = [iface EXCEPT ![a] = NoIface]
     /\ queued' = [queued EXCEPT ![h] =
          [n \in DOMAIN @ |-> IF @[n].dst = a THEN [@[n] EXCEPT !.freed = TRUE] ELSE @[n]]]
     /\ busy' = IF busy[h] # NULL /\ busy[h].dst = a THEN [busy EXCEPT ![h].freed = TRUE] ELSE busy
     /\ detached' = detached + 1
     /\ UNCHANGED <<cf, net, cleared, wild>>

\* A mutant: the local interfaces are not moved.
PeersClearStays(h) ==
  LET t == tab[h]
  IN /\ wild = "none" /\ cleared[h] < cf.clears
     /\ tab' = [tab EXCEPT ![h] =
          [t EXCEPT !.array = [i \in Indexes |-> IF t.array[i] \in Attached(h) THEN t.array[i] ELSE NULL],
                    !.index = [a \in Addrs |-> IF a \in Attached(h) THEN t.index[a] ELSE Unknown],
                    !.next = 0, !.full = FALSE, !.named = @ \cap Attached(h), !.query = <<>>, !.timer = FALSE]]
     /\ cleared' = [cleared EXCEPT ![h] = @ + 1]
     /\ UNCHANGED <<cf, iface, queued, busy, net, detached, wild>>

\* omx_peers_clear without the local interfaces, which move to the beginning
\* in the order of their indexes.  Reverse indexes are left alone.
PeersClear(h) ==
  LET t == tab[h]
      locals == SelectSeq([n \in 1 .. PeerMax |-> t.array[n - 1]], LAMBDA a : a \in Attached(h))
  IN /\ wild = "none" /\ cleared[h] < cf.clears
     /\ tab' = [tab EXCEPT ![h] =
          [t EXCEPT !.array = [i \in Indexes |-> IF i < Len(locals) THEN locals[i + 1] ELSE NULL],
                    !.index = [a \in Addrs |-> IF Contains(locals, a)
                                 THEN (CHOOSE n \in DOMAIN locals : locals[n] = a) - 1 ELSE Unknown],
                    !.next = Len(locals), !.full = Len(locals) = PeerMax,
                    !.named = @ \cap ToSet(locals), !.query = <<>>, !.timer = FALSE]]
     /\ busy' = IF busy[h] # NULL THEN [busy EXCEPT ![h].gone = TRUE] ELSE busy
     /\ cleared' = [cleared EXCEPT ![h] = @ + 1]
     /\ UNCHANGED <<cf, iface, queued, net, detached, wild>>

\* omx_peers_clear_names: the queries it sends still have the old magic
ClearNames(h) ==
  LET t == tab[h]
      lost == SelectSeq([n \in 1 .. PeerMax |-> t.array[n - 1]], LAMBDA a : a \in t.named \ Attached(h))
  IN /\ wild = "none" /\ t.magic < cf.renames
     /\ tab' = [tab EXCEPT ![h] = [t EXCEPT !.named = @ \ ToSet(lost), !.query = @ \o lost,
                                            !.timer = @ \/ (t.query = <<>> /\ lost # <<>>),
                                            !.magic = @ + 1]]
     /\ net' = Sent(net, UNION {HostQuery(h, t, lost[n]) : n \in DOMAIN lost})
     /\ UNCHANGED <<cf, iface, queued, busy, cleared, detached, wild>>

-----------------------------------------------------------------------------
(***************************************************************************)
(* Host queries and replies.                                               *)
(***************************************************************************)
\* omx_host_query_timer_handler
QueryTimer(h) ==
  /\ wild = "none" /\ tab[h].timer
  /\ tab' = [tab EXCEPT ![h].timer = FALSE, ![h].work = TRUE]
  /\ UNCHANGED <<cf, iface, queued, busy, net, cleared, detached, wild>>

\* A mutant: the timer is not started again.
QueryWorkOnce(h) ==
  /\ wild = "none" /\ tab[h].work
  /\ tab' = [tab EXCEPT ![h].work = FALSE]
  /\ net' = Sent(net, UNION {HostQuery(h, tab[h], a) : a \in ToSet(tab[h].query)})
  /\ UNCHANGED <<cf, iface, queued, busy, cleared, detached, wild>>

\* omx_host_query_workfunc
QueryWork(h) ==
  LET t == tab[h]
  IN /\ wild = "none" /\ t.work
     /\ tab' = [tab EXCEPT ![h].work = FALSE, ![h].timer = @ \/ t.query # <<>>]
     /\ net' = Sent(net, UNION {HostQuery(h, t, a) : a \in ToSet(t.query)})
     /\ UNCHANGED <<cf, iface, queued, busy, cleared, detached, wild>>

\* omx_recv_host_query and omx_recv_host_reply, which refuses an old magic:
\* the packet waits for the work, with a pointer to the interface
RecvHost(h, pkt) ==
  /\ wild = "none" /\ pkt \in net /\ pkt.type \in {"query", "reply"} /\ pkt.dst \in Attached(h)
  /\ Len(queued[h]) < QueueMax
  /\ net' = net \ {pkt}
  /\ queued' = IF pkt.type = "reply" /\ pkt.magic # tab[h].magic THEN queued
               ELSE [queued EXCEPT ![h] = Append(@, pkt @@ [freed |-> FALSE])]
  /\ UNCHANGED <<cf, tab, iface, busy, cleared, detached, wild>>

\* omx_peer_set_reverse_index: interface a learns its index in the table of b
SetReverse(h, a, b, i) == [iface EXCEPT ![a].reverse[tab[h].index[b]] = i]

First(h, type) == SelectInSeq(queued[h], LAMBDA p : p.type = type)

\* The memory of an interface or of a peer is used after its end.
Wild(kind) == wild' = kind /\ UNCHANGED <<cf, iface, tab, queued, busy, net, cleared, detached>>

\* omx_process_host_queries_and_replies_workfunc: a reply gives a name and a
\* reverse index
ProcessReply(h) ==
  LET n == First(h, "reply")
      p == queued[h][n]
      t == tab[h]
  IN /\ wild = "none" /\ busy[h] = NULL /\ n > 0
     /\ IF p.freed THEN Wild("iface")
        ELSE /\ queued' = [queued EXCEPT ![h] = RemoveAt(@, n)]
             /\ IF Hashed(t, p.src)
                  THEN /\ tab' = [tab EXCEPT ![h] =
                                    [(IF p.src \in t.named THEN t ELSE NoMoreQuery(t, p.src))
                                       EXCEPT !.named = @ \cup {p.src}]]
                       /\ iface' = SetReverse(h, p.dst, p.src, p.index)
                  ELSE UNCHANGED <<tab, iface>>
             /\ UNCHANGED <<cf, busy, net, cleared, detached, wild>>

\* ... a query gives a reverse index ...
ProcessQuery(h) ==
  LET n == First(h, "query")
      p == queued[h][n]
  IN /\ wild = "none" /\ busy[h] = NULL /\ n > 0
     /\ IF p.freed THEN Wild("iface")
        ELSE /\ queued' = [queued EXCEPT ![h] = RemoveAt(@, n)]
             /\ IF Hashed(tab[h], p.src)
                  THEN /\ iface' = SetReverse(h, p.dst, p.src, p.index)
                       /\ busy' = [busy EXCEPT ![h] = p @@ [gone |-> FALSE]]
                  ELSE UNCHANGED <<iface, busy>>
             /\ UNCHANGED <<cf, tab, net, cleared, detached, wild>>

\* ... and is answered after the mutex was released, when the peer and the
\* interface may be gone
AnswerQuery(h) ==
  LET p == busy[h]
  IN /\ wild = "none" /\ p # NULL
     /\ IF p.freed THEN Wild("iface")
        ELSE IF p.gone THEN Wild("peer")
        ELSE /\ net' = Sent(net, {[type |-> "reply", src |-> p.dst, dst |-> p.src,
                                   index |-> tab[h].index[p.src], magic |-> p.magic]})
             /\ busy' = [busy EXCEPT ![h] = NULL]
             /\ UNCHANGED <<cf, tab, iface, queued, cleared, detached, wild>>

\* The network loses a packet, or delivers it where no interface takes it.
Lose(pkt) ==
  /\ wild = "none" /\ pkt \in net
  /\ net' = net \ {pkt}
  /\ UNCHANGED <<cf, tab, iface, queued, busy, cleared, detached, wild>>

HostStep(h) ==
  \/ \E a \in Addrs : (\E named \in BOOLEAN : PeerAdd(h, a, named)) \/ IfaceAttach(h, a) \/ IfaceDetach(h, a)
  \/ PeersClear(h) \/ ClearNames(h) \/ QueryTimer(h) \/ QueryWork(h)
  \/ \E pkt \in net : RecvHost(h, pkt)
  \/ ProcessReply(h) \/ ProcessQuery(h) \/ AnswerQuery(h)

PeerNext == (\E h \in Hosts : HostStep(h)) \/ \E pkt \in net : Lose(pkt)

PeerSpec == PeerInit /\ [][PeerNext]_pvars

-----------------------------------------------------------------------------
(***************************************************************************)
(* Properties.                                                             *)
(***************************************************************************)
\* Indexes and counters stay within the table.
PeerTypeOK ==
  \A h \in Hosts :
    /\ tab[h].next \in 0 .. PeerMax
    /\ \A a \in Addrs : tab[h].index[a] \in Indexes \cup {Unknown}
    /\ \A i \in Indexes : tab[h].array[i] \in Addrs \cup {NULL}
    /\ \A a \in Addrs, i \in Indexes : iface[a].reverse[i] \in Indexes \cup {Unknown}

\* The array and the hash lists hold the same peers, each below next_nr, and
\* every attached interface is among them; the table is reported as full only
\* when there is no index left.
TableExact ==
  \A h \in Hosts :
    LET t == tab[h]
    IN /\ \A a \in Addrs : Hashed(t, a) => t.index[a] < t.next /\ t.array[t.index[a]] = a
       /\ \A i \in Indexes : t.array[i] # NULL => t.index[t.array[i]] = i
       /\ \A a \in Attached(h) : Hashed(t, a) /\ a \in t.named
       /\ t.full => t.next = PeerMax

\* The list of omx_host_query_peer_list holds exactly the peers without a name,
\* each once: no entry is linked twice, no entry of a freed peer stays linked.
QueryListExact ==
  \A h \in Hosts :
    /\ IsInjective(tab[h].query)
    /\ ToSet(tab[h].query) = {a \in Addrs : Hashed(tab[h], a)} \ tab[h].named

\* As long as a peer has no name, the timer is pending or its work is about to
\* run: queries are repeated until they are answered, whatever is lost.
QueriesGoOn == \A h \in Hosts : tab[h].query # <<>> => tab[h].timer \/ tab[h].work

\* What an interface believes to be its index in the table of a remote peer
\* leads back to it, or to nobody, as long as that table was not cleared: the
\* indexes of detached interfaces are never given to others.  For an interface
\* of the same host it may also be the index of the peer itself.
ReverseExact ==
  \A g, h \in Hosts : \A a \in Attached(h), i \in Indexes :
    LET b == tab[h].array[i]
        r == iface[a].reverse[i]
    IN (b # NULL /\ r # Unknown /\ Owner(b) = g /\ cleared[g] = 0)
         => tab[g].array[r] \in {a, NULL} \cup (IF g = h THEN {b} ELSE {})

\* The comment of reverse_peer_indexes: "our index in the remote peer tables, or
\* OMX_UNKNOWN_REVERSE_PEER_INDEX".
ReverseIsOurs ==
  \A h \in Hosts : \A a \in Attached(h), i \in Indexes :
    LET b == tab[h].array[i]
        r == iface[a].reverse[i]
    IN (b # NULL /\ r # Unknown /\ b \in Attached(Owner(b))) => tab[Owner(b)].array[r] = a
=============================================================================
