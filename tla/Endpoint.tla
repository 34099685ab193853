------------------------------ MODULE Endpoint ------------------------------
(***************************************************************************)
(* The life of endpoints and interfaces in the driver (omx_dev.c,          *)
(* omx_iface.c).                                                           *)
(*                                                                         *)
(* A file descriptor owns an endpoint structure.  An ioctl opens it: its   *)
(* resources are allocated and it is attached to an interface, where       *)
(* bottom halves find it.  Closing the file detaches it; detaching an      *)
(* interface by force closes the endpoints of others.  Endpoints and       *)
(* interfaces are reference counted, their tables are read under RCU, and  *)
(* each interface has a mutex for its table.                               *)
(*                                                                         *)
(* A step of this module is what a context does between two points where   *)
(* another one may come in: a lock, a read section of RCU, the end of a    *)
(* grace period.  Touching freed memory ends the behaviour (wild).         *)
(***************************************************************************)
EXTENDS Integers, FiniteSets

CONSTANTS Files,      \* file descriptors, each with the endpoint structure it points to
          Tasks,      \* threads of applications
          BHs,        \* bottom halves
          Ifaces,     \* memory for interface structures
          Indexes,    \* endpoint indexes of an interface
          Admin,      \* who attaches and detaches, under omx_ifaces_peers_lock
          NULL

VARIABLES file,       \* whether a file is open
          ep,         \* the endpoint structure of each file
          iface,      \* the interface structures
          board,      \* omx_ifaces[0]
          peer,       \* the interface behind its entry of omx_peer_array
          pr,         \* what each context is doing
          packets,    \* whether omx_pt is registered: bottom halves may start
          up,         \* whether the network device is up
          wild        \* which freed memory was used, or "none"

evars == <<file, ep, iface, board, peer, pr, packets, up, wild>>

Procs == Tasks \cup BHs \cup {Admin}

NoEp == [live |-> FALSE, status |-> "FREE", refs |-> 0, iface |-> NULL, index |-> NULL,
         resources |-> FALSE, down |-> FALSE, removed |-> FALSE, kept |-> 0, work |-> FALSE]
NoIface == [live |-> FALSE, status |-> "OK", refs |-> 0, nr |-> 0, mutex |-> NULL,
            endpoints |-> [k \in Indexes |-> NULL]]
Idle == [pc |-> "idle", e |-> NULL, d |-> NULL, i |-> NULL, index |-> NULL,
         force |-> FALSE, seen |-> TRUE, todo |-> {}, gp |-> {}]

\* omx_net_init
EpInit ==
  /\ file = [f \in Files |-> FALSE]
  /\ ep = [f \in Files |-> NoEp]
  /\ iface = [i \in Ifaces |-> NoIface]
  /\ board = NULL /\ peer = NULL
  /\ pr = [p \in Procs |-> Idle]
  /\ packets = TRUE /\ up \in BOOLEAN /\ wild = "none"

-----------------------------------------------------------------------------
(***************************************************************************)
(* RCU and references.                                                     *)
(***************************************************************************)
\* Contexts inside a read section.
Readers == {p \in Procs : pr[p].pc \in {"find", "slook", "get", "check"}}

\* p goes on with rec; a p that leaves its read section ends the wait of
\* those who started synchronize_rcu while it was inside.
Go(p, rec) ==
  pr' = [q \in Procs |-> IF q = p THEN rec ELSE [pr[q] EXCEPT !.gp = @ \ {p}]]

\* ... without leaving a read section.
Stay(p, rec) == pr' = [pr EXCEPT ![p] = rec]

\* __omx_iface_last_release: the structure is freed with the last reference
IfacePut(ifs, i) ==
  IF ifs[i].refs > 1 THEN [ifs EXCEPT ![i].refs = @ - 1] ELSE [ifs EXCEPT ![i] = NoIface]

\* __omx_endpoint_last_release: the interface is released at once, the
\* resources and the structure by a work when the caller cannot sleep
EpPut(f, x, ifs, interrupt) ==
  IF x.refs > 1
    THEN /\ ep' = [ep EXCEPT ![f] = [x EXCEPT !.refs = @ - 1]]
         /\ iface' = ifs
    ELSE /\ ep' = [ep EXCEPT ![f] = IF interrupt
                     THEN [x EXCEPT !.refs = 0, !.iface = NULL, !.work = TRUE] ELSE NoEp]
         /\ iface' = IfacePut(ifs, x.iface)

\* omx_endpoint_destroy_workfunc and omx_endpoint_free_resources
DestroyWork(f) ==
  /\ wild = "none" /\ ep[f].work
  /\ ep' = [ep EXCEPT ![f] = NoEp]
  /\ UNCHANGED <<file, iface, board, peer, pr, packets, up, wild>>

\* A context uses memory that was freed.
Wild(kind) == wild' = kind /\ UNCHANGED <<file, ep, iface, board, peer, pr, packets, up>>

-----------------------------------------------------------------------------
(***************************************************************************)
(* Opening.                                                                *)
(***************************************************************************)
\* omx_miscdev_open
MiscdevOpen(f) ==
  /\ wild = "none" /\ ~file[f] /\ ~ep[f].live
  /\ file' = [file EXCEPT ![f] = TRUE]
  /\ ep' = [ep EXCEPT ![f] = [NoEp EXCEPT !.live = TRUE, !.refs = 1]]
  /\ UNCHANGED <<iface, board, peer, pr, packets, up, wild>>

\* omx_endpoint_open: the endpoint is marked as initializing
Open(t, f, k) ==
  /\ wild = "none" /\ pr[t].pc = "idle" /\ file[f]
  /\ IF ~ep[f].live THEN Wild("file")
     ELSE /\ ep[f].status = "FREE"
          /\ ep' = [ep EXCEPT ![f].status = "INITIALIZING"]
          /\ Stay(t, [Idle EXCEPT !.pc = "alloc", !.e = f, !.index = k])
          /\ UNCHANGED <<file, iface, board, peer, packets, up, wild>>

\* omx_endpoint_alloc_resources, which may fail and leaves nothing behind then
AllocResources(t) ==
  /\ wild = "none" /\ pr[t].pc = "alloc"
  /\ \/ /\ ep' = [ep EXCEPT ![pr[t].e].resources = TRUE]
        /\ Stay(t, [pr[t] EXCEPT !.pc = "look"])
     \/ /\ ep' = [ep EXCEPT ![pr[t].e].status = "FREE"]
        /\ Stay(t, Idle)
  /\ UNCHANGED <<file, iface, board, peer, packets, up, wild>>

\* omx_iface_attach_endpoint: the interface is looked up under RCU ...
AttachLook(t) ==
  /\ wild = "none" /\ pr[t].pc = "look"
  /\ Stay(t, [pr[t] EXCEPT !.pc = "find", !.i = board])
  /\ UNCHANGED <<file, ep, iface, board, peer, packets, up, wild>>

\* A mutant: the resources of an endpoint that cannot be attached are leaked.
OpenFailsLeaks(t) == ep' = [ep EXCEPT ![pr[t].e].status = "FREE"]

\* The open fails: resources are released and the endpoint may be opened again.
OpenFails(t) == ep' = [ep EXCEPT ![pr[t].e] = [@ EXCEPT !.resources = FALSE, !.status = "FREE"]]

\* ... acquired if it is not closing ...
AttachFind(t) ==
  LET i == pr[t].i
  IN /\ wild = "none" /\ pr[t].pc = "find"
     /\ IF i # NULL /\ ~iface[i].live THEN Wild("iface")
        ELSE /\ IF i = NULL \/ iface[i].status # "OK"
                  THEN OpenFails(t) /\ Go(t, Idle) /\ UNCHANGED iface
                  ELSE /\ iface' = [iface EXCEPT ![i].refs = @ + 1]
                       /\ Go(t, [pr[t] EXCEPT !.pc = "attach"])
                       /\ UNCHANGED ep
             /\ UNCHANGED <<file, board, peer, packets, up, wild>>

\* ... and the endpoint is put in its table, with the mutex held.  The status
\* of the interface is not looked at again.
Attach(t) ==
  LET i == pr[t].i
      f == pr[t].e
      k == pr[t].index
  IN /\ wild = "none" /\ pr[t].pc = "attach" /\ iface[i].mutex = NULL
     /\ IF iface[i].endpoints[k] # NULL
          THEN OpenFails(t) /\ iface' = IfacePut(iface, i) /\ Stay(t, Idle)
          ELSE /\ iface' = [iface EXCEPT ![i].endpoints[k] = f, ![i].nr = @ + 1]
               /\ ep' = [ep EXCEPT ![f] = [@ EXCEPT !.iface = i, !.index = k, !.status = "OK"]]
               /\ Stay(t, [pr[t] EXCEPT !.pc = "flags"])
     /\ UNCHANGED <<file, board, peer, packets, up, wild>>

\* The end of omx_endpoint_open reads the state of the device ...
OpenFlags(t) ==
  /\ wild = "none" /\ pr[t].pc = "flags"
  /\ IF ~ep[pr[t].e].live THEN Wild("file")
     ELSE /\ Stay(t, [pr[t] EXCEPT !.pc = "setdown", !.seen = up])
          /\ UNCHANGED <<file, ep, iface, board, peer, packets, up, wild>>

\* ... and reports that it was down.
OpenSetDown(t) ==
  /\ wild = "none" /\ pr[t].pc = "setdown"
  /\ IF ~ep[pr[t].e].live THEN Wild("file")
     ELSE /\ ep' = [ep EXCEPT ![pr[t].e].down = @ \/ ~pr[t].seen]
          /\ Stay(t, Idle)
          /\ UNCHANGED <<file, iface, board, peer, packets, up, wild>>

-----------------------------------------------------------------------------
(***************************************************************************)
(* Using and closing.                                                      *)
(***************************************************************************)
\* omx_miscdev_ioctl, for the commands on an endpoint (and omx_miscdev_mmap):
\* the status is checked, no reference is taken
Ioctl(t, f) ==
  /\ wild = "none" /\ pr[t].pc = "idle" /\ file[f]
  /\ IF ~ep[f].live THEN Wild("file")
     ELSE /\ ep[f].status = "OK"
          /\ Stay(t, [Idle EXCEPT !.pc = "ioctl", !.e = f])
          /\ UNCHANGED <<file, ep, iface, board, peer, packets, up, wild>>

\* A send to a local peer, omx_local_peer_acquire_endpoint: the interface is
\* found through the peer table, under RCU
SharedFind(t) ==
  /\ wild = "none" /\ pr[t].pc = "ioctl" /\ peer # NULL
  /\ IF ~ep[pr[t].e].live THEN Wild("file")
     ELSE /\ Stay(t, [pr[t] EXCEPT !.pc = "slook", !.i = peer])
          /\ UNCHANGED <<file, ep, iface, board, peer, packets, up, wild>>

\* The handler still uses the endpoint.
IoctlEnd(t) ==
  /\ wild = "none" /\ pr[t].pc = "ioctl"
  /\ IF ~ep[pr[t].e].live THEN Wild("file")
     ELSE Stay(t, Idle) /\ UNCHANGED <<file, ep, iface, board, peer, packets, up, wild>>

\* omx_miscdev_release, when no system call on the file is left, and the first
\* part of omx_endpoint_close
Release(t, f) ==
  /\ wild = "none" /\ pr[t].pc = "idle" /\ file[f]
  /\ \A u \in Tasks : pr[u].e = f => pr[u].pc \in {"idle", "detach", "sync", "put"}
  /\ IF ~ep[f].live THEN Wild("file")
     ELSE /\ file' = [file EXCEPT ![f] = FALSE]
          /\ CASE ep[f].status = "FREE" ->
                    ep' = [ep EXCEPT ![f] = NoEp] /\ UNCHANGED pr
               [] ep[f].status = "OK" ->
                    /\ ep' = [ep EXCEPT ![f].status = "CLOSING"]
                    /\ Stay(t, [Idle EXCEPT !.pc = "detach", !.e = f])
               [] OTHER -> UNCHANGED <<ep, pr>>
          /\ UNCHANGED <<iface, board, peer, packets, up, wild>>

\* A mutant: the grace period is not waited for.
DetachNoSync(t) ==
  LET i == ep[pr[t].e].iface
  IN /\ wild = "none" /\ pr[t].pc = "detach" /\ iface[i].mutex = NULL
     /\ iface' = [iface EXCEPT ![i].mutex = t, ![i].endpoints[ep[pr[t].e].index] = NULL]
     /\ Stay(t, [pr[t] EXCEPT !.pc = "sync"])
     /\ UNCHANGED <<file, ep, board, peer, packets, up, wild>>

\* omx_iface_detach_endpoint: the endpoint leaves the table ...
Detach(t) ==
  LET i == ep[pr[t].e].iface
  IN /\ wild = "none" /\ pr[t].pc = "detach" /\ iface[i].mutex = NULL
     /\ iface' = [iface EXCEPT ![i].mutex = t, ![i].endpoints[ep[pr[t].e].index] = NULL]
     /\ Stay(t, [pr[t] EXCEPT !.pc = "sync", !.gp = Readers])
     /\ UNCHANGED <<file, ep, board, peer, packets, up, wild>>

\* ... and synchronize_rcu returns
DetachSync(t) ==
  LET i == ep[pr[t].e].iface
  IN /\ wild = "none" /\ pr[t].pc = "sync" /\ pr[t].gp = {}
     /\ iface' = [iface EXCEPT ![i].nr = @ - 1, ![i].mutex = NULL]
     /\ Stay(t, [pr[t] EXCEPT !.pc = "put"])
     /\ UNCHANGED <<file, ep, board, peer, packets, up, wild>>

\* The end of omx_endpoint_close releases the reference of the file.
ClosePut(t) ==
  /\ wild = "none" /\ pr[t].pc = "put"
  /\ EpPut(pr[t].e, ep[pr[t].e], iface, FALSE)
  /\ Stay(t, Idle)
  /\ UNCHANGED <<file, board, peer, packets, up, wild>>

-----------------------------------------------------------------------------
(***************************************************************************)
(* Acquiring the endpoint a message is for.  A bottom half starts from the *)
(* interface of the packet (omx_iface_find_by_ifp takes no reference), a   *)
(* sender to a local peer from SharedFind.                                 *)
(* omx_endpoint_acquire_by_iface_index takes a reference and then looks at *)
(* the status.                                                             *)
(***************************************************************************)
BhFind(b) ==
  /\ wild = "none" /\ pr[b].pc = "idle" /\ packets /\ board # NULL
  /\ Stay(b, [Idle EXCEPT !.pc = "packet", !.i = board])
  /\ UNCHANGED <<file, ep, iface, board, peer, packets, up, wild>>

\* What p goes back to.
Done(p) == IF p \in BHs THEN Idle ELSE [Idle EXCEPT !.pc = "ioctl", !.e = pr[p].e]

Lookup(p, k) ==
  LET i == pr[p].i
  IN /\ wild = "none" /\ pr[p].pc \in {"packet", "slook"}
     /\ IF ~iface[i].live THEN Wild("iface")
        ELSE /\ IF iface[i].endpoints[k] = NULL
                  THEN Go(p, Done(p))
                  ELSE Stay(p, [pr[p] EXCEPT !.pc = "get", !.d = iface[i].endpoints[k]])
             /\ UNCHANGED <<file, ep, iface, board, peer, packets, up, wild>>

Get(p) ==
  LET f == pr[p].d
  IN /\ wild = "none" /\ pr[p].pc = "get"
     /\ IF ~ep[f].live \/ ep[f].refs = 0 THEN Wild("lookup")
        ELSE /\ ep' = [ep EXCEPT ![f].refs = @ + 1]
             /\ Stay(p, [pr[p] EXCEPT !.pc = "check"])
             /\ UNCHANGED <<file, iface, board, peer, packets, up, wild>>

Check(p) ==
  LET f == pr[p].d
  IN /\ wild = "none" /\ pr[p].pc = "check"
     /\ IF ep[f].status = "OK"
          THEN Go(p, [pr[p] EXCEPT !.pc = "hold"]) /\ UNCHANGED <<ep, iface>>
          ELSE EpPut(f, ep[f], iface, p \in BHs) /\ Go(p, Done(p))
     /\ UNCHANGED <<file, board, peer, packets, up, wild>>

\* The message is processed.  The reference is released, or stays with a
\* packet being sent or with the timer of a pull.
Handled(p) ==
  LET f == pr[p].d
  IN /\ wild = "none" /\ pr[p].pc = "hold"
     /\ \/ EpPut(f, ep[f], iface, p \in BHs)
        \/ /\ p \in BHs /\ ep[f].kept = 0
           /\ ep' = [ep EXCEPT ![f].kept = 1]
           /\ UNCHANGED iface
     /\ Stay(p, Done(p))
     /\ UNCHANGED <<file, board, peer, packets, up, wild>>

KeptPut(f) ==
  /\ wild = "none" /\ ep[f].kept = 1
  /\ EpPut(f, [ep[f] EXCEPT !.kept = 0], iface, TRUE)
  /\ UNCHANGED <<file, board, peer, pr, packets, up, wild>>

-----------------------------------------------------------------------------
(***************************************************************************)
(* Attaching and detaching interfaces.                                     *)
(***************************************************************************)
\* omx_iface_attach, with a reference for the array and one for the peer table
IfaceAttach(i) ==
  /\ wild = "none" /\ pr[Admin].pc = "idle" /\ board = NULL /\ ~iface[i].live
  /\ iface' = [iface EXCEPT ![i] = [NoIface EXCEPT !.live = TRUE, !.refs = 2]]
  /\ board' = i /\ peer' = i
  /\ UNCHANGED <<file, ep, pr, packets, up, wild>>

\* omx_ifaces_store_one, or the notifier on NETDEV_UNREGISTER: no packet is
\* processed any more while the interface is detached
DetachStart(force) ==
  /\ wild = "none" /\ pr[Admin].pc = "idle" /\ board # NULL /\ packets
  /\ packets' = FALSE
  /\ Stay(Admin, [Idle EXCEPT !.pc = "quiesce", !.i = board, !.force = force])
  /\ UNCHANGED <<file, ep, iface, board, peer, up, wild>>

\* omx_iface_detach, with the mutex
IfaceDetach ==
  LET a == pr[Admin]
      i == a.i
  IN /\ wild = "none" /\ a.pc = "quiesce" /\ \A b \in BHs : pr[b].pc = "idle"
     /\ iface[i].mutex = NULL
     /\ IF ~a.force /\ iface[i].nr > 0
          THEN Stay(Admin, Idle) /\ packets' = TRUE /\ UNCHANGED iface
          ELSE /\ iface' = [iface EXCEPT ![i].mutex = Admin, ![i].status = "CLOSING"]
               /\ Stay(Admin, [a EXCEPT !.pc = "loop", !.todo = Indexes])
               /\ UNCHANGED packets
     /\ UNCHANGED <<file, ep, board, peer, up, wild>>

\* The loop on the endpoints, with omx_endpoint_close and
\* omx_iface_detach_endpoint when nobody else is closing
ForceClose ==
  LET a == pr[Admin]
      i == a.i
      k == CHOOSE n \in a.todo : \A m \in a.todo : n <= m
      f == iface[i].endpoints[k]
  IN /\ wild = "none" /\ a.pc = "loop" /\ a.todo # {}
     /\ IF f = NULL
          THEN Stay(Admin, [a EXCEPT !.todo = @ \ {k}]) /\ UNCHANGED <<ep, iface>>
          ELSE IF ep[f].status # "OK"
            THEN /\ ep' = [ep EXCEPT ![f].removed = TRUE]
                 /\ Stay(Admin, [a EXCEPT !.todo = @ \ {k}])
                 /\ UNCHANGED iface
            ELSE /\ ep' = [ep EXCEPT ![f] = [@ EXCEPT !.removed = TRUE, !.status = "CLOSING"]]
                 /\ iface' = [iface EXCEPT ![i].endpoints[k] = NULL]
                 /\ Stay(Admin, [a EXCEPT !.pc = "lsync", !.e = f, !.todo = @ \ {k},
                                          !.gp = Readers])
     /\ UNCHANGED <<file, board, peer, packets, up, wild>>

ForceClosed ==
  LET a == pr[Admin]
  IN /\ wild = "none" /\ a.pc = "lsync" /\ a.gp = {}
     /\ EpPut(a.e, ep[a.e], [iface EXCEPT ![a.i].nr = @ - 1], FALSE)
     /\ Stay(Admin, [a EXCEPT !.pc = "loop", !.e = NULL])
     /\ UNCHANGED <<file, board, peer, packets, up, wild>>

\* The interface leaves the peer table (omx_peers_notify_iface_detach) ...
PeerDetach ==
  LET a == pr[Admin]
  IN /\ wild = "none" /\ a.pc = "loop" /\ a.todo = {}
     /\ iface' = [iface EXCEPT ![a.i].mutex = NULL]
     /\ peer' = NULL
     /\ Stay(Admin, [a EXCEPT !.pc = "psync", !.gp = Readers])
     /\ UNCHANGED <<file, ep, board, packets, up, wild>>

\* ... then the array ...
IfaceRemove ==
  LET a == pr[Admin]
  IN /\ wild = "none" /\ a.pc = "psync" /\ a.gp = {}
     /\ iface' = IfacePut(iface, a.i)
     /\ board' = NULL
     /\ Stay(Admin, [a EXCEPT !.pc = "async", !.gp = Readers])
     /\ UNCHANGED <<file, ep, peer, packets, up, wild>>

\* ... and is released after a grace period
IfaceRelease ==
  LET a == pr[Admin]
  IN /\ wild = "none" /\ a.pc = "async" /\ a.gp = {}
     /\ iface' = IfacePut(iface, a.i)
     /\ packets' = TRUE
     /\ Stay(Admin, Idle)
     /\ UNCHANGED <<file, ep, board, peer, up, wild>>

\* The device goes up or down, and omx_netdevice_notifier_cb tells the open
\* endpoints of its interface.
DeviceChange ==
  /\ wild = "none" /\ pr[Admin].pc = "idle"
  /\ up' = ~up
  /\ Stay(Admin, [Idle EXCEPT !.pc = "notify"])
  /\ UNCHANGED <<file, ep, iface, board, peer, packets, wild>>


DeviceNotify ==
  LET told == IF board = NULL THEN {}
              ELSE {f \in {iface[board].endpoints[k] : k \in Indexes} \ {NULL} :
                      ep[f].status = "OK"}
  IN /\ wild = "none" /\ pr[Admin].pc = "notify"
     /\ ep' = [f \in Files |-> IF f \in told THEN [ep[f] EXCEPT !.down = ~up] ELSE ep[f]]
     /\ Stay(Admin, Idle)
     /\ UNCHANGED <<file, iface, board, peer, packets, up, wild>>

-----------------------------------------------------------------------------
TaskStep(t) ==
  \/ \E f \in Files : (\E k \in Indexes : Open(t, f, k)) \/ Ioctl(t, f) \/ Release(t, f)
  \/ AllocResources(t) \/ AttachLook(t) \/ AttachFind(t) \/ Attach(t)
  \/ OpenFlags(t) \/ OpenSetDown(t) \/ SharedFind(t) \/ IoctlEnd(t)
  \/ Detach(t) \/ DetachSync(t) \/ ClosePut(t)

AcquireStep(p) == (\E k \in Indexes : Lookup(p, k)) \/ Get(p) \/ Check(p) \/ Handled(p)

AdminStep ==
  \/ \E i \in Ifaces : IfaceAttach(i)
  \/ \E force \in BOOLEAN : DetachStart(force)
  \/ IfaceDetach \/ ForceClose \/ ForceClosed \/ PeerDetach \/ IfaceRemove \/ IfaceRelease
  \/ DeviceChange \/ DeviceNotify

EpNext ==
  \/ \E t \in Tasks : TaskStep(t)
  \/ \E b \in BHs : BhFind(b)
  \/ \E p \in Tasks \cup BHs : AcquireStep(p)
  \/ \E f \in Files : MiscdevOpen(f) \/ KeptPut(f) \/ DestroyWork(f)
  \/ AdminStep

EpSpec == EpInit /\ [][EpNext]_evars

-----------------------------------------------------------------------------
(***************************************************************************)
(* Properties.                                                             *)
(***************************************************************************)
\* Statuses and counters stay in range, and a mutex is held by someone who
\* will release it.
EpTypeOK ==
  /\ \A f \in Files : /\ ep[f].status \in {"FREE", "INITIALIZING", "OK", "CLOSING"}
                      /\ ep[f].refs \in 0 .. 2 + Cardinality(Procs)
                      /\ ep[f].iface \in Ifaces \cup {NULL}
  /\ \A i \in Ifaces : iface[i].mutex # NULL =>
        pr[iface[i].mutex].pc \in {"sync", "loop", "lsync"}

OnEp(f, pcs) == {p \in Procs : pr[p].e = f /\ pr[p].pc \in pcs}

\* An endpoint is held by its file until someone has closed it, by the bottom
\* halves that acquired it and by what they left behind; an interface by the
\* array, the peer table, its endpoints and those about to attach one.
EpRefsExact ==
  /\ \A f \in Files : ep[f].live /\ ~ep[f].work =>
       ep[f].refs = Cardinality({p \in Procs : pr[p].d = f /\ pr[p].pc \in {"check", "hold"}}) + ep[f].kept
                    + (IF ep[f].status # "CLOSING" \/ OnEp(f, {"detach", "sync", "put", "lsync"}) # {}
                         THEN 1 ELSE 0)
  /\ \A i \in Ifaces : iface[i].live =>
       iface[i].refs = Cardinality({f \in Files : ep[f].iface = i})
                       + Cardinality({t \in Tasks : pr[t].i = i /\ pr[t].pc = "attach"})
                       + (IF board = i \/ (pr[Admin].i = i /\ pr[Admin].pc = "async") THEN 1 ELSE 0)
                       + (IF peer = i \/ (pr[Admin].i = i /\ pr[Admin].pc = "psync") THEN 1 ELSE 0)

\* endpoint_nr counts the endpoints in the table, and the ones on their way
\* out: a detach without force that finds zero really closes nobody.
EndpointNrExact ==
  \A i \in Ifaces : iface[i].live =>
    iface[i].nr = Cardinality({k \in Indexes : iface[i].endpoints[k] # NULL})
                  + Cardinality({p \in Procs : pr[p].pc \in {"sync", "lsync"}
                                               /\ ep[pr[p].e].iface = i})

\* Bottom halves, local senders and openers never use a freed endpoint or interface, however
\* the closing of files and the removal of interfaces interleave: the tables
\* are cleared, then a grace period passes, then references are dropped.
LookupsAreSafe == wild \notin {"lookup", "iface"}

\* The table of an interface holds live endpoints, each at its index, that are
\* open or being closed ("only OK and CLOSING are allowed there").
TableHoldsOpen ==
  \A i \in Ifaces, k \in Indexes :
    LET f == iface[i].endpoints[k]
    IN f # NULL => /\ ep[f].live /\ ep[f].iface = i /\ ep[f].index = k
                   /\ ep[f].status \in {"OK", "CLOSING"}


\* Resources of an endpoint exist exactly from its opening to its end.
ResourcesExact ==
  \A f \in Files : ep[f].resources <=>
    ep[f].status \in {"OK", "CLOSING"} \/ OnEp(f, {"look", "find", "attach"}) # {}

\* "Nobody will be able to open a new endpoint" once omx_iface_detach has
\* marked the interface as closing.
ClosingIfaceHasNoNewEndpoint ==
  \A f \in Files : ep[f].status = "OK" /\ ep[f].iface # NULL => ep[f].iface = board

\* "The endpoint is already acquired by the file": an ioctl or the release of
\* the file finds its endpoint.
FileHoldsEndpoint == wild # "file"

\* What is opened, attached and acquired is counted, and given back on every path of
\* omx_ioctl_open_endpoint and __omx_endpoint_close: references of endpoints and
\* interfaces, endpoint_nr and the resources of an endpoint.
EndpointsAccounted == EpTypeOK /\ EpRefsExact /\ EndpointNrExact /\ ResourcesExact

\* A lookup in the tables of interfaces finds live endpoints that are open or closing
\* (omx_endpoint_acquire_by_iface_index), never one that was freed.
LookupsFindOpen == LookupsAreSafe /\ TableHoldsOpen
=============================================================================
