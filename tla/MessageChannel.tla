--------------------------- MODULE MessageChannel ---------------------------
(***************************************************************************)
(* What the library promises of the messages between two endpoints: they   *)
(* are delivered in the order they were sent, each at most once, and each   *)
(* send completes at most once, with success only after the whole message  *)
(* arrived.  A message is known by its rank among those of its sender.      *)
(***************************************************************************)
EXTENDS Naturals, Sequences

CONSTANTS Nodes

VARIABLES
  sent,       \* sent[n]: number of messages that n sent
  delivered,  \* delivered[n]: messages given to n, in order
  arrived,    \* arrived[n]: messages whose data is entirely at n
  succeeded,  \* succeeded[n]: sends of n that completed with success
  failed      \* failed[n]: sends of n that completed with an error

cvars == <<sent, delivered, arrived, succeeded, failed>>

Other(n) == CHOOSE m \in Nodes : m # n

CInit ==
  /\ sent = [n \in Nodes |-> 0]
  /\ delivered = [n \in Nodes |-> <<>>]
  /\ arrived = [n \in Nodes |-> {}]
  /\ succeeded = [n \in Nodes |-> {}]
  /\ failed = [n \in Nodes |-> {}]

Send(n) ==
  /\ sent' = [sent EXCEPT ![n] = @ + 1]
  /\ UNCHANGED <<delivered, arrived, succeeded, failed>>

\* One packet, or a timeout, may deliver and complete several messages.
Progress(n) ==
  /\ \E len \in Len(delivered[n]) .. sent[Other(n)] :
       delivered' = [delivered EXCEPT ![n] = @ \o [i \in 1..(len - Len(@)) |-> Len(@) + i]]
  /\ \E new \in SUBSET (1..Len(delivered'[n])) :
       arrived' = [arrived EXCEPT ![n] = @ \cup new]
  /\ \E ok \in SUBSET (arrived[Other(n)] \ failed[n]) :
       succeeded' = [succeeded EXCEPT ![n] = @ \cup ok]
  /\ \E bad \in SUBSET ((1..sent[n]) \ succeeded'[n]) :
       failed' = [failed EXCEPT ![n] = @ \cup bad]
  /\ UNCHANGED sent

CNext == \E n \in Nodes : Send(n) \/ Progress(n)

CSpec == CInit /\ [][CNext]_cvars
=============================================================================
