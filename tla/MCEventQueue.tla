---------------------------- MODULE MCEventQueue ----------------------------
EXTENDS EventQueue, TLC
ProcSymmetry == Permutations(Procs)

VARIABLE overlapped   \* history: two deliveries have been under way at the same time

HInit == QInit /\ overlapped = FALSE
HNext == QNext /\ overlapped' = (overlapped \/ \E p, q \in Procs : p # q /\ pc'[p] # "idle" /\ pc'[q] # "idle")
HSpec == HInit /\ [][HNext]_<<qvars, overlapped>>

\* As long as deliveries come one at a time, each giving back the slots it took
\* before the next begins, a rollback leaves no hole in front of the library's
\* poll, two packets never share a recvq slot and the poll finds the event of
\* its own index.  (Once two have overlapped, the first two can fail; once three
\* have, the last one too.)
SerialExact == ~overlapped => NoHole /\ RecvqExclusive /\ PollSeesOwnIndex
=============================================================================
