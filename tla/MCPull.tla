------------------------------- MODULE MCPull -------------------------------
(***************************************************************************)
(* Pull for TLC.  Pages of 4 bytes; frames carry 2 bytes, blocks 2 frames. *)
(***************************************************************************)
EXTENDS Pull, TLC

MCPulledSegs == <<[vaddr |-> 1, len |-> 5], [vaddr |-> 11, len |-> 5]>>
MCInto == <<[vaddr |-> 3, len |-> 4], [vaddr |-> 8, len |-> 4]>>

\* One pull of five frames in three blocks, which wraps the sequence numbers.
MCLong == [dma |-> FALSE, pulls |-> <<[offset |-> 1, length |-> 8]>>, into |-> MCInto,
           nack |-> "OK", faults |-> 0]
\* Two short pulls through the same slot, the peer failing at any time.
MCTwo == [dma |-> FALSE, into |-> MCInto, nack |-> "BAD_RDMAWIN", faults |-> 0,
          pulls |-> <<[offset |-> 3, length |-> 2], [offset |-> 4, length |-> 2]>>]
\* A pull with DMA copies.
MCDma == [dma |-> TRUE, pulls |-> <<[offset |-> 3, length |-> 3]>>, into |-> MCInto,
          nack |-> "BAD_SESSION", faults |-> 1]
\* A pull that does not fit in the local region.
MCShort == [dma |-> FALSE, pulls |-> <<[offset |-> 0, length |-> 4]>>,
            into |-> <<[vaddr |-> 3, len |-> 1]>>, nack |-> "OK", faults |-> 0]

MCConfigs == {MCLong, MCTwo, MCDma, MCShort}
MCSym == Permutations(BHs) \cup Permutations(Handles)
=============================================================================
