------------------------------ MODULE MCRegion ------------------------------
(***************************************************************************)
(* Instances of Region for TLC: pages of two bytes, a region of one        *)
(* segment over two pages and one of three segments (one empty).           *)
(***************************************************************************)
EXTENDS Region

CONSTANTS r1, r2, u1, u2

MCObjs == {r1, r2}
MCUsers == {u1, u2}
MCIds == 0 .. 1
MCLayouts == (0 :> <<[vaddr |-> 1, len |-> 3]>>) @@
             (1 :> <<[vaddr |-> 8, len |-> 2], [vaddr |-> 12, len |-> 0], [vaddr |-> 15, len |-> 2]>>)
MCPulls == {[soff |-> 1, length |-> 2]}

Config(pin, dma, rare) == [pin |-> pin, dma |-> dma, rare |-> rare]
MCTruncate == {Config("async", FALSE, "truncate")}
MCConfigs == {Config("sync", TRUE, "none"),
              Config("progressive", FALSE, "fail")} \union MCTruncate

Sym == Permutations(MCObjs) \union Permutations(MCUsers)
=============================================================================
