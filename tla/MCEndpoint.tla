----------------------------- MODULE MCEndpoint -----------------------------
(* Endpoint for TLC. *)
EXTENDS Endpoint, TLC

MCSym == Permutations(Files) \cup Permutations(Tasks) \cup Permutations(BHs) \cup Permutations(Ifaces)
=============================================================================
