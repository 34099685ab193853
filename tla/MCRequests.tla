----------------------------- MODULE MCRequests -----------------------------
(* Small instances of Requests: each configuration is small but exercises one *)
(* group of resources, with a window or limits that are reached.              *)
EXTENDS Requests

CONSTANTS p1, p2

Buf(v, l, n) == [va |-> v, len |-> l, nseg |-> n]

Base == [kinds |-> {"tiny"}, bufs |-> {Buf(0, 1, 1)}, frags |-> {1}, n |-> 3, exps |-> 4,
         slots |-> 2, regs |-> 1, sends |-> 1, window |-> 2, zombies |-> 1, cache |-> FALSE,
         parallel |-> FALSE, resends |-> 1, ios |-> {8}, registers |-> {TRUE},
         drops |-> FALSE, forgets |-> {FALSE}, peers |-> {p1}]

MCConfigs == {
  [Base EXCEPT !.kinds = {"small", "mediumva"}, !.drops = TRUE, !.forgets = BOOLEAN,
               !.zombies = 2],
  [Base EXCEPT !.kinds = {"large"}, !.drops = TRUE, !.window = 1],
  [Base EXCEPT !.kinds = {"large"}, !.drops = TRUE, !.peers = {p1, p2}, !.window = 1, !.n = 2],
  [Base EXCEPT !.kinds = {"mediumsq"}, !.frags = {1, 2}, !.ios = {0, 1, 8}, !.n = 2],
  [Base EXCEPT !.kinds = {"mediumsq", "tiny"}, !.frags = {2}],
  [Base EXCEPT !.kinds = {"mediumsq", "tiny"}, !.frags = {2}, !.n = 2, !.drops = TRUE],
  [Base EXCEPT !.kinds = {"large", "recvlarge"}, !.n = 2, !.ios = {0, 8}, !.drops = TRUE,
               !.registers = BOOLEAN, !.forgets = BOOLEAN],
  [Base EXCEPT !.kinds = {"tiny", "recvlarge"}, !.exps = 1, !.window = 1],
  [Base EXCEPT !.kinds = {"large"}, !.cache = TRUE, !.parallel = TRUE, !.regs = 2, !.sends = 2,
               !.bufs = {Buf(0, 2, 1), Buf(0, 1, 1)}],
  [Base EXCEPT !.kinds = {"large"}, !.cache = TRUE, !.parallel = TRUE, !.regs = 2, !.n = 2,
               !.bufs = {Buf(0, 2, 1), Buf(2, 1, 2)}] }
=============================================================================
