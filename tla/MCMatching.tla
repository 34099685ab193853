----------------------------- MODULE MCMatching -----------------------------
EXTENDS Matching, TLC

CONSTANTS t1, t2, t3

Each(x, y, z) == t1 :> x @@ t2 :> y @@ t3 :> z
Crit(op, c, t, mt) == [op |-> op, c |-> c, t |-> t, mc |-> TRUE, mt |-> mt]
Do(op) == Crit(op, 0, 0, TRUE)
Msg(src, seq, c, t, kind) == [src |-> src, seq |-> seq, c |-> c, t |-> t, kind |-> kind]
Pkt(m, frag) == [m |-> m, frag |-> frag]

m1 == Msg("s1", 1, 0, 0, "medium")
m2 == Msg("s1", 2, 0, 1, "eager")
m3 == Msg("s2", 1, 1, 0, "large")

Base ==
  [ctxids |-> 1, handler |-> FALSE, sources |-> {"s1", "s2"}, fails |-> 0, careful |-> TRUE,
   debug |-> TRUE, calls |-> Each(3, 3, 0),
   events |-> <<Pkt(m1, 1), Pkt(m2, 1), Pkt(m1, 2)>>,
   ops |-> Each({Crit("irecv", 0, 0, FALSE), Crit("irecv", 0, 1, TRUE)},
                {Crit("irecv", 0, 0, TRUE), Do("test")}, {})]

MCConfigs == {
  \* two messages of one source, the first in fragments, with and without a handler
  [Base EXCEPT !.handler = TRUE],
  [Base EXCEPT !.fails = 1, !.events = <<Pkt(m1, 1), Pkt(m1, 1), Pkt(m2, 1), Pkt(m1, 2)>>],
  \* the progression is disabled and enabled again while two threads receive
  [Base EXCEPT !.handler = TRUE, !.events = <<Pkt(m1, 1), Pkt(m2, 1)>>, !.calls = Each(3, 2, 2),
               !.ops = Each({Do("disable"), Do("reenable")}, {Do("test"), Crit("irecv", 0, 0, FALSE)},
                            {Crit("irecv", 0, 1, TRUE)})],
  \* messages to self, one thread at a time
  [Base EXCEPT !.handler = TRUE, !.events = <<Pkt(m2, 1)>>, !.fails = 1,
               !.ops = Each({Crit("self", 0, 0, TRUE), Crit("irecv", 0, 0, FALSE)},
                            {Crit("irecv", 0, 0, TRUE), Do("test")}, {})],
  \* two context ids, a large message, probes and cancels
  [Base EXCEPT !.ctxids = 2, !.events = <<Pkt(m3, 1), Pkt(m2, 1)>>,
               !.ops = Each({Crit("irecv", 0, 0, FALSE), Crit("irecv", 1, 0, TRUE), Crit("self", 1, 0, TRUE)},
                            {Crit("iprobe", 1, 0, TRUE), Crit("test_any", 0, 0, FALSE), Do("cancel"),
                             Do("cancel_notest")}, {})]
}
=============================================================================
