----------------------------- MODULE MCConnect ------------------------------
EXTENDS Connect, TLC

CONSTANTS a, b

Each(x, y) == a :> x @@ b :> y
Base ==
  [connects |-> Each(1, 1), sends |-> Each(1, 1), opens |-> Each(1, 1), keys |-> {TRUE},
   answers |-> FALSE, timeouts |-> FALSE, abandon |-> FALSE, disconnect |-> FALSE,
   losses |-> 0]

MCConfigs == {
  \* both connect and send, or one sends twice
  [Base EXCEPT !.losses = 1],
  [Base EXCEPT !.sends = Each(2, 0), !.losses = 1],
  \* b is closed and opened again while a, or both, connect to what they find
  [Base EXCEPT !.connects = Each(2, 1), !.opens = Each(1, 2), !.sends = Each(0, 0)],
  [Base EXCEPT !.connects = Each(1, 1), !.opens = Each(1, 2), !.sends = Each(1, 0)],
  [Base EXCEPT !.connects = Each(2, 0), !.opens = Each(1, 2), !.sends = Each(2, 0)],
  [Base EXCEPT !.connects = Each(0, 2), !.opens = Each(1, 2), !.sends = Each(0, 1)],
  \* connects with a wrong key, and given up
  [Base EXCEPT !.connects = Each(2, 0), !.keys = {TRUE, FALSE}, !.abandon = TRUE,
               !.sends = Each(1, 0), !.losses = 1],
  \* connects and messages that are never answered
  [Base EXCEPT !.connects = Each(2, 1), !.timeouts = TRUE, !.sends = Each(0, 0)],
  [Base EXCEPT !.connects = Each(1, 1), !.timeouts = TRUE, !.sends = Each(1, 0)],
  [Base EXCEPT !.connects = Each(2, 0), !.timeouts = TRUE, !.sends = Each(1, 0)],
  \* the partner is disconnected, and connected to again
  [Base EXCEPT !.connects = Each(2, 1), !.disconnect = TRUE, !.sends = Each(0, 0)],
  [Base EXCEPT !.connects = Each(1, 1), !.disconnect = TRUE, !.sends = Each(1, 0)],
  [Base EXCEPT !.connects = Each(2, 0), !.disconnect = TRUE, !.sends = Each(1, 0)]
}
=============================================================================
