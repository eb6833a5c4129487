--------------------------- MODULE MCBridgeClient ---------------------------
(* Model checking of BridgeClient: two kinds of message, one byte and three  *)
(* bytes long, so that a frame can be cut and pending can overshoot.         *)
EXTENDS BridgeClient

CONSTANTS m1, m3

MCMsg == {m1, m3}
MCFrameLength == [m \in MCMsg |-> IF m = m1 THEN 1 ELSE 3]

=============================================================================
