------------------------- MODULE MCKeyboardControl -------------------------
(* Model checking of KeyboardControl: sessions with the pedals, the gears,   *)
(* the steering and the waypoint keys.                                       *)
EXTENDS KeyboardControl

MCKeySets == { {"8", "5"}, {"8", "up", "down"}, {"4", "6", "q"}, {"ctrl_r", "o"} }
MCFlags == {"G40", "RED", "BLACK"}

=============================================================================
