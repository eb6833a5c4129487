------------------------- MODULE MCLgsvlInterface -------------------------
(* Model checking of LgsvlInterface: the constants of the run.               *)
EXTENDS LgsvlInterface

(* Neutral, and a gear two above it, with the wheels to either side.         *)
MCCommands == {[steering_cmd |-> 1, gear_cmd |-> 0], [steering_cmd |-> -1, gear_cmd |-> 2]}

=============================================================================
