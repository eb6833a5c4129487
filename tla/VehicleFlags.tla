---------------------------- MODULE VehicleFlags ----------------------------
(* The values of race_msgs/VehicleFlag, the message every part of the stack *)
(* exchanges to say whether the car may drive.                              *)

GreenFlags == {"GREEN", "G10", "G20", "G40", "G60", "G80", "G100"}

VehicleFlag == {"RED", "BLACK"} \cup GreenFlags

=============================================================================
