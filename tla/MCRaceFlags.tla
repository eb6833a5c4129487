---------------------------- MODULE MCRaceFlags ----------------------------
(* Model checking of RaceFlags: two track flags on either side of the 16-bit *)
(* boundary, and vehicle flags.                                              *)
EXTENDS RaceFlags

MCShown == {"RED", "G165", "BLACK", "BLUE", "EKILL"}

=============================================================================
