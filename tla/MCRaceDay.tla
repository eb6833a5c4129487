----------------------------- MODULE MCRaceDay -----------------------------
(* Model checking of RaceDay: the constants of the runs.                     *)
EXTENDS RaceDay

AllParamValues == {"g40", "red", "black"}
Moving == {2, 3}

(* The numbers of the run satisfy what the properties need of them.          *)
ASSUME Calibrated ==
  /\ AtLeast(2) /\ AtMost(3) /\ WindowFits /\ FixInWindow
  /\ LeavesInTime(2) /\ LapOutlasts(3) /\ MinCrossingInterval >= 3

=============================================================================
