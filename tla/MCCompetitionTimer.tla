------------------------- MODULE MCCompetitionTimer -------------------------
(* Model checking of CompetitionTimer on its own: any clock, any GPS fixes,  *)
(* an operator who may set any flag at any moment.                           *)
EXTENDS CompetitionTimer

MCParamValues == {"green", "yellow", "black"}     \* yellow is no flag: RED

=============================================================================
