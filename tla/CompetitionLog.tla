--------------------------- MODULE CompetitionLog ---------------------------
(* What the competition timer promises: a competition is started, crossings  *)
(* of the finish line are logged at least MinCrossingInterval apart, and a   *)
(* competition that ends after TargetLaps laps publishes the times between   *)
(* the crossings it logged, the first one counted from the start - or those  *)
(* very times are lost in publishing them.  A competition whose start was    *)
(* not recorded cannot be timed, and publishes nothing.                      *)
EXTENDS Integers, Sequences

CONSTANTS
  None,                \* no start recorded, nothing published or lost yet
  Time,                \* the values of the clock
  TargetLaps, MinCrossingInterval

VARIABLES phase, start, passes,
          published, lost    \* the lap times last published, and last lost

logVars == <<phase, start, passes, published, lost>>

LapTimes(s, p) ==
  [i \in 1..(Len(p) - 1) |-> p[i + 1] - (IF i = 1 THEN s ELSE p[i])]

Complete == start # None /\ Len(passes) > TargetLaps

Init ==
  /\ phase = "idle"
  /\ start = None
  /\ passes = <<>>
  /\ published = None /\ lost = None

Start ==
  /\ phase = "idle" /\ phase' = "running"
  /\ start' \in Time \cup {None}
  /\ passes' = <<>>
  /\ UNCHANGED <<published, lost>>

Pass ==
  /\ phase = "running"
  /\ \E t \in Time :
       /\ passes # <<>> => t - passes[Len(passes)] >= MinCrossingInterval
       /\ passes' = Append(passes, t)
  /\ UNCHANGED <<phase, start, published, lost>>

Publish ==
  \/ published' = LapTimes(start, passes) /\ UNCHANGED lost
  \/ lost' = LapTimes(start, passes) /\ UNCHANGED published

Finish ==
  /\ phase = "running" /\ phase' = "idle"
  /\ IF Complete THEN Publish ELSE UNCHANGED <<published, lost>>
  /\ UNCHANGED <<start, passes>>

(* The process ends; a race that was complete is published all the same, one *)
(* that was not may be.                                                      *)
Stop ==
  /\ phase # "stopped" /\ phase' = "stopped"
  /\ \/ phase = "running" /\ start # None /\ Publish
     \/ ~(phase = "running" /\ Complete) /\ UNCHANGED <<published, lost>>
  /\ UNCHANGED <<start, passes>>

Next == Start \/ Pass \/ Finish \/ Stop

Spec == Init /\ [][Next]_logVars

=============================================================================
