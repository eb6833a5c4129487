-------------------------- MODULE CompetitionTimer --------------------------
(* The competition timer node (competition_timer.py).  One executor thread   *)
(* runs the 50 Hz flag timer, the /clock callback and the GPS callback one   *)
(* at a time; the operator sets the parameter vehicle_flag at any moment     *)
(* (`ros2 param set`), and may press Ctrl-C.  Times are whole units of the   *)
(* simulator's clock.  The flag timer runs on wall time, or with             *)
(* use_sim_time on the clock of the node, which rclpy feeds from a           *)
(* subscription of its own: in neither case does it wait for clock_callback, *)
(* and so it may fire at any moment.                                         *)
EXTENDS Integers, Sequences, VehicleFlags

CONSTANTS
  None,                \* Python's None
  TargetLaps,          \* parameter target_laps
  MinCrossingInterval, \* min_crossing_interval of the track's YAML
  MaxTime,             \* bound: the largest clock value of the model
  ParamValues,         \* the strings the operator gives vehicle_flag (lower case)
  InitialParam,        \* vehicle_flag at launch
  SimRestarts          \* the simulator may restart its clock from zero

ASSUME TimerAssumption ==
  /\ None \notin Int
  /\ TargetLaps \in Nat \ {0}
  /\ MinCrossingInterval \in Nat \ {0}
  /\ MaxTime \in Nat
  /\ "black" \in ParamValues
  /\ InitialParam \in ParamValues
  /\ SimRestarts \in BOOLEAN

VARIABLES
  param,               \* the ROS parameter vehicle_flag
  vehicle_flag,        \* self.vehicle_flag, the flag last published
  competition_active, start_time, end_time, current_time,
  last_crossing_time, lap_times, current_lap,
  node,                \* "spinning", or how the process ended
  results,             \* the lap times in the last CSV file written, or None
  lost,                \* history: those of the last one that failed, or None
  crossings            \* history: the crossings accepted in this competition

raceVars == <<competition_active, start_time, last_crossing_time, lap_times,
              current_lap, crossings>>
fileVars == <<results, lost>>
vars == <<param, vehicle_flag, raceVars, end_time, current_time, node, fileVars>>

Times == 0..MaxTime

_flag_map == [green |-> "GREEN", red |-> "RED", black |-> "BLACK",
              g10 |-> "G10", g20 |-> "G20", g40 |-> "G40",
              g60 |-> "G60", g80 |-> "G80", g100 |-> "G100"]

(* Mutant of FlagOf: the string itself stands for a flag the map lacks.      *)
FlagOf_NoDefault(p) == IF p \in DOMAIN _flag_map THEN _flag_map[p] ELSE p

(* Any string the map does not know means RED.                              *)
FlagOf(p) == IF p \in DOMAIN _flag_map THEN _flag_map[p] ELSE "RED"

-----------------------------------------------------------------------------
Init ==
  /\ param = InitialParam
  /\ vehicle_flag = FlagOf(InitialParam)
  /\ competition_active = FALSE
  /\ start_time = None
  /\ end_time = None
  /\ current_time = None
  /\ last_crossing_time = None
  /\ lap_times = <<>>
  /\ current_lap = None          \* the attribute does not exist yet
  /\ node = "spinning"
  /\ results = None /\ lost = None
  /\ crossings = <<>>

(* What save_results does: Python's `not x` holds of None and of 0, and the  *)
(* subtraction that logs the total time raises when end_time is still None.  *)
SaveOutcome ==
  IF start_time \in {None, 0} THEN "nothing"
  ELSE IF end_time = None THEN "TypeError"
  ELSE IF lap_times = <<>> THEN "nothing" ELSE "file"

(* A file that cannot be opened or written is logged, and that is all.       *)
save_results ==
  \/ SaveOutcome = "file" /\ results' = lap_times /\ UNCHANGED lost
  \/ SaveOutcome = "file" /\ lost' = lap_times /\ UNCHANGED results
  \/ SaveOutcome # "file" /\ UNCHANGED fileVars

StartCompetition ==
  /\ competition_active' = TRUE
  /\ start_time' = current_time
  /\ last_crossing_time' = None
  /\ lap_times' = <<>>
  /\ current_lap' = 0
  /\ crossings' = <<>>
  /\ UNCHANGED <<end_time, node, fileVars>>

(* Mutants of EndCompetition: an off-by-one in the number of laps; a race    *)
(* that is not complete stays active.                                        *)
EndCompetition_OffByOne ==
  /\ competition_active' = FALSE
  /\ IF current_lap <= TargetLaps + 1 THEN UNCHANGED fileVars ELSE save_results
  /\ UNCHANGED <<start_time, end_time, last_crossing_time, lap_times,
                 current_lap, crossings, node>>

EndCompetition_OnlyComplete ==
  /\ competition_active' = (current_lap <= TargetLaps)
  /\ IF competition_active' THEN UNCHANGED fileVars ELSE save_results
  /\ UNCHANGED <<start_time, end_time, last_crossing_time, lap_times,
                 current_lap, crossings, node>>

EndCompetition ==
  /\ competition_active' = FALSE
  /\ IF current_lap <= TargetLaps
       THEN UNCHANGED <<fileVars, node>>
       ELSE /\ save_results
            /\ node' = IF SaveOutcome = "TypeError" THEN "callback_error" ELSE node
  /\ UNCHANGED <<start_time, end_time, last_crossing_time, lap_times,
                 current_lap, crossings>>

(* publish_vehicle_flag: a green flag starts an inactive competition, BLACK  *)
(* ends an active one, and RED only pauses the car: the state of the race is *)
(* left alone.                                                               *)
publish_vehicle_flag ==
  /\ node = "spinning"
  /\ vehicle_flag' = FlagOf(param)
  /\ UNCHANGED <<param, current_time>>
  /\ \/ /\ vehicle_flag' \in GreenFlags /\ ~competition_active
        /\ StartCompetition
     \/ /\ vehicle_flag' = "BLACK" /\ competition_active
        /\ EndCompetition
     \/ /\ \/ vehicle_flag' \in GreenFlags /\ competition_active
           \/ vehicle_flag' \notin GreenFlags /\ ~competition_active
           \/ vehicle_flag' = "RED" /\ competition_active
        /\ UNCHANGED <<raceVars, end_time, node, fileVars>>

clock_callback(t) ==
  /\ node = "spinning"
  /\ current_time' = t
  /\ UNCHANGED <<param, vehicle_flag, raceVars, end_time, node, fileVars>>

(* Mutants of IntervalElapsed: a clock that restarted passes the test; no    *)
(* test.                                                                     *)
IntervalElapsed_Restart ==
  last_crossing_time # None =>
    \/ current_time < last_crossing_time
    \/ current_time - last_crossing_time >= MinCrossingInterval

IntervalElapsed_None == TRUE

(* The interval test of check_finish_line_crossing.                          *)
IntervalElapsed ==
  last_crossing_time # None =>
    current_time - last_crossing_time >= MinCrossingInterval

(* `near` is the outcome of the geometric test: the fix lies within          *)
(* crossing_tolerance of the finish line.                                    *)
check_finish_line_crossing(near) == IntervalElapsed /\ near

(* Mutant of LapTime: the first lap is timed from the first crossing.        *)
LapTime_FromCrossing == current_time - last_crossing_time

LapTime == IF current_lap = 1 THEN current_time - start_time
                              ELSE current_time - last_crossing_time

CountCrossing ==
  /\ current_lap' = current_lap + 1
  /\ last_crossing_time' = current_time
  /\ crossings' = Append(crossings, current_time)

FirstCrossing ==
  /\ last_crossing_time = None
  /\ CountCrossing
  /\ UNCHANGED <<param, vehicle_flag, lap_times, end_time, node, fileVars>>

(* The race ends: black is raised by way of the parameter, too.              *)
EndRace == end_time' = current_time /\ param' = "black" /\ vehicle_flag' = "BLACK"

RaceGoesOn == UNCHANGED <<end_time, param, vehicle_flag>>

(* Mutants of CheckTarget: the end is recorded only the first time the       *)
(* target is reached; only beyond it; the parameter is not set to black.     *)
CheckTarget_Once == IF current_lap = TargetLaps THEN EndRace ELSE RaceGoesOn

CheckTarget_Beyond == IF current_lap > TargetLaps THEN EndRace ELSE RaceGoesOn

CheckTarget_ParamKept ==
  IF current_lap >= TargetLaps
    THEN end_time' = current_time /\ vehicle_flag' = "BLACK" /\ UNCHANGED param
    ELSE RaceGoesOn

CheckTarget == IF current_lap >= TargetLaps THEN EndRace ELSE RaceGoesOn

(* The lap that reaches target_laps sets the parameter to black; the         *)
(* competition stays active until the next tick of the flag timer.           *)
CompleteLap ==
  /\ last_crossing_time # None
  /\ current_lap = 1 => start_time # None
  /\ CountCrossing
  /\ lap_times' = Append(lap_times, LapTime)
  /\ CheckTarget
  /\ UNCHANGED <<node, fileVars>>

(* crossing_time - None raises; the exception leaves spin, and the finally   *)
(* clause of main finds no start_time to save anything for.                  *)
FirstLapWithoutStart ==
  /\ last_crossing_time # None
  /\ current_lap = 1 /\ start_time = None
  /\ save_results
  /\ node' = "callback_error"
  /\ UNCHANGED <<param, vehicle_flag, end_time, lap_times, current_lap,
                 last_crossing_time, crossings>>

(* Mutant of gps_callback: crossings count also between competitions.        *)
gps_callback_Always(near) ==
  /\ node = "spinning"
  /\ current_time # None /\ current_lap # None
  /\ check_finish_line_crossing(near)
  /\ FirstCrossing \/ CompleteLap \/ FirstLapWithoutStart
  /\ UNCHANGED <<competition_active, start_time, current_time>>

gps_callback(near) ==
  /\ node = "spinning"
  /\ \/ /\ competition_active /\ current_time # None
        /\ check_finish_line_crossing(near)
        /\ FirstCrossing \/ CompleteLap \/ FirstLapWithoutStart
     \/ /\ ~(competition_active /\ current_time # None) \/ ~check_finish_line_crossing(near)
        /\ UNCHANGED <<param, vehicle_flag, lap_times, end_time, node, fileVars,
                       current_lap, last_crossing_time, crossings>>
  /\ UNCHANGED <<competition_active, start_time, current_time>>

(* `ros2 param set /competition_timer_node vehicle_flag p`                   *)
SetVehicleFlag(p) ==
  /\ node = "spinning"
  /\ param' = p
  /\ UNCHANGED <<vehicle_flag, raceVars, end_time, current_time, node, fileVars>>

(* Ctrl-C: main saves the results of a competition that is still active.     *)
KeyboardInterrupt ==
  /\ node = "spinning"
  /\ IF competition_active
       THEN /\ save_results
            /\ node' = IF SaveOutcome = "TypeError" THEN "shutdown_error" ELSE "stopped"
       ELSE node' = "stopped" /\ UNCHANGED fileVars
  /\ UNCHANGED <<param, vehicle_flag, raceVars, end_time, current_time>>

(* The simulator's clock moves forward, or starts again from zero.           *)
SimClock ==
  \E t \in Times :
    /\ current_time # None => t > current_time \/ (SimRestarts /\ t = 0)
    /\ clock_callback(t)

Next ==
  \/ publish_vehicle_flag
  \/ SimClock
  \/ \E near \in BOOLEAN : gps_callback(near)
  \/ \E p \in ParamValues : SetVehicleFlag(p)
  \/ KeyboardInterrupt

Spec == Init /\ [][Next]_vars

-----------------------------------------------------------------------------
TimeOrNone == Times \cup {None}

(* Type invariant.                                                           *)
TypeOK ==
  /\ param \in ParamValues
  /\ vehicle_flag \in VehicleFlag
  /\ competition_active \in BOOLEAN
  /\ start_time \in TimeOrNone
  /\ end_time \in TimeOrNone
  /\ current_time \in TimeOrNone
  /\ last_crossing_time \in TimeOrNone
  /\ lap_times \in Seq(Int)
  /\ current_lap \in Nat \cup {None}
  /\ node \in {"spinning", "stopped", "callback_error", "shutdown_error"}
  /\ results \in Seq(Int) \cup {None} /\ lost \in Seq(Int) \cup {None}
  /\ crossings \in Seq(Times)

(* The lap log is the log of crossings: the counter the code keeps, the time *)
(* of the last crossing and every lap time agree with the crossings accepted *)
(* since the competition started, whatever the flags did meanwhile (the      *)
(* timer does not pause under RED).  The first lap runs from the start.      *)
LapStart(i) == IF i = 1 THEN start_time ELSE crossings[i]

LapLog ==
  /\ Len(lap_times) = IF crossings = <<>> THEN 0 ELSE Len(crossings) - 1
  /\ last_crossing_time = IF crossings = <<>> THEN None ELSE crossings[Len(crossings)]
  /\ current_lap = None => ~competition_active /\ crossings = <<>>
  /\ current_lap # None => current_lap = Len(crossings)
  /\ lap_times # <<>> => start_time # None
  /\ \A i \in 1..Len(lap_times) : lap_times[i] = crossings[i + 1] - LapStart(i)

(* No two crossings of one competition are closer than the minimum interval, *)
(* even when the simulator restarts its clock between them.                  *)
CrossingsSpaced ==
  \A i \in 1..(Len(crossings) - 1) :
     crossings[i + 1] - crossings[i] >= MinCrossingInterval

Completed == Len(lap_times) >= TargetLaps

(* Once the target is reached the recorded end of the race is the last       *)
(* crossing, also when the operator overrides the black flag and the car     *)
(* keeps driving: the total time logged is the one the laps add up to.       *)
EndIsLastCrossing == Completed => end_time = last_crossing_time

(* What became of the laps: a file has them, or could not be written.        *)
SavedOrLost == lap_times \in {results', lost'}

(* The lap times of a completed competition are not thrown away: whenever    *)
(* they are reset for a new competition, or the process stops, exactly these *)
(* laps are in the results file, or it could not be written and the log says *)
(* so.  Excepted are competitions that start at clock zero: save_results     *)
(* takes them for not started.                                               *)
CompletedLapsSaved ==
  [][Completed /\ start_time # 0 /\ (lap_times' = <<>> \/ node' # "spinning")
       => SavedOrLost]_vars

(* A callback raises only where a lap is timed from a start that was not     *)
(* recorded, GREEN having been seen before any clock message; in every other *)
(* competition the operands of each subtraction are there, the total's too.  *)
RaisesOnlyWithoutStart == node = "callback_error" => start_time = None

(* save_results, "Save lap times and competition results to CSV": a node     *)
(* stopped with Ctrl-C during a competition saves the laps driven so far, or *)
(* logs that the file could not be written.                                  *)
InterruptSavesLaps ==
  [][node' # "spinning" /\ competition_active /\ lap_times # <<>> /\ start_time # 0
       => SavedOrLost]_vars

(* The timer implements the abstract competition log: it times and publishes *)
(* what was logged, and nothing else.  For Python a start at zero is none.   *)
LogPhase == IF node # "spinning" THEN "stopped"
            ELSE IF competition_active THEN "running" ELSE "idle"

LogStart == IF start_time = 0 THEN None ELSE start_time

Log == INSTANCE CompetitionLog WITH
  phase <- LogPhase, start <- LogStart, Time <- Times,
  passes <- crossings, published <- results

ImplementsLog == Log!Spec

=============================================================================
