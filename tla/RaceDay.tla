------------------------------ MODULE RaceDay ------------------------------
(* The competition timer on a race day: a car on a circular track, whose GPS *)
(* fixes and clock the simulator publishes, and an operator with a few       *)
(* commands.  The finish line is at position 0.  One step of the simulator   *)
(* is one unit of time; the timer's executor is prompt (50 Hz): it has run   *)
(* each of its callbacks before the next step, in any order.                 *)
EXTENDS CompetitionTimer

CONSTANTS
  TrackLength,     \* bound: positions on the track
  Speeds,          \* positions the car may advance in one unit of time
  Tolerance,       \* crossing_tolerance of the track's YAML
  MaxCommands      \* bound: how often the operator sets the flag

ASSUME RaceDayAssumption ==
  /\ TrackLength \in Nat \ {0}
  /\ Speeds \subseteq 0..(TrackLength - 1)
  /\ Tolerance \in Nat
  /\ MaxCommands \in Nat

VARIABLES
  position,        \* of the car
  sim_time,        \* the simulator's clock
  clock_msg, gps_msg, timer_tick,  \* callbacks the executor has yet to run
  commands,        \* how often the operator set the flag
  away,            \* history: the car has been away since the last crossing
  raced            \* history: timed at every fix of this visit to the line

dayVars == <<vars, position, sim_time, clock_msg, gps_msg, timer_tick,
             commands, away, raced>>

(* Mutant of Near: only the far side of the line.                            *)
Near_OneSide(p) == p < Tolerance

(* check_finish_line_crossing's geometric test, on the circle.               *)
Near(p) == p < Tolerance \/ TrackLength - p < Tolerance

(* The node times the car: it lives, a competition runs, the clock is known. *)
Timed == node = "spinning" /\ competition_active /\ current_time # None

DayInit ==
  /\ Init
  /\ position \in {p \in 0..(TrackLength - 1) : ~Near(p)}
  /\ sim_time = 0
  /\ clock_msg = FALSE /\ gps_msg = FALSE /\ timer_tick = FALSE
  /\ commands = 0
  /\ away = TRUE
  /\ raced = FALSE

Drive(v) ==
  /\ sim_time < MaxTime
  /\ ~clock_msg /\ ~gps_msg /\ ~timer_tick
  /\ sim_time' = sim_time + 1
  /\ position' = (position + v) % TrackLength
  /\ clock_msg' = TRUE /\ gps_msg' = TRUE /\ timer_tick' = TRUE
  /\ away' = (away \/ ~Near(position'))
  /\ raced' = (Near(position) => raced)
  /\ UNCHANGED <<vars, commands>>

DayClock ==
  /\ clock_msg /\ clock_msg' = FALSE
  /\ clock_callback(sim_time)
  /\ UNCHANGED <<position, sim_time, gps_msg, timer_tick, commands, away, raced>>

DayGps ==
  /\ gps_msg /\ gps_msg' = FALSE
  /\ gps_callback(Near(position))
  /\ away' = IF crossings' # crossings THEN FALSE ELSE away
  /\ raced' = (raced /\ Timed')
  /\ UNCHANGED <<position, sim_time, clock_msg, timer_tick, commands>>

DayFlagTimer ==
  /\ timer_tick /\ timer_tick' = FALSE
  /\ publish_vehicle_flag
  /\ away' = IF crossings' = <<>> THEN TRUE ELSE away
  /\ raced' = (raced /\ Timed')
  /\ UNCHANGED <<position, sim_time, clock_msg, gps_msg, commands>>

DayOperator ==
  /\ commands < MaxCommands
  /\ commands' = commands + 1
  /\ \E p \in ParamValues : SetVehicleFlag(p)
  /\ UNCHANGED <<position, sim_time, clock_msg, gps_msg, timer_tick, away, raced>>

DayNext ==
  \/ \E v \in Speeds : Drive(v)
  \/ DayClock
  \/ DayGps
  \/ DayFlagTimer
  \/ DayOperator

DaySpec == DayInit /\ [][DayNext]_dayVars

(* The simulator keeps running and the executor runs its callbacks.          *)
FairDaySpec ==
  /\ DaySpec
  /\ WF_dayVars(\E v \in Speeds : Drive(v))
  /\ WF_dayVars(DayClock) /\ WF_dayVars(DayGps) /\ WF_dayVars(DayFlagTimer)

-----------------------------------------------------------------------------
(* What the properties below ask of the YAML's numbers and of the speeds     *)
(* driven.  The window around the line is 2 * Tolerance - 1 positions long.  *)
AtLeast(slow) == slow \in Nat \ {0} /\ \A v \in Speeds : slow <= v
AtMost(fast) == fast \in Nat /\ \A v \in Speeds : v <= fast

(* One step does not lead from the window around the track into it again,    *)
WindowFits ==
  /\ Tolerance # 0 /\ 2 * Tolerance <= TrackLength
  /\ \A v \in Speeds : v + 2 * Tolerance - 2 < TrackLength

(* nor over it;                                                              *)
FixInWindow == \A v \in Speeds : v < 2 * Tolerance

(* the slowest car leaves it before the interval is over, the clock being up *)
(* to one step behind;                                                       *)
LeavesInTime(slow) == 2 * Tolerance - 2 < slow * (MinCrossingInterval - 1)

(* and the fastest takes longer than the interval to come round.             *)
LapOutlasts(fast) == fast * MinCrossingInterval < TrackLength - (2 * Tolerance - 2)

(* The YAML files: "Minimum time between crossings (to prevent multiple      *)
(* detections)": the car is counted once per visit to the finish line.       *)
OneCrossingPerVisit ==
  [][crossings' # crossings /\ crossings # <<>> /\ crossings' # <<>> => away]_dayVars

(* Conversely no visit is missed: when the car leaves the line, or jumps     *)
(* over it between two fixes, while fixes are taken, it was counted.         *)
PassesLine == position' < position

NoVisitMissed ==
  [][ ~Near(position') /\ (Near(position) => raced)
      /\ (~Near(position) => PassesLine /\ Timed)
      => ~away ]_dayVars

(* No lap is recorded under a black flag, whether the last lap or the        *)
(* operator raised it: the competition has ended before the car comes round. *)
NoLapUnderBlack ==
  [][Len(lap_times') > Len(lap_times) => vehicle_flag # "BLACK"]_dayVars

(* A car that keeps driving after green finishes: the competition ends, with *)
(* the laps of the race in the results file or in a failed write the log     *)
(* tells of, unless the operator gives another command after the start.      *)
(* (For races that start early enough to end before MaxTime, and not before  *)
(* the first clock message: see FirstLapWithoutStart.)                       *)
RaceIsFinished ==
  (competition_active /\ start_time # None /\ sim_time <= 2 /\ commands = 1) ~>
     \/ ~competition_active /\ Completed /\ lap_times \in {results, lost}
     \/ commands > 1

=============================================================================
