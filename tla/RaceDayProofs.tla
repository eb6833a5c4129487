---------------------------- MODULE RaceDayProofs ----------------------------
(* Proofs about the competition timer: first on its own, for every target,   *)
(* interval, clock and set of flags; then on a race day, for every track,    *)
(* every set of speeds and every setting of the timer that fit together as   *)
(* the hypotheses say.                                                       *)
EXTENDS RaceDay, TLAPS

(* Between two competitions the laps of a completed one are in the results   *)
(* file, or in a failed write.                                               *)
InactiveIsSaved ==
  (~competition_active /\ Completed /\ start_time # 0) => lap_times \in {results, lost}

IInv ==
  /\ TypeOK
  /\ LapLog
  /\ CrossingsSpaced
  /\ EndIsLastCrossing
  /\ InactiveIsSaved

-----------------------------------------------------------------------------
(* The flags the parameter stands for are flags.                             *)
LEMMA FlagOfType == \A p : FlagOf(p) \in VehicleFlag
  BY DEF FlagOf, _flag_map, VehicleFlag, GreenFlags

(* The initial state satisfies the inductive invariant.                      *)
LEMMA InitIInv == Init => IInv
<1> SUFFICES ASSUME Init PROVE IInv
  OBVIOUS
<1>1. TypeOK
  <2>1. <<>> \in Seq(Int) /\ <<>> \in Seq(Times)
    OBVIOUS
  <2>2. FlagOf(InitialParam) \in VehicleFlag
    BY FlagOfType
  <2> QED BY <2>1, <2>2, TimerAssumption DEF Init, TypeOK, TimeOrNone
<1>2. LapLog /\ CrossingsSpaced
  BY DEF Init, LapLog, CrossingsSpaced
<1>3. EndIsLastCrossing
  BY DEF Init, EndIsLastCrossing
<1>4. InactiveIsSaved
  BY TimerAssumption DEF Init, InactiveIsSaved, Completed
<1> QED BY <1>1, <1>2, <1>3, <1>4 DEF IInv

(* Every step keeps the types.                                               *)
LEMMA TypeStep == TypeOK /\ LapLog /\ [Next]_vars => TypeOK'
<1> SUFFICES ASSUME TypeOK, LapLog, [Next]_vars PROVE TypeOK'
  OBVIOUS
<1> USE TimerAssumption, FlagOfType DEF TypeOK, TimeOrNone
<1>1. CASE publish_vehicle_flag
  <2>1. CASE StartCompetition
    BY <1>1, <2>1 DEF publish_vehicle_flag, StartCompetition, fileVars
  <2>2. CASE EndCompetition
    BY <1>1, <2>2 DEF publish_vehicle_flag, EndCompetition, save_results, fileVars
  <2>3. CASE UNCHANGED <<raceVars, end_time, node, fileVars>>
    BY <1>1, <2>3 DEF publish_vehicle_flag, raceVars, fileVars
  <2> QED BY <1>1, <2>1, <2>2, <2>3 DEF publish_vehicle_flag
<1>2. CASE SimClock
  BY <1>2 DEF SimClock, clock_callback, raceVars, fileVars
<1>3. ASSUME NEW near \in BOOLEAN, gps_callback(near) PROVE TypeOK'
  <2>1. CASE FirstCrossing /\ competition_active /\ current_time # None
    BY <1>3, <2>1 DEF gps_callback, FirstCrossing, CountCrossing, LapLog, fileVars
  <2>2. CASE CompleteLap /\ competition_active /\ current_time # None
    <3>1. LapTime \in Int
      BY <2>2 DEF CompleteLap, LapTime, Times, LapLog
    <3>2. CASE EndRace
      BY <1>3, <2>2, <3>1, <3>2 DEF gps_callback, CompleteLap, CountCrossing,
         EndRace, LapLog, VehicleFlag, fileVars
    <3>3. CASE RaceGoesOn
      BY <1>3, <2>2, <3>1, <3>3 DEF gps_callback, CompleteLap, CountCrossing,
         RaceGoesOn, LapLog, fileVars
    <3> QED BY <2>2, <3>2, <3>3 DEF CompleteLap, CheckTarget
  <2>3. CASE FirstLapWithoutStart
    BY <1>3, <2>3 DEF gps_callback, FirstLapWithoutStart, save_results, SaveOutcome, fileVars
  <2>4. CASE UNCHANGED <<param, vehicle_flag, lap_times, end_time, node, fileVars,
                         current_lap, last_crossing_time, crossings>>
    BY <1>3, <2>4 DEF gps_callback, fileVars
  <2> QED BY <1>3, <2>1, <2>2, <2>3, <2>4 DEF gps_callback
<1>4. ASSUME NEW p \in ParamValues, SetVehicleFlag(p) PROVE TypeOK'
  BY <1>4 DEF SetVehicleFlag, raceVars, fileVars
<1>5. CASE KeyboardInterrupt
  BY <1>5 DEF KeyboardInterrupt, save_results, raceVars, fileVars
<1>6. CASE UNCHANGED vars
  BY <1>6 DEF vars, raceVars, fileVars
<1> QED BY <1>1, <1>2, <1>3, <1>4, <1>5, <1>6 DEF Next

(* Every step keeps the log of laps in agreement with the crossings.         *)
LEMMA LogStep == TypeOK /\ LapLog /\ [Next]_vars => LapLog'
<1> SUFFICES ASSUME TypeOK, LapLog, [Next]_vars PROVE LapLog'
  OBVIOUS
<1> USE TimerAssumption DEF TypeOK, TimeOrNone, LapLog, LapStart
<1>1. CASE publish_vehicle_flag
  <2>1. CASE StartCompetition
    BY <1>1, <2>1 DEF publish_vehicle_flag, StartCompetition
  <2>2. CASE EndCompetition
    BY <1>1, <2>2 DEF publish_vehicle_flag, EndCompetition
  <2>3. CASE UNCHANGED <<raceVars, end_time, node, fileVars>>
    BY <1>1, <2>3 DEF publish_vehicle_flag, raceVars
  <2> QED BY <1>1, <2>1, <2>2, <2>3 DEF publish_vehicle_flag
<1>2. CASE SimClock
  BY <1>2 DEF SimClock, clock_callback, raceVars
<1>3. ASSUME NEW near \in BOOLEAN, gps_callback(near) PROVE LapLog'
  <2>1. CASE FirstCrossing /\ competition_active /\ current_time # None
    <3>1. crossings = <<>> /\ current_lap = 0 /\ Len(lap_times) = 0
      BY <2>1 DEF FirstCrossing, Times
    <3>2. /\ crossings' = Append(crossings, current_time)
          /\ last_crossing_time' = current_time
          /\ lap_times' = lap_times /\ current_lap' = 1
      BY <1>3, <2>1, <3>1 DEF gps_callback, FirstCrossing, CountCrossing
    <3>3. /\ crossings' # <<>> /\ Len(crossings') = 1
          /\ crossings'[1] = current_time
      BY <2>1, <3>1, <3>2
    <3> QED BY <3>1, <3>2, <3>3
  <2>2. CASE CompleteLap /\ competition_active /\ current_time # None
    <3>1. /\ crossings # <<>>
          /\ current_lap = Len(crossings)
          /\ last_crossing_time = crossings[Len(crossings)]
          /\ Len(lap_times) = Len(crossings) - 1
      BY <2>2 DEF CompleteLap
    <3>2. /\ crossings' = Append(crossings, current_time)
          /\ lap_times' = Append(lap_times, LapTime)
          /\ start_time' = start_time
      BY <1>3, <2>2 DEF gps_callback, CompleteLap, CountCrossing
    <3>3. LapTime \in Int /\ LapTime = current_time - LapStart(Len(crossings))
      BY <2>2, <3>1 DEF CompleteLap, LapTime, Times
    <3>4. \A i \in 1..Len(lap_times') :
             lap_times'[i] = crossings'[i + 1] - LapStart(i)'
      <4> TAKE i \in 1..Len(lap_times')
      <4>1. CASE i = Len(crossings)
        BY <4>1, <3>1, <3>2, <3>3 DEF Times
      <4>2. CASE i < Len(crossings)
        BY <4>2, <3>1, <3>2, <3>3 DEF Times
      <4> QED BY <4>1, <4>2, <3>1, <3>2, <3>3
    <3>5. /\ crossings' # <<>>
          /\ Len(crossings') = Len(crossings) + 1
          /\ crossings'[Len(crossings')] = current_time
          /\ Len(lap_times') = Len(lap_times) + 1
      BY <2>2, <3>1, <3>2, <3>3
    <3>6. last_crossing_time' = current_time /\ current_lap' = current_lap + 1
      BY <2>2 DEF CompleteLap, CountCrossing
    <3>7. lap_times # <<>> \/ current_lap = 1
      BY <3>1
    <3>8. start_time # None
      BY <2>2, <3>7 DEF CompleteLap
    <3> QED BY <3>1, <3>2, <3>4, <3>5, <3>6, <3>8
  <2>3. CASE FirstLapWithoutStart
    BY <1>3, <2>3 DEF gps_callback, FirstLapWithoutStart
  <2>4. CASE UNCHANGED <<param, vehicle_flag, lap_times, end_time, node, fileVars,
                         current_lap, last_crossing_time, crossings>>
    BY <1>3, <2>4 DEF gps_callback
  <2> QED BY <1>3, <2>1, <2>2, <2>3, <2>4 DEF gps_callback
<1>4. ASSUME NEW p \in ParamValues, SetVehicleFlag(p) PROVE LapLog'
  BY <1>4 DEF SetVehicleFlag, raceVars
<1>5. CASE KeyboardInterrupt
  BY <1>5 DEF KeyboardInterrupt, raceVars
<1>6. CASE UNCHANGED vars
  BY <1>6 DEF vars, raceVars
<1> QED BY <1>1, <1>2, <1>3, <1>4, <1>5, <1>6 DEF Next

(* A crossing is accepted only when the interval since the last has elapsed. *)
LEMMA SpacingStep ==
  TypeOK /\ LapLog /\ CrossingsSpaced /\ [Next]_vars => CrossingsSpaced'
<1> SUFFICES ASSUME TypeOK, LapLog, CrossingsSpaced, [Next]_vars
             PROVE  CrossingsSpaced'
  OBVIOUS
<1> USE TimerAssumption DEF TypeOK, TimeOrNone, CrossingsSpaced
<1>1. ASSUME UNCHANGED crossings \/ crossings' = <<>> PROVE CrossingsSpaced'
  BY <1>1
<1>2. ASSUME NEW near \in BOOLEAN, gps_callback(near), crossings' # crossings
      PROVE  CrossingsSpaced'
  <2>1. /\ competition_active /\ current_time # None /\ IntervalElapsed
        /\ crossings' = Append(crossings, current_time)
    BY <1>2 DEF gps_callback, check_finish_line_crossing, FirstCrossing,
                CompleteLap, FirstLapWithoutStart, CountCrossing
  <2>2. crossings # <<>> =>
          current_time - crossings[Len(crossings)] >= MinCrossingInterval
    BY <2>1 DEF IntervalElapsed, LapLog, Times
  <2>3. current_time \in Int /\ Len(crossings') = Len(crossings) + 1
    BY <2>1 DEF Times
  <2>4. ASSUME NEW i \in 1..(Len(crossings') - 1)
        PROVE  crossings'[i + 1] - crossings'[i] >= MinCrossingInterval
    <3>1. CASE i = Len(crossings)
      BY <3>1, <2>1, <2>2, <2>3
    <3>2. CASE i < Len(crossings)
      BY <3>2, <2>1, <2>3
    <3> QED BY <3>1, <3>2, <2>3
  <2> QED BY <2>4
<1>3. CASE publish_vehicle_flag
  BY <1>1, <1>3 DEF publish_vehicle_flag, StartCompetition, EndCompetition, raceVars
<1>4. CASE SimClock \/ KeyboardInterrupt \/ UNCHANGED vars
  BY <1>1, <1>4 DEF SimClock, clock_callback, KeyboardInterrupt, vars, raceVars
<1>5. ASSUME NEW p \in ParamValues, SetVehicleFlag(p) PROVE CrossingsSpaced'
  BY <1>1, <1>5 DEF SetVehicleFlag, raceVars
<1> QED BY <1>1, <1>2, <1>3, <1>4, <1>5 DEF Next

(* The recorded end follows every lap beyond the target.                     *)
LEMMA EndStep ==
  TypeOK /\ LapLog /\ EndIsLastCrossing /\ [Next]_vars => EndIsLastCrossing'
<1> SUFFICES ASSUME TypeOK, LapLog, EndIsLastCrossing, [Next]_vars
             PROVE  EndIsLastCrossing'
  OBVIOUS
<1> USE TimerAssumption DEF EndIsLastCrossing, Completed
<1>1. ASSUME UNCHANGED <<lap_times, end_time, last_crossing_time>>
      PROVE  EndIsLastCrossing'
  BY <1>1
<1>2. CASE publish_vehicle_flag
  <2>1. CASE StartCompetition
    BY <2>1 DEF StartCompetition
  <2>2. CASE EndCompetition
    BY <2>2, <1>1 DEF EndCompetition
  <2>3. CASE UNCHANGED <<raceVars, end_time, node, fileVars>>
    BY <2>3, <1>1 DEF raceVars
  <2> QED BY <1>2, <2>1, <2>2, <2>3 DEF publish_vehicle_flag
<1>3. ASSUME NEW near \in BOOLEAN, gps_callback(near) PROVE EndIsLastCrossing'
  <2>1. CASE FirstCrossing
    <3>1. Len(lap_times) = 0
      BY <2>1 DEF FirstCrossing, TypeOK, TimeOrNone, Times, LapLog
    <3> QED BY <2>1, <3>1 DEF FirstCrossing, TypeOK
  <2>2. CASE CompleteLap /\ competition_active
    <3>1. Len(lap_times') = current_lap /\ last_crossing_time' = current_time
      BY <2>2 DEF CompleteLap, CountCrossing, LapLog, TypeOK
    <3> QED BY <2>2, <3>1 DEF CompleteLap, CheckTarget, EndRace, RaceGoesOn, LapLog, TypeOK
  <2>3. CASE FirstLapWithoutStart
    BY <2>3, <1>1 DEF FirstLapWithoutStart
  <2>4. CASE UNCHANGED <<param, vehicle_flag, lap_times, end_time, node, fileVars,
                         current_lap, last_crossing_time, crossings>>
    BY <2>4, <1>1
  <2> QED BY <1>3, <2>1, <2>2, <2>3, <2>4 DEF gps_callback
<1>4. CASE SimClock \/ KeyboardInterrupt \/ UNCHANGED vars
  BY <1>1, <1>4 DEF SimClock, clock_callback, KeyboardInterrupt, vars, raceVars
<1>5. ASSUME NEW p \in ParamValues, SetVehicleFlag(p) PROVE EndIsLastCrossing'
  BY <1>1, <1>5 DEF SetVehicleFlag, raceVars
<1> QED BY <1>2, <1>3, <1>4, <1>5 DEF Next

(* A competition that has more laps than the target counted an end.          *)
LEMMA EndTimeIsThere ==
  ASSUME IInv, Completed
  PROVE  end_time # None /\ lap_times # <<>> /\ start_time # None
<1>1. Len(lap_times) >= 1 /\ lap_times # <<>> /\ crossings # <<>>
  BY TimerAssumption DEF IInv, TypeOK, LapLog, Completed
<1>2. end_time # None
  BY <1>1, TimerAssumption
     DEF IInv, TypeOK, LapLog, EndIsLastCrossing, Times
<1> QED BY <1>1, <1>2 DEF IInv, LapLog

(* When the flag timer or Ctrl-C saves a completed competition, save_results *)
(* comes to the file.                                                        *)
LEMMA CompletedSaveWrites ==
  ASSUME IInv, competition_active, Completed, start_time # 0
  PROVE  SaveOutcome = "file" /\ current_lap > TargetLaps
<1>1. lap_times # <<>> /\ end_time # None /\ start_time # None
  BY EndTimeIsThere
<1>2. crossings # <<>> /\ Len(lap_times) \in Nat
  BY <1>1 DEF IInv, TypeOK, LapLog
<1>3. current_lap = Len(lap_times) + 1
  BY <1>2 DEF IInv, TypeOK, LapLog
<1> QED BY <1>1, <1>2, <1>3, TimerAssumption DEF SaveOutcome, Completed

(* A competition that ends is complete when the log has enough crossings.    *)
LEMMA LapsOfLog ==
  ASSUME IInv, competition_active
  PROVE  /\ current_lap \in Nat /\ current_lap = Len(crossings)
         /\ Len(crossings) > TargetLaps <=> Completed
<1>1. current_lap \in Nat /\ current_lap = Len(crossings)
  BY DEF IInv, TypeOK, LapLog
<1>2. TargetLaps \in Nat \ {0}
  BY TimerAssumption
<1>3. CASE crossings = <<>>
  <2>1. Len(crossings) = 0 /\ Len(lap_times) = 0
    BY <1>3 DEF IInv, LapLog
  <2> QED BY <1>1, <1>2, <2>1 DEF Completed
<1>4. CASE crossings # <<>>
  <2>1. Len(lap_times) = Len(crossings) - 1
    BY <1>4 DEF IInv, LapLog
  <2> QED BY <1>1, <1>2, <2>1 DEF Completed
<1> QED BY <1>3, <1>4

(* A save that comes to the file leaves the laps there, or has lost them.    *)
LEMMA SaveKeeps ==
  ASSUME save_results, SaveOutcome = "file"
  PROVE  lap_times \in {results', lost'}
  BY DEF save_results

(* A step that ends a completed competition leaves its laps in the results.  *)
LEMMA SavedStep == IInv /\ [Next]_vars => InactiveIsSaved'
<1> SUFFICES ASSUME IInv, [Next]_vars PROVE InactiveIsSaved'
  OBVIOUS
<1> USE DEF InactiveIsSaved, Completed
<1>1. ASSUME UNCHANGED <<competition_active, start_time, lap_times, results, lost>>
      PROVE  InactiveIsSaved'
  BY <1>1 DEF IInv
<1>2. ASSUME competition_active' PROVE InactiveIsSaved'
  BY <1>2
<1>3. CASE publish_vehicle_flag
  <2>1. CASE StartCompetition
    BY <2>1, <1>2 DEF StartCompetition
  <2>2. CASE EndCompetition /\ competition_active
    <3>1. UNCHANGED <<lap_times, start_time>>
      BY <2>2 DEF EndCompetition
    <3>2. ASSUME Completed, start_time # 0 PROVE lap_times \in {results', lost'}
      <4>1. SaveOutcome = "file" /\ current_lap > TargetLaps
        BY <2>2, <3>2, CompletedSaveWrites
      <4>2. ~(current_lap <= TargetLaps)
        <5>1. current_lap \in Nat /\ TargetLaps \in Nat
          BY <2>2, TimerAssumption DEF IInv, TypeOK, LapLog
        <5> QED BY <4>1, <5>1
      <4> QED BY <2>2, <4>1, <4>2, SaveKeeps DEF EndCompetition
    <3> QED BY <3>1, <3>2
  <2>3. CASE UNCHANGED <<raceVars, end_time, node, fileVars>>
    BY <2>3, <1>1 DEF raceVars, fileVars
  <2> QED BY <1>3, <2>1, <2>2, <2>3 DEF publish_vehicle_flag
<1>4. ASSUME NEW near \in BOOLEAN, gps_callback(near) PROVE InactiveIsSaved'
  <2>1. CASE competition_active
    BY <1>4, <2>1, <1>2 DEF gps_callback
  <2>2. CASE ~competition_active
    BY <1>4, <2>2, <1>1 DEF gps_callback, fileVars
  <2> QED BY <2>1, <2>2
<1>5. CASE KeyboardInterrupt
  <2>1. CASE competition_active
    BY <1>2, <1>5, <2>1 DEF KeyboardInterrupt, raceVars
  <2>2. CASE ~competition_active
    BY <1>1, <1>5, <2>2 DEF KeyboardInterrupt, raceVars, fileVars
  <2> QED BY <2>1, <2>2
<1>6. CASE SimClock \/ UNCHANGED vars
  BY <1>1, <1>6 DEF SimClock, clock_callback, vars, raceVars, fileVars
<1>7. ASSUME NEW p \in ParamValues, SetVehicleFlag(p) PROVE InactiveIsSaved'
  BY <1>1, <1>7 DEF SetVehicleFlag, raceVars, fileVars
<1> QED BY <1>3, <1>4, <1>5, <1>6, <1>7 DEF Next

-----------------------------------------------------------------------------
(* The inductive invariant holds in every reachable state.                   *)
THEOREM Invariance == Spec => []IInv
<1>1. Init => IInv
  BY InitIInv
<1>2. IInv /\ [Next]_vars => IInv'
  BY TypeStep, LogStep, SpacingStep, EndStep, SavedStep DEF IInv
<1> QED BY <1>1, <1>2, PTL DEF Spec

(* Type correctness of the competition timer.                                *)
THEOREM TypeCorrect == Spec => []TypeOK
<1>1. IInv => TypeOK
  BY DEF IInv
<1> QED BY <1>1, Invariance, PTL

(* The lap log agrees with the crossings, whatever flags the operator shows. *)
THEOREM LapLogCorrect == Spec => []LapLog
<1>1. IInv => LapLog
  BY DEF IInv
<1> QED BY <1>1, Invariance, PTL

(* Two crossings are never closer than the minimum interval.                 *)
THEOREM Spacing == Spec => []CrossingsSpaced
<1>1. IInv => CrossingsSpaced
  BY DEF IInv
<1> QED BY <1>1, Invariance, PTL

(* The recorded end of a completed race is its last crossing.                *)
THEOREM EndRecorded == Spec => []EndIsLastCrossing
<1>1. IInv => EndIsLastCrossing
  BY DEF IInv
<1> QED BY <1>1, Invariance, PTL

(* The laps of a completed competition reach the results file, or a write    *)
(* that fails, before they are reset or the node stops - in every            *)
(* competition save_results does not take for one that did not start.        *)
THEOREM CompletedSaved == Spec => CompletedLapsSaved
<1>1. ASSUME IInv, [Next]_vars
      PROVE  [Completed /\ start_time # 0 /\ (lap_times' = <<>> \/ node' # "spinning")
                => SavedOrLost]_vars
  <2> SUFFICES ASSUME Completed, start_time # 0, lap_times' = <<>> \/ node' # "spinning",
                      vars' # vars
               PROVE  lap_times \in {results', lost'}
    BY DEF SavedOrLost
  <2>1. lap_times # <<>>
    BY <1>1, EndTimeIsThere
  <2>2. CASE publish_vehicle_flag
    <3>1. CASE StartCompetition /\ ~competition_active
      BY <1>1, <3>1 DEF IInv, InactiveIsSaved, StartCompetition, fileVars
    <3>2. CASE EndCompetition /\ competition_active
      <4>1. current_lap \in Nat /\ TargetLaps \in Nat
        BY <1>1, <3>2, TimerAssumption DEF IInv, TypeOK, LapLog
      <4>2. ~(current_lap <= TargetLaps) /\ SaveOutcome = "file"
        BY <1>1, <3>2, <4>1, CompletedSaveWrites
      <4> QED BY <3>2, <4>2, SaveKeeps DEF EndCompetition
    <3>3. CASE UNCHANGED <<raceVars, end_time, node, fileVars>>
      BY <2>1, <2>2, <3>3 DEF publish_vehicle_flag, raceVars
    <3> QED BY <2>2, <3>1, <3>2, <3>3 DEF publish_vehicle_flag
  <2>3. ASSUME NEW near \in BOOLEAN, gps_callback(near) PROVE FALSE
    <3>1. ~FirstLapWithoutStart
      BY <1>1, EndTimeIsThere DEF FirstLapWithoutStart
    <3>2. node' = "spinning"
      BY <2>3, <3>1 DEF gps_callback, FirstCrossing, CompleteLap
    <3>3. lap_times' # <<>>
      <4>1. CASE CompleteLap
        <5>1. lap_times' = Append(lap_times, LapTime) /\ lap_times \in Seq(Int)
          BY <1>1, <4>1 DEF CompleteLap, IInv, TypeOK
        <5> QED BY <5>1
      <4>2. CASE lap_times' = lap_times
        BY <2>1, <4>2
      <4> QED BY <2>3, <3>1, <4>1, <4>2 DEF gps_callback, FirstCrossing
    <3> QED BY <3>2, <3>3
  <2>4. CASE KeyboardInterrupt
    <3>1. CASE competition_active
      BY <1>1, <2>4, <3>1, CompletedSaveWrites, SaveKeeps DEF KeyboardInterrupt
    <3>2. CASE ~competition_active
      BY <1>1, <2>4, <3>2 DEF KeyboardInterrupt, IInv, InactiveIsSaved, fileVars
    <3> QED BY <3>1, <3>2
  <2>5. ~SimClock
    BY <2>1 DEF SimClock, clock_callback, raceVars
  <2>6. \A p \in ParamValues : ~SetVehicleFlag(p)
    BY <2>1 DEF SetVehicleFlag, raceVars
  <2> QED BY <1>1, <2>2, <2>3, <2>4, <2>5, <2>6 DEF Next
<1> QED BY <1>1, Invariance, PTL DEF Spec, CompletedLapsSaved

(* A callback raises only without a recorded start: end_time is there        *)
(* whenever the flag timer saves a competition.                              *)
THEOREM OnlyMissingStartRaises == Spec => []RaisesOnlyWithoutStart
<1> USE DEF RaisesOnlyWithoutStart
<1>1. Init => RaisesOnlyWithoutStart
  BY DEF Init
<1>2. ASSUME IInv, RaisesOnlyWithoutStart, [Next]_vars PROVE RaisesOnlyWithoutStart'
  <2>1. ASSUME node = "spinning", node' = node PROVE RaisesOnlyWithoutStart'
    BY <2>1
  <2>2. CASE publish_vehicle_flag
    <3>1. node = "spinning"
      BY <2>2 DEF publish_vehicle_flag
    <3>2. CASE StartCompetition \/ UNCHANGED <<raceVars, end_time, node, fileVars>>
      BY <2>1, <3>1, <3>2 DEF StartCompetition
    <3>3. CASE EndCompetition /\ competition_active
      <4>1. ASSUME ~(current_lap <= TargetLaps) PROVE SaveOutcome # "TypeError"
        <5>1. current_lap \in Nat /\ TargetLaps \in Nat /\ current_lap = Len(crossings)
          BY <1>2, <3>3, LapsOfLog, TimerAssumption
        <5>2. Completed
          BY <1>2, <3>3, <4>1, <5>1, LapsOfLog
        <5> QED BY <1>2, <5>2, EndTimeIsThere DEF SaveOutcome
      <4> QED BY <2>1, <3>1, <3>3, <4>1 DEF EndCompetition
    <3> QED BY <2>2, <3>2, <3>3 DEF publish_vehicle_flag
  <2>3. ASSUME NEW near \in BOOLEAN, gps_callback(near) PROVE RaisesOnlyWithoutStart'
    <3>1. node = "spinning" /\ start_time' = start_time
      BY <2>3 DEF gps_callback
    <3>2. CASE FirstLapWithoutStart
      BY <3>1, <3>2 DEF FirstLapWithoutStart
    <3> QED BY <2>1, <2>3, <3>1, <3>2 DEF gps_callback, FirstCrossing, CompleteLap
  <2>4. CASE KeyboardInterrupt
    BY <2>4 DEF KeyboardInterrupt
  <2>5. CASE SimClock \/ UNCHANGED vars
    BY <1>2, <2>5 DEF SimClock, clock_callback, vars, raceVars
  <2>6. ASSUME NEW p \in ParamValues, SetVehicleFlag(p) PROVE RaisesOnlyWithoutStart'
    BY <1>2, <2>6 DEF SetVehicleFlag, raceVars
  <2> QED BY <1>2, <2>2, <2>3, <2>4, <2>5, <2>6 DEF Next
<1> QED BY <1>1, <1>2, Invariance, PTL DEF Spec

-----------------------------------------------------------------------------
(* The lap times kept are those between the crossings logged.                *)
LEMMA LapTimesOfLog ==
  ASSUME TypeOK, LapLog
  PROVE  lap_times = Log!LapTimes(start_time, crossings)
<1>1. lap_times \in Seq(Int) /\ crossings \in Seq(Times) /\ Len(crossings) \in Nat
  BY DEF TypeOK
<1>2. CASE crossings = <<>>
  <2>1. Len(lap_times) = 0 /\ Len(crossings) = 0
    BY <1>2 DEF LapLog
  <2>2. 1..Len(lap_times) = 1..(Len(crossings) - 1)
    BY <2>1
  <2>3. lap_times = [i \in 1..Len(lap_times) |-> lap_times[i]]
    BY <1>1
  <2>4. lap_times = [i \in 1..(Len(crossings) - 1) |-> lap_times[i]]
    BY <2>2, <2>3
  <2>5. \A i \in 1..(Len(crossings) - 1) :
          lap_times[i] = crossings[i + 1] - (IF i = 1 THEN start_time ELSE crossings[i])
    BY <2>1
  <2> QED BY <2>4, <2>5 DEF Log!LapTimes
<1>3. CASE crossings # <<>>
  <2>1. Len(lap_times) = Len(crossings) - 1
    BY <1>3 DEF LapLog
  <2>2. \A i \in 1..Len(lap_times) :
          lap_times[i] = crossings[i + 1] - (IF i = 1 THEN start_time ELSE crossings[i])
    BY DEF LapLog, LapStart
  <2>3. lap_times = [i \in 1..Len(lap_times) |-> lap_times[i]]
    BY <1>1
  <2> QED BY <2>1, <2>2, <2>3 DEF Log!LapTimes
<1> QED BY <1>2, <1>3

(* A save that comes to the file is a publication, successful or not.        *)
LEMMA PublishOfLog ==
  ASSUME IInv, SaveOutcome = "file", save_results
  PROVE  Log!Publish /\ LogStart # None
<1>1. LogStart = start_time /\ start_time # None
  BY DEF SaveOutcome, LogStart
<1>2. lap_times = Log!LapTimes(LogStart, crossings)
  BY <1>1, LapTimesOfLog DEF IInv
<1> QED BY <1>1, <1>2 DEF save_results, Log!Publish

(* A competition complete for the log is one whose save comes to the file.   *)
LEMMA CompleteOfLog ==
  ASSUME IInv, competition_active
  PROVE  Log!Complete <=> Completed /\ start_time # 0
<1>1. Log!Complete <=> LogStart # None /\ Len(crossings) > TargetLaps
  BY DEF Log!Complete
<1>2. Completed => start_time # None
  BY EndTimeIsThere
<1>3. LogStart # None <=> start_time # 0 /\ start_time # None
  BY DEF LogStart
<1> QED BY <1>1, <1>2, <1>3, LapsOfLog

(* Every step of the timer is a step of the log, or changes nothing in it.   *)
LEMMA LogSimulation ==
  ASSUME IInv, [Next]_vars
  PROVE  [Log!Next]_Log!logVars
<1> USE DEF LogPhase
<1>1. CASE publish_vehicle_flag
  <2>1. CASE StartCompetition /\ ~competition_active
    <3>1. LogStart' \in Times \cup {None}
      BY <2>1 DEF StartCompetition, LogStart, IInv, TypeOK, TimeOrNone
    <3>2. Log!Start
      BY <1>1, <2>1, <3>1 DEF publish_vehicle_flag, StartCompetition, Log!Start, fileVars
    <3> QED BY <3>2 DEF Log!Next
  <2>2. CASE EndCompetition /\ competition_active
    <3>1. /\ node = "spinning" /\ ~competition_active'
          /\ UNCHANGED <<start_time, crossings>>
      BY <1>1, <2>2 DEF publish_vehicle_flag, EndCompetition
    <3>2. LogStart' = LogStart
      BY <3>1 DEF LogStart
    <3>3. node' = node /\ IF Log!Complete THEN Log!Publish ELSE UNCHANGED fileVars
      <4>1. /\ current_lap <= TargetLaps <=> ~Completed
            /\ current_lap \in Nat /\ TargetLaps \in Nat
        <5>1. /\ current_lap \in Nat /\ TargetLaps \in Nat /\ current_lap = Len(crossings)
              /\ Len(crossings) > TargetLaps <=> Completed
          BY <2>2, LapsOfLog, TimerAssumption
        <5> QED BY <5>1
      <4>2. CASE Completed /\ start_time # 0
        <5>1. SaveOutcome = "file"
          BY <2>2, <4>2, CompletedSaveWrites
        <5>2. save_results /\ node' = node
          BY <2>2, <4>1, <4>2, <5>1 DEF EndCompetition
        <5> QED BY <2>2, <4>2, <5>1, <5>2, PublishOfLog, CompleteOfLog
      <4>3. CASE Completed /\ start_time = 0
        <5>1. SaveOutcome = "nothing"
          BY <4>3 DEF SaveOutcome
        <5>2. UNCHANGED fileVars /\ node' = node
          BY <2>2, <4>1, <4>3, <5>1 DEF EndCompetition, save_results
        <5> QED BY <2>2, <4>3, <5>2, CompleteOfLog
      <4>4. CASE ~Completed
        <5>1. UNCHANGED fileVars /\ node' = node
          BY <2>2, <4>1, <4>4 DEF EndCompetition
        <5> QED BY <2>2, <4>4, <5>1, CompleteOfLog
      <4> QED BY <4>2, <4>3, <4>4
    <3>4. Log!Finish
      BY <2>2, <3>1, <3>2, <3>3 DEF Log!Finish, fileVars
    <3> QED BY <3>4 DEF Log!Next
  <2>3. CASE UNCHANGED <<raceVars, end_time, node, fileVars>>
    BY <2>3 DEF raceVars, fileVars, LogStart, Log!logVars
  <2> QED BY <1>1, <2>1, <2>2, <2>3 DEF publish_vehicle_flag
<1>2. ASSUME NEW near \in BOOLEAN, gps_callback(near) PROVE [Log!Next]_Log!logVars
  <2>1. CASE CountCrossing /\ competition_active /\ current_time # None /\ IntervalElapsed
              /\ UNCHANGED <<node, fileVars>>
    <3>1. current_time \in Times /\ crossings' = Append(crossings, current_time)
      BY <2>1 DEF CountCrossing, IInv, TypeOK, TimeOrNone
    <3>2. crossings # <<>> =>
            current_time - crossings[Len(crossings)] >= MinCrossingInterval
      <4>1. SUFFICES ASSUME crossings # <<>>
                     PROVE  current_time - crossings[Len(crossings)] >= MinCrossingInterval
        OBVIOUS
      <4>2. last_crossing_time = crossings[Len(crossings)]
        BY <4>1 DEF IInv, LapLog
      <4>3. crossings[Len(crossings)] \in Times
        BY <4>1 DEF IInv, TypeOK
      <4>4. last_crossing_time # None
        BY <4>2, <4>3, TimerAssumption DEF Times
      <4> QED BY <2>1, <4>2, <4>4 DEF IntervalElapsed
    <3>3. Log!Pass
      BY <1>2, <2>1, <3>1, <3>2 DEF gps_callback, LogStart, fileVars, Log!Pass
    <3> QED BY <3>3 DEF Log!Next
  <2>2. CASE UNCHANGED <<param, vehicle_flag, lap_times, end_time, node, fileVars,
                         current_lap, last_crossing_time, crossings>>
    BY <1>2, <2>2 DEF gps_callback, LogStart, fileVars, Log!logVars
  <2>3. CASE FirstLapWithoutStart /\ competition_active
    <3>1. SaveOutcome = "nothing" /\ LogStart = None
      BY <2>3 DEF FirstLapWithoutStart, SaveOutcome, LogStart
    <3>2. /\ node = "spinning" /\ node' # "spinning"
          /\ UNCHANGED <<start_time, crossings, fileVars>>
      BY <1>2, <2>3, <3>1 DEF gps_callback, FirstLapWithoutStart, save_results
    <3>3. LogStart' = LogStart
      BY <3>2 DEF LogStart
    <3>4. Log!Stop
      BY <3>1, <3>2, <3>3 DEF Log!Stop, Log!Complete, fileVars
    <3> QED BY <3>4 DEF Log!Next
  <2> QED BY <1>2, <2>1, <2>2, <2>3
          DEF gps_callback, check_finish_line_crossing, FirstCrossing, CompleteLap
<1>3. CASE KeyboardInterrupt
  <2>1. /\ node = "spinning" /\ node' # "spinning"
        /\ UNCHANGED <<start_time, crossings>>
    BY <1>3 DEF KeyboardInterrupt, raceVars
  <2>2. LogStart' = LogStart
    BY <2>1 DEF LogStart
  <2>3. CASE competition_active /\ SaveOutcome = "file"
    <3>1. Log!Publish /\ LogStart # None
      BY <1>3, <2>3, PublishOfLog DEF KeyboardInterrupt
    <3>2. Log!Stop
      BY <2>1, <2>2, <2>3, <3>1 DEF Log!Stop
    <3> QED BY <3>2 DEF Log!Next
  <2>4. CASE ~(competition_active /\ SaveOutcome = "file")
    <3>1. UNCHANGED fileVars
      BY <1>3, <2>4 DEF KeyboardInterrupt, save_results
    <3>2. ~(competition_active /\ Log!Complete)
      BY <2>4, CompleteOfLog, CompletedSaveWrites
    <3>3. Log!Stop
      BY <2>1, <2>2, <3>1, <3>2 DEF Log!Stop, fileVars
    <3> QED BY <3>3 DEF Log!Next
  <2> QED BY <2>3, <2>4
<1>4. CASE SimClock
  BY <1>4 DEF SimClock, clock_callback, raceVars, fileVars, LogStart, Log!logVars
<1>5. ASSUME NEW p \in ParamValues, SetVehicleFlag(p) PROVE [Log!Next]_Log!logVars
  BY <1>5 DEF SetVehicleFlag, raceVars, fileVars, LogStart, Log!logVars
<1>6. CASE UNCHANGED vars
  BY <1>6 DEF vars, raceVars, fileVars, LogStart, Log!logVars
<1> QED BY <1>1, <1>2, <1>3, <1>4, <1>5, <1>6 DEF Next

(* The timer implements the abstract competition log, every step of it: what *)
(* it publishes, or loses in publishing, are the times between the crossings *)
(* it logged, of each complete competition and at its end.                   *)
THEOREM RefinesLog == Spec => ImplementsLog
<1>1. Init => Log!Init
  BY DEF Init, LogPhase, LogStart, Log!Init
<1>2. IInv /\ [Next]_vars => [Log!Next]_Log!logVars
  BY LogSimulation
<1> QED BY <1>1, <1>2, Invariance, PTL DEF Spec, ImplementsLog, Log!Spec

-----------------------------------------------------------------------------
(* The race day: the timer behind a simulator and an executor.               *)

(* How far into the window around the line a position is: the window is the  *)
(* first 2 * Tolerance - 1 positions counted in this way.                    *)
Into(p) == IF p + Tolerance - 1 < TrackLength
             THEN p + Tolerance - 1
             ELSE p + Tolerance - 1 - TrackLength

Since == sim_time - last_crossing_time

DayTyped ==
  /\ position \in 0..(TrackLength - 1)
  /\ sim_time \in Times
  /\ clock_msg \in BOOLEAN /\ gps_msg \in BOOLEAN /\ timer_tick \in BOOLEAN
  /\ away \in BOOLEAN /\ raced \in BOOLEAN

(* The node's clock is the simulator's, but for a message still to be        *)
(* handled; a crossing was timed with a clock.                               *)
ClockIsRecent ==
  /\ current_time # None => current_time = IF clock_msg THEN sim_time - 1 ELSE sim_time
  /\ clock_msg => sim_time # 0
  /\ current_time # 0
  /\ crossings # <<>> => current_time # None /\ last_crossing_time <= current_time

Base == IInv /\ DayTyped /\ ClockIsRecent

(* Of the timer's actions: a fix that counts a crossing, one that does not,  *)
(* and a start.                                                              *)
Counts ==
  /\ competition_active /\ current_time # None /\ IntervalElapsed
  /\ crossings' = Append(crossings, current_time)
  /\ crossings' # crossings /\ crossings' # <<>>
  /\ last_crossing_time' = current_time

KeepsLog == UNCHANGED <<crossings, last_crossing_time, lap_times>>

Restarts ==
  /\ ~competition_active
  /\ crossings' = <<>> /\ last_crossing_time' = None /\ lap_times' = <<>>

-----------------------------------------------------------------------------
(* A fix is counted, or leaves the log alone for one of the reasons the code *)
(* tests for, or takes the node down.                                        *)
LEMMA GpsEffect ==
  ASSUME IInv, NEW near \in BOOLEAN, gps_callback(near)
  PROVE  \/ Counts /\ near
         \/ /\ KeepsLog
            /\ \/ node' # "spinning" \/ ~near \/ ~competition_active
               \/ current_time = None \/ ~IntervalElapsed
<1>1. CASE FirstCrossing \/ CompleteLap
  <2>1. crossings' = Append(crossings, current_time) /\ last_crossing_time' = current_time
    BY <1>1 DEF FirstCrossing, CompleteLap, CountCrossing
  <2>2. CASE competition_active /\ current_time # None /\ check_finish_line_crossing(near)
    <3>1. current_time \in Times /\ crossings \in Seq(Times)
      BY <2>2 DEF IInv, TypeOK, TimeOrNone
    <3>2. Len(crossings') = Len(crossings) + 1 /\ Len(crossings) \in Nat
      BY <2>1, <3>1
    <3>3. crossings' # crossings /\ crossings' # <<>>
      BY <3>2
    <3> QED BY <2>1, <2>2, <3>3 DEF Counts, check_finish_line_crossing
  <2>3. CASE UNCHANGED <<param, vehicle_flag, lap_times, end_time, node, fileVars,
                         current_lap, last_crossing_time, crossings>>
    <3>1. ~(competition_active /\ current_time # None) \/ ~check_finish_line_crossing(near)
          \/ (competition_active /\ current_time # None /\ check_finish_line_crossing(near))
      OBVIOUS
    <3> QED BY <2>2, <2>3, <3>1 DEF KeepsLog, check_finish_line_crossing
  <2> QED BY <2>2, <2>3 DEF gps_callback
<1>2. CASE FirstLapWithoutStart
  BY <1>2 DEF FirstLapWithoutStart, KeepsLog
<1>3. CASE ~(FirstCrossing \/ CompleteLap \/ FirstLapWithoutStart)
  BY <1>3 DEF gps_callback, KeepsLog, check_finish_line_crossing
<1> QED BY <1>1, <1>2, <1>3

(* A tick of the flag timer leaves the log alone, or starts a competition.   *)
LEMMA FlagEffect ==
  ASSUME publish_vehicle_flag
  PROVE  KeepsLog \/ Restarts
<1>1. CASE StartCompetition /\ ~competition_active
  BY <1>1 DEF StartCompetition, Restarts
<1>2. CASE EndCompetition
  BY <1>2 DEF EndCompetition, KeepsLog
<1>3. CASE UNCHANGED <<raceVars, end_time, node, fileVars>>
  BY <1>3 DEF raceVars, KeepsLog
<1> QED BY <1>1, <1>2, <1>3 DEF publish_vehicle_flag

-----------------------------------------------------------------------------
(* Counted from its first position, the window is where the line is near.    *)
LEMMA Window ==
  ASSUME WindowFits, NEW p \in 0..(TrackLength - 1)
  PROVE  /\ Into(p) \in 0..(TrackLength - 1)
         /\ Near(p) <=> Into(p) <= 2 * Tolerance - 2
  BY RaceDayAssumption DEF WindowFits, Into, Near

(* The remainder of a sum of two positions.                                  *)
LEMMA Wrap ==
  ASSUME NEW n \in Nat \ {0}, NEW a \in 0..(n - 1), NEW b \in 0..(n - 1)
  PROVE  (a + b) % n = IF a + b < n THEN a + b ELSE a + b - n
  OBVIOUS

(* A step of the car, in the same count.                                     *)
LEMMA Advance ==
  ASSUME WindowFits, NEW p \in 0..(TrackLength - 1), NEW v \in Speeds
  PROVE  /\ (p + v) % TrackLength \in 0..(TrackLength - 1)
         /\ Into((p + v) % TrackLength) =
              IF Into(p) + v < TrackLength THEN Into(p) + v ELSE Into(p) + v - TrackLength
<1>1. TrackLength \in Nat \ {0} /\ v \in 0..(TrackLength - 1) /\ Tolerance \in Nat
  BY RaceDayAssumption
<1>2. (p + v) % TrackLength = IF p + v < TrackLength THEN p + v ELSE p + v - TrackLength
  BY <1>1, Wrap
<1>3. Tolerance # 0 /\ 2 * Tolerance <= TrackLength
  BY DEF WindowFits
<1> QED BY <1>1, <1>2, <1>3 DEF Into

-----------------------------------------------------------------------------
(* The kinds of values in a state of the race day.                           *)
LEMMA DayValues ==
  ASSUME Base
  PROVE  /\ sim_time \in Nat /\ None \notin Int
         /\ current_time # None =>
              current_time \in Nat /\ sim_time - 1 <= current_time /\ current_time <= sim_time
         /\ crossings # <<>> =>
              /\ last_crossing_time \in Nat /\ last_crossing_time # None
              /\ Since \in Nat /\ current_time # None
<1>1. sim_time \in Nat /\ None \notin Int
  BY TimerAssumption DEF Base, DayTyped, Times
<1>2. current_time # None =>
        current_time \in Nat /\ sim_time - 1 <= current_time /\ current_time <= sim_time
  <2> SUFFICES ASSUME current_time # None
               PROVE  current_time \in Nat /\ sim_time - 1 <= current_time /\ current_time <= sim_time
    OBVIOUS
  <2>1. current_time \in Nat
    BY DEF Base, IInv, TypeOK, TimeOrNone, Times
  <2>2. CASE clock_msg
    <3>1. current_time = sim_time - 1
      BY <2>2 DEF Base, ClockIsRecent
    <3> QED BY <1>1, <2>1, <3>1
  <2>3. CASE ~clock_msg
    <3>1. current_time = sim_time
      BY <2>3 DEF Base, ClockIsRecent
    <3> QED BY <1>1, <2>1, <3>1
  <2> QED BY <2>2, <2>3
<1>3. ASSUME crossings # <<>>
      PROVE  /\ last_crossing_time \in Nat /\ last_crossing_time # None
             /\ Since \in Nat /\ current_time # None
  <2>1. crossings \in Seq(Times) /\ last_crossing_time = crossings[Len(crossings)]
    BY <1>3 DEF Base, IInv, TypeOK, LapLog
  <2>2. Len(crossings) \in 1..Len(crossings)
    BY <1>3, <2>1
  <2>3. last_crossing_time \in Times
    BY <2>1, <2>2
  <2>4. current_time # None /\ last_crossing_time <= current_time
    BY <1>3 DEF Base, ClockIsRecent
  <2>5. last_crossing_time \in Nat
    BY <2>3 DEF Times
  <2>6. Since \in Nat
    BY <1>1, <1>2, <2>4, <2>5 DEF Since
  <2> QED BY <1>1, <2>4, <2>5, <2>6
<1> QED BY <1>1, <1>2, <1>3

(* A step of the day is a step of the timer, or leaves the timer alone.      *)
LEMMA TimerStep ==
  ASSUME Base, [DayNext]_dayVars
  PROVE  [Next]_vars
<1>1. ASSUME NEW v \in Speeds, Drive(v) PROVE UNCHANGED vars
  BY <1>1 DEF Drive
<1>2. CASE DayClock
  <2>1. clock_msg /\ clock_callback(sim_time)
    BY <1>2 DEF DayClock
  <2>2. sim_time \in Times
    BY DEF Base, DayTyped
  <2>3. current_time # None => sim_time > current_time
    <3>1. current_time # None => current_time = sim_time - 1
      BY <2>1 DEF Base, ClockIsRecent
    <3> QED BY <3>1, DayValues
  <2> QED BY <2>1, <2>2, <2>3 DEF Next, SimClock
<1>3. CASE DayGps
  <2>1. Near(position) \in BOOLEAN
    BY DEF Near
  <2> QED BY <1>3, <2>1 DEF DayGps, Next
<1>4. CASE DayFlagTimer
  BY <1>4 DEF DayFlagTimer, Next
<1>5. CASE DayOperator
  BY <1>5 DEF DayOperator, Next
<1>6. CASE UNCHANGED dayVars
  BY <1>6 DEF dayVars
<1> QED BY <1>1, <1>2, <1>3, <1>4, <1>5, <1>6 DEF DayNext

(* Every step of the day keeps the clocks together.                          *)
LEMMA BaseStep ==
  ASSUME Base, [DayNext]_dayVars
  PROVE  Base'
<1>1. IInv'
  BY TimerStep, TypeStep, LogStep, SpacingStep, EndStep, SavedStep DEF IInv, Base
<1>2. DayTyped'
  <2> USE DEF Base, DayTyped
  <2>1. ASSUME NEW v \in Speeds, Drive(v) PROVE DayTyped'
    <3>1. position' \in 0..(TrackLength - 1)
      <4>1. v \in 0..(TrackLength - 1) /\ TrackLength \in Nat \ {0} /\ position' = (position + v) % TrackLength
        BY <2>1, RaceDayAssumption DEF Drive
      <4> QED BY <4>1, Wrap
    <3>2. sim_time' \in Times
      BY <2>1, TimerAssumption DEF Drive, Times
    <3>3. away' \in BOOLEAN /\ raced' \in BOOLEAN
      BY <2>1 DEF Drive
    <3> QED BY <2>1, <3>1, <3>2, <3>3 DEF Drive
  <2>2. CASE DayClock
    BY <2>2 DEF DayClock
  <2>3. CASE DayGps
    BY <2>3 DEF DayGps
  <2>4. CASE DayFlagTimer
    BY <2>4 DEF DayFlagTimer
  <2>5. CASE DayOperator
    BY <2>5 DEF DayOperator
  <2>6. CASE UNCHANGED dayVars
    BY <2>6 DEF dayVars
  <2> QED BY <2>1, <2>2, <2>3, <2>4, <2>5, <2>6 DEF DayNext
<1>3. ClockIsRecent'
  <2>1. ASSUME UNCHANGED <<current_time, sim_time, clock_msg>>,
               KeepsLog \/ Restarts \/ Counts
        PROVE  ClockIsRecent'
    <3>1. crossings' # <<>> => current_time' # None /\ last_crossing_time' <= current_time'
      <4>1. CASE KeepsLog
        BY <2>1, <4>1 DEF KeepsLog, Base, ClockIsRecent
      <4>2. CASE Restarts
        BY <4>2 DEF Restarts
      <4>3. CASE Counts
        BY <2>1, <4>3, DayValues DEF Counts
      <4> QED BY <2>1, <4>1, <4>2, <4>3
    <3> QED BY <2>1, <3>1 DEF Base, ClockIsRecent
  <2>2. ASSUME NEW v \in Speeds, Drive(v) PROVE ClockIsRecent'
    <3>1. /\ ~clock_msg /\ clock_msg' /\ sim_time' = sim_time + 1 /\ sim_time \in Nat
          /\ UNCHANGED <<current_time, crossings, last_crossing_time>>
      BY <2>2, DayValues DEF Drive, vars, raceVars
    <3>2. sim_time' # 0 /\ sim_time' - 1 = sim_time
      BY <3>1
    <3>3. current_time # None => current_time = sim_time
      BY <3>1 DEF Base, ClockIsRecent
    <3> QED BY <3>1, <3>2, <3>3 DEF Base, ClockIsRecent
  <2>3. CASE DayClock
    <3>1. /\ clock_msg /\ ~clock_msg' /\ current_time' = sim_time /\ sim_time' = sim_time
          /\ UNCHANGED <<crossings, last_crossing_time>>
      BY <2>3 DEF DayClock, clock_callback, raceVars
    <3>2. sim_time # 0 /\ sim_time \in Nat /\ sim_time # None
      BY <3>1, DayValues DEF Base, ClockIsRecent
    <3>3. crossings # <<>> => last_crossing_time <= sim_time
      BY DayValues DEF Base, ClockIsRecent
    <3> QED BY <3>1, <3>2, <3>3 DEF ClockIsRecent
  <2>4. CASE DayGps
    <3>1. gps_callback(Near(position)) /\ Near(position) \in BOOLEAN
      BY <2>4 DEF DayGps, Near
    <3>2. KeepsLog \/ Counts
      BY <3>1, GpsEffect DEF Base
    <3>3. UNCHANGED <<current_time, sim_time, clock_msg>>
      BY <2>4, <3>1 DEF DayGps, gps_callback
    <3> QED BY <2>1, <3>2, <3>3
  <2>5. CASE DayFlagTimer
    <3>1. KeepsLog \/ Restarts
      BY <2>5, FlagEffect DEF DayFlagTimer, vars, raceVars, KeepsLog
    <3>2. UNCHANGED <<current_time, sim_time, clock_msg>>
      BY <2>5 DEF DayFlagTimer, publish_vehicle_flag, vars
    <3> QED BY <2>1, <3>1, <3>2
  <2>6. CASE DayOperator \/ UNCHANGED dayVars
    BY <2>1, <2>6 DEF DayOperator, SetVehicleFlag, dayVars, vars, raceVars, KeepsLog
  <2> QED BY <2>2, <2>3, <2>4, <2>5, <2>6 DEF DayNext
<1> QED BY <1>1, <1>2, <1>3 DEF Base

(* The day begins with the clocks together.                                  *)
LEMMA BaseInit == DayInit => Base
<1> SUFFICES ASSUME DayInit PROVE Base
  OBVIOUS
<1>1. IInv
  BY InitIInv DEF DayInit
<1>2. DayTyped
  <2>1. position \in 0..(TrackLength - 1)
    BY DEF DayInit
  <2>2. sim_time \in Times
    BY TimerAssumption DEF DayInit, Times
  <2> QED BY <2>1, <2>2 DEF DayInit, DayTyped
<1>3. ClockIsRecent
  BY TimerAssumption DEF DayInit, Init, ClockIsRecent
<1> QED BY <1>1, <1>2, <1>3 DEF Base

(* On a race day the timer does what it does on its own: everything proved   *)
(* of CompetitionTimer holds here.                                           *)
THEOREM RaceDayImplementsTimer == DaySpec => Spec /\ []Base
<1>1. DayInit => Init
  BY DEF DayInit
<1>2. Base /\ [DayNext]_dayVars => Base' /\ [Next]_vars
  BY BaseStep, TimerStep
<1> QED BY <1>1, <1>2, BaseInit, PTL DEF DaySpec, Spec

-----------------------------------------------------------------------------
(* What the car's steps do to the log, and to what visits are told by.       *)
LEMMA DriveEffect ==
  ASSUME Base, NEW v \in Speeds, Drive(v)
  PROVE  /\ UNCHANGED <<vars, crossings, last_crossing_time, lap_times, competition_active,
                        vehicle_flag, current_time, node>>
         /\ sim_time' = sim_time + 1
         /\ crossings # <<>> => Since' = Since + 1
         /\ position' = (position + v) % TrackLength
         /\ away' <=> (away \/ ~Near(position'))
<1>1. /\ UNCHANGED <<vars, crossings, last_crossing_time, lap_times, competition_active,
                     vehicle_flag, current_time, node>>
      /\ sim_time' = sim_time + 1 /\ position' = (position + v) % TrackLength
  BY DEF Drive, vars, raceVars
<1>2. away' <=> (away \/ ~Near(position'))
  BY DEF Drive
<1>3. crossings # <<>> => Since' = Since + 1
  BY <1>1, DayValues DEF Since
<1> QED BY <1>1, <1>2, <1>3

(* The other steps count the car, start afresh, or change none of that.      *)
LEMMA LogEffect ==
  ASSUME Base, DayNext, \A v \in Speeds : ~Drive(v)
  PROVE  \/ UNCHANGED <<crossings, last_crossing_time, lap_times, position, sim_time, away>>
         \/ /\ DayGps /\ Counts /\ Near(position) /\ away' = FALSE
            /\ UNCHANGED <<position, sim_time>>
         \/ /\ DayFlagTimer /\ (KeepsLog \/ Restarts)
            /\ crossings' = <<>> /\ away' = TRUE
            /\ UNCHANGED <<position, sim_time>>
<1>1. CASE DayClock
  BY <1>1 DEF DayClock, clock_callback, raceVars
<1>2. CASE DayOperator
  BY <1>2 DEF DayOperator, SetVehicleFlag, raceVars
<1>3. CASE DayGps
  <2>1. gps_callback(Near(position)) /\ Near(position) \in BOOLEAN
    BY <1>3 DEF DayGps, Near
  <2>2. (Counts /\ Near(position)) \/ KeepsLog
    BY <2>1, GpsEffect DEF Base
  <2>3. CASE Counts /\ Near(position)
    BY <1>3, <2>3 DEF DayGps, Counts
  <2>4. CASE KeepsLog
    BY <1>3, <2>4 DEF DayGps, KeepsLog
  <2> QED BY <2>2, <2>3, <2>4
<1>4. CASE DayFlagTimer
  <2>1. KeepsLog \/ Restarts
    BY <1>4, FlagEffect DEF DayFlagTimer, vars, raceVars, KeepsLog
  <2>2. CASE Restarts
    BY <1>4, <2>2 DEF DayFlagTimer, Restarts
  <2>3. CASE KeepsLog /\ crossings # <<>>
    BY <1>4, <2>3 DEF DayFlagTimer, KeepsLog
  <2>4. CASE KeepsLog /\ crossings = <<>>
    BY <1>4, <2>4 DEF DayFlagTimer, KeepsLog
  <2> QED BY <2>1, <2>2, <2>3, <2>4
<1> QED BY <1>1, <1>2, <1>3, <1>4 DEF DayNext

-----------------------------------------------------------------------------
(* One crossing per visit.  While the car has not been away since it was     *)
(* counted it is in the window, as far in as it must be by now.              *)
Visit(slow) ==
  ~away => /\ crossings # <<>> /\ Near(position)
           /\ slow * (Since - 1) <= Into(position)

(* Products with the slowest speed.                                          *)
LEMMA Slowly ==
  ASSUME NEW m \in Nat, NEW a \in Int, NEW b \in Int, a <= b
  PROVE  m * a <= m * b
  OBVIOUS

LEMMA Product ==
  ASSUME NEW m \in Nat, NEW n \in Nat
  PROVE  m * n \in Nat
  OBVIOUS

LEMMA OneMoreStep ==
  ASSUME NEW m \in Nat, NEW a \in Int
  PROVE  m * (a + 1) = m * a + m
  OBVIOUS

LEMMA VisitStep ==
  ASSUME NEW slow, AtLeast(slow), WindowFits, Base, Visit(slow), [DayNext]_dayVars
  PROVE  Visit(slow)'
<1>1. slow \in Nat /\ slow # 0 /\ Tolerance \in Nat /\ TrackLength \in Nat
  BY RaceDayAssumption DEF AtLeast
<1>2. position \in 0..(TrackLength - 1) /\ Into(position) \in 0..(TrackLength - 1)
  BY Window DEF Base, DayTyped
<1>3. ASSUME NEW v \in Speeds, Drive(v), ~away' PROVE Visit(slow)'
  <2>1. ~away /\ Near(position')
    BY <1>3, DriveEffect
  <2>2. crossings # <<>> /\ Near(position) /\ slow * (Since - 1) <= Into(position)
    BY <2>1 DEF Visit
  <2>3. Into(position) <= 2 * Tolerance - 2
    BY <1>2, <2>2, Window
  <2>4. v \in Nat /\ slow <= v /\ v + 2 * Tolerance - 2 < TrackLength
    BY RaceDayAssumption DEF AtLeast, WindowFits
  <2>5. Into(position') = Into(position) + v
    <3>1. Into(position) + v < TrackLength
      BY <1>1, <1>2, <2>3, <2>4
    <3>2. position' = (position + v) % TrackLength
      BY <1>3, DriveEffect
    <3>3. Into((position + v) % TrackLength) = Into(position) + v
      BY <1>2, <3>1, Advance
    <3> QED BY <3>2, <3>3
  <2>6. Since \in Nat /\ Since' = Since + 1 /\ crossings' = crossings
    BY <1>3, <2>2, DayValues, DriveEffect
  <2>7. slow * Since = slow * (Since - 1) + slow
    <3>1. Since - 1 \in Int /\ (Since - 1) + 1 = Since
      BY <2>6
    <3>2. slow * ((Since - 1) + 1) = slow * (Since - 1) + slow
      BY <1>1, <3>1, OneMoreStep
    <3> QED BY <3>1, <3>2
  <2>8. Since' - 1 = Since
    BY <2>6
  <2>9. slow * Since <= Into(position')
    <3>1. slow * (Since - 1) \in Int
      BY <1>1, <2>6
    <3> QED BY <1>1, <1>2, <2>2, <2>4, <2>5, <2>7, <3>1
  <2>10. slow * (Since' - 1) <= Into(position')
    BY <2>8, <2>9
  <2>11. Visit(slow)' <=> (~away' => /\ crossings' # <<>> /\ Near(position')
                                   /\ slow * (Since' - 1) <= Into(position'))
    BY DEF Visit, Near, Into
  <2> QED BY <2>1, <2>2, <2>6, <2>10, <2>11
<1>4. CASE UNCHANGED <<crossings, last_crossing_time, lap_times, position, sim_time, away>>
  BY <1>4 DEF Visit, Since, Near, Into
<1>5. CASE /\ DayGps /\ Counts /\ Near(position) /\ away' = FALSE
           /\ UNCHANGED <<position, sim_time>>
  <2>1. current_time \in Nat /\ sim_time \in Nat /\ sim_time - 1 <= current_time
    BY <1>5, DayValues DEF Counts
  <2>2. Since' = sim_time - current_time
    BY <1>5 DEF Counts, Since
  <2>3. Since' - 1 \in Int /\ Since' - 1 <= 0
    BY <2>1, <2>2
  <2>4. slow * (Since' - 1) <= Into(position)
    <3>1. slow * (Since' - 1) <= slow * 0
      BY <1>1, <2>3, Slowly
    <3> QED BY <1>1, <1>2, <2>3, <3>1
  <2>5. Near(position)' /\ Into(position)' = Into(position) /\ crossings' # <<>>
    BY <1>5 DEF Near, Into, Counts
  <2> QED BY <2>4, <2>5 DEF Visit
<1>6. CASE away'
  BY <1>6 DEF Visit
<1>7. CASE UNCHANGED dayVars
  BY <1>4, <1>7 DEF dayVars, vars, raceVars
<1>8. CASE DayNext /\ \A v \in Speeds : ~Drive(v)
  BY <1>4, <1>5, <1>6, <1>8, LogEffect
<1> QED BY <1>3, <1>6, <1>7, <1>8 DEF DayNext

(* The car is counted once per visit to the line, if the slowest speed takes *)
(* it through the window before the minimum interval is over.                *)
THEOREM OnePerVisit ==
  ASSUME NEW slow, AtLeast(slow), LeavesInTime(slow), WindowFits
  PROVE  DaySpec => OneCrossingPerVisit
<1>1. ASSUME Base, Visit(slow), [DayNext]_dayVars
      PROVE  [crossings' # crossings /\ crossings # <<>> /\ crossings' # <<>> => away]_dayVars
  <2> SUFFICES ASSUME crossings' # crossings, crossings # <<>>, crossings' # <<>>, ~away
               PROVE  FALSE
    OBVIOUS
  <2>1. Counts
    <3>1. ASSUME NEW v \in Speeds, Drive(v) PROVE FALSE
      BY <1>1, <3>1, DriveEffect
    <3>2. DayNext
      BY <1>1 DEF dayVars, vars, raceVars
    <3> QED BY <1>1, <3>1, <3>2, LogEffect
  <2>2. /\ Since \in Nat /\ current_time \in Nat /\ current_time <= sim_time
        /\ sim_time \in Nat /\ last_crossing_time \in Nat /\ last_crossing_time # None
    BY <1>1, DayValues
  <2>3. MinCrossingInterval <= Since /\ MinCrossingInterval \in Nat
    <3>1. current_time - last_crossing_time >= MinCrossingInterval
      BY <2>1, <2>2 DEF Counts, IntervalElapsed
    <3> QED BY <2>2, <3>1, TimerAssumption DEF Since
  <2>4. slow \in Nat /\ Tolerance \in Nat
    BY RaceDayAssumption DEF AtLeast
  <2>5. slow * (MinCrossingInterval - 1) <= slow * (Since - 1)
    <3>1. MinCrossingInterval - 1 \in Int /\ Since - 1 \in Int
          /\ MinCrossingInterval - 1 <= Since - 1
      BY <2>2, <2>3
    <3> QED BY <2>4, <3>1, Slowly
  <2>6. Into(position) \in Nat /\ Into(position) <= 2 * Tolerance - 2
        /\ slow * (Since - 1) <= Into(position)
    <3>1. position \in 0..(TrackLength - 1) /\ TrackLength \in Nat
      BY <1>1, RaceDayAssumption DEF Base, DayTyped
    <3> QED BY <1>1, <3>1, Window DEF Visit
  <2>7. slow * (MinCrossingInterval - 1) \in Int /\ slow * (Since - 1) \in Int
    BY <2>2, <2>3, <2>4
  <2> QED BY <2>4, <2>5, <2>6, <2>7 DEF LeavesInTime
<1>2. DayInit => Visit(slow)
  BY DEF DayInit, Visit
<1>3. Base /\ Visit(slow) /\ [DayNext]_dayVars => Visit(slow)'
  BY VisitStep
<1> QED BY <1>1, <1>2, <1>3, RaceDayImplementsTimer, PTL DEF DaySpec, OneCrossingPerVisit

-----------------------------------------------------------------------------
(* No lap under black.  A black flag over a competition that still runs was  *)
(* raised by the last lap, and the flag timer is about to see it.            *)
BlackEnds ==
  competition_active /\ vehicle_flag = "BLACK" =>
    crossings # <<>> /\ Since <= IF timer_tick THEN 2 ELSE 1

LEMMA BlackStep ==
  ASSUME Base, BlackEnds, [DayNext]_dayVars
  PROVE  BlackEnds'
<1>1. ASSUME NEW v \in Speeds, Drive(v) PROVE BlackEnds'
  <2> SUFFICES ASSUME competition_active, vehicle_flag = "BLACK"
               PROVE  crossings # <<>> /\ Since' <= 2
    BY <1>1, DriveEffect DEF BlackEnds, Drive
  <2>1. crossings # <<>> /\ Since <= 1
    BY <1>1 DEF BlackEnds, Drive
  <2>2. Since \in Nat
    BY <2>1, DayValues
  <2>3. Since' = Since + 1
    BY <1>1, <2>1, DriveEffect
  <2>4. Since' <= 2
    BY <2>1, <2>2, <2>3
  <2> QED BY <2>1, <2>4
<1>2. ASSUME UNCHANGED <<competition_active, vehicle_flag, crossings, last_crossing_time,
                         sim_time, timer_tick>>
      PROVE  BlackEnds'
  BY <1>2 DEF BlackEnds, Since
<1>3. CASE DayGps
  <2>1. gps_callback(Near(position)) /\ Near(position) \in BOOLEAN
    BY <1>3 DEF DayGps, Near
  <2>2. CASE Counts
    <3>1. current_time \in Nat /\ sim_time \in Nat /\ sim_time - 1 <= current_time
      BY <2>2, DayValues DEF Counts
    <3>2. crossings' # <<>> /\ Since' = sim_time - current_time
      BY <1>3, <2>2 DEF Counts, Since, DayGps
    <3>3. Since' <= 1 /\ Since' <= 2
      BY <3>1, <3>2
    <3> QED BY <3>2, <3>3 DEF BlackEnds
  <2>3. CASE ~Counts
    <3>1. KeepsLog
      BY <2>1, <2>3, GpsEffect DEF Base
    <3>2. ~FirstCrossing /\ ~CompleteLap
      <4>1. ASSUME CountCrossing PROVE FALSE
        <5>1. crossings' = Append(crossings, current_time) /\ crossings' = crossings
          BY <3>1, <4>1 DEF CountCrossing, KeepsLog
        <5>2. crossings \in Seq(Times)
          BY DEF Base, IInv, TypeOK
        <5>3. last_crossing_time' = current_time /\ last_crossing_time' = last_crossing_time
          BY <3>1, <4>1 DEF CountCrossing, KeepsLog
        <5>4. Len(Append(crossings, current_time)) = Len(crossings) + 1 /\ Len(crossings) \in Nat
          BY <5>2
        <5> QED BY <5>1, <5>4
      <4> QED BY <4>1 DEF FirstCrossing, CompleteLap
    <3>3. UNCHANGED <<vehicle_flag, competition_active>>
      BY <2>1, <3>2 DEF gps_callback, FirstLapWithoutStart
    <3> QED BY <1>2, <1>3, <3>1, <3>3 DEF KeepsLog, DayGps
  <2> QED BY <2>2, <2>3
<1>4. CASE DayFlagTimer
  <2>1. publish_vehicle_flag
    BY <1>4 DEF DayFlagTimer
  <2>2. ~(competition_active' /\ vehicle_flag' = "BLACK")
    <3>1. CASE vehicle_flag' \in GreenFlags
      BY <3>1 DEF GreenFlags
    <3>2. CASE EndCompetition
      BY <3>2 DEF EndCompetition
    <3>3. CASE competition_active' = competition_active /\ ~competition_active
      BY <3>3
    <3>4. CASE vehicle_flag' = "RED"
      BY <3>4
    <3> QED BY <2>1, <3>1, <3>2, <3>3, <3>4 DEF publish_vehicle_flag, raceVars
  <2> QED BY <2>2 DEF BlackEnds
<1>5. CASE DayClock \/ DayOperator \/ UNCHANGED dayVars
  BY <1>2, <1>5 DEF DayClock, clock_callback, DayOperator, SetVehicleFlag, dayVars, vars, raceVars
<1> QED BY <1>1, <1>3, <1>4, <1>5 DEF DayNext

(* No lap is recorded under a black flag, if the minimum interval is longer  *)
(* than the flag timer and the clock together may be behind.                 *)
THEOREM NoneUnderBlack ==
  ASSUME MinCrossingInterval >= 3
  PROVE  DaySpec => NoLapUnderBlack
<1>1. ASSUME Base, BlackEnds, [DayNext]_dayVars
      PROVE  [Len(lap_times') > Len(lap_times) => vehicle_flag # "BLACK"]_dayVars
  <2> SUFFICES ASSUME Len(lap_times') > Len(lap_times), vehicle_flag = "BLACK"
               PROVE  FALSE
    OBVIOUS
  <2>1. Len(lap_times) \in Nat
    BY <1>1 DEF Base, IInv, TypeOK
  <2>2. lap_times' # lap_times /\ lap_times' # <<>>
    BY <2>1
  <2>3. Counts
    <3>1. ASSUME NEW v \in Speeds, Drive(v) PROVE FALSE
      BY <1>1, <2>2, <3>1, DriveEffect
    <3>2. DayNext
      BY <1>1, <2>2 DEF dayVars, vars, raceVars
    <3> QED BY <1>1, <2>2, <3>1, <3>2, LogEffect DEF KeepsLog, Restarts
  <2>4. crossings # <<>> /\ Since <= IF timer_tick THEN 2 ELSE 1
    BY <1>1, <2>3 DEF BlackEnds, Counts
  <2>5. Since <= 2
    <3>1. CASE timer_tick
      BY <2>4, <3>1
    <3>2. CASE ~timer_tick
      <4>1. Since <= 1 /\ Since \in Nat
        BY <1>1, <2>4, <3>2, DayValues
      <4> QED BY <4>1
    <3> QED BY <3>1, <3>2
  <2>6. /\ Since \in Nat /\ current_time \in Nat /\ current_time <= sim_time
        /\ sim_time \in Nat /\ last_crossing_time \in Nat /\ last_crossing_time # None
    BY <1>1, <2>4, DayValues
  <2>7. current_time - last_crossing_time >= MinCrossingInterval
    BY <2>3, <2>6 DEF Counts, IntervalElapsed
  <2> QED BY <2>5, <2>6, <2>7, TimerAssumption DEF Since
<1>2. DayInit => BlackEnds
  BY DEF DayInit, Init, BlackEnds
<1>3. Base /\ BlackEnds /\ [DayNext]_dayVars => BlackEnds'
  BY BlackStep
<1> QED BY <1>1, <1>2, <1>3, RaceDayImplementsTimer, PTL DEF DaySpec, NoLapUnderBlack

-----------------------------------------------------------------------------
(* No visit is missed.  By the time the car comes round, the interval since  *)
(* its last crossing is over.                                                *)
Lap(fast) ==
  crossings # <<>> =>
    /\ Into(position) - (2 * Tolerance - 2) <= fast * Since
    /\ away /\ Near(position) =>
         TrackLength + Into(position) - (2 * Tolerance - 2) <= fast * Since

(* A visit whose fix was taken by a node that times the car was counted.     *)
Counted ==
  Near(position) /\ raced /\ ~gps_msg =>
    competition_active /\ crossings # <<>> /\ ~away

LEMMA Further ==
  ASSUME NEW a \in Int, NEW b \in Int, NEW c \in Int, NEW m \in Int, NEW v \in Int,
         a - c <= b, v <= m
  PROVE  a + v - c <= b + m
  OBVIOUS

LEMMA LapStep ==
  ASSUME NEW fast, AtMost(fast), WindowFits, Base, Lap(fast), [DayNext]_dayVars
  PROVE  Lap(fast)'
<1>1. fast \in Nat /\ Tolerance \in Nat /\ TrackLength \in Nat
  BY RaceDayAssumption DEF AtMost
<1>2. position \in 0..(TrackLength - 1) /\ Into(position) \in 0..(TrackLength - 1)
  BY Window DEF Base, DayTyped
<1>3. ASSUME NEW v \in Speeds, Drive(v), crossings # <<>> PROVE Lap(fast)'
  <2>1. v \in Nat /\ v <= fast /\ v + 2 * Tolerance - 2 < TrackLength
    BY RaceDayAssumption DEF AtMost, WindowFits
  <2>2. Since \in Nat /\ Since' = Since + 1
    BY <1>3, DayValues, DriveEffect
  <2>3. fast * Since' = fast * Since + fast /\ fast * Since \in Int /\ fast * Since' \in Int
    <3>1. fast * (Since + 1) = fast * Since + fast
      BY <1>1, <2>2, OneMoreStep
    <3> QED BY <1>1, <2>2, <3>1
  <2>4. position' = (position + v) % TrackLength /\ position' \in 0..(TrackLength - 1)
    BY <1>2, <1>3, Advance, DriveEffect
  <2>5. Into(position') = IF Into(position) + v < TrackLength
                            THEN Into(position) + v ELSE Into(position) + v - TrackLength
    BY <1>2, <2>4, Advance
  <2>6. Into(position) - (2 * Tolerance - 2) <= fast * Since
    BY <1>3 DEF Lap
  <2>7. Into(position') - (2 * Tolerance - 2) <= fast * Since'
    BY <1>1, <1>2, <2>1, <2>3, <2>5, <2>6
  <2>8. ASSUME away', Near(position')
        PROVE  TrackLength + Into(position') - (2 * Tolerance - 2) <= fast * Since'
    <3>1. Into(position') <= 2 * Tolerance - 2
      BY <2>4, <2>8, Window
    <3>2. CASE ~Near(position)
      <4>1. ~(Into(position) <= 2 * Tolerance - 2)
        BY <1>2, <3>2, Window
      <4>2. TrackLength + Into(position') = Into(position) + v
        BY <1>1, <1>2, <2>1, <2>5, <3>1, <4>1
      <4>3. Into(position) + v - (2 * Tolerance - 2) <= fast * Since + fast
        BY <1>1, <1>2, <2>1, <2>3, <2>6, Further
      <4>4. TrackLength + Into(position') - (2 * Tolerance - 2)
              = Into(position) + v - (2 * Tolerance - 2)
        BY <1>1, <1>2, <2>1, <2>5, <4>2
      <4> QED BY <2>3, <4>3, <4>4
    <3>3. CASE Near(position)
      <4>1. away
        BY <1>3, <2>8, DriveEffect
      <4>2. TrackLength + Into(position) - (2 * Tolerance - 2) <= fast * Since
        BY <1>3, <3>3, <4>1 DEF Lap
      <4>3. Into(position) <= 2 * Tolerance - 2
        BY <1>2, <3>3, Window
      <4>4. Into(position') = Into(position) + v
        BY <1>1, <1>2, <2>1, <2>5, <4>3
      <4> QED BY <1>1, <1>2, <2>1, <2>3, <4>2, <4>4
    <3> QED BY <3>2, <3>3
  <2>9. Lap(fast)' <=>
          (crossings' # <<>> =>
             /\ Into(position') - (2 * Tolerance - 2) <= fast * Since'
             /\ away' /\ Near(position') =>
                  TrackLength + Into(position') - (2 * Tolerance - 2) <= fast * Since')
    BY DEF Lap, Near, Into
  <2> QED BY <2>7, <2>8, <2>9
<1>4. CASE UNCHANGED <<crossings, last_crossing_time, lap_times, position, sim_time, away>>
  BY <1>4 DEF Lap, Since, Near, Into
<1>5. CASE /\ DayGps /\ Counts /\ Near(position) /\ away' = FALSE
           /\ UNCHANGED <<position, sim_time>>
  <2>1. current_time \in Nat /\ sim_time \in Nat /\ current_time <= sim_time
    BY <1>5, DayValues DEF Counts
  <2>2. Since' = sim_time - current_time
    BY <1>5 DEF Counts, Since
  <2>3. Since' \in Nat
    BY <2>1, <2>2
  <2>4. fast * Since' \in Nat
    BY <1>1, <2>3, Product, Zenon
  <2>5. Into(position)' = Into(position) /\ Into(position) <= 2 * Tolerance - 2
    BY <1>2, <1>5, Window DEF Into
  <2>6. Into(position)' - (2 * Tolerance - 2) <= fast * Since'
    BY <1>1, <1>2, <2>4, <2>5
  <2> QED BY <1>5, <2>6 DEF Lap
<1>6. CASE crossings' = <<>>
  BY <1>6 DEF Lap
<1>7. CASE UNCHANGED dayVars
  BY <1>4, <1>7 DEF dayVars, vars, raceVars
<1>8. CASE DayNext /\ \A v \in Speeds : ~Drive(v)
  BY <1>4, <1>5, <1>6, <1>8, LogEffect
<1>9. ASSUME NEW v \in Speeds, Drive(v), crossings = <<>> PROVE Lap(fast)'
  BY <1>6, <1>9, DriveEffect
<1> QED BY <1>3, <1>7, <1>8, <1>9 DEF DayNext

LEMMA CountedStep ==
  ASSUME NEW fast, AtMost(fast), LapOutlasts(fast), WindowFits,
         Base, Lap(fast), Counted, [DayNext]_dayVars
  PROVE  Counted'
<1>1. ASSUME NEW v \in Speeds, Drive(v) PROVE Counted'
  BY <1>1 DEF Drive, Counted
<1>2. ASSUME UNCHANGED <<competition_active, crossings, position, gps_msg, away, raced>>
      PROVE  Counted'
  BY <1>2 DEF Counted, Near
<1>3. CASE DayGps
  <2> SUFFICES ASSUME Near(position'), raced'
               PROVE  competition_active' /\ crossings' # <<>> /\ ~away'
    BY DEF Counted, Near
  <2>1. gps_callback(TRUE) /\ position' = position /\ Near(position)
    <3>1. gps_callback(Near(position)) /\ position' = position
      BY <1>3 DEF DayGps
    <3>2. Near(position) = TRUE
      BY <3>1 DEF Near
    <3> QED BY <3>1, <3>2
  <2>2. Timed'
    BY <1>3 DEF DayGps
  <2>3. /\ node' = "spinning" /\ competition_active' /\ competition_active
        /\ current_time # None
    BY <2>1, <2>2 DEF Timed, gps_callback
  <2>4. CASE Counts
    BY <1>3, <2>3, <2>4 DEF DayGps, Counts
  <2>5. CASE KeepsLog /\ ~IntervalElapsed
    <3>1. last_crossing_time # None /\ ~(current_time - last_crossing_time >= MinCrossingInterval)
      BY <2>5 DEF IntervalElapsed
    <3>2. crossings # <<>>
      BY <3>1 DEF Base, IInv, LapLog
    <3>3. ASSUME away PROVE FALSE
      <4>1. fast \in Nat /\ Tolerance \in Nat /\ TrackLength \in Nat /\ MinCrossingInterval \in Nat
        BY RaceDayAssumption, TimerAssumption DEF AtMost
      <4>2. Into(position) \in 0..(TrackLength - 1)
        BY Window DEF Base, DayTyped
      <4>3. TrackLength + Into(position) - (2 * Tolerance - 2) <= fast * Since
        BY <2>1, <3>2, <3>3 DEF Lap
      <4>4. Since \in Nat /\ Since <= MinCrossingInterval
        <5>1. /\ current_time \in Nat /\ sim_time \in Nat /\ sim_time - 1 <= current_time
              /\ last_crossing_time \in Nat /\ Since \in Nat
          BY <2>3, <3>2, DayValues
        <5> QED BY <3>1, <4>1, <5>1 DEF Since
      <4>5. fast * Since <= fast * MinCrossingInterval
        BY <4>1, <4>4, Slowly
      <4>6. fast * Since \in Nat /\ fast * MinCrossingInterval \in Nat
        BY <4>1, <4>4
      <4>7. fast * MinCrossingInterval < TrackLength - (2 * Tolerance - 2)
        BY DEF LapOutlasts
      <4> QED BY <4>1, <4>2, <4>3, <4>5, <4>6, <4>7
    <3> QED BY <1>3, <2>3, <2>5, <3>2, <3>3 DEF DayGps, KeepsLog
  <2> QED BY <2>1, <2>3, <2>4, <2>5, GpsEffect DEF Base
<1>4. CASE DayFlagTimer
  <2> SUFFICES ASSUME Near(position'), raced', ~gps_msg'
               PROVE  competition_active' /\ crossings' # <<>> /\ ~away'
    BY DEF Counted, Near
  <2>1. Near(position) /\ raced /\ ~gps_msg /\ Timed'
    BY <1>4 DEF DayFlagTimer
  <2>2. competition_active /\ crossings # <<>> /\ ~away
    BY <2>1 DEF Counted
  <2>3. KeepsLog
    BY <1>4, <2>2, FlagEffect DEF DayFlagTimer, vars, raceVars, KeepsLog, Restarts
  <2>4. away' = away
    BY <1>4, <2>2, <2>3 DEF DayFlagTimer, KeepsLog
  <2> QED BY <2>1, <2>2, <2>3, <2>4 DEF Timed, KeepsLog
<1>5. CASE DayClock \/ DayOperator \/ UNCHANGED dayVars
  BY <1>2, <1>5 DEF DayClock, clock_callback, DayOperator, SetVehicleFlag, dayVars, vars, raceVars
<1> QED BY <1>1, <1>3, <1>4, <1>5 DEF DayNext

(* No visit is missed while the node times the car, if a lap of the fastest  *)
(* takes longer than the minimum interval and a fix falls in the window.     *)
THEOREM NoneMissed ==
  ASSUME NEW fast, AtMost(fast), LapOutlasts(fast), WindowFits, FixInWindow
  PROVE  DaySpec => NoVisitMissed
<1>1. ASSUME Base, Counted, [DayNext]_dayVars
      PROVE  [ ~Near(position') /\ (Near(position) => raced)
               /\ (~Near(position) => PassesLine /\ Timed)
               => ~away ]_dayVars
  <2> SUFFICES ASSUME ~Near(position'), Near(position) => raced,
                      ~Near(position) => PassesLine /\ Timed
               PROVE  ~away
    OBVIOUS
  <2>1. position \in 0..(TrackLength - 1) /\ TrackLength \in Nat /\ Tolerance \in Nat
    BY <1>1, RaceDayAssumption DEF Base, DayTyped
  <2>2. position' # position
    <3>1. CASE Near(position)
      BY <3>1
    <3>2. CASE ~Near(position)
      BY <2>1, <3>2 DEF PassesLine
    <3> QED BY <3>1, <3>2
  <2>3. PICK v \in Speeds : Drive(v)
    <3>1. DayNext
      BY <1>1, <2>2 DEF dayVars
    <3> QED BY <1>1, <2>2, <3>1, LogEffect
  <2>4. CASE Near(position)
    BY <1>1, <2>3, <2>4 DEF Counted, Drive
  <2>5. CASE ~Near(position)
    <3>1. position' < position /\ v \in 0..(TrackLength - 1) /\ v < 2 * Tolerance
      BY <2>5, RaceDayAssumption DEF PassesLine, FixInWindow
    <3>2. position' = IF position + v < TrackLength THEN position + v
                                                     ELSE position + v - TrackLength
      <4>1. position' = (position + v) % TrackLength /\ TrackLength # 0
        BY <2>3, RaceDayAssumption DEF Drive
      <4> QED BY <2>1, <3>1, <4>1, Wrap
    <3>3. position' = position + v - TrackLength
      BY <2>1, <3>1, <3>2
    <3>4. TrackLength - position >= Tolerance
      BY <2>1, <2>5 DEF Near
    <3>5. position' < Tolerance
      BY <2>1, <3>1, <3>3, <3>4
    <3> QED BY <3>5 DEF Near
  <2> QED BY <2>4, <2>5
<1>2. DayInit => Lap(fast) /\ Counted
  BY DEF DayInit, Init, Lap, Counted
<1>3. Base /\ Lap(fast) /\ Counted /\ [DayNext]_dayVars => Lap(fast)' /\ Counted'
  BY LapStep, CountedStep
<1> QED BY <1>1, <1>2, <1>3, RaceDayImplementsTimer, PTL DEF DaySpec, NoVisitMissed

=============================================================================
