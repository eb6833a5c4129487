------------------------ MODULE LgsvlInterfaceProofs ------------------------
(* Proofs about the interface to the simulator, for all commands and         *)
(* orientations and any number of short periods in a long one.               *)
EXTENDS LgsvlInterface, TLAPS

(* The orientation in the fix is as recent as the 100 Hz timer: it was the    *)
(* IMU's in this short period, or in the last if the timer is still to run.  *)
FixIsFresh ==
  /\ imu_msg_ = None => gps_fix_msg_ = None
  /\ orientation_age[imu_msg_] = 0
  /\ orientation_age[gps_fix_msg_] <= IF step_100_due THEN 1 ELSE 0

IInv == TypeOK /\ FixIsFresh

LEMMA InitIInv == Init => IInv
<1> SUFFICES ASSUME Init PROVE IInv
  OBVIOUS
<1>1. CommandsTyped
  BY DEF Init, CommandsTyped
<1>2. MessagesTyped
  <2>1. can_bus_msg_ = None /\ vehicle_odom_msg_ = None /\ imu_msg_ = None
    BY DEF Init
  <2>2. odom_seen_ \in BOOLEAN /\ fix_seen_ \in BOOLEAN
    BY DEF Init
  <2>3. orientation_age \in [Orientations \cup {None} -> 0..OldAge]
    BY DEF Init, OldAge
  <2> QED BY <2>1, <2>2, <2>3 DEF MessagesTyped
<1>3. ReportsTyped
  BY DEF Init, ReportsTyped
<1>4. phase \in 0..(StepsPerReport - 1) /\ wheel_angle \in Int /\ gear \in Nat
  BY LgsvlAssumption DEF Init
<1>5. /\ node = "spinning" /\ gps_fix_msg_ = None /\ imu_msg_ = None
      /\ step_100_due = FALSE /\ step_20_due = FALSE
  BY DEF Init
<1>6. orientation_age[None] = 0
  BY DEF Init
<1>7. FixIsFresh
  BY <1>5, <1>6 DEF FixIsFresh
<1>8. TypeOK
  BY <1>1, <1>2, <1>3, <1>4, <1>5 DEF TypeOK
<1> QED BY <1>7, <1>8 DEF IInv

(* What depends on variables that stay stays.                                *)
LEMMA Kept ==
  /\ UNCHANGED commandVars /\ CommandsTyped => CommandsTyped'
  /\ UNCHANGED messageVars /\ MessagesTyped => MessagesTyped'
  /\ UNCHANGED <<gps_fix, steering_report, engine_report>> /\ ReportsTyped => ReportsTyped'
<1>1. UNCHANGED commandVars /\ CommandsTyped => CommandsTyped'
  BY DEF commandVars, CommandsTyped
<1>2. UNCHANGED messageVars /\ MessagesTyped => MessagesTyped'
  BY DEF messageVars, MessagesTyped
<1>3. UNCHANGED <<gps_fix, steering_report, engine_report>> /\ ReportsTyped => ReportsTyped'
  BY DEF ReportsTyped
<1> QED BY <1>1, <1>2, <1>3

(* The reports of the 20 Hz timer.                                           *)
LEMMA ReportTypes ==
  ASSUME TypeOK, AllSeen
  PROVE  /\ -vehicle_odom_msg_ \in Int /\ -lgsvl_control_msg_.target_wheel_angle \in Int
         /\ ReportedGear \in Nat \ {0}
         /\ ShiftStatus(GearDiff) \in
              {"Upshift in progress", "Downshift in progress", "Ready to shift"}
<1>1. vehicle_odom_msg_ \in Int /\ can_bus_msg_ \in Nat
  BY DEF TypeOK, MessagesTyped, AllSeen
<1>2. lgsvl_control_msg_.target_wheel_angle \in Int
  BY DEF TypeOK, CommandsTyped
<1>3. ReportedGear \in Nat \ {0}
  BY <1>1 DEF ReportedGear
<1>4. \A d : ShiftStatus(d) \in
              {"Upshift in progress", "Downshift in progress", "Ready to shift"}
  BY DEF ShiftStatus
<1>5. -vehicle_odom_msg_ \in Int /\ -lgsvl_control_msg_.target_wheel_angle \in Int
  BY <1>1, <1>2
<1> QED BY <1>3, <1>4, <1>5, Zenon

LEMMA NextIInv == IInv /\ [Next]_vars => IInv'
<1> SUFFICES ASSUME IInv, [Next]_vars PROVE IInv'
  OBVIOUS
<1>1. CASE UNCHANGED vars
  <2>1. UNCHANGED <<node, commandVars, messageVars, reportVars, timerVars, carVars>>
    BY <1>1 DEF vars
  <2>2. CommandsTyped' /\ MessagesTyped' /\ ReportsTyped'
    BY <2>1, Kept DEF reportVars, IInv, TypeOK
  <2> QED BY <2>1, <2>2 DEF messageVars, reportVars, timerVars, carVars, IInv, TypeOK, FixIsFresh
<1>2. ASSUME NEW cmd \in Commands, on_vehicle_control_received(cmd) PROVE IInv'
  <2>1. UNCHANGED <<node, messageVars, reportVars, timerVars, carVars>>
    BY <1>2 DEF on_vehicle_control_received
  <2>2. CommandsTyped'
    <3>1. -cmd.steering_cmd \in Int /\ cmd.gear_cmd \in Nat
      BY LgsvlAssumption
    <3> QED BY <1>2, <3>1 DEF on_vehicle_control_received, CommandsTyped
  <2>3. MessagesTyped' /\ ReportsTyped'
    BY <2>1, Kept DEF reportVars, IInv, TypeOK
  <2> QED BY <2>1, <2>2, <2>3 DEF messageVars, reportVars, timerVars, carVars, IInv, TypeOK, FixIsFresh
<1>3. CASE on_can_data_received
  <2>1. UNCHANGED <<node, commandVars, imu_msg_, orientation_age, reportVars, timerVars, carVars>>
    BY <1>3 DEF on_can_data_received
  <2>2. MessagesTyped'
    BY <1>3, <2>1 DEF on_can_data_received, IInv, TypeOK, MessagesTyped, carVars
  <2>3. CommandsTyped' /\ ReportsTyped'
    BY <2>1, Kept DEF reportVars, IInv, TypeOK
  <2> QED BY <2>1, <2>2, <2>3 DEF reportVars, timerVars, carVars, IInv, TypeOK, FixIsFresh
<1>4. CASE on_vehicle_odom_received
  <2>1. UNCHANGED <<node, commandVars, imu_msg_, orientation_age, reportVars, timerVars, carVars>>
    BY <1>4 DEF on_vehicle_odom_received
  <2>2. MessagesTyped'
    BY <1>4, <2>1 DEF on_vehicle_odom_received, IInv, TypeOK, MessagesTyped, carVars
  <2>3. CommandsTyped' /\ ReportsTyped'
    BY <2>1, Kept DEF reportVars, IInv, TypeOK
  <2> QED BY <2>1, <2>2, <2>3 DEF reportVars, timerVars, carVars, IInv, TypeOK, FixIsFresh
<1>5. CASE on_odom_received
  <2>1. UNCHANGED <<node, commandVars, imu_msg_, orientation_age, reportVars, timerVars, carVars>>
    BY <1>5 DEF on_odom_received
  <2>2. MessagesTyped'
    BY <1>5, <2>1 DEF on_odom_received, IInv, TypeOK, MessagesTyped, carVars
  <2>3. CommandsTyped' /\ ReportsTyped'
    BY <2>1, Kept DEF reportVars, IInv, TypeOK
  <2> QED BY <2>1, <2>2, <2>3 DEF reportVars, timerVars, carVars, IInv, TypeOK, FixIsFresh
<1>6. CASE on_fix_received
  <2>1. UNCHANGED <<node, commandVars, imu_msg_, orientation_age, reportVars, timerVars, carVars>>
    BY <1>6 DEF on_fix_received
  <2>2. MessagesTyped'
    BY <1>6, <2>1 DEF on_fix_received, IInv, TypeOK, MessagesTyped, carVars
  <2>3. CommandsTyped' /\ ReportsTyped'
    BY <2>1, Kept DEF reportVars, IInv, TypeOK
  <2> QED BY <2>1, <2>2, <2>3 DEF reportVars, timerVars, carVars, IInv, TypeOK, FixIsFresh
<1>7. ASSUME NEW orientation \in Orientations, on_imu_received(orientation) PROVE IInv'
  <2>1. /\ imu_msg_' = orientation
        /\ orientation_age' = [orientation_age EXCEPT ![orientation] = 0]
        /\ UNCHANGED <<can_bus_msg_, vehicle_odom_msg_, odom_seen_, fix_seen_>>
        /\ UNCHANGED <<node, commandVars, reportVars, timerVars, carVars>>
    BY <1>7 DEF on_imu_received
  <2>2. MessagesTyped'
    BY <2>1 DEF IInv, TypeOK, MessagesTyped, OldAge
  <2>3. CommandsTyped' /\ ReportsTyped'
    BY <2>1, Kept DEF reportVars, IInv, TypeOK
  <2>4. FixIsFresh'
    <3>1. /\ orientation_age \in [Orientations \cup {None} -> 0..OldAge]
          /\ gps_fix_msg_ \in Orientations \cup {None}
          /\ UNCHANGED <<gps_fix_msg_, step_100_due>>
      BY <2>1 DEF reportVars, timerVars, IInv, TypeOK, MessagesTyped
    <3>2. orientation_age'[imu_msg_'] = 0 /\ imu_msg_' # None
      BY <2>1, <3>1, LgsvlAssumption
    <3>3. orientation_age'[gps_fix_msg_] <= orientation_age[gps_fix_msg_]
      BY <2>1, <3>1 DEF OldAge
    <3>4. orientation_age'[gps_fix_msg_] \in Int /\ orientation_age[gps_fix_msg_] \in Int
      BY <2>1, <3>1 DEF OldAge
    <3>5. orientation_age'[gps_fix_msg_'] <= IF step_100_due' THEN 1 ELSE 0
      BY <3>1, <3>3, <3>4 DEF IInv, FixIsFresh
    <3> QED BY <3>2, <3>5 DEF FixIsFresh
  <2> QED BY <2>1, <2>2, <2>3, <2>4 DEF reportVars, timerVars, carVars, IInv, TypeOK
<1>8. ASSUME NEW decodes \in BOOLEAN, compressed_image_callback(decodes) PROVE IInv'
  <2>1. node' \in {"spinning", "terminated"}
    BY <1>8 DEF compressed_image_callback, IInv, TypeOK
  <2>2. UNCHANGED <<commandVars, messageVars, reportVars, timerVars, carVars>>
    BY <1>8 DEF compressed_image_callback
  <2>3. CommandsTyped' /\ MessagesTyped' /\ ReportsTyped'
    BY <2>2, Kept DEF reportVars, IInv, TypeOK
  <2> QED BY <2>1, <2>2, <2>3 DEF messageVars, reportVars, timerVars, carVars, IInv, TypeOK, FixIsFresh
<1>9. CASE step_100_hz
  <2>1. /\ step_100_due' = FALSE
        /\ gps_fix_msg_' = IF imu_msg_ # None THEN imu_msg_ ELSE gps_fix_msg_
        /\ UNCHANGED <<node, commandVars, messageVars, phase, step_20_due, carVars>>
        /\ UNCHANGED <<gps_fix, steering_report, engine_report>>
    BY <1>9 DEF step_100_hz
  <2>2. CommandsTyped' /\ MessagesTyped' /\ ReportsTyped'
    BY <2>1, Kept DEF IInv, TypeOK
  <2>3. gps_fix_msg_' \in Orientations \cup {None}
    BY <2>1 DEF IInv, TypeOK, MessagesTyped
  <2>4. FixIsFresh'
    <3>1. UNCHANGED <<imu_msg_, orientation_age>>
      BY <2>1 DEF messageVars
    <3>2. gps_fix_msg_' = imu_msg_
      BY <2>1 DEF IInv, FixIsFresh
    <3> QED BY <2>1, <3>1, <3>2 DEF IInv, FixIsFresh
  <2> QED BY <2>1, <2>2, <2>3, <2>4 DEF carVars, IInv, TypeOK
<1>10. CASE step_20_hz
  <2>1. /\ step_20_due' = FALSE
        /\ UNCHANGED <<node, commandVars, messageVars, gps_fix_msg_, phase, step_100_due, carVars>>
    BY <1>10 DEF step_20_hz
  <2>2. ReportsTyped'
    <3>1. CASE AllSeen
      <4>1. /\ steering_report' =
                  [front_wheel_angle_rad |-> -vehicle_odom_msg_,
                   front_wheel_angle_rad_cmd |-> -lgsvl_control_msg_.target_wheel_angle]
            /\ gps_fix' = gps_fix_msg_
            /\ engine_report' = [current_gear |-> ReportedGear,
                                 gear_shift_status |-> ShiftStatus(GearDiff)]
        BY <1>10, <3>1 DEF step_20_hz
      <4>2. /\ -vehicle_odom_msg_ \in Int /\ -lgsvl_control_msg_.target_wheel_angle \in Int
            /\ ReportedGear \in Nat \ {0}
            /\ ShiftStatus(GearDiff) \in
                 {"Upshift in progress", "Downshift in progress", "Ready to shift"}
        BY <3>1, ReportTypes DEF IInv
      <4> QED BY <4>1, <4>2 DEF IInv, TypeOK, ReportsTyped
    <3>2. CASE ~AllSeen
      <4>1. UNCHANGED <<gps_fix, steering_report, engine_report>>
        BY <1>10, <3>2 DEF step_20_hz
      <4> QED BY <4>1, Kept DEF IInv, TypeOK
    <3> QED BY <3>1, <3>2
  <2>3. CommandsTyped' /\ MessagesTyped'
    BY <2>1, Kept DEF IInv, TypeOK
  <2> QED BY <2>1, <2>2, <2>3 DEF messageVars, carVars, IInv, TypeOK, FixIsFresh
<1>11. CASE Tick
  <2>1. /\ ~step_100_due /\ step_100_due' = TRUE /\ step_20_due' \in BOOLEAN
        /\ orientation_age' =
             [o \in DOMAIN orientation_age |->
                IF o = imu_msg_ THEN 0
                ELSE IF orientation_age[o] < OldAge THEN orientation_age[o] + 1 ELSE OldAge]
        /\ phase' = (phase + 1) % StepsPerReport
        /\ UNCHANGED <<can_bus_msg_, vehicle_odom_msg_, imu_msg_, odom_seen_, fix_seen_>>
        /\ UNCHANGED <<node, commandVars, reportVars, carVars>>
    BY <1>11 DEF Tick
  <2>2. phase' \in 0..(StepsPerReport - 1)
    BY <2>1, LgsvlAssumption DEF IInv, TypeOK
  <2>3. /\ orientation_age \in [Orientations \cup {None} -> 0..OldAge]
        /\ imu_msg_ \in Orientations \cup {None}
        /\ gps_fix_msg_ \in Orientations \cup {None}
    BY DEF IInv, TypeOK, MessagesTyped
  <2>4. MessagesTyped'
    <3>1. orientation_age' \in [Orientations \cup {None} -> 0..OldAge]
      BY <2>1, <2>3 DEF OldAge
    <3> QED BY <2>1, <3>1 DEF IInv, TypeOK, MessagesTyped
  <2>5. CommandsTyped' /\ ReportsTyped'
    BY <2>1, Kept DEF reportVars, IInv, TypeOK
  <2>6. FixIsFresh'
    <3>1. orientation_age'[imu_msg_] = 0
      BY <2>1, <2>3
    <3>2. orientation_age[gps_fix_msg_] = 0
      <4>1. orientation_age[gps_fix_msg_] \in 0..OldAge
        BY <2>3
      <4>2. orientation_age[gps_fix_msg_] <= 0
        BY <2>1 DEF IInv, FixIsFresh
      <4> QED BY <4>1, <4>2 DEF OldAge
    <3>3. orientation_age'[gps_fix_msg_] <= 1
      BY <2>1, <2>3, <3>2 DEF OldAge
    <3>4. UNCHANGED <<imu_msg_, gps_fix_msg_>>
      BY <2>1 DEF reportVars
    <3> QED BY <2>1, <3>1, <3>3, <3>4 DEF IInv, FixIsFresh
  <2> QED BY <2>1, <2>2, <2>4, <2>5, <2>6 DEF reportVars, carVars, IInv, TypeOK
<1>12. CASE Actuate
  <2>1. wheel_angle' \in Int /\ gear' \in Nat
    <3>1. /\ lgsvl_control_msg_.target_wheel_angle \in Int
          /\ lgsvl_control_msg_.target_gear \in Nat /\ gear \in Nat
      BY DEF IInv, TypeOK, CommandsTyped
    <3> QED BY <1>12, <3>1 DEF Actuate
  <2>2. UNCHANGED <<node, commandVars, messageVars, reportVars, timerVars>>
    BY <1>12 DEF Actuate
  <2>3. CommandsTyped' /\ MessagesTyped' /\ ReportsTyped'
    BY <2>2, Kept DEF reportVars, IInv, TypeOK
  <2> QED BY <2>1, <2>2, <2>3 DEF messageVars, reportVars, timerVars, IInv, TypeOK, FixIsFresh
<1> QED BY <1>1, <1>2, <1>3, <1>4, <1>5, <1>6, <1>7, <1>8, <1>9, <1>10, <1>11, <1>12 DEF Next, on_imu

THEOREM Invariance == Spec => []IInv
  BY InitIInv, NextIInv, PTL DEF Spec

(* The node's messages and reports keep their types: a report is assembled   *)
(* only from messages that have come, and never tells gear zero.             *)
THEOREM TypeCorrect == Spec => []TypeOK
<1>1. IInv => TypeOK
  BY DEF IInv
<1> QED BY <1>1, Invariance, PTL

(* The fix step_20_hz publishes carries an orientation the IMU told in this  *)
(* short period or in the last one.                                          *)
THEOREM OrientationRecent == Spec => OrientationIsRecent
<1> DEFINE Recent == step_20_due /\ ~step_20_due' /\ AllSeen => orientation_age[gps_fix'] <= 1
<1>1. ASSUME IInv, [Next]_vars, step_20_due, ~step_20_due', AllSeen
      PROVE  orientation_age[gps_fix'] <= 1
  <2>1. orientation_age[gps_fix_msg_] <= 1
    <3>1. orientation_age[gps_fix_msg_] \in Int
      BY <1>1 DEF IInv, TypeOK, MessagesTyped, OldAge
    <3>2. orientation_age[gps_fix_msg_] <= IF step_100_due THEN 1 ELSE 0
      BY <1>1 DEF IInv, FixIsFresh
    <3> QED BY <3>1, <3>2
  <2>2. step_20_hz
    <3>1. ASSUME NEW cmd, on_vehicle_control_received(cmd) PROVE FALSE
      BY <1>1, <3>1 DEF on_vehicle_control_received, timerVars
    <3>2. ASSUME NEW orientation, on_imu_received(orientation) PROVE FALSE
      BY <1>1, <3>2 DEF on_imu_received, timerVars
    <3>3. ASSUME NEW decodes, compressed_image_callback(decodes) PROVE FALSE
      BY <1>1, <3>3 DEF compressed_image_callback, timerVars
    <3>4. ~step_100_hz /\ ~Tick /\ ~Actuate
      BY <1>1 DEF step_100_hz, Tick, Actuate, timerVars
    <3>5. /\ ~on_can_data_received /\ ~on_vehicle_odom_received
          /\ ~on_odom_received /\ ~on_fix_received
      BY <1>1 DEF on_can_data_received, on_vehicle_odom_received, on_odom_received,
            on_fix_received, timerVars
    <3>6. ~UNCHANGED vars
      BY <1>1 DEF vars, timerVars
    <3> QED BY <1>1, <3>1, <3>2, <3>3, <3>4, <3>5, <3>6 DEF Next, on_imu
  <2> QED BY <1>1, <2>1, <2>2 DEF step_20_hz
<1>2. IInv /\ [Next]_vars => [Recent]_vars
  BY <1>1
<1> QED BY <1>2, Invariance, PTL DEF Spec, OrientationIsRecent

=============================================================================
