--------------------------- MODULE LgsvlInterface ---------------------------
(* The node between race software and the simulator (lgsvl_interface.cpp):   *)
(* commands go out at once, with the simulator's signs; what the simulator   *)
(* reports is kept, and summed up for the race software at 20 Hz.  The       *)
(* orientation takes a longer way: at 100 Hz it is copied from the last IMU  *)
(* message into the fix that the 20 Hz timer publishes.  The simulated car   *)
(* steers and shifts as it is told.  Point clouds and wheel speeds are       *)
(* passed on without a trace in the node, and left out.                      *)
EXTENDS Integers

CONSTANTS
  None,            \* no message yet
  Commands,        \* the commands given: steering_cmd and gear_cmd
  Orientations,    \* the car's orientations
  StepsPerReport   \* bound: 100 Hz periods in one of 20 Hz, 5 in the code

ASSUME LgsvlAssumption ==
  /\ Commands \subseteq [steering_cmd : Int, gear_cmd : Nat]
  /\ None \notin Orientations /\ None \notin Int
  /\ StepsPerReport \in Nat \ {0}

VARIABLES
  node,                  \* "spinning" or "terminated"
  vehicle_control_msg_, lgsvl_control_msg_,
  can_bus_msg_, vehicle_odom_msg_, imu_msg_,  \* what they tell, or None
  odom_seen_, fix_seen_,
  gps_fix_msg_,          \* the orientation in it; None: still all zero
  gps_fix, steering_report, engine_report,    \* last published
  phase, step_100_due, step_20_due,           \* of the timers
  orientation_age,       \* history: short periods since imu_msg_ was last this
  wheel_angle, gear      \* of the simulated car

(* Bound: an orientation counts as old from here on.                         *)
OldAge == 2

messageVars == <<can_bus_msg_, vehicle_odom_msg_, imu_msg_, odom_seen_, fix_seen_,
                 orientation_age>>
commandVars == <<vehicle_control_msg_, lgsvl_control_msg_>>
reportVars == <<gps_fix_msg_, gps_fix, steering_report, engine_report>>
timerVars == <<phase, step_100_due, step_20_due>>
carVars == <<wheel_angle, gear>>
vars == <<node, commandVars, messageVars, reportVars, timerVars, carVars>>

Init ==
  /\ node = "spinning"
  /\ vehicle_control_msg_ = None
  /\ lgsvl_control_msg_ = [target_wheel_angle |-> 0, target_gear |-> 0]
  /\ can_bus_msg_ = None /\ vehicle_odom_msg_ = None /\ imu_msg_ = None
  /\ odom_seen_ = FALSE /\ fix_seen_ = FALSE
  /\ gps_fix_msg_ = None
  /\ gps_fix = None /\ steering_report = None /\ engine_report = None
  /\ phase = 0 /\ step_100_due = FALSE /\ step_20_due = FALSE
  /\ orientation_age = [o \in Orientations \cup {None} |-> IF o = None THEN 0 ELSE OldAge]
  /\ wheel_angle = 0 /\ gear = 0

-----------------------------------------------------------------------------
(* Mutant of on_vehicle_control_received: the simulator's sign is forgotten. *)
on_vehicle_control_received_SameSign(cmd) ==
  /\ vehicle_control_msg_' = cmd
  /\ lgsvl_control_msg_' = [target_wheel_angle |-> cmd.steering_cmd,
                            target_gear |-> cmd.gear_cmd]
  /\ UNCHANGED <<node, messageVars, reportVars, timerVars, carVars>>

on_vehicle_control_received(cmd) ==
  /\ vehicle_control_msg_' = cmd
  /\ lgsvl_control_msg_' = [target_wheel_angle |-> -cmd.steering_cmd,
                            target_gear |-> cmd.gear_cmd]
  /\ UNCHANGED <<node, messageVars, reportVars, timerVars, carVars>>

on_can_data_received ==
  /\ can_bus_msg_' = gear
  /\ UNCHANGED <<node, commandVars, vehicle_odom_msg_, imu_msg_, odom_seen_, fix_seen_,
                 orientation_age, reportVars, timerVars, carVars>>

on_vehicle_odom_received ==
  /\ vehicle_odom_msg_' = wheel_angle
  /\ UNCHANGED <<node, commandVars, can_bus_msg_, imu_msg_, odom_seen_, fix_seen_,
                 orientation_age, reportVars, timerVars, carVars>>

on_odom_received ==
  /\ odom_seen_' = TRUE
  /\ UNCHANGED <<node, commandVars, can_bus_msg_, vehicle_odom_msg_, imu_msg_, fix_seen_,
                 orientation_age, reportVars, timerVars, carVars>>

on_fix_received ==
  /\ fix_seen_' = TRUE
  /\ UNCHANGED <<node, commandVars, can_bus_msg_, vehicle_odom_msg_, imu_msg_, odom_seen_,
                 orientation_age, reportVars, timerVars, carVars>>

on_imu_received(orientation) ==
  /\ imu_msg_' = orientation
  /\ orientation_age' = [orientation_age EXCEPT ![orientation] = 0]
  /\ UNCHANGED <<node, commandVars, can_bus_msg_, vehicle_odom_msg_, odom_seen_, fix_seen_,
                 reportVars, timerVars, carVars>>

(* An image that cannot be decoded raises, or yields no image to publish:    *)
(* nothing catches it.                                                       *)
compressed_image_callback(decodes) ==
  /\ node' = IF decodes THEN node ELSE "terminated"
  /\ UNCHANGED <<commandVars, messageVars, reportVars, timerVars, carVars>>

(* Mutant of step_100_hz: the orientation is copied once.                    *)
step_100_hz_Once ==
  /\ step_100_due /\ step_100_due' = FALSE
  /\ gps_fix_msg_' = IF gps_fix_msg_ = None THEN imu_msg_ ELSE gps_fix_msg_
  /\ UNCHANGED <<node, commandVars, messageVars, gps_fix, steering_report, engine_report,
                 phase, step_20_due, carVars>>

step_100_hz ==
  /\ step_100_due /\ step_100_due' = FALSE
  /\ gps_fix_msg_' = IF imu_msg_ # None THEN imu_msg_ ELSE gps_fix_msg_
  /\ UNCHANGED <<node, commandVars, messageVars, gps_fix, steering_report, engine_report,
                 phase, step_20_due, carVars>>

AllSeen ==
  None \notin {imu_msg_, vehicle_odom_msg_, can_bus_msg_} /\ odom_seen_ /\ fix_seen_

(* The gear box works when the gear asked for is the next one up or down; it *)
(* is "Ready" when it is engaged, and also when it is further away.          *)
ShiftStatus(gear_diff) ==
  CASE gear_diff = 1 -> "Upshift in progress"
    [] gear_diff = -1 -> "Downshift in progress"
    [] OTHER -> "Ready to shift"

gear_cmd == IF vehicle_control_msg_ # None THEN vehicle_control_msg_.gear_cmd ELSE 1

(* There is no report of neutral.                                            *)
ReportedGear == IF can_bus_msg_ = 0 THEN 1 ELSE can_bus_msg_

(* Mutant of GearDiff: the gear that is reported is compared.                *)
GearDiff_Reported == gear_cmd - ReportedGear

GearDiff == gear_cmd - can_bus_msg_

step_20_hz ==
  /\ step_20_due /\ step_20_due' = FALSE
  /\ IF AllSeen
       THEN /\ steering_report' =
                 [front_wheel_angle_rad |-> -vehicle_odom_msg_,
                  front_wheel_angle_rad_cmd |-> -lgsvl_control_msg_.target_wheel_angle]
            /\ gps_fix' = gps_fix_msg_
            /\ engine_report' = [current_gear |-> ReportedGear,
                                 gear_shift_status |-> ShiftStatus(GearDiff)]
       ELSE UNCHANGED <<steering_report, gps_fix, engine_report>>
  /\ UNCHANGED <<node, commandVars, messageVars, gps_fix_msg_, phase, step_100_due, carVars>>

-----------------------------------------------------------------------------
(* Both timers run on one clock, and their callbacks are done, in any order, *)
(* when the next period begins.                                              *)
Tick ==
  /\ ~step_100_due /\ ~step_20_due
  /\ phase' = (phase + 1) % StepsPerReport
  /\ step_100_due' = TRUE
  /\ step_20_due' = (phase' = 0)
  /\ orientation_age' =
       [o \in DOMAIN orientation_age |->
          IF o = imu_msg_ THEN 0
          ELSE IF orientation_age[o] < OldAge THEN orientation_age[o] + 1 ELSE OldAge]
  /\ UNCHANGED <<node, commandVars, can_bus_msg_, vehicle_odom_msg_, imu_msg_, odom_seen_,
                 fix_seen_, reportVars, carVars>>

(* The simulated car turns its wheels, and shifts one gear at a time.        *)
Actuate ==
  /\ vehicle_control_msg_ # None
  /\ wheel_angle' = lgsvl_control_msg_.target_wheel_angle
  /\ LET target == lgsvl_control_msg_.target_gear IN
       gear' = IF target > gear THEN gear + 1 ELSE IF target < gear THEN gear - 1 ELSE gear
  /\ UNCHANGED <<node, commandVars, messageVars, reportVars, timerVars>>

on_imu == \E orientation \in Orientations : on_imu_received(orientation)

Next ==
  /\ node = "spinning"
  /\ \/ \E cmd \in Commands : on_vehicle_control_received(cmd)
     \/ on_can_data_received \/ on_vehicle_odom_received
     \/ on_odom_received \/ on_fix_received \/ on_imu
     \/ \E decodes \in BOOLEAN : compressed_image_callback(decodes)
     \/ step_100_hz \/ step_20_hz
     \/ Tick
     \/ Actuate

Spec == Init /\ [][Next]_vars

(* While the node lives the simulator goes on publishing and actuating (the  *)
(* messages lost on the way are not all of them), and the executor runs the  *)
(* callbacks that are due.  Nothing is assumed of commands.                  *)
Alive(A) == node = "spinning" /\ A

FairSpec ==
  /\ Spec
  /\ WF_vars(Alive(on_can_data_received)) /\ WF_vars(Alive(on_vehicle_odom_received))
  /\ WF_vars(Alive(on_odom_received)) /\ WF_vars(Alive(on_fix_received))
  /\ WF_vars(Alive(on_imu))
  /\ WF_vars(Alive(step_100_hz)) /\ WF_vars(Alive(step_20_hz))
  /\ WF_vars(Alive(Tick)) /\ WF_vars(Alive(Actuate))

-----------------------------------------------------------------------------
(* Type invariant.                                                           *)
CommandsTyped ==
  /\ vehicle_control_msg_ \in Commands \cup {None}
  /\ lgsvl_control_msg_ \in [target_wheel_angle : Int, target_gear : Nat]

MessagesTyped ==
  /\ can_bus_msg_ \in Nat \cup {None} /\ vehicle_odom_msg_ \in Int \cup {None}
  /\ imu_msg_ \in Orientations \cup {None}
  /\ odom_seen_ \in BOOLEAN /\ fix_seen_ \in BOOLEAN
  /\ orientation_age \in [Orientations \cup {None} -> 0..OldAge]

ReportsTyped ==
  /\ gps_fix \in Orientations \cup {None}
  /\ steering_report \in
       [front_wheel_angle_rad : Int, front_wheel_angle_rad_cmd : Int] \cup {None}
  /\ engine_report \in
       [current_gear : Nat \ {0},
        gear_shift_status : {"Upshift in progress", "Downshift in progress", "Ready to shift"}]
       \cup {None}

TypeOK ==
  /\ node \in {"spinning", "terminated"}
  /\ CommandsTyped
  /\ MessagesTyped
  /\ gps_fix_msg_ \in Orientations \cup {None}
  /\ ReportsTyped
  /\ phase \in 0..(StepsPerReport - 1)
  /\ step_100_due \in BOOLEAN /\ step_20_due \in BOOLEAN
  /\ wheel_angle \in Int /\ gear \in Nat

(* The orientation in a fix is the IMU's of this or of the last short period *)
(* whichever of the two timers runs first, however the IMU's messages fall   *)
(* between them and however often they change; and it is missing only when   *)
(* the first came as late as that.                                           *)
OrientationIsRecent ==
  [][step_20_due /\ ~step_20_due' /\ AllSeen => orientation_age[gps_fix'] <= 1]_vars

(* SteeringReport.msg: "The actual steering angle", "the requested steering  *)
(* angle".  When a command stays, both come to be the angle commanded: the   *)
(* three changes of sign on the way to the simulator and back cancel.        *)
SteeringSettles ==
  \A cmd \in Commands :
     <>[](vehicle_control_msg_ = cmd /\ node = "spinning") =>
       <>[](steering_report = [front_wheel_angle_rad |-> cmd.steering_cmd,
                               front_wheel_angle_rad_cmd |-> cmd.steering_cmd])

(* EngineReport.msg, "Ready to shift": when a command stays, the report does *)
(* not go on telling of a shift in progress; the gear is the one commanded,  *)
(* or the first where that is neutral.                                       *)
ShiftSettles ==
  \A cmd \in Commands :
     <>[](vehicle_control_msg_ = cmd /\ node = "spinning") =>
       <>[](engine_report = [current_gear |-> IF cmd.gear_cmd = 0 THEN 1 ELSE cmd.gear_cmd,
                             gear_shift_status |-> "Ready to shift"])

=============================================================================
