-------------------------- MODULE ControllerManager --------------------------
(* The controller manager of simple_control with its two plugins, the        *)
(* longitudinal PID and the lateral MPC.  One executor thread runs the       *)
(* subscriptions, the control timer and the 10 Hz check of the flag's age.   *)
(* A unit of time is a period of that check; accelerations and steering      *)
(* angles are whole multiples of a step.  What the PID and the MPC compute   *)
(* before they limit it is left open.                                        *)
EXTENDS Integers, Sequences, VehicleFlags

CONSTANTS
  None,              \* no message yet
  Plugins,           \* manager.plugins: the class names to load, in order
  Exported,          \* the class names PLUGINLIB_EXPORT_CLASS registers
  FlagTimeout,       \* manager.flag_timeout, in units of time
  MaxAge,            \* bound: ages are counted up to here
  BrakeAcceleration, \* the -3 of runStep
  MaxAccel, MaxDecel, AccelStep, DecelStep,   \* longitudinal.pid.*
  MaxSteering,       \* lateral.mpc.max_steering_angle
  DesiredAccel,      \* bound: what the PID terms may add up to; infinities
                     \* behave as large numbers, NaN as no change
  DesiredSteering,   \* bound: what solveMPC may return
  PathKinds          \* the local paths received: "points", "empty"

ASSUME ControllerAssumption ==
  /\ FlagTimeout \in Nat
  /\ MaxAge \in Nat /\ MaxAge >= FlagTimeout + 2
  /\ BrakeAcceleration \in Int
  /\ MaxAccel \in Nat /\ -MaxDecel \in Nat /\ MaxDecel \in Int
  /\ AccelStep \in Nat /\ DecelStep \in Nat
  /\ MaxSteering \in Nat
  /\ DesiredAccel \subseteq Int
  /\ DesiredSteering \subseteq Int
  /\ None \notin PathKinds \cup VehicleFlag
  /\ Plugins \in Seq(STRING)

VARIABLES
  node,              \* "loading", "running" or "terminated"
  m_plugins,         \* the plugins loaded so far
  should_publish_control, vehicle_flag,
  flag_age,          \* now - last_flag_time_
  local_path, odom,
  last_accel,        \* PID: last_accel_
  previous_steering, \* MPC: previous_steering_
  control_cmd,       \* the command last published, or None
  by_plugins,        \* history: that command was left to the plugins
  control_due, check_due  \* the timers that have not fired in this unit of time

inputVars == <<should_publish_control, vehicle_flag, flag_age, local_path, odom>>
pluginVars == <<last_accel, previous_steering>>
outputVars == <<control_cmd, by_plugins>>
timerVars == <<control_due, check_due>>
vars == <<node, m_plugins, inputVars, pluginVars, outputVars, timerVars>>

Smaller(a, b) == IF a <= b THEN a ELSE b
Larger(a, b) == IF a >= b THEN a ELSE b

Command(accel, defined, steering) ==
  [acceleration |-> accel, is_defined_acceleration |-> defined, steering |-> steering]

Brake == Command(BrakeAcceleration, TRUE, 0)

-----------------------------------------------------------------------------
Init ==
  /\ node = "loading"
  /\ m_plugins = <<>>
  /\ should_publish_control = TRUE
  /\ vehicle_flag = "RED"
  /\ flag_age = 0
  /\ local_path = None /\ odom = None
  /\ last_accel = 0 /\ previous_steering = 0
  /\ control_cmd = None /\ by_plugins = FALSE
  /\ control_due = FALSE /\ check_due = FALSE

(* The constructor loads the plugins one by one; createSharedInstance throws *)
(* out of it when the class is not exported.                                 *)
LoadPlugin ==
  /\ node = "loading" /\ Len(m_plugins) < Len(Plugins)
  /\ LET name == Plugins[Len(m_plugins) + 1] IN
       IF name \in Exported
         THEN m_plugins' = Append(m_plugins, name) /\ UNCHANGED node
         ELSE node' = "terminated" /\ UNCHANGED m_plugins
  /\ UNCHANGED <<inputVars, pluginVars, outputVars, timerVars>>

FinishSetup ==
  /\ node = "loading" /\ Len(m_plugins) = Len(Plugins)
  /\ node' = "running"
  /\ UNCHANGED <<m_plugins, inputVars, pluginVars, outputVars, timerVars>>

should_publish_control_callback(data) ==
  /\ node = "running"
  /\ should_publish_control' = data
  /\ UNCHANGED <<node, m_plugins, vehicle_flag, flag_age, local_path, odom,
                 pluginVars, outputVars, timerVars>>

(* Mutant of vehicle_flag_callback: a flag that timed out stays RED.         *)
vehicle_flag_callback_Latched(flag) ==
  /\ node = "running"
  /\ vehicle_flag' = IF flag_age > FlagTimeout THEN vehicle_flag ELSE flag
  /\ flag_age' = 0
  /\ UNCHANGED <<node, m_plugins, should_publish_control, local_path, odom,
                 pluginVars, outputVars, timerVars>>

vehicle_flag_callback(flag) ==
  /\ node = "running"
  /\ vehicle_flag' = flag
  /\ flag_age' = 0
  /\ UNCHANGED <<node, m_plugins, should_publish_control, local_path, odom,
                 pluginVars, outputVars, timerVars>>

on_local_path_callback(path) ==
  /\ node = "running"
  /\ local_path' = path
  /\ UNCHANGED <<node, m_plugins, should_publish_control, vehicle_flag, flag_age,
                 odom, pluginVars, outputVars, timerVars>>

on_odom_callback ==
  /\ node = "running"
  /\ odom' = "odom"
  /\ UNCHANGED <<node, m_plugins, should_publish_control, vehicle_flag, flag_age,
                 local_path, pluginVars, outputVars, timerVars>>

(* The state handed to the plugins has a path and a vehicle only when both   *)
(* have been received.                                                       *)
StateComplete == local_path # None /\ odom # None

(* Mutants of StepAccel: no upper limit; no step.                            *)
StepAccel_Unlimited(desired) ==
  IF desired > last_accel THEN Smaller(last_accel + AccelStep, desired)
                          ELSE Larger(Larger(last_accel - DecelStep, desired), MaxDecel)

StepAccel_AtOnce(desired) == Larger(Smaller(desired, MaxAccel), MaxDecel)

(* PIDLonController::runStep: last_accel_ follows the desired acceleration a *)
(* step at a time, within the limits.                                        *)
StepAccel(desired) ==
  IF desired > last_accel
    THEN Smaller(Smaller(last_accel + AccelStep, desired), MaxAccel)
  ELSE IF desired < last_accel
    THEN Larger(Larger(last_accel - DecelStep, desired), MaxDecel)
  ELSE last_accel

(* std::clamp of the steering angle in MPCController::runStep.               *)
ClampSteering(angle) == Larger(-MaxSteering, Smaller(angle, MaxSteering))

LonPlugin == "control::longitudinal::PIDLonController"
Loaded(name) == \E i \in 1..Len(m_plugins) : m_plugins[i] = name

(* The PID takes points.back() without asking whether there are points:      *)
(* undefined on an empty path, so it may read any velocity or bring the      *)
(* process down.                                                             *)
RunPid ==
  IF StateComplete /\ Loaded(LonPlugin)
    THEN \E desired \in DesiredAccel : last_accel' = StepAccel(desired)
    ELSE UNCHANGED last_accel

(* The lateral plugin is any other; it leaves an empty path alone.           *)
LatRuns == StateComplete /\ local_path # "empty" /\ \E i \in 1..Len(m_plugins) : m_plugins[i] # LonPlugin

RunMpc ==
  IF LatRuns
    THEN \E angle \in DesiredSteering : previous_steering' = ClampSteering(angle)
    ELSE UNCHANGED previous_steering

PublishBrake ==
  /\ ~should_publish_control \/ vehicle_flag # "GREEN"
  /\ control_cmd' = Brake
  /\ by_plugins' = FALSE
  /\ UNCHANGED <<pluginVars, node>>

PublishPlugins ==
  /\ should_publish_control /\ vehicle_flag = "GREEN"
  /\ RunPid
  /\ RunMpc
  /\ control_cmd' =
       Command(IF StateComplete /\ Loaded(LonPlugin) THEN last_accel' ELSE 0,
               StateComplete /\ Loaded(LonPlugin),
               IF LatRuns THEN previous_steering' ELSE 0)
  /\ by_plugins' = TRUE
  /\ UNCHANGED node

EmptyPathCrash ==
  /\ should_publish_control /\ vehicle_flag = "GREEN"
  /\ StateComplete /\ local_path = "empty" /\ Loaded(LonPlugin)
  /\ node' = "terminated"
  /\ UNCHANGED <<pluginVars, outputVars>>

runStep ==
  /\ node = "running"
  /\ PublishBrake \/ PublishPlugins \/ EmptyPathCrash
  /\ control_due' = FALSE
  /\ UNCHANGED <<m_plugins, inputVars, check_due>>

(* Mutants of checkFlagTimeout: the flag becomes "no flag"; the check comes  *)
(* a unit of time late.                                                      *)
checkFlagTimeout_NoFlag ==
  /\ node = "running"
  /\ vehicle_flag' = IF flag_age > FlagTimeout THEN None ELSE vehicle_flag
  /\ check_due' = FALSE
  /\ UNCHANGED <<node, m_plugins, should_publish_control, flag_age, local_path, odom,
                 pluginVars, outputVars, control_due>>

checkFlagTimeout_Late ==
  /\ node = "running"
  /\ vehicle_flag' = IF flag_age > FlagTimeout + 1 THEN "RED" ELSE vehicle_flag
  /\ check_due' = FALSE
  /\ UNCHANGED <<node, m_plugins, should_publish_control, flag_age, local_path, odom,
                 pluginVars, outputVars, control_due>>

checkFlagTimeout ==
  /\ node = "running"
  /\ vehicle_flag' = IF flag_age > FlagTimeout /\ vehicle_flag # "RED" THEN "RED"
                                                                    ELSE vehicle_flag
  /\ check_due' = FALSE
  /\ UNCHANGED <<node, m_plugins, should_publish_control, flag_age, local_path, odom,
                 pluginVars, outputVars, control_due>>

(* Time passes; both timers have fired since it last did.                    *)
Tick ==
  /\ node = "running"
  /\ ~control_due /\ ~check_due
  /\ flag_age' = Smaller(flag_age + 1, MaxAge)
  /\ control_due' = TRUE /\ check_due' = TRUE
  /\ UNCHANGED <<node, m_plugins, should_publish_control, vehicle_flag, local_path,
                 odom, pluginVars, outputVars>>

Next ==
  \/ LoadPlugin \/ FinishSetup
  \/ \E data \in BOOLEAN : should_publish_control_callback(data)
  \/ \E flag \in VehicleFlag : vehicle_flag_callback(flag)
  \/ \E path \in PathKinds : on_local_path_callback(path)
  \/ on_odom_callback
  \/ runStep
  \/ checkFlagTimeout
  \/ Tick

Spec == Init /\ [][Next]_vars

-----------------------------------------------------------------------------
Commands == [acceleration : Int, is_defined_acceleration : BOOLEAN, steering : Int]

(* Type invariant.                                                           *)
TypeOK ==
  /\ node \in {"loading", "running", "terminated"}
  /\ m_plugins \in Seq(STRING)
  /\ should_publish_control \in BOOLEAN
  /\ vehicle_flag \in VehicleFlag
  /\ flag_age \in 0..MaxAge
  /\ local_path \in PathKinds \cup {None}
  /\ odom \in {"odom", None}
  /\ last_accel \in Int
  /\ previous_steering \in Int
  /\ control_cmd \in Commands \cup {None}
  /\ by_plugins \in BOOLEAN
  /\ control_due \in BOOLEAN
  /\ check_due \in BOOLEAN

(* README: "If no flag is received, vehicle must assume RED flag."  However  *)
(* the two timers interleave, a flag that is older than the timeout by more  *)
(* than one period of the check no longer lets the car drive: the command    *)
(* published in that period is the brake.                                    *)
StaleFlagBrakes ==
  flag_age > FlagTimeout + 1 /\ ~control_due => control_cmd = Brake

(* The plugins' commands stay within the limits of the car, whatever the PID *)
(* and the MPC ask for, and however long the flags kept them from running.   *)
CommandLimits ==
  by_plugins => /\ control_cmd.acceleration \in MaxDecel..MaxAccel
                /\ control_cmd.steering \in (-MaxSteering)..MaxSteering

(* From one command of the plugins to the next the acceleration moves by one *)
(* step at most.                                                             *)
AccelGradual ==
  [][(by_plugins /\ by_plugins' /\ control_cmd.is_defined_acceleration)
       => control_cmd'.acceleration - control_cmd.acceleration
            \in (-DecelStep)..AccelStep]_vars

=============================================================================
