--------------------------- MODULE KeyboardControl ---------------------------
(* The keyboard controller (keyboard_control_node.py).  Two threads share    *)
(* the node's attributes without a lock: the executor runs the two timers    *)
(* and the two subscriptions, the pynput listener runs on_press and          *)
(* on_release.  One step is one access to a shared attribute; a thread may   *)
(* be preempted between any two.  Time is counted in periods of the timers   *)
(* (both 0.1 s); a callback of either thread ends within the period.         *)
(* Throttle, brake and steering count steps of 0.1, 0.1 and 0.02.            *)
EXTENDS Integers, Sequences, VehicleFlags

CONSTANTS
  None,
  FlagTimeout,          \* parameter flag_timeout, in periods
  MaxAge,               \* bound: older flags are all alike
  MaxThrottle, MaxBrake, MaxSteering, MaxGear,   \* 0.3, 1.0, max_steering, 6
  SaveWaypoints,        \* parameter save_waypoints
  KeySets,              \* sets of keys a driver may use in one session
  ReceivedFlags,        \* the flags /vehicle_flag may carry
  SteeringBound, MaxFixes, MaxWaypoints   \* bounds of the model

ASSUME KeyboardAssumption ==
  /\ FlagTimeout \in Nat /\ MaxAge \in Nat /\ MaxAge > FlagTimeout + 2
  /\ {MaxThrottle, MaxBrake, MaxSteering, MaxGear} \subseteq Nat \ {0}
  /\ {SteeringBound, MaxFixes, MaxWaypoints} \subseteq Nat /\ MaxFixes # 0
  /\ SaveWaypoints \in BOOLEAN
  /\ ReceivedFlags \subseteq VehicleFlag
  /\ KeySets \subseteq SUBSET {"8", "5", "4", "6", "up", "down", "ctrl_r", "o", "q"}
  /\ None \notin Int

VARIABLES
  node,               \* "spinning", "stopped" (Ctrl-C) or "quit" (key q)
  vehicle_flag, flag_age,
  throttle, brake, steering, current_gear,
  latest_gps,         \* number of the last fix received, or None
  waypoints,          \* each the fixes its three coordinates were taken from
  saved,              \* the waypoints in the last file written, or None
  executor,           \* where the executor's thread is, and what it has read
  listener,           \* the same of the keyboard thread
  publish_due, check_due,
  control,            \* the last command published
  keys,               \* the keys of this session
  late                \* history: throttle and gear raised since green ended

flagVars == <<vehicle_flag, flag_age>>
pedalVars == <<throttle, brake>>
waypointVars == <<waypoints, saved>>
timerVars == <<publish_due, check_due>>
vars == <<node, flagVars, pedalVars, steering, current_gear, latest_gps,
          waypointVars, executor, listener, timerVars, control, keys, late>>

Smaller(a, b) == IF a < b THEN a ELSE b
Larger(a, b) == IF a > b THEN a ELSE b
Idle == [at |-> "idle"]
Ended == [at |-> "ended"]

Init ==
  /\ node = "spinning"
  /\ vehicle_flag = "RED" /\ flag_age = 0
  /\ throttle = 0 /\ brake = 0 /\ steering = 0
  /\ current_gear = 1                 \* GEAR_DRIVE
  /\ latest_gps = None
  /\ waypoints = <<>> /\ saved = None
  /\ executor = Idle /\ listener = Idle
  /\ publish_due = FALSE /\ check_due = FALSE
  /\ control = None
  /\ keys \in KeySets
  /\ late = 0

-----------------------------------------------------------------------------
(* The executor's thread.                                                    *)
vehicle_flag_callback(flag) ==
  /\ executor = Idle
  /\ vehicle_flag' = flag
  /\ flag_age' = 0
  /\ late' = IF flag \in GreenFlags THEN 0 ELSE late
  /\ UNCHANGED <<node, pedalVars, steering, current_gear, latest_gps, waypointVars,
                 executor, listener, timerVars, control, keys>>

(* The first waypoint would be recorded here if latest_odom were ever set;   *)
(* nothing subscribes odom_callback.                                         *)
gps_callback ==
  /\ executor = Idle
  /\ IF latest_gps = None THEN latest_gps' = 1
                          ELSE latest_gps < MaxFixes /\ latest_gps' = latest_gps + 1
  /\ UNCHANGED <<node, flagVars, pedalVars, steering, current_gear, waypointVars,
                 executor, listener, timerVars, control, keys, late>>

(* check_flag_timeout writes the flag, the pedals and the steering in turn.  *)
CheckFlag ==
  /\ executor = Idle /\ check_due
  /\ IF flag_age > FlagTimeout
       THEN vehicle_flag' = "RED" /\ executor' = [at |-> "timeout_throttle"]
       ELSE UNCHANGED <<vehicle_flag, executor>>
  /\ check_due' = FALSE
  /\ UNCHANGED <<node, flag_age, pedalVars, steering, current_gear, latest_gps,
                 waypointVars, listener, publish_due, control, keys, late>>

(* Mutant of TimeoutThrottle: the pedal is left alone.                       *)
TimeoutThrottle_Kept ==
  /\ executor.at = "timeout_throttle" /\ executor' = [at |-> "timeout_brake"]
  /\ UNCHANGED <<node, flagVars, pedalVars, steering, current_gear, latest_gps,
                 waypointVars, listener, timerVars, control, keys, late>>

TimeoutThrottle ==
  /\ executor.at = "timeout_throttle" /\ executor' = [at |-> "timeout_brake"]
  /\ throttle' = 0
  /\ UNCHANGED <<node, flagVars, brake, steering, current_gear, latest_gps,
                 waypointVars, listener, timerVars, control, keys, late>>

TimeoutBrake ==
  /\ executor.at = "timeout_brake" /\ executor' = [at |-> "timeout_steering"]
  /\ brake' = MaxBrake
  /\ UNCHANGED <<node, flagVars, throttle, steering, current_gear, latest_gps,
                 waypointVars, listener, timerVars, control, keys, late>>

TimeoutSteering ==
  /\ executor.at = "timeout_steering" /\ executor' = Idle
  /\ steering' = 0
  /\ UNCHANGED <<node, flagVars, pedalVars, current_gear, latest_gps,
                 waypointVars, listener, timerVars, control, keys, late>>

check_flag_timeout == CheckFlag \/ TimeoutThrottle \/ TimeoutBrake \/ TimeoutSteering

(* timer_callback reads the pedals one after the other.                      *)
ReadThrottle ==
  /\ executor = Idle /\ publish_due
  /\ executor' = [at |-> "read_brake", acceleration |-> throttle]
  /\ publish_due' = FALSE
  /\ UNCHANGED <<node, flagVars, pedalVars, steering, current_gear, latest_gps,
                 waypointVars, listener, check_due, control, keys, late>>

ReadBrake ==
  /\ executor.at = "read_brake"
  /\ executor' = [at |-> "publish", acceleration |-> executor.acceleration,
                  braking |-> brake]
  /\ UNCHANGED <<node, flagVars, pedalVars, steering, current_gear, latest_gps,
                 waypointVars, listener, timerVars, control, keys, late>>

(* Mutant of Publish: a red flag does not override the brake.                *)
Publish_BrakeAsRead ==
  /\ executor.at = "publish" /\ executor' = Idle
  /\ control' = [acceleration |-> executor.acceleration, braking |-> executor.braking,
                 target_wheel_angle |-> steering, target_gear |-> current_gear]
  /\ UNCHANGED <<node, flagVars, pedalVars, steering, current_gear, latest_gps,
                 waypointVars, listener, timerVars, keys, late>>

Publish ==
  /\ executor.at = "publish" /\ executor' = Idle
  /\ control' = [acceleration |-> executor.acceleration,
                 braking |-> IF vehicle_flag = "RED" THEN MaxBrake ELSE executor.braking,
                 target_wheel_angle |-> steering, target_gear |-> current_gear]
  /\ UNCHANGED <<node, flagVars, pedalVars, steering, current_gear, latest_gps,
                 waypointVars, listener, timerVars, keys, late>>

timer_callback == ReadThrottle \/ ReadBrake \/ Publish

-----------------------------------------------------------------------------
(* The keyboard thread.  on_press reads the flag first and acts later.       *)
executorVars == <<executor, timerVars, control, flagVars, latest_gps>>

FlagIsGreen == vehicle_flag \in GreenFlags

CountLate == late' = IF FlagIsGreen THEN 0 ELSE Smaller(late + 1, 2)

(* A key that needs several accesses: the first of them.                     *)
FirstStep(key) ==
  CASE key = "8" -> "read_throttle"
    [] key = "5" -> "read_brake"
    [] key \in {"4", "6"} -> "read_steering"
    [] key = "up" -> "shift_up"
    [] key = "down" -> "shift_down"
    [] key = "ctrl_r" -> "record"

NeedsGreen == {"8", "up", "down"}

(* Mutant of Press: no look at the flag.                                     *)
Press_AnyFlag(key) ==
  /\ listener = Idle
  /\ key = "ctrl_r" => SaveWaypoints /\ latest_gps # None
  /\ listener' = [at |-> FirstStep(key), key |-> key, read |-> <<>>]
  /\ UNCHANGED <<node, executorVars, pedalVars, steering, current_gear, waypointVars,
                 keys, late>>

Press(key) ==
  /\ listener = Idle
  /\ key \in NeedsGreen => FlagIsGreen
  /\ key = "ctrl_r" => SaveWaypoints /\ latest_gps # None
  /\ listener' = [at |-> FirstStep(key), key |-> key, read |-> <<>>]
  /\ UNCHANGED <<node, executorVars, pedalVars, steering, current_gear, waypointVars,
                 keys, late>>

(* Key 8: self.throttle = min(0.3, self.throttle + step); self.brake = 0.0.  *)
(* Key 5: self.brake = min(1.0, self.brake + step); self.throttle = 0.0.     *)
Read(value) == listener' = [at |-> "write", key |-> listener.key, read |-> value]

ReadPedal ==
  /\ \/ listener.at = "read_throttle" /\ Read(throttle)
     \/ listener.at = "read_brake" /\ Read(brake)
     \/ listener.at = "read_steering" /\ Read(steering)
  /\ UNCHANGED <<node, executorVars, pedalVars, steering, current_gear, waypointVars,
                 keys, late>>

WriteThrottle ==
  /\ listener.at = "write" /\ listener.key = "8"
  /\ throttle' = Smaller(MaxThrottle, listener.read + 1)
  /\ listener' = [at |-> "zero_brake"]
  /\ CountLate
  /\ UNCHANGED <<node, executorVars, brake, steering, current_gear, waypointVars, keys>>

WriteBrake ==
  /\ listener.at = "write" /\ listener.key = "5"
  /\ brake' = Smaller(MaxBrake, listener.read + 1)
  /\ listener' = [at |-> "zero_throttle"]
  /\ UNCHANGED <<node, executorVars, throttle, steering, current_gear, waypointVars,
                 keys, late>>

ReleaseOther ==
  /\ \/ listener.at = "zero_brake" /\ brake' = 0 /\ UNCHANGED throttle
     \/ listener.at = "zero_throttle" /\ throttle' = 0 /\ UNCHANGED brake
  /\ listener' = Idle
  /\ UNCHANGED <<node, executorVars, steering, current_gear, waypointVars, keys, late>>

(* min and max are the wrong way round: neither limits the angle on the side *)
(* the key turns to.                                                         *)
WriteSteering ==
  /\ listener.at = "write" /\ listener.key \in {"4", "6"}
  /\ steering' = IF listener.key = "4" THEN Smaller(MaxSteering, listener.read - 1)
                                       ELSE Larger(-MaxSteering, listener.read + 1)
  /\ steering' \in (-SteeringBound)..SteeringBound
  /\ listener' = Idle
  /\ UNCHANGED <<node, executorVars, pedalVars, current_gear, waypointVars, keys, late>>

shift_up ==
  /\ listener.at = "shift_up"
  /\ IF current_gear < MaxGear THEN current_gear' = current_gear + 1 /\ CountLate
                               ELSE UNCHANGED <<current_gear, late>>
  /\ listener' = Idle
  /\ UNCHANGED <<node, executorVars, pedalVars, steering, waypointVars, keys>>

shift_down ==
  /\ listener.at = "shift_down"
  /\ IF current_gear > 0 THEN current_gear' = current_gear - 1 /\ CountLate
                         ELSE UNCHANGED <<current_gear, late>>
  /\ listener' = Idle
  /\ UNCHANGED <<node, executorVars, pedalVars, steering, waypointVars, keys>>

(* record_waypoint reads self.latest_gps anew for every coordinate.          *)
ReadCoordinate ==
  /\ listener.at = "record" /\ Len(waypoints) < MaxWaypoints
  /\ Len(listener.read) < 3
  /\ listener' = [at |-> "record", key |-> listener.key,
                  read |-> Append(listener.read, latest_gps)]
  /\ UNCHANGED <<node, executorVars, pedalVars, steering, current_gear, waypointVars,
                 keys, late>>

(* Mutant of AppendWaypoint: the altitude is put first.                      *)
AppendWaypoint_AltitudeFirst ==
  /\ listener.at = "record" /\ Len(listener.read) = 3
  /\ waypoints' = Append(waypoints, <<listener.read[3], listener.read[1], listener.read[2]>>)
  /\ listener' = Idle
  /\ UNCHANGED <<node, executorVars, pedalVars, steering, current_gear, saved, keys, late>>

AppendWaypoint ==
  /\ listener.at = "record" /\ Len(listener.read) = 3
  /\ waypoints' = Append(waypoints, listener.read)
  /\ listener' = Idle
  /\ UNCHANGED <<node, executorVars, pedalVars, steering, current_gear, saved, keys, late>>

(* A file that cannot be written is logged, and that is all.                 *)
save_waypoints ==
  \/ waypoints # <<>> /\ saved' = waypoints
  \/ UNCHANGED saved

(* A directory that cannot be made raises outside of the try: nothing in     *)
(* on_press catches it, and it ends the listener, but not the node.          *)
PressSave ==
  /\ listener = Idle /\ SaveWaypoints
  /\ \/ save_waypoints /\ UNCHANGED listener
     \/ waypoints # <<>> /\ listener' = Ended /\ UNCHANGED saved
  /\ UNCHANGED <<node, executorVars, pedalVars, steering, current_gear, waypoints,
                 keys, late>>

(* Key q shuts rclpy down; main does not save.                               *)
PressQuit ==
  /\ listener = Idle
  /\ node' = "quit"
  /\ UNCHANGED <<executorVars, listener, pedalVars, steering, current_gear,
                 waypointVars, keys, late>>

on_release(key) ==
  /\ listener = Idle
  /\ throttle' = IF key = "8" THEN 0 ELSE throttle
  /\ brake' = IF key = "5" THEN 0 ELSE brake
  /\ steering' = IF key \in {"4", "6"} THEN 0 ELSE steering
  /\ UNCHANGED <<node, executorVars, listener, current_gear, waypointVars, keys, late>>

on_press ==
  \/ \E key \in keys \ {"o", "q"} : Press(key)
  \/ ReadPedal \/ WriteThrottle \/ WriteBrake \/ ReleaseOther \/ WriteSteering
  \/ shift_up \/ shift_down
  \/ ReadCoordinate \/ AppendWaypoint
  \/ "o" \in keys /\ PressSave
  \/ "q" \in keys /\ PressQuit

-----------------------------------------------------------------------------
(* Ctrl-C, at any point of either thread: main saves the waypoints, and ends *)
(* whether or not that raises.                                               *)
KeyboardInterrupt ==
  /\ save_waypoints
  /\ node' = "stopped"
  /\ UNCHANGED <<executorVars, listener, pedalVars, steering, current_gear, waypoints,
                 keys, late>>

(* The next period begins: both timers fire.                                 *)
Tick ==
  /\ executor = Idle /\ listener \in {Idle, Ended} /\ ~publish_due /\ ~check_due
  /\ publish_due' = TRUE /\ check_due' = TRUE
  /\ flag_age' = Smaller(flag_age + 1, MaxAge)
  /\ UNCHANGED <<node, vehicle_flag, pedalVars, steering, current_gear, latest_gps,
                 waypointVars, executor, listener, control, keys, late>>

Next ==
  /\ node = "spinning"
  /\ \/ \E flag \in ReceivedFlags : vehicle_flag_callback(flag)
     \/ gps_callback
     \/ check_flag_timeout
     \/ timer_callback
     \/ on_press
     \/ \E key \in keys \cap {"8", "5", "4", "6"} : on_release(key)
     \/ KeyboardInterrupt
     \/ Tick

Spec == Init /\ [][Next]_vars

-----------------------------------------------------------------------------
Commands == [acceleration : 0..MaxThrottle, braking : 0..MaxBrake,
             target_wheel_angle : Int, target_gear : 0..MaxGear]

FlagTyped == vehicle_flag \in VehicleFlag /\ flag_age \in 0..MaxAge

PedalsTyped ==
  /\ throttle \in 0..MaxThrottle /\ brake \in 0..MaxBrake
  /\ steering \in (-SteeringBound)..SteeringBound
  /\ current_gear \in 0..MaxGear

(* The accesses each thread may be at, and what was read for the next.       *)
ExecutorTyped ==
  /\ executor.at \in {"idle", "timeout_throttle", "timeout_brake", "timeout_steering",
                      "read_brake", "publish"}
  /\ executor.at \in {"read_brake", "publish"} => executor.acceleration \in 0..MaxThrottle
  /\ executor.at = "publish" => executor.braking \in 0..MaxBrake
  /\ publish_due \in BOOLEAN /\ check_due \in BOOLEAN
  /\ control # None => control \in Commands

ListenerTyped ==
  /\ listener.at \in {"idle", "ended", "read_throttle", "read_brake", "read_steering",
                      "write", "zero_brake", "zero_throttle", "shift_up", "shift_down", "record"}
  /\ listener.at = "read_throttle" => listener.key = "8"
  /\ listener.at = "read_brake" => listener.key = "5"
  /\ listener.at = "read_steering" => listener.key \in {"4", "6"}
  /\ listener.at = "write" =>
       \/ listener.key = "8" /\ listener.read \in 0..MaxThrottle
       \/ listener.key = "5" /\ listener.read \in 0..MaxBrake
       \/ listener.key \in {"4", "6"} /\ listener.read \in Int

WaypointsTyped ==
  /\ latest_gps \in (1..MaxFixes) \cup {None}
  /\ listener.at = "record" =>
       /\ listener.read \in Seq(1..MaxFixes) /\ Len(listener.read) \in 0..3
       /\ latest_gps # None
  /\ waypoints \in Seq(Seq(1..MaxFixes))
  /\ saved # None => saved \in Seq(Seq(1..MaxFixes))

(* Type invariant.                                                           *)
TypeOK ==
  /\ node \in {"spinning", "stopped", "quit"} /\ keys \in KeySets /\ late \in 0..2
  /\ FlagTyped /\ PedalsTyped /\ ExecutorTyped /\ ListenerTyped /\ WaypointsTyped

(* A driver who holds the throttle does not keep the car going without       *)
(* flags: once the last flag is older than the timeout and a period, every   *)
(* command brakes fully, and a period later the throttle is released too,    *)
(* whatever the two threads wrote over each other.                           *)
Published == executor = Idle /\ ~publish_due /\ control # None

StaleFlagReleases ==
  Published =>
    /\ flag_age > FlagTimeout + 1 => control.braking = MaxBrake
    /\ flag_age > FlagTimeout + 2 => control.acceleration = 0

(* "only works with GREEN flags": keys are ignored without green, except for *)
(* the one that was being handled when the flag was withdrawn.               *)
OneLateKey == late <= 1

(* A waypoint may mix two fixes, but never out of order: coordinate after    *)
(* coordinate, waypoint after waypoint, the fixes get newer.                 *)
WaypointsInOrder ==
  \A i \in 1..Len(waypoints), j \in 1..3 :
     /\ j < 3 => waypoints[i][j] <= waypoints[i][j + 1]
     /\ j = 3 /\ i < Len(waypoints) => waypoints[i][3] <= waypoints[i + 1][1]

=============================================================================
