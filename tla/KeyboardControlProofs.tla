------------------------ MODULE KeyboardControlProofs ------------------------
(* Proofs about the keyboard controller, for every timeout, every limit and  *)
(* every set of keys, and every interleaving of its two threads.             *)
EXTENDS KeyboardControl, SequenceTheorems, TLAPS

-----------------------------------------------------------------------------
(* A step of a pedal stays within its travel.                                *)
LEMMA StepWithin ==
  ASSUME NEW limit \in Nat, NEW value \in 0..limit
  PROVE  Smaller(limit, value + 1) \in 0..limit
  BY DEF Smaller

(* One more fix read, up to the third.                                       *)
LEMMA AppendFix ==
  ASSUME NEW S, NEW fixes \in Seq(S), Len(fixes) < 3, NEW fix \in S
  PROVE  /\ Append(fixes, fix) \in Seq(S)
         /\ Len(Append(fixes, fix)) \in 0..3
<1>1. /\ Len(fixes) \in Nat /\ Append(fixes, fix) \in Seq(S)
      /\ Len(Append(fixes, fix)) = Len(fixes) + 1
  OBVIOUS
<1> QED BY <1>1

(* The initial state is typed.                                               *)
LEMMA InitTyped == Init => TypeOK
<1> SUFFICES ASSUME Init PROVE TypeOK
  OBVIOUS
<1> USE KeyboardAssumption DEF Init, Idle
<1>1. FlagTyped
  BY DEF FlagTyped, VehicleFlag
<1>2. PedalsTyped
  BY DEF PedalsTyped
<1>3. ExecutorTyped /\ ListenerTyped
  BY DEF ExecutorTyped, ListenerTyped
<1>4. WaypointsTyped
  BY DEF WaypointsTyped
<1> QED BY <1>1, <1>2, <1>3, <1>4 DEF TypeOK

(* The flag and its age keep their types.                                    *)
LEMMA FlagStep == TypeOK /\ [Next]_vars => FlagTyped'
<1> SUFFICES ASSUME TypeOK, [Next]_vars PROVE FlagTyped'
  OBVIOUS
<1> USE KeyboardAssumption DEF TypeOK, FlagTyped
<1>1. ASSUME NEW flag \in ReceivedFlags, vehicle_flag_callback(flag) PROVE FlagTyped'
  BY <1>1 DEF vehicle_flag_callback
<1>2. CASE CheckFlag
  BY <1>2 DEF CheckFlag, VehicleFlag
<1>3. CASE Tick
  BY <1>3 DEF Tick, Smaller
<1>4. CASE UNCHANGED flagVars
  BY <1>4 DEF flagVars
<1> QED
  BY <1>1, <1>2, <1>3, <1>4 DEF Next, check_flag_timeout, timer_callback, on_press,
     gps_callback, TimeoutThrottle, TimeoutBrake, TimeoutSteering, ReadThrottle, ReadBrake,
     Publish, Press, ReadPedal, WriteThrottle, WriteBrake, ReleaseOther, WriteSteering,
     shift_up, shift_down, ReadCoordinate, AppendWaypoint, PressSave, PressQuit,
     on_release, KeyboardInterrupt, executorVars, vars

(* The pedals, and what the keyboard thread holds, keep their types: what it *)
(* read before it was preempted is still a position of its pedal.            *)
LEMMA ListenerStep == TypeOK /\ [Next]_vars => PedalsTyped' /\ ListenerTyped'
<1> SUFFICES ASSUME TypeOK, [Next]_vars PROVE PedalsTyped' /\ ListenerTyped'
  OBVIOUS
<1> USE KeyboardAssumption DEF TypeOK, PedalsTyped, pedalVars
<1>1. CASE TimeoutThrottle \/ TimeoutBrake \/ TimeoutSteering
  BY <1>1 DEF TimeoutThrottle, TimeoutBrake, TimeoutSteering, ListenerTyped
<1>2. ASSUME NEW key \in keys \ {"o", "q"}, Press(key) PROVE PedalsTyped' /\ ListenerTyped'
  <2>1. key \in {"8", "5", "4", "6", "up", "down", "ctrl_r"}
    OBVIOUS
  <2>2. /\ listener'.at = FirstStep(key) /\ listener'.key = key
        /\ UNCHANGED <<pedalVars, steering, current_gear>>
    BY <1>2 DEF Press
  <2>3. ListenerTyped'
    BY <2>1, <2>2 DEF FirstStep, ListenerTyped
  <2> QED BY <2>2, <2>3
<1>3. CASE ReadPedal
  BY <1>3 DEF ReadPedal, Read, ListenerTyped
<1>4. CASE WriteThrottle
  BY <1>4, StepWithin DEF WriteThrottle, ListenerTyped
<1>5. CASE WriteBrake
  BY <1>5, StepWithin DEF WriteBrake, ListenerTyped
<1>6. CASE ReleaseOther
  BY <1>6 DEF ReleaseOther, ListenerTyped, Idle
<1>7. CASE WriteSteering
  BY <1>7 DEF WriteSteering, ListenerTyped, Idle
<1>8. CASE shift_up \/ shift_down
  BY <1>8 DEF shift_up, shift_down, ListenerTyped, Idle
<1>9. CASE ReadCoordinate \/ AppendWaypoint
  <2>1. /\ listener'.at \in {"record", "idle"}
        /\ UNCHANGED <<pedalVars, steering, current_gear>>
    BY <1>9 DEF ReadCoordinate, AppendWaypoint, Idle
  <2> QED BY <2>1 DEF ListenerTyped
<1>10. ASSUME NEW key \in keys, on_release(key) PROVE PedalsTyped' /\ ListenerTyped'
  BY <1>10 DEF on_release, ListenerTyped
<1>11. CASE UNCHANGED <<pedalVars, steering, current_gear, listener>>
  BY <1>11 DEF ListenerTyped
<1>12. CASE PressSave
  <2>1. /\ listener' = listener \/ listener'.at = "ended"
        /\ UNCHANGED <<pedalVars, steering, current_gear>>
    BY <1>12 DEF PressSave, Ended
  <2> QED BY <2>1 DEF ListenerTyped
<1> QED
  BY <1>1, <1>2, <1>3, <1>4, <1>5, <1>6, <1>7, <1>8, <1>9, <1>10, <1>11, <1>12
  DEF Next, vehicle_flag_callback, gps_callback, check_flag_timeout, timer_callback,
      on_press, CheckFlag, ReadThrottle, ReadBrake, Publish, PressSave, PressQuit,
      KeyboardInterrupt, Tick, vars

(* What the executor's thread holds, and what it publishes, keep their types.*)
LEMMA ExecutorStep == TypeOK /\ [Next]_vars => ExecutorTyped'
<1> SUFFICES ASSUME TypeOK, [Next]_vars PROVE ExecutorTyped'
  OBVIOUS
<1> USE KeyboardAssumption DEF TypeOK, ExecutorTyped, timerVars
<1>1. CASE check_flag_timeout
  <2>1. \/ UNCHANGED executor
        \/ executor'.at \in {"idle", "timeout_throttle", "timeout_brake", "timeout_steering"}
    BY <1>1 DEF check_flag_timeout, CheckFlag, TimeoutThrottle, TimeoutBrake,
       TimeoutSteering, Idle
  <2>2. check_due' \in BOOLEAN /\ UNCHANGED <<publish_due, control>>
    BY <1>1 DEF check_flag_timeout, CheckFlag, TimeoutThrottle, TimeoutBrake,
       TimeoutSteering
  <2> QED BY <2>1, <2>2
<1>2. CASE ReadThrottle
  BY <1>2 DEF ReadThrottle, PedalsTyped
<1>2b. CASE ReadBrake
  <2>1. /\ executor'.at = "publish" /\ executor'.acceleration = executor.acceleration
        /\ executor'.braking = brake /\ executor.at = "read_brake"
        /\ UNCHANGED <<timerVars, control>>
    BY <1>2b DEF ReadBrake
  <2> QED BY <2>1 DEF PedalsTyped
<1>3. CASE Publish
  BY <1>3 DEF Publish, Commands, PedalsTyped, Idle
<1>4. CASE Tick
  BY <1>4 DEF Tick
<1>5. CASE UNCHANGED <<executor, timerVars, control>>
  BY <1>5
<1> QED
  BY <1>1, <1>2, <1>2b, <1>3, <1>4, <1>5
  DEF Next, vehicle_flag_callback, gps_callback, timer_callback, on_press, Press, ReadPedal,
      WriteThrottle, WriteBrake, ReleaseOther, WriteSteering, shift_up, shift_down,
      ReadCoordinate, AppendWaypoint, PressSave, PressQuit, on_release, KeyboardInterrupt,
      executorVars, vars

(* The fixes, the waypoint at hand and the waypoints recorded keep their     *)
(* types.                                                                    *)
LEMMA WaypointsStep == TypeOK /\ [Next]_vars => WaypointsTyped'
<1> SUFFICES ASSUME TypeOK, [Next]_vars PROVE WaypointsTyped'
  OBVIOUS
<1> USE KeyboardAssumption DEF TypeOK, WaypointsTyped, waypointVars
<1>1. CASE gps_callback
  <2>1. latest_gps' \in 1..MaxFixes /\ UNCHANGED <<listener, waypointVars>>
    BY <1>1 DEF gps_callback
  <2>2. latest_gps' # None
    BY <2>1
  <2> QED BY <2>1, <2>2
<1>2. ASSUME NEW key \in keys \ {"o", "q"}, Press(key) PROVE WaypointsTyped'
  <2>1. key \in {"8", "5", "4", "6", "up", "down", "ctrl_r"}
    OBVIOUS
  <2>2. /\ listener'.at = FirstStep(key) /\ listener'.read = <<>>
        /\ key = "ctrl_r" => latest_gps # None
        /\ UNCHANGED <<latest_gps, waypointVars>>
    BY <1>2 DEF Press, executorVars
  <2>3. listener'.at = "record" => latest_gps # None
    BY <2>1, <2>2 DEF FirstStep
  <2> QED BY <2>2, <2>3
<1>3. CASE ReadPedal
  BY <1>3 DEF ReadPedal, Read, executorVars
<1>4. CASE ReadCoordinate
  <2>1. /\ latest_gps \in 1..MaxFixes /\ latest_gps # None
        /\ listener.read \in Seq(1..MaxFixes)
        /\ Len(listener.read) < 3
        /\ listener'.read = Append(listener.read, latest_gps)
        /\ UNCHANGED <<latest_gps, waypointVars>>
    BY <1>4 DEF ReadCoordinate, executorVars
  <2>2. /\ Append(listener.read, latest_gps) \in Seq(1..MaxFixes)
        /\ Len(Append(listener.read, latest_gps)) \in 0..3
    BY <2>1, AppendFix
  <2>3. listener'.read \in Seq(1..MaxFixes) /\ Len(listener'.read) \in 0..3
    BY <2>1, <2>2, Zenon
  <2>4. /\ latest_gps' \in (1..MaxFixes) \cup {None} /\ latest_gps' # None
        /\ waypoints' \in Seq(Seq(1..MaxFixes))
        /\ saved' # None => saved' \in Seq(Seq(1..MaxFixes))
    BY <2>1
  <2> QED BY <2>3, <2>4, Zenon
<1>5. CASE AppendWaypoint
  <2>1. /\ listener.read \in Seq(1..MaxFixes) /\ listener'.at = "idle"
        /\ waypoints' = Append(waypoints, listener.read)
        /\ UNCHANGED <<latest_gps, saved>>
    BY <1>5 DEF AppendWaypoint, executorVars, Idle
  <2>2. waypoints' \in Seq(Seq(1..MaxFixes))
    BY <2>1
  <2> QED BY <2>1, <2>2
<1>6. CASE PressSave \/ KeyboardInterrupt
  <2>1. /\ saved' \in {saved, waypoints}
        /\ listener' = listener \/ listener'.at = "ended"
        /\ UNCHANGED <<latest_gps, waypoints>>
    BY <1>6 DEF PressSave, KeyboardInterrupt, save_waypoints, executorVars, Ended
  <2> QED BY <2>1
<1>7. CASE \/ WriteThrottle \/ WriteBrake \/ ReleaseOther \/ WriteSteering
           \/ shift_up \/ shift_down
  BY <1>7 DEF WriteThrottle, WriteBrake, ReleaseOther, WriteSteering, shift_up, shift_down,
     executorVars, Idle
<1>8. CASE UNCHANGED <<latest_gps, listener, waypointVars>>
  BY <1>8
<1> QED
  BY <1>1, <1>2, <1>3, <1>4, <1>5, <1>6, <1>7, <1>8
  DEF Next, vehicle_flag_callback, check_flag_timeout, timer_callback, CheckFlag,
      TimeoutThrottle, TimeoutBrake, TimeoutSteering, ReadThrottle, ReadBrake, Publish,
      on_press, PressQuit, on_release, Tick, executorVars, vars

(* The node, the keys and the count of late keys keep their types.           *)
LEMMA SessionStep ==
  TypeOK /\ [Next]_vars =>
    node' \in {"spinning", "stopped", "quit"} /\ keys' \in KeySets /\ late' \in 0..2
<1> SUFFICES ASSUME TypeOK, [Next]_vars
             PROVE  node' \in {"spinning", "stopped", "quit"} /\ keys' \in KeySets
                    /\ late' \in 0..2
  OBVIOUS
<1>1. late \in 0..2 /\ keys \in KeySets /\ node \in {"spinning", "stopped", "quit"}
  BY DEF TypeOK
<1>2. UNCHANGED keys
  BY DEF Next, vehicle_flag_callback, gps_callback, check_flag_timeout, CheckFlag,
     TimeoutThrottle, TimeoutBrake, TimeoutSteering, timer_callback, ReadThrottle, ReadBrake,
     Publish, on_press, Press, ReadPedal, WriteThrottle, WriteBrake, ReleaseOther,
     WriteSteering, shift_up, shift_down, ReadCoordinate, AppendWaypoint, PressSave,
     PressQuit, on_release, KeyboardInterrupt, Tick, vars
<1>3. node' \in {node, "stopped", "quit"}
  BY DEF Next, vehicle_flag_callback, gps_callback, check_flag_timeout, CheckFlag,
     TimeoutThrottle, TimeoutBrake, TimeoutSteering, timer_callback, ReadThrottle, ReadBrake,
     Publish, on_press, Press, ReadPedal, WriteThrottle, WriteBrake, ReleaseOther,
     WriteSteering, shift_up, shift_down, ReadCoordinate, AppendWaypoint, PressSave,
     PressQuit, on_release, KeyboardInterrupt, Tick, vars
<1>4. late' = late \/ late' = 0 \/ CountLate
  BY DEF Next, vehicle_flag_callback, gps_callback, check_flag_timeout, CheckFlag,
     TimeoutThrottle, TimeoutBrake, TimeoutSteering, timer_callback, ReadThrottle, ReadBrake,
     Publish, on_press, Press, ReadPedal, WriteThrottle, WriteBrake, ReleaseOther,
     WriteSteering, shift_up, shift_down, ReadCoordinate, AppendWaypoint, PressSave,
     PressQuit, on_release, KeyboardInterrupt, Tick, vars
<1>5. late' \in 0..2
  BY <1>1, <1>4 DEF CountLate, Smaller
<1> QED BY <1>1, <1>2, <1>3, <1>5

LEMMA NextTyped == TypeOK /\ [Next]_vars => TypeOK'
  BY FlagStep, ListenerStep, ExecutorStep, WaypointsStep, SessionStep DEF TypeOK

(* The attributes of keyboard_control_node.py keep their types and their     *)
(* limits, whatever the two threads write over each other.                   *)
THEOREM TypeCorrect == Spec => []TypeOK
  BY InitTyped, NextTyped, PTL DEF Spec

-----------------------------------------------------------------------------
(* Once the flag is stale: the check has made it red; no key 8 is still      *)
(* being handled, so the throttle the check released stays released; and a   *)
(* period later the command being put together has read it.                  *)
Acting == listener.at = "read_throttle" \/ (listener.at = "write" /\ listener.key = "8")

Publishing == publish_due \/ executor.at \in {"read_brake", "publish"}

StaleFlag ==
  /\ flag_age > FlagTimeout /\ ~check_due => vehicle_flag = "RED"
  /\ flag_age > FlagTimeout + 1 => vehicle_flag = "RED" /\ ~Acting

StaleThrottle ==
  /\ flag_age > FlagTimeout + 1 /\ ~check_due /\ executor.at # "timeout_throttle"
       => throttle = 0
  /\ flag_age > FlagTimeout + 2 => throttle = 0

StaleCommand ==
  /\ flag_age > FlagTimeout + 2 /\ executor.at \in {"read_brake", "publish"}
       => executor.acceleration = 0
  /\ ~Publishing /\ control # None =>
       /\ flag_age > FlagTimeout + 1 => control.braking = MaxBrake
       /\ flag_age > FlagTimeout + 2 => control.acceleration = 0

(* At most one key was let in by a green that has ended since, and it has    *)
(* been handled.                                                             *)
Shifting == listener.at \in {"shift_up", "shift_down"}

LateKey == late <= 1 /\ (late = 1 => ~FlagIsGreen /\ ~Acting /\ ~Shifting)

(* The fixes read grow along a waypoint, from waypoint to waypoint, and up   *)
(* to the last fix received.                                                 *)
LastFix == waypoints[Len(waypoints)][3]

RecordedInOrder ==
  /\ \A i \in 1..Len(waypoints) :
       /\ Len(waypoints[i]) = 3
       /\ waypoints[i][1] <= waypoints[i][2] /\ waypoints[i][2] <= waypoints[i][3]
       /\ i < Len(waypoints) => waypoints[i][3] <= waypoints[i + 1][1]
  /\ waypoints # <<>> => latest_gps # None /\ LastFix <= latest_gps

ReadInOrder ==
  listener.at = "record" =>
    \A i \in 1..Len(listener.read) :
       /\ listener.read[i] <= latest_gps
       /\ i < Len(listener.read) => listener.read[i] <= listener.read[i + 1]
       /\ waypoints # <<>> => LastFix <= listener.read[i]

(* What key 8 needs it gets from a green flag only.                          *)
LEMMA ActingStep ==
  TypeOK /\ [Next]_vars /\ Acting' => Acting \/ (FlagIsGreen /\ UNCHANGED flagVars)
<1> SUFFICES ASSUME TypeOK, [Next]_vars, Acting'
             PROVE  Acting \/ (FlagIsGreen /\ UNCHANGED flagVars)
  OBVIOUS
<1> USE DEF Acting
<1>1. ASSUME NEW key \in keys \ {"o", "q"}, Press(key)
      PROVE  FlagIsGreen /\ UNCHANGED flagVars
  <2>1. key \in {"8", "5", "4", "6", "up", "down", "ctrl_r"}
    BY KeyboardAssumption DEF TypeOK
  <2>2. listener'.at = FirstStep(key) /\ UNCHANGED flagVars
        /\ (key \in NeedsGreen => FlagIsGreen)
    BY <1>1 DEF Press, executorVars
  <2>3. key = "8"
    BY <2>1, <2>2 DEF FirstStep
  <2> QED BY <2>2, <2>3 DEF NeedsGreen
<1>2. CASE ReadPedal
  <2>1. /\ listener.at \in {"read_throttle", "read_brake", "read_steering"}
        /\ listener'.at = "write" /\ listener'.key = listener.key
    BY <1>2 DEF ReadPedal, Read
  <2> QED BY <2>1 DEF TypeOK, ListenerTyped
<1>3. CASE \/ WriteThrottle \/ WriteBrake \/ ReleaseOther \/ WriteSteering
           \/ shift_up \/ shift_down \/ ReadCoordinate \/ AppendWaypoint
  BY <1>3 DEF WriteThrottle, WriteBrake, ReleaseOther, WriteSteering, shift_up, shift_down,
     ReadCoordinate, AppendWaypoint, Idle
<1>4. CASE PressSave \/ UNCHANGED listener
  BY <1>4 DEF PressSave, Ended
<1> QED
  BY <1>1, <1>2, <1>3, <1>4
  DEF Next, vehicle_flag_callback, gps_callback, check_flag_timeout, timer_callback,
      CheckFlag, TimeoutThrottle, TimeoutBrake, TimeoutSteering, ReadThrottle, ReadBrake,
      Publish, on_press, PressSave, PressQuit, on_release, KeyboardInterrupt, Tick,
      executorVars, vars

(* How a step changes the flag: one arrives, the check makes it red, or it   *)
(* grows older between two checks.                                           *)
LEMMA FlagChange ==
  TypeOK /\ [Next]_vars =>
    \/ flag_age' = 0
    \/ /\ check_due /\ ~check_due' /\ UNCHANGED <<flag_age, listener>>
       /\ vehicle_flag' = "RED" \/ (~(flag_age > FlagTimeout) /\ UNCHANGED vehicle_flag)
    \/ /\ check_due' /\ ~check_due /\ flag_age' = Smaller(flag_age + 1, MaxAge)
       /\ listener \in {Idle, Ended} /\ UNCHANGED <<vehicle_flag, listener>>
    \/ UNCHANGED <<flagVars, check_due>>
<1> SUFFICES ASSUME TypeOK, [Next]_vars
             PROVE  \/ flag_age' = 0
                    \/ /\ check_due /\ ~check_due' /\ UNCHANGED <<flag_age, listener>>
                       /\ vehicle_flag' = "RED" \/ (~(flag_age > FlagTimeout) /\ UNCHANGED vehicle_flag)
                    \/ /\ check_due' /\ ~check_due
                       /\ flag_age' = Smaller(flag_age + 1, MaxAge)
                       /\ listener \in {Idle, Ended} /\ UNCHANGED <<vehicle_flag, listener>>
                    \/ UNCHANGED <<flagVars, check_due>>
  OBVIOUS
<1>1. ASSUME NEW flag \in ReceivedFlags, vehicle_flag_callback(flag) PROVE flag_age' = 0
  BY <1>1 DEF vehicle_flag_callback
<1>2. CASE CheckFlag
  BY <1>2 DEF CheckFlag
<1>3. CASE Tick
  BY <1>3 DEF Tick
<1>4. CASE UNCHANGED <<flagVars, check_due>>
  BY <1>4
<1> QED
  BY <1>1, <1>2, <1>3, <1>4
  DEF Next, gps_callback, check_flag_timeout, timer_callback,
      TimeoutThrottle, TimeoutBrake, TimeoutSteering, ReadThrottle, ReadBrake,
      Publish, on_press, Press, ReadPedal, WriteThrottle, WriteBrake, ReleaseOther,
      WriteSteering, shift_up, shift_down, ReadCoordinate, AppendWaypoint, PressSave,
      PressQuit, on_release, KeyboardInterrupt, executorVars, timerVars, vars

LEMMA StaleFlagStep == TypeOK /\ StaleFlag /\ [Next]_vars => StaleFlag'
<1> SUFFICES ASSUME TypeOK, StaleFlag, [Next]_vars PROVE StaleFlag'
  OBVIOUS
<1>1. flag_age \in Nat /\ FlagTimeout \in Nat /\ MaxAge \in Nat
  BY KeyboardAssumption DEF TypeOK, FlagTyped
<1>2. Acting' => Acting \/ (FlagIsGreen /\ UNCHANGED flagVars)
  BY ActingStep
<1>3. CASE flag_age' = 0
  BY <1>3, <1>1 DEF StaleFlag
<1>4. CASE /\ check_due /\ ~check_due' /\ UNCHANGED <<flag_age, listener>>
           /\ vehicle_flag' = "RED" \/ (~(flag_age > FlagTimeout) /\ UNCHANGED vehicle_flag)
  BY <1>4, <1>1 DEF StaleFlag, Acting
<1>5. CASE /\ check_due' /\ ~check_due /\ flag_age' = Smaller(flag_age + 1, MaxAge)
           /\ listener \in {Idle, Ended} /\ UNCHANGED <<vehicle_flag, listener>>
  <2>1. ~Acting'
    BY <1>5 DEF Acting, Idle, Ended
  <2>2. flag_age' > FlagTimeout + 1 => flag_age > FlagTimeout
    BY <1>5, <1>1 DEF Smaller
  <2> QED BY <2>1, <2>2, <1>5 DEF StaleFlag
<1>6. CASE UNCHANGED <<flagVars, check_due>>
  <2>1. flag_age > FlagTimeout + 1 => ~FlagIsGreen
    BY <1>1 DEF StaleFlag, FlagIsGreen, GreenFlags
  <2>2. flag_age' > FlagTimeout + 1 => ~Acting'
    BY <1>2, <1>6, <2>1 DEF StaleFlag, flagVars
  <2> QED BY <1>6, <2>2 DEF StaleFlag, flagVars
<1> QED BY <1>3, <1>4, <1>5, <1>6, FlagChange
(* The throttle a stale flag released stays released: nobody writes it but   *)
(* key 8.                                                                    *)
LEMMA StaleThrottleStep == TypeOK /\ StaleFlag /\ StaleThrottle /\ [Next]_vars => StaleThrottle'
<1> SUFFICES ASSUME TypeOK, StaleFlag, StaleThrottle, [Next]_vars PROVE StaleThrottle'
  OBVIOUS
<1>a. flag_age \in Nat /\ FlagTimeout \in Nat /\ MaxAge \in Nat
  BY KeyboardAssumption DEF TypeOK, FlagTyped
<1>1. ASSUME NEW flag \in ReceivedFlags, vehicle_flag_callback(flag) PROVE StaleThrottle'
  <2>1. flag_age' = 0
    BY <1>1 DEF vehicle_flag_callback
  <2> QED BY <2>1, <1>a DEF StaleThrottle
<1>2. CASE CheckFlag
  <2>1. UNCHANGED <<flag_age, throttle>>
    BY <1>2 DEF CheckFlag, pedalVars
  <2>2. flag_age > FlagTimeout => executor'.at = "timeout_throttle"
    BY <1>2 DEF CheckFlag
  <2> QED BY <2>1, <2>2, <1>a DEF StaleThrottle
<1>3. CASE TimeoutThrottle
  BY <1>3 DEF TimeoutThrottle, StaleThrottle
<1>4. CASE TimeoutBrake \/ TimeoutSteering \/ timer_callback
  <2>1. UNCHANGED <<flag_age, throttle, check_due>>
    BY <1>4 DEF TimeoutBrake, TimeoutSteering, timer_callback, ReadThrottle, ReadBrake,
       Publish, flagVars, pedalVars, timerVars
  <2>2. executor.at # "timeout_throttle"
    BY <1>4 DEF TimeoutBrake, TimeoutSteering, timer_callback, ReadThrottle, ReadBrake,
       Publish, Idle
  <2> QED BY <2>1, <2>2 DEF StaleThrottle
<1>5. CASE WriteThrottle
  <2>1. Acting /\ UNCHANGED flag_age
    BY <1>5 DEF WriteThrottle, Acting, executorVars, flagVars
  <2>2. ~(flag_age > FlagTimeout + 1)
    BY <2>1 DEF StaleFlag
  <2>3. ~(flag_age > FlagTimeout + 2)
    BY <2>2, <1>a
  <2> QED BY <2>1, <2>2, <2>3 DEF StaleThrottle
<1>6. CASE Tick
  <2>1. /\ executor.at # "timeout_throttle" /\ ~check_due /\ check_due'
        /\ flag_age' = Smaller(flag_age + 1, MaxAge) /\ UNCHANGED throttle
    BY <1>6 DEF Tick, Idle, pedalVars
  <2>2. flag_age' > FlagTimeout + 2 => flag_age > FlagTimeout + 1
    BY <2>1, <1>a DEF Smaller
  <2> QED BY <2>1, <2>2 DEF StaleThrottle
<1>7. CASE UNCHANGED <<flag_age, check_due, executor>> /\ throttle' \in {0, throttle}
  BY <1>7 DEF StaleThrottle
<1>8. CASE ReleaseOther \/ WriteBrake \/ \E key \in keys : on_release(key)
  BY <1>8, <1>7 DEF ReleaseOther, WriteBrake, on_release, executorVars, flagVars, timerVars
<1> QED
  BY <1>1, <1>2, <1>3, <1>4, <1>5, <1>6, <1>7, <1>8
  DEF Next, gps_callback, check_flag_timeout, on_press, Press, ReadPedal, WriteSteering,
      shift_up, shift_down, ReadCoordinate, AppendWaypoint, PressSave, PressQuit,
      KeyboardInterrupt, executorVars, flagVars, timerVars, pedalVars, vars

(* The command a period later was put together from the released throttle,   *)
(* and while the flag was red.                                               *)
LEMMA StaleCommandStep ==
  TypeOK /\ StaleFlag /\ StaleThrottle /\ StaleCommand /\ [Next]_vars => StaleCommand'
<1> SUFFICES ASSUME TypeOK, StaleFlag, StaleThrottle, StaleCommand, [Next]_vars
             PROVE  StaleCommand'
  OBVIOUS
<1>a. flag_age \in Nat /\ FlagTimeout \in Nat /\ MaxAge \in Nat
  BY KeyboardAssumption DEF TypeOK, FlagTyped
<1>1. ASSUME NEW flag \in ReceivedFlags, vehicle_flag_callback(flag) PROVE StaleCommand'
  <2>1. flag_age' = 0
    BY <1>1 DEF vehicle_flag_callback
  <2> QED BY <2>1, <1>a DEF StaleCommand
<1>2. CASE check_flag_timeout
  <2>1. UNCHANGED <<flag_age, publish_due, control>>
    BY <1>2 DEF check_flag_timeout, CheckFlag, TimeoutThrottle, TimeoutBrake,
       TimeoutSteering, flagVars, timerVars
  <2>2. /\ executor.at \notin {"read_brake", "publish"}
        /\ executor'.at \notin {"read_brake", "publish"}
    BY <1>2 DEF check_flag_timeout, CheckFlag, TimeoutThrottle, TimeoutBrake,
       TimeoutSteering, Idle
  <2> QED BY <2>1, <2>2 DEF StaleCommand, Publishing
<1>3. CASE ReadThrottle
  <2>1. /\ executor'.at = "read_brake" /\ executor'.acceleration = throttle
        /\ UNCHANGED flag_age
    BY <1>3 DEF ReadThrottle, flagVars
  <2> QED BY <2>1 DEF StaleThrottle, StaleCommand, Publishing
<1>4. CASE ReadBrake
  <2>1. /\ executor.at = "read_brake" /\ executor'.at = "publish"
        /\ executor'.acceleration = executor.acceleration /\ UNCHANGED flag_age
    BY <1>4 DEF ReadBrake, flagVars
  <2> QED BY <2>1 DEF StaleCommand, Publishing
<1>5. CASE Publish
  <2>1. /\ executor.at = "publish" /\ executor'.at = "idle" /\ UNCHANGED flag_age
        /\ control'.acceleration = executor.acceleration
        /\ vehicle_flag = "RED" => control'.braking = MaxBrake
    BY <1>5 DEF Publish, Idle, flagVars
  <2>2. flag_age > FlagTimeout + 2 => executor.acceleration = 0
    BY <2>1 DEF StaleCommand
  <2>3. flag_age > FlagTimeout + 1 => vehicle_flag = "RED"
    BY DEF StaleFlag
  <2> QED BY <2>1, <2>2, <2>3 DEF StaleCommand
<1>6. CASE Tick
  <2>1. publish_due' /\ executor'.at = "idle"
    BY <1>6 DEF Tick, Idle
  <2> QED BY <2>1 DEF StaleCommand, Publishing
<1>7. CASE UNCHANGED <<flag_age, publish_due, executor, control>>
  BY <1>7 DEF StaleCommand, Publishing
<1> QED
  BY <1>1, <1>2, <1>3, <1>4, <1>5, <1>6, <1>7
  DEF Next, gps_callback, timer_callback, on_press, Press, ReadPedal, WriteThrottle,
      WriteBrake, ReleaseOther, WriteSteering, shift_up, shift_down, ReadCoordinate,
      AppendWaypoint, PressSave, PressQuit, on_release, KeyboardInterrupt,
      executorVars, flagVars, timerVars, vars

(* A driver who holds the throttle does not keep the car going without flags *)
(* (check_flag_timeout and timer_callback against on_press).                 *)
THEOREM StaleFlagStops == Spec => []StaleFlagReleases
<1> DEFINE Inv == TypeOK /\ StaleFlag /\ StaleThrottle /\ StaleCommand
<1>1. Init => Inv
  <2> SUFFICES ASSUME Init PROVE Inv
    OBVIOUS
  <2>1. FlagTimeout \in Nat /\ flag_age = 0 /\ control = None
    BY KeyboardAssumption DEF Init
  <2>2. StaleFlag /\ StaleThrottle /\ StaleCommand
    BY <2>1 DEF StaleFlag, StaleThrottle, StaleCommand
  <2> QED BY <2>2, InitTyped
<1>2. Inv /\ [Next]_vars => Inv'
  BY NextTyped, StaleFlagStep, StaleThrottleStep, StaleCommandStep
<1>3. Inv => StaleFlagReleases
  BY DEF StaleCommand, Publishing, StaleFlagReleases, Published, Idle
<1> QED BY <1>1, <1>2, <1>3, PTL DEF Spec
-----------------------------------------------------------------------------
(* A gear key, too, is let in by a green flag only.                          *)
LEMMA ShiftingStep ==
  TypeOK /\ [Next]_vars /\ Shifting' => Shifting \/ (FlagIsGreen /\ UNCHANGED flagVars)
<1> SUFFICES ASSUME TypeOK, [Next]_vars, Shifting'
             PROVE  Shifting \/ (FlagIsGreen /\ UNCHANGED flagVars)
  OBVIOUS
<1> USE DEF Shifting
<1>1. ASSUME NEW key \in keys \ {"o", "q"}, Press(key)
      PROVE  FlagIsGreen /\ UNCHANGED flagVars
  <2>1. key \in {"8", "5", "4", "6", "up", "down", "ctrl_r"}
    BY KeyboardAssumption DEF TypeOK
  <2>2. listener'.at = FirstStep(key) /\ UNCHANGED flagVars
        /\ (key \in NeedsGreen => FlagIsGreen)
    BY <1>1 DEF Press, executorVars
  <2>3. key \in {"up", "down"}
    BY <2>1, <2>2 DEF FirstStep
  <2> QED BY <2>2, <2>3 DEF NeedsGreen
<1>2. CASE \/ ReadPedal \/ WriteThrottle \/ WriteBrake \/ ReleaseOther \/ WriteSteering
           \/ shift_up \/ shift_down \/ ReadCoordinate \/ AppendWaypoint
  BY <1>2 DEF ReadPedal, Read, WriteThrottle, WriteBrake, ReleaseOther, WriteSteering,
     shift_up, shift_down, ReadCoordinate, AppendWaypoint, Idle
<1>3. CASE PressSave \/ UNCHANGED listener
  BY <1>3 DEF PressSave, Ended
<1> QED
  BY <1>1, <1>2, <1>3
  DEF Next, vehicle_flag_callback, gps_callback, check_flag_timeout, timer_callback,
      CheckFlag, TimeoutThrottle, TimeoutBrake, TimeoutSteering, ReadThrottle, ReadBrake,
      Publish, on_press, PressSave, PressQuit, on_release, KeyboardInterrupt, Tick,
      executorVars, vars

(* What a green flag lets in is one key, and the next needs a green again.   *)
LEMMA LateKeyStep == TypeOK /\ LateKey /\ [Next]_vars => LateKey'
<1> SUFFICES ASSUME TypeOK, LateKey, [Next]_vars PROVE LateKey'
  OBVIOUS
<1>a. late \in 0..1
  BY DEF TypeOK, LateKey
<1>b. ("RED" \in GreenFlags) = FALSE
  BY DEF GreenFlags
<1>1. ASSUME NEW flag \in ReceivedFlags, vehicle_flag_callback(flag) PROVE LateKey'
  <2>1. /\ vehicle_flag' = flag /\ late' = (IF flag \in GreenFlags THEN 0 ELSE late)
        /\ UNCHANGED listener
    BY <1>1 DEF vehicle_flag_callback
  <2> QED BY <2>1, <1>a DEF LateKey, FlagIsGreen, Acting, Shifting
<1>2. CASE CheckFlag
  <2>1. vehicle_flag' \in {vehicle_flag, "RED"} /\ UNCHANGED <<late, listener>>
    BY <1>2 DEF CheckFlag
  <2> QED BY <2>1, <1>b DEF LateKey, FlagIsGreen, Acting, Shifting
<1>3. CASE WriteThrottle \/ shift_up \/ shift_down
  <2>1. Acting \/ Shifting
    BY <1>3 DEF WriteThrottle, shift_up, shift_down, Acting, Shifting
  <2>2. late = 0
    BY <2>1, <1>a DEF LateKey
  <2>3. /\ UNCHANGED vehicle_flag /\ ~Acting' /\ ~Shifting'
        /\ CountLate \/ UNCHANGED late
    BY <1>3 DEF WriteThrottle, shift_up, shift_down, Acting, Shifting, Idle, executorVars,
       flagVars
  <2>4. late' = 0 \/ (late' = 1 /\ ~FlagIsGreen)
    BY <2>2, <2>3 DEF CountLate, Smaller
  <2> QED BY <2>3, <2>4 DEF LateKey, FlagIsGreen
<1>4. CASE UNCHANGED <<late, vehicle_flag>>
  <2>1. late = 1 => ~Acting' /\ ~Shifting'
    BY ActingStep, ShiftingStep DEF LateKey
  <2> QED BY <2>1, <1>4 DEF LateKey, FlagIsGreen
<1> QED
  BY <1>1, <1>2, <1>3, <1>4
  DEF Next, gps_callback, check_flag_timeout, timer_callback,
      TimeoutThrottle, TimeoutBrake, TimeoutSteering, ReadThrottle, ReadBrake,
      Publish, on_press, Press, ReadPedal, WriteBrake, ReleaseOther,
      WriteSteering, ReadCoordinate, AppendWaypoint, PressSave,
      PressQuit, on_release, KeyboardInterrupt, Tick, executorVars, flagVars, vars

(* on_press checks the flag before it acts: without green no key takes       *)
(* effect but the one being handled when the green flag was withdrawn.       *)
THEOREM OneKeyLate == Spec => []OneLateKey
<1>1. Init => LateKey
  BY DEF Init, LateKey
<1>2. Init => TypeOK /\ LateKey
  BY <1>1, InitTyped
<1>3. TypeOK /\ LateKey /\ [Next]_vars => (TypeOK /\ LateKey)'
  BY NextTyped, LateKeyStep
<1>4. TypeOK /\ LateKey => OneLateKey
  BY DEF LateKey, OneLateKey
<1> QED BY <1>2, <1>3, <1>4, PTL DEF Spec
-----------------------------------------------------------------------------
(* How a step changes the fixes and the waypoints.                           *)
LEMMA WaypointChange ==
  TypeOK /\ [Next]_vars =>
    \/ UNCHANGED <<waypoints, latest_gps>> /\ (listener'.at = "record" => UNCHANGED listener)
    \/ /\ latest_gps' \in 1..MaxFixes /\ (latest_gps # None => latest_gps <= latest_gps')
       /\ UNCHANGED <<waypoints, listener>>
    \/ listener'.read = <<>> /\ UNCHANGED <<waypoints, latest_gps>>
    \/ ReadCoordinate
    \/ AppendWaypoint
<1> SUFFICES ASSUME TypeOK, [Next]_vars
             PROVE  \/ /\ UNCHANGED <<waypoints, latest_gps>>
                       /\ listener'.at = "record" => UNCHANGED listener
                    \/ /\ latest_gps' \in 1..MaxFixes
                       /\ latest_gps # None => latest_gps <= latest_gps'
                       /\ UNCHANGED <<waypoints, listener>>
                    \/ listener'.read = <<>> /\ UNCHANGED <<waypoints, latest_gps>>
                    \/ ReadCoordinate
                    \/ AppendWaypoint
  OBVIOUS
<1>1. CASE gps_callback
  <2>1. latest_gps \in (1..MaxFixes) \cup {None} /\ MaxFixes \in Nat \ {0}
    BY KeyboardAssumption DEF TypeOK, WaypointsTyped
  <2>2. /\ latest_gps' \in 1..MaxFixes
        /\ latest_gps # None => latest_gps <= latest_gps'
    BY <1>1, <2>1 DEF gps_callback
  <2> QED BY <1>1, <2>2 DEF gps_callback, waypointVars
<1>2. ASSUME NEW key \in keys, Press(key)
      PROVE  listener'.read = <<>> /\ UNCHANGED <<waypoints, latest_gps>>
  BY <1>2 DEF Press, executorVars, waypointVars
<1>3. CASE \/ ReadPedal \/ WriteThrottle \/ WriteBrake \/ ReleaseOther \/ WriteSteering
           \/ shift_up \/ shift_down
  BY <1>3 DEF ReadPedal, Read, WriteThrottle, WriteBrake, ReleaseOther, WriteSteering,
     shift_up, shift_down, Idle, executorVars, waypointVars
<1>4. CASE PressSave \/ UNCHANGED <<waypoints, latest_gps, listener>>
  BY <1>4 DEF PressSave, Ended, executorVars
<1> QED
  BY <1>1, <1>2, <1>3, <1>4
  DEF Next, vehicle_flag_callback, check_flag_timeout, timer_callback, CheckFlag,
      TimeoutThrottle, TimeoutBrake, TimeoutSteering, ReadThrottle, ReadBrake, Publish,
      on_press, PressSave, PressQuit, on_release, KeyboardInterrupt, Tick,
      executorVars, waypointVars, vars

(* The fixes of a recorded waypoint are numbers.                             *)
LEMMA WaypointFixes ==
  ASSUME TypeOK, RecordedInOrder, NEW i \in 1..Len(waypoints)
  PROVE  waypoints[i][1] \in Nat /\ waypoints[i][2] \in Nat /\ waypoints[i][3] \in Nat
<1>1. waypoints[i] \in Seq(1..MaxFixes) /\ Len(waypoints[i]) = 3
  BY DEF TypeOK, WaypointsTyped, RecordedInOrder
<1>2. \A j \in 1..3 : waypoints[i][j] \in 1..MaxFixes
  BY <1>1, ElementOfSeq
<1>3. 1..MaxFixes \subseteq Nat
  BY KeyboardAssumption
<1> QED BY <1>2, <1>3

(* The reads of a waypoint only append, and what they append is the newest.  *)
LEMMA ReadStep ==
  TypeOK /\ RecordedInOrder /\ ReadInOrder /\ [Next]_vars => ReadInOrder'
<1> SUFFICES ASSUME TypeOK, RecordedInOrder, ReadInOrder, [Next]_vars, listener'.at = "record",
                    NEW i \in 1..Len(listener'.read)
             PROVE  /\ listener'.read[i] <= latest_gps'
                    /\ i < Len(listener'.read) => listener'.read[i] <= listener'.read[i + 1]
                    /\ waypoints' # <<>> => LastFix' <= listener'.read[i]
  BY DEF ReadInOrder
<1>1. CASE UNCHANGED <<waypoints, latest_gps>> /\ (listener'.at = "record" => UNCHANGED listener)
  BY <1>1 DEF ReadInOrder, LastFix
<1>2. CASE /\ latest_gps' \in 1..MaxFixes /\ (latest_gps # None => latest_gps <= latest_gps')
           /\ UNCHANGED <<waypoints, listener>>
  <2>1. /\ listener.read \in Seq(1..MaxFixes) /\ latest_gps \in 1..MaxFixes
        /\ latest_gps # None /\ MaxFixes \in Nat
    BY <1>2, KeyboardAssumption DEF TypeOK, WaypointsTyped
  <2>2. listener.read[i] \in 1..MaxFixes
    BY <1>2, <2>1
  <2>3. /\ listener.read[i] <= latest_gps
        /\ i < Len(listener.read) => listener.read[i] <= listener.read[i + 1]
        /\ waypoints # <<>> => LastFix <= listener.read[i]
    BY <1>2 DEF ReadInOrder
  <2>4. listener'.read[i] <= latest_gps'
    BY <1>2, <2>1, <2>2, <2>3
  <2> QED BY <1>2, <2>3, <2>4 DEF LastFix
<1>3. CASE listener'.read = <<>> /\ UNCHANGED <<waypoints, latest_gps>>
  BY <1>3
<1>4. CASE ReadCoordinate
  <2> DEFINE fixes == listener.read
  <2>1. /\ fixes \in Seq(1..MaxFixes) /\ latest_gps \in 1..MaxFixes
        /\ listener.at = "record" /\ listener'.read = Append(fixes, latest_gps)
        /\ UNCHANGED <<waypoints, latest_gps>>
    BY <1>4 DEF ReadCoordinate, TypeOK, WaypointsTyped, executorVars, waypointVars
  <2>2. /\ Len(fixes) \in Nat /\ Len(listener'.read) = Len(fixes) + 1
        /\ \A k \in 1..Len(fixes) : listener'.read[k] = fixes[k]
        /\ listener'.read[Len(fixes) + 1] = latest_gps
    BY <2>1
  <2>3. \A k \in 1..Len(fixes) : /\ fixes[k] <= latest_gps
                                 /\ k < Len(fixes) => fixes[k] <= fixes[k + 1]
                                 /\ waypoints # <<>> => LastFix <= fixes[k]
    BY <2>1 DEF ReadInOrder
  <2>4. waypoints # <<>> => LastFix <= latest_gps
    BY DEF RecordedInOrder
  <2>5. latest_gps <= latest_gps
    BY <2>1, KeyboardAssumption
  <2> HIDE DEF fixes
  <2>6. CASE i = Len(fixes) + 1
    <3>1. listener'.read[i] = latest_gps /\ ~(i < Len(listener'.read))
      BY <2>2, <2>6
    <3> QED BY <3>1, <2>1, <2>4, <2>5 DEF LastFix
  <2>7. CASE i \in 1..Len(fixes)
    <3>1. listener'.read[i] = fixes[i]
      BY <2>2, <2>7
    <3>2. fixes[i] <= latest_gps /\ (waypoints # <<>> => LastFix <= fixes[i])
      BY <2>3, <2>7
    <3>3. fixes[i] <= listener'.read[i + 1]
      <4>1. CASE i = Len(fixes)
        BY <4>1, <3>2, <2>2
      <4>2. CASE i < Len(fixes)
        <5>1. i + 1 \in 1..Len(fixes)
          BY <4>2, <2>2, <2>7
        <5>2. listener'.read[i + 1] = fixes[i + 1]
          BY <5>1, <2>2
        <5> QED BY <5>2, <4>2, <2>3, <2>7
      <4> QED BY <4>1, <4>2, <2>2, <2>7
    <3> QED BY <3>1, <3>2, <3>3, <2>1 DEF LastFix
  <2> QED BY <2>2, <2>6, <2>7
<1>5. CASE AppendWaypoint
  BY <1>5 DEF AppendWaypoint, Idle
<1> QED BY <1>1, <1>2, <1>3, <1>4, <1>5, WaypointChange
(* A waypoint complete goes after those recorded before.                     *)
LEMMA RecordedStep ==
  TypeOK /\ RecordedInOrder /\ ReadInOrder /\ [Next]_vars => RecordedInOrder'
<1> SUFFICES ASSUME TypeOK, RecordedInOrder, ReadInOrder, [Next]_vars
             PROVE  RecordedInOrder'
  OBVIOUS
<1>1. CASE UNCHANGED <<waypoints, latest_gps>>
  BY <1>1 DEF RecordedInOrder, LastFix
<1>2. CASE /\ latest_gps' \in 1..MaxFixes /\ (latest_gps # None => latest_gps <= latest_gps')
           /\ UNCHANGED waypoints
  <2>1. ASSUME waypoints # <<>> PROVE latest_gps' # None /\ LastFix' <= latest_gps'
    <3>1. waypoints \in Seq(Seq(1..MaxFixes))
      BY DEF TypeOK, WaypointsTyped
    <3>2. Len(waypoints) \in 1..Len(waypoints)
      BY <2>1, <3>1
    <3>3. LastFix \in Nat
      BY <3>2, WaypointFixes DEF LastFix
    <3>4. LastFix <= latest_gps /\ latest_gps <= latest_gps' /\ latest_gps \in 1..MaxFixes
      BY <1>2, <2>1 DEF RecordedInOrder, TypeOK, WaypointsTyped
    <3>5. MaxFixes \in Nat /\ None \notin Int
      BY KeyboardAssumption
    <3>6. LastFix <= latest_gps' /\ latest_gps' # None
      BY <3>3, <3>4, <3>5, <1>2
    <3> QED BY <3>6, <1>2 DEF LastFix
  <2> QED BY <1>2, <2>1 DEF RecordedInOrder
<1>3. CASE AppendWaypoint
  <2> DEFINE point == listener.read
             n == Len(waypoints)
  <2>1. /\ point \in Seq(1..MaxFixes) /\ Len(point) = 3 /\ listener.at = "record"
        /\ waypoints' = Append(waypoints, point)
        /\ UNCHANGED latest_gps
        /\ waypoints \in Seq(Seq(1..MaxFixes)) /\ latest_gps # None
    BY <1>3 DEF AppendWaypoint, TypeOK, WaypointsTyped, executorVars
  <2>2. /\ n \in Nat /\ Len(waypoints') = n + 1 /\ waypoints' # <<>>
        /\ waypoints'[n + 1] = point
        /\ \A i \in 1..n : waypoints'[i] = waypoints[i]
    BY <2>1, AppendProperties
  <2>3. /\ point[1] <= point[2] /\ point[2] <= point[3] /\ point[3] <= latest_gps
        /\ waypoints # <<>> => LastFix <= point[1]
    BY <2>1 DEF ReadInOrder
  <2>4. waypoints = <<>> <=> n = 0
    BY <2>1
  <2> HIDE DEF point
  <2>5. LastFix' <= latest_gps'
    BY <2>1, <2>2, <2>3 DEF LastFix
  <2>6. ASSUME NEW i \in 1..Len(waypoints')
        PROVE  /\ Len(waypoints'[i]) = 3
               /\ waypoints'[i][1] <= waypoints'[i][2] /\ waypoints'[i][2] <= waypoints'[i][3]
               /\ i < Len(waypoints') => waypoints'[i][3] <= waypoints'[i + 1][1]
    <3>1. CASE i = n + 1
      <4>1. waypoints'[i] = point /\ ~(i < Len(waypoints'))
        BY <3>1, <2>2
      <4> QED BY <4>1, <2>1, <2>3
    <3>2. CASE i \in 1..n
      <4>1. waypoints'[i] = waypoints[i]
        BY <3>2, <2>2
      <4>2. /\ Len(waypoints[i]) = 3
            /\ waypoints[i][1] <= waypoints[i][2] /\ waypoints[i][2] <= waypoints[i][3]
            /\ i < n => waypoints[i][3] <= waypoints[i + 1][1]
        BY <3>2 DEF RecordedInOrder
      <4>3. CASE i < n
        <5>1. i + 1 \in 1..n
          BY <4>3, <3>2, <2>2
        <5>2. waypoints'[i + 1] = waypoints[i + 1]
          BY <5>1, <2>2
        <5> QED BY <5>2, <4>1, <4>2, <4>3
      <4>4. CASE i = n
        <5>1. waypoints # <<>> /\ waypoints'[i + 1] = point
          BY <4>4, <3>2, <2>2, <2>4
        <5>2. waypoints[i][3] <= point[1]
          BY <5>1, <4>4, <2>3 DEF LastFix
        <5> QED BY <5>1, <5>2, <4>1, <4>2
      <4> QED BY <4>3, <4>4, <3>2, <2>2
    <3> QED BY <3>1, <3>2, <2>2
  <2> QED BY <2>1, <2>2, <2>5, <2>6 DEF RecordedInOrder
<1>4. CASE ReadCoordinate
  BY <1>4, <1>1 DEF ReadCoordinate, executorVars, waypointVars
<1> QED BY <1>1, <1>2, <1>3, <1>4, WaypointChange

(* record_waypoint may mix fixes, gps_callback coming in between its reads,  *)
(* but the fixes never go back.                                              *)
THEOREM WaypointOrder == Spec => []WaypointsInOrder
<1> DEFINE Inv == TypeOK /\ RecordedInOrder /\ ReadInOrder
<1>1. Init => Inv
  <2> SUFFICES ASSUME Init PROVE Inv
    OBVIOUS
  <2>1. waypoints = <<>> /\ listener.at = "idle"
    BY DEF Init, Idle
  <2>2. RecordedInOrder /\ ReadInOrder
    BY <2>1 DEF RecordedInOrder, ReadInOrder
  <2> QED BY <2>2, InitTyped
<1>2. Inv /\ [Next]_vars => Inv'
  BY NextTyped, RecordedStep, ReadStep
<1>3. Inv => WaypointsInOrder
  <2> SUFFICES ASSUME Inv, NEW i \in 1..Len(waypoints), NEW j \in 1..3
               PROVE  /\ j < 3 => waypoints[i][j] <= waypoints[i][j + 1]
                      /\ j = 3 /\ i < Len(waypoints) => waypoints[i][3] <= waypoints[i + 1][1]
    BY DEF WaypointsInOrder
  <2>1. /\ waypoints[i][1] <= waypoints[i][2] /\ waypoints[i][2] <= waypoints[i][3]
        /\ i < Len(waypoints) => waypoints[i][3] <= waypoints[i + 1][1]
    BY DEF RecordedInOrder
  <2>2. j = 1 \/ j = 2 \/ j = 3
    OBVIOUS
  <2> QED BY <2>1, <2>2
<1> QED BY <1>1, <1>2, <1>3, PTL DEF Spec
=============================================================================
