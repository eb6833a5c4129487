-------------------------- MODULE DriveChainProofs --------------------------
(* Proofs about the chain from race control's flag to the simulator: first   *)
(* the controller manager on its own, for every timeout, limit and step and  *)
(* whatever the PID and the MPC ask for; then the flag link in front of it,  *)
(* for every delay and set of flags; then the queue of commands, of any      *)
(* depth, and the node behind it.                                            *)
EXTENDS DriveChain, SequenceTheorems, TLAPS

(* What the watchdog's check leaves behind for the rest of its period, and   *)
(* what holds once time has moved on.                                        *)
Watchdog ==
  /\ flag_age > FlagTimeout /\ ~check_due => vehicle_flag = "RED"
  /\ flag_age > FlagTimeout + 1 => vehicle_flag = "RED"

(* The memories of the plugins stay within their limits.                     *)
PluginLimits ==
  /\ last_accel \in MaxDecel..MaxAccel
  /\ previous_steering \in (-MaxSteering)..MaxSteering

(* An acceleration the plugins published is the one the PID remembers; what  *)
(* it took to compute it is there for good.                                  *)
AccelRemembered ==
  /\ by_plugins => node # "loading"
  /\ by_plugins /\ control_cmd.is_defined_acceleration =>
       /\ control_cmd.acceleration = last_accel
       /\ StateComplete /\ Loaded(LonPlugin)

IInv ==
  /\ TypeOK
  /\ Watchdog
  /\ StaleFlagBrakes
  /\ PluginLimits
  /\ CommandLimits
  /\ AccelRemembered

-----------------------------------------------------------------------------
(* One step of the PID's acceleration stays within its limits and moves by   *)
(* one step at most.                                                         *)
LEMMA StepAccelBounds ==
  ASSUME NEW desired \in Int, last_accel \in MaxDecel..MaxAccel
  PROVE  /\ StepAccel(desired) \in MaxDecel..MaxAccel
         /\ StepAccel(desired) - last_accel \in (-DecelStep)..AccelStep
  BY ControllerAssumption DEF StepAccel, Smaller, Larger

(* The clamp of the steering angle.                                          *)
LEMMA ClampSteeringBounds ==
  ASSUME NEW angle \in Int
  PROVE  ClampSteering(angle) \in (-MaxSteering)..MaxSteering
  BY ControllerAssumption DEF ClampSteering, Smaller, Larger

(* One run of the plugins keeps their memories within the limits.            *)
LEMMA PluginRun ==
  ASSUME TypeOK, PluginLimits, RunPid, RunMpc
  PROVE  /\ PluginLimits'
         /\ last_accel' - last_accel \in (-DecelStep)..AccelStep
         /\ last_accel' \in Int /\ previous_steering' \in Int
<1>1. last_accel' \in MaxDecel..MaxAccel
      /\ last_accel' - last_accel \in (-DecelStep)..AccelStep
  <2>1. CASE StateComplete /\ Loaded(LonPlugin)
    <3>1. PICK desired \in DesiredAccel : last_accel' = StepAccel(desired)
      BY <2>1 DEF RunPid
    <3>2. desired \in Int
      BY ControllerAssumption
    <3> QED BY <3>1, <3>2, StepAccelBounds DEF PluginLimits
  <2>2. CASE ~(StateComplete /\ Loaded(LonPlugin))
    BY <2>2, ControllerAssumption DEF RunPid, PluginLimits, TypeOK
  <2> QED BY <2>1, <2>2
<1>2. previous_steering' \in (-MaxSteering)..MaxSteering
  <2>1. CASE LatRuns
    <3>1. PICK angle \in DesiredSteering : previous_steering' = ClampSteering(angle)
      BY <2>1 DEF RunMpc
    <3>2. angle \in Int
      BY ControllerAssumption
    <3> QED BY <3>1, <3>2, ClampSteeringBounds
  <2>2. CASE ~LatRuns
    BY <2>2 DEF RunMpc, PluginLimits
  <2> QED BY <2>1, <2>2
<1>3. last_accel' \in Int /\ previous_steering' \in Int
  BY <1>1, <1>2
<1> QED BY <1>1, <1>2, <1>3 DEF PluginLimits

(* The initial state satisfies the inductive invariant.                      *)
LEMMA InitIInv == Init => IInv
<1> SUFFICES ASSUME Init PROVE IInv
  OBVIOUS
<1> USE ControllerAssumption DEF Init
<1>1. TypeOK
  <2>1. m_plugins \in Seq(STRING)
    OBVIOUS
  <2>2. flag_age \in 0..MaxAge /\ last_accel \in Int /\ previous_steering \in Int
    OBVIOUS
  <2>3. vehicle_flag \in VehicleFlag
    BY DEF VehicleFlag
  <2>4. /\ node \in {"loading", "running", "terminated"}
        /\ should_publish_control \in BOOLEAN /\ by_plugins \in BOOLEAN
        /\ control_due \in BOOLEAN /\ check_due \in BOOLEAN
    OBVIOUS
  <2>5. /\ local_path \in PathKinds \cup {None} /\ odom \in {"odom", None}
        /\ control_cmd \in Commands \cup {None}
    OBVIOUS
  <2> QED BY <2>1, <2>2, <2>3, <2>4, <2>5 DEF TypeOK
<1>2. Watchdog /\ StaleFlagBrakes
  BY DEF Watchdog, StaleFlagBrakes
<1>3. PluginLimits /\ CommandLimits /\ AccelRemembered
  BY DEF PluginLimits, CommandLimits, AccelRemembered
<1> QED BY <1>1, <1>2, <1>3 DEF IInv

(* A run of the control timer: either the brake, or the plugins' command     *)
(* under a green flag.                                                       *)
LEMMA ControlStep == IInv /\ runStep => IInv'
<1> SUFFICES ASSUME IInv, runStep PROVE IInv'
  OBVIOUS
<1> USE ControllerAssumption DEF IInv
<1>0. UNCHANGED <<m_plugins, should_publish_control, vehicle_flag, flag_age,
                  local_path, odom, check_due>> /\ control_due' = FALSE
  BY DEF runStep, inputVars
<1>1. Watchdog'
  BY <1>0 DEF Watchdog
<1>2. CASE PublishBrake
  <2>1. control_cmd' = Brake /\ by_plugins' = FALSE
        /\ UNCHANGED <<last_accel, previous_steering, node>>
    BY <1>2 DEF PublishBrake, pluginVars
  <2>2. Brake \in Commands
    BY DEF Brake, Command, Commands
  <2>3. TypeOK'
    BY <1>0, <2>1, <2>2 DEF TypeOK
  <2> QED BY <1>0, <1>1, <2>1, <2>3
          DEF StaleFlagBrakes, PluginLimits, CommandLimits, AccelRemembered
<1>3. CASE PublishPlugins
  <2> DEFINE pid == StateComplete /\ Loaded(LonPlugin)
             accel == IF pid THEN last_accel' ELSE 0
             steering == IF LatRuns THEN previous_steering' ELSE 0
  <2>1. /\ PluginLimits' /\ last_accel' \in Int /\ previous_steering' \in Int
    BY <1>3, PluginRun DEF PublishPlugins
  <2>2. control_cmd' = Command(accel, pid, steering) /\ by_plugins' = TRUE
        /\ UNCHANGED node
    BY <1>3 DEF PublishPlugins
  <2>3. accel \in Int /\ pid \in BOOLEAN /\ steering \in Int
    BY <2>1 DEF StateComplete, Loaded
  <2> HIDE DEF accel, steering
  <2>4. /\ control_cmd' \in Commands /\ control_cmd'.acceleration = accel
        /\ control_cmd'.is_defined_acceleration = pid
        /\ control_cmd'.steering = steering
    BY <2>2, <2>3 DEF Command, Commands
  <2>5. TypeOK'
    BY <1>0, <2>1, <2>2, <2>4 DEF TypeOK
  <2>6. StaleFlagBrakes'
    BY <1>0, <1>3 DEF StaleFlagBrakes, PublishPlugins, Watchdog
  <2>7. CommandLimits'
    BY <2>1, <2>4 DEF CommandLimits, PluginLimits, accel, steering
  <2>8. AccelRemembered'
    <3>2. StateComplete' = StateComplete /\ Loaded(LonPlugin)' = Loaded(LonPlugin)
      BY <1>0 DEF StateComplete, Loaded
    <3>3. node' # "loading"
      BY <2>2 DEF runStep
    <3> QED BY <2>4, <3>2, <3>3 DEF AccelRemembered, accel
  <2> QED BY <1>1, <2>1, <2>5, <2>6, <2>7, <2>8
<1>4. CASE EmptyPathCrash
  <2>1. UNCHANGED <<last_accel, previous_steering, control_cmd, by_plugins>>
        /\ node' = "terminated" /\ vehicle_flag = "GREEN"
    BY <1>4 DEF EmptyPathCrash, pluginVars, outputVars
  <2>2. TypeOK'
    BY <1>0, <2>1 DEF TypeOK
  <2>3. StaleFlagBrakes'
    BY <1>0, <2>1 DEF StaleFlagBrakes, Watchdog
  <2>4. PluginLimits' /\ CommandLimits'
    BY <2>1 DEF PluginLimits, CommandLimits
  <2>5. AccelRemembered'
    BY <1>0, <2>1 DEF AccelRemembered, StateComplete, Loaded
  <2> QED BY <1>1, <2>2, <2>3, <2>4, <2>5
<1> QED BY <1>2, <1>3, <1>4 DEF runStep

(* The steps that publish nothing.                                           *)
LEMMA QuietStep ==
  ASSUME IInv, UNCHANGED <<pluginVars, outputVars>>,
         TypeOK', Watchdog',
         flag_age' > FlagTimeout + 1 /\ ~control_due' =>
           flag_age > FlagTimeout + 1 /\ ~control_due,
         by_plugins => /\ node' # "loading" /\ m_plugins' = m_plugins
                       /\ StateComplete => StateComplete'
  PROVE  IInv'
<1> USE DEF IInv, pluginVars, outputVars
<1>1. StaleFlagBrakes'
  BY DEF StaleFlagBrakes
<1>2. PluginLimits' /\ CommandLimits'
  BY DEF PluginLimits, CommandLimits
<1>3. AccelRemembered'
  BY DEF AccelRemembered, Loaded
<1> QED BY <1>1, <1>2, <1>3

(* Every step keeps the inductive invariant.                                 *)
LEMMA NextIInv == IInv /\ [Next]_vars => IInv'
<1> SUFFICES ASSUME IInv, [Next]_vars PROVE IInv'
  OBVIOUS
<1> USE ControllerAssumption DEF IInv, TypeOK, inputVars, pluginVars, outputVars, timerVars
<1>1. CASE LoadPlugin
  <2>1. TypeOK'
    <3>1. Plugins[Len(m_plugins) + 1] \in STRING
      BY <1>1 DEF LoadPlugin
    <3> QED BY <1>1, <3>1 DEF LoadPlugin
  <2>2. Watchdog' /\ ~by_plugins
    BY <1>1 DEF LoadPlugin, Watchdog, AccelRemembered
  <2> QED BY <1>1, <2>1, <2>2, QuietStep DEF LoadPlugin
<1>2. CASE FinishSetup
  <2>1. TypeOK' /\ Watchdog' /\ ~by_plugins
    BY <1>2 DEF FinishSetup, Watchdog, AccelRemembered
  <2> QED BY <1>2, <2>1, QuietStep DEF FinishSetup
<1>3. ASSUME NEW data \in BOOLEAN, should_publish_control_callback(data) PROVE IInv'
  <2>1. TypeOK' /\ Watchdog'
    BY <1>3 DEF should_publish_control_callback, Watchdog
  <2> QED BY <1>3, <2>1, QuietStep DEF should_publish_control_callback, StateComplete
<1>4. ASSUME NEW flag \in VehicleFlag, vehicle_flag_callback(flag) PROVE IInv'
  <2>1. TypeOK' /\ Watchdog'
    BY <1>4 DEF vehicle_flag_callback, Watchdog
  <2> QED BY <1>4, <2>1, QuietStep DEF vehicle_flag_callback, StateComplete
<1>5. ASSUME NEW path \in PathKinds, on_local_path_callback(path) PROVE IInv'
  <2>1. TypeOK' /\ Watchdog'
    BY <1>5 DEF on_local_path_callback, Watchdog
  <2> QED BY <1>5, <2>1, QuietStep DEF on_local_path_callback, StateComplete
<1>6. CASE on_odom_callback
  <2>1. TypeOK' /\ Watchdog'
    BY <1>6 DEF on_odom_callback, Watchdog
  <2>2. StateComplete => StateComplete'
    BY <1>6 DEF on_odom_callback, StateComplete
  <2> QED BY <1>6, <2>1, <2>2, QuietStep DEF on_odom_callback
<1>7. CASE runStep
  BY <1>7, ControlStep
<1>8. CASE checkFlagTimeout
  <2>1. TypeOK' /\ Watchdog'
    BY <1>8 DEF checkFlagTimeout, Watchdog, VehicleFlag
  <2> QED BY <1>8, <2>1, QuietStep DEF checkFlagTimeout, StateComplete
<1>9. CASE Tick
  <2>1. TypeOK' /\ Watchdog'
    BY <1>9 DEF Tick, Watchdog, Smaller
  <2> QED BY <1>9, <2>1, QuietStep DEF Tick, StateComplete
<1>10. CASE UNCHANGED vars
  BY <1>10 DEF vars, Watchdog, StaleFlagBrakes, PluginLimits, CommandLimits,
               AccelRemembered, StateComplete, Loaded
<1> QED BY <1>1, <1>2, <1>3, <1>4, <1>5, <1>6, <1>7, <1>8, <1>9, <1>10 DEF Next

-----------------------------------------------------------------------------
(* The inductive invariant holds in every reachable state.                   *)
THEOREM Invariance == Spec => []IInv
  BY InitIInv, NextIInv, PTL DEF Spec

(* Type correctness.                                                         *)
THEOREM TypeCorrect == Spec => []TypeOK
<1>1. IInv => TypeOK
  BY DEF IInv
<1> QED BY <1>1, Invariance, PTL

(* The watchdog: whatever the interleaving of the two timers, a flag older   *)
(* than the timeout by more than a period of the check means the brake.      *)
THEOREM WatchdogBrakes == Spec => []StaleFlagBrakes
<1>1. IInv => StaleFlagBrakes
  BY DEF IInv
<1> QED BY <1>1, Invariance, PTL

(* The commands of the plugins are within the limits of the car.             *)
THEOREM CommandsLimited == Spec => []CommandLimits
<1>1. IInv => CommandLimits
  BY DEF IInv
<1> QED BY <1>1, Invariance, PTL

(* The acceleration changes by one step at most between two commands of the  *)
(* plugins.                                                                  *)
THEOREM Gradual == Spec => AccelGradual
<1> DEFINE Step == (by_plugins /\ by_plugins' /\ control_cmd.is_defined_acceleration)
       => control_cmd'.acceleration - control_cmd.acceleration
            \in (-DecelStep)..AccelStep
<1>1. IInv /\ [Next]_vars => [Step]_vars
  <2> SUFFICES ASSUME IInv, Next, by_plugins, by_plugins',
                      control_cmd.is_defined_acceleration
               PROVE  control_cmd'.acceleration - control_cmd.acceleration
                        \in (-DecelStep)..AccelStep
    OBVIOUS
  <2>0. control_cmd.acceleration - control_cmd.acceleration \in (-DecelStep)..AccelStep
    <3>1. control_cmd.acceleration = last_accel /\ last_accel \in Int
      BY DEF IInv, AccelRemembered, TypeOK
    <3> QED BY <3>1, ControllerAssumption
  <2>1. CASE runStep /\ PublishPlugins
    <3>1. control_cmd.acceleration = last_accel /\ StateComplete /\ Loaded(LonPlugin)
      BY DEF IInv, AccelRemembered
    <3>2. control_cmd'.acceleration = last_accel'
      BY <2>1, <3>1 DEF PublishPlugins, Command
    <3>3. last_accel' - last_accel \in (-DecelStep)..AccelStep
      BY <2>1, PluginRun DEF PublishPlugins, IInv
    <3> QED BY <3>1, <3>2, <3>3
  <2>2. CASE runStep /\ ~PublishPlugins
    BY <2>2, <2>0 DEF runStep, PublishBrake, EmptyPathCrash, outputVars
  <2>3. CASE ~runStep
    <3>1. control_cmd' = control_cmd
      BY <2>3 DEF Next, LoadPlugin, FinishSetup, should_publish_control_callback,
         vehicle_flag_callback, on_local_path_callback, on_odom_callback,
         checkFlagTimeout, Tick, outputVars
    <3> QED BY <3>1, <2>0
  <2> QED BY <2>1, <2>2, <2>3
<1> QED BY <1>1, Invariance, PTL DEF Spec, AccelGradual

-----------------------------------------------------------------------------
(* The flag link in front of the controller manager.                         *)

(* What is on its way was shown, and a GREEN that is on its way, or that the *)
(* car still follows, has been withdrawn no longer than it can be late.      *)
LinkInv ==
  /\ link \in [0..MaxDelay -> ShownFlags \cup {None}]
  /\ shown \in ShownFlags
  /\ withdrawn \in Nat
  /\ \A i \in 0..MaxDelay : link[i] = "GREEN" => withdrawn <= i
  /\ vehicle_flag = "GREEN" => withdrawn <= MaxDelay + flag_age
  /\ FlagIsObeyed

-----------------------------------------------------------------------------
(* "No message" is not a flag.                                               *)
LEMMA NoneIsNoFlag == None # "GREEN"
  BY ControllerAssumption DEF VehicleFlag, GreenFlags

(* A step of the composition is a step of the controller manager or leaves   *)
(* it alone.                                                                 *)
LEMMA StepSimulation == LinkInv /\ [LinkNext]_linkVars => [Next]_vars
<1> SUFFICES ASSUME LinkInv, LinkNext PROVE [Next]_vars
  BY DEF linkVars
<1>1. ASSUME NEW flag \in ShownFlags, ShowFlag(flag) PROVE UNCHANGED vars
  BY <1>1 DEF ShowFlag
<1>2. CASE LinkTick
  BY <1>2 DEF LinkTick, Next
<1>3. CASE Deliver
  <2>1. PICK i \in OnItsWay : vehicle_flag_callback(link[i])
    BY <1>3 DEF Deliver
  <2>2. link[i] \in VehicleFlag
    BY LinkAssumption DEF OnItsWay, LinkInv
  <2> QED BY <2>1, <2>2 DEF Next
<1>4. CASE Local(Start) \/ Local(Input) \/ Local(runStep) \/ Local(checkFlagTimeout)
  BY <1>4 DEF Local, Start, Input, Next
<1> QED BY <1>1, <1>2, <1>3, <1>4 DEF LinkNext

(* The initial states satisfy the invariant.                                 *)
LEMMA InitLinkInv == LinkInit => LinkInv
  BY LinkAssumption, ControllerAssumption, NoneIsNoFlag
  DEF LinkInit, LinkInv, Init, FlagIsObeyed, MaxWithdrawn, VehicleFlag

(* Steps that leave the link alone.                                          *)
LEMMA LocalStep ==
  ASSUME IInv, LinkInv, UNCHANGED <<shown, link, shows, withdrawn>>, 
         Start \/ Input \/ runStep \/ checkFlagTimeout
  PROVE  LinkInv'
<1> USE LinkAssumption, ControllerAssumption DEF LinkInv
<1>1. flag_age' = flag_age /\ (vehicle_flag' = "GREEN" => vehicle_flag = "GREEN")
  BY DEF Start, Input, runStep, checkFlagTimeout, LoadPlugin, FinishSetup,
     should_publish_control_callback, on_local_path_callback, on_odom_callback, inputVars
<1>2. CASE runStep
  <2>1. flag_age > FlagTimeout + 1 => vehicle_flag # "GREEN"
    BY DEF IInv, Watchdog
  <2>2. FlagIsObeyed'
    <3> SUFFICES ASSUME node' = "running", withdrawn > MaxDelay + FlagTimeout + 1
                 PROVE  control_cmd' = Brake
      BY DEF FlagIsObeyed
    <3>1. vehicle_flag # "GREEN"
      BY <2>1 DEF IInv, TypeOK
    <3> QED BY <1>2, <3>1 DEF runStep, PublishBrake, PublishPlugins, EmptyPathCrash
  <2> QED BY <1>1, <2>2
<1>3. CASE Start \/ Input \/ checkFlagTimeout
  <2>1. /\ UNCHANGED <<control_cmd, control_due>>
        /\ node' = "running" => node = "running" \/ (control_cmd = None)
    BY <1>3 DEF Start, Input, checkFlagTimeout, LoadPlugin, FinishSetup,
       should_publish_control_callback, on_local_path_callback, on_odom_callback,
       outputVars, timerVars
  <2> QED BY <1>1, <2>1 DEF FlagIsObeyed
<1> QED BY <1>2, <1>3

(* Every step keeps the invariant.                                           *)
LEMMA NextLinkInv == IInv /\ LinkInv /\ [LinkNext]_linkVars => LinkInv'
<1> SUFFICES ASSUME IInv, LinkInv, [LinkNext]_linkVars PROVE LinkInv'
  OBVIOUS
<1> USE LinkAssumption, ControllerAssumption DEF LinkInv
<1>1. ASSUME NEW flag \in ShownFlags, ShowFlag(flag) PROVE LinkInv'
  BY <1>1 DEF ShowFlag, vars, inputVars, outputVars, timerVars, FlagIsObeyed
<1>2. CASE LinkTick
  <2>1. PICK message \in {shown, None} :
          link' = [i \in 0..MaxDelay |-> IF i = 0 THEN message ELSE link[i - 1]]
    BY <1>2 DEF LinkTick
  <2>2. /\ withdrawn' = IF shown = "GREEN" THEN 0
                        ELSE Smaller(withdrawn + 1, MaxWithdrawn)
        /\ UNCHANGED <<shown, vehicle_flag>> /\ control_due' = TRUE
        /\ flag_age' = Smaller(flag_age + 1, MaxAge)
    BY <1>2 DEF LinkTick, Tick
  <2>3. withdrawn' \in Nat /\ withdrawn' <= withdrawn + 1
        /\ (shown = "GREEN" => withdrawn' = 0)
    BY <2>2 DEF MaxWithdrawn, Smaller
  <2>4. link' \in [0..MaxDelay -> ShownFlags \cup {None}]
    BY <2>1
  <2>5. ASSUME NEW i \in 0..MaxDelay, link'[i] = "GREEN" PROVE withdrawn' <= i
    <3>1. CASE i = 0
      BY <2>1, <2>3, <2>5, <3>1, NoneIsNoFlag
    <3>2. CASE i # 0
      <4>1. i - 1 \in 0..MaxDelay /\ link[i - 1] = "GREEN"
        BY <2>1, <2>5, <3>2
      <4> QED BY <2>3, <4>1
    <3> QED BY <3>1, <3>2
  <2>6. vehicle_flag' = "GREEN" => withdrawn' <= MaxDelay + flag_age'
    <3> SUFFICES ASSUME vehicle_flag = "GREEN" PROVE withdrawn' <= MaxDelay + flag_age'
      BY <2>2
    <3>1. flag_age <= FlagTimeout + 1 /\ flag_age \in Nat
      BY DEF IInv, Watchdog, TypeOK
    <3>2. flag_age' = flag_age + 1
      BY <2>2, <3>1 DEF Smaller
    <3> QED BY <2>3, <3>1, <3>2
  <2> QED BY <2>2, <2>3, <2>4, <2>5, <2>6 DEF FlagIsObeyed
<1>3. CASE Deliver
  <2>1. PICK i \in OnItsWay :
          /\ vehicle_flag_callback(link[i])
          /\ link' = [link EXCEPT ![i] = None]
    BY <1>3 DEF Deliver
  <2>2. i \in 0..MaxDelay /\ UNCHANGED <<shown, withdrawn>>
    BY <1>3 DEF Deliver, OnItsWay
  <2>3. /\ vehicle_flag' = link[i] /\ flag_age' = 0
        /\ UNCHANGED <<node, control_cmd, control_due>>
    BY <2>1 DEF vehicle_flag_callback, outputVars, timerVars
  <2>4. link' \in [0..MaxDelay -> ShownFlags \cup {None}]
    BY <2>1, <2>2
  <2>5. \A j \in 0..MaxDelay : link'[j] = "GREEN" => withdrawn' <= j
    BY <2>1, <2>2, NoneIsNoFlag
  <2>6. FlagIsObeyed'
    BY <2>2, <2>3 DEF FlagIsObeyed
  <2> QED BY <2>2, <2>3, <2>4, <2>5, <2>6
<1>4. CASE Local(Start) \/ Local(Input) \/ Local(runStep) \/ Local(checkFlagTimeout)
  BY <1>4, LocalStep DEF Local
<1>5. CASE UNCHANGED linkVars
  BY <1>5 DEF linkVars, vars, inputVars, outputVars, timerVars, FlagIsObeyed
<1> QED BY <1>1, <1>2, <1>3, <1>4, <1>5 DEF LinkNext

-----------------------------------------------------------------------------
(* Both invariants hold in every reachable state.                            *)
THEOREM LinkInvariance == LinkSpec => [](IInv /\ LinkInv)
<1>1. LinkInit => IInv /\ LinkInv
  BY InitIInv, InitLinkInv DEF LinkInit
<1>2. IInv /\ LinkInv /\ [LinkNext]_linkVars => IInv' /\ LinkInv'
  BY StepSimulation, NextIInv, NextLinkInv
<1> QED BY <1>1, <1>2, PTL DEF LinkSpec

(* The controller manager behind the link is the controller manager: what    *)
(* is proved of the one holds of the other.                                  *)
THEOREM LinkImplementsController == LinkSpec => Spec
<1>1. LinkInit => Init
  BY DEF LinkInit
<1> QED BY <1>1, StepSimulation, LinkInvariance, PTL DEF LinkSpec, Spec

(* Once no GREEN has been shown for the delay of a message, the timeout and  *)
(* a period of its check, the car brakes, whatever was lost.                 *)
THEOREM FlagObeyed == LinkSpec => []FlagIsObeyed
<1>1. LinkInv => FlagIsObeyed
  BY DEF LinkInv
<1> QED BY <1>1, LinkInvariance, PTL

-----------------------------------------------------------------------------
(* The control message published last came from this command.                *)
Handled(cmd) ==
  /\ lgsvl_control.acceleration_pct = AccelerationPct(cmd.acceleration)
  /\ lgsvl_control.braking_pct = BrakingPct(cmd.acceleration)
  /\ lgsvl_control.target_wheel_angle = cmd.steering
  /\ cmd.acceleration <= 0 => lgsvl_control.target_gear = GEAR_NEUTRAL

(* Whatever the queue dropped, what is last in it is the command published   *)
(* last; and once it is empty, that command is the one handled last.  Before *)
(* the first command nothing reaches the simulator.                          *)
LastWins ==
  /\ control_queue # <<>> => control_queue[Len(control_queue)] = control_cmd
  /\ control_queue = <<>> /\ control_cmd # None /\ lgsvl_control # NoControl
       => Handled(control_cmd)
  /\ control_cmd = None => control_queue = <<>> /\ lgsvl_control = NoControl

ChainInv ==
  /\ control_queue \in Seq(Commands)
  /\ LastWins

-----------------------------------------------------------------------------
(* The queue ends with what was put into it, also when it was full.          *)
LEMMA EnqueueLast ==
  ASSUME NEW queue \in Seq(Commands), NEW message \in Commands
  PROVE  /\ Enqueue(queue, message) \in Seq(Commands)
         /\ Enqueue(queue, message) # <<>>
         /\ Enqueue(queue, message)[Len(Enqueue(queue, message))] = message
<1>1. CASE Len(queue) = QueueDepth
  <2>1. queue # <<>>
    BY <1>1, ChainAssumption
  <2>2. Tail(queue) \in Seq(Commands)
    BY <2>1
  <2> QED BY <1>1, <2>2 DEF Enqueue
<1>2. CASE Len(queue) # QueueDepth
  BY <1>2 DEF Enqueue
<1> QED BY <1>1, <1>2

(* The manager's brake becomes a full brake at the simulator.                *)
LEMMA BrakeIsFull == lgsvl_control # NoControl /\ Handled(Brake) => FullBrake
<1>1. /\ BrakeAcceleration \in Int /\ max_decel \in Int /\ max_accel \in Nat
      /\ Abs(max_decel) > 0 /\ -BrakeAcceleration >= Abs(max_decel)
  BY ControllerAssumption, InterfaceAssumption, BrakeAssumption DEF Abs
<1>2. BrakeAcceleration < 0
  BY <1>1 DEF Abs
<1>3. AccelerationPct(BrakeAcceleration) = 0
  BY <1>1, <1>2 DEF AccelerationPct
<1>4. BrakingPct(BrakeAcceleration) >= Abs(max_decel)
  BY <1>1, <1>2 DEF BrakingPct, Abs, Least
<1> QED BY <1>1, <1>2, <1>3, <1>4 DEF Handled, FullBrake, Brake, Command

(* A command published is a command.                                         *)
LEMMA CommandPublished ==
  ASSUME IInv', runStep, node' = "running"
  PROVE  control_cmd' \in Commands
<1> USE ControllerAssumption DEF runStep
<1>1. CASE PublishBrake
  BY <1>1 DEF PublishBrake, Brake, Command, Commands
<1>2. CASE PublishPlugins
  <2>1. last_accel' \in Int /\ previous_steering' \in Int
    BY DEF IInv, TypeOK
  <2> QED BY <1>2, <2>1 DEF PublishPlugins, Command, Commands
<1>3. CASE EmptyPathCrash
  BY <1>3 DEF EmptyPathCrash
<1> QED BY <1>1, <1>2, <1>3

(* Every step of the chain is a step of the flag link or leaves it alone.    *)
LEMMA ChainSimulation == [ChainNext]_chainVars => [LinkNext]_linkVars
<1> SUFFICES ASSUME [ChainNext]_chainVars PROVE [LinkNext]_linkVars
  OBVIOUS
<1>1. ASSUME NEW flag \in ShownFlags, Upstream(ShowFlag(flag)) PROVE LinkNext
  BY <1>1 DEF Upstream, LinkNext
<1>2. CASE \/ Upstream(LinkTick) \/ Upstream(Deliver) \/ Upstream(Local(Start))
           \/ Upstream(Local(Input)) \/ Upstream(Local(checkFlagTimeout))
  BY <1>2 DEF Upstream, LinkNext
<1>3. CASE ChainRunStep
  BY <1>3 DEF ChainRunStep, LinkNext
<1>4. CASE ChainControl \/ ChainCan \/ UNCHANGED chainVars
  BY <1>4 DEF ChainControl, ChainCan, chainVars
<1> QED BY <1>1, <1>2, <1>3, <1>4 DEF ChainNext

(* Upstream of the queue only the control timer changes the command.         *)
LEMMA UpstreamKeepsCommand ==
  ASSUME \/ \E flag \in ShownFlags : ShowFlag(flag)
         \/ LinkTick \/ Deliver \/ Local(Start) \/ Local(Input)
         \/ Local(checkFlagTimeout)
  PROVE  UNCHANGED control_cmd
  BY DEF ShowFlag, LinkTick, Deliver, Local, Start, Input, Tick, LoadPlugin, FinishSetup,
     should_publish_control_callback, on_local_path_callback, on_odom_callback,
     vehicle_flag_callback, checkFlagTimeout, vars, outputVars

(* Every step keeps the invariant of the queue.                              *)
LEMMA NextChainInv == IInv' /\ ChainInv /\ [ChainNext]_chainVars => ChainInv'
<1> SUFFICES ASSUME IInv', ChainInv, [ChainNext]_chainVars PROVE ChainInv'
  OBVIOUS
<1> USE DEF ChainInv
<1>1. ASSUME UNCHANGED <<control_cmd, control_queue, lgsvl_control>> PROVE ChainInv'
  BY <1>1 DEF LastWins, Handled
<1>2. CASE \/ \E flag \in ShownFlags : Upstream(ShowFlag(flag))
           \/ Upstream(LinkTick) \/ Upstream(Deliver) \/ Upstream(Local(Start))
           \/ Upstream(Local(Input)) \/ Upstream(Local(checkFlagTimeout))
  <2>1. UNCHANGED control_cmd
    BY <1>2, UpstreamKeepsCommand DEF Upstream
  <2>2. UNCHANGED <<control_queue, lgsvl_control>>
    BY <1>2 DEF Upstream, interfaceVars
  <2> QED BY <1>1, <2>1, <2>2
<1>3. CASE ChainRunStep
  <2>1. CASE node' = "running"
    <3>1. control_cmd' \in Commands
      BY <1>3, <2>1, CommandPublished DEF ChainRunStep, Local
    <3>2. control_queue' = Enqueue(control_queue, control_cmd')
      BY <1>3, <2>1 DEF ChainRunStep
    <3>3. control_cmd' # None
      BY <3>1, ChainAssumption
    <3> QED BY <3>1, <3>2, <3>3, EnqueueLast DEF LastWins
  <2>2. CASE node' # "running"
    <3>1. UNCHANGED <<control_queue, lgsvl_control>>
      BY <1>3, <2>2 DEF ChainRunStep, interfaceVars
    <3>2. UNCHANGED control_cmd
      BY <1>3, <2>2 DEF ChainRunStep, Local, runStep, PublishBrake, PublishPlugins,
         EmptyPathCrash, outputVars
    <3> QED BY <1>1, <3>1, <3>2
  <2> QED BY <2>1, <2>2
<1>4. CASE ChainControl
  <2>1. /\ control_queue # <<>> /\ control_queue' = Tail(control_queue)
        /\ on_control_msg(Head(control_queue)) /\ UNCHANGED control_cmd
    BY <1>4 DEF ChainControl, linkVars, vars, outputVars
  <2>2. control_queue' \in Seq(Commands)
    BY <2>1
  <2>3. CASE control_queue' = <<>>
    <3>1. Head(control_queue) = control_cmd
      <4>1. Len(control_queue) = 1
        <5>1. Len(control_queue') = 0
          BY <2>3
        <5>2. Len(Tail(control_queue)) = Len(control_queue) - 1 /\ Len(control_queue) \in Nat
          BY <2>1
        <5> QED BY <2>1, <5>1, <5>2
      <4> QED BY <2>1, <4>1 DEF LastWins
    <3>2. control_cmd \in Commands
      BY <2>1, <3>1
    <3>3. control_cmd.acceleration \in Int
      BY <3>2 DEF Commands
    <3>4. Handled(control_cmd)'
      BY <2>1, <3>1, <3>3 DEF on_control_msg, Handled, LastWins
    <3> QED BY <2>1, <2>2, <2>3, <3>4 DEF LastWins
  <2>4. CASE control_queue' # <<>>
    BY <2>1, <2>2, <2>4 DEF LastWins
  <2> QED BY <2>3, <2>4
<1>5. CASE ChainCan \/ UNCHANGED chainVars
  BY <1>1, <1>5 DEF ChainCan, on_can_msg, chainVars, interfaceVars, linkVars, vars,
     outputVars
<1> QED BY <1>2, <1>3, <1>4, <1>5 DEF ChainNext

-----------------------------------------------------------------------------
(* The flag link's invariants and the queue's hold in every reachable state. *)
THEOREM ChainInvariance == ChainSpec => [](IInv /\ LinkInv /\ ChainInv)
<1>1. ChainInit => LinkInit
  BY DEF ChainInit
<1>2. ChainInit => ChainInv
  BY DEF ChainInit, InterfaceInit, LinkInit, Init, ChainInv, LastWins
<1>3. LinkInit => IInv /\ LinkInv
  BY InitIInv, InitLinkInv DEF LinkInit
<1>4. IInv /\ LinkInv /\ [LinkNext]_linkVars => IInv' /\ LinkInv'
  BY StepSimulation, NextIInv, NextLinkInv
<1> QED BY <1>1, <1>2, <1>3, <1>4, ChainSimulation, NextChainInv, PTL DEF ChainSpec

(* The manager and the flag in the chain are those of FlagControl, and so of *)
(* ControllerManager: what is proved of them holds here.                     *)
THEOREM ChainImplementsLink == ChainSpec => LinkSpec
<1>1. ChainInit => LinkInit
  BY DEF ChainInit
<1> QED BY <1>1, ChainSimulation, PTL DEF ChainSpec, LinkSpec

(* The manager in the chain brakes on a stale flag, keeps its commands within *)
(* limits and steps, and obeys a flag withdrawn, whatever the second node    *)
(* does.                                                                     *)
THEOREM ChainInherits ==
  ChainSpec => []StaleFlagBrakes /\ []CommandLimits /\ AccelGradual /\ []FlagIsObeyed
  BY ChainImplementsLink, LinkImplementsController, FlagObeyed,
     WatchdogBrakes, CommandsLimited, Gradual, PTL

(* Once GREEN has been gone for the delay, the timeout and a period, and the *)
(* commands under way are handled, the simulator's last word is the full     *)
(* brake: whatever was lost on the link, dropped from the queue or overtaken *)
(* by the second node's lag.                                                 *)
THEOREM BrakeArrives == ChainSpec => []BrakeReachesSimulator
<1>1. LinkInv /\ ChainInv => BrakeReachesSimulator
  <2> SUFFICES ASSUME LinkInv, ChainInv, node = "running", ~control_due,
                      withdrawn > MaxDelay + FlagTimeout + 1, control_queue = <<>>,
                      lgsvl_control # NoControl
               PROVE  FullBrake
    BY DEF BrakeReachesSimulator
  <2>1. control_cmd \in {None, Brake}
    BY DEF LinkInv, FlagIsObeyed
  <2>2. CASE control_cmd = None
    BY <2>2 DEF ChainInv, LastWins
  <2> QED BY <2>1, <2>2, BrakeIsFull DEF ChainInv, LastWins
<1> QED BY <1>1, ChainInvariance, PTL

=============================================================================
