----------------------------- MODULE DriveChain -----------------------------
(* From race control's flag to the simulator: the flag link and the          *)
(* controller manager of FlagControl, the topic control_cmd with its queue,  *)
(* and the node that turns commands into pedals.  The last two nodes are     *)
(* processes of their own: the second may lag behind the first, and a full   *)
(* queue drops its oldest command.                                           *)
EXTENDS FlagControl, AutowareLgsvlInterface

CONSTANTS
  QueueDepth,     \* bound: the depth of both queues of control_cmd, 10 each
  EngineSpeeds    \* the engine speeds reported

ASSUME ChainAssumption ==
  /\ QueueDepth \in Nat \ {0}
  /\ EngineSpeeds \subseteq Nat
  /\ None \notin Commands

(* The -3 of runStep against max_decel_mps2, -3.0 or 3.0 wherever it is set: *)
(* the manager's brake asks for the full travel of the pedal.                *)
ASSUME BrakeAssumption == -BrakeAcceleration >= Abs(max_decel)

VARIABLE control_queue   \* commands published and not yet handled

chainVars == <<linkVars, control_queue, interfaceVars>>

ChainInit == LinkInit /\ InterfaceInit /\ control_queue = <<>>

Enqueue(queue, message) ==
  IF Len(queue) = QueueDepth THEN Append(Tail(queue), message) ELSE Append(queue, message)

(* A step of the manager other than its control timer.                       *)
Upstream(A) == A /\ UNCHANGED <<control_queue, interfaceVars>>

ChainRunStep ==
  /\ Local(runStep)
  /\ control_queue' = IF node' = "running" THEN Enqueue(control_queue, control_cmd')
                                           ELSE control_queue
  /\ UNCHANGED interfaceVars

ChainControl ==
  /\ control_queue # <<>>
  /\ on_control_msg(Head(control_queue))
  /\ control_queue' = Tail(control_queue)
  /\ UNCHANGED linkVars

ChainCan ==
  /\ \E engine_rpm \in EngineSpeeds : on_can_msg(engine_rpm)
  /\ UNCHANGED <<linkVars, control_queue>>

ChainNext ==
  \/ \E flag \in ShownFlags : Upstream(ShowFlag(flag))
  \/ Upstream(LinkTick)
  \/ Upstream(Deliver)
  \/ Upstream(Local(Start))
  \/ Upstream(Local(Input))
  \/ Upstream(Local(checkFlagTimeout))
  \/ ChainRunStep
  \/ ChainControl
  \/ ChainCan

ChainSpec == ChainInit /\ [][ChainNext]_chainVars

(* As FairLinkSpec; and the second node serves its subscription.             *)
FairChainSpec ==
  /\ ChainSpec
  /\ WF_chainVars(Upstream(Local(Start)))
  /\ WF_chainVars(Upstream(Local(checkFlagTimeout)))
  /\ WF_chainVars(ChainRunStep)
  /\ WF_chainVars(ChainControl)
  /\ WF_chainVars(Upstream(LinkTick))
  /\ SF_chainVars(Upstream(LinkTick /\ link'[0] # None))
  /\ WF_chainVars(Upstream(Deliver))

-----------------------------------------------------------------------------
(* The brake pressed fully, in neutral, with the wheels straight.            *)
FullBrake ==
  /\ lgsvl_control # NoControl
  /\ lgsvl_control.acceleration_pct = 0
  /\ lgsvl_control.braking_pct >= Abs(max_decel)
  /\ lgsvl_control.target_wheel_angle = 0
  /\ lgsvl_control.target_gear = GEAR_NEUTRAL

(* README: "RED: Vehicle must stop".  FlagIsObeyed at the other end of the   *)
(* chain: once GREEN has been gone for that long and the commands under way  *)
(* are handled, the simulator has the full brake as its last word, and       *)
(* nothing the car was told while it was green overtakes it.                 *)
BrakeReachesSimulator ==
  /\ node = "running" /\ withdrawn > MaxDelay + FlagTimeout + 1 /\ ~control_due
  /\ control_queue = <<>>
  => lgsvl_control = NoControl \/ FullBrake

(* A flag other than GREEN that stays brakes the car for good (as long as    *)
(* the manager lives: the second node has no watchdog of its own, and the    *)
(* simulator keeps the last command of a manager that is gone).              *)
StopReachesSimulator ==
  <>[](shown # "GREEN") => <>[](FullBrake \/ node = "terminated")

=============================================================================
