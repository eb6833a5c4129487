----------------------- MODULE AutowareLgsvlInterface -----------------------
(* The node between the controllers and the simulator                        *)
(* (autoware_lgsvl_interface.cpp): an acceleration becomes the position of a *)
(* pedal and a gear.  A pedal is a share of its full travel: here            *)
(* acceleration_pct counts in units of 1/max_accel and braking_pct in units  *)
(* of 1/|max_decel|, so that the full travel is max_accel and |max_decel|.   *)
EXTENDS Integers

CONSTANTS
  NoControl,        \* nothing published yet
  max_accel, max_decel,  \* parameters max_accel_mps2, max_decel_mps2
  HighestGear       \* the 6 of on_can_msg

ASSUME InterfaceAssumption ==
  /\ max_accel \in Nat \ {0}
  /\ max_decel \in Int \ {0}
  /\ HighestGear \in Nat \ {0}

VARIABLES
  m_current_gear,   \* the gear for the next acceleration
  lgsvl_control     \* the VehicleControlData last published

interfaceVars == <<m_current_gear, lgsvl_control>>

GEAR_NEUTRAL == 0

InterfaceInit == m_current_gear = 1 /\ lgsvl_control = NoControl

(* Every report of a high engine speed is one gear up, also when the gear    *)
(* asked for before is not engaged yet; nothing ever shifts down.            *)
on_can_msg(engine_rpm) ==
  /\ m_current_gear' = IF engine_rpm > 3000 /\ m_current_gear < HighestGear
                         THEN m_current_gear + 1 ELSE m_current_gear
  /\ UNCHANGED lgsvl_control

Abs(x) == IF x < 0 THEN -x ELSE x
Least(x, y) == IF y < x THEN y ELSE x

(* Mutant of AccelerationPct: the sign of the acceleration is not looked at. *)
AccelerationPct_Unsigned(acceleration) == Least(Abs(acceleration), max_accel)

AccelerationPct(acceleration) ==
  IF acceleration >= 0 THEN Least(acceleration, max_accel) ELSE 0

(* Mutant of BrakingPct: the outer std::abs is missing.                      *)
BrakingPct_Signed(acceleration) ==
  IF acceleration >= 0 THEN 0
  ELSE Least(IF max_decel < 0 THEN acceleration ELSE -acceleration, Abs(max_decel))

(* abs(min(|a| / max_decel, 1)): with a negative max_decel, as in            *)
(* simple_racing.yml, the quotient is negative and the minimum no limit.     *)
BrakingPct(acceleration) ==
  IF acceleration >= 0 THEN 0
  ELSE Abs(Least(IF max_decel < 0 THEN acceleration ELSE -acceleration, Abs(max_decel)))

(* A command that leaves the acceleration undefined reads as zero.           *)
on_control_msg(cmd) ==
  /\ lgsvl_control' =
       [acceleration_pct |-> AccelerationPct(cmd.acceleration),
        braking_pct |-> BrakingPct(cmd.acceleration),
        target_wheel_angle |-> cmd.steering,
        target_gear |-> IF cmd.acceleration > 0 THEN m_current_gear ELSE GEAR_NEUTRAL]
  /\ UNCHANGED m_current_gear

=============================================================================
