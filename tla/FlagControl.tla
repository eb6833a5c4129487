----------------------------- MODULE FlagControl -----------------------------
(* The flag link of the car: race control shows a flag, which the timer node *)
(* publishes over and over, and the controller manager follows what reaches  *)
(* it.  A message may be lost, and arrives, in order, at most MaxDelay units *)
(* of time late.  Nothing in a flag message says how old it is: a late one   *)
(* counts as fresh.                                                          *)
EXTENDS ControllerManager

CONSTANTS
  ShownFlags,   \* the flags race control shows
  MaxDelay,     \* bound: units of time a message is on its way
  MaxShows      \* bound: how often race control changes the flag

ASSUME LinkAssumption ==
  /\ ShownFlags \subseteq VehicleFlag
  /\ MaxDelay \in Nat
  /\ MaxShows \in Nat

VARIABLES
  shown,        \* the flag race control shows
  link,         \* link[i]: the message sent i units of time ago, if on its way
  shows,        \* how often race control changed the flag
  withdrawn     \* history: units of time since GREEN was last published

linkVars == <<vars, shown, link, shows, withdrawn>>

MaxWithdrawn == MaxDelay + FlagTimeout + 2

OnItsWay == {i \in 0..MaxDelay : link[i] # None}

LinkInit ==
  /\ Init
  /\ shown \in ShownFlags
  /\ link = [i \in 0..MaxDelay |-> None]
  /\ shows = 0
  /\ withdrawn = MaxWithdrawn

(* `ros2 param set` of the flag, seen at the next publication.               *)
ShowFlag(flag) ==
  /\ shows < MaxShows
  /\ flag # shown
  /\ shown' = flag
  /\ shows' = shows + 1
  /\ UNCHANGED <<vars, link, withdrawn>>

(* Time passes, and the flag shown is published; the message may be lost.    *)
LinkTick ==
  /\ link[MaxDelay] = None
  /\ Tick
  /\ \E message \in {shown, None} :
       link' = [i \in 0..MaxDelay |-> IF i = 0 THEN message ELSE link[i - 1]]
  /\ withdrawn' = IF shown = "GREEN" THEN 0 ELSE Smaller(withdrawn + 1, MaxWithdrawn)
  /\ UNCHANGED <<shown, shows>>

(* The oldest message on its way arrives.                                    *)
Deliver ==
  /\ \E i \in OnItsWay :
       /\ \A j \in OnItsWay : j <= i
       /\ vehicle_flag_callback(link[i])
       /\ link' = [link EXCEPT ![i] = None]
  /\ UNCHANGED <<shown, shows, withdrawn>>

(* The link is not concerned: start-up, the other inputs and the timers.     *)
Local(A) == A /\ UNCHANGED <<shown, link, shows, withdrawn>>

Start == LoadPlugin \/ FinishSetup

Input ==
  \/ \E data \in BOOLEAN : should_publish_control_callback(data)
  \/ \E path \in PathKinds : on_local_path_callback(path)
  \/ on_odom_callback

LinkNext ==
  \/ \E flag \in ShownFlags : ShowFlag(flag)
  \/ LinkTick
  \/ Deliver
  \/ Local(Start)
  \/ Local(Input)
  \/ Local(runStep)
  \/ Local(checkFlagTimeout)

LinkSpec == LinkInit /\ [][LinkNext]_linkVars

(* The node starts, its executor serves both timers and the subscription,    *)
(* time passes, and the link does not lose every message.                    *)
FairLinkSpec ==
  /\ LinkSpec
  /\ WF_linkVars(Local(Start))
  /\ WF_linkVars(Local(runStep))
  /\ WF_linkVars(Local(checkFlagTimeout))
  /\ WF_linkVars(LinkTick)
  /\ SF_linkVars(LinkTick /\ link'[0] # None)
  /\ WF_linkVars(Deliver)

-----------------------------------------------------------------------------
(* README: "RED: Vehicle must stop" and "If no flag is received, vehicle must *)
(* assume RED flag": once race control has shown no GREEN for longer than a  *)
(* message may be late, plus the timeout and the period of its check, the    *)
(* car brakes, whichever messages were lost or late and however the timers   *)
(* interleave.                                                               *)
FlagIsObeyed ==
  node = "running" /\ withdrawn > MaxDelay + FlagTimeout + 1 /\ ~control_due
    => control_cmd \in {None, Brake}

(* A GREEN that stays lets the car drive again and again, although the link  *)
(* loses messages and the watchdog may have turned the flag to RED.          *)
Ready == should_publish_control /\ local_path = "points" /\ odom # None

GreenDrives ==
  <>[](shown = "GREEN" /\ Ready) => []<>(by_plugins \/ node = "terminated")

=============================================================================
