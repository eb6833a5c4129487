------------------------------ MODULE RaceFlags ------------------------------
(* The race-control flags of base_common: a Flags object holds one bit per   *)
(* flag; race control sends the word in a VehicleCommand, the vehicle shows  *)
(* it as a track flag and a vehicle flag, and returns it in a VehicleStatus. *)
(* A word is the set of the flags whose bits are set.                        *)
EXTENDS Naturals, Sequences, FiniteSetsExt

CONSTANT
  Shown         \* bound: the flags race control sets and clears

(* The offsets of VehicleBitfields.msg, from 0: the bit of Bits[i] is i - 1. *)
Bits ==
  << "RED", "FCY", "GREEN", "WGREEN", "CHECKERED", "G40", "G60", "G80", "G100",
     "G120", "G130", "G140", "G145", "G150", "G155", "G160", "G165", "G170",
     "G175", "G180", "G185", "G190", "ORANGE", "YELLOW", "STOP", "BLACK",
     "PURPLE", "BLUE", "DEFENDER", "ATTACKER", "EKILL" >>

BitRange(from, to) == {Bits[i] : i \in from..to}

TrackFlags == BitRange(1, 22)
RaceVehicleFlags == BitRange(23, 31)

VARIABLES
  flags,            \* the Flags object of race control
  command,          \* VehicleCommand.flags, as last sent
  flags_received    \* VehicleStatus.flags_received, as last reported

flagVars == <<flags, command, flags_received>>

-----------------------------------------------------------------------------
Init == flags = {} /\ command = {} /\ flags_received = {}

has_flag(word, mask) == mask \subseteq word

set_flag(mask) == flags' = flags \cup mask
clear_flag(mask) == flags' = flags \ mask
set_flag_to(mask, is_active) == IF is_active THEN set_flag(mask) ELSE clear_flag(mask)

(* A chain of tests: each names the bit it tests and what it then returns.   *)
FirstMatch(tests, word) ==
  LET hits == {i \in 1..Len(tests) : has_flag(word, {tests[i].bit})}
  IN  IF hits = {} THEN "NONE" ELSE tests[Min(hits)].returns

SameName(names) == [i \in 1..Len(names) |-> [bit |-> names[i], returns |-> names[i]]]

get_track_flag_from_flags(word) == FirstMatch(SameName(SubSeq(Bits, 1, 22)), word)

(* The sixth test asks for BLACK again.                                      *)
get_vehicle_flag_from_flags(word) ==
  FirstMatch(SameName(SubSeq(Bits, 23, 27))
               \o << [bit |-> "BLACK", returns |-> "BLUE"] >>
               \o SameName(SubSeq(Bits, 29, 31)), word)

get_flags_from_track_flag(flag) == {flag} \cap TrackFlags
get_flags_from_vehicle_flag(flag) == {flag} \cap RaceVehicleFlags

(* The telemetry field has 16 bits.                                          *)
set_flags_received(word) == word \cap BitRange(1, 16)

-----------------------------------------------------------------------------
Change ==
  /\ \E f \in Shown, is_active \in BOOLEAN : set_flag_to({f}, is_active)
  /\ UNCHANGED <<command, flags_received>>

(* Race control shows one flag, from the byte that names it.                 *)
ShowOne ==
  /\ \E f \in Shown : \/ flags' = get_flags_from_track_flag(f)
                       \/ flags' = get_flags_from_vehicle_flag(f)
  /\ UNCHANGED <<command, flags_received>>

set_flags == command' = flags /\ UNCHANGED <<flags, flags_received>>

ReportStatus ==
  /\ flags_received' = set_flags_received(command)
  /\ UNCHANGED <<flags, command>>

Next == Change \/ ShowOne \/ set_flags \/ ReportStatus

Spec == Init /\ [][Next]_flagVars

-----------------------------------------------------------------------------
(* The comments on the two conversions say that each returns "the            *)
(* corresponding" flag "based on the flag currently set": a vehicle that     *)
(* received a single flag shows that flag.                                   *)
SingleFlagShown ==
  /\ \A f \in TrackFlags :
       command = {f} => get_track_flag_from_flags(command) = f
  /\ \A f \in RaceVehicleFlags :
       command = {f} => get_vehicle_flag_from_flags(command) = f

=============================================================================
