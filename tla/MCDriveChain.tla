---------------------------- MODULE MCDriveChain ----------------------------
(* Model checking of DriveChain: plugins that ask for more than the limits   *)
(* allow, a brake beyond them, and the signs of the parameter files.         *)
EXTENDS DriveChain

MpcName == "control::lateral::MPCController"
MCExported == {LonPlugin, MpcName}
MCPlugins == <<LonPlugin, MpcName>>

MinusOne == -1
MinusTwo == -2
MCDesiredAccel == {-4, 4}
MCDesiredSteering == {-3}

MCPathKinds == {"points", "empty"}
MCShownFlags == {"GREEN", "G40"}
MCEngineSpeeds == {3000, 3001}

=============================================================================
