# Formal models of the Hitch-open race stack

TLA+ modules, TLC configurations and TLAPS proofs about the nodes of this
repository that decide whether the race car drives, what it is told to do, and
what is recorded of it: the competition timer, the flag handling of the
controller and the nodes behind it, the global planner, the keyboard controller
and the bridge to the simulator. Paths below are relative to the repository; `CT`, `CM`, ... are
spelled out in the table of section 1.

Contents: 1 the system, 2 its parts in detail, 3 modules and runs, 4 bounds,
5 fairness, 6 proofs, 7 where code and documents disagree, 8 what is not
modelled, 9 plan.

## 1. The system

A race is a set of ROS 2 processes around the LGSVL simulator.

| component | source | state | modules |
|---|---|---|---|
| competition timer (CT) | `src/common/competition_timer/competition_timer/competition_timer.py` | flag parameter, competition and lap log, times, results file | `CompetitionTimer`, `CompetitionLog`, `RaceDay`, `RaceDayProofs` |
| simple_control (CM, PID, MPC) | `src/control/simple_control/src/controller_manager_node.cpp`, `plugins/longitudinal/pid_controller.cpp`, `plugins/lateral/pure_pursuit.cpp` | last flag and its age, path, odometry, memories of the plugins | `ControllerManager`, `FlagControl`, `DriveChain`, `DriveChainProofs` |
| global planner (GP) | `src/planning/global_planning/src/global_planning_node.cpp` | list of waypoints, closest waypoint, odometry, position | `GlobalPlanning`, `GlobalPlanningProofs` |
| keyboard controller (KB) | `src/control/keyboard_controller/keyboard_controller/keyboard_control_node.py` | flag and its age, pedals, steering, gear, recorded waypoints; two threads | `KeyboardControl`, `KeyboardControlProofs` |
| bridge: a client (CL) | `src/external/interfaces/lgsvl_bridge/src/client.cc` | double buffer of outgoing bytes, write in flight | `BridgeClient`, `LossyStream`, `BridgeClientProofs` |
| bridge: node and server (NC, SV) | `.../src/node.cc`, `server.cc`, `clients.cc`, `bridge.cc` | connections, subscribers and publishers by topic, queue of actions, wait set; two threads | `BridgeNode`, `BridgeNodeProofs` |
| race flags (FL) | `src/common/base_common/src/flags.cpp`, `include/base_common/race_control.hpp` | a word of flag bits | `RaceFlags` |
| autoware_lgsvl_interface (AL) | `src/simulation/autoware_lgsvl_interface/src/autoware_lgsvl_interface.cpp` | gear for the next acceleration | `AutowareLgsvlInterface`, `DriveChain`, `DriveChainProofs` |
| lgsvl_interface (LI) | `src/simulation/lgsvl_interface/src/lgsvl_interface.cpp` | last message of each sensor, last command, the fix being assembled | `LgsvlInterface`, `LgsvlInterfaceProofs` |
| other helpers of base_common, message serialisation, launch files, scripts | | | not modelled (section 8) |

How they interact:

```
 operator --param set--> competition timer --/vehicle_flag, 50 Hz--> controller manager
                             ^   (/clock, GPS)                  \--> keyboard controller
 global planner --/planning/local_path, /planning/odom--> controller manager
 controller manager --control_cmd--> autoware_lgsvl_interface --/lgsvl/control--+
 keyboard controller -----------------------------------------/lgsvl/control--+
                                                                              v
 /auto/raw_command --> lgsvl_interface --/lgsvl/control--> simulator; its sensors
                       --> lgsvl_interface --fix, steering and engine reports-->
 simulator <==== TCP, framed messages ====> lgsvl_bridge <---- ROS topics ----+
```

Every node runs a single-threaded executor, so its callbacks are atomic towards
each other, with two exceptions: the keyboard controller has a second thread
(the pynput listener) that shares attributes without a lock, and the bridge has
an asio thread and a node thread that share a queue and the clients' buffers
under mutexes. Between nodes, messages may be late or lost.

## 2. The parts in detail

**Competition timer.** A 50 Hz timer reads the parameter `vehicle_flag`,
publishes it, starts a competition at GREEN and ends it at BLACK
(`publish_vehicle_flag`); `/clock` sets the time; each GPS fix is tested against
the finish line and may count a crossing, record a lap, or - on the last lap -
set the parameter to black, which the next tick of the timer then sees
(`gps_callback`); the results are written when a competition ends and by Ctrl-C,
and a failed write is only logged.
*Hard:* the end of a race is split over two callbacks; the operator may override
the flag in between; the simulator may restart its clock; one visit to the line
brings several fixes; the first lap is timed differently from the others; the flag
timer does not wait for the clock that the start is taken from.
*Correct when:* the log of laps, the counter and the times agree; a visit counts
once and is not missed; a completed competition is saved, with its own laps,
before they are reset, unless the write fails; nothing is recorded under black.

**Controller manager.** Loads two plug-ins, keeps the last flag, path and
odometry, and every control period publishes either the brake or what the
plug-ins compute (`runStep`); at 10 Hz a watchdog turns a flag older than
`flag_timeout` into RED (`checkFlagTimeout`). *Hard:* the watchdog and the
control timer run in either order; flag messages carry no time, so late ones
count as fresh; the plug-ins keep memories over periods in which they did not
run; an empty path is undefined behaviour in the PID. *Correct when:* without
GREEN the car brakes within a bounded time; commands respect limits and change
step by step; a RED that came from the watchdog does not latch.

**Global planner.** Loads a CSV file of waypoints, and once a GPS fix has come
publishes a slice of them: from the waypoint closest to the car up to the first
whose distance adds up to the search radius. *Hard:* the list is a ring but the
slice is not; laps shorter than the radius; files that are missing, short or
malformed; pointers that are null until a message comes. *Correct when:* a local
path is that slice, the empty path occurs only on such short laps, and a new path
keeps coming.

**Keyboard controller.** Keys move pedals, steering and gear in the listener's
thread; the executor publishes a command every 0.1 s and releases everything
when no flag has come for `flag_timeout`; keys record and save waypoints.
*Hard:* reads and writes of the two threads interleave (a reset may be
overwritten by a key under way, a flag may be withdrawn after it was tested, a
waypoint is read coordinate by coordinate). *Correct when:* a driver leaning on
the throttle still brakes and then stops without flags; at most one key acts
late; recorded positions do not go backwards.

**Interfaces to the simulator.** `autoware_lgsvl_interface` turns an acceleration
into a pedal and a gear, and shifts up at each report of a high engine speed.
`lgsvl_interface` passes commands of race software on with the simulator's signs,
keeps the last message of each sensor, copies the IMU's orientation into the fix
at 100 Hz, and publishes fix, steering and engine reports at 20 Hz once each of
five inputs was seen. *Hard:* the first is a process of its own behind a queue
that drops; the second assembles its reports from messages of different ages by
two timers that run in either order. *Correct when:* a withdrawn GREEN ends in a
full brake whatever is still under way; reports come to agree with a command that
stays; the orientation in a fix is a recent one.

**Bridge client.** The node's thread publishes frames into one of two buffers;
the asio thread's completion handler swaps them. *Hard:* lost wake-ups, buffers
reused while the kernel reads them, torn frames, the limit on waiting bytes.

**Bridge node and server.** The asio thread accepts, reads operations and queues
subscription changes; the node's thread replays the queue, waits on ROS and
forwards. *Hard:* a client's reads and writes fail in either order, each with a
handler that removes it; changes of subscriptions race with messages being
handled; a signal must let `io.run` return. *Correct when:* the subscriptions
converge to what was asked, in order; a client that is gone is forgotten;
subscriptions are made; a signal stops the loop.

**Race flags.** A word of 31 bits, set and cleared by race control, sent in a
`VehicleCommand`, converted to one track flag and one vehicle flag, and returned
in a 16-bit field of `VehicleStatus`.

The hazards of each part, at their lines, are listed in `PROJECT.json`.

## 3. Modules and runs

Names of variables and actions are those of the code wherever TLA+ allows it
(`vehicle_flag`, `runStep`, `handle_write`, ...); history variables are marked
"history" where they are declared. Definitions named `X_Something` are faulty
variants of `X`, kept beside it: replacing the body of `X` by one breaks the
property it is listed with in `PROJECT.json`.

**`CompetitionTimer`** has one action per callback of the node, one for the
operator, one for Ctrl-C and one for the clock. `save_results` has four
outcomes: nothing to save, a file, a file that could not be written (which the
code catches and logs; the history variable `lost` keeps those laps), and the
TypeError of a missing end time. The flag timer may fire at any moment, also
before `clock_callback` has run: on wall time nothing orders the two, and with
`use_sim_time` the node's clock is fed by a subscription of its own.
- `timer`: any clock that may restart, any fixes, an operator who sets any flag
  at any time. The lap log agrees with the crossings (`LapLog`), crossings are
  spaced (`CrossingsSpaced`), the end of the race is its last crossing
  (`EndIsLastCrossing`), completed laps are in the file or in a failed write
  before they are reset (`CompletedLapsSaved`, except for a start at clock zero),
  a callback raises only in a competition whose start was not recorded
  (`RaisesOnlyWithoutStart`), and the node implements the abstract
  `CompetitionLog` under the mapping stated beside it (`ImplementsLog`).
- `timer_interrupt` (violated): section 7.
- **`RaceDay`** closes the loop: a car moves around a circular track, the
  simulator publishes clock and fixes, and the timer's callbacks run in any order
  before the next step: a competition may start before the first clock message,
  and the exception that follows on lap 1 (`FirstLapWithoutStart`) does happen. `race_day` shows that a visit to the line
  is counted once and never missed while the node times the car, that no lap is
  recorded under black, and that a car which keeps driving finishes the race, its
  laps in the file or in a failed write.
  What speeds, window and interval must satisfy for that is stated as operators
  (`LeavesInTime`, `LapOutlasts`, `WindowFits`, `FixInWindow`), and `MCRaceDay`
  assumes them of its numbers, so that TLC evaluates them.

**`ControllerManager`** has the constructor's steps, four subscriptions, both
timers, and a clock in units of the watchdog's period. **`FlagControl`** puts it
behind a lossy link with bounded delay to the flag that race control shows.
**`AutowareLgsvlInterface`** has the two callbacks of that node; pedals are counted
in units of 1/max_accel and 1/|max_decel|. **`DriveChain`** composes it with
`FlagControl` through the topic `control_cmd`: two processes, and a queue that
drops its oldest command when it is full.
- `drive_chain`: a stale flag brakes, within one check period and for every
  order of the timers (`StaleFlagBrakes`); commands stay within limits whatever
  the PID and MPC ask for (`CommandLimits`) and move by steps (`AccelGradual`);
  once GREEN has been withdrawn for delay + timeout + a period the car brakes,
  whichever messages were lost (`FlagIsObeyed`), and as soon as the commands under
  way are handled the simulator's last word is the full brake, in neutral, with
  the wheels straight (`BrakeReachesSimulator`), for good when the flag stays away
  (`StopReachesSimulator`, as long as the manager lives: the second node has no
  watchdog); and a GREEN that stays lets the car drive again and again
  (`GreenDrives`).

**`LgsvlInterface`** has one action per callback and timer, and a simulated car
that turns its wheels and shifts one gear at a time. A message variable that is
`None` stands for a seen flag that is false: each callback sets both.
- `lgsvl_interface`: the orientation of a published fix was the IMU's in this or
  the last 100 Hz period, whichever timer runs first and however often it changes
  (`OrientationIsRecent`; `orientation_age` keeps, for each orientation, the
  periods since the last IMU message had it); when a command
  stays, the steering report comes to tell the commanded angle as requested and
  as reached, so that the three changes of sign cancel (`SteeringSettles`), and
  the engine report tells the commanded gear and an end of the shift, to neutral
  too (`ShiftSettles`).

**`GlobalPlanning`** loads any of a set of files and then runs its three timers
and its subscriptions. Distances are a constant function of position and point.
- `planner`: the local path is the shortest slice that reaches the radius
  (`LocalPathReaches`), empty only on a short lap (`EmptyOnlyWhenShort`), and
  renewed for ever while the planner lives (`PathFollowsCar`).
- `planner_lap` (violated): section 7.

**`KeyboardControl`** makes one step of each access to a shared attribute:
`executor` and `listener` are the program counters and local values of the two
threads. The global interpreter lock makes single accesses atomic; nothing makes
two of them atomic. Saving waypoints may fail in two ways: a failed write is
logged, a directory that cannot be made ends the listener's thread (`Ended`).
- `keyboard`: `StaleFlagReleases`, `OneLateKey`, `WaypointsInOrder`.

**`BridgeClient`** models `publish` and `handle_write` as the critical sections
they are, the socket taking any number of bytes at a time, and closes and errors
in between.
- `bridge_client`: nothing is torn, repeated or reordered (`StreamIntact`);
  waiting bytes always have a write in front (`PendingHasWriter`); the limit is
  overshot by less than a frame (`PendingBounded`); the memory of a write in
  flight is stable (`BufferStable`); and the double buffer implements one lossy
  stream, progress included (`ImplementsStream`, against `LossyStream!FairSpec`).

**`BridgeNode`** has a read and a write of each connection with their outcomes
and handlers, the queue of actions, and the node's thread as execute / wait /
handle; the thread ends when a wait set cannot be cleared (NC:117-121).
- `bridge_node`: once the queue is replayed the subscriptions are the ones asked
  for (`SubscribersCatchUp`); what is being forwarded goes to live subscriptions
  only (`HandlingIsStable`); a closed connection with nothing left to happen is
  forgotten (`GoneIsForgotten`), an open one is read (`LiveIsRead`);
  subscriptions are made unless the node's thread has ended
  (`SubscriptionMade`); a signal stops the loop
  (`SignalStops`).
- `bridge_node_unknown` (violated): section 7.

**`RaceFlags`** treats a word as the set of its flags and each conversion as the
chain of tests it is. `race_flags` (violated): section 7.

## 4. Bounds

| run | bounds | why they are enough |
|---|---|---|
| timer | target 1 lap, interval 2, clock 0..4, restarts, failed writes, green / unknown string / black | one complete competition plus the start of a second, fixes closer than the interval, a restart between two crossings |
| timer_interrupt | target 2, clock 0..8 | one lap driven, one missing |
| race_day | 12 positions, speeds 2 and 3, window of 3 around the line, interval 3, 16 units, G40 / red / black, 2 commands | one visit yields one or two fixes, a lap takes 4 to 6 units, the last visit and its black flag fit, and so does one override |
| drive_chain | delay 0, timeout 1, GREEN / G40, 1 change, PID asks for 4 times its limit, MPC for 3 times, full and empty paths; queue of 2 commands (10 in the code), 2 gears (6) | a flag can be withdrawn or come, both limits and both directions of a step are exercised; a queue of two is full, drops, and holds an order of drive and brake; a positive delay is covered by the proof of `FlagIsObeyed`, for every delay |
| lgsvl_interface | 2 short periods in a long one (5 in the code), 2 orientations, ages of 0, 1 and more periods (`OldAge`), 2 commands: neutral to one side, gear 2 to the other | every order of the two timers with messages in between; shifts of two gears, through each status, up and down |
| planner | ring of 10 positions, 5 waypoints, radius 5, seven files | slices of several lengths, a slice that would wrap, a lap shorter than the radius, rows of every length, each error of the loader |
| keyboard | timeout 1 period, throttle and brake of 2 steps, 2 fixes, 2 waypoints, 4 sets of keys | each pair of conflicting accesses meets; more steps repeat the same interleavings |
| bridge_client | frames of 1 and 3 bytes, limit 3, 5 publishes | a frame cut by the socket, an overshoot, a refusal, two swaps |
| bridge_node | 2 connections, 2 good topics and one rcl refuses, 2 reads, 1 ROS message | two clients on one topic, one leaving while the other is served, a queue of several actions |
| race_flags | a low and a high track flag, three vehicle flags | every test of the chain that could shadow another |

The time bounds (`MaxTime`, `MaxAge`, `MaxWithdrawn`) and counters (`MaxReads`,
`MaxShows`, `MaxCommands`, `MaxPublished`, ...) appear in guards or saturate, and
are named where they are declared. `CHECK_DEADLOCK FALSE` is set because each of
these processes may really stop (Ctrl-C, the key q, an exception, a close), and
because bounded clocks end.

## 5. Fairness

No run assumes more than the program's own scheduling.

- `RaceDay!FairDaySpec`: the executor runs each callback that is due, and the
  car moves (that it keeps moving is the premise of `RaceIsFinished`).
- `DriveChain!FairChainSpec`: the second node serves its subscription; nothing is
  assumed of engine speeds. Otherwise as `FlagControl!FairLinkSpec`: the executor serves its timers and subscription;
  time passes; and *strong* fairness of a publication that is not lost - a link
  that loses every message would make `GreenDrives` false, and should.
- `GlobalPlanning!FairSpec`: the three wall timers fire. Fixes need not come.
- `LgsvlInterface!FairSpec`: the timers fire and their callbacks run, each sensor
  keeps publishing and the car keeps obeying while the node lives. Commands need
  not come.
- `BridgeClient!FairSpec`: the asio thread runs queued handlers and the kernel
  takes bytes of an open socket, as it does while the peer keeps reading; only
  the progress part of `ImplementsStream` depends on it.
- `BridgeNode!FairSpec`: the node's thread runs, and asio runs the handlers that
  are queued and lets `io.run` return. Nothing is assumed of the peers: a read or a
  write may stay in flight for ever.

## 6. Proofs

TLAPS checks these for every value of the constants that the named assumptions
allow; TLC evaluates the assumptions in the runs. The inductive invariants below
were checked with TLC on the runs' instances before they were proved. One module
of proofs per component; `Recursion` has the lemmas about loops they share.

**`RaceDayProofs`, the timer** (`TimerAssumption`). `IInv` is `TypeOK`, `LapLog`,
`CrossingsSpaced`, `EndIsLastCrossing` and one strengthening, `InactiveIsSaved`:
between competitions the laps of a completed one are in the file or in a failed
write, unless it started at clock zero. `LapLog` is needed for types already (a
lap time is a difference of times only because the crossings exist). From it:
`TypeCorrect`, `LapLogCorrect`, `Spacing`, `EndRecorded`; the action property
`CompletedSaved`; `OnlyMissingStartRaises` (with a start recorded every
subtraction finds its operands: a completed race has an end, one that is not
complete is not summed up by a callback); and `RefinesLog`, the refinement of
`CompetitionLog` step by step. None of them assumes an order of the flag timer and
`clock_callback`, or that a file can be written.

**`RaceDayProofs`, the race day** (also `RaceDayAssumption`).
`RaceDayImplementsTimer`: behind simulator and executor the timer does only what
it does alone, so everything above holds there; with it comes `ClockIsRecent`,
the node's clock is at most one message behind. On it rest two invariants that
bound a distance driven by a time passed, `Visit` (while the car has not left the
window since its last crossing, it is at least slowest speed times elapsed time
into it) and `Lap` (once away, it has driven at most fastest speed times elapsed
time), with `Counted` (in the window, it has been counted or its fix is still to
come); and `BlackEnds` (a black flag over a competition that still runs was
raised by the last lap, a step or two ago, and the flag timer is about to see
it). The theorems name what they need of the
numbers: `OnePerVisit` that the slowest car leaves the window before the
interval is over - a car that stands on the line *is* counted twice (section 7) -,
`NoneMissed` that the fastest lap outlasts the interval and no step jumps over
the window, `NoneUnderBlack` that the interval is at least three steps of the
simulator.

**`DriveChainProofs`, the controller manager** (`ControllerAssumption`).
`StaleFlagBrakes` is not inductive: `Watchdog` records what a check that has run
in this period leaves behind, `PluginLimits` bounds the memories of the plug-ins
and not only what was published, `AccelRemembered` ties the published
acceleration to the remembered one. From it: `WatchdogBrakes`, `CommandsLimited`,
`Gradual`.

**`DriveChainProofs`, link and chain** (also `LinkAssumption`, `ChainAssumption`,
`BrakeAssumption`). `StepSimulation`: every step of the linked system is a step of
the controller alone or leaves it unchanged, hence `LinkImplementsController`;
`LinkInv` then bounds how long ago a GREEN still on the link, or still followed,
can have been withdrawn, and `FlagObeyed` follows. The chain's steps are steps of
the link (`ChainImplementsLink`), so the controller's properties hold in it
(`ChainInherits`). `ChainInv` adds that the last word still under way -
the end of the queue or, when that is empty, what the second node last handled
- is the manager's current command (`LastWins`: dropping the oldest never loses
it). `BrakeArrives` combines the two: with the flag obeyed that command is the
brake, and by `BrakeAssumption` (the manager's brake is at least `max_decel`, as
in the shipped parameters) the pedal it becomes is the full one.

**`BridgeClientProofs`** (`ClientAssumption`). `IInv` adds to the stated invariants
that a write reported as successful was sent in full (without it the swap in
`handle_write` could drop bytes), that only a close aborts a write, and that bytes
move only on an open socket. From it: `StreamIsIntact`, `WriterIsThere`,
`PendingIsBounded`, `BufferIsStable`, and `ClientImplementsStream`, the refinement
of `LossyStream` step by step. That is its safety part, `LossyStream!Spec`; the
progress in `ImplementsStream` is TLC's.

**`BridgeNodeProofs`** (`BridgeAssumption`). `CatchUp`: replaying the queue gives
the subscriptions asked for. What the loop over the queue computes is shown to
depend on the last action about a client and topic (`ReplayLast`), what
`handle_read` appends is the subscriptions of the batch in order, and the two
compose whatever is queued in front. `HandlingStable` and `LiveRead` follow with
the two threads' program counters; `GoneForgotten` needs `ClosedForgotten` (for
a closed connection either a handler is still due or it was removed from
everything) and the hypothesis `OnlyKnown`: with an unknown operation it is false,
which is the finding of `bridge_node_unknown`.

**`KeyboardControlProofs`** (`KeyboardAssumption`). `TypeCorrect` covers the values
each thread holds between its accesses. `StaleFlagStops`: after the flags have gone
a chain of three invariants (`StaleFlag`, `StaleThrottle`, `StaleCommand`) follows
the release from the flag's age through the throttle to the published command,
allowing at each stage for a key that had passed its test of the flag before.
`OneKeyLate` by `LateKey`: after that key no further one can pass the test.
`WaypointOrder` by `RecordedInOrder` and `ReadInOrder`: the coordinates read so
far never go backwards, and do not lag behind the last waypoint recorded.

**`GlobalPlanningProofs`** (`PlanningAssumption`). `TypeCorrect`; and two action
properties of each published path, for every file, distance and radius:
`PathReaches`, `EmptyWhenShort`. `ClosestOnTrack` gives the first of the nearest
waypoints, `RoundsExist` says where the loop of `findNextWaypoint` stops, `Slice`
what the two indices then cut out of the list, `AheadSums` that the distances the
loop added up around the ring are those along the slice.

**`LgsvlInterfaceProofs`** (`LgsvlAssumption`). `TypeCorrect`, and
`OrientationRecent` by `FixIsFresh`: the orientation in the fix being assembled
was the IMU's at most a period ago, and in this one once the 100 Hz timer has
run. This holds for any number of short periods in a long one, five in the code.

**`Recursion`.** The library's induction theorems take an operator as parameter,
which the installed provers cannot instantiate. Their first-order instance can be
had from well-foundedness (`LeastNumber`, `UpTo`: induction over numbers for a
*set*), and from it that a recursive function over an interval exists
(`RunExists`); the loops of `Replay`, `Adds`, `Waypoints`, `findNextWaypoint` and
`Reach` are written as such functions and reasoned about that way.

Only model-checked: the liveness properties (`RaceIsFinished`, `StopReachesSimulator`,
`GreenDrives`, `SteeringSettles`, `ShiftSettles`, `PathFollowsCar`,
`SubscriptionMade`, `SignalStops`) and the progress part of `ImplementsStream`,
since liveness under fairness and ENABLED are outside what the prover handles;
and the runs that end in a violation. `LocalPathReaches` sums along the path in
order; nothing is proved of a sum over a set. The type invariants `TypeOK` of
`BridgeNode`, `GlobalPlanning`, `KeyboardControl` and `LgsvlInterface` are proved
but not among the runs' properties, which are spent on the deeper invariants.

## 7. Where code and documents disagree

Shown by a run:

- `timer_interrupt`: Ctrl-C during a race. `save_results` computes with
  `end_time`, still None, and the exception loses the laps (CT:289); its docstring
  promises to save them (CT:281).
- `planner_lap`: past the last waypoint the index of the slice's end is smaller
  than that of its start and `insert` gets a negative range (GP:311); the comment
  at GP:231 speaks of wrapping around.
- `bridge_node_unknown`: an unknown operation stops a client but does not remove
  it from the node's lists (CL:62), so its subscription keeps it.
- `race_flags`: `get_vehicle_flag_from_flags` asks for BLACK a second time where
  BLUE is to be returned (FL:303).

Noticed while modelling, without a run of their own:

- GREEN may be seen before `clock_callback` has run, so the competition starts
  without a start time (CT:173), and lap 1 then raises; and a start time of 0
  counts as "not started" (CT:283). The documented launch uses
  `use_sim_time:=true`, which makes this unlikely but does not exclude it: the
  timer's clock and `clock_callback` hear of `/clock` by separate subscriptions.
- A results file that cannot be written is only logged (CT:315-316), and its laps
  are gone with the next start. The end of an earlier competition is not reset
  (CT:237): a later one stopped by Ctrl-C before its target logs a wrong total.
- A directory that cannot be made raises outside of `save_waypoints`' try (KB:186)
  and ends the keyboard listener; the node goes on with the pedals as they were
  until the flags stop.
- A car that stands on the line is counted again once the interval is over
  (CT:254); in `RaceDay` the car moves on.
- G10 to G100 are documented as green flags with a limit; the controller manager
  drives at GREEN only (CM:141).
- The PID remembers its acceleration over a RED, so the first command after it may
  jump from the brake (PID:86); `AccelGradual` is about consecutive commands of
  the plug-ins.
- `simple_racing.yml:9` and `simple_control.yml:9` ask for
  `control::lateral::PurePursuitController`, which `plugins.xml:5` declares, but
  the library exports only the MPC under its own name (MPC:266, in
  `pure_pursuit.cpp`): with the shipped parameters `LoadPlugin` throws out of the
  constructor (CM:38). The run `drive_chain` therefore configures the class that
  is exported.
- An empty path reaches `points.back()` in the PID (PID:64). The planner publishes
  one on a short lap.
- The planner dereferences the last `lgsvl_odom` after testing another pointer
  (GP:336), takes a missing file for an empty list but then dereferences the null
  path (GP:261), and reads a fifth column of rows accepted with three.
- In the keyboard controller `min` and `max` of the steering limits are swapped
  (KB:244, KB:246), so steering is unbounded on the far side; the key q leaves
  without saving; nothing subscribes to odometry, so the first-fix waypoint is
  never recorded; and the saved file lacks the origin row the planner expects.
- `braking_pct`, documented as "0 to 1" (README.md:190), is clamped only when
  `max_decel_mps2` is positive (AL:72); the code's default and `simple_racing.yml`
  have -3.0. The manager's own brake of -3 gives exactly 1; a PID that brakes with
  its default limit of -5 gives 5/3.
- Nothing in `autoware_lgsvl_interface` shifts down, and every report of a high
  engine speed shifts up again although the gear asked for before may not be
  engaged yet (AL:43); when no command comes it repeats nothing and stops nothing.
- The two interfaces command the same topic with opposite signs: AL:76 passes the
  steering angle on, LI:171 negates it. The keyboard's key for left decreases it.
- Nobody in the repository publishes `lgsvl_interface`'s command topic, so it takes
  the gear asked for as 1: while `autoware_lgsvl_interface` has the car in gear 2
  the engine report says "downshift in progress" without end, and from gear 3 on
  "ready" (LI:250). `EngineReport.msg` has 3 and 4 for shifts in progress.
- At the last point of a local path, hence on one of a single point, which the
  planner publishes when the car is further from the nearest waypoint than the
  radius, the MPC's heading error is
  measured against zero (MPC:158), although its reference trajectory, which it
  computes and does not use, would know better.
- `VehicleStatus.flags_received` is documented as a copy of the command's flags but
  has 16 bits of the 31: every vehicle flag is lost in it (FL:228).

## 8. What is not modelled

- Serialisation of ROS messages from introspected types (`types.cc`): layout of
  bytes, no control of its own. Frames split over several reads: `get32le` may read
  past the buffer, but the operation then waits for its rest whatever was read.
- What the plug-ins compute: any request is allowed. The MPC's search for the
  closest point takes its own two-dimensional distance from the position in the
  last `/planning/odom`, which may be older than the path, so no claim about its
  heading error is made from the planner's model.
- Point clouds and wheel speeds in `lgsvl_interface`: republished as they come.
- Geometry: distances, the finish line's window and ENU conversion are constants
  or a one-dimensional track.
- Races below the granularity of a call (two threads in one asio socket, CL:42).
- What follows `io.run` at shutdown, and exceptions that leave `main`, beyond the
  state they leave behind.
- Of the race flags, passing properties of a running race control: no node calls
  the library, so nothing in the repository says who sets which flag when.
- Header-only helpers no node includes (message cache, rate limiter, low-pass
  filter, profiler), launch files, scripts, visualisation, maps and assets.

## 9. Plan

1. **Proofs**: exactly when the planner's slice ends the process; round trips of
   the flag words in `RaceFlags` for those flags that survive them.
2. **Framing** of the bridge against a specification of whole operations, and the
   shutdown of the node's thread after `io.run`.
3. **Recorded files**: the keyboard controller's waypoints read by the planner.
4. **Flags**: once a node uses the flag library, `RaceFlags` composed with it.
