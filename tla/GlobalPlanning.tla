--------------------------- MODULE GlobalPlanning ---------------------------
(* The global planner (global_planning_node.cpp): the waypoints of a CSV     *)
(* file, and the slice of them that starts at the car.  One executor thread  *)
(* runs three timers and three subscriptions.  Indices of waypoints count    *)
(* from zero as in the code.                                                 *)
EXTENDS Integers, Sequences

CONSTANTS
  None,           \* a null pointer; nothing published yet
  Position,       \* where the car can be
  Point,          \* where a waypoint can be
  Distance,       \* calculateDistance, of a position and a point
  SearchRadius,   \* local_path_length_m, as the size_t it is passed as
  CsvFiles        \* the files csv_file_path may name

Rows == [columns : Nat, point : Point]

ASSUME PlanningAssumption ==
  /\ None \notin Position
  /\ Distance \in [Position \X Point -> Nat]
  /\ SearchRadius \in Nat
  /\ \A file \in CsvFiles :
       /\ file.exists \in BOOLEAN
       /\ file.header \in Nat       \* columns of the first line, 0 without one
       /\ file.rows \in Seq(Rows)

VARIABLES
  node,                \* "loading", "spinning" or "terminated"
  global_path, origin,
  received_gps, current_position, odom, lgsvl_odom,
  current_waypoint_index,
  local_path,          \* the points of the last local path published
  planning_odom        \* the position in the last odometry published

inputVars == <<received_gps, current_position, odom, lgsvl_odom>>
outputVars == <<current_waypoint_index, local_path, planning_odom>>
vars == <<node, global_path, origin, inputVars, outputVars>>

Init ==
  /\ node = "loading"
  /\ global_path = None /\ origin = "zero"
  /\ received_gps = FALSE /\ current_position = None
  /\ odom = None /\ lgsvl_odom = None
  /\ current_waypoint_index = 0
  /\ local_path = None /\ planning_odom = None

-----------------------------------------------------------------------------
(* A row of three or four columns is accepted although the speed is taken    *)
(* from the fifth: it is then whatever the memory behind the row holds.      *)
WaypointOf(row) ==
  [point |-> row.point, speed |-> IF row.columns >= 5 THEN "given" ELSE "undefined"]

Waypoints(rows) ==
  LET kept[i \in 0..Len(rows)] ==
        IF i = 0 THEN <<>>
        ELSE IF rows[i].columns >= 3 THEN Append(kept[i - 1], WaypointOf(rows[i]))
             ELSE kept[i - 1]
  IN  kept[Len(rows)]

(* The first line must have five values, of which the sixth is read too.  A  *)
(* file without any line gives an empty path.  Without a file or with a bad  *)
(* first line global_path stays null, and the node spins all the same.       *)
loadWaypointsFromCSV(file) ==
  /\ node = "loading" /\ node' = "spinning"
  /\ IF file.exists /\ (file.header = 0 \/ file.header >= 5)
       THEN /\ global_path' = Waypoints(file.rows)
            /\ origin' = IF file.header = 0 THEN "zero"
                         ELSE IF file.header = 5 THEN "undefined" ELSE "given"
       ELSE UNCHANGED <<global_path, origin>>
  /\ UNCHANGED <<inputVars, outputVars>>

(* With any other origin than the track's, the projection puts the car       *)
(* somewhere else.                                                           *)
gpsCallback(p) ==
  /\ node = "spinning"
  /\ current_position' \in IF origin = "given" THEN {p} ELSE Position
  /\ received_gps' = TRUE
  /\ UNCHANGED <<node, global_path, origin, odom, lgsvl_odom, outputVars>>

on_odom_callback ==
  /\ node = "spinning"
  /\ odom' = "odom"
  /\ UNCHANGED <<node, global_path, origin, received_gps, current_position,
                 lgsvl_odom, outputVars>>

on_lgsvl_odom_callback ==
  /\ node = "spinning"
  /\ lgsvl_odom' = "odom"
  /\ UNCHANGED <<node, global_path, origin, received_gps, current_position,
                 odom, outputVars>>

-----------------------------------------------------------------------------
Count == Len(global_path)
FromCar(i) == Distance[current_position, global_path[i + 1].point]

(* std::min_element: the first of the nearest waypoints.                     *)
findClosestWaypoint ==
  CHOOSE i \in 0..(Count - 1) :
    /\ \A j \in 0..(Count - 1) : FromCar(i) <= FromCar(j)
    /\ \A j \in 0..(i - 1) : FromCar(i) < FromCar(j)

(* Mutants of findNextWaypoint: the loop stops a waypoint early; it forgets  *)
(* where it started.                                                         *)
findNextWaypoint_Early(start) ==
  LET distance[k \in 0..(Count - 1)] ==
        IF k = 0 THEN 0 ELSE distance[k - 1] + FromCar((start + k) % Count)
      walk[k \in 0..(Count - 1)] ==
        IF \/ distance[k] + 1 >= SearchRadius
           \/ (start + k + 1) % Count = start
          THEN (start + k) % Count
          ELSE walk[k + 1]
  IN  walk[0]

findNextWaypoint_Empty(start) == (start + Count - 1) % Count

(* The loop of findNextWaypoint after k rounds.  It adds up the distances    *)
(* from the car, not along the path, and stops before it comes back to where *)
(* it started.                                                               *)
findNextWaypoint(start) ==
  LET distance[k \in 0..(Count - 1)] ==
        IF k = 0 THEN 0 ELSE distance[k - 1] + FromCar((start + k) % Count)
      walk[k \in 0..(Count - 1)] ==
        IF distance[k] >= SearchRadius \/ (start + k + 1) % Count = start
          THEN (start + k) % Count
          ELSE walk[k + 1]
  IN  walk[0]

(* Null is dereferenced: the process is gone.                                *)
Terminate == node' = "terminated" /\ UNCHANGED <<global_path, origin, inputVars>>

publishGlobalPath ==
  /\ node = "spinning"
  /\ received_gps
  /\ IF global_path = None THEN Terminate
                           ELSE UNCHANGED <<node, global_path, origin, inputVars>>
  /\ UNCHANGED outputVars

(* Mutant of CopySlice: only the first slice is published.                   *)
CopySlice_Once(first, last) ==
  IF first <= last + 1
    THEN /\ local_path' = IF local_path = None THEN SubSeq(global_path, first + 1, last + 1)
                                               ELSE local_path
         /\ UNCHANGED <<node, global_path, origin, inputVars>>
    ELSE Terminate /\ UNCHANGED local_path

(* The slice from the closest waypoint to the next one, both included.  When *)
(* the next one lies past the end of the list its index is the smaller one,  *)
(* and inserting the negative range throws std::length_error.                *)
CopySlice(first, last) ==
  IF first <= last + 1
    THEN /\ local_path' = SubSeq(global_path, first + 1, last + 1)
         /\ UNCHANGED <<node, global_path, origin, inputVars>>
    ELSE Terminate /\ UNCHANGED local_path

publishLocalPath ==
  /\ node = "spinning"
  /\ received_gps
  /\ IF global_path = None THEN Terminate /\ UNCHANGED <<current_waypoint_index, local_path>>
     ELSE IF Count = 0
       THEN UNCHANGED <<node, global_path, origin, inputVars, current_waypoint_index, local_path>>
       ELSE /\ current_waypoint_index' = findClosestWaypoint
            /\ CopySlice(findClosestWaypoint, findNextWaypoint(findClosestWaypoint))
  /\ UNCHANGED planning_odom

(* The null test is of odom, the first message read is lgsvl_odom.           *)
publishPlanningOdom ==
  /\ node = "spinning"
  /\ received_gps /\ odom # None
  /\ IF lgsvl_odom = None
       THEN Terminate /\ UNCHANGED planning_odom
       ELSE /\ planning_odom' = current_position
            /\ UNCHANGED <<node, global_path, origin, inputVars>>
  /\ UNCHANGED <<current_waypoint_index, local_path>>

Next ==
  \/ \E file \in CsvFiles : loadWaypointsFromCSV(file)
  \/ \E p \in Position : gpsCallback(p)
  \/ on_odom_callback
  \/ on_lgsvl_odom_callback
  \/ publishGlobalPath
  \/ publishLocalPath
  \/ publishPlanningOdom

Spec == Init /\ [][Next]_vars

(* The timers fire, whatever arrives in between.                             *)
FairSpec ==
  /\ Spec
  /\ WF_vars(publishGlobalPath) /\ WF_vars(publishLocalPath)
  /\ WF_vars(publishPlanningOdom)

-----------------------------------------------------------------------------
(* Type invariant.                                                           *)
TypeOK ==
  /\ node \in {"loading", "spinning", "terminated"}
  /\ global_path # None =>
       global_path \in Seq([point : Point, speed : {"given", "undefined"}])
  /\ origin \in {"zero", "given", "undefined"}
  /\ received_gps \in BOOLEAN
  /\ current_position \in Position \cup {None}
  /\ received_gps <=> current_position # None
  /\ odom \in {None, "odom"} /\ lgsvl_odom \in {None, "odom"}
  /\ current_waypoint_index \in Nat
  /\ current_waypoint_index > 0 => current_waypoint_index < Count
  /\ local_path # None =>
       local_path \in Seq([point : Point, speed : {"given", "undefined"}])
  /\ planning_odom \in Position \cup {None}

(* What a path reaches: the distances from the car to the points after its   *)
(* first, added up to the k-th of them.                                      *)
Reach(path) ==
  LET reach[k \in 0..(Len(path) - 1)] ==
        IF k = 0 THEN 0 ELSE reach[k - 1] + Distance[current_position, path[k + 1].point]
  IN  reach

(* A local path is the shortest slice ahead of the closest waypoint whose    *)
(* distances from the car add up to the radius; only when the whole lap does *)
(* not reach it, it is the list up to where it wraps.                        *)
LocalPathReaches ==
  [][local_path' # local_path /\ local_path' # <<>> =>
       LET first == current_waypoint_index'
           last == Len(local_path') - 1
       IN  /\ local_path' = [k \in 1..(last + 1) |-> global_path[first + k]]
           /\ Reach(local_path')[last] >= SearchRadius \/ last + 1 = Count
           /\ \A k \in 0..(last - 1) : Reach(local_path')[k] < SearchRadius]_vars

(* The lap ahead of a waypoint, but for the one just behind it.              *)
LapAhead(first) ==
  SubSeq(global_path, first + 1, Count) \o SubSeq(global_path, 1, first - 1)

(* An empty path, on which the PID controller's behaviour is undefined, is   *)
(* published only on a lap whose waypoints, but for the one just behind the  *)
(* car, do not reach the radius.                                             *)
EmptyOnlyWhenShort ==
  [][local_path' # local_path /\ local_path' = <<>> =>
       Reach(LapAhead(current_waypoint_index'))[Count - 2] < SearchRadius]_vars

(* The path starts at a waypoint that is nearest to the car.                 *)
NearestFirst(path) ==
  \A i \in 0..(Count - 1) : Distance[current_position, path[1].point] <= FromCar(i)

(* The controller always gets a new path: while the planner lives, again and *)
(* again the last path published starts at the car's position of that time   *)
(* (or is the empty path of a lap shorter than the radius).                  *)
PathFollowsCar ==
  []<>( \/ node # "spinning" \/ ~received_gps
        \/ global_path \in {None, <<>>}
        \/ local_path = <<>>
        \/ local_path # None /\ NearestFirst(local_path) )

(* findNextWaypoint, "Break if we've wrapped around completely", and         *)
(* publishLocalPath, "Copy points from current_waypoint_index_ to            *)
(* next_index": the planner gets past the end of the list of waypoints.  (A  *)
(* missing file or missing odometry may still end it.)                       *)
PlannerSurvivesLap ==
  node = "terminated" /\ lgsvl_odom # None => global_path = None

=============================================================================
