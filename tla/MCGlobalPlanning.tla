-------------------------- MODULE MCGlobalPlanning --------------------------
(* Model checking of GlobalPlanning, on a circular track of ten positions: a *)
(* good file of five waypoints, a lap shorter than the radius, rows of every *)
(* length, and files that are missing, empty or malformed.                   *)
EXTENDS GlobalPlanning

Track == 0..9
Arc(a, b) == LET d == IF a > b THEN a - b ELSE b - a IN IF d > 5 THEN 10 - d ELSE d
TrackDistance == [pair \in Track \X Track |-> Arc(pair[1], pair[2])]

Row(columns, point) == [columns |-> columns, point |-> point]
Lap == [i \in 1..5 |-> Row(15, 2 * i - 2)]
File(exists, header, rows) == [exists |-> exists, header |-> header, rows |-> rows]

GoodFiles == {File(TRUE, 6, Lap)}
AllFiles == GoodFiles \cup
  { File(FALSE, 0, <<>>), File(TRUE, 0, <<>>), File(TRUE, 4, Lap),
    File(TRUE, 5, Lap),                                  \* saved by keyboard_controller
    File(TRUE, 6, <<Row(3, 9), Row(4, 0), Row(2, 5), Row(5, 1)>>),
    File(TRUE, 6, <<Row(5, 7)>>) }

=============================================================================
