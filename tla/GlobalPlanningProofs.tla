------------------------ MODULE GlobalPlanningProofs ------------------------
(* Proofs about the global planner, for every file, distance and search      *)
(* radius.                                                                   *)
EXTENDS GlobalPlanning, Recursion

Waypoint == [point : Point, speed : {"given", "undefined"}]

-----------------------------------------------------------------------------
(* Going round a lap of n waypoints, less than once.                         *)
LEMMA Wraps ==
  ASSUME NEW n \in Nat \ {0}, NEW a \in 0..(n - 1), NEW k \in 0..(n - 1)
  PROVE  (a + k) % n = IF a + k < n THEN a + k ELSE a + k - n
<1>1. CASE a + k < n
  <2>1. a + k \in 0..(n - 1)
    BY <1>1
  <2> QED BY <1>1, <2>1
<1>2. CASE a + k >= n
  <2>1. a + k - n \in 0..(n - 1)
    BY <1>2
  <2> QED BY <1>2, <2>1
<1> QED BY <1>1, <1>2

(* The first of the least values of a table: what std::min_element finds.    *)
LEMMA FirstLeast ==
  ASSUME NEW n \in Nat \ {0}, NEW f \in [0..(n - 1) -> Nat]
  PROVE  \E i \in 0..(n - 1) : /\ \A j \in 0..(n - 1) : f[i] <= f[j]
                               /\ \A j \in 0..(i - 1) : f[i] < f[j]
<1> DEFINE values == {f[i] : i \in 0..(n - 1)}
<1>1. values \in SUBSET Nat /\ values # {}
  <2>1. 0 \in 0..(n - 1)
    OBVIOUS
  <2> QED BY <2>1
<1>2. PICK v \in values : \A w \in values : v <= w
  <2> HIDE DEF values
  <2> QED BY <1>1, LeastNumber
<1> DEFINE places == {i \in 0..(n - 1) : f[i] = v}
<1>3. places \in SUBSET Nat /\ places # {}
  <2>1. PICK i \in 0..(n - 1) : f[i] = v
    BY <1>2
  <2>2. i \in places
    BY <2>1
  <2>3. \A j \in places : j \in Nat
    OBVIOUS
  <2> QED BY <2>2, <2>3
<1>4. PICK i \in places : \A j \in places : i <= j
  <2> HIDE DEF places
  <2> QED BY <1>3, LeastNumber
<1>5. i \in 0..(n - 1) /\ f[i] = v
  BY <1>4
<1>6. \A j \in 0..(n - 1) : f[i] <= f[j]
  BY <1>2, <1>5
<1>7. ASSUME NEW j \in 0..(i - 1) PROVE f[i] < f[j]
  <2>1. j \in 0..(n - 1) /\ ~(i <= j)
    BY <1>5
  <2>2. f[j] # v
    BY <1>4, <2>1
  <2>3. f[i] <= f[j] /\ f[i] \in Nat /\ f[j] \in Nat
    BY <1>5, <1>6, <2>1
  <2> QED BY <1>5, <2>2, <2>3
<1> QED BY <1>5, <1>6, <1>7

(* Sums of a table, one more term at a time.                                 *)
Sums(n, term, sum) ==
  sum = [k \in 0..(n - 1) |-> IF k = 0 THEN 0 ELSE sum[k - 1] + term[k]]

LEMMA SumsExist ==
  ASSUME NEW n \in Nat \ {0}, NEW term \in [0..(n - 1) -> Nat]
  PROVE  \E sum \in [0..(n - 1) -> Nat] : Sums(n, term, sum)
<1> DEFINE m == n - 1
           step == [k \in 1..m |-> [x \in Nat |-> x + term[k]]]
<1>1. m \in Nat
  OBVIOUS
<1>2. step \in [1..m -> [Nat -> Nat]]
  <2>1. \A k \in 1..m, x \in Nat : x + term[k] \in Nat
    OBVIOUS
  <2> HIDE DEF m
  <2> QED BY <2>1
<1>3. PICK run \in [0..m -> Nat] : IsRun(0, step, m, run)
  <2> HIDE DEF m, step
  <2> QED BY <1>1, <1>2, RunExists
<1>4. ASSUME NEW k \in 0..m
      PROVE  run[k] = IF k = 0 THEN 0 ELSE run[k - 1] + term[k]
  <2>1. run[k] = IF k = 0 THEN 0 ELSE step[k][run[k - 1]]
    BY <1>3 DEF IsRun
  <2>2. CASE k = 0
    BY <2>1, <2>2
  <2>3. CASE k # 0
    <3>1. k \in 1..m /\ run[k - 1] \in Nat
      BY <2>3
    <3> QED BY <2>1, <2>3, <3>1
  <2> QED BY <2>2, <2>3
<1>5. Sums(n, term, run)
  <2> HIDE DEF step
  <2>1. run = [k \in 0..m |-> IF k = 0 THEN 0 ELSE run[k - 1] + term[k]]
    BY <1>4
  <2> QED BY <2>1 DEF Sums
<1> QED BY <1>5

(* Sums of two tables agree as far as the tables do.                         *)
LEMMA SumsAgree ==
  ASSUME NEW n \in Nat \ {0}, NEW m \in 1..n,
         NEW term, NEW sum, Sums(n, term, sum),
         NEW term2, NEW sum2, Sums(m, term2, sum2),
         \A k \in 1..(m - 1) : term[k] = term2[k]
  PROVE  \A k \in 0..(m - 1) : sum[k] = sum2[k]
<1> DEFINE T == {k \in 0..(m - 1) : sum[k] = sum2[k]}
<1>1. /\ \A k \in 0..(n - 1) : sum[k] = IF k = 0 THEN 0 ELSE sum[k - 1] + term[k]
      /\ \A k \in 0..(m - 1) : sum2[k] = IF k = 0 THEN 0 ELSE sum2[k - 1] + term2[k]
  BY DEF Sums
<1>2. 0 \in T
  BY <1>1
<1>3. ASSUME NEW k \in 1..(m - 1), k - 1 \in T PROVE k \in T
  <2>1. k \in 0..(n - 1) /\ k \in 0..(m - 1) /\ k # 0
    OBVIOUS
  <2>2. sum[k - 1] = sum2[k - 1]
    BY <1>3
  <2>3. sum[k] = sum[k - 1] + term[k] /\ sum2[k] = sum2[k - 1] + term2[k]
    BY <1>1, <2>1
  <2> QED BY <2>1, <2>2, <2>3
<1>4. m - 1 \in Nat
  OBVIOUS
<1>5. \A k \in 0..(m - 1) : k \in T
  <2> HIDE DEF T
  <2>1. \A k \in 1..(m - 1) : k - 1 \in T => k \in T
    BY <1>3
  <2> QED BY <1>2, <1>4, <2>1, UpTo
<1> QED BY <1>5

LEMMA SumsOfNumbers ==
  ASSUME NEW n \in Nat \ {0}, NEW term \in [0..(n - 1) -> Nat], NEW sum, Sums(n, term, sum)
  PROVE  sum \in [0..(n - 1) -> Nat]
<1>1. PICK sum2 \in [0..(n - 1) -> Nat] : Sums(n, term, sum2)
  BY SumsExist
<1>2. n \in 1..n /\ \A k \in 1..(n - 1) : term[k] = term[k]
  OBVIOUS
<1>3. \A k \in 0..(n - 1) : sum[k] = sum2[k]
  <2>1. ASSUME NEW m \in 1..n, m = n PROVE \A k \in 0..(m - 1) : sum[k] = sum2[k]
    <3>1. Sums(m, term, sum2) /\ \A k \in 1..(m - 1) : term[k] = term[k]
      BY <1>1, <2>1
    <3> QED BY <3>1, SumsAgree
  <2> QED BY <1>2, <2>1
<1>4. sum = [k \in 0..(n - 1) |-> sum[k]]
  BY DEF Sums
<1> QED BY <1>3, <1>4

-----------------------------------------------------------------------------
(* The loop that loads a file keeps a list of waypoints.                     *)
LEMMA WaypointsOfRows ==
  ASSUME NEW rows \in Seq(Rows)
  PROVE  Waypoints(rows) \in Seq(Waypoint)
<1> DEFINE n == Len(rows)
           Step(i, w) == IF rows[i].columns >= 3 THEN Append(w, WaypointOf(rows[i])) ELSE w
           step == [i \in 1..n |-> [w \in Seq(Waypoint) |-> Step(i, w)]]
           kept == CHOOSE kept : kept = [i \in 0..n |->
                     IF i = 0 THEN <<>>
                     ELSE IF rows[i].columns >= 3 THEN Append(kept[i - 1], WaypointOf(rows[i]))
                          ELSE kept[i - 1]]
<1>1. n \in Nat /\ \A i \in 1..n : rows[i] \in Rows
  <2>1. n \in Nat
    BY LenProperties
  <2>2. ASSUME NEW i \in 1..Len(rows) PROVE rows[i] \in Rows
    BY ElementOfSeq
  <2> QED BY <2>1, <2>2
<1>2. ASSUME NEW i \in 1..n, NEW w \in Seq(Waypoint) PROVE Step(i, w) \in Seq(Waypoint)
  <2>1. WaypointOf(rows[i]) \in Waypoint
    BY <1>1 DEF WaypointOf, Waypoint, Rows
  <2> HIDE DEF n
  <2>2. Append(w, WaypointOf(rows[i])) \in Seq(Waypoint)
    BY <2>1, AppendProperties, Zenon
  <2> QED BY <2>2
<1>3. step \in [1..n -> [Seq(Waypoint) -> Seq(Waypoint)]]
  <2> HIDE DEF n, Step
  <2> QED BY <1>2
<1>4. <<>> \in Seq(Waypoint)
  OBVIOUS
<1>5. PICK run \in [0..n -> Seq(Waypoint)] : IsRun(<<>>, step, n, run)
  <2> HIDE DEF n, step
  <2> QED BY <1>1, <1>3, <1>4, RunExists
<1>6. ASSUME NEW i \in 0..n
      PROVE  run[i] = IF i = 0 THEN <<>> ELSE Step(i, run[i - 1])
  <2> HIDE DEF Step
  <2>1. run[i] = IF i = 0 THEN <<>> ELSE step[i][run[i - 1]]
    BY <1>5 DEF IsRun
  <2>2. CASE i = 0
    BY <2>1, <2>2
  <2>3. CASE i # 0
    <3>1. i \in 1..n /\ i - 1 \in 0..n
      BY <1>1, <2>3
    <3> HIDE DEF n
    <3>2. run[i - 1] \in Seq(Waypoint)
      BY <3>1
    <3> QED BY <2>1, <2>3, <3>1, <3>2
  <2> QED BY <2>2, <2>3
<1>7. \E f : f = [i \in 0..n |->
                   IF i = 0 THEN <<>>
                   ELSE IF rows[i].columns >= 3 THEN Append(f[i - 1], WaypointOf(rows[i]))
                        ELSE f[i - 1]]
  <2>1. run = [i \in 0..n |->
                   IF i = 0 THEN <<>>
                   ELSE IF rows[i].columns >= 3 THEN Append(run[i - 1], WaypointOf(rows[i]))
                        ELSE run[i - 1]]
    <3> HIDE DEF n
    <3> QED BY <1>6
  <2> HIDE DEF n
  <2> QED BY <2>1
<1>8. kept = [i \in 0..n |-> IF i = 0 THEN <<>> ELSE Step(i, kept[i - 1])]
  <2> HIDE DEF n
  <2> QED BY <1>7, Zenon
<1>9. Waypoints(rows) = kept[n]
  BY DEF Waypoints
<1> DEFINE T == {i \in 0..n : kept[i] \in Seq(Waypoint)}
<1> HIDE DEF kept, n
<1>10. 0 \in T
  BY <1>1, <1>4, <1>8
<1>11. ASSUME NEW i \in 1..n, i - 1 \in T PROVE i \in T
  <2>1. i \in 0..n /\ i # 0
    BY <1>1
  <2>2. kept[i] = Step(i, kept[i - 1])
    BY <1>8, <2>1
  <2>3. kept[i - 1] \in Seq(Waypoint)
    BY <1>11
  <2> HIDE DEF Step
  <2> QED BY <1>2, <2>1, <2>2, <2>3
<1>12. \A i \in 0..n : i \in T
  <2> HIDE DEF T
  <2>1. \A i \in 1..n : i - 1 \in T => i \in T
    BY <1>11
  <2> QED BY <1>1, <1>10, <2>1, UpTo
<1>13. n \in 0..n
  BY <1>1
<1> QED BY <1>9, <1>12, <1>13

(* From a waypoint and a position the loop of findNextWaypoint goes on for   *)
(* some rounds, the last of which is the first that reaches the radius or    *)
(* comes back to the start.                                                  *)
FromStart(start) == [k \in 0..(Count - 1) |-> FromCar((start + k) % Count)]

Rounds(start, sum, last) ==
  /\ Sums(Count, FromStart(start), sum)
  /\ sum \in [0..(Count - 1) -> Nat]
  /\ last \in 0..(Count - 1)
  /\ sum[last] >= SearchRadius \/ last = Count - 1
  /\ \A k \in 0..(last - 1) : sum[k] < SearchRadius
  /\ findNextWaypoint(start) = (start + last) % Count

OnTrack ==
  /\ global_path \in Seq(Waypoint)
  /\ Count # 0
  /\ current_position \in Position

LEMMA OnTrackValues ==
  ASSUME OnTrack
  PROVE  /\ Count \in Nat \ {0}
         /\ \A i \in 1..Count : global_path[i] \in Waypoint
         /\ \A i \in 0..(Count - 1) : FromCar(i) \in Nat
<1>1. Count \in Nat \ {0}
  BY LenProperties DEF OnTrack, Count
<1>2. ASSUME NEW i \in 1..Len(global_path) PROVE global_path[i] \in Waypoint
  BY ElementOfSeq DEF OnTrack
<1>3. ASSUME NEW i \in 0..(Count - 1) PROVE FromCar(i) \in Nat
  <2>1. i + 1 \in 1..Len(global_path)
    BY <1>1 DEF Count
  <2>2. global_path[i + 1].point \in Point
    BY <1>2, <2>1 DEF Waypoint
  <2>3. <<current_position, global_path[i + 1].point>> \in Position \X Point
    BY <2>2 DEF OnTrack
  <2> QED BY <2>3, PlanningAssumption DEF FromCar
<1> QED BY <1>1, <1>2, <1>3 DEF Count

LEMMA FromStartTerms ==
  ASSUME OnTrack, NEW start \in 0..(Count - 1)
  PROVE  /\ FromStart(start) \in [0..(Count - 1) -> Nat]
         /\ \A k \in 0..(Count - 1) :
              FromStart(start)[k] =
                FromCar(IF start + k < Count THEN start + k ELSE start + k - Count)
<1>1. Count \in Nat \ {0}
  BY OnTrackValues
<1>2. ASSUME NEW k \in 0..(Count - 1)
      PROVE  /\ (start + k) % Count = IF start + k < Count THEN start + k ELSE start + k - Count
             /\ (start + k) % Count \in 0..(Count - 1)
  <2>1. (start + k) % Count = IF start + k < Count THEN start + k ELSE start + k - Count
    BY <1>1, Wraps
  <2> QED BY <1>1, <2>1
<1>3. ASSUME NEW k \in 0..(Count - 1) PROVE FromCar((start + k) % Count) \in Nat
  BY <1>2, OnTrackValues
<1> QED BY <1>2, <1>3 DEF FromStart

LEMMA FirstStop ==
  ASSUME NEW n \in Nat \ {0}, NEW stops \in SUBSET (0..(n - 1)), n - 1 \in stops,
         NEW k \in 0..(n - 1)
  PROVE  \E i \in k..(n - 1) : i \in stops /\ \A j \in k..(i - 1) : j \notin stops
<1> DEFINE later == {i \in stops : k <= i}
<1>1. later \in SUBSET Nat /\ later # {}
  <2>1. n - 1 \in later
    OBVIOUS
  <2>2. \A i \in later : i \in Nat
    OBVIOUS
  <2> QED BY <2>1, <2>2
<1>2. PICK i \in later : \A j \in later : i <= j
  <2> HIDE DEF later
  <2> QED BY <1>1, LeastNumber
<1>3. i \in k..(n - 1) /\ i \in stops
  BY <1>2
<1>4. ASSUME NEW j \in k..(i - 1) PROVE j \notin stops
  BY <1>2, <1>3
<1> QED BY <1>3, <1>4

(* A search that goes forward until it may stop ends at the first such       *)
(* place.                                                                    *)
Walks(n, stops, value, walk) ==
  walk = [k \in 0..(n - 1) |-> IF k \in stops THEN value[k] ELSE walk[k + 1]]

LEMMA WalkExists ==
  ASSUME NEW n \in Nat \ {0}, NEW stops \in SUBSET (0..(n - 1)), n - 1 \in stops, NEW value
  PROVE  \E walk : Walks(n, stops, value, walk)
<1> DEFINE First(k) == CHOOSE i \in k..(n - 1) : i \in stops /\ \A j \in k..(i - 1) : j \notin stops
           walk == [k \in 0..(n - 1) |-> value[First(k)]]
<1>1. ASSUME NEW k \in 0..(n - 1)
      PROVE  /\ First(k) \in k..(n - 1) /\ First(k) \in stops
             /\ \A j \in k..(First(k) - 1) : j \notin stops
  <2>1. \E i \in k..(n - 1) : i \in stops /\ \A j \in k..(i - 1) : j \notin stops
    BY FirstStop
  <2> QED BY <2>1, Zenon
<1>2. ASSUME NEW k \in 0..(n - 1), k \in stops PROVE First(k) = k
  <2> HIDE DEF First
  <2>1. ~(k \in k..(First(k) - 1))
    BY <1>1, <1>2
  <2>2. First(k) \in k..(n - 1)
    BY <1>1
  <2> QED BY <2>1, <2>2
<1>3. ASSUME NEW k \in 0..(n - 1), k \notin stops
      PROVE  k + 1 \in 0..(n - 1) /\ First(k) = First(k + 1)
  <2>1. k + 1 \in 0..(n - 1)
    BY <1>3
  <2> HIDE DEF First
  <2>2. /\ First(k) \in k..(n - 1) /\ First(k) \in stops
        /\ \A j \in k..(First(k) - 1) : j \notin stops
    BY <1>1
  <2>3. /\ First(k + 1) \in (k + 1)..(n - 1) /\ First(k + 1) \in stops
        /\ \A j \in (k + 1)..(First(k + 1) - 1) : j \notin stops
    BY <1>1, <2>1
  <2>4. ~(First(k) \in (k + 1)..(First(k + 1) - 1))
    BY <2>2, <2>3
  <2>5. ~(First(k + 1) \in k..(First(k) - 1))
    BY <2>2, <2>3
  <2>6. First(k) # k
    BY <1>3, <2>2
  <2> QED BY <2>1, <2>2, <2>3, <2>4, <2>5, <2>6
<1>4. ASSUME NEW k \in 0..(n - 1)
      PROVE  walk[k] = IF k \in stops THEN value[k] ELSE walk[k + 1]
  <2> HIDE DEF First
  <2>1. CASE k \in stops
    BY <1>2, <2>1
  <2>2. CASE k \notin stops
    BY <1>3, <2>2
  <2> QED BY <2>1, <2>2
<1>5. Walks(n, stops, value, walk)
  <2>1. walk = [k \in 0..(n - 1) |-> IF k \in stops THEN value[k] ELSE walk[k + 1]]
    <3> HIDE DEF First
    <3> QED BY <1>4
  <2> HIDE DEF walk
  <2> QED BY <2>1 DEF Walks
<1> HIDE DEF walk
<1> QED BY <1>5

LEMMA WalkEnds ==
  ASSUME NEW n \in Nat \ {0}, NEW stops \in SUBSET (0..(n - 1)), n - 1 \in stops, NEW value,
         NEW walk, Walks(n, stops, value, walk)
  PROVE  \E last \in 0..(n - 1) : /\ last \in stops /\ \A k \in 0..(last - 1) : k \notin stops
                                 /\ walk[0] = value[last]
<1>0. \E last \in 0..(n - 1) : last \in stops /\ \A k \in 0..(last - 1) : k \notin stops
  <2>1. ASSUME NEW k \in 0..(n - 1), k = 0
        PROVE  \E last \in 0..(n - 1) : last \in stops /\ \A j \in 0..(last - 1) : j \notin stops
    <3>1. \E i \in k..(n - 1) : i \in stops /\ \A j \in k..(i - 1) : j \notin stops
      BY FirstStop
    <3> QED BY <3>1, <2>1
  <2>2. 0 \in 0..(n - 1)
    OBVIOUS
  <2> QED BY <2>1, <2>2
<1>1. PICK last \in 0..(n - 1) : last \in stops /\ \A k \in 0..(last - 1) : k \notin stops
  BY <1>0
<1> DEFINE T == {k \in 0..last : walk[k] = walk[0]}
<1>2. \A k \in 0..(n - 1) : walk[k] = IF k \in stops THEN value[k] ELSE walk[k + 1]
  BY DEF Walks
<1>3. 0 \in T
  OBVIOUS
<1>4. ASSUME NEW k \in 1..last, k - 1 \in T PROVE k \in T
  <2>1. k - 1 \in 0..(n - 1) /\ k - 1 \notin stops /\ (k - 1) + 1 = k /\ k \in 0..last
    BY <1>1
  <2>2. walk[k - 1] = walk[k]
    BY <1>2, <2>1
  <2> QED BY <1>4, <2>1, <2>2
<1>5. last \in T
  <2> HIDE DEF T
  <2>1. \A k \in 1..last : k - 1 \in T => k \in T
    BY <1>4
  <2>2. last \in Nat /\ last \in 0..last
    OBVIOUS
  <2> QED BY <1>3, <2>1, <2>2, UpTo
<1>6. walk[0] = value[last]
  BY <1>1, <1>2, <1>5
<1> QED BY <1>1, <1>6

LEMMA RoundsExist ==
  ASSUME OnTrack, NEW start \in 0..(Count - 1)
  PROVE  \E sum, last : Rounds(start, sum, last)
<1> DEFINE n == Count
           distance == CHOOSE distance : distance = [k \in 0..(Count - 1) |->
             IF k = 0 THEN 0 ELSE distance[k - 1] + FromCar((start + k) % Count)]
           walk == CHOOSE walk : walk = [k \in 0..(Count - 1) |->
             IF distance[k] >= SearchRadius \/ (start + k + 1) % Count = start
               THEN (start + k) % Count
               ELSE walk[k + 1]]
           stops == {k \in 0..(n - 1) : distance[k] >= SearchRadius \/ k = n - 1}
           value == [k \in 0..(n - 1) |-> (start + k) % n]
<1>1. n \in Nat \ {0}
  BY OnTrackValues
<1>2. Sums(n, FromStart(start), distance) /\ distance \in [0..(n - 1) -> Nat]
  <2>1. PICK sum \in [0..(n - 1) -> Nat] : Sums(n, FromStart(start), sum)
    <3> HIDE DEF n
    <3>1. FromStart(start) \in [0..(n - 1) -> Nat]
      BY FromStartTerms DEF n
    <3> QED BY <1>1, <3>1, SumsExist
  <2>2. ASSUME NEW f, Sums(n, FromStart(start), f)
        PROVE  f = [k \in 0..(Count - 1) |->
                     IF k = 0 THEN 0 ELSE f[k - 1] + FromCar((start + k) % Count)]
    BY <2>2 DEF Sums, FromStart
  <2>3. ASSUME NEW f, f = [k \in 0..(Count - 1) |->
                     IF k = 0 THEN 0 ELSE f[k - 1] + FromCar((start + k) % Count)]
        PROVE  Sums(n, FromStart(start), f)
    BY <2>3 DEF Sums, FromStart
  <2>4. distance = [k \in 0..(Count - 1) |->
             IF k = 0 THEN 0 ELSE distance[k - 1] + FromCar((start + k) % Count)]
    BY <2>1, <2>2, Zenon
  <2> HIDE DEF distance
  <2>5. Sums(n, FromStart(start), distance)
    BY <2>3, <2>4
  <2>6. distance \in [0..(n - 1) -> Nat]
    <3> HIDE DEF n
    <3>1. FromStart(start) \in [0..(n - 1) -> Nat]
      BY FromStartTerms DEF n
    <3> QED BY <1>1, <2>5, <3>1, SumsOfNumbers
  <2> QED BY <2>5, <2>6
<1> HIDE DEF distance
<1>3. ASSUME NEW k \in 0..(n - 1)
      PROVE  /\ (start + k + 1) % Count = start <=> k = n - 1
             /\ (distance[k] >= SearchRadius \/ (start + k + 1) % Count = start) <=> k \in stops
  <2>1. (start + k + 1) % Count = start <=> k = n - 1
    <3>1. CASE k = n - 1
      <4>1. start + k + 1 = start + n
        BY <1>1, <3>1
      <4>2. (start + n) % n = start
        BY <1>1
      <4> QED BY <3>1, <4>1, <4>2
    <3>2. CASE k # n - 1
      <4> DEFINE m == k + 1
      <4>1. m \in 0..(n - 1) /\ m # 0 /\ start + k + 1 = start + m
        BY <1>1, <3>2
      <4> HIDE DEF m, n
      <4>2. (start + m) % n = IF start + m < n THEN start + m ELSE start + m - n
        BY <1>1, <4>1, Wraps DEF n
      <4>3. (start + m) % n # start
        BY <1>1, <4>1, <4>2
      <4> QED BY <3>2, <4>1, <4>3 DEF n
    <3> QED BY <3>1, <3>2
  <2> QED BY <2>1
<1>4. stops \in SUBSET (0..(n - 1)) /\ n - 1 \in stops
  BY <1>1
<1>5. ASSUME NEW f
      PROVE  Walks(n, stops, value, f) <=>
               f = [k \in 0..(Count - 1) |->
                     IF distance[k] >= SearchRadius \/ (start + k + 1) % Count = start
                       THEN (start + k) % Count
                       ELSE f[k + 1]]
  <2> HIDE DEF stops
  <2>1. [k \in 0..(n - 1) |-> IF k \in stops THEN value[k] ELSE f[k + 1]]
        = [k \in 0..(Count - 1) |->
             IF distance[k] >= SearchRadius \/ (start + k + 1) % Count = start
               THEN (start + k) % Count
               ELSE f[k + 1]]
    BY <1>3
  <2> QED BY <2>1 DEF Walks
<1>6. Walks(n, stops, value, walk)
  <2> HIDE DEF n, stops, value
  <2>1. PICK f : Walks(n, stops, value, f)
    BY <1>1, <1>4, WalkExists
  <2>2. walk = [k \in 0..(Count - 1) |->
             IF distance[k] >= SearchRadius \/ (start + k + 1) % Count = start
               THEN (start + k) % Count
               ELSE walk[k + 1]]
    BY <1>5, <2>1, Zenon
  <2> QED BY <1>5, <2>2, Zenon
<1>7. findNextWaypoint(start) = walk[0]
  BY DEF findNextWaypoint, distance
<1> HIDE DEF walk
<1>8. PICK last \in 0..(n - 1) : /\ last \in stops /\ \A k \in 0..(last - 1) : k \notin stops
                               /\ walk[0] = value[last]
  <2> HIDE DEF n, stops, value
  <2> QED BY <1>1, <1>4, <1>6, WalkEnds
<1>9. \A k \in 0..(last - 1) : distance[k] < SearchRadius
  <2>1. ASSUME NEW k \in 0..(last - 1) PROVE distance[k] < SearchRadius
    <3>1. k \in 0..(n - 1) /\ k \notin stops
      BY <1>1, <1>8
    <3>2. distance[k] \in Nat
      BY <1>2, <3>1
    <3> QED BY <3>1, <3>2, PlanningAssumption
  <2> QED BY <2>1
<1>10. Rounds(start, distance, last)
  BY <1>2, <1>7, <1>8, <1>9 DEF Rounds
<1> QED BY <1>10

-----------------------------------------------------------------------------
(* The first of the nearest waypoints exists.                                *)
LEMMA ClosestOnTrack ==
  ASSUME OnTrack
  PROVE  /\ findClosestWaypoint \in 0..(Count - 1)
         /\ \A j \in 0..(Count - 1) : FromCar(findClosestWaypoint) <= FromCar(j)
<1> DEFINE n == Count
           f == [i \in 0..(n - 1) |-> FromCar(i)]
<1>1. n \in Nat \ {0} /\ f \in [0..(n - 1) -> Nat]
  BY OnTrackValues
<1>2. \E i \in 0..(n - 1) : /\ \A j \in 0..(n - 1) : f[i] <= f[j]
                           /\ \A j \in 0..(i - 1) : f[i] < f[j]
  <2> HIDE DEF n, f
  <2> QED BY <1>1, FirstLeast
<1>3. PICK i \in 0..(n - 1) : /\ \A j \in 0..(n - 1) : f[i] <= f[j]
                            /\ \A j \in 0..(i - 1) : f[i] < f[j]
  BY <1>2
<1>4. \A j \in 0..(i - 1) : j \in 0..(n - 1)
  BY <1>1
<1>5. /\ \A j \in 0..(n - 1) : FromCar(i) <= FromCar(j)
      /\ \A j \in 0..(i - 1) : FromCar(i) < FromCar(j)
  BY <1>3, <1>4
<1>6. \E k \in 0..(Count - 1) : /\ \A j \in 0..(Count - 1) : FromCar(k) <= FromCar(j)
                               /\ \A j \in 0..(k - 1) : FromCar(k) < FromCar(j)
  BY <1>5
<1> QED BY <1>6, Zenon DEF findClosestWaypoint

(* What a path reaches is a sum over its points.                             *)
Terms(path) == [k \in 0..(Len(path) - 1) |-> Distance[current_position, path[k + 1].point]]

LEMMA ReachSums ==
  ASSUME current_position \in Position, NEW path \in Seq(Waypoint), Len(path) # 0
  PROVE  Sums(Len(path), Terms(path), Reach(path))
<1> DEFINE n == Len(path)
           reach == CHOOSE reach : reach = [k \in 0..(Len(path) - 1) |->
             IF k = 0 THEN 0 ELSE reach[k - 1] + Distance[current_position, path[k + 1].point]]
<1>1. n \in Nat \ {0}
  BY LenProperties
<1>2. Terms(path) \in [0..(n - 1) -> Nat]
  <2>1. ASSUME NEW k \in 0..(n - 1)
        PROVE  Distance[current_position, path[k + 1].point] \in Nat
    <3>1. k + 1 \in 1..Len(path)
      BY <1>1
    <3>2. path[k + 1] \in Waypoint
      BY <3>1, ElementOfSeq
    <3>3. <<current_position, path[k + 1].point>> \in Position \X Point
      BY <3>2 DEF Waypoint
    <3> QED BY <3>3, PlanningAssumption
  <2> QED BY <2>1 DEF Terms
<1>3. ASSUME NEW f
      PROVE  Sums(n, Terms(path), f) <=>
               f = [k \in 0..(Len(path) - 1) |->
                     IF k = 0 THEN 0
                     ELSE f[k - 1] + Distance[current_position, path[k + 1].point]]
  BY DEF Sums, Terms
<1>4. PICK f : Sums(n, Terms(path), f)
  <2> HIDE DEF n
  <2> QED BY <1>1, <1>2, SumsExist
<1>5. reach = [k \in 0..(Len(path) - 1) |->
             IF k = 0 THEN 0 ELSE reach[k - 1] + Distance[current_position, path[k + 1].point]]
  <2> HIDE DEF n
  <2> QED BY <1>3, <1>4, Zenon
<1>6. Reach(path) = reach
  BY DEF Reach
<1> HIDE DEF reach
<1> QED BY <1>3, <1>5, <1>6

(* The slice that is published: nothing, when a whole lap was searched and   *)
(* ended behind the car, or what the search went over.                       *)
IsSlice(first, last, path) ==
  \/ path = <<>> /\ last = Count - 1 /\ first # 0
  \/ /\ path \in Seq(Waypoint)
     /\ Len(path) = last + 1
     /\ first + last < Count
     /\ path = [k \in 1..(last + 1) |-> global_path[first + k]]

LEMMA Slice ==
  ASSUME OnTrack, NEW first \in 0..(Count - 1), NEW sum, NEW last, Rounds(first, sum, last),
         first <= findNextWaypoint(first) + 1
  PROVE  IsSlice(first, last, SubSeq(global_path, first + 1, findNextWaypoint(first) + 1))
<1> DEFINE next == findNextWaypoint(first)
           path == SubSeq(global_path, first + 1, next + 1)
<1>1. Count \in Nat \ {0} /\ last \in 0..(Count - 1)
  BY OnTrackValues DEF Rounds
<1>2. next = IF first + last < Count THEN first + last ELSE first + last - Count
  <2>1. next = (first + last) % Count
    BY DEF Rounds
  <2>2. (first + last) % Count = IF first + last < Count THEN first + last ELSE first + last - Count
    BY <1>1, Wraps
  <2> QED BY <2>1, <2>2
<1>3. CASE first + last < Count
  <2>1. next = first + last /\ first + 1 \in Int /\ next + 1 \in Int
    BY <1>1, <1>2, <1>3
  <2> HIDE DEF next
  <2>2. \A i \in (first + 1)..(next + 1) : global_path[i] \in Waypoint
    <3>1. \A i \in (first + 1)..(next + 1) : i \in 1..Count
      BY <1>1, <1>3, <2>1
    <3> QED BY <3>1, OnTrackValues
  <2>3. /\ path \in Seq(Waypoint)
        /\ Len(path) = IF first + 1 <= next + 1 THEN next + 1 - (first + 1) + 1 ELSE 0
        /\ \A i \in 1..(next + 1 - (first + 1) + 1) : path[i] = global_path[first + 1 + i - 1]
    BY <2>1, <2>2, SubSeqProperties
  <2> HIDE DEF path
  <2>4. Len(path) = last + 1
    BY <1>1, <2>1, <2>3
  <2>5. \A k \in 1..(last + 1) : path[k] = global_path[first + k]
    BY <1>1, <2>1, <2>3
  <2>6. path = [k \in 1..Len(path) |-> path[k]]
    BY <2>3
  <2>7. path = [k \in 1..(last + 1) |-> global_path[first + k]]
    BY <2>4, <2>5, <2>6
  <2> QED BY <1>3, <2>3, <2>4, <2>7 DEF IsSlice, path, next
<1>4. CASE ~(first + last < Count)
  <2>1. next = first + last - Count /\ first <= next + 1
    BY <1>1, <1>2, <1>4
  <2>2. last = Count - 1 /\ first # 0
    BY <1>1, <1>4, <2>1
  <2>3. first + 1 \in Int /\ next + 1 \in Int /\ next + 1 < first + 1
    BY <1>1, <2>1, <2>2
  <2> HIDE DEF next
  <2>4. path = <<>>
    BY <2>3, SubSeqEmpty
  <2> QED BY <2>2, <2>4 DEF IsSlice, next
<1> QED BY <1>3, <1>4

-----------------------------------------------------------------------------
(* The planner's variables keep their types; before the file is loaded the   *)
(* index has not moved.                                                      *)
IInv ==
  /\ TypeOK
  /\ node = "loading" => current_waypoint_index = 0

(* A local path is published from these values.                              *)
LEMMA Publishes ==
  ASSUME IInv, publishLocalPath, global_path # None, Count # 0
  PROVE  /\ OnTrack
         /\ current_waypoint_index' = findClosestWaypoint
         /\ UNCHANGED <<global_path, origin, inputVars, planning_odom>>
         /\ node' \in {"spinning", "terminated"}
         /\ \/ UNCHANGED local_path
            \/ \E sum, last : /\ Rounds(findClosestWaypoint, sum, last)
                             /\ IsSlice(findClosestWaypoint, last, local_path')
<1>1. OnTrack
  BY DEF IInv, TypeOK, publishLocalPath, OnTrack, Waypoint
<1> DEFINE first == findClosestWaypoint
           next == findNextWaypoint(findClosestWaypoint)
<1>2. first \in 0..(Count - 1)
  BY <1>1, ClosestOnTrack
<1>3. /\ current_waypoint_index' = first
      /\ CopySlice(first, next)
      /\ UNCHANGED planning_odom
      /\ node = "spinning"
  BY DEF publishLocalPath
<1> HIDE DEF first, next
<1>4. CASE first <= next + 1
  <2>1. local_path' = SubSeq(global_path, first + 1, next + 1)
    BY <1>3, <1>4 DEF CopySlice
  <2>2. PICK sum, last : Rounds(first, sum, last)
    BY <1>1, <1>2, RoundsExist
  <2>3. next = findNextWaypoint(first)
    BY DEF first, next
  <2>4. IsSlice(first, last, local_path')
    BY <1>1, <1>2, <1>4, <2>1, <2>2, <2>3, Slice
  <2>5. UNCHANGED <<node, global_path, origin, inputVars>>
    BY <1>3, <1>4 DEF CopySlice
  <2> QED BY <1>1, <1>3, <2>2, <2>4, <2>5 DEF first
<1>5. CASE ~(first <= next + 1)
  BY <1>1, <1>3, <1>5 DEF CopySlice, Terminate, first
<1> QED BY <1>4, <1>5

LEMMA InitIInv == Init => IInv
<1> SUFFICES ASSUME Init PROVE IInv
  OBVIOUS
<1>1. /\ node = "loading" /\ origin = "zero" /\ current_waypoint_index = 0
      /\ global_path = None /\ local_path = None
  BY DEF Init
<1>2. /\ received_gps \in BOOLEAN
      /\ received_gps <=> current_position # None
  BY DEF Init
<1>3. /\ current_position \in Position \cup {None} /\ planning_odom \in Position \cup {None}
      /\ odom \in {None, "odom"} /\ lgsvl_odom \in {None, "odom"}
  BY DEF Init
<1> QED BY <1>1, <1>2, <1>3 DEF IInv, TypeOK

LEMMA NextIInv == IInv /\ [Next]_vars => IInv'
<1> SUFFICES ASSUME IInv, [Next]_vars PROVE IInv'
  OBVIOUS
<1>1. CASE UNCHANGED vars
  <2>1. UNCHANGED <<node, global_path, origin, received_gps, current_position, odom, lgsvl_odom,
                    current_waypoint_index, local_path, planning_odom>>
    BY <1>1 DEF vars, inputVars, outputVars
  <2> QED BY <2>1 DEF IInv, TypeOK, Count
<1>2. ASSUME NEW file \in CsvFiles, loadWaypointsFromCSV(file) PROVE IInv'
  <2>1. Waypoints(file.rows) \in Seq([point : Point, speed : {"given", "undefined"}])
    BY PlanningAssumption, WaypointsOfRows DEF Waypoint
  <2>2. current_waypoint_index' = 0 /\ node' = "spinning"
    BY <1>2 DEF loadWaypointsFromCSV, outputVars, IInv
  <2>3. /\ global_path' # None =>
             global_path' \in Seq([point : Point, speed : {"given", "undefined"}])
        /\ origin' \in {"zero", "given", "undefined"}
    BY <1>2, <2>1 DEF loadWaypointsFromCSV, IInv, TypeOK
  <2>4. UNCHANGED <<inputVars, local_path, planning_odom>>
    BY <1>2 DEF loadWaypointsFromCSV, outputVars
  <2> QED BY <2>2, <2>3, <2>4 DEF inputVars, IInv, TypeOK
<1>3. ASSUME NEW p \in Position, gpsCallback(p) PROVE IInv'
  <2>1. current_position' \in Position /\ received_gps' = TRUE
    BY <1>3 DEF gpsCallback
  <2>2. UNCHANGED <<node, global_path, origin, odom, lgsvl_odom, outputVars>>
    BY <1>3 DEF gpsCallback
  <2> QED BY <2>1, <2>2, PlanningAssumption DEF outputVars, IInv, TypeOK, Count
<1>4. CASE on_odom_callback
  BY <1>4 DEF on_odom_callback, outputVars, IInv, TypeOK, Count
<1>5. CASE on_lgsvl_odom_callback
  BY <1>5 DEF on_lgsvl_odom_callback, outputVars, IInv, TypeOK, Count
<1>6. CASE publishGlobalPath
  BY <1>6 DEF publishGlobalPath, Terminate, inputVars, outputVars, IInv, TypeOK, Count
<1>7. CASE publishLocalPath
  <2>1. CASE global_path = None \/ Count = 0
    BY <1>7, <2>1 DEF publishLocalPath, Terminate, inputVars, IInv, TypeOK, Count
  <2>2. CASE global_path # None /\ Count # 0
    <3>1. /\ OnTrack
          /\ current_waypoint_index' = findClosestWaypoint
          /\ UNCHANGED <<global_path, origin, inputVars, planning_odom>>
          /\ node' \in {"spinning", "terminated"}
          /\ \/ UNCHANGED local_path
             \/ \E sum, last : /\ Rounds(findClosestWaypoint, sum, last)
                              /\ IsSlice(findClosestWaypoint, last, local_path')
      BY <1>7, <2>2, Publishes
    <3>2. Count \in Nat /\ findClosestWaypoint \in 0..(Count - 1)
      BY <3>1, OnTrackValues, ClosestOnTrack
    <3>3. Count' = Count
      BY <3>1 DEF Count
    <3>4. current_waypoint_index' \in Nat /\ current_waypoint_index' < Count'
      BY <3>1, <3>2, <3>3
    <3>5. local_path' # None =>
            local_path' \in Seq([point : Point, speed : {"given", "undefined"}])
      <4>1. CASE UNCHANGED local_path
        BY <4>1 DEF IInv, TypeOK
      <4>2. ASSUME NEW last, IsSlice(findClosestWaypoint, last, local_path')
            PROVE  local_path' \in Seq([point : Point, speed : {"given", "undefined"}])
        <5>1. <<>> \in Seq([point : Point, speed : {"given", "undefined"}])
          OBVIOUS
        <5> QED BY <4>2, <5>1 DEF IsSlice, Waypoint
      <4> QED BY <3>1, <4>1, <4>2
    <3> QED BY <3>1, <3>4, <3>5 DEF inputVars, IInv, TypeOK
  <2> QED BY <2>1, <2>2
<1>8. CASE publishPlanningOdom
  BY <1>8 DEF publishPlanningOdom, Terminate, inputVars, IInv, TypeOK, Count
<1> QED BY <1>1, <1>2, <1>3, <1>4, <1>5, <1>6, <1>7, <1>8 DEF Next

(* The planner's variables keep their types: what is loaded and published is *)
(* a list of waypoints, and the index is one of them.                        *)
THEOREM TypeCorrect == Spec => []TypeOK
<1>1. IInv => TypeOK
  BY DEF IInv
<1> QED BY <1>1, InitIInv, NextIInv, PTL DEF Spec

THEOREM Invariance == Spec => []IInv
  BY InitIInv, NextIInv, PTL DEF Spec

-----------------------------------------------------------------------------
(* Only publishLocalPath changes the local path.                             *)
LEMMA NewPath ==
  ASSUME IInv, [Next]_vars, local_path' # local_path
  PROVE  /\ OnTrack
         /\ current_waypoint_index' = findClosestWaypoint
         /\ findClosestWaypoint \in 0..(Count - 1)
         /\ \E sum, last : /\ Rounds(findClosestWaypoint, sum, last)
                          /\ IsSlice(findClosestWaypoint, last, local_path')
<1>1. publishLocalPath
  <2>1. ASSUME NEW file \in CsvFiles, loadWaypointsFromCSV(file) PROVE FALSE
    BY <2>1 DEF loadWaypointsFromCSV, outputVars
  <2>2. ASSUME NEW p \in Position, gpsCallback(p) PROVE FALSE
    BY <2>2 DEF gpsCallback, outputVars
  <2> QED BY <2>1, <2>2 DEF Next, vars, outputVars, on_odom_callback, on_lgsvl_odom_callback,
             publishGlobalPath, publishPlanningOdom
<1>2. global_path # None /\ Count # 0
  BY <1>1 DEF publishLocalPath
<1> QED BY <1>1, <1>2, Publishes, ClosestOnTrack

(* What is published ahead of the car, counted from its first point, is what *)
(* the search added up.                                                      *)
LEMMA AheadSums ==
  ASSUME OnTrack, NEW first \in 0..(Count - 1), NEW sum, NEW last, Rounds(first, sum, last),
         NEW path \in Seq(Waypoint), Len(path) \in 1..Count,
         \A k \in 1..(Len(path) - 1) :
           path[k + 1] = global_path[1 + IF first + k < Count THEN first + k
                                                             ELSE first + k - Count]
  PROVE  \A k \in 0..(Len(path) - 1) : Reach(path)[k] = sum[k]
<1> DEFINE m == Len(path)
           place(k) == IF first + k < Count THEN first + k ELSE first + k - Count
<1>1. Count \in Nat \ {0} /\ m \in 1..Count
  BY OnTrackValues
<1>2. ASSUME NEW k \in 1..(m - 1) PROVE FromStart(first)[k] = Terms(path)[k]
  <2>1. k \in 0..(Count - 1) /\ k \in 0..(m - 1)
    BY <1>1
  <2>2. FromStart(first)[k] = FromCar(place(k))
    BY <2>1, FromStartTerms
  <2>3. Terms(path)[k] = Distance[current_position, path[k + 1].point]
    BY <2>1 DEF Terms
  <2>4. path[k + 1] = global_path[place(k) + 1]
    <3>1. path[k + 1] = global_path[1 + place(k)]
      OBVIOUS
    <3>2. place(k) \in Int
      BY <1>1
    <3> HIDE DEF place
    <3>3. 1 + place(k) = place(k) + 1
      BY <3>2
    <3> QED BY <3>1, <3>3
  <2> HIDE DEF place
  <2> QED BY <2>2, <2>3, <2>4 DEF FromCar
<1>3. Sums(m, Terms(path), Reach(path))
  <2>1. current_position \in Position /\ Len(path) # 0
    BY DEF OnTrack
  <2> QED BY <2>1, ReachSums
<1>4. Sums(Count, FromStart(first), sum)
  BY DEF Rounds
<1> HIDE DEF m
<1>5. \A k \in 0..(m - 1) : sum[k] = Reach(path)[k]
  BY <1>1, <1>2, <1>3, <1>4, SumsAgree
<1> QED BY <1>5 DEF m

(* The local path is the shortest slice ahead of the closest waypoint that   *)
(* reaches the radius, or all of a lap that does not: publishLocalPath and   *)
(* findNextWaypoint, for every list of waypoints.                            *)
THEOREM PathReaches == Spec => LocalPathReaches
<1> DEFINE first == current_waypoint_index'
           last == Len(local_path') - 1
           Reaches == /\ local_path' = [k \in 1..(last + 1) |-> global_path[first + k]]
                      /\ Reach(local_path')[last] >= SearchRadius \/ last + 1 = Count
                      /\ \A k \in 0..(last - 1) : Reach(local_path')[k] < SearchRadius
<1>1. ASSUME IInv, [Next]_vars, local_path' # local_path, local_path' # <<>> PROVE Reaches
  <2>1. /\ OnTrack
        /\ first = findClosestWaypoint
        /\ findClosestWaypoint \in 0..(Count - 1)
    BY <1>1, NewPath
  <2>2. PICK sum, rounds : /\ Rounds(findClosestWaypoint, sum, rounds)
                           /\ IsSlice(findClosestWaypoint, rounds, local_path')
    BY <1>1, NewPath
  <2> HIDE DEF first
  <2>3. Rounds(first, sum, rounds) /\ IsSlice(first, rounds, local_path') /\ first \in 0..(Count - 1)
    BY <2>1, <2>2
  <2>4. /\ local_path' \in Seq(Waypoint)
        /\ Len(local_path') = rounds + 1
        /\ first + rounds < Count
        /\ local_path' = [k \in 1..(rounds + 1) |-> global_path[first + k]]
    BY <1>1, <2>3 DEF IsSlice
  <2>5. Count \in Nat \ {0} /\ rounds \in 0..(Count - 1)
    BY <2>1, <2>3, OnTrackValues DEF Rounds
  <2>6. last = rounds /\ Len(local_path') \in 1..Count /\ last + 1 = rounds + 1
    BY <2>4, <2>5
  <2>7. ASSUME NEW k \in 1..(Len(local_path') - 1)
        PROVE  local_path'[k + 1] = global_path[1 + IF first + k < Count THEN first + k
                                                                        ELSE first + k - Count]
    <3>1. k + 1 \in 1..(rounds + 1) /\ first + k < Count /\ first + (k + 1) = 1 + (first + k)
      BY <2>3, <2>4, <2>5
    <3>2. local_path'[k + 1] = global_path[first + (k + 1)]
      BY <2>4, <3>1
    <3> QED BY <3>1, <3>2
  <2>8. \A k \in 0..(Len(local_path') - 1) : Reach(local_path')[k] = sum[k]
    BY <2>1, <2>3, <2>4, <2>6, <2>7, AheadSums
  <2>9. /\ sum[rounds] >= SearchRadius \/ rounds = Count - 1
        /\ \A k \in 0..(rounds - 1) : sum[k] < SearchRadius
    BY <2>3 DEF Rounds
  <2> HIDE DEF last
  <2>10. Reach(local_path')[last] >= SearchRadius \/ last + 1 = Count
    <3>1. last \in 0..(Len(local_path') - 1)
      BY <2>5, <2>6 DEF last
    <3> QED BY <2>5, <2>6, <2>8, <2>9, <3>1
  <2>11. \A k \in 0..(last - 1) : Reach(local_path')[k] < SearchRadius
    <3>1. \A k \in 0..(last - 1) : k \in 0..(Len(local_path') - 1)
      BY <2>5, <2>6 DEF last
    <3> QED BY <2>6, <2>8, <2>9, <3>1
  <2>12. local_path' = [k \in 1..(last + 1) |-> global_path[first + k]]
    BY <2>4, <2>6
  <2> QED BY <2>10, <2>11, <2>12
<1>2. IInv /\ [Next]_vars => [local_path' # local_path /\ local_path' # <<>> => Reaches]_vars
  BY <1>1
<1> QED BY <1>2, Invariance, PTL DEF Spec, LocalPathReaches

(* The empty path comes only on a lap that does not reach the radius, where  *)
(* publishLocalPath's slice ends just before it starts.                      *)
THEOREM EmptyWhenShort == Spec => EmptyOnlyWhenShort
<1> DEFINE first == current_waypoint_index'
           Short == Reach(LapAhead(first))[Count - 2] < SearchRadius
<1>1. ASSUME IInv, [Next]_vars, local_path' # local_path, local_path' = <<>> PROVE Short
  <2>1. OnTrack /\ first = findClosestWaypoint /\ findClosestWaypoint \in 0..(Count - 1)
    BY <1>1, NewPath
  <2>2. PICK sum, rounds : /\ Rounds(findClosestWaypoint, sum, rounds)
                           /\ IsSlice(findClosestWaypoint, rounds, local_path')
    BY <1>1, NewPath
  <2> HIDE DEF first
  <2>3. Rounds(first, sum, rounds) /\ IsSlice(first, rounds, local_path') /\ first \in 0..(Count - 1)
    BY <2>1, <2>2
  <2>4. Count \in Nat \ {0} /\ rounds \in 0..(Count - 1)
    BY <2>1, <2>3, OnTrackValues DEF Rounds
  <2>5. rounds = Count - 1 /\ first \in 1..(Count - 1)
    <3>1. Len(<<>>) = 0
      OBVIOUS
    <3>2. Len(local_path') # rounds + 1
      BY <1>1, <2>4, <3>1
    <3>3. rounds = Count - 1 /\ first # 0
      BY <2>3, <3>2 DEF IsSlice
    <3> QED BY <2>3, <2>4, <3>3
  <2> DEFINE ahead == SubSeq(global_path, first + 1, Count)
             behind == SubSeq(global_path, 1, first - 1)
  <2>6. /\ ahead \in Seq(Waypoint) /\ Len(ahead) = Count - first
        /\ \A i \in 1..(Count - first) : ahead[i] = global_path[first + i]
    <3>1. /\ first + 1 \in Int /\ Count \in Int /\ first + 1 <= Count
          /\ Count - (first + 1) + 1 = Count - first
          /\ \A i \in 1..(Count - first) : first + 1 + i - 1 = first + i
      BY <2>4, <2>5
    <3>2. \A i \in (first + 1)..Count : global_path[i] \in Waypoint
      <4>1. \A i \in (first + 1)..Count : i \in 1..Count
        BY <2>4, <2>5
      <4> QED BY <2>1, <4>1, OnTrackValues
    <3>3. /\ ahead \in Seq(Waypoint)
          /\ Len(ahead) = IF first + 1 <= Count THEN Count - (first + 1) + 1 ELSE 0
          /\ \A i \in 1..(Count - (first + 1) + 1) : ahead[i] = global_path[first + 1 + i - 1]
      BY <3>1, <3>2, SubSeqProperties
    <3> HIDE DEF ahead
    <3> QED BY <3>1, <3>3
  <2>7. /\ behind \in Seq(Waypoint) /\ Len(behind) = first - 1
        /\ \A i \in 1..(first - 1) : behind[i] = global_path[i]
    <3>1. /\ first - 1 \in Int /\ 1 \in Int /\ first - 1 - 1 + 1 = first - 1
          /\ \A i \in 1..(first - 1) : 1 + i - 1 = i
          /\ (IF 1 <= first - 1 THEN first - 1 - 1 + 1 ELSE 0) = first - 1
      BY <2>4, <2>5
    <3>2. \A i \in 1..(first - 1) : global_path[i] \in Waypoint
      <4>1. \A i \in 1..(first - 1) : i \in 1..Count
        BY <2>4, <2>5
      <4> QED BY <2>1, <4>1, OnTrackValues
    <3>3. /\ behind \in Seq(Waypoint)
          /\ Len(behind) = IF 1 <= first - 1 THEN first - 1 - 1 + 1 ELSE 0
          /\ \A i \in 1..(first - 1 - 1 + 1) : behind[i] = global_path[1 + i - 1]
      BY <3>1, <3>2, SubSeqProperties
    <3> HIDE DEF behind
    <3> QED BY <3>1, <3>3
  <2> DEFINE rest == LapAhead(first)
  <2>8. rest = ahead \o behind
    BY DEF LapAhead
  <2> HIDE DEF ahead, behind, rest
  <2>9. /\ rest \in Seq(Waypoint) /\ Len(rest) = Len(ahead) + Len(behind)
        /\ \A i \in 1..(Len(ahead) + Len(behind)) :
             rest[i] = IF i <= Len(ahead) THEN ahead[i] ELSE behind[i - Len(ahead)]
    BY <2>6, <2>7, <2>8, ConcatProperties
  <2>10. Len(rest) = Count - 1 /\ Len(rest) \in 1..Count
    BY <2>4, <2>5, <2>6, <2>7, <2>9
  <2>11. ASSUME NEW k \in 1..(Len(rest) - 1)
         PROVE  rest[k + 1] = global_path[1 + IF first + k < Count THEN first + k
                                                                  ELSE first + k - Count]
    <3>1. /\ k + 1 \in 1..(Len(ahead) + Len(behind))
          /\ Len(ahead) = Count - first /\ Len(behind) = first - 1
      BY <2>4, <2>5, <2>6, <2>7, <2>10
    <3>2. CASE first + k < Count
      <4>1. k + 1 \in 1..(Count - first) /\ k + 1 <= Len(ahead) /\ first + (k + 1) = 1 + (first + k)
        BY <2>4, <2>5, <3>1, <3>2
      <4>2. rest[k + 1] = ahead[k + 1]
        BY <2>9, <3>1, <4>1
      <4>3. ahead[k + 1] = global_path[first + (k + 1)]
        BY <2>6, <4>1
      <4> QED BY <3>2, <4>1, <4>2, <4>3
    <3>3. CASE ~(first + k < Count)
      <4>1. /\ ~(k + 1 <= Len(ahead)) /\ (k + 1) - Len(ahead) = 1 + (first + k - Count)
            /\ 1 + (first + k - Count) \in 1..(first - 1)
        BY <2>4, <2>5, <2>10, <3>1, <3>3
      <4>2. rest[k + 1] = behind[1 + (first + k - Count)]
        BY <2>9, <3>1, <4>1
      <4> QED BY <2>7, <3>3, <4>1, <4>2
    <3> QED BY <3>2, <3>3
  <2>12. \A k \in 0..(Len(rest) - 1) : Reach(rest)[k] = sum[k]
    BY <2>1, <2>3, <2>9, <2>10, <2>11, AheadSums
  <2>13. Count - 2 \in 0..(Len(rest) - 1) /\ Count - 2 \in 0..(rounds - 1)
    BY <2>4, <2>5, <2>10
  <2>14. sum[Count - 2] < SearchRadius
    BY <2>3, <2>13 DEF Rounds
  <2>15. Reach(rest)[Count - 2] < SearchRadius
    BY <2>12, <2>13, <2>14
  <2> QED BY <2>15 DEF rest
<1>2. IInv /\ [Next]_vars => [local_path' # local_path /\ local_path' = <<>> => Short]_vars
  BY <1>1
<1> QED BY <1>2, Invariance, PTL DEF Spec, EmptyOnlyWhenShort

=============================================================================
