-------------------------- MODULE BridgeNodeProofs --------------------------
(* Proofs about the bridge's node and server, for every set of clients and   *)
(* topics, whatever the clients send.                                        *)
EXTENDS BridgeNode, Recursion, FiniteSetTheorems

-----------------------------------------------------------------------------
(* The loop over the queue.  What it makes of a client and a topic depends   *)
(* on the last action of the queue that is about them.                       *)
Subscriptions == [Topic -> SUBSET Client]

Subscribes(a, t, c) == a.op = "add" /\ a.topic = t /\ a.client = c /\ t \notin BadTopics

Removes(a, c) == a.op = "remove" /\ a.client = c

IsLast(subs, as, n, t, c) ==
  \/ c \in subs[t] /\ \A i \in 1..n : ~Removes(as[i], c)
  \/ \E i \in 1..n : Subscribes(as[i], t, c) /\ \A j \in (i + 1)..n : ~Removes(as[j], c)

LEMMA PerformEffect ==
  ASSUME NEW subs \in Subscriptions, NEW a \in Actions
  PROVE  /\ Perform(subs, a) \in Subscriptions
         /\ \A t \in Topic, c \in Client :
              c \in Perform(subs, a)[t] <=>
                Subscribes(a, t, c) \/ (c \in subs[t] /\ ~Removes(a, c))
<1> USE DEF Subscriptions
<1>1. CASE a \in [op : {"remove"}, client : Client]
  <2>1. a.op = "remove" /\ Perform(subs, a) = [t \in Topic |-> subs[t] \ {a.client}]
    BY <1>1 DEF Perform
  <2> QED BY <2>1 DEF Subscribes, Removes
<1>2. CASE a \in [op : {"add"}, topic : Topic, client : Client]
  <2>1. a.op = "add" /\ a.topic \in Topic /\ a.client \in Client
    BY <1>2
  <2>2. CASE a.topic \in BadTopics
    <3>1. Perform(subs, a) = subs
      BY <2>1, <2>2 DEF Perform
    <3> QED BY <2>1, <2>2, <3>1 DEF Subscribes, Removes
  <2>3. CASE a.topic \notin BadTopics
    <3>1. Perform(subs, a) = [subs EXCEPT ![a.topic] = @ \cup {a.client}]
      BY <2>1, <2>3 DEF Perform
    <3>2. Perform(subs, a) \in Subscriptions
      BY <2>1, <3>1
    <3>3. ASSUME NEW t \in Topic, NEW c \in Client
          PROVE  c \in Perform(subs, a)[t] <=> c \in subs[t] \/ (t = a.topic /\ c = a.client)
      BY <2>1, <3>1
    <3> QED BY <2>1, <2>3, <3>2, <3>3 DEF Subscribes, Removes
  <2> QED BY <2>2, <2>3
<1> QED BY <1>1, <1>2 DEF Actions

LEMMA LastStep ==
  ASSUME NEW subs, NEW as, NEW n \in Nat, n # 0, NEW t, NEW c
  PROVE  IsLast(subs, as, n, t, c) <=>
           \/ Subscribes(as[n], t, c)
           \/ IsLast(subs, as, n - 1, t, c) /\ ~Removes(as[n], c)
<1>1. /\ \A i \in 1..n : i = n \/ i \in 1..(n - 1)
      /\ \A i \in 1..(n - 1) : i \in 1..n
      /\ n \in 1..n
  OBVIOUS
<1>2. Subscribes(as[n], t, c) => ~Removes(as[n], c)
  BY DEF Subscribes, Removes
<1>3. ASSUME IsLast(subs, as, n, t, c)
      PROVE  \/ Subscribes(as[n], t, c)
             \/ IsLast(subs, as, n - 1, t, c) /\ ~Removes(as[n], c)
  <2>1. CASE c \in subs[t] /\ \A i \in 1..n : ~Removes(as[i], c)
    BY <1>1, <2>1 DEF IsLast
  <2>2. ASSUME NEW i \in 1..n, Subscribes(as[i], t, c),
               \A j \in (i + 1)..n : ~Removes(as[j], c)
        PROVE  \/ Subscribes(as[n], t, c)
               \/ IsLast(subs, as, n - 1, t, c) /\ ~Removes(as[n], c)
    <3>1. CASE i = n
      BY <2>2, <3>1
    <3>2. CASE i \in 1..(n - 1)
      <4>1. n \in (i + 1)..n /\ (i + 1)..(n - 1) \subseteq (i + 1)..n
        BY <3>2
      <4> QED BY <4>1, <3>2, <2>2 DEF IsLast
    <3> QED BY <1>1, <3>1, <3>2
  <2> QED BY <1>3, <2>1, <2>2 DEF IsLast
<1>4. ASSUME Subscribes(as[n], t, c) PROVE IsLast(subs, as, n, t, c)
  <2>1. n \in 1..n /\ (n + 1)..n = {}
    OBVIOUS
  <2> QED BY <1>4, <2>1 DEF IsLast
<1>5. ASSUME IsLast(subs, as, n - 1, t, c), ~Removes(as[n], c)
      PROVE  IsLast(subs, as, n, t, c)
  <2>1. CASE c \in subs[t] /\ \A i \in 1..(n - 1) : ~Removes(as[i], c)
    BY <1>1, <1>5, <2>1 DEF IsLast
  <2>2. ASSUME NEW i \in 1..(n - 1), Subscribes(as[i], t, c),
               \A j \in (i + 1)..(n - 1) : ~Removes(as[j], c)
        PROVE  IsLast(subs, as, n, t, c)
    <3>1. i \in 1..n /\ \A j \in (i + 1)..n : j = n \/ j \in (i + 1)..(n - 1)
      OBVIOUS
    <3> QED BY <1>5, <2>2, <3>1 DEF IsLast
  <2> QED BY <1>5, <2>1, <2>2 DEF IsLast
<1> QED BY <1>3, <1>4, <1>5

LEMMA ReplayLast ==
  ASSUME NEW subs \in Subscriptions, NEW as \in Seq(Actions)
  PROVE  /\ Replay(subs, as) \in Subscriptions
         /\ \A t \in Topic, c \in Client :
              c \in Replay(subs, as)[t] <=> IsLast(subs, as, Len(as), t, c)
<1> DEFINE n == Len(as)
           step == [i \in 1..n |-> [x \in Subscriptions |-> Perform(x, as[i])]]
           after == CHOOSE after : after = [i \in 0..n |-> IF i = 0 THEN subs
                                                          ELSE Perform(after[i - 1], as[i])]
           T == {i \in 0..n : /\ after[i] \in Subscriptions
                              /\ \A t \in Topic, c \in Client :
                                   c \in after[i][t] <=> IsLast(subs, as, i, t, c)}
<1>1. n \in Nat /\ \A i \in 1..n : as[i] \in Actions
  <2>1. n \in Nat
    BY LenProperties
  <2>2. ASSUME NEW i \in 1..Len(as) PROVE as[i] \in Actions
    BY ElementOfSeq
  <2> QED BY <2>1, <2>2
<1>2. step \in [1..n -> [Subscriptions -> Subscriptions]]
  <2>1. \A i \in 1..n, x \in Subscriptions : Perform(x, as[i]) \in Subscriptions
    BY <1>1, PerformEffect
  <2> HIDE DEF n
  <2> QED BY <2>1
<1>3. \E f : f = [i \in 0..n |-> IF i = 0 THEN subs ELSE Perform(f[i - 1], as[i])]
  <2> HIDE DEF n
  <2>1. PICK run \in [0..n -> Subscriptions] : IsRun(subs, step, n, run)
    <3> HIDE DEF step
    <3> QED BY <1>1, <1>2, RunExists
  <2>2. ASSUME NEW i \in 0..n
        PROVE  run[i] = IF i = 0 THEN subs ELSE Perform(run[i - 1], as[i])
    BY <1>1, <2>1 DEF IsRun
  <2>3. run = [i \in 0..n |-> IF i = 0 THEN subs ELSE Perform(run[i - 1], as[i])]
    BY <2>2
  <2> QED BY <2>3
<1>4. after = [i \in 0..n |-> IF i = 0 THEN subs ELSE Perform(after[i - 1], as[i])]
  BY <1>3, Zenon
<1>5. Replay(subs, as) = after[n]
  BY DEF Replay
<1> HIDE DEF after, step, n
<1>6. 0 \in T
  <2>1. after[0] = subs /\ 0 \in 0..n /\ 1..0 = {}
    BY <1>1, <1>4
  <2> QED BY <2>1 DEF IsLast
<1>7. ASSUME NEW i \in 1..n, i - 1 \in T PROVE i \in T
  <2>1. after[i] = Perform(after[i - 1], as[i]) /\ i \in 0..n /\ i \in Nat /\ i # 0
    BY <1>1, <1>4
  <2>2. /\ after[i - 1] \in Subscriptions
        /\ \A t \in Topic, c \in Client :
             c \in after[i - 1][t] <=> IsLast(subs, as, i - 1, t, c)
    BY <1>7
  <2>3. as[i] \in Actions
    BY <1>1
  <2>4. /\ after[i] \in Subscriptions
        /\ \A t \in Topic, c \in Client :
             c \in after[i][t] <=>
               Subscribes(as[i], t, c) \/ (c \in after[i - 1][t] /\ ~Removes(as[i], c))
    BY <2>1, <2>2, <2>3, PerformEffect
  <2>5. \A t \in Topic, c \in Client : c \in after[i][t] <=> IsLast(subs, as, i, t, c)
    BY <2>1, <2>2, <2>4, LastStep
  <2> QED BY <2>1, <2>4, <2>5
<1>8. \A i \in 0..n : i \in T
  <2> HIDE DEF T
  <2>1. \A i \in 1..n : i - 1 \in T => i \in T
    BY <1>7
  <2> QED BY <1>1, <1>6, <2>1, UpTo
<1>9. n \in 0..n
  BY <1>1
<1> QED BY <1>5, <1>8, <1>9 DEF n

(* Only the actions up to n count.                                           *)
LEMMA LastOfPrefix ==
  ASSUME NEW subs, NEW as, NEW bs, NEW n \in Nat, \A i \in 1..n : as[i] = bs[i], NEW t, NEW c
  PROVE  IsLast(subs, as, n, t, c) <=> IsLast(subs, bs, n, t, c)
<1>1. \A i \in 1..n : (i + 1)..n \subseteq 1..n
  OBVIOUS
<1>2. \A i \in 1..n : /\ Removes(as[i], c) <=> Removes(bs[i], c)
                      /\ Subscribes(as[i], t, c) <=> Subscribes(bs[i], t, c)
  BY DEF Removes, Subscribes
<1> QED BY <1>1, <1>2 DEF IsLast

(* An empty queue leaves the subscriptions alone.                            *)
LEMMA ReplayNothing ==
  ASSUME NEW subs \in Subscriptions
  PROVE  Replay(subs, <<>>) = subs
<1>1. <<>> \in Seq(Actions) /\ Len(<<>>) = 0
  OBVIOUS
<1>2. \A t \in Topic, c \in Client : IsLast(subs, <<>>, 0, t, c) <=> c \in subs[t]
  <2>1. 1..0 = {}
    OBVIOUS
  <2> QED BY <2>1 DEF IsLast
<1>3. Replay(subs, <<>>) \in Subscriptions
  BY <1>1, ReplayLast
<1>4. \A t \in Topic, c \in Client : c \in Replay(subs, <<>>)[t] <=> c \in subs[t]
  BY <1>1, <1>2, ReplayLast
<1>5. \A t \in Topic : Replay(subs, <<>>)[t] = subs[t]
  BY <1>3, <1>4 DEF Subscriptions
<1> QED BY <1>3, <1>5 DEF Subscriptions

(* The removal of a client at the end of the queue.                          *)
LEMMA ReplayRemoval ==
  ASSUME NEW subs \in Subscriptions, NEW as \in Seq(Actions), NEW c \in Client
  PROVE  LET a == [op |-> "remove", client |-> c]
         IN  /\ Append(as, a) \in Seq(Actions)
             /\ Replay(subs, Append(as, a)) = [t \in Topic |-> Replay(subs, as)[t] \ {c}]
<1> DEFINE a == [op |-> "remove", client |-> c]
           more == Append(as, a)
           n == Len(as)
<1>1. a \in Actions
  BY DEF Actions
<1> HIDE DEF a
<1>2. more \in Seq(Actions) /\ OneMore(as, a, more)
  BY <1>1, AppendOne, Zenon
<1> HIDE DEF more
<1>3. /\ n \in Nat /\ n + 1 \in Nat /\ n + 1 # 0 /\ (n + 1) - 1 = n
      /\ Len(more) = n + 1 /\ more[n + 1] = a
      /\ \A i \in 1..n : more[i] = as[i]
  <2>1. /\ n \in Nat /\ Len(more) = n + 1 /\ more[n + 1] = a
        /\ \A i \in 1..n : more[i] = as[i]
    BY <1>2, Zenon DEF OneMore
  <2> HIDE DEF n
  <2>2. n + 1 \in Nat /\ n + 1 # 0 /\ (n + 1) - 1 = n
    BY <2>1
  <2> QED BY <2>1, <2>2
<1> HIDE DEF n
<1>4. ASSUME NEW t \in Topic, NEW d \in Client
      PROVE  d \in Replay(subs, more)[t] <=> d \in Replay(subs, as)[t] /\ d # c
  <2>1. d \in Replay(subs, more)[t] <=> IsLast(subs, more, n + 1, t, d)
    BY <1>2, <1>3, ReplayLast
  <2>2. IsLast(subs, more, n + 1, t, d) <=>
          Subscribes(a, t, d) \/ (IsLast(subs, more, n, t, d) /\ ~Removes(a, d))
    <3>1. IsLast(subs, more, n + 1, t, d) <=>
            \/ Subscribes(more[n + 1], t, d)
            \/ IsLast(subs, more, (n + 1) - 1, t, d) /\ ~Removes(more[n + 1], d)
      BY <1>3, LastStep, Zenon
    <3> QED BY <1>3, <3>1
  <2>3. IsLast(subs, more, n, t, d) <=> IsLast(subs, as, n, t, d)
    BY <1>3, LastOfPrefix
  <2>4. d \in Replay(subs, as)[t] <=> IsLast(subs, as, n, t, d)
    BY ReplayLast DEF n
  <2>5. ~Subscribes(a, t, d) /\ (Removes(a, d) <=> d = c)
    BY DEF Subscribes, Removes, a
  <2> QED BY <2>1, <2>2, <2>3, <2>4, <2>5
<1>5. Replay(subs, more) \in Subscriptions /\ Replay(subs, as) \in Subscriptions
  BY <1>2, ReplayLast
<1>6. Replay(subs, more) = [t \in Topic |-> Replay(subs, as)[t] \ {c}]
  BY <1>4, <1>5 DEF Subscriptions
<1> QED BY <1>2, <1>6 DEF more, a

(* What the operations of a batch add to the queue.                          *)
AddsUpTo(c, ops, n, as) ==
  /\ as \in Seq(Actions)
  /\ \A i \in 1..Len(as) : as[i].op = "add" /\ as[i].client = c
  /\ \A t \in Topic : (\E i \in 1..Len(as) : as[i].topic = t)
                      <=> \E i \in 1..n : ops[i].topic = t /\ Asks(ops[i])

LEMMA AddsNext ==
  ASSUME NEW c \in Client, NEW ops \in Seq(Operation), NEW n \in 1..Len(ops),
         NEW as, AddsUpTo(c, ops, n - 1, as)
  PROVE  AddsUpTo(c, ops, n, IF Asks(ops[n]) THEN Append(as, Add(c, ops[n].topic)) ELSE as)
<1>1. ops[n] \in Operation
  BY ElementOfSeq
<1>2. /\ \A i \in 1..n : i = n \/ i \in 1..(n - 1)
      /\ \A i \in 1..(n - 1) : i \in 1..n
      /\ n \in 1..n
  OBVIOUS
<1>3. CASE ~Asks(ops[n])
  <2>1. \A t : (\E i \in 1..(n - 1) : ops[i].topic = t /\ Asks(ops[i])) <=>
              \E i \in 1..n : ops[i].topic = t /\ Asks(ops[i])
    BY <1>2, <1>3
  <2> QED BY <1>3, <2>1 DEF AddsUpTo
<1>4. CASE Asks(ops[n])
  <2> DEFINE a == Add(c, ops[n].topic)
             more == Append(as, a)
  <2>1. a \in Actions /\ a.op = "add" /\ a.client = c /\ a.topic = ops[n].topic
    BY <1>1 DEF Add, Actions, Operation
  <2> HIDE DEF a
  <2>2. more \in Seq(Actions) /\ OneMore(as, a, more)
    <3>1. as \in Seq(Actions)
      BY DEF AddsUpTo
    <3> QED BY <2>1, <3>1, AppendOne, Zenon
  <2> HIDE DEF more
  <2>3. \A i \in 1..Len(more) : more[i].op = "add" /\ more[i].client = c
    BY <2>1, <2>2 DEF AddsUpTo, OneMore
  <2>4. ASSUME NEW t \in Topic
        PROVE  (\E i \in 1..Len(more) : more[i].topic = t)
                 <=> \E i \in 1..n : ops[i].topic = t /\ Asks(ops[i])
    <3>1. (\E i \in 1..Len(more) : more[i].topic = t)
            <=> ops[n].topic = t \/ \E i \in 1..Len(as) : as[i].topic = t
      BY <2>1, <2>2 DEF OneMore
    <3>2. (\E i \in 1..Len(as) : as[i].topic = t)
            <=> \E i \in 1..(n - 1) : ops[i].topic = t /\ Asks(ops[i])
      BY DEF AddsUpTo
    <3> QED BY <3>1, <3>2, <1>2, <1>4
  <2>5. AddsUpTo(c, ops, n, more)
    BY <2>2, <2>3, <2>4 DEF AddsUpTo
  <2> QED BY <2>5, <1>4 DEF more, a
<1> QED BY <1>3, <1>4
LEMMA AddsEffect ==
  ASSUME NEW c \in Client, NEW ops \in Seq(Operation)
  PROVE  AddsUpTo(c, ops, Len(ops), Adds(c, ops))
<1> DEFINE n == Len(ops)
           next(i, as) == IF Asks(ops[i]) THEN Append(as, Add(c, ops[i].topic)) ELSE as
           step == [i \in 1..n |-> [as \in Seq(Actions) |-> next(i, as)]]
           adds == CHOOSE adds : adds = [i \in 0..n |->
                     IF i = 0 THEN <<>>
                     ELSE IF Asks(ops[i]) THEN Append(adds[i - 1], Add(c, ops[i].topic))
                     ELSE adds[i - 1]]
           T == {i \in 0..n : AddsUpTo(c, ops, i, adds[i])}
<1>1. n \in Nat
  BY LenProperties
<1>2. step \in [1..n -> [Seq(Actions) -> Seq(Actions)]]
  <2>1. ASSUME NEW i \in 1..n, NEW as \in Seq(Actions) PROVE next(i, as) \in Seq(Actions)
    <3>1. ops[i] \in Operation
      BY ElementOfSeq
    <3>2. Add(c, ops[i].topic) \in Actions
      BY <3>1 DEF Add, Actions, Operation
    <3> QED BY <3>2, AppendProperties
  <2> HIDE DEF n, next
  <2> QED BY <2>1
<1>3. \E f : f = [i \in 0..n |->
                  IF i = 0 THEN <<>>
                  ELSE IF Asks(ops[i]) THEN Append(f[i - 1], Add(c, ops[i].topic))
                  ELSE f[i - 1]]
  <2> HIDE DEF n
  <2>1. PICK run \in [0..n -> Seq(Actions)] : IsRun(<<>>, step, n, run)
    <3>1. <<>> \in Seq(Actions)
      OBVIOUS
    <3> HIDE DEF step
    <3> QED BY <1>1, <1>2, <3>1, RunExists
  <2>2. ASSUME NEW i \in 0..n
        PROVE  run[i] = IF i = 0 THEN <<>> ELSE next(i, run[i - 1])
    <3>1. run[i] = IF i = 0 THEN <<>> ELSE step[i][run[i - 1]]
      BY <2>1 DEF IsRun
    <3>2. i # 0 => i \in 1..n /\ i - 1 \in 0..n
      BY <1>1
    <3> HIDE DEF next
    <3> QED BY <3>1, <3>2
  <2>3. run = [i \in 0..n |-> IF i = 0 THEN <<>> ELSE next(i, run[i - 1])]
    <3> HIDE DEF next
    <3> QED BY <2>2
  <2>4. run = [i \in 0..n |->
                IF i = 0 THEN <<>>
                ELSE IF Asks(ops[i]) THEN Append(run[i - 1], Add(c, ops[i].topic))
                ELSE run[i - 1]]
    BY <2>3, Zenon
  <2> QED BY <2>4
<1>4. adds = [i \in 0..n |->
               IF i = 0 THEN <<>>
               ELSE IF Asks(ops[i]) THEN Append(adds[i - 1], Add(c, ops[i].topic))
               ELSE adds[i - 1]]
  BY <1>3, Zenon
<1>5. Adds(c, ops) = adds[n]
  BY DEF Adds
<1> HIDE DEF adds, step, n
<1>6. 0 \in T
  <2>1. adds[0] = <<>> /\ 0 \in 0..n /\ 1..0 = {}
    BY <1>1, <1>4
  <2>2. <<>> \in Seq(Actions) /\ Len(<<>>) = 0
    OBVIOUS
  <2>3. AddsUpTo(c, ops, 0, adds[0])
    BY <2>1, <2>2 DEF AddsUpTo
  <2> QED BY <2>1, <2>3
<1>7. ASSUME NEW i \in 1..n, i - 1 \in T PROVE i \in T
  <2>1. /\ i \in 0..n
        /\ adds[i] = IF Asks(ops[i]) THEN Append(adds[i - 1], Add(c, ops[i].topic))
                                    ELSE adds[i - 1]
    <3>1. i \in 0..n /\ i # 0
      BY <1>1
    <3>2. adds[i] = IF i = 0 THEN <<>>
                    ELSE IF Asks(ops[i]) THEN Append(adds[i - 1], Add(c, ops[i].topic))
                    ELSE adds[i - 1]
      BY <1>4, <3>1, Zenon
    <3> QED BY <3>1, <3>2, Zenon
  <2>2. AddsUpTo(c, ops, i - 1, adds[i - 1])
    BY <1>7
  <2>3. i \in 1..Len(ops)
    BY DEF n
  <2>4. AddsUpTo(c, ops, i, IF Asks(ops[i]) THEN Append(adds[i - 1], Add(c, ops[i].topic))
                                            ELSE adds[i - 1])
    BY <2>2, <2>3, AddsNext, Zenon
  <2>5. AddsUpTo(c, ops, i, adds[i])
    BY <2>1, <2>4, Zenon
  <2> QED BY <2>1, <2>5
<1>8. \A i \in 0..n : i \in T
  <2> HIDE DEF T
  <2>1. \A i \in 1..n : i - 1 \in T => i \in T
    BY <1>7
  <2> QED BY <1>1, <1>6, <2>1, UpTo
<1>9. n \in 0..n
  BY <1>1
<1> QED BY <1>5, <1>8, <1>9 DEF n

(* The additions of one client at the end of the queue.                      *)
Joined(subs, bs, c) ==
  [t \in Topic |-> IF t \notin BadTopics /\ \E i \in 1..Len(bs) : bs[i].topic = t
                   THEN subs[t] \cup {c} ELSE subs[t]]

LEMMA ReplayAdds ==
  ASSUME NEW subs \in Subscriptions, NEW as \in Seq(Actions), NEW bs \in Seq(Actions),
         NEW c \in Client, \A i \in 1..Len(bs) : bs[i].op = "add" /\ bs[i].client = c
  PROVE  /\ as \o bs \in Seq(Actions)
         /\ Replay(subs, as \o bs) = Joined(Replay(subs, as), bs, c)
<1> DEFINE n == Len(as)
           m == Len(bs)
           more == as \o bs
           Added(k, t, d) == d = c /\ t \notin BadTopics /\ \E i \in 1..k : bs[i].topic = t
           T == {k \in 0..m : \A t \in Topic, d \in Client :
                   IsLast(subs, more, n + k, t, d) <=>
                     IsLast(subs, as, n, t, d) \/ Added(k, t, d)}
<1>1. n \in Nat /\ m \in Nat
  BY LenProperties
<1>2. /\ more \in Seq(Actions) /\ Len(more) = n + m
      /\ \A i \in 1..n : more[i] = as[i]
      /\ \A k \in 1..m : more[n + k] = bs[k]
  <2>1. more \in Seq(Actions) /\ Len(more) = n + m
    BY ConcatProperties
  <2>2. \A i \in 1..(n + m) : more[i] = IF i <= n THEN as[i] ELSE bs[i - n]
    BY ConcatProperties, Zenon
  <2> HIDE DEF n, m, more
  <2>3. ASSUME NEW k \in 1..m PROVE more[n + k] = bs[k]
    <3>1. n + k \in 1..(n + m) /\ ~(n + k <= n) /\ (n + k) - n = k
      BY <1>1, <2>1
    <3> QED BY <2>2, <3>1
  <2>4. ASSUME NEW i \in 1..n PROVE more[i] = as[i]
    <3>1. i \in 1..(n + m) /\ i <= n
      BY <1>1, <2>1
    <3> QED BY <2>2, <3>1
  <2> QED BY <2>1, <2>3, <2>4
<1> HIDE DEF more
<1>3. \A k \in 1..m : bs[k].op = "add" /\ bs[k].client = c
  OBVIOUS
<1>4. \A t \in Topic, d \in Client :
        d \in Replay(subs, as)[t] <=> IsLast(subs, as, n, t, d)
  BY ReplayLast
<1>5. \A t \in Topic, d \in Client :
        d \in Replay(subs, more)[t] <=> IsLast(subs, more, n + m, t, d)
  BY <1>2, ReplayLast
<1>6. Replay(subs, more) \in Subscriptions /\ Replay(subs, as) \in Subscriptions
  BY <1>2, ReplayLast
<1> HIDE DEF n, m
<1>7. 0 \in T
  <2>1. 0 \in 0..m /\ n + 0 = n /\ 1..0 = {}
    BY <1>1
  <2>2. \A t, d : IsLast(subs, more, n, t, d) <=> IsLast(subs, as, n, t, d)
    BY <1>1, <1>2, LastOfPrefix
  <2> QED BY <2>1, <2>2
<1>8. ASSUME NEW k \in 1..m, k - 1 \in T PROVE k \in T
  <2>1. /\ k \in 0..m /\ n + k \in Nat /\ n + k # 0 /\ (n + k) - 1 = n + (k - 1)
        /\ \A i \in 1..k : i = k \/ i \in 1..(k - 1)
        /\ \A i \in 1..(k - 1) : i \in 1..k
        /\ k \in 1..k
    BY <1>1
  <2>2. ASSUME NEW t \in Topic, NEW d \in Client
        PROVE  IsLast(subs, more, n + k, t, d) <=>
                 IsLast(subs, as, n, t, d) \/ Added(k, t, d)
    <3>1. IsLast(subs, more, n + k, t, d) <=>
            \/ Subscribes(more[n + k], t, d)
            \/ IsLast(subs, more, (n + k) - 1, t, d) /\ ~Removes(more[n + k], d)
      BY <2>1, LastStep, Zenon
    <3>2. ~Removes(bs[k], d) /\ (Subscribes(bs[k], t, d) <=>
                                   d = c /\ t \notin BadTopics /\ bs[k].topic = t)
      BY <1>3 DEF Removes, Subscribes
    <3>3. IsLast(subs, more, n + (k - 1), t, d) <=>
            IsLast(subs, as, n, t, d) \/ Added(k - 1, t, d)
      BY <1>8
    <3>4. Added(k, t, d) <=>
            Added(k - 1, t, d) \/ (d = c /\ t \notin BadTopics /\ bs[k].topic = t)
      BY <2>1
    <3>5. more[n + k] = bs[k]
      BY <1>2
    <3> HIDE DEF Added
    <3> QED BY <2>1, <3>1, <3>2, <3>3, <3>4, <3>5
  <2> QED BY <2>1, <2>2
<1>9. \A k \in 0..m : k \in T
  <2> HIDE DEF T
  <2>1. \A k \in 1..m : k - 1 \in T => k \in T
    BY <1>8
  <2> QED BY <1>1, <1>7, <2>1, UpTo
<1>10. m \in 0..m
  BY <1>1
<1>11. \A t \in Topic, d \in Client :
         d \in Replay(subs, more)[t] <=> d \in Replay(subs, as)[t] \/ Added(m, t, d)
  BY <1>4, <1>5, <1>9, <1>10
<1>12. Replay(subs, more) =
         [t \in Topic |-> IF t \notin BadTopics /\ \E i \in 1..m : bs[i].topic = t
                          THEN Replay(subs, as)[t] \cup {c} ELSE Replay(subs, as)[t]]
  <2>1. ASSUME NEW t \in Topic
        PROVE  Replay(subs, more)[t] =
                 IF t \notin BadTopics /\ \E i \in 1..m : bs[i].topic = t
                   THEN Replay(subs, as)[t] \cup {c} ELSE Replay(subs, as)[t]
    <3>1. Replay(subs, more)[t] \subseteq Client /\ Replay(subs, as)[t] \subseteq Client
      BY <1>6 DEF Subscriptions
    <3>2. CASE t \notin BadTopics /\ \E i \in 1..m : bs[i].topic = t
      <4>1. \A d \in Client :
              d \in Replay(subs, more)[t] <=> d \in Replay(subs, as)[t] \/ d = c
        BY <1>11, <3>2
      <4> QED BY <3>1, <3>2, <4>1
    <3>3. CASE ~(t \notin BadTopics /\ \E i \in 1..m : bs[i].topic = t)
      <4>1. \A d \in Client : d \in Replay(subs, more)[t] <=> d \in Replay(subs, as)[t]
        BY <1>11, <3>3
      <4> QED BY <3>1, <3>3, <4>1
    <3> QED BY <3>2, <3>3
  <2> QED BY <1>6, <2>1 DEF Subscriptions
<1> QED BY <1>2, <1>12 DEF more, m, Joined
-----------------------------------------------------------------------------
(* The operations handled: those before the first unknown one.               *)
LEMMA LegalTyped ==
  ASSUME NEW ops \in Seq(Operation)
  PROVE  Legal(ops) \in Seq(Operation)
<1> DEFINE unknown == {i \in 1..Len(ops) : ops[i].op = "unknown"}
           first == CHOOSE i \in unknown : \A j \in unknown : i <= j
<1>1. CASE unknown = {}
  BY <1>1 DEF Legal
<1>2. CASE unknown # {}
  <2>1. unknown \in SUBSET Nat
    OBVIOUS
  <2>2. \E i \in unknown : \A j \in unknown : i <= j
    <3> HIDE DEF unknown
    <3> QED BY <1>2, <2>1, LeastNumber
  <2>3. first \in unknown
    <3> HIDE DEF unknown
    <3> QED BY <2>2
  <2>4. first - 1 \in Nat /\ first - 1 <= Len(ops)
    <3>1. first \in 1..Len(ops) /\ Len(ops) \in Nat
      BY <2>3, LenProperties
    <3> HIDE DEF first
    <3> QED BY <3>1
  <2>5. Legal(ops) = SubSeq(ops, 1, first - 1)
    BY <1>2, Zenon DEF Legal
  <2> HIDE DEF first
  <2>6. SubSeq(ops, 1, first - 1) \in Seq(Operation)
    <3>1. \A i \in 1..(first - 1) : ops[i] \in Operation
      <4>1. \A i \in 1..(first - 1) : i \in 1..Len(ops)
        BY <2>4, LenProperties
      <4> QED BY <4>1, ElementOfSeq
    <3> QED BY <2>4, <3>1, SubSeqProperties
  <2> QED BY <2>5, <2>6
<1> QED BY <1>1, <1>2

LEMMA AllLegal ==
  ASSUME NEW ops, \A i \in 1..Len(ops) : ops[i].op # "unknown"
  PROVE  Legal(ops) = ops
  BY DEF Legal

LEMMA SubscribedFinite ==
  ASSUME NEW subs
  PROVE  Cardinality(Subscribed(subs)) \in Nat
<1>1. Subscribed(subs) \subseteq Topic
  BY DEF Subscribed
<1>2. IsFiniteSet(Subscribed(subs))
  BY <1>1, FS_Subset, BridgeAssumption
<1> QED BY <1>2, FS_CardinalityType

(* What a handler gives the node to do keeps its type.                       *)
LEMMA RemoveTyped ==
  ASSUME TypeOK, NEW c \in Client, remove(c)
  PROVE  /\ actions' \in Seq(Actions)
         /\ publishers' \in [Topic -> SUBSET Client] /\ wanted' \in [Topic -> SUBSET Client]
<1>1. actions' \in Seq(Actions)
  <2>1. [op |-> "remove", client |-> c] \in Actions
    BY DEF Actions
  <2> QED BY <2>1, AppendProperties DEF remove, TypeOK
<1>2. publishers' \in [Topic -> SUBSET Client] /\ wanted' \in [Topic -> SUBSET Client]
  BY DEF remove, TypeOK
<1> QED BY <1>1, <1>2

LEMMA OperationsTyped ==
  ASSUME TypeOK, NEW c \in Client, NEW ops \in Seq(Operation), HandleOperations(c, ops)
  PROVE  /\ actions' \in Seq(Actions)
         /\ publishers' \in [Topic -> SUBSET Client] /\ wanted' \in [Topic -> SUBSET Client]
<1>1. actions' \in Seq(Actions)
  <2>1. Adds(c, ops) \in Seq(Actions)
    BY AddsEffect DEF AddsUpTo
  <2>2. actions \in Seq(Actions) /\ actions' = actions \o Adds(c, ops)
    BY DEF HandleOperations, TypeOK
  <2> QED BY <2>1, <2>2, ConcatProperties
<1>2. publishers' \in [Topic -> SUBSET Client] /\ wanted' \in [Topic -> SUBSET Client]
  BY DEF HandleOperations, TypeOK
<1> QED BY <1>1, <1>2
(* Closing aborts what is in flight.                                         *)
LEMMA AbortTyped ==
  ASSUME TypeOK, NEW c \in Client
  PROVE  /\ Abort(read, "armed", c) \in
              [Client -> {"none", "armed", "data", "eof", "error", "aborted"}]
         /\ Abort(write, "active", c) \in
              [Client -> {"idle", "active", "ok", "error", "aborted", "stuck"}]
  BY DEF TypeOK, Abort

LEMMA InitTyped == Init => TypeOK
  BY DEF Init, TypeOK

LEMMA ReadTyped == ASSUME TypeOK, NEW c \in Client, handle_read(c) PROVE TypeOK'
<1> USE DEF TypeOK
<1>1. UNCHANGED <<bridge, pending, nodeVars, countVars>>
  BY DEF handle_read
<1>2. CASE ReadData(c)
  <2>1. Legal(buffer[c]) \in Seq(Operation)
    BY LegalTyped
  <2>2. /\ actions' \in Seq(Actions)
        /\ publishers' \in [Topic -> SUBSET Client] /\ wanted' \in [Topic -> SUBSET Client]
    BY <1>2, <2>1, OperationsTyped DEF ReadData
  <2>3. buffer' \in [Client -> Seq(Operation)]
    BY <1>2 DEF ReadData
  <2>4. clients' \subseteq Client /\ socket' \in [Client -> {"none", "open", "closed"}]
    BY <1>2 DEF ReadData, Close
  <2>5. /\ read' \in [Client -> {"none", "armed", "data", "eof", "error", "aborted"}]
        /\ write' \in [Client -> {"idle", "active", "ok", "error", "aborted", "stuck"}]
    BY <1>2, AbortTyped DEF ReadData
  <2> QED BY <1>1, <2>2, <2>3, <2>4, <2>5 DEF nodeVars, countVars
<1>3. CASE ReadFailed(c)
  <2>1. /\ actions' \in Seq(Actions)
        /\ publishers' \in [Topic -> SUBSET Client] /\ wanted' \in [Topic -> SUBSET Client]
    BY <1>3, RemoveTyped DEF ReadFailed
  <2>2. clients' \subseteq Client /\ socket' \in [Client -> {"none", "open", "closed"}]
    BY <1>3 DEF ReadFailed, Close
  <2>3. /\ read' \in [Client -> {"none", "armed", "data", "eof", "error", "aborted"}]
        /\ write' \in [Client -> {"idle", "active", "ok", "error", "aborted", "stuck"}]
        /\ UNCHANGED buffer
    BY <1>3, AbortTyped DEF ReadFailed
  <2> QED BY <1>1, <2>1, <2>2, <2>3 DEF nodeVars, countVars
<1>4. CASE ReadAborted(c)
  BY <1>1, <1>4 DEF ReadAborted, nodeVars, countVars
<1> QED BY <1>2, <1>3, <1>4 DEF handle_read

LEMMA WriteTyped == ASSUME TypeOK, NEW c \in Client, handle_write(c) PROVE TypeOK'
<1> USE DEF TypeOK
<1>1. UNCHANGED <<bridge, buffer, nodeVars, countVars>>
  BY DEF handle_write
<1>2. CASE WriteDone(c) \/ WriteAborted(c)
  BY <1>1, <1>2 DEF WriteDone, WriteAborted, nodeVars, countVars
<1>3. CASE WriteFailed(c)
  <2>1. /\ actions' \in Seq(Actions)
        /\ publishers' \in [Topic -> SUBSET Client] /\ wanted' \in [Topic -> SUBSET Client]
    BY <1>3, RemoveTyped DEF WriteFailed
  <2>2. clients' \subseteq Client /\ socket' \in [Client -> {"none", "open", "closed"}]
    BY <1>3 DEF WriteFailed, Close
  <2>3. /\ read' \in [Client -> {"none", "armed", "data", "eof", "error", "aborted"}]
        /\ write' \in [Client -> {"idle", "active", "ok", "error", "aborted", "stuck"}]
        /\ UNCHANGED pending
    BY <1>3, AbortTyped DEF WriteFailed
  <2> QED BY <1>1, <2>1, <2>2, <2>3 DEF nodeVars, countVars
<1> QED BY <1>2, <1>3 DEF handle_write

LEMMA NodeThreadTyped == ASSUME TypeOK, NodeThread PROVE TypeOK'
<1> USE DEF TypeOK, connVars, countVars
<1>1. CASE RunActions
  <2>1. subscribers' \in [Topic -> SUBSET Client]
    BY <1>1, ReplayLast DEF RunActions, Subscriptions
  <2>2. Cardinality(Subscribed(subscribers')) \in Nat
    BY SubscribedFinite
  <2>3. /\ sub_count' \in Nat /\ thread' \in {"loop", "waiting", "handling", "ended"}
    BY <1>1, <2>2 DEF RunActions
  <2>4. actions' \in Seq(Actions) /\ inbox' \subseteq Topic
    BY <1>1 DEF RunActions
  <2> QED BY <1>1, <2>1, <2>3, <2>4 DEF RunActions
<1>2. CASE WaitReturns
  BY <1>2 DEF WaitReturns
<1>3. ASSUME NEW t \in Topic, NEW c \in Client, handle_message(t, c) PROVE TypeOK'
  BY <1>3 DEF handle_message
<1> QED BY <1>1, <1>2, <1>3 DEF NodeThread

LEMMA NextTyped == TypeOK /\ [Next]_vars => TypeOK'
<1> SUFFICES ASSUME TypeOK, [Next]_vars PROVE TypeOK'
  OBVIOUS
<1> USE DEF connVars, nodeVars, countVars
<1>1. ASSUME NEW c \in Client, end_accept(c) PROVE TypeOK'
  BY <1>1 DEF end_accept, TypeOK
<1>2. CASE AcceptOfGonePeer \/ RunReturns
  BY <1>2 DEF AcceptOfGonePeer, RunReturns, TypeOK
<1>3. CASE Signal
  BY <1>3 DEF Signal, TypeOK
<1>4. ASSUME NEW c \in Client, ReadCompletes(c) PROVE TypeOK'
  <2>1. buffer' \in [Client -> Seq(Operation)]
    BY <1>4, BridgeAssumption DEF ReadCompletes, TypeOK
  <2>2. /\ read' \in [Client -> {"none", "armed", "data", "eof", "error", "aborted"}]
        /\ reads' \in Nat
    <3>1. PICK outcome \in {"data", "eof", "error"} : read' = [read EXCEPT ![c] = outcome]
      BY <1>4 DEF ReadCompletes
    <3>2. reads' \in {reads, reads + 1}
      BY <1>4 DEF ReadCompletes
    <3> QED BY <3>1, <3>2 DEF TypeOK
  <2> QED BY <1>4, <2>1, <2>2 DEF ReadCompletes, TypeOK
<1>5. ASSUME NEW c \in Client, WriteCompletes(c) PROVE TypeOK'
  BY <1>5 DEF WriteCompletes, TypeOK
<1>6. ASSUME NEW t \in Topic, RosMessage(t) PROVE TypeOK'
  BY <1>6 DEF RosMessage, TypeOK
<1>7. CASE UNCHANGED vars
  BY <1>7 DEF vars, TypeOK
<1> QED
  BY <1>1, <1>2, <1>3, <1>4, <1>5, <1>6, <1>7, NodeThreadTyped, ReadTyped, WriteTyped
  DEF Next, IoThread

(* The state of the bridge keeps its type.                                   *)
THEOREM TypeCorrect == Spec => []TypeOK
  BY InitTyped, NextTyped, PTL DEF Spec
-----------------------------------------------------------------------------
(* The queue changes by what one handler gives the node to do, or is taken   *)
(* whole by the node's thread.                                               *)
LEMMA QueueChange ==
  ASSUME TypeOK, [Next]_vars
  PROVE  \/ UNCHANGED <<subscribers, actions, wanted>>
         \/ RunActions
         \/ \E c \in Client : remove(c) /\ UNCHANGED subscribers
         \/ \E c \in Client : HandleOperations(c, Legal(buffer[c])) /\ UNCHANGED subscribers
<1> USE DEF nodeVars
<1>1. ASSUME NEW c \in Client, handle_read(c)
      PROVE  \/ UNCHANGED <<subscribers, actions, wanted>>
             \/ remove(c) /\ UNCHANGED subscribers
             \/ HandleOperations(c, Legal(buffer[c])) /\ UNCHANGED subscribers
  BY <1>1 DEF handle_read, ReadData, ReadFailed, ReadAborted
<1>2. ASSUME NEW c \in Client, handle_write(c)
      PROVE  \/ UNCHANGED <<subscribers, actions, wanted>>
             \/ remove(c) /\ UNCHANGED subscribers
  BY <1>2 DEF handle_write, WriteDone, WriteFailed, WriteAborted
<1>3. ASSUME NEW c \in Client, end_accept(c) \/ ReadCompletes(c) \/ WriteCompletes(c)
      PROVE  UNCHANGED <<subscribers, actions, wanted>>
  BY <1>3 DEF end_accept, ReadCompletes, WriteCompletes
<1>4. CASE AcceptOfGonePeer \/ Signal \/ RunReturns
  BY <1>4 DEF AcceptOfGonePeer, Signal, RunReturns
<1>5. ASSUME NEW t \in Topic, RosMessage(t)
      PROVE  UNCHANGED <<subscribers, actions, wanted>>
  BY <1>5 DEF RosMessage
<1>6. CASE WaitReturns \/ \E t \in Topic, c \in Client : handle_message(t, c)
  BY <1>6 DEF WaitReturns, handle_message
<1>7. CASE UNCHANGED vars
  BY <1>7 DEF vars
<1> QED BY <1>1, <1>2, <1>3, <1>4, <1>5, <1>6, <1>7 DEF Next, NodeThread, IoThread

LEMMA CatchUpStep == TypeOK /\ SubscribersCatchUp /\ [Next]_vars => SubscribersCatchUp'
<1> SUFFICES ASSUME TypeOK, SubscribersCatchUp, [Next]_vars PROVE SubscribersCatchUp'
  OBVIOUS
<1>1. /\ subscribers \in Subscriptions /\ actions \in Seq(Actions)
      /\ Replay(subscribers, actions) = wanted
      /\ buffer \in [Client -> Seq(Operation)]
  BY DEF TypeOK, Subscriptions, SubscribersCatchUp
<1>2. CASE UNCHANGED <<subscribers, actions, wanted>>
  BY <1>2 DEF SubscribersCatchUp
<1>3. CASE RunActions
  <2>1. subscribers' = wanted /\ actions' = <<>> /\ wanted' = wanted
    BY <1>1, <1>3 DEF RunActions
  <2>2. wanted \in Subscriptions
    BY DEF TypeOK, Subscriptions
  <2>3. Replay(wanted, <<>>) = wanted
    BY <2>2, ReplayNothing
  <2> QED BY <2>1, <2>3 DEF SubscribersCatchUp
<1>4. ASSUME NEW c \in Client, remove(c), UNCHANGED subscribers PROVE SubscribersCatchUp'
  <2>1. /\ actions' = Append(actions, [op |-> "remove", client |-> c])
        /\ wanted' = [t \in Topic |-> wanted[t] \ {c}]
    BY <1>4 DEF remove
  <2>2. Replay(subscribers, Append(actions, [op |-> "remove", client |-> c]))
          = [t \in Topic |-> Replay(subscribers, actions)[t] \ {c}]
    BY <1>1, ReplayRemoval, Zenon
  <2>3. Replay(subscribers, actions') = wanted'
    BY <1>1, <2>1, <2>2, Zenon
  <2> QED BY <1>4, <2>3 DEF SubscribersCatchUp
<1>5. ASSUME NEW c \in Client, HandleOperations(c, Legal(buffer[c])), UNCHANGED subscribers
      PROVE  SubscribersCatchUp'
  <2> DEFINE ops == Legal(buffer[c])
             bs == Adds(c, ops)
  <2>1. ops \in Seq(Operation)
    BY <1>1, LegalTyped
  <2>2. /\ actions' = actions \o bs
        /\ wanted' = [t \in Topic |->
                        IF t \notin BadTopics
                           /\ \E i \in 1..Len(ops) : ops[i].topic = t /\ Asks(ops[i])
                        THEN wanted[t] \cup {c} ELSE wanted[t]]
    BY <1>5 DEF HandleOperations
  <2> HIDE DEF ops
  <2>3. AddsUpTo(c, ops, Len(ops), bs)
    BY <2>1, AddsEffect
  <2> HIDE DEF bs
  <2>4. /\ bs \in Seq(Actions)
        /\ \A i \in 1..Len(bs) : bs[i].op = "add" /\ bs[i].client = c
        /\ \A t \in Topic : (\E i \in 1..Len(bs) : bs[i].topic = t)
                            <=> \E i \in 1..Len(ops) : ops[i].topic = t /\ Asks(ops[i])
    BY <2>3, Zenon DEF AddsUpTo
  <2>5. Replay(subscribers, actions \o bs) = Joined(wanted, bs, c)
    BY <1>1, <2>4, ReplayAdds, Zenon
  <2>6. Replay(subscribers, actions \o bs) = wanted'
    <3>1. \A t \in Topic :
            (IF t \notin BadTopics /\ \E i \in 1..Len(bs) : bs[i].topic = t
               THEN wanted[t] \cup {c} ELSE wanted[t])
          = (IF t \notin BadTopics /\ \E i \in 1..Len(ops) : ops[i].topic = t /\ Asks(ops[i])
               THEN wanted[t] \cup {c} ELSE wanted[t])
      BY <2>4, Zenon
    <3>2. Replay(subscribers, actions \o bs) =
            [t \in Topic |-> IF t \notin BadTopics /\ \E i \in 1..Len(bs) : bs[i].topic = t
                             THEN wanted[t] \cup {c} ELSE wanted[t]]
      BY <2>5, Zenon DEF Joined
    <3> QED BY <2>2, <3>1, <3>2, Zenon
  <2> QED BY <1>5, <2>2, <2>6 DEF SubscribersCatchUp
<1> QED BY <1>2, <1>3, <1>4, <1>5, QueueChange

(* execute replays the queue that add_subscriber and remove fill, one action *)
(* after the other: the subscriptions it arrives at are those the clients    *)
(* asked for, in the order they asked and left.                              *)
THEOREM CatchUp == Spec => []SubscribersCatchUp
<1>1. Init => SubscribersCatchUp
  <2> SUFFICES ASSUME Init PROVE SubscribersCatchUp
    OBVIOUS
  <2>1. /\ subscribers = wanted /\ actions = <<>>
        /\ subscribers = [t \in Topic |-> {}]
    BY DEF Init
  <2>2. [t \in Topic |-> {}] \in Subscriptions
    BY DEF Subscriptions
  <2>3. Replay(subscribers, <<>>) = subscribers
    BY <2>1, <2>2, ReplayNothing
  <2> QED BY <2>1, <2>3 DEF SubscribersCatchUp
<1>2. Init => TypeOK /\ SubscribersCatchUp
  BY <1>1, InitTyped
<1>3. TypeOK /\ SubscribersCatchUp /\ [Next]_vars => (TypeOK /\ SubscribersCatchUp)'
  BY NextTyped, CatchUpStep
<1> QED BY <1>2, <1>3, PTL DEF Spec
-----------------------------------------------------------------------------
(* What is taken is forwarded while the subscriptions stay as they were.     *)
LEMMA HandlingStep == TypeOK /\ HandlingIsStable /\ [Next]_vars => HandlingIsStable'
<1> SUFFICES ASSUME TypeOK, HandlingIsStable, [Next]_vars PROVE HandlingIsStable'
  OBVIOUS
<1> USE DEF HandlingIsStable
<1>1. CASE RunActions
  <2>1. \/ thread' = "loop"
        \/ thread' \in {"waiting", "ended"} /\ sub_count' = Cardinality(Subscribed(subscribers'))
    BY <1>1 DEF RunActions
  <2> QED BY <2>1
<1>2. CASE WaitReturns
  <2>1. /\ \A x \in targets' : x[2] \in subscribers[x[1]]
        /\ thread = "waiting" /\ UNCHANGED <<subscribers, sub_count>>
    BY <1>2 DEF WaitReturns
  <2> QED BY <2>1
<1>3. ASSUME NEW t \in Topic, NEW c \in Client, handle_message(t, c) PROVE HandlingIsStable'
  <2>1. /\ targets' \subseteq targets /\ thread = "handling"
        /\ UNCHANGED <<subscribers, sub_count>>
    BY <1>3 DEF handle_message
  <2> QED BY <2>1
<1>4. CASE UNCHANGED <<subscribers, sub_count, targets, thread>>
  BY <1>4
<1> QED
  BY <1>1, <1>2, <1>3, <1>4
  DEF Next, NodeThread, IoThread, end_accept, handle_read, handle_write, AcceptOfGonePeer,
      Signal, RunReturns, ReadCompletes, WriteCompletes, RosMessage, nodeVars, vars

(* execute holds no action back and none in between: the wait set measures   *)
(* the subscriptions it waits for, and handle_message passes messages only   *)
(* to their clients.                                                         *)
THEOREM HandlingStable == Spec => []HandlingIsStable
<1>1. Init => TypeOK /\ HandlingIsStable
  BY InitTyped DEF Init, HandlingIsStable
<1>2. TypeOK /\ HandlingIsStable /\ [Next]_vars => (TypeOK /\ HandlingIsStable)'
  BY NextTyped, HandlingStep
<1> QED BY <1>1, <1>2, PTL DEF Spec

-----------------------------------------------------------------------------
(* How a step, while the bridge runs, changes a connection.                  *)
LEMMA ConnectionChange ==
  ASSUME TypeOK, [Next]_vars, bridge' = "running"
  PROVE  /\ bridge = "running"
         /\ \/ UNCHANGED <<clients, socket, read, buffer, publishers, wanted>>
            \/ \E c \in Client : \/ end_accept(c) \/ handle_read(c) \/ WriteFailed(c)
                               \/ ReadCompletes(c)
<1> USE DEF connVars, nodeVars, countVars
<1>1. CASE AcceptOfGonePeer \/ Signal \/ RunReturns
  BY <1>1 DEF AcceptOfGonePeer, Signal, RunReturns
<1>2. ASSUME NEW c \in Client, end_accept(c) \/ handle_read(c) \/ ReadCompletes(c)
      PROVE  UNCHANGED bridge
  BY <1>2 DEF end_accept, handle_read, ReadCompletes
<1>3. ASSUME NEW c \in Client, handle_write(c)
      PROVE  /\ UNCHANGED bridge
             /\ \/ WriteFailed(c)
                \/ UNCHANGED <<clients, socket, read, buffer, publishers, wanted>>
  BY <1>3 DEF handle_write, WriteDone, WriteAborted
<1>4. CASE \/ NodeThread \/ UNCHANGED vars
           \/ \E c \in Client : WriteCompletes(c)
           \/ \E t \in Topic : RosMessage(t)
  BY <1>4 DEF NodeThread, RunActions, WaitReturns, handle_message, WriteCompletes,
     RosMessage, vars
<1> QED BY <1>1, <1>2, <1>3, <1>4 DEF Next, IoThread

LEMMA LiveStep == TypeOK /\ LiveIsRead /\ [Next]_vars => LiveIsRead'
<1> SUFFICES ASSUME TypeOK, LiveIsRead, [Next]_vars, bridge' = "running", NEW d \in Client
             PROVE  /\ d \in clients' <=> socket'[d] = "open"
                    /\ d \in clients' => read'[d] \in {"armed", "data", "eof", "error"}
  BY DEF LiveIsRead
<1>1. /\ bridge = "running"
      /\ d \in clients <=> socket[d] = "open"
      /\ d \in clients => read[d] \in {"armed", "data", "eof", "error"}
  BY ConnectionChange DEF LiveIsRead
<1> USE DEF TypeOK
<1>2. CASE UNCHANGED <<clients, socket, read, buffer, publishers, wanted>>
  BY <1>1, <1>2
<1>3. ASSUME NEW c \in Client, end_accept(c)
      PROVE  /\ d \in clients' <=> socket'[d] = "open"
             /\ d \in clients' => read'[d] \in {"armed", "data", "eof", "error"}
  BY <1>1, <1>3 DEF end_accept
<1>4. ASSUME NEW c \in Client, handle_read(c)
      PROVE  /\ d \in clients' <=> socket'[d] = "open"
             /\ d \in clients' => read'[d] \in {"armed", "data", "eof", "error"}
  <2>1. CASE UNCHANGED <<clients, socket>> /\
             (c \in clients => read'[c] \in {"armed", "error"}) /\
             (d # c => read'[d] = read[d])
    BY <1>1, <2>1
  <2>2. CASE Close(c) /\ (d # c => read'[d] = read[d])
    BY <1>1, <2>2 DEF Close
  <2>3. d # c => read'[d] = read[d]
    BY <1>4 DEF handle_read, ReadData, ReadFailed, ReadAborted
  <2>4. CASE ReadData(c)
    <3>1. \/ Close(c)
          \/ /\ read' = [read EXCEPT ![c] = IF socket[c] = "open" THEN "armed" ELSE "error"]
             /\ UNCHANGED <<clients, socket>>
      BY <2>4 DEF ReadData
    <3> QED BY <3>1, <2>1, <2>2, <2>3
  <2>5. CASE ReadFailed(c)
    BY <2>5, <2>2, <2>3 DEF ReadFailed
  <2>6. CASE ReadAborted(c)
    <3>1. c \notin clients
      BY <2>6, <1>1 DEF ReadAborted, LiveIsRead
    <3> QED BY <3>1, <2>6, <2>1, <2>3 DEF ReadAborted
  <2> QED BY <1>4, <2>4, <2>5, <2>6 DEF handle_read
<1>5. ASSUME NEW c \in Client, WriteFailed(c)
      PROVE  /\ d \in clients' <=> socket'[d] = "open"
             /\ d \in clients' => read'[d] \in {"armed", "data", "eof", "error"}
  BY <1>1, <1>5 DEF WriteFailed, Close, Abort
<1>6. ASSUME NEW c \in Client, ReadCompletes(c)
      PROVE  /\ d \in clients' <=> socket'[d] = "open"
             /\ d \in clients' => read'[d] \in {"armed", "data", "eof", "error"}
  <2>1. PICK outcome \in {"data", "eof", "error"} : read' = [read EXCEPT ![c] = outcome]
    BY <1>6 DEF ReadCompletes
  <2> QED BY <1>1, <1>6, <2>1 DEF ReadCompletes
<1> QED BY <1>2, <1>3, <1>4, <1>5, <1>6, ConnectionChange

(* A connection the server counts (Clients::start, Clients::stop) has a read *)
(* to come, whatever handlers ran before.                                    *)
THEOREM LiveRead == Spec => []LiveIsRead
<1>1. Init => TypeOK /\ LiveIsRead
  BY InitTyped DEF Init, LiveIsRead
<1>2. TypeOK /\ LiveIsRead /\ [Next]_vars => (TypeOK /\ LiveIsRead)'
  BY NextTyped, LiveStep
<1> QED BY <1>1, <1>2, PTL DEF Spec
-----------------------------------------------------------------------------
(* Clients that send no operation the bridge does not know: an unknown one   *)
(* stops its client without removing it, and this is where the property      *)
(* ends.                                                                     *)
OnlyKnown == \A ops \in Batches : \A i \in 1..Len(ops) : ops[i].op # "unknown"

BuffersKnown == \A c \in Client : \A i \in 1..Len(buffer[c]) : buffer[c][i].op # "unknown"

(* A closed connection with no read to be handled was removed last: a read   *)
(* that was handled after the removal ended in an error, and the next        *)
(* handler removes again.                                                    *)
Forgotten(c) == \A t \in Topic : c \notin wanted[t] /\ c \notin publishers[t]

ClosedForgotten ==
  bridge = "running" =>
    \A c \in Client : socket[c] = "closed" =>
      read[c] # "armed" /\ (read[c] \in {"none", "aborted"} => Forgotten(c))

LEMMA BufferStep ==
  ASSUME OnlyKnown
  PROVE  TypeOK /\ BuffersKnown /\ [Next]_vars => BuffersKnown'
<1> SUFFICES ASSUME TypeOK, BuffersKnown, [Next]_vars PROVE BuffersKnown'
  OBVIOUS
<1>1. ASSUME NEW c \in Client, handle_read(c) PROVE BuffersKnown'
  <2>1. UNCHANGED buffer \/ buffer' = [buffer EXCEPT ![c] = <<>>]
    BY <1>1 DEF handle_read, ReadData, ReadFailed, ReadAborted
  <2> QED BY <2>1 DEF TypeOK, BuffersKnown
<1>2. ASSUME NEW c \in Client, ReadCompletes(c) PROVE BuffersKnown'
  <2>1. UNCHANGED buffer \/ \E ops \in Batches : buffer' = [buffer EXCEPT ![c] = ops]
    BY <1>2 DEF ReadCompletes
  <2>2. ASSUME NEW ops \in Batches, buffer' = [buffer EXCEPT ![c] = ops] PROVE BuffersKnown'
    BY <2>2 DEF TypeOK, BuffersKnown, OnlyKnown
  <2> QED BY <2>1, <2>2 DEF BuffersKnown
<1>3. CASE UNCHANGED buffer
  BY <1>3 DEF BuffersKnown
<1> QED
  BY <1>1, <1>2, <1>3
  DEF Next, NodeThread, IoThread, RunActions, WaitReturns, handle_message, end_accept,
      handle_write, AcceptOfGonePeer, Signal, RunReturns, WriteCompletes, RosMessage,
      connVars, vars

(* Every handler that closes a connection also removes its client.           *)
LEMMA RemoveForgets ==
  ASSUME TypeOK, NEW c \in Client, remove(c), NEW d \in Client
  PROVE  Forgotten(c)' /\ (Forgotten(d) => Forgotten(d)')
  BY DEF TypeOK, remove, Forgotten

LEMMA OperationsOfOne ==
  ASSUME TypeOK, NEW c \in Client, NEW ops, HandleOperations(c, ops), NEW d \in Client, d # c
  PROVE  Forgotten(d) => Forgotten(d)'
  BY DEF TypeOK, HandleOperations, Forgotten

LEMMA ForgottenStep ==
  TypeOK /\ BuffersKnown /\ ClosedForgotten /\ [Next]_vars => ClosedForgotten'
<1> SUFFICES ASSUME TypeOK, BuffersKnown, ClosedForgotten, [Next]_vars, bridge' = "running",
                    NEW d \in Client, socket'[d] = "closed"
             PROVE  read'[d] # "armed" /\ (read'[d] \in {"none", "aborted"} => Forgotten(d)')
  BY DEF ClosedForgotten, Forgotten
<1>1. socket[d] = "closed" =>
        read[d] # "armed" /\ (read[d] \in {"none", "aborted"} => Forgotten(d))
  BY ConnectionChange DEF ClosedForgotten
<1>2. CASE UNCHANGED <<clients, socket, read, buffer, publishers, wanted>>
  BY <1>1, <1>2 DEF Forgotten
<1>3. ASSUME NEW c \in Client, end_accept(c)
      PROVE  read'[d] # "armed" /\ (read'[d] \in {"none", "aborted"} => Forgotten(d)')
  <2>1. d # c /\ socket[d] = "closed" /\ read'[d] = read[d]
    BY <1>3 DEF end_accept, TypeOK
  <2> QED BY <1>1, <1>3, <2>1 DEF end_accept, Forgotten
<1>4. ASSUME NEW c \in Client, ReadData(c)
      PROVE  read'[d] # "armed" /\ (read'[d] \in {"none", "aborted"} => Forgotten(d)')
  <2>1. Legal(buffer[c]) = buffer[c]
    BY AllLegal DEF BuffersKnown
  <2>2. /\ HandleOperations(c, buffer[c]) /\ UNCHANGED socket
        /\ read' = [read EXCEPT ![c] = IF socket[c] = "open" THEN "armed" ELSE "error"]
    BY <1>4, <2>1 DEF ReadData
  <2>3. CASE d = c
    BY <2>2, <2>3 DEF TypeOK
  <2>4. CASE d # c
    <3>1. read'[d] = read[d] /\ (Forgotten(d) => Forgotten(d)')
      BY <2>2, <2>4, OperationsOfOne DEF TypeOK
    <3> QED BY <1>1, <2>2, <3>1
  <2> QED BY <2>3, <2>4
<1>5. ASSUME NEW c \in Client, ReadFailed(c)
      PROVE  read'[d] # "armed" /\ (read'[d] \in {"none", "aborted"} => Forgotten(d)')
  <2>1. Forgotten(c)' /\ (Forgotten(d) => Forgotten(d)')
    BY <1>5, RemoveForgets DEF ReadFailed
  <2>2. /\ d = c => read'[d] = "none"
        /\ d # c => read'[d] = read[d] /\ socket[d] = "closed"
    BY <1>5 DEF ReadFailed, Close, TypeOK
  <2> QED BY <1>1, <2>1, <2>2
<1>6. ASSUME NEW c \in Client, ReadAborted(c)
      PROVE  read'[d] # "armed" /\ (read'[d] \in {"none", "aborted"} => Forgotten(d)')
  <2>1. /\ socket[d] = "closed" /\ (Forgotten(d) => Forgotten(d)')
        /\ d = c => read[d] = "aborted" /\ read'[d] = "none"
        /\ d # c => read'[d] = read[d]
    BY <1>6 DEF ReadAborted, TypeOK, Forgotten
  <2> QED BY <1>1, <2>1
<1>7. ASSUME NEW c \in Client, WriteFailed(c)
      PROVE  read'[d] # "armed" /\ (read'[d] \in {"none", "aborted"} => Forgotten(d)')
  <2>1. Forgotten(c)' /\ (Forgotten(d) => Forgotten(d)')
    BY <1>7, RemoveForgets DEF WriteFailed
  <2>2. /\ d = c => read'[d] # "armed"
        /\ d # c => read'[d] = read[d] /\ socket[d] = "closed"
    BY <1>7 DEF WriteFailed, Close, Abort, TypeOK
  <2> QED BY <1>1, <2>1, <2>2
<1>8. ASSUME NEW c \in Client, ReadCompletes(c)
      PROVE  read'[d] # "armed" /\ (read'[d] \in {"none", "aborted"} => Forgotten(d)')
  <2>1. PICK outcome \in {"data", "eof", "error"} : read' = [read EXCEPT ![c] = outcome]
    BY <1>8 DEF ReadCompletes
  <2>2. socket[d] = "closed" /\ (Forgotten(d) => Forgotten(d)')
    BY <1>8 DEF ReadCompletes, Forgotten
  <2> QED BY <1>1, <2>1, <2>2 DEF TypeOK
<1> QED
  BY <1>2, <1>3, <1>4, <1>5, <1>6, <1>7, <1>8, ConnectionChange DEF handle_read

(* Whatever order its handlers fail in, a closed connection nothing is due   *)
(* for is in no subscription and no publisher: where the client forgot to    *)
(* ask for its removal, or the queue still adds it, something is due.        *)
THEOREM GoneForgotten == ASSUME OnlyKnown PROVE Spec => []GoneIsForgotten
<1>1. Init => BuffersKnown /\ ClosedForgotten
  BY DEF Init, BuffersKnown, ClosedForgotten
<1>2. TypeOK /\ SubscribersCatchUp /\ BuffersKnown /\ ClosedForgotten /\ [Next]_vars
        => BuffersKnown' /\ ClosedForgotten'
  BY BufferStep, ForgottenStep
<1>3. TypeOK /\ SubscribersCatchUp /\ ClosedForgotten => GoneIsForgotten
  <2> SUFFICES ASSUME TypeOK, SubscribersCatchUp, ClosedForgotten, bridge = "running",
                      NEW c \in Client, Quiet(c), NEW t \in Topic
               PROVE  c \notin subscribers[t] \cup publishers[t]
    BY DEF GoneIsForgotten
  <2>1. c \notin wanted[t] /\ c \notin publishers[t]
    BY DEF ClosedForgotten, Quiet, Forgotten
  <2>2. subscribers \in Subscriptions /\ actions \in Seq(Actions)
    BY DEF TypeOK, Subscriptions
  <2>3. ~IsLast(subscribers, actions, Len(actions), t, c)
    BY <2>1, <2>2, ReplayLast DEF SubscribersCatchUp
  <2>4. \A i \in 1..Len(actions) : ~Removes(actions[i], c)
    BY DEF Quiet, Removes
  <2>5. c \notin subscribers[t]
    BY <2>3, <2>4 DEF IsLast
  <2> QED BY <2>1, <2>5
<1> QED BY <1>1, <1>2, <1>3, TypeCorrect, CatchUp, PTL DEF Spec

=============================================================================
