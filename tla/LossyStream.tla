----------------------------- MODULE LossyStream -----------------------------
(* What a client of the bridge promises to its publisher: a stream of bytes *)
(* in which whole frames follow one another in the order of publication.  A  *)
(* frame is refused as a whole, and only when at least Limit bytes wait      *)
(* already; a stream that breaks carries nothing more.                       *)
EXTENDS Integers, Sequences

CONSTANTS Msg, Frame(_), Limit

VARIABLES queue, taken, broken, refused

streamVars == <<queue, taken, broken, refused>>

Init == queue = <<>> /\ taken = <<>> /\ broken = FALSE /\ refused = 0

Accept ==
  /\ \E m \in Msg : queue' = queue \o Frame(m)
  /\ UNCHANGED <<taken, broken, refused>>

Refuse ==
  /\ Len(queue) >= Limit
  /\ refused' = refused + 1
  /\ UNCHANGED <<queue, taken, broken>>

Carry ==
  /\ ~broken
  /\ \E n \in 1..Len(queue) :
       /\ taken' = taken \o SubSeq(queue, 1, n)
       /\ queue' = SubSeq(queue, n + 1, Len(queue))
  /\ UNCHANGED <<broken, refused>>

Break == ~broken /\ broken' = TRUE /\ UNCHANGED <<queue, taken, refused>>

Next == Accept \/ Refuse \/ Carry \/ Break

Spec == Init /\ [][Next]_streamVars

FairSpec == Spec /\ WF_streamVars(Carry)

=============================================================================
