------------------------- MODULE BridgeClientProofs -------------------------
(* Proofs about the double buffer of a bridge client, for all messages,      *)
(* frame lengths and limits.                                                 *)
EXTENDS BridgeClient, SequenceTheorems, TLAPS

(* A write whose handler has yet to see success has been sent in full.       *)
OkIsSent == io = "ok" => sent = Len(writing)

(* Only a close aborts a write.                                              *)
AbortedIsClosed == io = "aborted" => socket = "closed"

(* Bytes move only while the connection is open.                             *)
ActiveIsOpen == io = "active" => socket = "open"

IInv ==
  /\ TypeOK
  /\ PendingHasWriter
  /\ OkIsSent
  /\ AbortedIsClosed
  /\ ActiveIsOpen
  /\ StreamIntact
  /\ PendingBounded

-----------------------------------------------------------------------------
(* A frame is a non-empty sequence of bytes.                                 *)
LEMMA FrameType ==
  ASSUME NEW m \in Msg
  PROVE  Frame(m) \in Seq(Byte) /\ Len(Frame(m)) \in 1..MaxFrame /\ Frame(m) # <<>>
<1>1. FrameLength[m] \in 1..MaxFrame /\ FrameLength[m] \in Nat
  BY ClientAssumption
<1>2. \A i \in 1..FrameLength[m] : <<m, i>> \in Byte
  BY <1>1 DEF Byte
<1>3. Frame(m) \in [1..FrameLength[m] -> Byte]
  BY <1>2 DEF Frame
<1>4. Frame(m) \in Seq(Byte)
  BY <1>1, <1>3, SeqDef
<1>5. Len(Frame(m)) = FrameLength[m]
  BY <1>1, <1>3, <1>4, LenProperties DEF Frame
<1> QED BY <1>1, <1>4, <1>5, EmptySeq

(* What fill_data returns: the old bytes followed by a whole frame.          *)
LEMMA FillData ==
  ASSUME NEW m \in Msg, NEW data \in Seq(Byte)
  PROVE  /\ fill_data(data, m) \in Seq(Byte)
         /\ Len(fill_data(data, m)) = Len(data) + Len(Frame(m))
         /\ fill_data(data, m) # <<>>
<1>1. Frame(m) \in Seq(Byte) /\ Len(Frame(m)) >= 1
  BY FrameType, ClientAssumption
<1>2. /\ fill_data(data, m) \in Seq(Byte)
      /\ Len(fill_data(data, m)) = Len(data) + Len(Frame(m))
  BY <1>1, ConcatProperties DEF fill_data
<1>3. Len(data) \in Nat
  BY LenProperties
<1> QED BY <1>1, <1>2, <1>3, EmptySeq

(* Sequences of bytes are closed under concatenation.                        *)
LEMMA ByteConcat ==
  \A s, t, u \in Seq(Byte) : (s \o t) \o u = s \o (t \o u)
  BY ConcatAssociative

(* What the socket has not taken yet is a sequence of bytes.                 *)
LEMMA UnsentType == TypeOK => Unsent \in Seq(Byte)
  BY SubSeqProperties, LenProperties, ElementOfSeq DEF TypeOK, Unsent

(* A sequence cut in two places is its two parts, one after the other.       *)
LEMMA Cut ==
  ASSUME NEW s \in Seq(Byte), NEW from \in Nat, NEW n \in Nat,
         1 <= n, from + n <= Len(s)
  PROVE  /\ SubSeq(s, from + 1, from + n) \in Seq(Byte)
         /\ Len(SubSeq(s, from + 1, from + n)) = n
         /\ SubSeq(s, from + n + 1, Len(s)) \in Seq(Byte)
         /\ SubSeq(s, from + 1, from + n) \o SubSeq(s, from + n + 1, Len(s))
              = SubSeq(s, from + 1, Len(s))
<1>1. Len(s) \in Nat /\ \A i \in 1..Len(s) : s[i] \in Byte
  BY LenProperties, ElementOfSeq
<1>2. /\ SubSeq(s, from + 1, from + n) \in Seq(Byte)
      /\ Len(SubSeq(s, from + 1, from + n)) = n
  <2>1. \A i \in (from + 1)..(from + n) : s[i] \in Byte
    BY <1>1
  <2>2. /\ SubSeq(s, from + 1, from + n) \in Seq(Byte)
        /\ Len(SubSeq(s, from + 1, from + n))
              = IF from + 1 <= from + n THEN from + n - (from + 1) + 1 ELSE 0
    <3>1. from + 1 \in Int /\ from + n \in Int
      OBVIOUS
    <3> QED BY <2>1, <3>1, SubSeqProperties
  <2> QED BY <2>2
<1>3. SubSeq(s, from + n + 1, Len(s)) \in Seq(Byte)
  <2>1. \A i \in (from + n + 1)..Len(s) : s[i] \in Byte
    BY <1>1
  <2>2. from + n + 1 \in Int /\ Len(s) \in Int
    BY <1>1
  <2> QED BY <2>1, <2>2, SubSeqProperties
<1>4. SubSeq(s, from + 1, from + n) \o SubSeq(s, from + n + 1, Len(s))
        = SubSeq(s, from + 1, Len(s))
  <2>1. /\ from + 1 \in 1..(Len(s) + 1)
        /\ from + n \in (from + 1 - 1)..Len(s)
        /\ Len(s) \in (from + n)..Len(s)
    BY <1>1
  <2> QED BY <2>1, ConcatAdjacentSubSeq
<1> QED BY <1>2, <1>3, <1>4

(* Taking the first of two parts leaves the second.                          *)
LEMMA Peel ==
  ASSUME NEW s \in Seq(Byte), NEW t \in Seq(Byte), Len(s) # 0
  PROVE  /\ SubSeq(s \o t, 1, Len(s)) = s
         /\ SubSeq(s \o t, Len(s) + 1, Len(s \o t)) = t
         /\ Len(s) \in 1..Len(s \o t)
<1>1. Len(s) \in Nat /\ Len(t) \in Nat /\ Len(s \o t) = Len(s) + Len(t)
  BY LenProperties, ConcatProperties
<1>2. SubSeq(s \o t, 1, Len(s)) = s
  <2>1. 1 \in 1..Len(s) /\ Len(s) \in 1..Len(s)
    BY <1>1
  <2>2. SubSeq(s \o t, 1, Len(s)) = SubSeq(s, 1, Len(s))
    BY <2>1, SubSeqOfConcat1, Zenon
  <2> QED BY <2>2, SubSeqFull
<1>3. SubSeq(s \o t, Len(s) + 1, Len(s) + Len(t)) = t
  <2>1. CASE Len(t) = 0
    <3>1. t = <<>>
      BY <2>1, EmptySeq
    <3>2. Len(s) + 1 \in Int /\ Len(s) + Len(t) \in Int /\ Len(s) + Len(t) < Len(s) + 1
      BY <1>1, <2>1
    <3> QED BY <3>1, <3>2, SubSeqEmpty, Zenon
  <2>2. CASE Len(t) # 0
    <3>1. /\ Len(s) + 1 \in (Len(s) + 1)..(Len(s) + Len(t))
          /\ Len(s) + Len(t) \in (Len(s) + 1)..(Len(s) + Len(t))
      BY <1>1, <2>2
    <3>2. SubSeq(s \o t, Len(s) + 1, Len(s) + Len(t))
            = SubSeq(t, Len(s) + 1 - Len(s), Len(s) + Len(t) - Len(s))
      BY <3>1, SubSeqOfConcat2
    <3>3. Len(s) + 1 - Len(s) = 1 /\ Len(s) + Len(t) - Len(s) = Len(t)
      BY <1>1
    <3> QED BY <3>2, <3>3, SubSeqFull
  <2> QED BY <2>1, <2>2
<1> QED BY <1>1, <1>2, <1>3

-----------------------------------------------------------------------------
(* The initial state satisfies the inductive invariant.                      *)
LEMMA InitIInv == Init => IInv
<1> SUFFICES ASSUME Init PROVE IInv
  OBVIOUS
<1>1. <<>> \in Seq(Byte) /\ Len(<<>>) = 0
  BY EmptySeq
<1>2. Unsent = <<>>
  BY <1>1, SubSeqEmpty DEF Init, Unsent
<1>3. TypeOK /\ PendingHasWriter /\ OkIsSent /\ AbortedIsClosed /\ ActiveIsOpen
  BY <1>1 DEF Init, TypeOK, PendingHasWriter, OkIsSent, AbortedIsClosed, ActiveIsOpen
<1>4. StreamIntact
  BY <1>1, <1>2, ConcatEmptySeq DEF Init, StreamIntact
<1>5. PendingBounded
  BY <1>1, ClientAssumption DEF Init, PendingBounded
<1> QED BY <1>3, <1>4, <1>5 DEF IInv

(* publish keeps the invariant, in each of its three cases.                  *)
LEMMA PublishStep ==
  ASSUME IInv, NEW m \in Msg, publish(m)
  PROVE  IInv'
<1> USE DEF IInv
<1>1. CASE PublishWrites(m)
  <2>1. /\ pending = <<>> /\ io = "none" /\ writing = <<>>
        /\ writing' = fill_data(<<>>, m) /\ sent' = 0
    BY <1>1 DEF PublishWrites, PendingHasWriter, async_write
  <2>2. fill_data(<<>>, m) = Frame(m) /\ Frame(m) \in Seq(Byte)
    BY FrameType, ConcatEmptySeq DEF fill_data
  <2>3. Unsent = <<>> /\ accepted = wire
    <3>1. Unsent = <<>>
      BY <2>1, EmptySeq, SubSeqEmpty DEF Unsent, TypeOK
    <3> QED BY <2>1, <3>1, ConcatEmptySeq DEF StreamIntact, TypeOK
  <2>4. Unsent' = Frame(m)
    BY <2>1, <2>2, SubSeqFull DEF Unsent
  <2>5. StreamIntact'
    <3>1. accepted' = wire \o Frame(m) /\ wire' = wire /\ pending' = <<>>
      BY <1>1, <2>1, <2>3 DEF publish, PublishWrites, fill_data
    <3>2. wire \o Frame(m) \in Seq(Byte)
      BY <2>2, ConcatProperties DEF TypeOK
    <3> QED BY <2>4, <3>1, <3>2, ConcatEmptySeq DEF StreamIntact
  <2>6. writing' # <<>> /\ writing' \in Seq(Byte) /\ accepted' \in Seq(Byte)
    BY <1>1, <2>1, FillData, EmptySeq DEF PublishWrites, TypeOK
  <2>7. io' \in {"active", "error"} /\ io' # "none" /\ io' # "ok"
    BY <1>1 DEF PublishWrites, async_write
  <2>8. TypeOK'
    BY <1>1, <2>1, <2>6, <2>7, LenProperties DEF publish, PublishWrites, TypeOK
  <2>9. PendingHasWriter' /\ OkIsSent' /\ AbortedIsClosed' /\ ActiveIsOpen' /\ PendingBounded'
    BY <1>1, <2>6, <2>7 DEF publish, PublishWrites, async_write, PendingHasWriter,
                            OkIsSent, AbortedIsClosed, ActiveIsOpen, PendingBounded
  <2> QED BY <2>5, <2>8, <2>9
<1>2. CASE PublishWaits(m)
  <2>1. /\ pending' = pending \o Frame(m) /\ accepted' = accepted \o Frame(m)
        /\ UNCHANGED <<writing, sent, wire, io, socket>>
    BY <1>2 DEF publish, PublishWaits, fill_data
  <2>2. Frame(m) \in Seq(Byte) /\ Len(Frame(m)) \in 1..MaxFrame
    BY FrameType
  <2>3. Unsent \in Seq(Byte) /\ wire \o Unsent \in Seq(Byte) /\ Unsent' = Unsent
    BY <2>1, UnsentType, ConcatProperties DEF TypeOK, Unsent
  <2>4. StreamIntact'
    <3>1. ((wire \o Unsent) \o pending) \o Frame(m) = (wire \o Unsent) \o (pending \o Frame(m))
      <4>1. pending \in Seq(Byte)
        BY DEF TypeOK
      <4> QED BY <2>2, <2>3, <4>1, ByteConcat, Zenon
    <3> QED BY <2>1, <2>3, <3>1 DEF StreamIntact
  <2>5. TypeOK'
    <3>1. pending' \in Seq(Byte) /\ accepted' \in Seq(Byte)
      BY <2>1, <2>2, ConcatProperties DEF TypeOK
    <3> QED BY <1>2, <2>1, <3>1 DEF publish, PublishWaits, TypeOK
  <2>6. PendingBounded'
    <3>1. Len(pending') = Len(pending) + Len(Frame(m))
      BY <2>1, <2>2, ConcatProperties DEF TypeOK
    <3>2. Len(pending) \in Nat /\ Len(pending) < MAX_PENDING_SIZE
      BY <1>2, LenProperties DEF PublishWaits, TypeOK
    <3> QED BY <2>2, <3>1, <3>2, ClientAssumption DEF PendingBounded
  <2>7. PendingHasWriter' /\ OkIsSent' /\ AbortedIsClosed' /\ ActiveIsOpen'
    BY <1>2, <2>1 DEF PublishWaits, PendingHasWriter, OkIsSent, AbortedIsClosed, ActiveIsOpen
  <2> QED BY <2>4, <2>5, <2>6, <2>7
<1>3. CASE PublishDiscards
  BY <1>3 DEF publish, PublishDiscards, TypeOK, PendingHasWriter, OkIsSent,
              AbortedIsClosed, ActiveIsOpen, StreamIntact, Unsent, PendingBounded
<1> QED BY <1>1, <1>2, <1>3 DEF publish

(* The handler of a write keeps the invariant.                               *)
LEMMA HandlerStep ==
  ASSUME IInv, handle_write
  PROVE  IInv'
<1> USE DEF IInv
<1>1. CASE WriteDone
  <2>1. /\ writing' = pending /\ pending' = <<>> /\ sent' = 0 /\ sent = Len(writing)
        /\ UNCHANGED <<wire, accepted, published, discarded, socket>>
    BY <1>1 DEF WriteDone, async_write, OkIsSent, handle_write
  <2>2. <<>> \in Seq(Byte) /\ Len(<<>>) = 0 /\ Len(writing) \in Nat /\ Len(pending) \in Nat
    BY EmptySeq, LenProperties DEF TypeOK
  <2>3. Unsent = <<>> /\ Unsent' = pending
    BY <2>1, <2>2, SubSeqEmpty, SubSeqFull DEF Unsent, TypeOK
  <2>4. wire \o <<>> = wire /\ (wire \o pending) \o <<>> = wire \o pending
    BY ConcatEmptySeq, ConcatProperties DEF TypeOK
  <2>5. StreamIntact'
    BY <2>1, <2>3, <2>4 DEF StreamIntact
  <2>6. io' \in {"none", "active", "error"} /\ (io' = "none" <=> pending = <<>>)
    BY <1>1 DEF WriteDone, async_write
  <2>7. TypeOK'
    BY <2>1, <2>2, <2>6 DEF TypeOK
  <2>8. PendingHasWriter' /\ OkIsSent' /\ AbortedIsClosed'
    BY <2>1, <2>6 DEF PendingHasWriter, OkIsSent, AbortedIsClosed
  <2>10. ActiveIsOpen'
    BY <1>1, <2>1 DEF WriteDone, async_write, ActiveIsOpen
  <2>9. PendingBounded'
    BY <2>1, <2>2, ClientAssumption DEF PendingBounded
  <2> QED BY <2>5, <2>7, <2>8, <2>9, <2>10
<1>2. CASE WriteFailed
  BY <1>2 DEF handle_write, WriteFailed, TypeOK, PendingHasWriter, OkIsSent,
              AbortedIsClosed, ActiveIsOpen, StreamIntact, Unsent, PendingBounded
<1>3. CASE WriteAborted
  BY <1>3 DEF handle_write, WriteAborted, TypeOK, PendingHasWriter, OkIsSent,
              AbortedIsClosed, ActiveIsOpen, StreamIntact, Unsent, PendingBounded
<1> QED BY <1>1, <1>2, <1>3 DEF handle_write

(* What the socket takes is the front of what it has not taken.              *)
LEMMA SocketCuts ==
  ASSUME IInv, NEW n \in 1..Len(writing), SocketTakes(n)
  PROVE  /\ SubSeq(writing, sent + 1, sent + n) \in Seq(Byte)
         /\ Len(SubSeq(writing, sent + 1, sent + n)) = n
         /\ Unsent' \in Seq(Byte)
         /\ SubSeq(writing, sent + 1, sent + n) \o Unsent' = Unsent
<1>1. writing \in Seq(Byte) /\ sent \in 0..Len(writing)
  BY DEF IInv, TypeOK
<1>2. n \in 1..(Len(writing) - sent) /\ sent' = sent + n /\ writing' = writing
  BY DEF SocketTakes
<1>3. Len(writing) \in Nat
  BY <1>1, LenProperties
<1>4. sent \in Nat /\ n \in Nat /\ 1 <= n /\ sent + n <= Len(writing)
  BY <1>1, <1>2, <1>3
<1>5. Unsent' = SubSeq(writing, sent + n + 1, Len(writing))
  BY <1>2 DEF Unsent
<1>6. /\ SubSeq(writing, sent + 1, sent + n) \in Seq(Byte)
      /\ Len(SubSeq(writing, sent + 1, sent + n)) = n
      /\ SubSeq(writing, sent + n + 1, Len(writing)) \in Seq(Byte)
      /\ SubSeq(writing, sent + 1, sent + n) \o SubSeq(writing, sent + n + 1, Len(writing))
           = SubSeq(writing, sent + 1, Len(writing))
  BY <1>1, <1>4, Cut, Zenon
<1> QED BY <1>5, <1>6 DEF Unsent

(* The socket's own steps keep the invariant.                                *)
LEMMA SocketTakesStep ==
  ASSUME IInv, NEW n \in 1..Len(writing), SocketTakes(n)
  PROVE  IInv'
<1> USE DEF IInv
<1> DEFINE part == SubSeq(writing, sent + 1, sent + n)
<1>1. /\ n \in 1..(Len(writing) - sent) /\ wire' = wire \o part
      /\ sent' = sent + n /\ io = "active"
      /\ UNCHANGED <<writing, pending, socket, accepted, published, discarded>>
  BY DEF SocketTakes
<1>2. Len(writing) \in Nat /\ sent \in Nat /\ sent + n \in sent..Len(writing)
  BY <1>1, LenProperties DEF TypeOK
<1>3. part \in Seq(Byte) /\ Unsent' \in Seq(Byte)
  BY SocketCuts
<1>4. part \o Unsent' = Unsent
  BY SocketCuts
<1>5. wire \o Unsent = wire' \o Unsent'
  <2> HIDE DEF part
  <2>1. (wire \o part) \o Unsent' = wire \o (part \o Unsent')
    <3>1. wire \in Seq(Byte)
      BY DEF TypeOK
    <3> QED BY <1>3, <3>1, ByteConcat, Zenon
  <2> QED BY <1>1, <1>4, <2>1
<1>6. StreamIntact'
  BY <1>1, <1>5 DEF StreamIntact
<1>7. TypeOK'
  <2>1. wire' \in Seq(Byte)
    BY <1>1, <1>3, ConcatProperties DEF TypeOK
  <2>2. io' \in {"ok", "active"}
    BY DEF SocketTakes
  <2> QED BY <1>1, <1>2, <2>1, <2>2 DEF TypeOK
<1>8. PendingHasWriter' /\ OkIsSent' /\ AbortedIsClosed' /\ ActiveIsOpen' /\ PendingBounded'
  BY <1>1 DEF SocketTakes, PendingHasWriter, OkIsSent, AbortedIsClosed, ActiveIsOpen, PendingBounded
<1> QED BY <1>6, <1>7, <1>8

(* Closing the socket and losing the connection keep the invariant.          *)
LEMMA CloseStep ==
  ASSUME IInv, stop \/ ConnectionLost
  PROVE  IInv'
  BY DEF IInv, stop, ConnectionLost, TypeOK, PendingHasWriter, OkIsSent,
         AbortedIsClosed, ActiveIsOpen, StreamIntact, Unsent, PendingBounded

-----------------------------------------------------------------------------
(* The inductive invariant holds in every reachable state.                   *)
THEOREM Invariance == Spec => []IInv
<1>1. Init => IInv
  BY InitIInv
<1>2. IInv /\ [Next]_vars => IInv'
  <2> SUFFICES ASSUME IInv, [Next]_vars PROVE IInv'
    OBVIOUS
  <2>1. ASSUME NEW m \in Msg, publish(m) PROVE IInv'
    BY <2>1, PublishStep
  <2>2. CASE handle_write
    BY <2>2, HandlerStep
  <2>3. CASE stop \/ ConnectionLost
    BY <2>3, CloseStep
  <2>4. ASSUME NEW n \in 1..Len(writing), SocketTakes(n) PROVE IInv'
    BY <2>4, SocketTakesStep
  <2>5. CASE UNCHANGED vars
    BY <2>5 DEF vars, IInv, TypeOK, PendingHasWriter, OkIsSent, AbortedIsClosed, ActiveIsOpen,
                StreamIntact, Unsent, PendingBounded
  <2> QED BY <2>1, <2>2, <2>3, <2>4, <2>5 DEF Next
<1> QED BY <1>1, <1>2, PTL DEF Spec

(* The peer receives, in order and complete, the frames publish kept: what   *)
(* was accepted is what was sent, the rest of the write, and pending.        *)
THEOREM StreamIsIntact == Spec => []StreamIntact
<1>1. IInv => StreamIntact
  BY DEF IInv
<1> QED BY <1>1, Invariance, PTL

(* No message waits without a write in front of it.                          *)
THEOREM WriterIsThere == Spec => []PendingHasWriter
<1>1. IInv => PendingHasWriter
  BY DEF IInv
<1> QED BY <1>1, Invariance, PTL

(* The memory of a slow client's queue is bounded.                           *)
THEOREM PendingIsBounded == Spec => []PendingBounded
<1>1. IInv => PendingBounded
  BY DEF IInv
<1> QED BY <1>1, Invariance, PTL

(* The buffer of a write in flight changes in no step but its handler's.     *)
THEOREM BufferIsStable == Spec => BufferStable
<1>1. ASSUME IInv, [Next]_vars
      PROVE  [(io \in {"active", "ok"} /\ ~handle_write) => writing' = writing]_vars
  <2> SUFFICES ASSUME io \in {"active", "ok"}, ~handle_write PROVE writing' = writing
    OBVIOUS
  <2>1. writing # <<>>
    BY <1>1 DEF IInv, PendingHasWriter
  <2> QED BY <1>1, <2>1 DEF Next, publish, PublishWrites, PublishWaits, PublishDiscards,
             stop, SocketTakes, ConnectionLost, vars
<1> QED BY <1>1, Invariance, PTL DEF Spec, BufferStable

-----------------------------------------------------------------------------
(* The double buffer refines one stream.  Each step of the client is a step  *)
(* of the stream or leaves it as it is.                                      *)
broken == socket = "closed" \/ io \in {"error", "aborted"}

(* publish: a frame is accepted, or refused with the limit reached.          *)
LEMMA PublishRefines ==
  ASSUME IInv, NEW m \in Msg, publish(m)
  PROVE  Stream!Next
<1> USE DEF IInv
<1>1. wire' = wire /\ socket' = socket
  BY DEF publish
<1>2. Frame(m) \in Seq(Byte)
  BY FrameType
<1>3. CASE PublishWrites(m)
  <2>1. /\ pending = <<>> /\ io = "none" /\ writing = <<>> /\ pending' = <<>>
        /\ writing' = fill_data(<<>>, m) /\ sent' = 0 /\ discarded' = discarded
    BY <1>3 DEF PublishWrites, PendingHasWriter, async_write
  <2>2. writing' = Frame(m)
    BY <1>2, <2>1, ConcatEmptySeq DEF fill_data
  <2>3. Unsent = <<>> /\ Unsent' = Frame(m)
    BY <1>2, <2>1, <2>2, EmptySeq, SubSeqEmpty, SubSeqFull DEF Unsent, TypeOK
  <2>4. (Unsent \o pending)' = (Unsent \o pending) \o Frame(m)
    <3>1. <<>> \o <<>> = <<>> /\ Frame(m) \o <<>> = Frame(m) /\ <<>> \o Frame(m) = Frame(m)
      BY <1>2, EmptySeq, ConcatEmptySeq
    <3> QED BY <2>1, <2>3, <3>1
  <2>5. broken' = broken
    <3>1. io' \in {"active", "error"} /\ (io' = "error" <=> socket # "open")
      BY <1>3 DEF PublishWrites, async_write
    <3>2. broken' <=> broken
      BY <1>1, <2>1, <3>1 DEF broken, TypeOK
    <3> QED BY <3>2 DEF broken
  <2> QED BY <1>1, <2>1, <2>4, <2>5 DEF Stream!Next, Stream!Accept, broken
<1>4. CASE PublishWaits(m)
  <2>1. /\ pending' = pending \o Frame(m) /\ Unsent' = Unsent
        /\ UNCHANGED <<io, discarded>>
    BY <1>4 DEF PublishWaits, fill_data, Unsent
  <2>2. Unsent \in Seq(Byte) /\ pending \in Seq(Byte)
    BY UnsentType DEF TypeOK
  <2>3. Unsent' \o pending' = (Unsent \o pending) \o Frame(m)
    BY <1>2, <2>1, <2>2, ByteConcat, Zenon
  <2> QED BY <1>1, <2>1, <2>3 DEF Stream!Next, Stream!Accept
<1>5. CASE PublishDiscards
  <2>1. /\ Len(pending) >= MAX_PENDING_SIZE /\ discarded' = discarded + 1
        /\ UNCHANGED <<io, pending>> /\ Unsent' = Unsent
    BY <1>5 DEF PublishDiscards, Unsent
  <2>2. Unsent \in Seq(Byte) /\ pending \in Seq(Byte)
    BY UnsentType DEF TypeOK
  <2>3. Len(Unsent \o pending) = Len(Unsent) + Len(pending) /\ Len(Unsent) \in Nat
        /\ Len(pending) \in Nat
    BY <2>2, ConcatProperties, LenProperties
  <2>4. Len(Unsent \o pending) >= MAX_PENDING_SIZE
    BY <2>1, <2>3, ClientAssumption
  <2> QED BY <1>1, <2>1, <2>4 DEF Stream!Next, Stream!Refuse
<1> QED BY <1>3, <1>4, <1>5 DEF publish

(* The handler moves what waits into the other buffer: a stutter.            *)
LEMMA HandlerRefines ==
  ASSUME IInv, handle_write
  PROVE  UNCHANGED Stream!streamVars
<1> USE DEF IInv
<1>1. UNCHANGED <<wire, discarded>>
  BY DEF handle_write
<1>2. CASE WriteDone
  <2>1. /\ writing' = pending /\ pending' = <<>> /\ sent' = 0 /\ sent = Len(writing)
        /\ io = "ok" /\ socket' = socket
    BY <1>2 DEF WriteDone, async_write, OkIsSent
  <2>2. Len(writing) \in Nat /\ pending \in Seq(Byte)
    BY LenProperties DEF TypeOK
  <2>3. Unsent = <<>> /\ Unsent' = pending
    BY <2>1, <2>2, SubSeqEmpty, SubSeqFull DEF Unsent
  <2>4. (Unsent \o pending)' = Unsent \o pending
    <3>1. <<>> \o pending = pending /\ pending \o <<>> = pending
      BY <2>2, ConcatEmptySeq
    <3> QED BY <2>1, <2>3, <3>1
  <2>5. broken' = broken
    <3>1. io' \in {"none", "active", "error"} /\ (io' = "error" => socket # "open")
      BY <1>2 DEF WriteDone, async_write
    <3>2. broken' <=> broken
      BY <2>1, <3>1 DEF broken, TypeOK
    <3> QED BY <3>2 DEF broken
  <2> QED BY <1>1, <2>4, <2>5 DEF Stream!streamVars, broken
<1>3. CASE WriteFailed \/ WriteAborted
  <2>1. Unsent' = Unsent /\ pending' = pending
    BY <1>3 DEF WriteFailed, WriteAborted, Unsent
  <2>2. broken' = broken
    BY <1>3 DEF WriteFailed, WriteAborted, broken, AbortedIsClosed
  <2> QED BY <1>1, <2>1, <2>2 DEF Stream!streamVars, broken
<1> QED BY <1>2, <1>3 DEF handle_write

(* The socket carries the front of the queue.                                *)
LEMMA SocketRefines ==
  ASSUME IInv, NEW n \in 1..Len(writing), SocketTakes(n)
  PROVE  Stream!Next
<1> DEFINE part == SubSeq(writing, sent + 1, sent + n)
           rest == Unsent' \o pending
<1>1. /\ wire' = wire \o part /\ pending' = pending /\ discarded' = discarded
      /\ socket' = socket /\ io = "active" /\ io' \in {"ok", "active"}
  BY DEF SocketTakes
<1>2. part \in Seq(Byte) /\ Len(part) = n /\ Unsent' \in Seq(Byte) /\ part \o Unsent' = Unsent
  BY SocketCuts
<1>3. pending \in Seq(Byte) /\ Len(writing) \in Nat /\ socket = "open"
  BY <1>1, LenProperties DEF IInv, TypeOK, ActiveIsOpen
<1> HIDE DEF part
<1>4. rest \in Seq(Byte)
  BY <1>2, <1>3, ConcatProperties
<1>5. Unsent \o pending = part \o rest
  <2>1. (part \o Unsent') \o pending = part \o (Unsent' \o pending)
    BY <1>2, <1>3, ByteConcat, Zenon
  <2> QED BY <1>2, <2>1
<1> HIDE DEF rest
<1>6. Len(part) # 0
  BY <1>2, <1>3
<1>7. /\ SubSeq(Unsent \o pending, 1, n) = part
      /\ SubSeq(Unsent \o pending, n + 1, Len(Unsent \o pending)) = rest
      /\ n \in 1..Len(Unsent \o pending)
  BY <1>2, <1>4, <1>5, <1>6, Peel
<1>8. (Unsent \o pending)' = rest
  BY <1>1 DEF rest
<1>9. ~broken /\ ~broken'
  BY <1>1, <1>3 DEF broken
<1> QED BY <1>1, <1>7, <1>8, <1>9 DEF Stream!Next, Stream!Carry, broken

(* Closing the socket and losing the connection break the stream.            *)
LEMMA CloseRefines ==
  ASSUME IInv, stop \/ ConnectionLost
  PROVE  [Stream!Next]_Stream!streamVars
<1>1. (Unsent \o pending)' = Unsent \o pending /\ wire' = wire /\ discarded' = discarded
  BY DEF stop, ConnectionLost, Unsent
<1>2. broken'
  BY DEF stop, ConnectionLost, broken
<1>3. CASE broken
  BY <1>1, <1>2, <1>3 DEF Stream!streamVars, broken
<1>4. CASE ~broken
  BY <1>1, <1>2, <1>4 DEF Stream!Next, Stream!Break, broken
<1> QED BY <1>3, <1>4

(* The initial buffers are an empty stream.                                  *)
LEMMA InitRefines == Init => Stream!Init
<1> SUFFICES ASSUME Init PROVE Stream!Init
  OBVIOUS
<1>1. Unsent = <<>>
  BY EmptySeq, SubSeqEmpty DEF Init, Unsent
<1>2. Unsent \o pending = <<>>
  BY <1>1, EmptySeq, ConcatEmptySeq DEF Init
<1> QED BY <1>2 DEF Init, Stream!Init

(* The client implements the lossy stream: whatever the two threads, the     *)
(* socket and the peer do, frames are accepted or refused whole, refused     *)
(* only at the limit, and carried in order until the stream breaks.          *)
THEOREM ClientImplementsStream == Spec => Stream!Spec
<1>1. IInv /\ [Next]_vars => [Stream!Next]_Stream!streamVars
  <2> SUFFICES ASSUME IInv, [Next]_vars PROVE [Stream!Next]_Stream!streamVars
    OBVIOUS
  <2>1. ASSUME NEW m \in Msg, publish(m) PROVE Stream!Next
    BY <2>1, PublishRefines
  <2>2. CASE handle_write
    BY <2>2, HandlerRefines
  <2>3. CASE stop \/ ConnectionLost
    BY <2>3, CloseRefines
  <2>4. ASSUME NEW n \in 1..Len(writing), SocketTakes(n) PROVE Stream!Next
    BY <2>4, SocketRefines
  <2>5. CASE UNCHANGED vars
    BY <2>5 DEF vars, Unsent, Stream!streamVars
  <2> QED BY <2>1, <2>2, <2>3, <2>4, <2>5 DEF Next
<1> QED BY <1>1, InitRefines, Invariance, PTL DEF Spec, Stream!Spec

=============================================================================
