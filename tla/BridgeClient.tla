---------------------------- MODULE BridgeClient ----------------------------
(* The sending half of a client of lgsvl_bridge (client.cc).  The node's     *)
(* thread calls publish; the asio thread runs the handlers of the socket.    *)
(* One buffer, writing, belongs to the write in flight; messages published   *)
(* meanwhile gather in pending, and are dropped once pending holds           *)
(* MAX_PENDING_SIZE bytes.  publish and the locked part of handle_write are  *)
(* critical sections of publish_mutex, hence one action each.                *)
EXTENDS Integers, Sequences

CONSTANTS
  Msg,               \* the messages that may be published
  FrameLength,       \* bytes of the frame fill_data makes of each of them
  MaxFrame,          \* the length of the longest frame
  MAX_PENDING_SIZE,  \* bytes
  MaxPublished       \* bound: calls of publish

ASSUME ClientAssumption ==
  /\ MaxFrame \in Nat
  /\ FrameLength \in [Msg -> 1..MaxFrame]
  /\ MAX_PENDING_SIZE \in Nat \ {0}
  /\ MaxPublished \in Nat

VARIABLES
  writing,           \* buffer of the write in flight
  pending,           \* buffer of what is to be written next
  socket,            \* "open" or "closed"
  io,                \* the async_write: "none", "active", or the outcome of
                     \* one whose handler has not run: "ok", "aborted", "error"
  sent,              \* number of bytes of writing the socket has taken
  wire,              \* history: all bytes the socket has taken
  accepted,          \* history: all bytes of the messages publish kept
  published,         \* number of calls of publish
  discarded          \* history: number of messages publish dropped

vars == <<writing, pending, socket, io, sent, wire, accepted, published, discarded>>

(* fill_data: an opcode, the topic and the message with their lengths.  Byte *)
(* i of the frame of m stands as <<m, i>>.                                   *)
Frame(m) == [i \in 1..FrameLength[m] |-> <<m, i>>]
fill_data(data, m) == data \o Frame(m)

(* The part of the write in flight that the socket has not taken.            *)
Unsent == SubSeq(writing, sent + 1, Len(writing))

-----------------------------------------------------------------------------
Init ==
  /\ writing = <<>>
  /\ pending = <<>>
  /\ socket = "open"
  /\ io = "none"
  /\ sent = 0
  /\ wire = <<>>
  /\ accepted = <<>>
  /\ published = 0
  /\ discarded = 0

(* boost::asio::async_write(socket, buffer(writing), handle_write); a socket *)
(* that is closed already fails the operation with bad_descriptor.           *)
async_write ==
  /\ io' = IF socket = "open" THEN "active" ELSE "error"
  /\ sent' = 0

PublishWrites(m) ==
  /\ writing = <<>>
  /\ writing' = fill_data(writing, m)
  /\ async_write
  /\ accepted' = fill_data(accepted, m)
  /\ UNCHANGED <<pending, discarded>>

(* Mutants of PublishWaits: the limit is inclusive; the frame is appended to *)
(* the buffer of the write in flight.                                        *)
PublishWaits_Inclusive(m) ==
  /\ writing # <<>> /\ Len(pending) <= MAX_PENDING_SIZE
  /\ pending' = fill_data(pending, m)
  /\ accepted' = fill_data(accepted, m)
  /\ UNCHANGED <<writing, io, sent, discarded>>

PublishWaits_SameBuffer(m) ==
  /\ writing # <<>> /\ Len(writing) < MAX_PENDING_SIZE
  /\ writing' = fill_data(writing, m)
  /\ accepted' = fill_data(accepted, m)
  /\ UNCHANGED <<pending, io, sent, discarded>>

PublishWaits(m) ==
  /\ writing # <<>> /\ Len(pending) < MAX_PENDING_SIZE
  /\ pending' = fill_data(pending, m)
  /\ accepted' = fill_data(accepted, m)
  /\ UNCHANGED <<writing, io, sent, discarded>>

(* Mutant of PublishDiscards: what waits is dropped with the message.        *)
PublishDiscards_All ==
  /\ writing # <<>> /\ Len(pending) >= MAX_PENDING_SIZE
  /\ discarded' = discarded + 1
  /\ pending' = <<>>
  /\ UNCHANGED <<writing, io, sent, accepted>>

PublishDiscards ==
  /\ writing # <<>> /\ Len(pending) >= MAX_PENDING_SIZE
  /\ discarded' = discarded + 1
  /\ UNCHANGED <<writing, pending, io, sent, accepted>>

publish(m) ==
  /\ published < MaxPublished
  /\ published' = published + 1
  /\ PublishWrites(m) \/ PublishWaits(m) \/ PublishDiscards
  /\ UNCHANGED <<socket, wire>>

(* Mutants of WriteDone: pending is copied and not swapped; the next write   *)
(* is not started.                                                           *)
WriteDone_Copied ==
  /\ io = "ok"
  /\ writing' = pending
  /\ IF pending # <<>> THEN async_write ELSE io' = "none" /\ sent' = 0
  /\ UNCHANGED <<pending, socket>>

WriteDone_NotArmed ==
  /\ io = "ok"
  /\ writing' = pending
  /\ pending' = <<>>
  /\ io' = "none" /\ sent' = 0
  /\ UNCHANGED socket

(* The write succeeded: what waits becomes the next write.                   *)
WriteDone ==
  /\ io = "ok"
  /\ writing' = pending
  /\ pending' = <<>>
  /\ IF pending # <<>> THEN async_write ELSE io' = "none" /\ sent' = 0
  /\ UNCHANGED socket

(* The write failed: the client is stopped (its socket closed) and leaves    *)
(* the node; the buffers stay as they are.                                   *)
WriteFailed ==
  /\ io = "error"
  /\ io' = "none"
  /\ socket' = "closed"
  /\ UNCHANGED <<writing, pending, sent>>

(* The socket was closed under the write; whoever closed it does the rest.   *)
WriteAborted ==
  /\ io = "aborted"
  /\ io' = "none"
  /\ UNCHANGED <<writing, pending, socket, sent>>

handle_write ==
  /\ WriteDone \/ WriteFailed \/ WriteAborted
  /\ UNCHANGED <<wire, accepted, published, discarded>>

(* Client::stop, called by the read handler (end of file, read error,        *)
(* unknown operation) or by the server's stop: the write in flight is        *)
(* aborted.  An outcome that is already queued stays as it is.               *)
stop ==
  /\ socket = "open"
  /\ socket' = "closed"
  /\ io' = IF io = "active" THEN "aborted" ELSE io
  /\ UNCHANGED <<writing, pending, sent, wire, accepted, published, discarded>>

(* The socket takes some bytes of the write in flight ...                    *)
SocketTakes(n) ==
  /\ io = "active"
  /\ n \in 1..(Len(writing) - sent)
  /\ wire' = wire \o SubSeq(writing, sent + 1, sent + n)
  /\ sent' = sent + n
  /\ io' = IF sent' = Len(writing) THEN "ok" ELSE "active"
  /\ UNCHANGED <<writing, pending, socket, accepted, published, discarded>>

(* ... or the connection is lost.                                            *)
ConnectionLost ==
  /\ io = "active"
  /\ io' = "error"
  /\ UNCHANGED <<writing, pending, socket, sent, wire, accepted, published, discarded>>

Next ==
  \/ \E m \in Msg : publish(m)
  \/ handle_write
  \/ stop
  \/ \E n \in 1..Len(writing) : SocketTakes(n)
  \/ ConnectionLost

Spec == Init /\ [][Next]_vars

(* The io_service runs its handlers, and an open connection takes bytes.     *)
FairSpec ==
  /\ Spec
  /\ WF_vars(handle_write)
  /\ WF_vars(\E n \in 1..Len(writing) : SocketTakes(n))

-----------------------------------------------------------------------------
Byte == Msg \X Nat

(* Type invariant.                                                           *)
TypeOK ==
  /\ writing \in Seq(Byte)
  /\ pending \in Seq(Byte)
  /\ socket \in {"open", "closed"}
  /\ io \in {"none", "active", "ok", "aborted", "error"}
  /\ sent \in 0..Len(writing)
  /\ wire \in Seq(Byte)
  /\ accepted \in Seq(Byte)
  /\ published \in Nat
  /\ discarded \in Nat

(* The bytes publish kept are, in order and without a gap, those the socket  *)
(* took, the rest of the write in flight, and pending, whatever the          *)
(* interleaving of the two threads: the peer never sees a torn, repeated or  *)
(* reordered frame.                                                          *)
StreamIntact == accepted = wire \o Unsent \o pending

(* The memory a write in flight points into is not touched: asio reads from  *)
(* writing until the handler runs.                                           *)
BufferStable ==
  [][(io \in {"active", "ok"} /\ ~handle_write) => writing' = writing]_vars

(* pending overshoots its limit by less than one frame.                      *)
PendingBounded == Len(pending) < MAX_PENDING_SIZE + MaxFrame

(* No lost wake-up: waiting bytes have a write in front of them, writes do   *)
(* not overlap, and while the connection is open the write has a handler to  *)
(* come.                                                                     *)
PendingHasWriter ==
  /\ pending # <<>> => writing # <<>>
  /\ io # "none" => writing # <<>>
  /\ socket = "open" /\ writing # <<>> => io # "none"

(* The double buffer implements one stream of frames: what was kept goes     *)
(* out in order, frames are refused as a whole, only when MAX_PENDING_SIZE   *)
(* bytes wait, and a stream that is not broken goes on.                      *)
Stream == INSTANCE LossyStream WITH
  queue <- Unsent \o pending, taken <- wire, Limit <- MAX_PENDING_SIZE,
  refused <- discarded,
  broken <- socket = "closed" \/ io \in {"error", "aborted"}

ImplementsStream == Stream!FairSpec

=============================================================================
