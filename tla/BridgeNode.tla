----------------------------- MODULE BridgeNode -----------------------------
(* lgsvl_bridge: the asio thread accepts connections and runs the handlers  *)
(* of their sockets (server.cc, clients.cc, client.cc); the node's thread    *)
(* owns the subscriptions and forwards ROS messages to the clients           *)
(* (node.cc).  Subscriptions change through a queue of actions under a       *)
(* mutex; publishers belong to the asio thread.  The buffers of a client     *)
(* are those of BridgeClient: here it matters whether a write is in flight.  *)
EXTENDS Integers, Sequences, FiniteSets

CONSTANTS
  Client,       \* the connections that may be made, each a Client object
  Topic,
  BadTopics,    \* names for which rcl refuses a subscription or a publisher
  Batches,      \* what one read may bring: sequences of operations
  MaxReads,     \* bound: successful reads
  MaxMessages   \* bound: ROS messages on subscribed topics

OpKinds == {"add_subscriber", "add_publisher", "publish", "unknown"}

(* `known`: the bridge was built with the type that is named.                *)
Operation == [op : OpKinds, topic : Topic, known : BOOLEAN]

ASSUME BridgeAssumption ==
  /\ BadTopics \subseteq Topic
  /\ Batches \subseteq Seq(Operation)
  /\ MaxReads \in Nat /\ MaxMessages \in Nat
  /\ IsFiniteSet(Topic)

VARIABLES
  bridge,       \* "running", "stopping", "stopped" or "terminated"
  clients,      \* Clients::clients
  socket,       \* of each client: "none", "open" or "closed"
  read,         \* its async_read_some: "none", "armed", or its outcome:
                \* "data", "eof", "error", "aborted"
  buffer,       \* the operations a read brought
  write,        \* its async_write: "idle", "active", its outcome: "ok",
                \* "error", "aborted"; or "stuck": done, writing not cleared
  pending,      \* messages wait behind the write in flight
  subscribers,  \* the clients of each topic's subscription, if there is one
  publishers,   \* the clients of each topic's publisher, if there is one
  actions,      \* what the node's thread has to do to subscribers
  thread,       \* the node's thread: "loop", "waiting", "handling" or "ended"
  sub_count,    \* the capacity of its wait set
  targets,      \* <<topic, client>>: messages taken and still to be forwarded
  inbox,        \* topics with messages to be taken
  reads, messages,
  wanted        \* history: the subscriptions asked for, in the order of arrival

connVars == <<clients, socket, read, buffer, write, pending>>
nodeVars == <<subscribers, thread, sub_count, targets, inbox>>
countVars == <<reads, messages>>
vars == <<bridge, connVars, nodeVars, countVars, publishers, actions, wanted>>

-----------------------------------------------------------------------------
Init ==
  /\ bridge = "running"
  /\ clients = {}
  /\ socket = [c \in Client |-> "none"]
  /\ read = [c \in Client |-> "none"]
  /\ buffer = [c \in Client |-> <<>>]
  /\ write = [c \in Client |-> "idle"]
  /\ pending = [c \in Client |-> FALSE]
  /\ subscribers = [t \in Topic |-> {}]
  /\ publishers = [t \in Topic |-> {}]
  /\ actions = <<>>
  /\ thread = "loop"
  /\ sub_count = 0
  /\ targets = {}
  /\ inbox = {}
  /\ reads = 0 /\ messages = 0
  /\ wanted = [t \in Topic |-> {}]

Alive == bridge \in {"running", "stopping"}

(* end_accept: a client is made and started.  When the peer is gone already, *)
(* remote_endpoint throws in its constructor and nothing catches it.         *)
end_accept(c) ==
  /\ bridge = "running"
  /\ socket[c] = "none"
  /\ clients' = clients \cup {c}
  /\ socket' = [socket EXCEPT ![c] = "open"]
  /\ read' = [read EXCEPT ![c] = "armed"]
  /\ UNCHANGED <<bridge, buffer, write, pending, nodeVars, countVars, publishers,
                 actions, wanted>>

AcceptOfGonePeer ==
  /\ bridge = "running"
  /\ bridge' = "terminated"
  /\ UNCHANGED <<connVars, nodeVars, countVars, publishers, actions, wanted>>

(* Outcome of closing a socket: what was in flight on it is aborted, an      *)
(* outcome that is queued already stays.                                     *)
Abort(io, flying, c) == IF io[c] = flying THEN [io EXCEPT ![c] = "aborted"] ELSE io

(* Clients::stop.                                                            *)
Close(c) ==
  /\ clients' = clients \ {c}
  /\ socket' = [socket EXCEPT ![c] = "closed"]

(* Node::remove: an action for the subscribers, the publishers at once.      *)
remove(c) ==
  /\ actions' = Append(actions, [op |-> "remove", client |-> c])
  /\ publishers' = [t \in Topic |-> publishers[t] \ {c}]
  /\ wanted' = [t \in Topic |-> wanted[t] \ {c}]

(* Node::add_subscriber of every such operation in a batch.                  *)
Asks(o) == o.op = "add_subscriber" /\ o.known

Add(c, t) == [op |-> "add", topic |-> t, client |-> c]

Adds(c, ops) ==
  LET adds[i \in 0..Len(ops)] ==
        IF i = 0 THEN <<>>
        ELSE IF Asks(ops[i]) THEN Append(adds[i - 1], Add(c, ops[i].topic)) ELSE adds[i - 1]
  IN  adds[Len(ops)]

(* Node::add_publisher: a topic that has a publisher takes any type.         *)
AddsPublisher(o) ==
  /\ o.op = "add_publisher"
  /\ publishers[o.topic] # {} \/ (o.known /\ o.topic \notin BadTopics)

(* The loop of handle_read over the operations in the buffer, up to the      *)
(* first unknown one.  handle_publish hands its message to rcl and changes   *)
(* nothing here.                                                             *)
Legal(ops) ==
  LET unknown == {i \in 1..Len(ops) : ops[i].op = "unknown"}
  IN  IF unknown = {} THEN ops ELSE SubSeq(ops, 1, (CHOOSE i \in unknown : \A j \in unknown : i <= j) - 1)

HandleOperations(c, ops) ==
  /\ actions' = actions \o Adds(c, ops)
  /\ publishers' =
       [t \in Topic |-> IF \E i \in 1..Len(ops) : ops[i].topic = t /\ AddsPublisher(ops[i])
                          THEN publishers[t] \cup {c} ELSE publishers[t]]
  /\ wanted' =
       [t \in Topic |-> IF t \notin BadTopics
                           /\ \E i \in 1..Len(ops) : ops[i].topic = t /\ Asks(ops[i])
                          THEN wanted[t] \cup {c} ELSE wanted[t]]

(* Mutant of ReadData: the client is not read again after its data.          *)
ReadData_NotStarted(c) ==
  /\ read[c] = "data"
  /\ HandleOperations(c, Legal(buffer[c]))
  /\ buffer' = [buffer EXCEPT ![c] = <<>>]
  /\ read' = [read EXCEPT ![c] = "none"]
  /\ UNCHANGED <<clients, socket, write>>

ReadData(c) ==
  /\ read[c] = "data"
  /\ HandleOperations(c, Legal(buffer[c]))
  /\ buffer' = [buffer EXCEPT ![c] = <<>>]
  /\ IF Legal(buffer[c]) = buffer[c]
       THEN /\ read' = [read EXCEPT ![c] = IF socket[c] = "open" THEN "armed" ELSE "error"]
            /\ UNCHANGED <<clients, socket, write>>
       ELSE \* unknown operation: the client is stopped, and not read again
            /\ Close(c)
            /\ read' = [read EXCEPT ![c] = "none"]
            /\ write' = Abort(write, "active", c)

ReadFailed(c) ==
  /\ read[c] \in {"eof", "error"}
  /\ read' = [read EXCEPT ![c] = "none"]
  /\ Close(c)
  /\ write' = Abort(write, "active", c)
  /\ remove(c)
  /\ UNCHANGED buffer

ReadAborted(c) ==
  /\ read[c] = "aborted"
  /\ read' = [read EXCEPT ![c] = "none"]
  /\ UNCHANGED <<clients, socket, buffer, write, actions, publishers, wanted>>

handle_read(c) ==
  /\ Alive
  /\ ReadData(c) \/ ReadFailed(c) \/ ReadAborted(c)
  /\ UNCHANGED <<bridge, pending, nodeVars, countVars>>

WriteDone(c) ==
  /\ write[c] = "ok"
  /\ pending' = [pending EXCEPT ![c] = FALSE]
  /\ write' = [write EXCEPT ![c] =
                 IF ~pending[c] THEN "idle"
                 ELSE IF socket[c] = "open" THEN "active" ELSE "error"]
  /\ UNCHANGED <<clients, socket, read, actions, publishers, wanted>>

(* Mutant of WriteFailed: the client is stopped, but not removed.            *)
WriteFailed_NotRemoved(c) ==
  /\ write[c] = "error"
  /\ write' = [write EXCEPT ![c] = "stuck"]
  /\ Close(c)
  /\ read' = Abort(read, "armed", c)
  /\ UNCHANGED <<pending, actions, publishers, wanted>>

WriteFailed(c) ==
  /\ write[c] = "error"
  /\ write' = [write EXCEPT ![c] = "stuck"]
  /\ Close(c)
  /\ read' = Abort(read, "armed", c)
  /\ remove(c)
  /\ UNCHANGED pending

WriteAborted(c) ==
  /\ write[c] = "aborted"
  /\ write' = [write EXCEPT ![c] = "stuck"]
  /\ UNCHANGED <<clients, socket, read, pending, actions, publishers, wanted>>

handle_write(c) ==
  /\ Alive
  /\ WriteDone(c) \/ WriteFailed(c) \/ WriteAborted(c)
  /\ UNCHANGED <<bridge, buffer, nodeVars, countVars>>

(* Mutant of Signal: only the acceptor is closed.                            *)
Signal_AcceptorOnly ==
  /\ bridge = "running"
  /\ bridge' = "stopping"
  /\ UNCHANGED <<connVars, nodeVars, countVars, publishers, actions, wanted>>

(* Server::stop, on SIGINT or SIGTERM: no more connections, and every client *)
(* is stopped; none is removed from the node.                                *)
Signal ==
  /\ bridge = "running"
  /\ bridge' = "stopping"
  /\ clients' = {}
  /\ socket' = [c \in Client |-> IF c \in clients THEN "closed" ELSE socket[c]]
  /\ read' = [c \in Client |-> IF c \in clients /\ read[c] = "armed" THEN "aborted" ELSE read[c]]
  /\ write' = [c \in Client |-> IF c \in clients /\ write[c] = "active" THEN "aborted" ELSE write[c]]
  /\ UNCHANGED <<buffer, pending, nodeVars, countVars, publishers, actions, wanted>>

(* io.run returns when no operation is in flight and no handler is queued.   *)
RunReturns ==
  /\ bridge = "stopping"
  /\ \A c \in Client : read[c] = "none" /\ write[c] \in {"idle", "stuck"}
  /\ bridge' = "stopped"
  /\ UNCHANGED <<connVars, nodeVars, countVars, publishers, actions, wanted>>

-----------------------------------------------------------------------------
(* One action of the queue.                                                  *)
Perform(subs, a) ==
  IF a.op = "remove" THEN [t \in Topic |-> subs[t] \ {a.client}]
  ELSE IF a.topic \in BadTopics THEN subs
  ELSE [subs EXCEPT ![a.topic] = @ \cup {a.client}]

(* The loop over the queue: the subscriptions after each of its actions.     *)
(* Mutant: the last action of the queue first.                               *)
Replay_Stack(subs, as) ==
  LET after[i \in 0..Len(as)] ==
        IF i = 0 THEN subs ELSE Perform(after[i - 1], as[Len(as) + 1 - i])
  IN  after[Len(as)]

Replay(subs, as) ==
  LET after[i \in 0..Len(as)] == IF i = 0 THEN subs ELSE Perform(after[i - 1], as[i])
  IN  after[Len(as)]

Subscribed(subs) == {t \in Topic : subs[t] # {}}

(* Mutants of RunActions: the wait set only grows; nothing is done while     *)
(* there is nothing to wait for.                                             *)
RunActions_Grow ==
  /\ Alive /\ thread = "loop"
  /\ subscribers' = Replay(subscribers, actions)
  /\ actions' = <<>>
  /\ LET new_sub_count == Cardinality(Subscribed(subscribers')) IN
       /\ sub_count' = IF new_sub_count > sub_count THEN new_sub_count ELSE sub_count
       /\ thread' = IF new_sub_count = 0 THEN "loop" ELSE "waiting"
  /\ inbox' = inbox \cap Subscribed(subscribers')
  /\ UNCHANGED <<bridge, connVars, countVars, targets, publishers, wanted>>

RunActions_NotIdle ==
  /\ Alive /\ thread = "loop"
  /\ Subscribed(subscribers) # {}
  /\ subscribers' = Replay(subscribers, actions)
  /\ actions' = <<>>
  /\ sub_count' = Cardinality(Subscribed(subscribers'))
  /\ thread' = IF sub_count' = 0 THEN "loop" ELSE "waiting"
  /\ inbox' = inbox \cap Subscribed(subscribers')
  /\ UNCHANGED <<bridge, connVars, countVars, targets, publishers, wanted>>

(* execute: all queued actions under the mutex; then the wait set is made to *)
(* measure, unless there is nothing to wait for.  One that has it already is *)
(* cleared; if rcl refuses that, execute returns, and with it the thread.    *)
RunActions ==
  /\ Alive
  /\ thread = "loop"
  /\ subscribers' = Replay(subscribers, actions)
  /\ actions' = <<>>
  /\ LET new_sub_count == Cardinality(Subscribed(subscribers')) IN
       IF new_sub_count = 0
         THEN UNCHANGED <<sub_count, thread>>
         ELSE /\ sub_count' = new_sub_count
              /\ \/ thread' = "waiting"
                 \/ new_sub_count = sub_count /\ thread' = "ended"
  /\ inbox' = inbox \cap Subscribed(subscribers')
  /\ UNCHANGED <<bridge, connVars, countVars, targets, publishers, wanted>>

(* rcl_wait: up to 100 ms; then the messages are taken one by one ...        *)
WaitReturns ==
  /\ Alive
  /\ thread = "waiting"
  /\ targets' = {x \in inbox \X Client : x[2] \in subscribers[x[1]]}
  /\ thread' = IF inbox = {} THEN "loop" ELSE "handling"
  /\ inbox' = {}
  /\ UNCHANGED <<bridge, connVars, countVars, subscribers, sub_count, publishers,
                 actions, wanted>>

(* ... and handle_message passes each to the clients of its topic:           *)
(* Client::publish starts a write, or leaves the message behind the one in   *)
(* flight.                                                                   *)
handle_message(t, c) ==
  /\ Alive
  /\ thread = "handling"
  /\ <<t, c>> \in targets
  /\ targets' = targets \ {<<t, c>>}
  /\ thread' = IF targets' = {} THEN "loop" ELSE "handling"
  /\ IF write[c] = "idle"
       THEN /\ write' = [write EXCEPT ![c] = IF socket[c] = "open" THEN "active" ELSE "error"]
            /\ UNCHANGED pending
       ELSE pending' = [pending EXCEPT ![c] = TRUE] /\ UNCHANGED write
  /\ UNCHANGED <<bridge, clients, socket, read, buffer, countVars, subscribers,
                 sub_count, inbox, publishers, actions, wanted>>

-----------------------------------------------------------------------------
(* The peers, the network and the rest of ROS.                               *)
ReadCompletes(c) ==
  /\ Alive
  /\ read[c] = "armed"
  /\ \/ /\ reads < MaxReads
        /\ reads' = reads + 1
        /\ read' = [read EXCEPT ![c] = "data"]
        /\ \E ops \in Batches : buffer' = [buffer EXCEPT ![c] = ops]
     \/ /\ \E outcome \in {"eof", "error"} : read' = [read EXCEPT ![c] = outcome]
        /\ UNCHANGED <<buffer, reads>>
  /\ UNCHANGED <<bridge, clients, socket, write, pending, nodeVars, messages,
                 publishers, actions, wanted>>

WriteCompletes(c) ==
  /\ Alive
  /\ write[c] = "active"
  /\ \E outcome \in {"ok", "error"} : write' = [write EXCEPT ![c] = outcome]
  /\ UNCHANGED <<bridge, clients, socket, read, buffer, pending, nodeVars, countVars,
                 publishers, actions, wanted>>

RosMessage(t) ==
  /\ Alive
  /\ messages < MaxMessages
  /\ subscribers[t] # {}
  /\ messages' = messages + 1
  /\ inbox' = inbox \cup {t}
  /\ UNCHANGED <<bridge, connVars, subscribers, thread, sub_count, targets, reads,
                 publishers, actions, wanted>>

NodeThread ==
  \/ RunActions
  \/ WaitReturns
  \/ \E t \in Topic, c \in Client : handle_message(t, c)

IoThread ==
  \/ \E c \in Client : end_accept(c) \/ handle_read(c) \/ handle_write(c)
  \/ AcceptOfGonePeer
  \/ Signal
  \/ RunReturns

Next ==
  \/ NodeThread
  \/ IoThread
  \/ \E c \in Client : ReadCompletes(c) \/ WriteCompletes(c)
  \/ \E t \in Topic : RosMessage(t)

Spec == Init /\ [][Next]_vars

(* The node's thread runs, and asio runs the handlers that are queued.  The  *)
(* peers owe nothing: a read or a write may stay in flight for ever.         *)
FairSpec ==
  /\ Spec
  /\ WF_vars(NodeThread)
  /\ WF_vars(RunReturns)
  /\ \A c \in Client : WF_vars(handle_read(c)) /\ WF_vars(handle_write(c))

-----------------------------------------------------------------------------
Actions ==
  [op : {"remove"}, client : Client] \cup [op : {"add"}, topic : Topic, client : Client]

(* Type invariant.                                                           *)
TypeOK ==
  /\ bridge \in {"running", "stopping", "stopped", "terminated"}
  /\ clients \subseteq Client
  /\ socket \in [Client -> {"none", "open", "closed"}]
  /\ read \in [Client -> {"none", "armed", "data", "eof", "error", "aborted"}]
  /\ buffer \in [Client -> Seq(Operation)]
  /\ write \in [Client -> {"idle", "active", "ok", "error", "aborted", "stuck"}]
  /\ pending \in [Client -> BOOLEAN]
  /\ subscribers \in [Topic -> SUBSET Client]
  /\ publishers \in [Topic -> SUBSET Client]
  /\ actions \in Seq(Actions)
  /\ thread \in {"loop", "waiting", "handling", "ended"}
  /\ sub_count \in Nat
  /\ targets \subseteq Topic \X Client
  /\ inbox \subseteq Topic
  /\ reads \in Nat /\ messages \in Nat
  /\ wanted \in [Topic -> SUBSET Client]

(* The node's thread lags behind, but never diverges: once it has done what  *)
(* is queued, the subscriptions are those the clients asked for, in the      *)
(* order they asked and left.                                                *)
SubscribersCatchUp == Replay(subscribers, actions) = wanted

(* A message is only passed on to the clients of a live subscription: what   *)
(* was taken is forwarded before any action of the queue changes the         *)
(* subscriptions, and the wait set has a place for each of them.             *)
HandlingIsStable ==
  /\ thread = "handling" => \A x \in targets : x[2] \in subscribers[x[1]]
  /\ thread # "loop" => sub_count = Cardinality(Subscribed(subscribers))

(* When nothing more is to happen to a closed connection (no handler of it   *)
(* is due, no action names it), the node knows it no longer: neither a       *)
(* subscription nor a publisher keeps it, whichever of its handlers failed   *)
(* first and whatever was still in its buffer.                               *)
Quiet(c) ==
  /\ socket[c] = "closed"
  /\ read[c] = "none"
  /\ write[c] \in {"idle", "stuck"}
  /\ \A i \in 1..Len(actions) : actions[i].client # c

GoneIsForgotten ==
  bridge = "running" =>
    \A c \in Client : Quiet(c) => \A t \in Topic : c \notin subscribers[t] \cup publishers[t]

(* A connection the server still counts has a read to come, so that it can   *)
(* notice the peer's end; one it does not count is closed.                   *)
LiveIsRead ==
  bridge = "running" => \A c \in Client :
    /\ c \in clients <=> socket[c] = "open"
    /\ c \in clients => read[c] \in {"armed", "data", "eof", "error"}

(* A subscription asked for is there some time, unless the client leaves,    *)
(* the bridge stops or the node's thread has given up.                       *)
SubscriptionMade ==
  \A t \in Topic, c \in Client :
    c \in wanted[t] ~> (c \in subscribers[t] \/ c \notin wanted[t] \/ ~Alive
                        \/ bridge = "stopping" \/ thread = "ended")

(* After a signal io.run returns: no handler is due for ever.                *)
SignalStops == bridge = "stopping" ~> bridge = "stopped"

=============================================================================
