---------------------------- MODULE MCBridgeNode ----------------------------
(* Model checking of BridgeNode: two connections, two good topics and one    *)
(* whose name rcl refuses.                                                   *)
EXTENDS BridgeNode

CONSTANTS t1, t2, bad

Op(kind, topic, known) == [op |-> kind, topic |-> topic, known |-> known]

MCBatches ==
  { <<Op("add_subscriber", t1, TRUE)>>,
    <<Op("add_subscriber", t2, TRUE), Op("add_publisher", t1, TRUE)>>,
    <<Op("add_subscriber", bad, TRUE), Op("add_publisher", t1, FALSE)>> }

UnknownBatches ==
  { <<Op("add_subscriber", t1, TRUE)>>, <<Op("unknown", t1, FALSE)>> }

MCTopic == {t1, t2, bad}
MCBadTopics == {bad}

=============================================================================
