SPECIFICATION FairSpec
CONSTANTS
  t1 = t1
  t2 = t2
  bad = bad
  Client = {c1, c2}
  Topic <- MCTopic
  BadTopics <- MCBadTopics
  Batches <- MCBatches
  MaxReads = 2
  MaxMessages = 1
INVARIANTS SubscribersCatchUp HandlingIsStable GoneIsForgotten LiveIsRead
PROPERTIES SubscriptionMade SignalStops
CHECK_DEADLOCK FALSE
