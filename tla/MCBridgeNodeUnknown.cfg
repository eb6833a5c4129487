SPECIFICATION Spec
CONSTANTS
  t1 = t1
  t2 = t2
  bad = bad
  Client = {c1, c2}
  Topic <- MCTopic
  BadTopics <- MCBadTopics
  Batches <- UnknownBatches
  MaxReads = 3
  MaxMessages = 2
INVARIANT GoneIsForgotten
CHECK_DEADLOCK FALSE
