SPECIFICATION Spec
CONSTANTS
  p1 = p1
  p2 = p2
  w1 = w1
  w2 = w2
  Producers <- MCProducers
  Workers <- MCWorkers
  QueueSize = 2
  MaxTasks = 3
INVARIANTS TypeOK MutualExclusion CountedIsServed PopFindsTask EachTaskOnce
PROPERTY AcceptedLeaves
CHECK_DEADLOCK FALSE
