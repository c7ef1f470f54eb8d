SPECIFICATION Spec
CONSTANTS
  TopicConfigs = {"t1", "t2", "t3"}
  Messages = {"m1", "m2", "m3"}
  QueueMax = 2
  LogEnd = 3
  MaxFailures = 2
  Buffers = {"b1", "b2", "b3"}
  Capacities <- MCCapacities
  maxPooledSize = 5
  Processes = {p1, p2, p3}
  MaxSegments = 2
INVARIANTS KafkaDelivers AtLeastOnce BuffersConserved NamesReady Daemonized
CHECK_DEADLOCK FALSE
SYMMETRY ProcessSymmetry
