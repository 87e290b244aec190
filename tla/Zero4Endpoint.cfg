SPECIFICATION Spec
CONSTANTS
  Cases = 3
  Workers = 2
  Seconds = 2
  Slack = 2
  WorkerGrace = 1
  OuterGrace = 2
  Faults = 2
INVARIANTS
  NoWorkerOutlives
  CompleteIsWhole
PROPERTIES
  PeersStopped
  EndpointEnds
CHECK_DEADLOCK FALSE
