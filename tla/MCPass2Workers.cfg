SPECIFICATION FairSpec
CONSTANTS
  Devices = {d1, d2, d3, d4}
  Concurrency = {0, 1, 2, 3}
  None = None
INVARIANTS TypeOK WorkersBounded EachDeviceOnce SuccessMeansAll
PROPERTIES Termination
CHECK_DEADLOCK FALSE
