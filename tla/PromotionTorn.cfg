SPECIFICATION Spec
CONSTANTS
  MaxFaults = 1
  MaxRetries = 0
INVARIANTS
  SnapshotAtRest
