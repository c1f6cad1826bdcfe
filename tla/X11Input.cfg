SPECIFICATION FairSpec
CONSTANTS
  Shift = shift
  Insert = insert
  Inputs <- MCInputs
  Events <- MCEvents
  button = button
  HostApps = {app}
  MaxBatch = 2
  MaxRequests = 2
  MaxRefusals = 1
  MaxReads = 1
INVARIANTS
  HeldNeedsClient
  TextLeavesKeysAlone
  OkMeansPasted
  NoStalePaste
  NoXclipLeft
PROPERTIES
  NoOwnerGap
  HeldReleased
  ServesAsPromised
CHECK_DEADLOCK FALSE
