SPECIFICATION FairSpec
CONSTANTS
  MaxFaults = 3
  MaxRetries = 1
INVARIANTS
  LivePrefixSound
  OldReleaseKept
  BridgeNotStranded
PROPERTIES
  ImplementsUpgrade
  OneTransactionPerTask
  InterruptionResolved
