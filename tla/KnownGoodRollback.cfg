SPECIFICATION RecoverySpec
CONSTANTS
  Items <- MCItems
  Listed <- MCListed
  Contents <- MCContents
  Track <- MCTrack
  Runtimes <- MCRuntimes
  Missing = "absent"
  Torn = "torn"
  MaxAttempts = 2
  MaxFailures = 2
PROPERTIES
  RestoredMeansPrevious
