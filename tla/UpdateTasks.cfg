SPECIFICATION FairSpec
CONSTANTS
  r1 = r1
  m1 = m1
  luna = luna
  sol = sol
  Releases <- MCReleases
  Minutes <- MCMinutes
  Models <- MCModels
  None = None
  MaxFaults = 1
INVARIANTS
  ResumeFits
  FinishedIsLastAttempt
PROPERTIES
  VerdictStands
  FinishedStaysOut
  PendingIsAttempted
