SPECIFICATION Spec
CONSTANTS
  MaxBatch = 3
  MaxTail = 4
INVARIANTS OwnTextKept CreditCovered NeverReplayed SentMeansComplete
