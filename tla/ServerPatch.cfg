SPECIFICATION Spec
CONSTANTS
  Byte <- MCByte
  Drafts <- MCDrafts
  Foreign <- MCForeign
  Absent = Absent
INVARIANTS
  OnlyReviewedBytes
  OriginalKept
  SearchComplete
