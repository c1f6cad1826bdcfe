SPECIFICATION Spec
CONSTANTS
  MAX_SESSIONS = 2
  NoPid = NoPid
  Pids = {p1, p2, p3}
INVARIANTS
  ChildrenAccounted
  NotWedged
PROPERTIES
  StopEnds
CHECK_DEADLOCK FALSE
