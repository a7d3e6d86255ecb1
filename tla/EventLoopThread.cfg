CONSTANTS
  Callers = {c1, c2, c3}
  Owner = Owner
  Thread = Thread
  Nobody = Nobody
SPECIFICATION ThreadSpec
CHECK_DEADLOCK FALSE
INVARIANTS
  LoopIsThere
PROPERTIES
  RunReturnsOrOverwritten
  DestructorReturns
