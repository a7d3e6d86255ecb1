CONSTANTS
  Timers = {t1}
  Kinds = {"after"}
  Delays <- AllDelays
  kTimingMinute = 3
  kTimingHour = 6
  kTimingDay = 12
  kDays = 2
  MaxNow = 60
  MaxJump = 1
  NoTimer = NoTimer
SPECIFICATION Spec
CHECK_DEADLOCK FALSE
INVARIANTS
  NeverOverdue
PROPERTIES
  FiresNearDelay
