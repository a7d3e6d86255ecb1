CONSTANTS
  Timers = {t1, t2}
  Kinds = {"after", "every", "entry"}
  Delays = {0, 2, 3, 7}
  kTimingMinute = 3
  kTimingHour = 6
  kTimingDay = 12
  kDays = 2
  MaxNow = 16
  MaxJump = 2
  NoTimer = NoTimer
SPECIFICATION Spec
CHECK_DEADLOCK FALSE
PROPERTIES
  FiresWhenDue
