SPECIFICATION FairSpec
CONSTANTS
  Timers = {t1, t2}
  Scheduled = {t2}
  Stopped = {t1}
  Period = 1
  MaxRuns = 1
  WheelSize = 2
  Levels = 2
  TickOf <- MCTickOf
  MaxTime = 3
  Delays = {1, 2}
  Worker = Worker
  None = None
CHECK_DEADLOCK FALSE
INVARIANTS NoTimerStranded StopIsFinal NotEarly NoRelock
PROPERTIES EveryTimerRuns
