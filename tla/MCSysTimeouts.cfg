CONSTANTS
  Period = 24
  Cyclic <- MCCyclic
  interval_ms <- MCIntervals
  TCP_TMR_INTERVAL = 1
  AppMsecs = {0}
  MEMP_NUM_SYS_TIMEOUT = 4
  MaxHandlerTime = 1
  MaxLate = 1
SPECIFICATION Spec
INVARIANTS
  TimersTrue
PROPERTIES
  NeverEarly
  CheckReturns
  EveryTimerRuns
