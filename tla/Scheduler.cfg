SPECIFICATION FairSpec
CONSTANTS
  Tasks = {c, a, b}
  SchedulerTask = idle
  CleanerTask = c
  UsedPolicies = {0, 2}
  DEFAULT_PRIORITY = 2
  DEFAULT_TIME_SLICE = 2
  TimeModulus = 3
  SleepTimes = {1}
INVARIANTS
  TypeOK
  EachTaskInItsList
  OnlyRunningIsActive
  WaitsWithFullSlice
  PriorityInRange
PROPERTIES
  BestTaskDispatched
  DueSleeperAdvances
  SleepersWake
  ReadyPolicy0Runs
