SPECIFICATION CleanerSpec
CONSTANTS
  Tasks = {c, a, b}
  SchedulerTask = idle
  CleanerTask = c
  NoTask = none
  UsedPolicies = {0}
  DEFAULT_PRIORITY = 1
  DEFAULT_TIME_SLICE = 1
  TimeModulus = 2
  SleepTimes = {1}
INVARIANTS
  NoneLost
