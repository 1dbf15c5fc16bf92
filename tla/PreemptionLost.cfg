SPECIFICATION Spec
CONSTANTS
  Tasks = {a}
  SchedulerTask = idle
  NoTask = none
  MaxSwitches = 4
INVARIANTS
  SleepersListed
\* The exploration stops at MaxSwitches, and a system that faults stops too.
CHECK_DEADLOCK FALSE
