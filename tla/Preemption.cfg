SPECIFICATION Spec
CONSTANTS
  Tasks = {a, b}
  SchedulerTask = idle
  NoTask = none
  MaxSwitches = 5
SYMMETRY Symmetry
INVARIANTS
  DisableLeaksPerSwitch
  SectionsInterruptible
  NoStaleChoice
\* The exploration stops at MaxSwitches, and a system that faults stops too.
CHECK_DEADLOCK FALSE
