SPECIFICATION Spec
CONSTANTS
  Tasks = {a, b, c}
  NoTask = none
INVARIANT WaitersOnlyWait
