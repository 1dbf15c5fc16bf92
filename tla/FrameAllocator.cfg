SPECIFICATION Spec
CONSTANTS
  Callers = {a}
  FrameCount = 16
  FirstFrame = 1
  KernelPages = 1
  BatchSize = 3
  WordBits = 2
INVARIANTS
  TypeOK
  FramesHandedOnce
  NoFrameLost
  LowestFirst
PROPERTIES
  CallsEnd
\* A panic stops the system.
CHECK_DEADLOCK FALSE
