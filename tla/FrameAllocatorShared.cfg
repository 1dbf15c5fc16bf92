SPECIFICATION Spec
CONSTANTS
  Callers = {a, b}
  FrameCount = 8
  FirstFrame = 1
  KernelPages = 1
  BatchSize = 3
  WordBits = 2
INVARIANTS
  FramesHandedOnce
\* A panic stops the system.
CHECK_DEADLOCK FALSE
