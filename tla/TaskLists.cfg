SPECIFICATION Spec
CONSTANTS
  Tasks = {a, b, c, d}
  NoTask = none
  Lists = {available, blocked}
INVARIANTS
  TypeOK
  TailEndsTheWalk
  ListsDisjoint
PROPERTIES
  ImplementsQueues
