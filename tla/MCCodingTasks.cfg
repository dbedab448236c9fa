SPECIFICATION TasksSpec
CONSTANTS
  e1 = e1
  e2 = e2
  r1 = r1
  r2 = r2
  Edits = {e1, e2}
  Requests = {r1, r2}
  MaxTurns = 2
  Scenes <- MCScenes
SYMMETRY MCSymmetry
INVARIANTS
  TaskTellsTheTruth
  VerdictIsProven
  CycleIsBounded
CHECK_DEADLOCK FALSE
