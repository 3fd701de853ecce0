SPECIFICATION Spec
CONSTANTS
  r1 = r1
  r2 = r2
  q1 = q1
  q2 = q2
  Runs = {r1, r2}
  Requests = {q1, q2}
  None = None
  MaxRounds = 1
  MaxBatch = 1
  LegacyWaitFor = FALSE
  Controls = {"pause", "resume", "stop", "prepare", "disconnect", "badRequest", "restart"}
SYMMETRY Symmetry
INVARIANTS
  TaskMirrorsCurrentRun
  StopEndsPrompt
PROPERTIES
  FinishedIsFinal
CHECK_DEADLOCK FALSE
