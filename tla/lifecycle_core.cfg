SPECIFICATION Spec
CONSTANTS
  r1 = r1
  r2 = r2
  r3 = r3
  q1 = q1
  q2 = q2
  Runs = {r1, r2, r3}
  Requests = {q1, q2}
  None = None
  MaxRounds = 2
  MaxBatch = 2
  LegacyWaitFor = TRUE
  Controls = {"pause", "resume", "prepare", "restart"}
SYMMETRY Symmetry
INVARIANTS
  ExclusiveExecution
  PromptIsAnswerable
  EndedRunIsFinished
PROPERTIES
  ImplementsContract
CHECK_DEADLOCK FALSE
