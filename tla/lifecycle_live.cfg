SPECIFICATION FairSpec
CONSTANTS
  r1 = r1
  r2 = r2
  q1 = q1
  q2 = q2
  Runs = {r1, r2}
  Requests = {q1, q2}
  None = None
  MaxRounds = 2
  MaxBatch = 1
  LegacyWaitFor = TRUE
  Controls = {"pause", "disconnect", "restart"}
INVARIANTS
  RunningRunIsOwned
PROPERTIES
  RunComesToRest
  ReservationEnds
CHECK_DEADLOCK FALSE
