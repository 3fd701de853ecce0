SPECIFICATION FairSpec
CONSTANTS
  r1 = r1
  r2 = r2
  Runs = {r1, r2}
  Policy = "skip_if_running"
  Period = 2
  Day = 2
  MaxTime = 4
INVARIANTS
  RunsDoNotOverlap
  EachTimeFiresOnce
  RecordedOnce
PROPERTIES
  RepeatingIsScheduled
