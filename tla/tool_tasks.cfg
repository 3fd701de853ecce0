SPECIFICATION Spec
CONSTANTS
  t1 = t1
  t2 = t2
  f1 = f1
  f2 = f2
  Tasks = {t1, t2}
  Files = {f1, f2}
  KeepRounds = 1
  MaxWrites = 3
  Controls = {"cancel", "clear", "restart", "locked", "unreadable"}
SYMMETRY Symmetry
INVARIANTS
  RestoreUndoes
  RestorePointsAreWhole
PROPERTIES
  ReturnedIsRestorable
