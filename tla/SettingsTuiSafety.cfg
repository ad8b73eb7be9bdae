SPECIFICATION Spec
CONSTANTS
  N = 2
  Rounds = {k0, k1}
  AfterDelete = k0
  Watched = {}
  Alive = {"running"}
  Faults = {"forbidden"}
INVARIANTS TypeOK DialogTellsDeletes
CONSTRAINT SecondBoxStays
CHECK_DEADLOCK FALSE
