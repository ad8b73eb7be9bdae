SPECIFICATION Spec
CONSTANTS
  N = 1
  Rounds = {k0, k1, k2}
  AfterDelete = k0
  Watched = {1}
  Alive = {"running"}
  Faults = {"failed"}
PROPERTY NeverBackBeforeDelete
CHECK_DEADLOCK FALSE
