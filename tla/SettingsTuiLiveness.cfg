SPECIFICATION FairSpec
CONSTANTS
  N = 1
  Rounds = {k0, k1, k2}
  AfterDelete = k0
  Watched = {}
  Alive = {"running"}
  Faults = {"forbidden", "failed"}
PROPERTIES DialogSettles CatchesUp ImplementsConsole PollsDoNotPileUp
CHECK_DEADLOCK FALSE
