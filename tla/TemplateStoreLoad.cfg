SPECIFICATION FairSpec
CONSTANTS
  Requests = {r1, r2}
  Contents = {A, B}
  Bad = Bad
  Absent = Absent
  MaxPublished = 1
INVARIANTS TypeOK ServedWasCurrent NoMatchWasJustified MutexHeldByReader CacheMatchesFile OwnVolumesOnly
PROPERTY EveryLoadEnds
