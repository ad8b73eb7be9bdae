SPECIFICATION Spec
CONSTANTS
  p1 = p1  p2 = p2  other = other
  Requests = {r1, r2}
  Templates = {1, 2}
  Catalogs <- Published
  BoxPodName <- Pods
  PodNames = {p1, p2, other}
  Absent = Absent
  Foreign <- Edits
  Tries = 2
SYMMETRY Symmetry
INVARIANTS TypeOK RoleGrantsOwnBoxes AloneGrantInForce
PROPERTIES ListWasPublished ReconcilingEnds NoMutualDenial
