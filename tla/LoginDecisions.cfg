SPECIFICATION Spec
CONSTANTS
  Names = {n1, n2}
  Keys = {k1}
  NoKey = NoKey
  Absent = Absent
  Blank = Blank
  Templates = {"shell", "other"}
  Policies <- MCPolicies
SYMMETRY Symmetry
INVARIANTS TypeOK AdmittedWasEntitled DeniedWasJustified
CHECK_DEADLOCK FALSE
