SPECIFICATION Spec
CONSTANTS
  Limit = 8
  Digits = 3
  Word = 2
  Longest = 6
INVARIANT LabelValid
CHECK_DEADLOCK FALSE
