SPECIFICATION Spec
CONSTANTS
  N = 2
  Alive = {"running", "new"}
  Faults = {"forbidden", "failed"}
  Caps <- AllCaps
  Heights <- AllHeights
  Widths <- AllWidths
  TemplateWidth = 6
  PopupWidth = 62
INVARIANTS LiveMeansCurrent MessageTrueWhenLive FitsTerminal SelectionShown ConfirmationComplete DimTellsTheRound CapAsEnforced
CHECK_DEADLOCK FALSE
