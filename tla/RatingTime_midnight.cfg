CONSTANTS
  Clock <- TwoDays
  Travels <- Routes
  Edits = {}
  Entry = {"confirm"}
  None = None
SPECIFICATION Spec
INVARIANTS ConfirmedAskedInWindow
CHECK_DEADLOCK FALSE
