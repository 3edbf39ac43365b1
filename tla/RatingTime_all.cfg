CONSTANTS
  Clock <- TwoDays
  Travels <- Routes
  Edits <- TypedIn
  Entry = {"auto", "confirm"}
  None = None
SPECIFICATION Spec
INVARIANTS PlannedInWindow ComputedAskedInWindow
CHECK_DEADLOCK FALSE
