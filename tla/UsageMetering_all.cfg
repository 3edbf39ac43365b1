CONSTANTS
  Processes = {p1}
  Threads = {t1, t2}
  Addresses = {a1}
  Channels = {"viber"}
  Ttl = 2
  MonthLength = 3
  LastTime = 4
  MaxCalls = 3
SPECIFICATION Spec
SYMMETRY WorkerSymmetry
INVARIANTS MapsNeverUndercounted MonthMissesFew MessagesCountedOnce KnownAddressIsFree SummaryIsRecent
CHECK_DEADLOCK FALSE
