CONSTANTS
  Deliveries = {d1, d2}
  Statuses = {"new", "on_the_way", "delivered"}
  MaxChanges = 3
  Nothing = Nothing
SPECIFICATION FairSpec
INVARIANTS TypeOK ReloadsOnlyForChanges
PROPERTIES PageCatchesUp
