CONSTANTS
  Requests = {r1, r2}
  Offered = {"start", "ready", "deliver", "resend"}
  Etas = {t1}
  NoEta = NoEta
SPECIFICATION FairEventsSpec
INVARIANTS LatestEventIsTrue
PROPERTIES UnderWayIsKept DeliveredIsKept OnTheWayIsAnnounced MerchantCatchesUp
