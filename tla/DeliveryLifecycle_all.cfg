CONSTANTS
  Requests = {r1, r2}
  Offered = {"start", "ready", "deliver", "delete", "restore", "resend"}
  Etas = {t1, t2}
  NoEta = NoEta
SPECIFICATION Spec
INVARIANTS StartActsOnce NoLooseEnds EtaToldIsStored MerchantTold IInv
PROPERTIES ColumnOwners KeepsPromise
SYMMETRY RequestSymmetry
