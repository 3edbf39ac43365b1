CONSTANTS
  Workers = {w1, w2, w3}
  Shops = {s1, s2}
  Keys = {k1}
  ApiKeys = {a1, a2}
  MaxDeliveries = 3
  NoShop = NoShop
  NoKey = NoKey
  NoApiKey = NoApiKey
SPECIFICATION ApiSpec
INVARIANTS SameKeySameDelivery NoDuplicateLeft
PROPERTIES RevokedIsFinal KeepsPromise
SYMMETRY RequestSymmetry
CHECK_DEADLOCK FALSE
