\* Two requests in flight, one of them may break off.
SPECIFICATION Spec
CONSTANTS
  Tasks = {t1, t2}
  Prices = {0, 1, 2}
  NoPrice = NoPrice
  ClientStatuses = {"negotiating", "closed"}
  MaxRequests = 4
  MaxFaults = 1
SYMMETRY TaskSymmetry
INVARIANT TypeOK
INVARIANT PoAtAgreedPrice
INVARIANT DealFollowsOrder
INVARIANT ListedNotOptimistic
INVARIANT PassIsEarned
INVARIANT MirrorIsNewest
INVARIANT AcceptFollowsCounter
PROPERTY PoTermsFrozen
CHECK_DEADLOCK FALSE
