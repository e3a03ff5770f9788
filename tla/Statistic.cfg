\* Two connections that are relayed while the manager ticks.
SPECIFICATION StatFairSpec
CONSTANTS
  Trackers = {t1, t2}
  Sizes = {1}
  MaxBytes = 1
INVARIANTS
  TotalsAgree
  RateAccounting
PROPERTY
  RateSettles
