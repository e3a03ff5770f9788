\* A reader and any number of writers on a cache of two entries and three keys.
SPECIFICATION LruSpec
CONSTANTS
  Keys = {k1, k2, k3}
  Values = {v1}
  Callers = {c1}
  Refs = {1, 2, 3, 4}
  Expiries = {2}
  Nil = Nil
  Options <- MCOptions
  MaxTime = 1
SYMMETRY LruSymmetry
INVARIANTS
  Indexed
  RecencyOrder
  ReadsOwnKey
