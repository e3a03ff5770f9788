\* The resolver's cache: one goroutine renews an entry while another reads it.
SPECIFICATION LruSpec
CONSTANTS
  Keys = {k1}
  Values = {v1, v2}
  Callers = {c1}
  Refs = {1, 2, 3, 4}
  Expiries = {0, 2}
  Nil = Nil
  Options <- MCResolver
  MaxTime = 1
INVARIANTS
  ReadsStoredPair
