\* The answer of a tunnel or a query that finds a stale entry.
SPECIFICATION ResolverSpec
CONSTANTS
  Groups = {t1, a1}
  Api = {a1}
  Servers = {s1, s2}
  Questions = {q}
  Nil = Nil
INVARIANTS
  HitsNeverFail
