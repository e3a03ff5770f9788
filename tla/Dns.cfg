\* A tunnel and an API query ask one question of two servers, or a tunnel looks up a host.
SPECIFICATION LookupFairSpec
CONSTANTS
  Groups = {t1, a1}
  Api = {a1}
  Servers = {s1, s2}
  Questions = {q}
  Nil = Nil
INVARIANTS
  FailsOnlyWhenAllFailed
  OneExchangePerServer
  PrefersA
PROPERTIES
  LookupsReturn
  ExchangesEnd
