----------------------------- MODULE MCLruCache -----------------------------
(***************************************************************************)
(* LruCache for TLC.                                                       *)
(***************************************************************************)
EXTENDS LruCache, TLC

\* What dns.NewResolver builds (its size scaled down), and a cache whose
\* entries expire and are renewed when they are read.
ResolverCache == [maxAge |-> 0, maxSize |-> 2, staleReturn |-> TRUE,
                  updateAgeOnGet |-> FALSE]
ExpiringCache == [maxAge |-> 1, maxSize |-> 2, staleReturn |-> FALSE,
                  updateAgeOnGet |-> TRUE]

MCOptions     == {ResolverCache, ExpiringCache}
MCResolver    == {ResolverCache}

LruSymmetry == Permutations(Keys)
=============================================================================
