----------------------------- MODULE MCLRUCache -----------------------------
(***************************************************************************)
(* TLC's instance of LRUCache, with what a comment says of capacity 0.     *)
(***************************************************************************)
EXTENDS LRUCache

\* The comment in Insert says that capacity_ == 0 is supported and turns the
\* cache off: an Insert, Lookup or Erase on such a cache must not crash.
CapacityZeroTurnsCacheOff ==
  config.capacity = 0 => mode # "segfault"

=============================================================================
