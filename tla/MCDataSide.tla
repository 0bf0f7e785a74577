----------------------------- MODULE MCDataSide -----------------------------
(* DataSide on a cache of two sets of one way and three lines, two of them  *)
(* in one set: hits, misses, evictions and flushes that take two ticks.     *)
EXTENDS DataSide
=============================================================================
