------------------------- MODULE MCMemoryLifecycle -------------------------
(***************************************************************************)
(* Small instances of MemoryLifecycle: two stores that began as copies of  *)
(* one bundle and exchange bundles; the one that imports has a worker.      *)
(***************************************************************************)
EXTENDS MemoryLifecycle, TLC

CONSTANTS home, away, worker, m1, m2

Workers == away :> worker
Copied  == {m1}
=============================================================================
