----------------------------- MODULE MCCachePool -----------------------------
(***************************************************************************)
(* CachePool with a few threads, calling recognize without end.            *)
(***************************************************************************)
EXTENDS CachePool

CONSTANTS t1, t2, t3

MCThreads == {t1, t2, t3}
=============================================================================
