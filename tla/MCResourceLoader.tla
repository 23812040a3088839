-------------------------- MODULE MCResourceLoader --------------------------
(***************************************************************************)
(* ResourceLoader with three threads, three resources and two places.      *)
(***************************************************************************)
EXTENDS ResourceLoader

CONSTANTS t1, t2, t3, r1, r2, r3

MCThreads == {t1, t2, t3}
MCResources == {r1, r2, r3}
=============================================================================
