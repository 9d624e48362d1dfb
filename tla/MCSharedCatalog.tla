-------------------------- MODULE MCSharedCatalog --------------------------
(***************************************************************************)
(* A small instance of SharedCatalog.  Threads that only differ in name    *)
(* may be exchanged where no liveness is checked.                          *)
(***************************************************************************)
EXTENDS SharedCatalog, TLC

CONSTANTS t1, t2, t3, new

ThreadSymmetry == Permutations(Threads)
=============================================================================
