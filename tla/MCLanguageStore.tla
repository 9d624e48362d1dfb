-------------------------- MODULE MCLanguageStore --------------------------
(***************************************************************************)
(* A small instance of LanguageStore.  k1 and k2 have the same hash, k3    *)
(* shares their bucket until the table grows; a value may be empty; and   *)
(* the allocations are small enough to grow, run out and wrap.             *)
(***************************************************************************)
EXTENDS LanguageStore

CONSTANTS k1, k2, k3, short, long

MCLen == [t \in Keys \cup Values |-> IF t = short THEN 0 ELSE 1]
MCHash == [k \in Keys |-> IF k = k3 THEN 2 ELSE 0]
=============================================================================
