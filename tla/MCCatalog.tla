----------------------------- MODULE MCCatalog -----------------------------
(***************************************************************************)
(* A small instance of Catalog: English and two forms of Russian for two   *)
(* slots, and one key too long to be stored whole.                         *)
(***************************************************************************)
EXTENDS Catalog

CONSTANTS en, ru, ruRU, hello, endless, endles, hi, privet, Main, Own

MCTrail == [code \in Codes |-> IF code = ruRU THEN <<ruRU, ru>> ELSE <<code>>]
MCClamped == [k \in KeyArgs |-> IF k = endless THEN endles ELSE k]
MCImages == {[k \in Keys \cap {hello} |-> hi]}

(* States that differ in nothing a run's properties or any later step can  *)
(* tell are explored once: what call was last, where no property asks ...  *)
MCLoads == <<ctx, loading, seen>>

(* ... and errors, statistics and lines, but how many may follow, where    *)
(* what callers see of the languages is the question.                      *)
MCShown ==
    <<[c \in Catalogs |-> <<ctx[c].languages, StateOf(ctx[c])>>], loading, last,
      Loading /\ Filled.load_stats.lines_read = MaxLines>>
=============================================================================
