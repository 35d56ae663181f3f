--------------------------- MODULE MCBackfillPlan ---------------------------
(* Values for TLC's runs of BackfillPlan. *)
EXTENDS BackfillPlan

\* plan_full_backfill.sh and plan_wpg_311_backfill.sh, cut down to a few windows.
FullPlan == [s \in Shells |-> IF s = "parent" THEN 1 ELSE 2]
SmallPlan == [s \in Shells |-> 1]
=============================================================================
