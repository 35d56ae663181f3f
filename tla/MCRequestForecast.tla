------------------------- MODULE MCRequestForecast -------------------------
(* Values for TLC's run of RequestForecast. *)
EXTENDS RequestForecast

\* The production rule scaled down (a day or a rolling total, one day bridged),
\* a rule whose window the lookback fills, and the Silver backfill's defaults
\* (no gap, no rolling total).
MCRules ==
    {[threshold |-> 2, gap |-> 1, window |-> 4, accum |-> 3],
     [threshold |-> 2, gap |-> 0, window |-> 2, accum |-> 2],
     [threshold |-> 2, gap |-> 0, window |-> 0, accum |-> 0]}

\* A count of its own for every cell of the panel.
MCTarget(u, day) == 10 * u + day
=============================================================================
