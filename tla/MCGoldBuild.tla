---------------------------- MODULE MCGoldBuild ----------------------------
(* Values for TLC's runs of GoldBuild. *)
EXTENDS GoldBuild

\* One table of each kind: dim_service_type, fact_service_request_zone_event,
\* fact_request_forecast (F5), fact_winter_event_zone_load (F6) and
\* fact_recommendation (F7).
Kinds == <<"antijoin", "chunks", "forecast", "load", "recommendation">>
KindReads == <<{}, {1}, {}, {2, 3}, {3, 4}>>
KindGates == <<{}, {1}, {1}, {1}, {1}>>
KindChunks == <<2, 2, 1, 1, 1>>
AllButServiceType == {2, 3, 4, 5}
\* all, --only dims, facts, scoring, and two single tables.
Onlys == {1..5, {1}, {2}, {3, 4, 5}, {3}, {5}}

\* dim_service_type and one fact, built by two builds at a time.
TwoKinds == <<"antijoin", "chunks">>
TwoReads == <<{}, {1}>>
TwoGates == <<{}, {1}>>
TwoChunks == <<2, 2>>
TwoOnlys == {{1, 2}, {2}}
OnlyTheFact == {2}
=============================================================================
