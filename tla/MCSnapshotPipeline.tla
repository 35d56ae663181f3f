-------------------------- MODULE MCSnapshotPipeline --------------------------
(* Values for TLC's run of SnapshotPipeline. *)
EXTENDS SnapshotPipeline, TLC

CONSTANTS snow, weather, statics, pair, \* sources
          status, forecast, sensors, \* snapshot datasets
          shifts, zones,            \* static tables
          dag, cli

FourSources == {snow, weather, statics, pair}
ThreeDatasets == {status, forecast, sensors}
\* As configured, one snapshot dataset each and none for the static sources;
\* and a source of two, which the collector is written for.
Configured == (snow :> <<status>>) @@ (weather :> <<forecast>>) @@ (statics :> <<>>)
              @@ (pair :> <<sensors, status>>)
\* A full page, or a row more.
TwoOrThree == {{2, 3}, {1, 2, 3}}
OnSocrata == {status}
Floors == (status :> 2) @@ (forecast :> 1) @@ (sensors :> 1)
StaticTables == {shifts, zones}
Counts == (shifts :> 2) @@ (zones :> 2)
=============================================================================
