--------------------------- MODULE MCBronzeIngest ---------------------------
(* Values for TLC's runs of BronzeIngest. *)
EXTENDS BronzeIngest, TLC

CONSTANTS ingest, cli

\* The ingest DAG rewrites its whole lookback; the CLI takes any one day or all.
BothCallers == {ingest, cli}
OneCaller == {ingest}
LookbackAndCli ==
    (ingest :> {Days}) @@ (cli :> ({Days} \cup {{d} : d \in Days}))
LookbackOnly == ingest :> {Days}
AnyDays == ingest :> (SUBSET Days \ {{}})

OnlyIngest == {ingest}
Nobody == {}
=============================================================================
