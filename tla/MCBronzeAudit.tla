--------------------------- MODULE MCBronzeAudit ---------------------------
(* Values for TLC's runs of BronzeAudit. *)
EXTENDS BronzeAudit, TLC

CONSTANTS audit, cli

Callers == {audit, cli}
AuditOnly == {audit}
\* The audit may fill any span; the CLI takes the whole calendar once.
AuditWindows == (audit :> {a..b : a, b \in Days}) @@ (cli :> {Days})
=============================================================================
