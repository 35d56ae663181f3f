------------------------------ MODULE MCDqAudit ------------------------------
(* Values for TLC's run of DqAudit. *)
EXTENDS DqAudit, TLC

CONSTANTS dag, backfill

BothJobs == {dag, backfill}
\* An ordinary day, one with a row more, one whose only row has no usable date.
ThreeContents == {[good |-> 1, bad |-> 0], [good |-> 2, bad |-> 0], [good |-> 0, bad |-> 1]}
\* Day 1 is past the lookback and audited; days 1 and 2 share a month.
OneMonth == [d \in Days |-> 1]
SomeWindows == (dag :> {{2}}) @@ (backfill :> {{1, 2}})
PastTail == {1}
=============================================================================
