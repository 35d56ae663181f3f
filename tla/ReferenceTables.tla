--------------------------- MODULE ReferenceTables ---------------------------
(***************************************************************************)
(* The Silver jobs that rebuild a whole reference table.                   *)
(*                                                                         *)
(* etl_snow_clearing_address builds its table from one collected day of a  *)
(* snapshot dataset and checks before it writes.  etl_plow_shift,          *)
(* etl_parking_ban and etl_plow_zone_boundary build theirs from a static   *)
(* Bronze object and write before they check; the boundary job caches      *)
(* nothing, so its write and its check each read the object.  A static     *)
(* object is its number of valid rows.                                     *)
(***************************************************************************)
EXTENDS SnapshotCollection

CONSTANTS
    Addresses,    \* the snapshot dataset, and the table built from it
    MinAddresses, \* MIN_EXPECTED_ADDRESS_ROWS
    Statics,      \* the tables built from a static object
    Expected,     \* the row count each of these expects
    Boundary,     \* the one that accepts more rows, and caches none
    MaxUploads    \* bound: uploads of static objects

ASSUME ReferenceAssumption ==
    /\ Addresses \in Datasets
    /\ Addresses \notin Statics
    /\ MinAddresses \in Nat \ {0}
    /\ Expected \in [Statics -> Nat \ {0}]
    /\ Boundary \in Statics
    /\ MaxUploads \in Nat

Tables == Statics \cup {Addresses}

VARIABLES
    static,  \* the valid rows of each static object, 0 before there is one
    job,     \* where the job of each table stands
    cached,  \* the rows it cached
    table,   \* the rows of each Silver table, 0 when there are no files
    still,   \* the static object has not changed since its job began
    uploads  \* counted against the bound

referenceVars == <<static, job, cached, table, still, uploads>>

ReferenceInit ==
    /\ static = [t \in Statics |-> 0]
    /\ job = [t \in Tables |-> "idle"]
    /\ cached = [t \in Tables |-> 0]
    /\ table = [t \in Tables |-> 0]
    /\ still = [t \in Statics |-> TRUE]
    /\ uploads = 0

JobTo(t, next) == job' = [job EXCEPT ![t] = next]

\* The facade replaces a static object: any number of rows, as the upstream is.
\* (Its source has no snapshot datasets.)
Upload(t, n) ==
    /\ DatasetsOf[source] = <<>>
    /\ uploads < MaxUploads
    /\ uploads' = uploads + 1
    /\ static' = [static EXCEPT ![t] = n]
    /\ still' = [still EXCEPT ![t] = FALSE]
    /\ UNCHANGED <<collectorVars, faults, job, cached, table>>

Collected == {d \in Days : data[Addresses][d] # Absent}

\* The freshest collected day, or the one the operator names: its rows are
\* cached and counted.  No manifest is looked at.
ReadAddresses(d) ==
    /\ job[Addresses] \in {"idle", "ok", "failed"}
    /\ d \in Days
    /\ IF d \in Collected /\ Size(data[Addresses][d]) >= MinAddresses
          THEN cached' = [cached EXCEPT ![Addresses] = Size(data[Addresses][d])]
               /\ JobTo(Addresses, "write")
          ELSE UNCHANGED cached /\ JobTo(Addresses, "failed")
    /\ UNCHANGED <<collectorVars, faults, static, table, still, uploads>>

ReadStatic(t) ==
    /\ job[t] \in {"idle", "ok", "failed"}
    /\ IF static[t] = 0 THEN UNCHANGED cached /\ JobTo(t, "failed")
       ELSE cached' = [cached EXCEPT ![t] = static[t]] /\ JobTo(t, "write")
    /\ still' = [still EXCEPT ![t] = TRUE]
    /\ UNCHANGED <<collectorVars, faults, static, table, uploads>>

\* What a step of the job sees of its rows.
Seen(t) == IF t = Boundary THEN static[t] ELSE cached[t]

\* A flat overwrite of the whole table; the address job has nothing left to check.
WriteTable(t) ==
    /\ job[t] = "write"
    /\ table' = [table EXCEPT ![t] = Seen(t)]
    /\ JobTo(t, IF t = Addresses THEN "ok" ELSE "check")
    /\ UNCHANGED <<collectorVars, faults, static, cached, still, uploads>>

\* Broken variant: too many rows are taken for good news everywhere.
NotFewer(t, n) == n >= Expected[t]

\* assert_row_count, and the boundary job's own test.
CountOk(t, n) == IF t = Boundary THEN n >= Expected[t] ELSE n = Expected[t]

CheckTable(t) ==
    /\ job[t] = "check"
    /\ JobTo(t, IF CountOk(t, Seen(t)) THEN "ok" ELSE "failed")
    /\ UNCHANGED <<collectorVars, faults, static, cached, table, still, uploads>>

\* The process dies, or another of its checks raises: those of the address job
\* before it writes, the others after.  Overwriting deletes the old files first,
\* so a death while it writes leaves none.
JobFails(t) ==
    /\ job[t] \in {"write", "check"}
    /\ faults < MaxFaults
    /\ faults' = faults + 1
    /\ \/ UNCHANGED table
       \/ job[t] = "write" /\ table' = [table EXCEPT ![t] = 0]
    /\ JobTo(t, "failed")
    /\ UNCHANGED <<collectorVars, static, cached, still, uploads>>

ReferenceNext ==
    \/ \E t \in Statics, n \in 1..MaxRow : Upload(t, n)
    \/ \E d \in Days : ReadAddresses(d)
    \/ \E t \in Statics : ReadStatic(t) \/ CheckTable(t)
    \/ \E t \in Tables : WriteTable(t) \/ JobFails(t)

-----------------------------------------------------------------------------

ReferenceTypeOK ==
    /\ static \in [Statics -> Nat]
    /\ job \in [Tables -> {"idle", "write", "check", "ok", "failed"}]
    /\ cached \in [Tables -> Nat]
    /\ table \in [Tables -> Nat]
    /\ still \in [Statics -> BOOLEAN]
    /\ uploads \in 0..MaxUploads

\* What a consumer may rely on: the address table is a snapshot that was large
\* enough, or has no rows at all after a death; a static table whose last job
\* was green has the expected rows, the boundary unless its object was replaced
\* while the job ran.
ReferenceTablesChecked ==
    /\ table[Addresses] = 0 \/ table[Addresses] >= MinAddresses
    /\ \A t \in Statics : job[t] = "ok" /\ (t = Boundary => still[t]) =>
           IF t = Boundary THEN table[t] >= Expected[t] ELSE table[t] = Expected[t]
=============================================================================
