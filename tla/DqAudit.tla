------------------------------- MODULE DqAudit -------------------------------
(***************************************************************************)
(* dag_dq_audit over the Bronze and Silver of SilverWindow: the audit task *)
(* with its retries, the append to dq_audit_log, and the certification of  *)
(* the run named by XCom.                                                  *)
(*                                                                         *)
(* One check is modelled by what it does: conservation, which compares the *)
(* record counts of the manifests with a COUNT through Trino over the days *)
(* that are past the late-arrival tail.  The other rules pass or cannot    *)
(* run; a finding of theirs would count like one of conservation.  The     *)
(* scorecard only reads and is left out.                                   *)
(***************************************************************************)
EXTENDS SilverWindow, Functions

CONSTANTS
    Audited,     \* the days in the window that are past the late-arrival tail
    MaxTries,    \* tries of the audit task in one DAG run (retries + 1)
    MaxAudits    \* bound: tries of the audit task, over all DAG runs

ASSUME DqAssumption ==
    /\ Audited \in SUBSET Days
    /\ MaxTries \in Nat \ {0}
    /\ MaxAudits \in Nat

RunIds == 1..MaxAudits
Outcomes == SUBSET {"pass", "error", "broken"}
Statuses == {"certified", "suspect", "unknown"}

VARIABLES
    audit,    \* where the DAG run stands
    tries,    \* tries of the audit task in this DAG run
    runId,    \* the id of the last try that made one; ids grow with time
    xcom,     \* the run id in XCom, 0 for none
    sumBronze,\* what the manifests sum up to; -1 when one was missing
    log,      \* dq_audit_log: the outcomes filed under each run id
    cert,     \* the newest row of gold_certification
    still     \* the audited data have not changed since this try began

dqVars == <<audit, tries, runId, xcom, sumBronze, log, cert, still>>
pipelineVars == <<silverVars, dqVars>>

NoCert == [run |-> 0, status |-> "unknown"]

DqInit ==
    /\ SilverInit
    /\ audit = "idle"
    /\ tries = 0 /\ runId = 0 /\ xcom = 0
    /\ sumBronze = 0
    /\ log = [r \in RunIds |-> {}]
    /\ cert = NoCert
    /\ still = FALSE

-----------------------------------------------------------------------------
\* run_check, kind bronze_manifest_sum.

\* A missing manifest is no answer, not a zero.
ManifestSum ==
    IF \E d \in Audited : bronze[d] = NoRows THEN -1
    ELSE SumFunctionOnSet([d \in Days |-> Rows(bronze[d])], Audited)

\* COUNT(*) through Trino: rows of unregistered partitions are not there.
TrinoCount == SumFunctionOnSet([d \in Days |-> IF d \in trino THEN parquet[d] ELSE 0], Audited)

\* Broken variant: only duplicates are errors, missing rows are not.
ConservationOneSided(silver) ==
    IF sumBronze = -1 THEN "broken"
    ELSE IF sumBronze >= silver THEN "pass" ELSE "error"

Conservation(silver) ==
    IF sumBronze = -1 THEN "broken"
    ELSE IF sumBronze = silver THEN "pass" ELSE "error"

\* certify.decide over the counts of one run's rows.
Decide(outcomes) ==
    IF outcomes = {} \/ "broken" \in outcomes THEN "unknown"
    ELSE IF "error" \in outcomes THEN "suspect" ELSE "certified"

\* LATEST_RUN_SQL: the newest run with a row, 0 for an empty log.
LatestRun ==
    IF \A r \in RunIds : log[r] = {} THEN 0
    ELSE CHOOSE r \in RunIds : log[r] # {} /\ \A q \in RunIds : q > r => log[q] = {}

-----------------------------------------------------------------------------
\* The DAG run: run_dq_audit with its retries, then certify (all_done).

StartDagRun ==
    /\ audit = "idle"
    /\ runId < MaxAudits
    /\ audit' = "try"
    /\ UNCHANGED <<silverVars, tries, xcom, runId, sumBronze, log, cert, still>>

\* A try makes its run id and pushes it before anything can fail over there.
PushId ==
    /\ audit = "try"
    /\ audit' = "manifests"
    /\ tries' = tries + 1
    /\ runId' = runId + 1
    /\ xcom' = runId + 1
    /\ still' = TRUE
    /\ UNCHANGED <<silverVars, sumBronze, log, cert>>

\* Broken variant: retries are not counted.
AlwaysRetry(tried) == audit' = "try"

\* What follows a try that raised: Airflow retries, or certify runs all the same.
AfterRaise(tried) ==
    audit' = IF tried < MaxTries /\ runId < MaxAudits THEN "try" ELSE "certify"

\* The try dies before its id is in XCom (Airflow has cleared the previous one).
DiesBeforeId ==
    /\ audit = "try"
    /\ faults < MaxFaults
    /\ faults' = faults + 1
    /\ tries' = tries + 1
    /\ xcom' = 0
    /\ AfterRaise(tries + 1)
    /\ UNCHANGED <<bronze, stage, window, seen, quiet, parquet, rejects,
                   trino, changes, manual, runId, sumBronze, log, cert, still>>

ReadManifests ==
    /\ audit = "manifests"
    /\ sumBronze' = ManifestSum
    /\ audit' = "checks"
    /\ UNCHANGED <<silverVars, tries, runId, xcom, log, cert, still>>

\* One INSERT files all observations of the try; exit 2 when a check could not run.
File(found, raises) ==
    /\ audit = "checks"
    /\ log' = [log EXCEPT ![runId] = found]
    /\ IF raises \/ "broken" \in found THEN AfterRaise(tries) ELSE audit' = "certify"
    /\ sumBronze' = 0
    /\ UNCHANGED <<bronze, stage, window, seen, quiet, parquet, rejects, trino,
                   changes, manual, tries, runId, xcom, cert, still>>

\* All checks are executed, the COUNT of conservation among them.
RunChecks == File({Conservation(TrinoCount)}, FALSE) /\ UNCHANGED faults

\* Some other check meets an error of Trino.
CheckBreaks ==
    /\ faults < MaxFaults
    /\ faults' = faults + 1
    /\ File({Conservation(TrinoCount), "broken"}, FALSE)

\* The process dies with its rows filed.
FilesAndDies ==
    /\ faults < MaxFaults
    /\ faults' = faults + 1
    /\ File({Conservation(TrinoCount)}, TRUE)

\* Exit 3, a failed INSERT or a death before it: nothing is filed.
TryRaises ==
    /\ audit \in {"manifests", "checks"}
    /\ faults < MaxFaults
    /\ faults' = faults + 1
    /\ AfterRaise(tries)
    /\ sumBronze' = 0
    /\ UNCHANGED <<bronze, stage, window, seen, quiet, parquet, rejects,
                   trino, changes, manual, tries, runId, xcom, log, cert, still>>

EndDagRun == audit' = "idle" /\ tries' = 0 /\ xcom' = 0

\* Broken variant: certify takes the newest run of the log.
CertifyNewest ==
    /\ audit = "certify"
    /\ cert' = IF LatestRun = 0 THEN cert
               ELSE [run |-> LatestRun, status |-> Decide(log[LatestRun])]
    /\ EndDagRun
    /\ UNCHANGED <<silverVars, runId, sumBronze, log, still>>

\* certify: the run in XCom, or without one the newest; one row is appended.
Certify ==
    /\ audit = "certify"
    /\ LET run == IF xcom # 0 THEN xcom ELSE LatestRun
       IN cert' = IF run = 0 THEN cert ELSE [run |-> run, status |-> Decide(log[run])]
    /\ EndDagRun
    /\ UNCHANGED <<silverVars, runId, sumBronze, log, still>>

\* certify exits 3 without a connection, and the task does not look at the code.
CertifyUnreachable ==
    /\ audit = "certify"
    /\ faults < MaxFaults
    /\ faults' = faults + 1
    /\ EndDagRun
    /\ UNCHANGED <<bronze, stage, window, seen, quiet, parquet, rejects,
                   trino, changes, manual, runId, sumBronze, log, cert, still>>

\* Bronze and Silver go on while the audit looks at them.
AroundDq ==
    /\ SilverNext
    /\ still' = (still /\ UNCHANGED <<bronze, parquet, trino>>)
    /\ UNCHANGED <<audit, tries, runId, xcom, sumBronze, log, cert>>

DqStep ==
    \/ StartDagRun
    \/ PushId
    \/ DiesBeforeId
    \/ ReadManifests
    \/ RunChecks
    \/ CheckBreaks
    \/ FilesAndDies
    \/ TryRaises
    \/ Certify
    \/ CertifyUnreachable

DqNext == DqStep \/ AroundDq

DqSpec == DqInit /\ [][DqNext]_pipelineVars

\* The daily DAG is scheduled again and again, and its tasks end.
DailyFairness == WF_pipelineVars(DailyStep /\ AroundDq)

FairDqSpec == DqSpec /\ DailyFairness

-----------------------------------------------------------------------------

AuditTypeOK ==
    /\ audit \in {"idle", "try", "manifests", "checks", "certify"}
    /\ tries \in 0..MaxTries
    /\ runId \in 0..MaxAudits
    /\ xcom \in {0, runId}
    /\ log \in [RunIds -> Outcomes]
    /\ cert \in [run : 0..MaxAudits, status : Statuses]
    /\ still \in BOOLEAN

PipelineTypeOK == SilverTypeOK /\ AuditTypeOK /\ sumBronze \in Int

\* In sum: a day with too many rows can make up for one with too few.
BatchConserved ==
    SumFunctionOnSet([d \in Days |-> Rows(bronze[d])], Audited) = TrinoCount

\* What "certified" says of the batch: when the audited days have not changed
\* since the try began, Trino shows as many rows of them as Bronze holds.
CertifiedBatchConserved ==
    audit = "idle" /\ still /\ cert.status = "certified" /\ cert.run = runId
        => BatchConserved

\* A verdict is of the DAG run that files it: with an id in XCom the row names
\* that id, and no row before it did; without observations under the id it says
\* unknown, never what an earlier run had found.  And a verdict stays: the newest
\* row is what the log says of its run for as long as it is the newest, and is
\* not followed by another verdict on the same run.
VerdictIsOfThisRun ==
    [][/\ audit = "certify" /\ xcom # 0 /\ cert' # cert =>
             /\ cert'.run = xcom /\ cert.run < xcom
             /\ log[xcom] = {} => cert'.status = "unknown"
       /\ cert'.run = cert.run => cert' = cert
       /\ cert.run # 0 => cert.status = Decide(log'[cert.run])]_pipelineVars
=============================================================================
