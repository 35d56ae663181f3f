----------------------------- MODULE BronzeAudit -----------------------------
(***************************************************************************)
(* dag_audit_bronze: the task audit_and_fill, at work on the Bronze layer  *)
(* of BronzeIngest together with its other callers.                        *)
(*                                                                         *)
(* For each dataset of the source the audit asks, newest day first, whether*)
(* each day of its window has a manifest.  When some have none it fills the*)
(* span from the first to the last of them through the same bulk call the  *)
(* ingest DAG uses, so the audit is one more writer of BronzeIngest.  The  *)
(* task raises at the end when a fill reported a failed slice.             *)
(***************************************************************************)
EXTENDS BronzeIngest

CONSTANT Auditor      \* the writer that is the audit task

\* fill_start to fill_end: the span of the missing days, present ones included.
Span(days) == {d \in Days : \E a, b \in days : a <= d /\ d <= b}

ASSUME AuditAssumption ==
    /\ Auditor \in Writers
    /\ Auditor \in Scheduled
    /\ \A days \in SUBSET Days : Span(days) \in Windows[Auditor]

VARIABLES
    phase,      \* where the task stands
    target,     \* the dataset being audited
    probe,      \* the next day to ask for; 0 when all have been asked
    missing,    \* the days found without a manifest
    fillFailed, \* some fill of this task had a failed slice
    auditFaults \* failed requests and deaths of the task (at most MaxFaults)

task == <<phase, target, probe, missing, fillFailed>>
auditVars == <<task, auditFaults>>
allVars == <<vars, auditVars>>

AuditInit ==
    /\ Init
    /\ phase = "idle"
    /\ target = 1
    /\ probe = NumDays
    /\ missing = {}
    /\ fillFailed = FALSE
    /\ auditFaults = 0

\* The scheduled run starts, or Airflow retries the task.
Begin ==
    /\ phase \in {"idle", "ok", "raised", "died"}
    /\ phase' = "scan"
    /\ target' = 1
    /\ probe' = NumDays
    /\ missing' = {}
    /\ fillFailed' = FALSE
    /\ UNCHANGED <<vars, auditFaults>>

\* Broken variant: the window ends one day early.
HeadSkipsOldest ==
    /\ phase = "scan"
    /\ probe > 0
    /\ missing' = IF manifest[target][probe] = 0 THEN missing \cup {probe} ELSE missing
    /\ probe' = IF probe = 2 THEN 0 ELSE probe - 1
    /\ UNCHANGED <<vars, phase, target, fillFailed, auditFaults>>

\* _object_exists: one HEAD request for the day's manifest.
Head ==
    /\ phase = "scan"
    /\ probe > 0
    /\ missing' = IF manifest[target][probe] = 0 THEN missing \cup {probe} ELSE missing
    /\ probe' = probe - 1
    /\ UNCHANGED <<vars, phase, target, fillFailed, auditFaults>>

\* Any ClientError of the HEAD counts as "no such object".
HeadFails ==
    /\ phase = "scan"
    /\ probe > 0
    /\ auditFaults < MaxFaults
    /\ auditFaults' = auditFaults + 1
    /\ missing' = missing \cup {probe}
    /\ probe' = probe - 1
    /\ UNCHANGED <<vars, phase, target, fillFailed>>

\* The loop over the datasets: the next one, or the task's verdict.
NextTarget(failed) ==
    IF target < NumDatasets
       THEN /\ phase' = "scan"
            /\ target' = target + 1
            /\ probe' = NumDays
            /\ missing' = {}
       ELSE /\ phase' = IF failed THEN "raised" ELSE "ok"
            /\ UNCHANGED <<target, probe, missing>>

NothingMissing ==
    /\ phase = "scan"
    /\ probe = 0
    /\ missing = {}
    /\ NextTarget(fillFailed)
    /\ UNCHANGED <<vars, fillFailed, auditFaults>>

\* Broken variant: the end of the span is taken to be inclusive.
FillOneTooFar ==
    /\ phase = "scan"
    /\ probe = 0
    /\ missing # {}
    /\ phase' = "fill"
    /\ LaunchOn(Auditor, Span(missing) \cup {d + 1 : d \in missing})
    /\ UNCHANGED <<target, probe, missing, fillFailed, auditFaults>>

Fill ==
    /\ phase = "scan"
    /\ probe = 0
    /\ missing # {}
    /\ phase' = "fill"
    /\ LaunchOn(Auditor, Span(missing))
    /\ UNCHANGED <<target, probe, missing, fillFailed, auditFaults>>

\* Broken variant: a fill that returned at all counts as a recovery.
FillReturnsUnchecked ==
    /\ phase = "fill"
    /\ Collect(Auditor)
    /\ fillFailed' = fillFailed
    /\ NextTarget(fillFailed')
    /\ UNCHANGED auditFaults

\* Broken variant: the fill is not waited for.
FillReturnsEarly ==
    /\ phase = "fill"
    /\ status' = [status EXCEPT ![Auditor] = "ok"]
    /\ fillFailed' = fillFailed
    /\ NextTarget(fillFailed')
    /\ UNCHANGED auditFaults
    /\ UNCHANGED <<wide, upstream, stamp, store, slice, window, runs, faults>>

FillReturns ==
    /\ phase = "fill"
    /\ Collect(Auditor)
    /\ fillFailed' = (fillFailed \/ \E t \in Slices(Auditor) : ~SliceOk(t))
    /\ NextTarget(fillFailed')
    /\ UNCHANGED auditFaults

\* The task's process dies, in the middle of a fill (its threads with it) or
\* between two requests; an error of a HEAD that is not a ClientError counts too.
AuditDies ==
    /\ auditFaults < MaxFaults
    /\ auditFaults' = auditFaults + 1
    /\ phase' = "died"
    /\ UNCHANGED <<target, probe, missing, fillFailed>>
    /\ \/ phase = "fill" /\ Crash(Auditor)
       \/ phase = "scan" /\ UNCHANGED vars

AuditStep ==
    \/ Begin
    \/ Head
    \/ NothingMissing
    \/ Fill
    \/ FillReturns

\* The upstream, the other callers, and the threads of every caller.
AroundAudit ==
    /\ \/ Revise
       \/ \E w \in Writers \ {Auditor} : WriterStep(w)
       \/ \E t \in Task : SliceStep(t) \/ CallFails(t)
    /\ UNCHANGED auditVars

AuditNext == AuditStep \/ HeadFails \/ AuditDies \/ AroundAudit

AuditSpec == AuditInit /\ [][AuditNext]_allVars

\* The audit is scheduled again and again and its requests return; the other
\* callers may stop for good, but a slice the pool has started goes on.
AuditFairness ==
    /\ WF_allVars(AuditStep)
    /\ \A t \in Task : WF_allVars(SliceStep(t) /\ UNCHANGED auditVars)
    /\ \A w \in Writers \ {Auditor} : WF_allVars(Collect(w) /\ UNCHANGED auditVars)

FairAuditSpec == AuditSpec /\ AuditFairness

-----------------------------------------------------------------------------

AuditTypeOK ==
    /\ TypeOK
    /\ phase \in {"idle", "scan", "fill", "ok", "raised", "died"}
    /\ target \in Datasets
    /\ probe \in 0..NumDays
    /\ missing \in SUBSET Days
    /\ fillFailed \in BOOLEAN
    /\ auditFaults \in 0..MaxFaults

\* What "recovered" is worth, for a source with one dataset (both daily
\* sources in the registry): a task that did not raise leaves no day it found
\* missing without a manifest, except days the upstream returned nothing for.
RecoveredOrEmpty ==
    phase = "ok" /\ NumDatasets = 1 =>
        \A d \in missing :
            \/ manifest[1][d] # 0
            \/ \E t \in Slices(Auditor) : d \in SliceDays(t) /\ got[t][1][d] = 0

\* What the DAG's docstring promises: if any gap could not be filled, the task raises.
UnfilledGapRaises ==
    phase = "ok" => \A d \in missing : manifest[target][d] # 0

\* Gaps close: once revisions and faults are over, every day the upstream has
\* records for has a manifest, by the audit alone, whatever other callers left
\* undone, died in, or race it with.
GapsClose ==
    <>[](\A x \in Datasets, d \in Days : upstream[x][d] # 0 => manifest[x][d] # 0)

\* Seen from Bronze the audit is nothing but one more caller of bulk.py.
AuditIsACaller == Spec
=============================================================================
