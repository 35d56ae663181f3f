--------------------------- MODULE SnapshotPipeline ---------------------------
(***************************************************************************)
(* The collector with the readers of what it collects: the reference-table *)
(* jobs and the outlook.  None of them is told when a collection ends.     *)
(***************************************************************************)
EXTENDS ReferenceTables, OutlookIssue

pipelineVars == <<collectorVars, faults, referenceVars, outlookVars, vintages>>

Init == CollectorInit /\ ReferenceInit /\ OutlookInit

\* A reader of a source that is not collected here has nothing to do.
CollectorStep == CollectorNext /\ FileVintage /\ UNCHANGED <<referenceVars, outlookVars>>
ReferenceStep == ~Collects(Forecast) /\ ReferenceNext /\ UNCHANGED <<outlookVars, vintages>>
OutlookStep == Collects(Forecast) /\ OutlookNext /\ UNCHANGED referenceVars

Next == CollectorStep \/ ReferenceStep \/ OutlookStep

Spec == Init /\ [][Next]_pipelineVars

\* Airflow starts the tries of a DAG run, and a try ends.
FairSpec == Spec /\ WF_pipelineVars(Collects(Forecast) /\ IssuerStep(Dag) /\ UNCHANGED referenceVars)

-----------------------------------------------------------------------------

TypeOK == CollectorTypeOK /\ ReferenceTypeOK /\ OutlookTypeOK
=============================================================================
