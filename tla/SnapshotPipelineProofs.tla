------------------------ MODULE SnapshotPipelineProofs ------------------------
(* Theorems about SnapshotPipeline, for every set of sources and datasets, size  *)
(* of tables and pages, floors, number of days, tries, runs and faults.          *)
EXTENDS SnapshotPipeline, SetRecursion, FunctionTheorems

LEMMA DatasetAt ==
    ASSUME CollectorTypeOK, NEW i \in 1..Len(DatasetsOf[source])
    PROVE  DatasetsOf[source][i] \in Datasets
  BY SnapshotAssumption DEF CollectorTypeOK

LEMMA HereIsADataset ==
    ASSUME CollectorTypeOK, stage # "idle"
    PROVE  Here \in Datasets
  BY DatasetAt DEF CollectorTypeOK, Here

LEMMA BeginWalkType ==
    ASSUME CollectorTypeOK, BeginWalk, UNCHANGED <<source, upstream>>,
           at' \in 1..Len(DatasetsOf[source])
    PROVE  /\ stage' = "fetch" /\ offset' \in Nat /\ tries' \in 1..MaxRetries
           /\ got' \in Contents /\ begun' \in SUBSET RowIds /\ edited' = {}
  <1>1. DatasetsOf[source][at'] \in Datasets
    BY DatasetAt
  <1>2. upstream[DatasetsOf[source][at']] \in SUBSET RowIds
    BY <1>1 DEF CollectorTypeOK
  <1>3. Nothing \in Contents
    BY DEF Nothing, Contents
  <1>4. 1 \in 1..MaxRetries
    BY SnapshotAssumption
  <1>5. QED
    BY <1>2, <1>3, <1>4 DEF BeginWalk

LEMMA NextDatasetType ==
    ASSUME CollectorTypeOK, stage # "idle", NextDataset, UNCHANGED <<source, upstream>>
    PROVE  /\ stage' \in {"fetch", "report"} /\ at' \in 1..Len(DatasetsOf[source])
           /\ offset' \in Nat /\ tries' \in 1..MaxRetries
           /\ got' \in Contents /\ begun' \in SUBSET RowIds
           /\ edited' \in SUBSET {"added", "removed"}
  <1>1. CASE at < Len(DatasetsOf[source])
    <2>1. at' \in 1..Len(DatasetsOf[source]) /\ BeginWalk
      BY <1>1, SnapshotAssumption DEF NextDataset, CollectorTypeOK
    <2>2. QED
      BY <2>1, BeginWalkType
  <1>2. CASE ~(at < Len(DatasetsOf[source]))
    BY <1>2 DEF NextDataset, CollectorTypeOK
  <1>3. QED
    BY <1>1, <1>2

LEMMA FailsType ==
    ASSUME CollectorTypeOK, stage # "idle", Fails, UNCHANGED <<source, upstream>>
    PROVE  failed' \in SUBSET Datasets /\ NextDataset
  BY HereIsADataset DEF Fails, CollectorTypeOK

LEMMA CollectorTypeInit == CollectorInit => CollectorTypeOK
  <1> SUFFICES ASSUME CollectorInit PROVE CollectorTypeOK
    OBVIOUS
  <1>1. upstream \in [Datasets -> SUBSET RowIds]
    BY SnapshotAssumption DEF CollectorInit, RowIds
  <1>2. /\ data \in [Datasets -> [Days -> Contents \cup {Absent}]]
        /\ manifest \in [Datasets -> [Days -> Contents \cup {Absent}]]
    BY DEF CollectorInit
  <1>3. got \in Contents /\ tries \in 1..MaxRetries /\ day \in Days
    BY SnapshotAssumption DEF CollectorInit, Contents, Nothing, Days
  <1>4. edits \in 0..MaxEdits /\ runs \in 0..MaxRuns /\ faults \in 0..MaxFaults
    BY SnapshotAssumption DEF CollectorInit
  <1>5. QED
    BY <1>1, <1>2, <1>3, <1>4 DEF CollectorInit, CollectorTypeOK

LEMMA CollectorTypeStep ==
    ASSUME CollectorTypeOK, CollectorNext
    PROVE  CollectorTypeOK'
  <1> USE DEF process, bronzeSnapshots
  <1>1. ASSUME NEW ds \in Datasets, Edit(ds)
        PROVE  CollectorTypeOK'
    <2>1. PICK r \in RowIds :
              LET gone == r \in upstream[ds]
              IN  /\ upstream' = [upstream EXCEPT ![ds] = IF gone THEN @ \ {r} ELSE @ \cup {r}]
                  /\ edited' = IF stage = "fetch" /\ ds = Here
                                  THEN edited \cup {IF gone THEN "removed" ELSE "added"}
                                  ELSE edited
      BY <1>1 DEF Edit
    <2>2. upstream' \in [Datasets -> SUBSET RowIds]
      BY <2>1 DEF CollectorTypeOK
    <2>3. edited' \in SUBSET {"added", "removed"}
      BY <2>1 DEF CollectorTypeOK
    <2>4. edits' \in 0..MaxEdits
      BY <1>1, SnapshotAssumption DEF Edit, CollectorTypeOK
    <2>5. QED
      BY <1>1, <2>2, <2>3, <2>4 DEF Edit, CollectorTypeOK
  <1>2. ASSUME NEW d \in Days, Start(d)
        PROVE  CollectorTypeOK'
    <2>1. at' \in 1..Len(DatasetsOf[source])
      BY <1>2, SnapshotAssumption DEF Start, CollectorTypeOK
    <2>2. runs' \in 0..MaxRuns
      BY <1>2, SnapshotAssumption DEF Start, CollectorTypeOK
    <2>3. /\ BeginWalk /\ day' = d /\ failed' = {} /\ report' = "none"
          /\ UNCHANGED <<source, upstream, data, manifest, edits, faults>>
      BY <1>2 DEF Start
    <2>4. /\ stage' = "fetch" /\ offset' \in Nat /\ tries' \in 1..MaxRetries
          /\ got' \in Contents /\ begun' \in SUBSET RowIds /\ edited' = {}
      BY <2>1, <2>3, BeginWalkType
    <2>5. QED
      BY <2>1, <2>2, <2>3, <2>4 DEF CollectorTypeOK
  <1>3. CASE RequestOk
    <2>1. got' \in Contents
      BY <1>3 DEF RequestOk, CollectorTypeOK, Contents
    <2>2. offset' \in Nat /\ tries' \in 1..MaxRetries
      <3>1. offset \in Nat /\ PageSize \in Nat /\ MaxRetries \in Nat \ {0}
        BY SnapshotAssumption DEF CollectorTypeOK
      <3>2. (offset' = offset \/ offset' = offset + PageSize) /\ tries' = 1
        BY <1>3 DEF RequestOk
      <3>3. QED
        BY <3>1, <3>2
    <2>3. stage' \in {"fetch", "floor"} /\ stage = "fetch"
      BY <1>3 DEF RequestOk
    <2>4. UNCHANGED <<source, upstream, day, at, failed, report, begun, data, manifest,
                      edited, edits, runs, faults>>
      BY <1>3 DEF RequestOk
    <2>5. QED
      BY <2>1, <2>2, <2>3, <2>4 DEF CollectorTypeOK
  <1>4. CASE RequestFails
    <2>1. faults' \in 0..MaxFaults
      BY <1>4, SnapshotAssumption DEF RequestFails, CollectorTypeOK
    <2>2. CASE Here \in Paged /\ tries < MaxRetries
      <3>1. tries' \in 1..MaxRetries
        BY <1>4, <2>2, SnapshotAssumption DEF RequestFails, CollectorTypeOK
      <3>2. UNCHANGED <<source, upstream, stage, day, at, offset, got, failed, report, data,
                        manifest, begun, edited, edits, runs>>
        BY <1>4, <2>2 DEF RequestFails
      <3>3. QED
        BY <2>1, <3>1, <3>2 DEF CollectorTypeOK
    <2>3. CASE ~(Here \in Paged /\ tries < MaxRetries)
      BY <1>4, <2>1, <2>3, FailsType, NextDatasetType DEF RequestFails, CollectorTypeOK
    <2>4. QED
      BY <2>2, <2>3
  <1>5. CASE TooSmall
    BY <1>5, FailsType, NextDatasetType DEF TooSmall, CollectorTypeOK
  <1>6. CASE PutData
    BY <1>6, HereIsADataset DEF PutData, CollectorTypeOK
  <1>7. CASE PutManifest
    <2>1. manifest' \in [Datasets -> [Days -> Contents \cup {Absent}]]
      BY <1>7, HereIsADataset DEF PutManifest, CollectorTypeOK
    <2>2. /\ stage = "manifest" /\ NextDataset
          /\ UNCHANGED <<source, upstream, day, failed, report, data, edits, runs, faults>>
      BY <1>7 DEF PutManifest
    <2>3. /\ stage' \in {"fetch", "report"} /\ at' \in 1..Len(DatasetsOf[source])
          /\ offset' \in Nat /\ tries' \in 1..MaxRetries
          /\ got' \in Contents /\ begun' \in SUBSET RowIds
          /\ edited' \in SUBSET {"added", "removed"}
      BY <2>2, NextDatasetType
    <2>4. QED
      BY <2>1, <2>2, <2>3 DEF CollectorTypeOK
  <1>8. CASE UploadFails
    <2>1. faults' \in 0..MaxFaults
      BY <1>8, SnapshotAssumption DEF UploadFails, CollectorTypeOK
    <2>2. /\ stage # "idle" /\ Fails
          /\ UNCHANGED <<source, upstream, day, report, data, manifest, edits, runs>>
      BY <1>8 DEF UploadFails
    <2>3. failed' \in SUBSET Datasets /\ NextDataset
      BY <2>2, FailsType
    <2>4. /\ stage' \in {"fetch", "report"} /\ at' \in 1..Len(DatasetsOf[source])
          /\ offset' \in Nat /\ tries' \in 1..MaxRetries
          /\ got' \in Contents /\ begun' \in SUBSET RowIds
          /\ edited' \in SUBSET {"added", "removed"}
      BY <2>2, <2>3, NextDatasetType
    <2>5. QED
      BY <2>1, <2>2, <2>3, <2>4 DEF CollectorTypeOK
  <1>9. CASE Report
    BY <1>9 DEF Report, Outcome, CollectorTypeOK
  <1>10. CASE Dies
    BY <1>10, SnapshotAssumption DEF Dies, CollectorTypeOK
  <1>11. QED
    BY <1>1, <1>2, <1>3, <1>4, <1>5, <1>6, <1>7, <1>8, <1>9, <1>10 DEF CollectorNext

\* The readers share with the collector only the bound on faults.
LEMMA ReaderKeepsCollector ==
    ASSUME CollectorTypeOK, ReferenceStep \/ OutlookStep
    PROVE  UNCHANGED collectorVars /\ faults' \in 0..MaxFaults
  <1> USE SnapshotAssumption DEF CollectorTypeOK
  <1>1. CASE ReferenceStep
    BY <1>1
    DEF ReferenceStep, ReferenceNext, Upload, ReadAddresses, ReadStatic, CheckTable,
        WriteTable, JobFails
  <1>2. CASE OutlookStep
    BY <1>2
    DEF OutlookStep, OutlookNext, DagBegins, CliBegins, Clear, IssuerStep, SkipExisting,
        NothingToSkip, ReadData, ReadOutside, Verify, HeadRun, PutCsv, PutJson, HeadMisled,
        TryFails
  <1>3. QED
    BY <1>1, <1>2

LEMMA CollectorTypeInPipeline ==
    ASSUME CollectorTypeOK, [Next]_pipelineVars
    PROVE  CollectorTypeOK'
  <1>1. CASE CollectorStep
    BY <1>1, CollectorTypeStep DEF CollectorStep
  <1>2. CASE ReferenceStep \/ OutlookStep
    BY <1>2, ReaderKeepsCollector DEF CollectorTypeOK, collectorVars, process, bronzeSnapshots
  <1>3. CASE UNCHANGED pipelineVars
    BY <1>3 DEF pipelineVars, CollectorTypeOK, collectorVars, process, bronzeSnapshots
  <1>4. QED
    BY <1>1, <1>2, <1>3 DEF Next

-----------------------------------------------------------------------------
(* The check-in.  Behind the dataset at work every dataset has failed or has its *)
(* two objects; the one at work may have its data object ahead of its manifest.  *)

Done(ds) == data[ds][day] = manifest[ds][day] /\ Size(data[ds][day]) >= Floor[ds]

Settled(ds) == ds \in failed \/ Done(ds) \/ (stage = "manifest" /\ ds = Here)

BehindIsSettled ==
    stage \in {"fetch", "floor", "manifest"} =>
        \A i \in 1..(at - 1) : Settled(DatasetsOf[source][i])

AllIsSettled ==
    stage = "report" => \A i \in DOMAIN DatasetsOf[source] : Settled(DatasetsOf[source][i])

DataIsWhole == stage = "manifest" => data[Here][day] = got /\ Size(got) >= Floor[Here]

QuietWhileAtWork == stage # "idle" => report = "none"

CheckInInv ==
    /\ BehindIsSettled
    /\ AllIsSettled
    /\ DataIsWhole
    /\ QuietWhileAtWork
    /\ CheckInIsTrue

LEMMA CheckInInit == CollectorInit => CheckInInv
  BY DEF CollectorInit, CheckInInv, BehindIsSettled, AllIsSettled, DataIsWhole,
         QuietWhileAtWork, CheckInIsTrue

LEMMA DomainOfDatasets ==
    ASSUME CollectorTypeOK
    PROVE  /\ Len(DatasetsOf[source]) \in Nat
           /\ DOMAIN DatasetsOf[source] = 1..Len(DatasetsOf[source])
  BY SnapshotAssumption DEF CollectorTypeOK

\* The step to the next dataset, when the one at work is settled for good.
LEMMA NextIsSettled ==
    ASSUME CollectorTypeOK, CheckInInv, stage \in {"fetch", "floor", "manifest"},
           NextDataset, UNCHANGED <<source, day, data, report>>,
           failed \subseteq failed',
           \/ Here \in failed'
           \/ data[Here][day] = manifest'[Here][day] /\ Size(data[Here][day]) >= Floor[Here],
           \A ds \in Datasets : ds # Here => manifest'[ds] = manifest[ds]
    PROVE  CheckInInv'
  <1>1. at \in 1..Len(DatasetsOf[source])
    BY DEF CollectorTypeOK
  <1>2. ASSUME NEW i \in 1..at
        PROVE  DatasetsOf[source][i] \in failed' \/ Done(DatasetsOf[source][i])'
    <2> DEFINE ds == DatasetsOf[source][i]
    <2>1. ds \in Datasets
      BY <1>1, DatasetAt, DomainOfDatasets
    <2>2. CASE ds = Here
      BY <2>2 DEF Done
    <2>3. CASE ds # Here
      <3>1. i \in 1..(at - 1)
        BY <1>1, <2>3, DomainOfDatasets DEF Here
      <3>2. ds \in failed \/ Done(ds)
        BY <3>1, <2>3 DEF CheckInInv, BehindIsSettled, Settled
      <3>3. QED
        BY <2>1, <2>3, <3>2 DEF Done
    <2>4. QED
      BY <2>2, <2>3
  <1>3. /\ stage' \in {"fetch", "report"}
        /\ stage' = "fetch" => at' = at + 1
        /\ stage' = "report" => ~(at < Len(DatasetsOf[source]))
    BY DEF NextDataset, BeginWalk
  <1>4. BehindIsSettled'
    BY <1>1, <1>2, <1>3, DomainOfDatasets DEF BehindIsSettled, Settled
  <1>5. AllIsSettled'
    BY <1>1, <1>2, <1>3, DomainOfDatasets DEF AllIsSettled, Settled
  <1>6. QED
    BY <1>3, <1>4, <1>5 DEF CheckInInv, DataIsWhole, QuietWhileAtWork, CheckInIsTrue

LEMMA CheckInStep ==
    ASSUME CollectorTypeOK, CheckInInv, CollectorNext
    PROVE  CheckInInv'
  <1> USE DEF process, bronzeSnapshots
  <1>1. ASSUME NEW ds \in Datasets, Edit(ds)
        PROVE  CheckInInv'
    BY <1>1
    DEF Edit, CheckInInv, BehindIsSettled, AllIsSettled, DataIsWhole, QuietWhileAtWork,
        CheckInIsTrue, Settled, Done, Here
  <1>2. ASSUME NEW d \in Days, Start(d)
        PROVE  CheckInInv'
    BY <1>2
    DEF Start, BeginWalk, CheckInInv, BehindIsSettled, AllIsSettled, DataIsWhole,
        QuietWhileAtWork, CheckInIsTrue
  <1>3. CASE RequestOk
    <2>1. /\ stage = "fetch" /\ stage' \in {"fetch", "floor"}
          /\ UNCHANGED <<source, day, at, failed, report, data, manifest>>
      BY <1>3 DEF RequestOk
    <2>2. QED
      BY <2>1
      DEF CheckInInv, BehindIsSettled, AllIsSettled, DataIsWhole, QuietWhileAtWork,
          CheckInIsTrue, Settled, Done, Here
  <1>4. CASE RequestFails
    <2>1. CASE Here \in Paged /\ tries < MaxRetries
      <3>1. stage = "fetch" /\ UNCHANGED <<stage, source, day, at, failed, report, data, manifest>>
        BY <1>4, <2>1 DEF RequestFails
      <3>2. QED
        BY <3>1
        DEF CheckInInv, BehindIsSettled, AllIsSettled, DataIsWhole, QuietWhileAtWork,
            CheckInIsTrue, Settled, Done, Here
    <2>2. CASE ~(Here \in Paged /\ tries < MaxRetries)
      BY <1>4, <2>2, NextIsSettled DEF RequestFails, Fails
    <2>3. QED
      BY <2>1, <2>2
  <1>5. CASE TooSmall
    BY <1>5, NextIsSettled DEF TooSmall, Fails
  <1>6. CASE PutData
    <2>1. /\ stage = "floor" /\ stage' = "manifest" /\ Size(got) >= Floor[Here]
          /\ data' = [data EXCEPT ![Here][day] = got]
          /\ UNCHANGED <<source, day, at, got, failed, report, manifest>>
      BY <1>6 DEF PutData
    <2>2. data'[Here][day] = got
      BY <2>1, HereIsADataset DEF CollectorTypeOK
    <2>3. \A ds : ds # Here => data'[ds] = data[ds]
      BY <2>1, HereIsADataset DEF CollectorTypeOK
    <2>4. Here' = Here
      BY <2>1 DEF Here
    <2>5. BehindIsSettled'
      BY <2>1, <2>3, <2>4 DEF CheckInInv, BehindIsSettled, Settled, Done
    <2>6. QED
      BY <2>1, <2>2, <2>4, <2>5
      DEF CheckInInv, AllIsSettled, DataIsWhole, QuietWhileAtWork, CheckInIsTrue
  <1>7. CASE PutManifest
    <2>1. /\ stage = "manifest" /\ NextDataset
          /\ manifest' = [manifest EXCEPT ![Here][day] = got]
          /\ UNCHANGED <<source, day, failed, report, data>>
      BY <1>7 DEF PutManifest
    <2>2. manifest'[Here][day] = got /\ \A ds : ds # Here => manifest'[ds] = manifest[ds]
      BY <2>1, HereIsADataset DEF CollectorTypeOK
    <2>3. data[Here][day] = got /\ Size(got) >= Floor[Here]
      BY <2>1 DEF CheckInInv, DataIsWhole
    <2>4. QED
      BY <2>1, <2>2, <2>3, NextIsSettled
  <1>8. CASE UploadFails
    BY <1>8, NextIsSettled DEF UploadFails, Fails
  <1>9. CASE Report
    <2>1. /\ stage = "report" /\ stage' = "idle" /\ report' \in {Outcome, "silent"}
          /\ UNCHANGED <<source, day, at, failed, data, manifest>>
      BY <1>9 DEF Report
    <2>2. report' = "checkin" => failed = {}
      BY <2>1 DEF Outcome
    <2>3. report' = "alert" => failed # {}
      BY <2>1 DEF Outcome
    <2>4. report' = "checkin" => \A i \in DOMAIN DatasetsOf[source] : Done(DatasetsOf[source][i])
      BY <2>1, <2>2 DEF CheckInInv, AllIsSettled, Settled
    <2>5. CheckInIsTrue'
      BY <2>1, <2>3, <2>4 DEF CheckInIsTrue, Done
    <2>6. QED
      BY <2>1, <2>5 DEF CheckInInv, BehindIsSettled, AllIsSettled, DataIsWhole, QuietWhileAtWork
  <1>10. CASE Dies
    <2>1. stage # "idle" /\ stage' = "idle" /\ report' = report
      BY <1>10 DEF Dies
    <2>2. QED
      BY <2>1
      DEF CheckInInv, BehindIsSettled, AllIsSettled, DataIsWhole, QuietWhileAtWork, CheckInIsTrue
  <1>11. QED
    BY <1>1, <1>2, <1>3, <1>4, <1>5, <1>6, <1>7, <1>8, <1>9, <1>10 DEF CollectorNext

LEMMA CheckInStepInPipeline ==
    ASSUME CollectorTypeOK, CheckInInv, [Next]_pipelineVars
    PROVE  CheckInInv'
  <1>1. CASE CollectorStep
    BY <1>1, CheckInStep DEF CollectorStep
  <1>2. CASE ~CollectorStep
    <2>1. UNCHANGED collectorVars
      BY <1>2, ReaderKeepsCollector DEF Next, pipelineVars
    <2>2. QED
      BY <2>1
      DEF collectorVars, process, bronzeSnapshots, CheckInInv, BehindIsSettled, AllIsSettled,
          DataIsWhole, QuietWhileAtWork, CheckInIsTrue, Settled, Done, Here
  <1>3. QED
    BY <1>1, <1>2

\* The watchdog is told the truth, whatever fails, dies or is edited meanwhile.
THEOREM CheckInIsTrueAlways == Spec => []CheckInIsTrue
  <1>1. Init => CollectorTypeOK /\ CheckInInv
    BY CollectorTypeInit, CheckInInit DEF Init
  <1>2. CheckInInv => CheckInIsTrue
    BY DEF CheckInInv
  <1>3. QED
    BY <1>1, <1>2, CollectorTypeInPipeline, CheckInStepInPipeline, PTL DEF Spec

-----------------------------------------------------------------------------
(* The reference tables.  The address job carries only a count it has checked;   *)
(* the others carry into their check what they have written.                     *)

ReferenceShape ==
    /\ static \in [Statics -> Nat]
    /\ job \in [Tables -> {"idle", "write", "check", "ok", "failed"}]
    /\ DOMAIN cached = Tables /\ cached = [t \in Tables |-> cached[t]]
    /\ DOMAIN table = Tables /\ table = [t \in Tables |-> table[t]]
    /\ still \in [Statics -> BOOLEAN]

AddressesChecked ==
    /\ job[Addresses] = "write" => cached[Addresses] >= MinAddresses
    /\ table[Addresses] = 0 \/ table[Addresses] >= MinAddresses

StaticIsWritten ==
    \A t \in Statics :
        /\ job[t] = "check" /\ t # Boundary => table[t] = cached[t]
        /\ job[t] = "check" /\ t = Boundary /\ still[t] => table[t] = static[t]

GreenIsExpected ==
    \A t \in Statics : job[t] = "ok" /\ (t = Boundary => still[t]) =>
        IF t = Boundary THEN table[t] >= Expected[t] ELSE table[t] = Expected[t]

ReferenceInv == ReferenceShape /\ AddressesChecked /\ StaticIsWritten /\ GreenIsExpected

LEMMA ReferenceInvInit == ReferenceInit => ReferenceInv
  <1> SUFFICES ASSUME ReferenceInit PROVE ReferenceInv
    OBVIOUS
  <1>1. ReferenceShape
    BY DEF ReferenceInit, ReferenceShape
  <1>2. \A t \in Tables : job[t] = "idle" /\ table[t] = 0
    BY DEF ReferenceInit
  <1>3. QED
    BY <1>1, <1>2 DEF ReferenceInv, AddressesChecked, StaticIsWritten, GreenIsExpected, Tables

LEMMA ReferenceInvStep ==
    ASSUME ReferenceInv, ReferenceNext
    PROVE  ReferenceInv'
  <1> USE ReferenceAssumption DEF ReferenceInv, Tables, JobTo
  <1>1. ASSUME NEW t \in Statics, NEW n \in 1..MaxRow, Upload(t, n)
        PROVE  ReferenceInv'
    <2>1. ReferenceShape'
      BY <1>1 DEF Upload, ReferenceShape
    <2>2. UNCHANGED <<job, cached, table>> /\ \A s \in Statics : still'[s] => still[s] /\ static'[s] = static[s]
      BY <1>1 DEF Upload, ReferenceShape
    <2>3. QED
      BY <2>1, <2>2 DEF AddressesChecked, StaticIsWritten, GreenIsExpected
  <1>2. ASSUME NEW d \in Days, ReadAddresses(d)
        PROVE  ReferenceInv'
    <2>1. ReferenceShape'
      BY <1>2 DEF ReadAddresses, ReferenceShape
    <2>2. UNCHANGED <<static, table, still>>
          /\ \A t \in Statics : job'[t] = job[t] /\ cached'[t] = cached[t]
      BY <1>2 DEF ReadAddresses, ReferenceShape
    <2>3. job'[Addresses] = "write" => cached'[Addresses] >= MinAddresses
      BY <1>2 DEF ReadAddresses, ReferenceShape
    <2>4. QED
      BY <2>1, <2>2, <2>3 DEF AddressesChecked, StaticIsWritten, GreenIsExpected
  <1>3. ASSUME NEW t \in Statics, ReadStatic(t)
        PROVE  ReferenceInv'
    <2>1. ReferenceShape'
      BY <1>3 DEF ReadStatic, ReferenceShape
    <2>2. job'[t] \in {"write", "failed"} /\ UNCHANGED <<static, table>>
      BY <1>3 DEF ReadStatic, ReferenceShape
    <2>3. \A s \in Tables : s # t => job'[s] = job[s] /\ cached'[s] = cached[s]
      BY <1>3 DEF ReadStatic, ReferenceShape
    <2>4. \A s \in Statics : s # t => still'[s] = still[s]
      BY <1>3 DEF ReadStatic, ReferenceShape
    <2>5. QED
      BY <2>1, <2>2, <2>3, <2>4 DEF AddressesChecked, StaticIsWritten, GreenIsExpected
  <1>4. ASSUME NEW t \in Tables, WriteTable(t)
        PROVE  ReferenceInv'
    <2>1. ReferenceShape'
      BY <1>4 DEF WriteTable, ReferenceShape
    <2>2. /\ job[t] = "write" /\ table'[t] = Seen(t)
          /\ job'[t] = IF t = Addresses THEN "ok" ELSE "check"
          /\ UNCHANGED <<static, cached, still>>
      BY <1>4 DEF WriteTable, ReferenceShape
    <2>3. \A s \in Tables : s # t => job'[s] = job[s] /\ table'[s] = table[s]
      BY <1>4 DEF WriteTable, ReferenceShape
    <2>4. QED
      BY <2>1, <2>2, <2>3 DEF Seen, AddressesChecked, StaticIsWritten, GreenIsExpected
  <1>5. ASSUME NEW t \in Statics, CheckTable(t)
        PROVE  ReferenceInv'
    <2>1. ReferenceShape'
      BY <1>5 DEF CheckTable, ReferenceShape
    <2>2. /\ job[t] = "check" /\ job'[t] = IF CountOk(t, Seen(t)) THEN "ok" ELSE "failed"
          /\ UNCHANGED <<static, cached, table, still>>
      BY <1>5 DEF CheckTable, ReferenceShape
    <2>3. \A s \in Tables : s # t => job'[s] = job[s]
      BY <1>5 DEF CheckTable, ReferenceShape
    <2>4. QED
      BY <2>1, <2>2, <2>3
      DEF CountOk, Seen, AddressesChecked, StaticIsWritten, GreenIsExpected
  <1>6. ASSUME NEW t \in Tables, JobFails(t)
        PROVE  ReferenceInv'
    <2>1. ReferenceShape'
      BY <1>6 DEF JobFails, ReferenceShape
    <2>2. /\ job'[t] = "failed" /\ table'[t] \in {0, table[t]}
          /\ UNCHANGED <<static, cached, still>>
      BY <1>6 DEF JobFails, ReferenceShape
    <2>3. \A s \in Tables : s # t => job'[s] = job[s] /\ table'[s] = table[s]
      BY <1>6 DEF JobFails, ReferenceShape
    <2>4. QED
      BY <2>1, <2>2, <2>3 DEF AddressesChecked, StaticIsWritten, GreenIsExpected
  <1>7. QED
    BY <1>1, <1>2, <1>3, <1>4, <1>5, <1>6 DEF ReferenceNext

LEMMA ReferenceInvInPipeline ==
    ASSUME ReferenceInv, [Next]_pipelineVars
    PROVE  ReferenceInv'
  <1>1. CASE ReferenceStep
    BY <1>1, ReferenceInvStep DEF ReferenceStep
  <1>2. CASE ~ReferenceStep
    <2>1. UNCHANGED referenceVars
      BY <1>2 DEF Next, CollectorStep, OutlookStep, pipelineVars
    <2>2. QED
      BY <2>1
      DEF referenceVars, ReferenceInv, ReferenceShape, AddressesChecked, StaticIsWritten,
          GreenIsExpected, Tables
  <1>3. QED
    BY <1>1, <1>2

\* What a consumer may rely on of the reference tables holds for every floor,
\* expected count and upload.
THEOREM ReferenceTablesCheckedAlways == Spec => []ReferenceTablesChecked
  <1>1. Init => ReferenceInv
    BY ReferenceInvInit DEF Init
  <1>2. ReferenceInv => ReferenceTablesChecked
    BY DEF ReferenceInv, AddressesChecked, GreenIsExpected, ReferenceTablesChecked
  <1>3. QED
    BY <1>1, <1>2, ReferenceInvInPipeline, PTL DEF Spec

-----------------------------------------------------------------------------
(* The outlook.                                                                  *)

LEMMA AbsentIsNoContent == Absent \notin Scored /\ Outside \notin Contents
  <1>1. 1 \in RowIds /\ Absent[1] = -1 /\ Outside[1] = -2
    BY SnapshotAssumption DEF RowIds, Absent, Outside
  <1>2. QED
    BY <1>1 DEF Contents, Scored

LEMMA OutlookTypeInit == OutlookInit => OutlookTypeOK
  <1> SUFFICES ASSUME OutlookInit PROVE OutlookTypeOK
    OBVIOUS
  <1>1. issue \in [Issuers -> Days]
    BY SnapshotAssumption DEF OutlookInit, Days
  <1>2. tried \in 0..MaxTries /\ byHand \in 0..MaxByHand
    BY OutlookAssumption DEF OutlookInit
  <1>3. QED
    BY <1>1, <1>2 DEF OutlookInit, OutlookTypeOK

LEMMA EndType ==
    ASSUME OutlookTypeOK, NEW i \in Issuers, Raises(i) \/ Succeeds(i)
    PROVE  /\ step' \in [Issuers -> {"off", "skip"}
                               \cup {"read", "verify", "head", "csv", "json"}]
           /\ step'[i] \in {"off", "skip"} /\ \A j \in Issuers : j # i => step'[j] = step[j]
           /\ ended' \in SUBSET Days
           /\ tried' \in 0..MaxTries
  <1>1. CASE Succeeds(i)
    BY <1>1 DEF Succeeds, StepTo, OutlookTypeOK
  <1>2. CASE ~Succeeds(i)
    <2>1. /\ tried < MaxTries /\ tried' = tried + 1 /\ ended' = ended /\ i = Dag
          /\ step' = [step EXCEPT ![Dag] = "skip"]
      BY <1>2 DEF Raises, StepTo
    <2>2. QED
      BY <2>1, OutlookAssumption DEF OutlookTypeOK
  <1>3. QED
    BY <1>1, <1>2

LEMMA WrittenType ==
    ASSUME OutlookTypeOK, NEW i \in Issuers, vintage[i] \in Scored
    PROVE  Written(i) \in Artefacts /\ Written(i) # NoArtefact
  BY AbsentIsNoContent DEF OutlookTypeOK, Written, Artefacts, NoArtefact

\* What i scores was filed with its own manifest, or is the operator's own.
Sourced(i) ==
    /\ vintage[i] \in Scored
    /\ vintage[i] \in vintages[issue[i]] \/ (vintage[i] = Outside /\ i = Cli)

\* What an issuer carries: past its verification something sourced; sure of an
\* empty day there is no run; after its csv the csv is its own.
Carries(i) ==
    /\ step[i] = "verify" =>
           vintage[i] \in Scored /\ (vintage[i] = Outside => i = Cli)
    /\ step[i] \in {"head", "csv", "json"} => Sourced(i)
    /\ step[i] \in {"csv", "json"} /\ sure[i] => json[issue[i]] = NoArtefact
    /\ step[i] = "json" /\ sure[i] /\ issue[i] \notin raced => csv[issue[i]] = Written(i)

ManifestsAreVintages ==
    \A d \in Days : manifest[Forecast][d] # Absent => manifest[Forecast][d] \in vintages[d]

OutlookInv ==
    /\ OutlookTypeOK
    /\ ManifestsAreVintages
    /\ \A i \in Issuers : Carries(i)
    /\ OutlookIsOfOneVintage

LEMMA OutlookInvInit == Init => OutlookInv
  <1> SUFFICES ASSUME Init PROVE OutlookInv
    OBVIOUS
  <1>1. OutlookTypeOK
    BY OutlookTypeInit DEF Init
  <1>2. ManifestsAreVintages
    BY OutlookAssumption DEF Init, CollectorInit, ManifestsAreVintages
  <1>3. QED
    BY <1>1, <1>2 DEF Init, OutlookInit, OutlookInv, Carries, OutlookIsOfOneVintage

\* The collector may replace the objects an issuer has read: what was filed once
\* stays on record.
LEMMA CollectorKeepsOutlook ==
    ASSUME CollectorTypeOK, CollectorTypeOK', OutlookInv, CollectorStep
    PROVE  OutlookInv'
  <1>1. UNCHANGED outlookVars /\ FileVintage
    BY DEF CollectorStep
  <1>2. \A d \in Days : manifest'[Forecast][d] \in Contents \cup {Absent}
    BY OutlookAssumption DEF CollectorTypeOK
  <1>3. \A d \in Days : vintages'[d] \in SUBSET Contents /\ vintages[d] \subseteq vintages'[d]
    BY <1>1, <1>2 DEF FileVintage, OutlookInv, OutlookTypeOK
  <1>4. vintages' \in [Days -> SUBSET Contents]
    BY <1>1, <1>3 DEF FileVintage
  <1>5. OutlookTypeOK'
    BY <1>1, <1>4 DEF outlookVars, OutlookInv, OutlookTypeOK
  <1>6. ManifestsAreVintages'
    BY <1>1 DEF FileVintage, OutlookInv, ManifestsAreVintages
  <1>7. \A i \in Issuers : Carries(i)'
    BY <1>1, <1>3 DEF outlookVars, OutlookInv, OutlookTypeOK, Carries, Sourced, Written
  <1>8. OutlookIsOfOneVintage'
    BY <1>1, <1>3 DEF outlookVars, OutlookInv, OutlookIsOfOneVintage
  <1>9. QED
    BY <1>5, <1>6, <1>7, <1>8 DEF OutlookInv

\* An issuer that only moves on, or begins a day, keeps what the others carry.
LEMMA MovesOn ==
    ASSUME OutlookInv, NEW i \in Issuers,
           UNCHANGED <<manifest, vintages, csv, json, raced>>,
           OutlookTypeOK',
           \A j \in Issuers : j # i =>
               step'[j] = step[j] /\ issue'[j] = issue[j] /\ vintage'[j] = vintage[j]
               /\ sure'[j] = sure[j],
           Carries(i)'
    PROVE  OutlookInv'
  <1>1. \A j \in Issuers : Carries(j)'
    BY DEF OutlookInv, Carries, Sourced, Written
  <1>2. QED
    BY <1>1 DEF OutlookInv, ManifestsAreVintages, OutlookIsOfOneVintage

\* A PUT of i, of a vintage that was filed.
LEMMA PutKeepsOutlook ==
    ASSUME OutlookInv, NEW i \in Issuers, Puts(i), OutlookTypeOK',
           UNCHANGED <<manifest, vintages, vintage, issue>>,
           Sourced(i),
           \A j \in Issuers : j # i => step'[j] = step[j],
           \/ /\ step[i] = "csv" /\ step'[i] = "json"
              /\ csv' = [csv EXCEPT ![issue[i]] = Written(i)] /\ json' = json
           \/ /\ step[i] = "json" /\ step'[i] = "off"
              /\ json' = [json EXCEPT ![issue[i]] = Written(i)] /\ csv' = csv
    PROVE  OutlookInv'
  <1> DEFINE day0 == issue[i]
  <1>0. OutlookTypeOK /\ Carries(i) /\ day0 \in Days
    BY DEF OutlookInv, OutlookTypeOK
  <1>1. Written(i) # NoArtefact /\ Written(i).of = vintage[i] /\ \A j \in Issuers : Written(j)' = Written(j)
    BY <1>0, WrittenType DEF Sourced, Written
  <1>2. /\ \A d \in Days : d # day0 => csv'[d] = csv[d] /\ json'[d] = json[d]
        /\ raced \subseteq raced' /\ \A d \in raced' : d \in raced \/ d = day0
        /\ day0 \notin raced' => sure[i] /\ day0 \notin raced
    <2>1. \A d \in Days : d # day0 => csv'[d] = csv[d] /\ json'[d] = json[d]
      BY <1>0 DEF OutlookTypeOK
    <2>2. raced' = IF sure[i] THEN raced ELSE raced \cup {day0}
      BY DEF Puts
    <2>3. QED
      BY <2>1, <2>2
  <1>3. \A j \in Issuers : sure'[j] => sure[j] /\ (j = i \/ issue[j] # day0)
    BY DEF Puts
  <1>4. ASSUME NEW j \in Issuers, j # i
        PROVE  Carries(j)'
    <2>1. Carries(j) /\ issue[j] \in Days
      BY <1>0 DEF OutlookInv, OutlookTypeOK
    <2>2. QED
      BY <1>1, <1>2, <1>3, <1>4, <2>1 DEF Carries, Sourced
  <1>5. Carries(i)'
    BY <1>0, <1>1, <1>2, <1>3 DEF OutlookTypeOK, Carries, Sourced
  <1>6. ASSUME NEW d \in Days, json'[d] # NoArtefact
        PROVE  /\ json'[d].of \in vintages'[d] \/ (json'[d].of = Outside /\ json'[d].by = Cli)
               /\ (d \notin raced' => csv'[d] = json'[d])
    <2>1. CASE d # day0
      BY <1>2, <1>6, <2>1 DEF OutlookInv, OutlookIsOfOneVintage
    <2>2. CASE d = day0 /\ step[i] = "csv"
      <3>1. json[d] # NoArtefact /\ json' = json
        BY <1>6, <2>2
      <3>2. d \in raced'
        BY <1>0, <1>2, <2>2, <3>1 DEF Carries
      <3>3. QED
        BY <2>2, <3>1, <3>2 DEF OutlookInv, OutlookIsOfOneVintage
    <2>3. CASE d = day0 /\ step[i] = "json"
      <3>1. json'[d] = Written(i) /\ csv' = csv
        BY <1>0, <2>3 DEF OutlookTypeOK
      <3>2. d \notin raced' => csv[d] = Written(i)
        BY <1>0, <1>2, <2>3 DEF Carries
      <3>3. QED
        BY <1>1, <2>3, <3>1, <3>2 DEF Sourced, Written
    <2>4. QED
      BY <2>1, <2>2, <2>3
  <1>7. \A j \in Issuers : Carries(j)'
    BY <1>4, <1>5
  <1>8. QED
    BY <1>6, <1>7 DEF OutlookInv, ManifestsAreVintages, OutlookIsOfOneVintage

LEMMA OutlookInvStep ==
    ASSUME CollectorTypeOK, OutlookInv, OutlookNext
    PROVE  OutlookInv'
  <1>a. OutlookTypeOK /\ \A i \in Issuers : Carries(i) /\ issue[i] \in Days
    BY DEF OutlookInv, OutlookTypeOK
  <1>b. Dag \in Issuers /\ Cli \in Issuers /\ Dag # Cli
    BY OutlookAssumption DEF Issuers
  <1>c. ASSUME UNCHANGED collectorVars PROVE UNCHANGED <<manifest, data>>
    BY <1>c DEF collectorVars, bronzeSnapshots
  <1>1. ASSUME NEW d \in Days, DagBegins(d)
        PROVE  OutlookInv'
    <2>1. OutlookTypeOK'
      BY <1>1, <1>b, OutlookAssumption DEF DagBegins, StepTo, OutlookInv, OutlookTypeOK
    <2>2. Carries(Dag)'
      BY <1>1, <1>a, <1>b DEF DagBegins, StepTo, OutlookTypeOK, Carries
    <2>3. QED
      BY <1>1, <1>a, <1>b, <1>c, <2>1, <2>2, MovesOn DEF DagBegins, StepTo, OutlookTypeOK
  <1>2. ASSUME NEW d \in Days, CliBegins(d)
        PROVE  OutlookInv'
    <2>1. OutlookTypeOK'
      BY <1>2, <1>b, OutlookAssumption DEF CliBegins, StepTo, OutlookInv, OutlookTypeOK
    <2>2. Carries(Cli)'
      BY <1>2, <1>a, <1>b DEF CliBegins, StepTo, OutlookTypeOK, Carries
    <2>3. QED
      BY <1>2, <1>a, <1>b, <1>c, <2>1, <2>2, MovesOn DEF CliBegins, StepTo, OutlookTypeOK
  <1>3. ASSUME NEW d \in Days, Clear(d)
        PROVE  OutlookInv'
    <2>1. OutlookTypeOK'
      BY <1>3, OutlookAssumption DEF Clear, OutlookInv, OutlookTypeOK
    <2>2. Carries(Dag)'
      BY <1>3, <1>a, <1>b, <1>c DEF Clear, Carries, Written
    <2>3. QED
      BY <1>3, <1>b, <1>c, <2>1, <2>2, MovesOn DEF Clear
  <1>4. ASSUME NEW i \in Issuers, SkipExisting(i) \/ TryFails(i)
        PROVE  OutlookInv'
    <2>1. Raises(i) \/ Succeeds(i)
      BY <1>4 DEF SkipExisting, TryFails
    <2>2. OutlookTypeOK'
      BY <1>4, <2>1, EndType, <1>a DEF SkipExisting, TryFails, OutlookTypeOK
    <2>3. Carries(i)'
      BY <2>1, EndType, <1>a DEF Carries
    <2>4. QED
      BY <1>4, <1>a, <1>c, <2>1, <2>2, <2>3, EndType, MovesOn DEF SkipExisting, TryFails
  <1>5. ASSUME NEW i \in Issuers, NothingToSkip(i)
        PROVE  OutlookInv'
    <2>1. OutlookTypeOK'
      BY <1>5, <1>a DEF NothingToSkip, StepTo, OutlookTypeOK
    <2>2. Carries(i)'
      BY <1>5, <1>a DEF NothingToSkip, StepTo, OutlookTypeOK, Carries
    <2>3. QED
      BY <1>5, <1>a, <1>c, <2>1, <2>2, MovesOn DEF NothingToSkip, StepTo, OutlookTypeOK
  <1>6. ASSUME NEW i \in Issuers, ReadData(i)
        PROVE  OutlookInv'
    <2>0. data[Forecast][issue[i]] \in Contents \cup {Absent}
      BY <1>a, OutlookAssumption DEF CollectorTypeOK
    <2>1. vintage' \in [Issuers -> Scored \cup {Absent}] /\ vintage'[i] = data[Forecast][issue[i]]
      BY <1>6, <1>a, <2>0 DEF ReadData, Scored, OutlookTypeOK
    <2>2. CASE vintage'[i] = Absent
      <3>1. Raises(i)
        BY <1>6, <2>2 DEF ReadData
      <3>2. OutlookTypeOK'
        BY <1>6, <1>a, <2>1, <3>1, EndType DEF ReadData, OutlookTypeOK
      <3>3. Carries(i)'
        BY <1>a, <3>1, EndType DEF Carries
      <3>4. QED
        BY <1>6, <1>a, <1>c, <3>1, <3>2, <3>3, EndType, MovesOn DEF ReadData, OutlookTypeOK
    <2>3. CASE vintage'[i] # Absent
      <3>1. step' = [step EXCEPT ![i] = "verify"] /\ UNCHANGED <<tried, ended>>
        BY <1>6, <2>3 DEF ReadData, StepTo
      <3>2. OutlookTypeOK'
        BY <1>6, <1>a, <2>1, <3>1 DEF ReadData, OutlookTypeOK
      <3>3. Carries(i)'
        BY <1>a, <2>0, <2>1, <2>3, <3>1, AbsentIsNoContent DEF OutlookTypeOK, Scored, Carries
      <3>4. QED
        BY <1>6, <1>a, <1>c, <3>1, <3>2, <3>3, MovesOn DEF ReadData, OutlookTypeOK
    <2>4. QED
      BY <2>2, <2>3
  <1>6o. CASE ReadOutside
    <2>1. /\ step[Cli] = "read" /\ step' = [step EXCEPT ![Cli] = "verify"]
          /\ vintage' = [vintage EXCEPT ![Cli] = Outside] /\ Outside \in Scored
      BY <1>6o DEF ReadOutside, StepTo, Scored
    <2>2. OutlookTypeOK'
      BY <1>6o, <1>a, <2>1 DEF ReadOutside, OutlookTypeOK
    <2>3. Carries(Cli)'
      BY <1>a, <1>b, <2>1 DEF OutlookTypeOK, Carries
    <2>4. QED
      BY <1>6o, <1>a, <1>b, <1>c, <2>1, <2>2, <2>3, MovesOn DEF ReadOutside, OutlookTypeOK
  <1>7. ASSUME NEW i \in Issuers, Verify(i)
        PROVE  OutlookInv'
    <2>1. CASE Verified(i) /\ (i = Cli => issue[i] \notin local)
      <3>1. /\ step[i] = "verify" /\ step' = [step EXCEPT ![i] = "head"]
            /\ UNCHANGED <<tried, ended>>
            /\ local' = IF i = Cli THEN local \cup {issue[i]} ELSE local
        BY <1>7, <2>1 DEF Verify, StepTo
      <3>2. Sourced(i)
        BY <1>a, <2>1, <3>1, AbsentIsNoContent
        DEF Carries, Verified, Sourced, OutlookInv, ManifestsAreVintages
      <3>3. OutlookTypeOK'
        BY <1>7, <1>a, <3>1 DEF Verify, OutlookTypeOK
      <3>4. Carries(i)'
        BY <1>7, <1>a, <3>1, <3>2 DEF Verify, OutlookTypeOK, Sourced, Carries
      <3>5. QED
        BY <1>7, <1>a, <1>c, <3>1, <3>3, <3>4, MovesOn DEF Verify, OutlookTypeOK
    <2>2. CASE ~(Verified(i) /\ (i = Cli => issue[i] \notin local))
      <3>1. Raises(i) /\ local' = local
        BY <1>7, <2>2 DEF Verify
      <3>2. OutlookTypeOK'
        BY <1>7, <1>a, <3>1, EndType DEF Verify, OutlookTypeOK
      <3>3. Carries(i)'
        BY <1>a, <3>1, EndType DEF Carries
      <3>4. QED
        BY <1>7, <1>a, <1>c, <3>1, <3>2, <3>3, EndType, MovesOn DEF Verify
    <2>3. QED
      BY <2>1, <2>2
  <1>8. ASSUME NEW i \in Issuers, HeadRun(i)
        PROVE  OutlookInv'
    <2>1. CASE json[issue[i]] # NoArtefact
      <3>1. Raises(i) /\ sure' = sure
        BY <1>8, <2>1 DEF HeadRun
      <3>2. OutlookTypeOK'
        BY <1>8, <1>a, <3>1, EndType DEF HeadRun, OutlookTypeOK
      <3>3. Carries(i)'
        BY <1>a, <3>1, EndType DEF Carries
      <3>4. QED
        BY <1>8, <1>a, <1>c, <3>1, <3>2, <3>3, EndType, MovesOn DEF HeadRun
    <2>2. CASE json[issue[i]] = NoArtefact
      <3>1. /\ step[i] = "head" /\ step' = [step EXCEPT ![i] = "csv"]
            /\ sure' = [sure EXCEPT ![i] = TRUE] /\ UNCHANGED <<tried, ended>>
        BY <1>8, <2>2 DEF HeadRun, StepTo
      <3>2. OutlookTypeOK'
        BY <1>8, <1>a, <3>1 DEF HeadRun, OutlookTypeOK
      <3>3. Carries(i)'
        BY <1>8, <1>a, <2>2, <3>1 DEF HeadRun, OutlookTypeOK, Carries, Sourced
      <3>4. QED
        BY <1>8, <1>a, <1>c, <3>1, <3>2, <3>3, MovesOn DEF HeadRun, OutlookTypeOK
    <2>3. QED
      BY <2>1, <2>2
  <1>9. ASSUME NEW i \in Issuers, HeadMisled(i)
        PROVE  OutlookInv'
    <2>1. CASE step[i] = "skip"
      <3>1. step' = [step EXCEPT ![i] = "read"] /\ sure' = sure
        BY <1>9, <2>1 DEF HeadMisled, StepTo
      <3>2. OutlookTypeOK'
        BY <1>9, <1>a, <3>1 DEF HeadMisled, OutlookTypeOK
      <3>3. Carries(i)'
        BY <1>a, <3>1 DEF OutlookTypeOK, Carries
      <3>4. QED
        BY <1>9, <1>a, <1>c, <3>1, <3>2, <3>3, MovesOn DEF HeadMisled, OutlookTypeOK
    <2>2. CASE step[i] = "head"
      <3>1. step' = [step EXCEPT ![i] = "csv"] /\ sure' = [sure EXCEPT ![i] = FALSE]
        BY <1>9, <2>2 DEF HeadMisled, StepTo
      <3>2. OutlookTypeOK'
        BY <1>9, <1>a, <3>1 DEF HeadMisled, OutlookTypeOK
      <3>3. Carries(i)'
        BY <1>9, <1>a, <2>2, <3>1 DEF HeadMisled, OutlookTypeOK, Carries, Sourced
      <3>4. QED
        BY <1>9, <1>a, <1>c, <3>1, <3>2, <3>3, MovesOn DEF HeadMisled, OutlookTypeOK
    <2>3. QED
      BY <1>9, <2>1, <2>2 DEF HeadMisled
  <1>10. ASSUME NEW i \in Issuers, PutCsv(i)
         PROVE  OutlookInv'
    <2>1. step[i] = "csv" /\ step' = [step EXCEPT ![i] = "json"]
      BY <1>10 DEF PutCsv, StepTo
    <2>2. Sourced(i)
      BY <1>a, <2>1 DEF Carries
    <2>3. OutlookTypeOK'
      <3>1. csv' \in [Days -> Artefacts \cup {NoArtefact}]
        BY <1>10, <1>a, <2>2, WrittenType DEF PutCsv, Sourced, OutlookTypeOK
      <3>2. sure' \in [Issuers -> BOOLEAN] /\ raced' \in SUBSET Days
        BY <1>10, <1>a DEF PutCsv, Puts, OutlookTypeOK
      <3>3. QED
        BY <1>10, <1>a, <2>1, <3>1, <3>2 DEF PutCsv, OutlookTypeOK
    <2>4. QED
      BY <1>10, <1>a, <1>c, <2>1, <2>2, <2>3, PutKeepsOutlook DEF PutCsv, OutlookTypeOK
  <1>11. ASSUME NEW i \in Issuers, PutJson(i)
         PROVE  OutlookInv'
    <2>1. step[i] = "json" /\ step' = [step EXCEPT ![i] = "off"] /\ Succeeds(i)
      BY <1>11 DEF PutJson, Succeeds, StepTo
    <2>2. Sourced(i)
      BY <1>a, <2>1 DEF Carries
    <2>3. OutlookTypeOK'
      <3>1. json' \in [Days -> Artefacts \cup {NoArtefact}]
        BY <1>11, <1>a, <2>2, WrittenType DEF PutJson, Sourced, OutlookTypeOK
      <3>2. sure' \in [Issuers -> BOOLEAN] /\ raced' \in SUBSET Days
        BY <1>11, <1>a DEF PutJson, Puts, OutlookTypeOK
      <3>3. QED
        BY <1>11, <1>a, <2>1, <3>1, <3>2, EndType DEF PutJson, OutlookTypeOK
    <2>4. QED
      BY <1>11, <1>a, <1>c, <2>1, <2>2, <2>3, PutKeepsOutlook DEF PutJson, OutlookTypeOK
  <1>12. QED
    BY <1>1, <1>2, <1>3, <1>4, <1>5, <1>6, <1>6o, <1>7, <1>8, <1>9, <1>10, <1>11
    DEF OutlookNext, IssuerStep

LEMMA OutlookInvInPipeline ==
    ASSUME CollectorTypeOK, OutlookInv, [Next]_pipelineVars
    PROVE  OutlookInv'
  <1>1. CASE CollectorStep
    BY <1>1, CollectorTypeInPipeline, CollectorKeepsOutlook
  <1>2. CASE OutlookStep
    BY <1>2, OutlookInvStep DEF OutlookStep
  <1>3. CASE ReferenceStep \/ UNCHANGED pipelineVars
    <2>1. UNCHANGED <<manifest, outlookVars, vintages>>
      BY <1>3, ReaderKeepsCollector DEF ReferenceStep, pipelineVars, collectorVars, bronzeSnapshots
    <2>2. QED
      BY <2>1
      DEF outlookVars, OutlookInv, OutlookTypeOK, ManifestsAreVintages, Carries, Sourced, Written,
          OutlookIsOfOneVintage
  <1>4. QED
    BY <1>1, <1>2, <1>3 DEF Next

\* A complete outlook names a vintage that was filed with its own manifest, or is
\* the operator's and says that it is of none; and unless issuers raced its two
\* objects are of one try.
THEOREM OutlookIsOfOneVintageAlways == Spec => []OutlookIsOfOneVintage
  <1>1. Init => CollectorTypeOK /\ OutlookInv
    BY CollectorTypeInit, OutlookInvInit DEF Init
  <1>2. OutlookInv => OutlookIsOfOneVintage
    BY DEF OutlookInv
  <1>3. QED
    BY <1>1, <1>2, CollectorTypeInPipeline, OutlookInvInPipeline, PTL DEF Spec

LEMMA SizeIsNat ==
    ASSUME NEW content \in Contents
    PROVE  Size(content) \in Nat
  <1>1. DOMAIN content = RowIds /\ \A r \in RowIds : content[r] \in Nat
    BY DEF Contents
  <1>2. IsFiniteSet(RowIds)
    BY FS_Interval, SnapshotAssumption DEF RowIds
  <1>3. SumFunctionOnSet(content, RowIds) \in Nat
    BY <1>1, <1>2, SumIsMonotonic
  <1>4. QED
    BY <1>1, <1>3 DEF Size, SumFunction

LEMMA ReferenceTypeInit == ReferenceInit => ReferenceTypeOK
  BY ReferenceAssumption DEF ReferenceInit, ReferenceTypeOK

LEMMA ReferenceTypeStep ==
    ASSUME CollectorTypeOK, ReferenceTypeOK, ReferenceNext
    PROVE  ReferenceTypeOK'
  <1> USE ReferenceAssumption DEF ReferenceTypeOK, JobTo
  <1>1. ASSUME NEW t \in Statics, NEW n \in 1..MaxRow, Upload(t, n)
        PROVE  ReferenceTypeOK'
    <2>1. /\ uploads < MaxUploads /\ uploads' = uploads + 1
          /\ static' = [static EXCEPT ![t] = n] /\ still' = [still EXCEPT ![t] = FALSE]
          /\ job' = job /\ cached' = cached /\ table' = table
      BY <1>1 DEF Upload
    <2>2. uploads' \in 0 .. MaxUploads
      BY <2>1
    <2>3. n \in Nat
      BY SnapshotAssumption
    <2>4. static' \in [Statics -> Nat] /\ still' \in [Statics -> BOOLEAN]
      BY <2>1, <2>3
    <2>5. QED
      BY <2>1, <2>2, <2>4 DEF Tables
  <1>2. ASSUME NEW d \in Days, ReadAddresses(d)
        PROVE  ReferenceTypeOK'
    <2>1. d \in Collected => Size(data[Addresses][d]) \in Nat
      <3>1. data[Addresses][d] \in Contents \cup {Absent}
        BY DEF CollectorTypeOK
      <3>2. QED
        BY <3>1, SizeIsNat DEF Collected
    <2>2. cached' \in [Tables -> Nat]
      BY <1>2, <2>1 DEF ReadAddresses, Tables
    <2>3. QED
      BY <1>2, <2>2 DEF ReadAddresses, Tables
  <1>3. ASSUME NEW t \in Statics, ReadStatic(t)
        PROVE  ReferenceTypeOK'
    BY <1>3 DEF ReadStatic, Tables
  <1>4. ASSUME NEW t \in Tables, WriteTable(t)
        PROVE  ReferenceTypeOK'
    <2>1. Seen(t) \in Nat
      BY DEF Seen
    <2>2. QED
      BY <1>4, <2>1 DEF WriteTable
  <1>5. ASSUME NEW t \in Statics, CheckTable(t)
        PROVE  ReferenceTypeOK'
    BY <1>5 DEF CheckTable, Tables
  <1>6. ASSUME NEW t \in Tables, JobFails(t)
        PROVE  ReferenceTypeOK'
    BY <1>6 DEF JobFails
  <1>7. QED
    BY <1>1, <1>2, <1>3, <1>4, <1>5, <1>6 DEF ReferenceNext

LEMMA ReferenceTypeInPipeline ==
    ASSUME CollectorTypeOK, ReferenceTypeOK, [Next]_pipelineVars
    PROVE  ReferenceTypeOK'
  <1>1. CASE ReferenceStep
    BY <1>1, ReferenceTypeStep DEF ReferenceStep
  <1>2. CASE ~ReferenceStep
    <2>1. UNCHANGED referenceVars
      BY <1>2 DEF Next, CollectorStep, OutlookStep, pipelineVars
    <2>2. QED
      BY <2>1 DEF referenceVars, ReferenceTypeOK, Tables
  <1>3. QED
    BY <1>1, <1>2

\* The variables of the collector, of the reference jobs and of the issuers keep
\* their types.
THEOREM SnapshotTypeCorrect == Spec => []TypeOK
  <1>1. Init => CollectorTypeOK /\ ReferenceTypeOK /\ OutlookInv
    BY CollectorTypeInit, ReferenceTypeInit, OutlookInvInit DEF Init
  <1>2. CollectorTypeOK /\ ReferenceTypeOK /\ OutlookInv => TypeOK
    BY DEF OutlookInv, TypeOK
  <1>3. QED
    BY <1>1, <1>2, CollectorTypeInPipeline, ReferenceTypeInPipeline, OutlookInvInPipeline, PTL
    DEF Spec

\* Who PUTs on a day that has its run was not sure, and the day counts as raced.
LEMMA PutOnCompleteIsRaced ==
    ASSUME OutlookInv, OutlookNext,
           NEW d \in Days, json[d] # NoArtefact, <<csv[d], json[d]>>' # <<csv[d], json[d]>>
    PROVE  d \in raced'
  <1>1. PICK i \in Issuers : PutCsv(i) \/ PutJson(i)
    BY DEF OutlookNext, DagBegins, CliBegins, Clear, IssuerStep, SkipExisting,
           NothingToSkip, ReadData, ReadOutside, Verify, HeadRun, HeadMisled, TryFails
  <1>2. step[i] \in {"csv", "json"} /\ Puts(i) /\ Carries(i)
    BY <1>1 DEF PutCsv, PutJson, OutlookInv
  <1>3. d = issue[i]
    BY <1>1 DEF PutCsv, PutJson, OutlookInv, OutlookTypeOK
  <1>4. ~sure[i]
    BY <1>2, <1>3 DEF Carries
  <1>5. QED
    BY <1>2, <1>3, <1>4 DEF Puts

\* A complete run changes only when somebody PUTs who is not sure of the day.
THEOREM OutlooksAppendOnlyAlways == Spec => OutlooksAppendOnly
  <1>1. Init => CollectorTypeOK /\ OutlookInv
    BY CollectorTypeInit, OutlookInvInit DEF Init
  <1>2. ASSUME OutlookInv, [Next]_pipelineVars
        PROVE  [\A d \in Days :
                    json[d] # NoArtefact /\ <<csv[d], json[d]>>' # <<csv[d], json[d]>>
                        => d \in raced']_outlookVars
    <2>1. CASE OutlookStep
      BY <1>2, <2>1, PutOnCompleteIsRaced DEF OutlookStep
    <2>2. CASE ~OutlookStep
      BY <1>2, <2>2 DEF Next, CollectorStep, ReferenceStep, pipelineVars
    <2>3. QED
      BY <2>1, <2>2
  <1>3. QED
    BY <1>1, <1>2, CollectorTypeInPipeline, OutlookInvInPipeline, PTL
    DEF Spec, OutlooksAppendOnly

-----------------------------------------------------------------------------
(* Ranks.  The offset of a row is the number of rows before it; the offsets of   *)
(* the rows before a row are all the numbers below its own.                      *)

Below(U, r) == {q \in U : q < r}
Rank(U, r) == Cardinality(Below(U, r))

LEMMA RowSetsAreFinite ==
    ASSUME NEW U \in SUBSET RowIds
    PROVE  IsFiniteSet(U) /\ U \subseteq Nat
  <1>1. 1 \in Int /\ MaxRow \in Int
    BY SnapshotAssumption
  <1>2. IsFiniteSet(1..MaxRow)
    BY <1>1, FS_Interval
  <1>3. U \in SUBSET (1..MaxRow) /\ U \subseteq Nat
    BY <1>1 DEF RowIds
  <1>4. IsFiniteSet(U)
    BY <1>2, <1>3, FS_Subset
  <1>5. QED
    BY <1>3, <1>4

LEMMA RankIsNat ==
    ASSUME NEW U \in SUBSET RowIds, NEW r
    PROVE  IsFiniteSet(Below(U, r)) /\ Rank(U, r) \in Nat
  <1>1. Below(U, r) \in SUBSET U
    BY DEF Below
  <1>2. IsFiniteSet(Below(U, r))
    BY <1>1, RowSetsAreFinite, FS_Subset
  <1>3. QED
    BY <1>2, FS_CardinalityType DEF Rank

\* More rows do not lower a rank.
LEMMA RankMonotone ==
    ASSUME NEW U \in SUBSET RowIds, NEW V \in SUBSET RowIds, U \subseteq V, NEW r
    PROVE  Rank(U, r) <= Rank(V, r)
  <1>1. Below(U, r) \in SUBSET Below(V, r)
    BY DEF Below
  <1>2. QED
    BY <1>1, RankIsNat, FS_Subset DEF Rank

LEMMA RankStrict ==
    ASSUME NEW U \in SUBSET RowIds, NEW q \in U, NEW r \in U, q < r
    PROVE  Rank(U, q) < Rank(U, r)
  <1>1. q \in Nat /\ r \in Nat /\ U \subseteq Nat
    BY RowSetsAreFinite
  <1>2. \A x \in U : x < q => x < r
    BY <1>1
  <1>3. Below(U, q) \in SUBSET Below(U, r) /\ q \in Below(U, r) /\ q \notin Below(U, q)
    <2>1. ~(q < q)
      BY <1>1
    <2>2. QED
      BY <1>2, <2>1 DEF Below
  <1>4. Cardinality(Below(U, q)) <= Cardinality(Below(U, r))
    BY <1>3, RankIsNat, FS_Subset
  <1>5. Cardinality(Below(U, r)) # Cardinality(Below(U, q))
    BY <1>3, RankIsNat, FS_Subset
  <1>6. QED
    BY <1>4, <1>5, RankIsNat DEF Rank

\* Every smaller offset is that of some row before.
LEMMA RanksAreContiguous ==
    ASSUME NEW U \in SUBSET RowIds, NEW r \in U, NEW k \in Nat, k < Rank(U, r)
    PROVE  \E q \in U : q < r /\ Rank(U, q) = k
  <1> DEFINE B == Below(U, r)
             n == Rank(U, r)
             f == [q \in B |-> Rank(U, q)]
  <1>1. n \in Nat /\ IsFiniteSet(B) /\ Cardinality(B) = n /\ B \subseteq U
    BY RankIsNat DEF Rank, Below
  <1>2. ASSUME NEW q \in B
        PROVE  f[q] \in 0..(n - 1)
    <2>1. q \in U /\ q < r
      BY DEF Below
    <2>2. Rank(U, q) < n /\ Rank(U, q) \in Nat
      BY <2>1, RankStrict, RankIsNat
    <2>3. QED
      BY <1>1, <2>2
  <1>3. ASSUME NEW x \in B, NEW y \in B, f[x] = f[y]
        PROVE  x = y
    <2>1. x \in U /\ y \in U /\ x \in Nat /\ y \in Nat
      BY <1>1, RowSetsAreFinite
    <2>2. ~(x < y) /\ ~(y < x)
      BY <1>3, <2>1, RankStrict, RankIsNat
    <2>3. QED
      BY <2>1, <2>2
  <1>4. IsFiniteSet(0..(n - 1)) /\ Cardinality(0..(n - 1)) = n
    <2> HIDE DEF n
    <2>1. 0 \in Int /\ n - 1 \in Int
      BY <1>1
    <2>2. IsFiniteSet(0..(n - 1)) /\ Cardinality(0..(n - 1)) = IF 0 > n - 1 THEN 0 ELSE n - 1 - 0 + 1
      BY <2>1, FS_Interval
    <2>3. QED
      BY <1>1, <2>2
  <1>5. f \in Injection(B, 0..(n - 1))
    <2>1. f \in [B -> 0..(n - 1)]
      BY <1>2
    <2>2. QED
      BY <1>3, <2>1, Fun_IsInj
  <1> HIDE DEF B, n, f
  <1>6. f \in Surjection(B, 0..(n - 1))
    BY <1>1, <1>4, <1>5, FS_Injection
  <1>7. k \in 0..(n - 1)
    BY <1>1 DEF n
  <1>8. PICK q \in B : f[q] = k
    BY <1>6, <1>7 DEF Surjection
  <1>9. QED
    BY <1>8 DEF B, f, Below

-----------------------------------------------------------------------------
(* The walk.  While no row is removed, the rows of the beginning that stand      *)
(* before the offset have been fetched; while none is added, the rows from the   *)
(* offset on have not.                                                           *)

Standing(r) == Rank(upstream[Here], r)

FetchedAreGot ==
    stage = "fetch" /\ "removed" \notin edited =>
        /\ begun \subseteq upstream[Here]
        /\ \A r \in begun : Standing(r) < offset => got[r] > 0

FetchedOnce ==
    stage = "fetch" /\ "added" \notin edited =>
        \A r \in RowIds :
            /\ got[r] <= 1
            /\ r \in upstream[Here] /\ Standing(r) >= offset => got[r] = 0

AtOnce == stage = "fetch" /\ Here \notin Paged => offset = 0

WalkInv == FetchedAreGot /\ FetchedOnce /\ AtOnce /\ WalkCoversTable

LEMMA RowsHere ==
    ASSUME CollectorTypeOK, stage # "idle"
    PROVE  upstream[Here] \in SUBSET RowIds
  BY HereIsADataset DEF CollectorTypeOK

LEMMA PageByRank ==
    ASSUME Here \in Paged
    PROVE  Page = {r \in upstream[Here] : Standing(r) \in offset..(offset + PageSize - 1)}
  BY DEF Page, Standing, Rank, Below

\* A page that is not full has no row after it.
LEMMA LastPageIsLast ==
    ASSUME CollectorTypeOK, stage = "fetch", Here \in Paged, LastPage,
           NEW r \in upstream[Here]
    PROVE  Standing(r) < offset + PageSize
  <1> DEFINE U == upstream[Here]
             T == offset..(offset + PageSize - 1)
             f == [x \in Page |-> Rank(U, x)]
  <1>1. U \in SUBSET RowIds /\ offset \in Nat /\ PageSize \in Nat \ {0}
    BY RowsHere, SnapshotAssumption DEF CollectorTypeOK
  <1>2. Standing(r) \in Nat
    BY <1>1, RankIsNat DEF Standing
  <1>3. SUFFICES ASSUME Standing(r) >= offset + PageSize
                 PROVE  FALSE
    BY <1>1, <1>2
  <1>4. Page = {x \in U : Rank(U, x) \in T}
    BY PageByRank DEF Standing
  <1>5. f \in [Page -> T]
    BY <1>4
  <1>6. ASSUME NEW t \in T
        PROVE  \E x \in Page : f[x] = t
    <2>1. t \in Nat /\ t < Rank(U, r)
      BY <1>1, <1>2, <1>3 DEF Standing
    <2>2. PICK q \in U : Rank(U, q) = t
      BY <1>1, <2>1, RanksAreContiguous
    <2>3. QED
      BY <1>4, <2>2
  <1>7. IsFiniteSet(Page)
    <2>1. IsFiniteSet(U) /\ Page \in SUBSET U
      BY <1>1, <1>4, RowSetsAreFinite
    <2>2. QED
      BY <2>1, FS_Subset
  <1>8. Cardinality(T) = PageSize
    <2> DEFINE last == offset + PageSize - 1
    <2>1. offset \in Int /\ last \in Int /\ ~(offset > last) /\ last - offset + 1 = PageSize
      BY <1>1
    <2> HIDE DEF last
    <2>2. Cardinality(offset..last) = last - offset + 1
      BY <2>1, FS_Interval
    <2>3. QED
      BY <2>1, <2>2 DEF last
  <1>9. f \in Surjection(Page, T)
    BY <1>5, <1>6, Fun_IsSurj
  <1>10. Cardinality(T) <= Cardinality(Page)
    <2> HIDE DEF f, T
    <2>1. QED
      BY <1>7, <1>9, FS_Surjection
  <1>11. Cardinality(Page) < PageSize /\ Cardinality(Page) \in Nat
    BY <1>7, FS_CardinalityType DEF LastPage
  <1>12. QED
    BY <1>1, <1>8, <1>10, <1>11

LEMMA WalkInit == CollectorInit => WalkInv
  BY DEF CollectorInit, WalkInv, FetchedAreGot, FetchedOnce, AtOnce, WalkCoversTable

LEMMA WalkBegins ==
    ASSUME CollectorTypeOK, BeginWalk, UNCHANGED <<source, upstream>>,
           at' \in 1..Len(DatasetsOf[source])
    PROVE  WalkInv'
  <1>1. Here' = DatasetsOf[source][at'] /\ Here' \in Datasets
    BY DatasetAt DEF Here
  <1>2. upstream[Here'] \in SUBSET RowIds
    BY <1>1 DEF CollectorTypeOK
  <1>3. \A r : Rank(upstream[Here'], r) \in Nat
    BY <1>2, RankIsNat
  <1>4. stage' = "fetch" /\ offset' = 0 /\ got' = Nothing /\ begun' = upstream[Here'] /\ upstream' = upstream
    BY <1>1 DEF BeginWalk
  <1>5. FetchedAreGot'
    BY <1>3, <1>4 DEF FetchedAreGot, Standing
  <1>6. FetchedOnce'
    BY <1>4 DEF FetchedOnce, Nothing
  <1>7. QED
    BY <1>4, <1>5, <1>6 DEF WalkInv, AtOnce, WalkCoversTable

LEMMA NextWalk ==
    ASSUME CollectorTypeOK, stage # "idle", NextDataset, UNCHANGED <<source, upstream>>
    PROVE  WalkInv'
  <1>1. CASE at < Len(DatasetsOf[source])
    <2>1. BeginWalk /\ at' \in 1..Len(DatasetsOf[source])
      BY <1>1, DomainOfDatasets DEF NextDataset, CollectorTypeOK
    <2>2. QED
      BY <2>1, WalkBegins
  <1>2. CASE ~(at < Len(DatasetsOf[source]))
    BY <1>2 DEF NextDataset, WalkInv, FetchedAreGot, FetchedOnce, AtOnce, WalkCoversTable
  <1>3. QED
    BY <1>1, <1>2

LEMMA EditKeepsWalk ==
    ASSUME CollectorTypeOK, CollectorTypeOK', WalkInv, NEW ds \in Datasets, Edit(ds)
    PROVE  WalkInv'
  <1>1. UNCHANGED <<source, stage, at, offset, got, begun>> /\ Here' = Here
    BY DEF Edit, process, Here
  <1>2. WalkCoversTable'
    BY <1>1 DEF Edit, WalkInv, WalkCoversTable
  <1>3. CASE stage # "fetch"
    BY <1>1, <1>2, <1>3 DEF WalkInv, FetchedAreGot, FetchedOnce, AtOnce
  <1>4. CASE stage = "fetch" /\ ds # Here
    <2>1. upstream'[Here] = upstream[Here] /\ edited' = edited
      BY <1>4 DEF Edit, CollectorTypeOK
    <2>2. QED
      BY <1>1, <1>2, <2>1 DEF WalkInv, FetchedAreGot, FetchedOnce, AtOnce, Standing
  <1>5. CASE stage = "fetch" /\ ds = Here
    <2> DEFINE U == upstream[Here]
               V == upstream'[Here]
    <2>1. PICK r0 \in RowIds :
              /\ V = IF r0 \in U THEN U \ {r0} ELSE U \cup {r0}
              /\ edited' = edited \cup {IF r0 \in U THEN "removed" ELSE "added"}
      BY <1>5 DEF Edit, CollectorTypeOK
    <2>2. U \in SUBSET RowIds /\ V \in SUBSET RowIds
      BY <1>1, <1>5, RowsHere, HereIsADataset DEF CollectorTypeOK
    <2>3. \A r : Rank(U, r) \in Nat /\ Rank(V, r) \in Nat
      BY <2>2, RankIsNat
    <2>4. offset \in Nat /\ Standing(0) = Rank(U, 0)
      BY DEF CollectorTypeOK, Standing
    <2>5. ASSUME "removed" \notin edited'
          PROVE  begun \subseteq V /\ \A r \in begun : Rank(V, r) < offset => got[r] > 0
      <3>1. U \subseteq V /\ "removed" \notin edited
        BY <2>1, <2>5
      <3>2. \A r : Rank(U, r) <= Rank(V, r)
        <4> HIDE DEF U, V
        <4>1. QED
          BY <2>2, <3>1, RankMonotone
      <3>3. begun \subseteq U /\ \A r \in begun : Rank(U, r) < offset => got[r] > 0
        BY <1>5, <3>1 DEF WalkInv, FetchedAreGot, Standing
      <3> HIDE DEF U, V
      <3>4. QED
        BY <2>3, <2>4, <3>1, <3>2, <3>3
    <2>6. ASSUME "added" \notin edited'
          PROVE  \A r \in RowIds : got[r] <= 1 /\ (r \in V /\ Rank(V, r) >= offset => got[r] = 0)
      <3>1. V \subseteq U /\ "added" \notin edited
        BY <2>1, <2>6
      <3>2. \A r : Rank(V, r) <= Rank(U, r)
        <4> HIDE DEF U, V
        <4>1. QED
          BY <2>2, <3>1, RankMonotone
      <3>3. \A r \in RowIds : got[r] <= 1 /\ (r \in U /\ Rank(U, r) >= offset => got[r] = 0)
        BY <1>5, <3>1 DEF WalkInv, FetchedOnce, Standing
      <3> HIDE DEF U, V
      <3>4. QED
        BY <2>3, <2>4, <3>1, <3>2, <3>3
    <2>7. FetchedAreGot' /\ FetchedOnce'
      BY <1>1, <2>5, <2>6 DEF FetchedAreGot, FetchedOnce, Standing
    <2>8. QED
      BY <1>1, <1>2, <2>7 DEF WalkInv, AtOnce
  <1>6. QED
    BY <1>3, <1>4, <1>5

LEMMA RequestKeepsWalk ==
    ASSUME CollectorTypeOK, WalkInv, RequestOk
    PROVE  WalkInv'
  <1>1. /\ stage = "fetch"
        /\ got' = [r \in RowIds |-> IF r \in Page THEN got[r] + 1 ELSE got[r]]
        /\ UNCHANGED <<source, upstream, at, begun, edited>> /\ Here' = Here
    BY DEF RequestOk, Here
  <1>2. /\ upstream[Here] \in SUBSET RowIds /\ offset \in Nat /\ PageSize \in Nat \ {0}
        /\ got \in [RowIds -> Nat] /\ begun \subseteq RowIds
    BY <1>1, RowsHere, SnapshotAssumption DEF CollectorTypeOK, Contents
  <1>3. \A r : Standing(r) \in Nat
    BY <1>2, RankIsNat DEF Standing
  <1>4. \A r \in Page : r \in upstream[Here] /\ Standing(r) >= offset
    <2>1. CASE Here \in Paged
      BY <1>2, <1>3, <2>1, PageByRank
    <2>2. CASE Here \notin Paged
      BY <1>1, <1>3, <2>2 DEF Page, WalkInv, AtOnce
    <2>3. QED
      BY <2>1, <2>2
  <1>5. "added" \notin edited => \A r \in RowIds : got'[r] <= 1
    BY <1>1, <1>2, <1>4 DEF WalkInv, FetchedOnce
  <1>6. "removed" \notin edited =>
            /\ begun \subseteq upstream[Here]
            /\ \A r \in begun : Standing(r) < offset \/ r \in Page => got'[r] > 0
    BY <1>1, <1>2 DEF WalkInv, FetchedAreGot
  <1>7. CASE LastPage
    <2>1. \A r \in upstream[Here] : Standing(r) < offset \/ r \in Page
      <3>1. CASE Here \in Paged
        <4>1. \A r \in upstream[Here] : Standing(r) < offset + PageSize
          BY <1>1, <1>7, <3>1, LastPageIsLast
        <4>2. QED
          BY <1>2, <1>3, <3>1, <4>1, PageByRank
      <3>2. CASE Here \notin Paged
        BY <3>2 DEF Page
      <3>3. QED
        BY <3>1, <3>2
    <2>2. stage' = "floor"
      BY <1>7 DEF RequestOk
    <2>3. WalkCoversTable'
      BY <1>1, <1>5, <1>6, <2>1 DEF WalkCoversTable
    <2>4. QED
      BY <2>2, <2>3 DEF WalkInv, FetchedAreGot, FetchedOnce, AtOnce
  <1>8. CASE ~LastPage
    <2>1. stage' = "fetch" /\ offset' = offset + PageSize /\ Here \in Paged
      BY <1>1, <1>8 DEF RequestOk, LastPage
    <2>2. \A r : Standing(r)' = Standing(r)
      BY <1>1 DEF Standing
    <2>3. \A r \in upstream[Here] : Standing(r) < offset + PageSize => Standing(r) < offset \/ r \in Page
      BY <1>2, <1>3, <2>1, PageByRank
    <2>4. FetchedAreGot'
      BY <1>1, <1>6, <2>1, <2>2, <2>3 DEF FetchedAreGot
    <2>5. \A r \in upstream[Here] : Standing(r) >= offset + PageSize => Standing(r) >= offset /\ r \notin Page
      BY <1>2, <1>3, <2>1, PageByRank
    <2>6. "added" \notin edited =>
              \A r \in RowIds : r \in upstream[Here] /\ Standing(r) >= offset + PageSize => got'[r] = 0
      BY <1>1, <2>5 DEF WalkInv, FetchedOnce
    <2>7. FetchedOnce'
      BY <1>1, <1>5, <2>1, <2>2, <2>6 DEF FetchedOnce
    <2>8. QED
      BY <1>1, <2>1, <2>4, <2>7 DEF WalkInv, AtOnce, WalkCoversTable
  <1>9. QED
    BY <1>7, <1>8

LEMMA WalkStep ==
    ASSUME CollectorTypeOK, CollectorTypeOK', WalkInv, CollectorNext
    PROVE  WalkInv'
  <1> USE DEF process, bronzeSnapshots
  <1>1. ASSUME NEW ds \in Datasets, Edit(ds)
        PROVE  WalkInv'
    BY <1>1, EditKeepsWalk
  <1>2. ASSUME NEW d \in Days, Start(d)
        PROVE  WalkInv'
    <2>1. at' \in 1..Len(DatasetsOf[source])
      BY <1>2, SnapshotAssumption DEF Start, CollectorTypeOK
    <2>2. QED
      BY <1>2, <2>1, WalkBegins DEF Start
  <1>3. CASE RequestOk
    BY <1>3, RequestKeepsWalk
  <1>4. CASE RequestFails /\ Here \in Paged /\ tries < MaxRetries
    <2>1. UNCHANGED <<source, upstream, stage, at, offset, got, begun, edited>>
      BY <1>4 DEF RequestFails
    <2>2. QED
      BY <2>1 DEF WalkInv, FetchedAreGot, FetchedOnce, AtOnce, WalkCoversTable, Standing, Here
  <1>5. CASE \/ RequestFails /\ ~(Here \in Paged /\ tries < MaxRetries)
             \/ TooSmall \/ PutManifest \/ UploadFails
    BY <1>5, NextWalk DEF RequestFails, TooSmall, PutManifest, UploadFails, Fails
  <1>6. CASE PutData \/ Report \/ Dies
    <2>1. UNCHANGED <<got, begun, edited>> /\ stage' # "fetch"
          /\ (stage' = "manifest" => stage = "floor") /\ stage' # "floor"
      BY <1>6 DEF PutData, Report, Dies
    <2>2. QED
      BY <2>1 DEF WalkInv, FetchedAreGot, FetchedOnce, AtOnce, WalkCoversTable
  <1>7. QED
    BY <1>1, <1>2, <1>3, <1>4, <1>5, <1>6 DEF CollectorNext

LEMMA WalkStepInPipeline ==
    ASSUME CollectorTypeOK, WalkInv, [Next]_pipelineVars
    PROVE  WalkInv'
  <1>1. CASE CollectorStep
    BY <1>1, CollectorTypeInPipeline, WalkStep DEF CollectorStep
  <1>2. CASE ~CollectorStep
    <2>1. UNCHANGED collectorVars
      BY <1>2, ReaderKeepsCollector DEF Next, pipelineVars
    <2>2. QED
      BY <2>1
      DEF collectorVars, process, WalkInv, FetchedAreGot, FetchedOnce, AtOnce,
          WalkCoversTable, Standing, Here
  <1>3. QED
    BY <1>1, <1>2

\* What ordering by the row id buys a walk, for tables and pages of every size.
THEOREM WalkCoversTableAlways == Spec => []WalkCoversTable
  <1>1. Init => CollectorTypeOK /\ WalkInv
    BY CollectorTypeInit, WalkInit DEF Init
  <1>2. WalkInv => WalkCoversTable
    BY DEF WalkInv
  <1>3. QED
    BY <1>1, <1>2, CollectorTypeInPipeline, WalkStepInPipeline, PTL DEF Spec
=============================================================================
