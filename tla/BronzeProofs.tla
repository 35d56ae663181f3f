----------------------------- MODULE BronzeProofs -----------------------------
(* Theorems about BronzeIngest, for every set of callers, windows, datasets,   *)
(* pool size, number of failures and deaths; and about BronzeAudit: the audit  *)
(* is one more caller, so every theorem about BronzeIngest's Spec holds of the *)
(* composition, and what a "recovered" audit has established.                  *)
EXTENDS BronzeAudit, WellFoundedInduction, TLAPS

(* ------------------------------------------------------------------------- *)
(* Types.                                                                    *)

\* What a fetch returns is a version for every day.
LEMMA FetchedType ==
    ASSUME TypeOK, NEW t \in Task
    PROVE  Fetched(t) \in [Days -> Versions]
  <1>1. cur[t] \in Datasets
    BY DEF TypeOK
  <1>2. \A d \in Days : upstream[cur[t]][d] \in Versions
    BY <1>1 DEF TypeOK
  <1>3. 0 \in Versions
    BY BronzeAssumption DEF Versions
  <1>4. QED
    BY <1>2, <1>3 DEF Fetched

\* Ending a dataset keeps the types of the variables it sets.
LEMMA NextDatasetType ==
    ASSUME TypeOK, NEW t \in Task, NEW o \in {"empty", "written", "failed"},
           NextDataset(t, o)
    PROVE  /\ outcome' \in [Task -> [Datasets -> {"pending", "empty", "written", "failed"}]]
           /\ pc' \in [Task -> {"idle", "queued", "fetch", "data", "manifest", "done"}]
           /\ cur' \in [Task -> Datasets]
  <1>1. outcome' \in [Task -> [Datasets -> {"pending", "empty", "written", "failed"}]]
    BY DEF TypeOK, NextDataset
  <1>2. CASE cur[t] < NumDatasets
    <2>1. cur[t] + 1 \in Datasets
      BY <1>2, BronzeAssumption DEF TypeOK, Datasets
    <2>2. cur' = [cur EXCEPT ![t] = cur[t] + 1]
      BY <1>2 DEF NextDataset
    <2>3. cur' \in [Task -> Datasets]
      BY <2>1, <2>2 DEF TypeOK
    <2>4. pc' \in [Task -> {"idle", "queued", "fetch", "data", "manifest", "done"}]
      BY <1>2 DEF TypeOK, NextDataset
    <2>5. QED
      BY <1>1, <2>3, <2>4
  <1>3. CASE ~(cur[t] < NumDatasets)
    BY <1>1, <1>3 DEF TypeOK, NextDataset
  <1>4. QED
    BY <1>2, <1>3

\* Every variable keeps its type through every step of every caller.
THEOREM TypeCorrect == Spec => []TypeOK
  <1>1. Init => TypeOK
    BY BronzeAssumption
    DEF Init, TypeOK, NothingFetched, NoRecords, NoOutcome, Versions, Datasets, Task
  <1>2. TypeOK /\ [Next]_vars => TypeOK'
    <2> SUFFICES ASSUME TypeOK, [Next]_vars
                 PROVE  TypeOK'
      OBVIOUS
    <2>1. CASE Revise
      BY <2>1, BronzeAssumption DEF Revise, TypeOK, Versions, store, slice, run
    <2>2. ASSUME NEW w \in Writers, Launch(w)
          PROVE  TypeOK'
      <3>1. PICK days \in Windows[w] : LaunchOn(w, days)
        BY <2>2 DEF Launch
      <3>2. days \in SUBSET Days
        BY <3>1, BronzeAssumption
      <3>3. runs' \in [Writers -> 0..MaxRuns]
        BY <3>1, BronzeAssumption DEF LaunchOn, TypeOK
      <3>4. got' \in [Task -> [Datasets -> [Days -> Versions]]]
        BY <3>1, BronzeAssumption
        DEF LaunchOn, TypeOK, NothingFetched, NoRecords, Versions
      <3>5. /\ cur' \in [Task -> Datasets]
            /\ day' \in [Task -> Days]
            /\ todo' \in [Task -> SUBSET Days]
        BY <3>1, BronzeAssumption DEF LaunchOn, TypeOK, Datasets, Task
      <3>6. /\ pc' \in [Task -> {"idle", "queued", "fetch", "data", "manifest", "done"}]
            /\ outcome' \in [Task -> [Datasets -> {"pending", "empty", "written", "failed"}]]
        BY <3>1 DEF LaunchOn, TypeOK, NoOutcome
      <3>7. QED
        BY <3>1, <3>2, <3>3, <3>4, <3>5, <3>6 DEF LaunchOn, TypeOK, store
    <2>3. ASSUME NEW w \in Writers, Collect(w)
          PROVE  TypeOK'
      BY <2>3 DEF Collect, TypeOK, store, slice
    <2>4. ASSUME NEW w \in Writers, Crash(w)
          PROVE  TypeOK'
      BY <2>4, BronzeAssumption DEF Crash, TypeOK, store
    <2>5. ASSUME NEW t \in Task, StartSlice(t)
          PROVE  TypeOK'
      BY <2>5 DEF StartSlice, TypeOK, store, run
    <2>6. ASSUME NEW t \in Task, FetchNothing(t)
          PROVE  TypeOK'
      <3>1. NoRecords \in [Days -> Versions]
        BY BronzeAssumption DEF NoRecords, Versions
      <3>2. QED
        BY <2>6, <3>1, NextDatasetType DEF FetchNothing, TypeOK, store, run
    <2>7. ASSUME NEW t \in Task, FetchRecords(t)
          PROVE  TypeOK'
      BY <2>7, FetchedType DEF FetchRecords, TypeOK, store, run
    <2>8. ASSUME NEW t \in Task, PutData(t)
          PROVE  TypeOK'
      BY <2>8 DEF PutData, TypeOK, run
    <2>9. ASSUME NEW t \in Task, PutManifest(t)
          PROVE  TypeOK'
      <3>1. /\ manifest' \in [Datasets -> [Days -> Versions]]
            /\ todo' \in [Task -> SUBSET Days]
        BY <2>9 DEF PutManifest, TypeOK
      <3>2. CASE todo[t] = {day[t]}
        BY <2>9, <3>1, <3>2, NextDatasetType, SMTT(20) DEF PutManifest, TypeOK, run
      <3>3. CASE todo[t] # {day[t]}
        BY <2>9, <3>1, <3>3 DEF PutManifest, TypeOK, run
      <3>4. QED
        BY <3>2, <3>3
    <2>10. ASSUME NEW t \in Task, CallFails(t)
           PROVE  TypeOK'
      BY <2>10, NextDatasetType, BronzeAssumption DEF CallFails, TypeOK, store, run
    <2>11. CASE UNCHANGED vars
      BY <2>11 DEF vars, TypeOK
    <2>12. QED
      BY <2>1, <2>2, <2>3, <2>4, <2>5, <2>6, <2>7, <2>8, <2>9, <2>10, <2>11
      DEF Next, WriterStep, SliceStep
  <1>3. QED
    BY <1>1, <1>2, PTL DEF Spec
(* ------------------------------------------------------------------------- *)
(* Pairs.  ManifestNeverAheadOfData is not inductive: that a slice about to  *)
(* PUT a manifest has a data object in the store must be carried along, and  *)
(* WrittenMeansBacked needs what a slice half way through a dataset has done.*)

Writing == {"data", "manifest"}

\* Days are left to write only while a dataset is being written, and each of
\* them came back from the fetch.
TodoFetched ==
    \A t \in Task :
        /\ todo[t] # {} => pc[t] \in Writing
        /\ \A d \in todo[t] : got[t][cur[t]][d] # 0

\* Between the two PUTs the data object is in the store.
MidPair ==
    \A t \in Task :
        pc[t] = "manifest" => day[t] \in todo[t] /\ data[cur[t]][day[t]] # 0

\* A fetched day that is no longer to be written has both objects.
DaysDone ==
    \A t \in Task : pc[t] \in Writing =>
        \A d \in Days : got[t][cur[t]][d] # 0 /\ d \notin todo[t] =>
            data[cur[t]][d] # 0 /\ manifest[cur[t]][d] # 0

\* The current dataset and those after it have no outcome yet.
PendingAhead ==
    \A t \in Task : pc[t] \in {"queued", "fetch"} \cup Writing =>
        \A x \in Datasets : cur[t] <= x => outcome[t][x] = "pending"

PairInv ==
    /\ TodoFetched
    /\ MidPair
    /\ DaysDone
    /\ PendingAhead
    /\ ManifestNeverAheadOfData
    /\ WrittenMeansBacked

USE DEF Writing

\* Objects are overwritten, never removed.
LEMMA ObjectsStay ==
    ASSUME TypeOK, TodoFetched, MidPair, [Next]_vars
    PROVE  \A x \in Datasets, d \in Days :
              /\ data[x][d] # 0 => data'[x][d] # 0
              /\ manifest[x][d] # 0 => manifest'[x][d] # 0
  <1>1. ASSUME NEW t \in Task, PutData(t)
        PROVE  \A x \in Datasets, d \in Days :
                  /\ data[x][d] # 0 => data'[x][d] # 0
                  /\ manifest[x][d] # 0 => manifest'[x][d] # 0
    BY <1>1 DEF PutData, TodoFetched, TypeOK
  <1>2. ASSUME NEW t \in Task, PutManifest(t)
        PROVE  \A x \in Datasets, d \in Days :
                  /\ data[x][d] # 0 => data'[x][d] # 0
                  /\ manifest[x][d] # 0 => manifest'[x][d] # 0
    BY <1>2 DEF PutManifest, TodoFetched, MidPair, TypeOK
  <1>3. ASSUME NEW w \in Writers, WriterStep(w)
        PROVE  UNCHANGED store
    BY <1>3 DEF WriterStep, Launch, LaunchOn, Collect, Crash
  <1>4. ASSUME NEW t \in Task,
               StartSlice(t) \/ FetchNothing(t) \/ FetchRecords(t) \/ CallFails(t)
        PROVE  UNCHANGED store
    BY <1>4 DEF StartSlice, FetchNothing, FetchRecords, CallFails
  <1>5. Revise \/ UNCHANGED vars => UNCHANGED store
    BY DEF Revise, vars, store
  <1>6. QED
    BY <1>1, <1>2, <1>3, <1>4, <1>5 DEF Next, SliceStep, store

\* A step that leaves the progress of every slice alone keeps PairInv.
LEMMA PairInvIdle ==
    ASSUME TypeOK, PairInv, UNCHANGED <<store, slice>>
    PROVE  PairInv'
  BY DEF PairInv, TodoFetched, MidPair, DaysDone, PendingAhead,
         ManifestNeverAheadOfData, WrittenMeansBacked, store, slice

\* Moving on to the next dataset leaves no outcome at or after it.
LEMMA NextDatasetPending ==
    ASSUME TypeOK, PendingAhead, NEW t \in Task, NEW o,
           pc[t] \in {"fetch", "data", "manifest"}, NextDataset(t, o)
    PROVE  PendingAhead'
  <1> SUFFICES ASSUME NEW s \in Task,
                      pc'[s] \in {"queued", "fetch"} \cup Writing,
                      NEW x \in Datasets, cur'[s] <= x
               PROVE  outcome'[s][x] = "pending"
    BY DEF PendingAhead
  <1>1. CASE s # t
    BY <1>1 DEF NextDataset, PendingAhead, TypeOK
  <1>2. CASE s = t
    <2>1. cur[t] < NumDatasets /\ cur' = [cur EXCEPT ![t] = cur[t] + 1]
      BY <1>2 DEF NextDataset, TypeOK
    <2>2. cur'[t] = cur[t] + 1 /\ cur[t] \in Nat /\ x \in Nat
      BY <2>1 DEF TypeOK, Datasets
    <2>3. cur[t] <= x /\ cur[t] # x
      BY <1>2, <2>2
    <2>4. outcome[t][x] = "pending"
      BY <2>3 DEF PendingAhead
    <2>5. outcome'[t][x] = outcome[t][x]
      BY <2>3 DEF NextDataset, TypeOK
    <2>6. QED
      BY <1>2, <2>4, <2>5
  <1>3. QED
    BY <1>1, <1>2

\* Every step of every caller keeps PairInv.
LEMMA PairInvStep ==
    ASSUME TypeOK, TypeOK', PairInv, [Next]_vars
    PROVE  PairInv'
  <1>0. \A x \in Datasets, d \in Days :
           /\ data[x][d] # 0 => data'[x][d] # 0
           /\ manifest[x][d] # 0 => manifest'[x][d] # 0
    BY ObjectsStay DEF PairInv
  <1>1. CASE Revise
    BY <1>1, PairInvIdle DEF Revise
  <1>2. ASSUME NEW w \in Writers, Launch(w)
        PROVE  PairInv'
    <2>1. PICK days \in Windows[w] : LaunchOn(w, days)
      BY <1>2 DEF Launch
    <2> USE DEF LaunchOn, PairInv, TypeOK, store
    <2>2. TodoFetched'
      BY <2>1 DEF TodoFetched
    <2>3. MidPair' /\ DaysDone'
      BY <2>1 DEF MidPair, DaysDone
    <2>4. PendingAhead'
      BY <2>1 DEF PendingAhead, NoOutcome
    <2>5. ManifestNeverAheadOfData'
      BY <2>1 DEF ManifestNeverAheadOfData
    <2>6. WrittenMeansBacked'
      BY <2>1 DEF WrittenMeansBacked, NoOutcome
    <2>7. QED
      BY <2>2, <2>3, <2>4, <2>5, <2>6
  <1>3. ASSUME NEW w \in Writers, Collect(w)
        PROVE  PairInv'
    BY <1>3, PairInvIdle DEF Collect
  <1>4. ASSUME NEW w \in Writers, Crash(w)
        PROVE  PairInv'
    <2> USE DEF Crash, PairInv, TypeOK, store
    <2>1. TodoFetched' /\ MidPair' /\ DaysDone' /\ PendingAhead'
      BY <1>4 DEF TodoFetched, MidPair, DaysDone, PendingAhead
    <2>2. ManifestNeverAheadOfData' /\ WrittenMeansBacked'
      BY <1>4 DEF ManifestNeverAheadOfData, WrittenMeansBacked
    <2>3. QED
      BY <2>1, <2>2
  <1>5. ASSUME NEW t \in Task, StartSlice(t)
        PROVE  PairInv'
    <2> USE DEF StartSlice, PairInv, TypeOK, store
    <2>1. TodoFetched' /\ MidPair' /\ DaysDone' /\ PendingAhead'
      BY <1>5 DEF TodoFetched, MidPair, DaysDone, PendingAhead
    <2>2. ManifestNeverAheadOfData' /\ WrittenMeansBacked'
      BY <1>5 DEF ManifestNeverAheadOfData, WrittenMeansBacked
    <2>3. QED
      BY <2>1, <2>2
  <1>6. ASSUME NEW t \in Task, FetchNothing(t)
        PROVE  PairInv'
    <2>1. /\ pc[t] = "fetch"
          /\ todo[t] = {}
      BY <1>6 DEF FetchNothing, PairInv, TodoFetched
    <2>0. outcome[t][cur[t]] = "pending"
      BY <2>1 DEF PairInv, PendingAhead, TypeOK, Datasets
    <2>2. TodoFetched' /\ MidPair' /\ DaysDone'
      BY <1>6, <2>1
      DEF FetchNothing, NextDataset, PairInv, TodoFetched, MidPair, DaysDone, TypeOK, store
    <2>3. PendingAhead'
      BY <1>6, <2>1, NextDatasetPending DEF FetchNothing, PairInv
    <2>4. ManifestNeverAheadOfData' /\ WrittenMeansBacked'
      BY <1>6, <2>0, <2>1 DEF FetchNothing, NextDataset, PairInv, ManifestNeverAheadOfData,
         WrittenMeansBacked, TypeOK, store
    <2>5. QED
      BY <2>2, <2>3, <2>4 DEF PairInv
  <1>7. ASSUME NEW t \in Task, FetchRecords(t)
        PROVE  PairInv'
    <2>1. pc[t] = "fetch" /\ outcome[t][cur[t]] = "pending"
      BY <1>7 DEF FetchRecords, PairInv, PendingAhead, TypeOK, Datasets
    <2>2. TodoFetched' /\ MidPair' /\ DaysDone'
      BY <1>7, <2>1, FetchedType
      DEF FetchRecords, PairInv, TodoFetched, MidPair, DaysDone, TypeOK, store
    <2>3. PendingAhead'
      BY <1>7, <2>1 DEF FetchRecords, PairInv, PendingAhead, TypeOK
    <2>4. ManifestNeverAheadOfData' /\ WrittenMeansBacked'
      BY <1>7, <2>1 DEF FetchRecords, PairInv, ManifestNeverAheadOfData,
         WrittenMeansBacked, TypeOK, store
    <2>5. QED
      BY <2>2, <2>3, <2>4 DEF PairInv
  <1>8. ASSUME NEW t \in Task, PutData(t)
        PROVE  PairInv'
    <2>1. TodoFetched'
      BY <1>8 DEF PutData, PairInv, TodoFetched, TypeOK
    <2>2. MidPair'
      BY <1>8, <1>0 DEF PutData, PairInv, TodoFetched, MidPair, TypeOK
    <2>3. DaysDone' /\ PendingAhead'
      BY <1>8, <1>0 DEF PutData, PairInv, DaysDone, PendingAhead, TypeOK
    <2>4. ManifestNeverAheadOfData' /\ WrittenMeansBacked'
      BY <1>8, <1>0 DEF PutData, PairInv, ManifestNeverAheadOfData, WrittenMeansBacked, TypeOK
    <2>5. QED
      BY <2>1, <2>2, <2>3, <2>4 DEF PairInv
  <1>9. ASSUME NEW t \in Task, PutManifest(t)
        PROVE  PairInv'
    <2>1. /\ pc[t] = "manifest"
          /\ day[t] \in todo[t]
          /\ data[cur[t]][day[t]] # 0
          /\ got[t][cur[t]][day[t]] # 0
          /\ manifest'[cur[t]][day[t]] # 0
      BY <1>9 DEF PutManifest, PairInv, TodoFetched, MidPair, TypeOK
    <2>2. TodoFetched'
      BY <1>9, <2>1 DEF PutManifest, NextDataset, PairInv, TodoFetched, TypeOK
    <2>3. MidPair'
      BY <1>9, <2>1, <1>0 DEF PutManifest, NextDataset, PairInv, MidPair, TypeOK
    <2>4. DaysDone'
      BY <1>9, <2>1, <1>0 DEF PutManifest, NextDataset, PairInv, DaysDone, TypeOK
    <2>5. PendingAhead'
      <3>1. CASE todo[t] = {day[t]}
        BY <1>9, <2>1, <3>1, NextDatasetPending DEF PutManifest, PairInv
      <3>2. CASE todo[t] # {day[t]}
        <4>1. /\ UNCHANGED <<cur, outcome>>
              /\ pc' = [pc EXCEPT ![t] = "data"]
          BY <1>9, <3>2 DEF PutManifest
        <4>2. QED
          BY <2>1, <4>1 DEF PairInv, PendingAhead, TypeOK
      <3>3. QED
        BY <3>1, <3>2
    <2>6. ManifestNeverAheadOfData'
      BY <1>9, <2>1, <1>0 DEF PutManifest, PairInv, ManifestNeverAheadOfData, TypeOK
    <2>7. WrittenMeansBacked'
      <3>1. CASE todo[t] = {day[t]}
        <4>1. /\ outcome' = [outcome EXCEPT ![t][cur[t]] = "written"]
              /\ got' = got
          BY <1>9, <3>1 DEF PutManifest, NextDataset
        <4>2. \A d \in Days : got[t][cur[t]][d] # 0 =>
                 data'[cur[t]][d] # 0 /\ manifest'[cur[t]][d] # 0
          BY <2>1, <1>0, <3>1, <1>9 DEF PairInv, DaysDone, TypeOK, PutManifest
        <4>3. SUFFICES ASSUME NEW s \in Task, NEW x \in Datasets,
                              outcome'[s][x] = "written",
                              NEW d \in Days, got[s][x][d] # 0
                       PROVE  data'[x][d] # 0 /\ manifest'[x][d] # 0
          BY <4>1 DEF WrittenMeansBacked
        <4>4. CASE s = t /\ x = cur[t]
          BY <4>2, <4>3, <4>4
        <4>5. CASE ~(s = t /\ x = cur[t])
          BY <4>1, <4>3, <4>5, <1>0 DEF PairInv, WrittenMeansBacked, TypeOK
        <4>6. QED
          BY <4>4, <4>5
      <3>2. CASE todo[t] # {day[t]}
        BY <1>9, <1>0, <3>2 DEF PutManifest, PairInv, WrittenMeansBacked, TypeOK
      <3>3. QED
        BY <3>1, <3>2
    <2>8. QED
      BY <2>2, <2>3, <2>4, <2>5, <2>6, <2>7 DEF PairInv
  <1>10. ASSUME NEW t \in Task, CallFails(t)
         PROVE  PairInv'
    <2>1. outcome[t][cur[t]] = "pending"
      BY <1>10 DEF CallFails, PairInv, PendingAhead, TypeOK, Datasets
    <2>2. TodoFetched' /\ MidPair' /\ DaysDone'
      BY <1>10 DEF CallFails, NextDataset, PairInv, TodoFetched, MidPair, DaysDone, TypeOK, store
    <2>3. PendingAhead'
      BY <1>10, NextDatasetPending DEF CallFails, PairInv
    <2>4. ManifestNeverAheadOfData' /\ WrittenMeansBacked'
      BY <1>10, <2>1 DEF CallFails, NextDataset, PairInv, ManifestNeverAheadOfData,
         WrittenMeansBacked, TypeOK, store
    <2>5. QED
      BY <2>2, <2>3, <2>4 DEF PairInv
  <1>11. CASE UNCHANGED vars
    BY <1>11, PairInvIdle DEF vars, store, slice
  <1>12. QED
    BY <1>1, <1>2, <1>3, <1>4, <1>5, <1>6, <1>7, <1>8, <1>9, <1>10, <1>11
    DEF Next, WriterStep, SliceStep

LEMMA PairInvAlways == Spec => []PairInv
  <1>1. Init => PairInv
    BY DEF Init, PairInv, TodoFetched, MidPair, DaysDone, PendingAhead,
           ManifestNeverAheadOfData, WrittenMeansBacked, NothingFetched, NoRecords,
           NoOutcome
  <1>2. TypeOK /\ TypeOK' /\ PairInv /\ [Next]_vars => PairInv'
    BY PairInvStep
  <1>3. QED
    BY <1>1, <1>2, TypeCorrect, PTL DEF Spec

\* However many callers write concurrently, fail or die, no manifest is ever
\* in the store without the data object it stands for.
THEOREM ManifestSafe == Spec => []ManifestNeverAheadOfData
  <1>1. PairInv => ManifestNeverAheadOfData
    BY DEF PairInv
  <1>2. QED
    BY <1>1, PairInvAlways, PTL

\* Whatever a slice counts as written is in the store, both objects of it.
THEOREM WrittenSafe == Spec => []WrittenMeansBacked
  <1>1. PairInv => WrittenMeansBacked
    BY DEF PairInv
  <1>2. QED
    BY <1>1, PairInvAlways, PTL
(* ------------------------------------------------------------------------- *)
(* One caller.  With a single process, partitions are owned: the slices of a *)
(* window are disjoint, so what a slice fetched for a day is still the newest*)
(* content of that partition when the slice writes it.                       *)

OneCaller == \A v, w \in Writers : v = w

\* The first days of the slices of the run t belongs to.
RunSlices(t) == SlicesOf(window[t[1]])

\* A slice that has started, or has records, is a slice of its run's window,
\* and the records are of its own days.
OwnDays ==
    \A t \in Task :
        /\ pc[t] # "idle" => t[2] \in RunSlices(t)
        /\ \A x \in Datasets, d \in Days : got[t][x][d] # 0 =>
              t[2] \in RunSlices(t) /\ d \in SliceDays(t)

\* What is fetched is at least as new as the store and no newer than the upstream.
Fresh ==
    \A x \in Datasets, d \in Days :
        /\ data[x][d] <= stamp /\ manifest[x][d] <= stamp /\ upstream[x][d] <= stamp
        /\ upstream[x][d] # 0 =>
              data[x][d] <= upstream[x][d] /\ manifest[x][d] <= upstream[x][d]
        /\ \A t \in Task :
              /\ got[t][x][d] <= stamp
              /\ upstream[x][d] # 0 => got[t][x][d] <= upstream[x][d]
              /\ got[t][x][d] # 0 =>
                    data[x][d] <= got[t][x][d] /\ manifest[x][d] <= got[t][x][d]

\* What a slice in the middle of a dataset has already put in place.
HalfDone ==
    \A t \in Task : pc[t] \in Writing =>
        /\ pc[t] = "manifest" => data[cur[t]][day[t]] = got[t][cur[t]][day[t]]
        /\ \A d \in Days : got[t][cur[t]][d] # 0 /\ d \notin todo[t] =>
              /\ data[cur[t]][d] = got[t][cur[t]][d]
              /\ manifest[cur[t]][d] = got[t][cur[t]][d]

SoleInv == OwnDays /\ Fresh /\ HalfDone /\ WrittenPairsMatch

\* While a window stands, so do its slices and their days.
LEMMA SlicesStand ==
    ASSUME UNCHANGED <<wide, window>>, NEW t
    PROVE  RunSlices(t)' = RunSlices(t) /\ SliceDays(t)' = SliceDays(t)
  <1>1. window' = window /\ wide' = wide
    OBVIOUS
  <1>2. QED
    BY <1>1 DEF RunSlices, SlicesOf, SliceDays

\* Two slices of one window share no day.
LEMMA SlicesDisjoint ==
    ASSUME TypeOK, NEW s \in Task, NEW t \in Task, s[1] = t[1],
           s[2] \in RunSlices(s), t[2] \in RunSlices(t),
           NEW d \in Days, d \in SliceDays(s), d \in SliceDays(t)
    PROVE  s = t
  <1>1. s[2] = t[2]
    <2>1. CASE wide
      <3>1. s[2] \in window[s[1]] /\ t[2] \in window[s[1]]
        BY <2>1 DEF SlicesOf, RunSlices
      <3>2. s[2] <= t[2] /\ t[2] <= s[2]
        BY <2>1, <3>1 DEF SlicesOf, RunSlices
      <3>3. s[2] \in Nat /\ t[2] \in Nat
        BY DEF Task, Days
      <3>4. QED
        BY <3>2, <3>3
    <2>2. CASE ~wide
      BY <2>2 DEF SliceDays
    <2>3. QED
      BY <2>1, <2>2
  <1>2. QED
    BY <1>1 DEF Task

\* With one caller, no two slices hold records of the same partition.
LEMMA SoleOwner ==
    ASSUME OneCaller, TypeOK, OwnDays, NEW s \in Task, NEW t \in Task,
           NEW x \in Datasets, NEW d \in Days, got[s][x][d] # 0, got[t][x][d] # 0
    PROVE  s = t
  <1>1. s[1] = t[1]
    BY DEF OneCaller, Task
  <1>2. QED
    BY <1>1, SlicesDisjoint DEF OwnDays
\* Steps that fetch nothing and write nothing.
LEMMA SoleInvQuiet ==
    ASSUME TypeOK, SoleInv, UNCHANGED <<wide, store, window, upstream, stamp, got>>,
           \A t \in Task : pc'[t] = "idle" \/ pc[t] # "idle",
           \A t \in Task : pc'[t] \in Writing =>
              pc'[t] = pc[t] /\ cur'[t] = cur[t] /\ day'[t] = day[t] /\ todo'[t] = todo[t],
           \A t \in Task, x \in Datasets :
              outcome'[t][x] = "written" => outcome[t][x] = "written"
    PROVE  SoleInv'
  <1>1. OwnDays'
    BY SlicesStand DEF SoleInv, OwnDays
  <1>2. Fresh'
    BY DEF SoleInv, Fresh, store
  <1>3. HalfDone'
    BY DEF SoleInv, HalfDone, store
  <1>4. WrittenPairsMatch'
    BY DEF SoleInv, WrittenPairsMatch, store
  <1>5. QED
    BY <1>1, <1>2, <1>3, <1>4 DEF SoleInv

LEMMA SoleInvStep ==
    ASSUME OneCaller, TypeOK, TypeOK', PairInv, SoleInv, [Next]_vars
    PROVE  SoleInv'
  <1>1. CASE Revise
    <2>1. OwnDays' /\ HalfDone' /\ WrittenPairsMatch'
      BY <1>1, SlicesStand DEF Revise, SoleInv, OwnDays, HalfDone,
                  WrittenPairsMatch, store, slice, run
    <2>2. Fresh'
      <3>1. PICK y \in Datasets, e \in Days, v \in {0, stamp + 1} :
               upstream' = [upstream EXCEPT ![y][e] = v]
        BY <1>1 DEF Revise
      <3>2. stamp \in Nat /\ stamp' = stamp + 1 /\ UNCHANGED <<data, manifest, got>>
        BY <1>1, BronzeAssumption DEF Revise, TypeOK, Versions, store, slice
      <3>3. QED
        BY <3>1, <3>2, BronzeAssumption DEF SoleInv, Fresh, TypeOK, Versions
    <2>3. QED
      BY <2>1, <2>2 DEF SoleInv
  <1>2. ASSUME NEW w \in Writers, Launch(w)
        PROVE  SoleInv'
    <2>1. PICK days \in Windows[w] : LaunchOn(w, days)
      BY <1>2 DEF Launch
    <2>2. \A t \in Task : t[1] = w
      BY DEF OneCaller, Task
    <2>3. \A t \in Task : /\ got'[t] = NothingFetched
                          /\ todo'[t] = {}
                          /\ pc'[t] \in {"queued", "idle"}
                          /\ outcome'[t] = NoOutcome
      BY <2>1, <2>2 DEF LaunchOn
    <2>4. OwnDays'
      <3>1. ASSUME NEW t \in Task, pc'[t] # "idle"
            PROVE  t[2] \in RunSlices(t)'
        <4>1. t[2] \in SlicesOf(days)
          BY <2>1, <2>2, <3>1 DEF LaunchOn
        <4>2. window'[t[1]] = days /\ wide' = wide
          BY <2>1, <2>2 DEF LaunchOn, TypeOK
        <4>3. QED
          BY <4>1, <4>2 DEF RunSlices, SlicesOf
      <3>2. QED
        BY <2>3, <3>1 DEF OwnDays, NothingFetched, NoRecords
    <2>5. Fresh'
      BY <2>1, <2>3, BronzeAssumption
      DEF LaunchOn, SoleInv, Fresh, NothingFetched, NoRecords, TypeOK, Versions, store
    <2>6. HalfDone' /\ WrittenPairsMatch'
      BY <2>3 DEF HalfDone, WrittenPairsMatch, NoOutcome
    <2>7. QED
      BY <2>4, <2>5, <2>6 DEF SoleInv
  <1>3. ASSUME NEW w \in Writers, Collect(w)
        PROVE  SoleInv'
    BY <1>3, SoleInvQuiet DEF Collect, slice
  <1>4. ASSUME NEW w \in Writers, Crash(w)
        PROVE  SoleInv'
    BY <1>4, SoleInvQuiet DEF Crash, TypeOK
  <1>5. ASSUME NEW t \in Task, StartSlice(t)
        PROVE  SoleInv'
    BY <1>5, SoleInvQuiet DEF StartSlice, TypeOK, run
  <1>6. ASSUME NEW t \in Task, FetchNothing(t)
        PROVE  SoleInv'
    <2>1. /\ pc[t] = "fetch"
          /\ got' = [got EXCEPT ![t][cur[t]] = NoRecords]
          /\ \A s \in Task : pc'[s] = pc[s] \/ (s = t /\ pc'[s] \in {"fetch", "done"})
          /\ \A s \in Task : s # t => cur'[s] = cur[s]
          /\ \A s \in Task, x \in Datasets :
                outcome'[s][x] = "written" => outcome[s][x] = "written" /\ (s # t \/ x # cur[t])
          /\ UNCHANGED <<wide, store, window, upstream, stamp, day, todo>>
      BY <1>6 DEF FetchNothing, NextDataset, TypeOK, run
    <2>2. OwnDays'
      BY <2>1, SlicesStand DEF SoleInv, OwnDays, NoRecords, TypeOK
    <2>3. Fresh'
      BY <2>1, BronzeAssumption DEF SoleInv, Fresh, NoRecords, TypeOK, Versions, store
    <2>4. HalfDone'
      <3>1. ASSUME NEW s \in Task, pc'[s] \in Writing
            PROVE  /\ s # t /\ pc'[s] = pc[s] /\ cur'[s] = cur[s]
                   /\ got'[s] = got[s] /\ todo'[s] = todo[s] /\ day'[s] = day[s]
        <4>1. s # t /\ pc'[s] = pc[s]
          BY <2>1, <3>1 DEF Writing
        <4>2. got \in [Task -> [Datasets -> [Days -> Versions]]]
          BY DEF TypeOK
        <4>3. got'[s] = got[s]
          BY <2>1, <4>1, <4>2
        <4>4. QED
          BY <2>1, <4>1, <4>3
      <3>2. QED
        BY <2>1, <3>1 DEF SoleInv, HalfDone, store
    <2>5. WrittenPairsMatch'
      BY <2>1 DEF SoleInv, WrittenPairsMatch, NoRecords, TypeOK, store
    <2>6. QED
      BY <2>2, <2>3, <2>4, <2>5 DEF SoleInv
  <1>7. ASSUME NEW t \in Task, FetchRecords(t)
        PROVE  SoleInv'
    <2>1. /\ pc[t] = "fetch"
          /\ got' = [got EXCEPT ![t][cur[t]] = Fetched(t)]
          /\ todo'[t] = {d \in Days : Fetched(t)[d] # 0}
          /\ pc' = [pc EXCEPT ![t] = "data"]
          /\ UNCHANGED <<wide, store, window, upstream, stamp, day, cur, outcome>>
          /\ \A s \in Task : s # t => todo'[s] = todo[s]
      BY <1>7 DEF FetchRecords, TypeOK, run
    <2>2. \A d \in Days : /\ Fetched(t)[d] # 0 => d \in SliceDays(t)
                          /\ Fetched(t)[d] \in {0, upstream[cur[t]][d]}
      BY DEF Fetched
    <2>3. cur[t] \in Datasets /\ outcome[t][cur[t]] = "pending"
      BY <2>1 DEF PairInv, PendingAhead, TypeOK, Datasets
    <2>4. OwnDays'
      BY <2>1, <2>2, <2>3, SlicesStand, FetchedType DEF SoleInv, OwnDays, TypeOK
    <2>5. Fresh'
      <3>1. ASSUME NEW x \in Datasets, NEW d \in Days, NEW s \in Task
            PROVE  /\ got'[s][x][d] <= stamp
                   /\ upstream[x][d] # 0 => got'[s][x][d] <= upstream[x][d]
                   /\ got'[s][x][d] # 0 =>
                         data[x][d] <= got'[s][x][d] /\ manifest[x][d] <= got'[s][x][d]
        <4>1. CASE s = t /\ x = cur[t]
          <5>1. got'[s][x][d] = Fetched(t)[d]
            BY <2>1, <4>1 DEF TypeOK
          <5>2. upstream[x][d] \in Nat /\ upstream[x][d] <= stamp /\ stamp \in Nat
            BY BronzeAssumption DEF TypeOK, Versions, Fresh, SoleInv
          <5>3. QED
            BY <2>2, <4>1, <5>1, <5>2 DEF SoleInv, Fresh
        <4>2. CASE ~(s = t /\ x = cur[t])
          <5>1. got'[s][x][d] = got[s][x][d]
            BY <2>1, <4>2 DEF TypeOK
          <5>2. QED
            BY <5>1 DEF SoleInv, Fresh
        <4>3. QED
          BY <4>1, <4>2
      <3>2. QED
        BY <2>1, <3>1 DEF SoleInv, Fresh, store
    <2>6. HalfDone'
      BY <2>1, <2>3, FetchedType DEF SoleInv, HalfDone, TypeOK, store
    <2>7. WrittenPairsMatch'
      BY <2>1, <2>3 DEF SoleInv, WrittenPairsMatch, TypeOK, store
    <2>8. QED
      BY <2>4, <2>5, <2>6, <2>7 DEF SoleInv
  <1>8. ASSUME NEW t \in Task, PutData(t)
        PROVE  SoleInv'
    <2>1. PICK d \in todo[t] :
             /\ day' = [day EXCEPT ![t] = d]
             /\ data' = [data EXCEPT ![cur[t]][d] = got[t][cur[t]][d]]
      BY <1>8 DEF PutData
    <2>2. /\ pc[t] = "data"
          /\ pc' = [pc EXCEPT ![t] = "manifest"]
          /\ UNCHANGED <<wide, upstream, stamp, manifest, window, cur, got, todo, outcome>>
      BY <1>8 DEF PutData, run
    <2>3. /\ cur[t] \in Datasets
          /\ d \in Days
          /\ got[t][cur[t]][d] # 0
          /\ outcome[t][cur[t]] = "pending"
      BY <2>2 DEF PairInv, TodoFetched, PendingAhead, TypeOK, Datasets
    <2>4. \A s \in Task : got[s][cur[t]][d] # 0 => s = t
      BY <2>3, SoleOwner DEF SoleInv
    <2>5. data'[cur[t]][d] = got[t][cur[t]][d]
      BY <2>1, <2>3 DEF TypeOK
    <2>6. \A x \in Datasets, e \in Days :
             ~(x = cur[t] /\ e = d) => data'[x][e] = data[x][e]
      BY <2>1 DEF TypeOK
    <2>7. OwnDays'
      BY <2>2, SlicesStand DEF SoleInv, OwnDays, TypeOK
    <2>8. Fresh'
      <3> SUFFICES ASSUME NEW x \in Datasets, NEW e \in Days, NEW s \in Task
                   PROVE  /\ data'[x][e] <= stamp
                          /\ upstream[x][e] # 0 => data'[x][e] <= upstream[x][e]
                          /\ got[s][x][e] # 0 => data'[x][e] <= got[s][x][e]
        BY <2>2 DEF SoleInv, Fresh
      <3>1. CASE x = cur[t] /\ e = d
        <4>1. got[t][x][e] \in Nat
          BY DEF TypeOK, Versions
        <4>2. QED
          BY <3>1, <4>1, <2>4, <2>5 DEF SoleInv, Fresh
      <3>2. CASE ~(x = cur[t] /\ e = d)
        BY <3>2, <2>6 DEF SoleInv, Fresh
      <3>3. QED
        BY <3>1, <3>2
    <2>9. HalfDone'
      <3> SUFFICES ASSUME NEW s \in Task, pc'[s] \in Writing
                   PROVE  /\ pc'[s] = "manifest" =>
                               data'[cur[s]][day'[s]] = got[s][cur[s]][day'[s]]
                          /\ \A e \in Days : got[s][cur[s]][e] # 0 /\ e \notin todo[s] =>
                               /\ data'[cur[s]][e] = got[s][cur[s]][e]
                               /\ manifest[cur[s]][e] = got[s][cur[s]][e]
        BY <2>2 DEF HalfDone
      <3>1. CASE s = t
        <4>1. day'[t] = d
          BY <2>1 DEF TypeOK
        <4>2. QED
          BY <3>1, <4>1, <2>1, <2>2, <2>3, <2>5, <2>6 DEF SoleInv, HalfDone
      <3>2. CASE s # t
        <4>1. pc'[s] = pc[s] /\ day'[s] = day[s] /\ cur[s] \in Datasets /\ day[s] \in Days
          BY <3>2, <2>1, <2>2 DEF TypeOK
        <4>2. pc[s] = "manifest" => got[s][cur[s]][day[s]] # 0
          BY DEF PairInv, MidPair, TodoFetched
        <4>3. QED
          BY <3>2, <4>1, <4>2, <2>4, <2>6 DEF SoleInv, HalfDone
      <3>3. QED
        BY <3>1, <3>2
    <2>10. WrittenPairsMatch'
      BY <2>2, <2>3, <2>4, <2>6 DEF SoleInv, WrittenPairsMatch
    <2>11. QED
      BY <2>7, <2>8, <2>9, <2>10 DEF SoleInv
  <1>9. ASSUME NEW t \in Task, PutManifest(t)
        PROVE  SoleInv'
    <2> DEFINE c == cur[t]
               d == day[t]
    <2>1. /\ pc[t] = "manifest"
          /\ manifest' = [manifest EXCEPT ![c][d] = got[t][c][d]]
          /\ todo' = [todo EXCEPT ![t] = @ \ {d}]
          /\ UNCHANGED <<wide, upstream, stamp, data, window, day, got>>
      BY <1>9 DEF PutManifest, run
    <2>2. /\ c \in Datasets
          /\ d \in Days
          /\ got[t][c][d] # 0
          /\ data[c][d] = got[t][c][d]
          /\ outcome[t][c] = "pending"
      BY <2>1 DEF PairInv, MidPair, TodoFetched, PendingAhead, SoleInv, HalfDone,
                  TypeOK, Datasets
    <2>3. \A s \in Task : got[s][c][d] # 0 => s = t
      BY <2>2, SoleOwner DEF SoleInv
    <2>4. manifest'[c][d] = got[t][c][d]
      BY <2>1, <2>2 DEF TypeOK
    <2>5. \A x \in Datasets, e \in Days :
             ~(x = c /\ e = d) => manifest'[x][e] = manifest[x][e]
      BY <2>1 DEF TypeOK
    <2>6. \A s \in Task : s # t =>
             /\ pc'[s] = pc[s] /\ cur'[s] = cur[s] /\ todo'[s] = todo[s]
             /\ outcome'[s] = outcome[s]
      BY <1>9 DEF PutManifest, NextDataset, TypeOK
    <2>7. /\ pc'[t] \in Writing => pc'[t] = "data" /\ cur'[t] = c /\ todo'[t] = todo[t] \ {d}
          /\ \A x \in Datasets : outcome'[t][x] = "written" =>
                outcome[t][x] = "written" \/ (x = c /\ todo[t] = {d})
          /\ pc[t] # "idle"
      BY <1>9 DEF PutManifest, NextDataset, TypeOK
    <2>8. OwnDays'
      BY <2>1, <2>6, <2>7, SlicesStand DEF SoleInv, OwnDays
    <2>9. Fresh'
      <3> SUFFICES ASSUME NEW x \in Datasets, NEW e \in Days, NEW s \in Task
                   PROVE  /\ manifest'[x][e] <= stamp
                          /\ upstream[x][e] # 0 => manifest'[x][e] <= upstream[x][e]
                          /\ got[s][x][e] # 0 => manifest'[x][e] <= got[s][x][e]
        BY <2>1 DEF SoleInv, Fresh
      <3>1. CASE x = c /\ e = d
        <4>1. got[t][x][e] \in Nat
          BY DEF TypeOK, Versions
        <4>2. QED
          BY <3>1, <4>1, <2>3, <2>4 DEF SoleInv, Fresh
      <3>2. CASE ~(x = c /\ e = d)
        BY <3>2, <2>5 DEF SoleInv, Fresh
      <3>3. QED
        BY <3>1, <3>2
    <2>10. HalfDone'
      <3> SUFFICES ASSUME NEW s \in Task, pc'[s] \in Writing
                   PROVE  /\ pc'[s] = "manifest" =>
                               data[cur'[s]][day[s]] = got[s][cur'[s]][day[s]]
                          /\ \A e \in Days : got[s][cur'[s]][e] # 0 /\ e \notin todo'[s] =>
                               /\ data[cur'[s]][e] = got[s][cur'[s]][e]
                               /\ manifest'[cur'[s]][e] = got[s][cur'[s]][e]
        BY <2>1 DEF HalfDone
      <3>1. CASE s = t
        BY <3>1, <2>1, <2>2, <2>4, <2>5, <2>7 DEF SoleInv, HalfDone
      <3>2. CASE s # t
        <4>1. cur[s] \in Datasets
          BY DEF TypeOK
        <4>2. QED
          BY <3>2, <4>1, <2>3, <2>5, <2>6 DEF SoleInv, HalfDone
      <3>3. QED
        BY <3>1, <3>2
    <2>11. WrittenPairsMatch'
      <3> SUFFICES ASSUME NEW s \in Task, NEW x \in Datasets, outcome'[s][x] = "written",
                          NEW e \in Days, got[s][x][e] # 0
                   PROVE  data[x][e] = got[s][x][e] /\ manifest'[x][e] = got[s][x][e]
        BY <2>1 DEF WrittenPairsMatch
      <3>1. CASE outcome[s][x] = "written"
        BY <3>1, <2>2, <2>3, <2>5 DEF SoleInv, WrittenPairsMatch
      <3>2. CASE outcome[s][x] # "written"
        <4>1. s = t /\ x = c /\ todo[t] = {d}
          BY <3>2, <2>6, <2>7
        <4>2. QED
          BY <4>1, <2>1, <2>2, <2>4, <2>5 DEF SoleInv, HalfDone
      <3>3. QED
        BY <3>1, <3>2
    <2>12. QED
      BY <2>8, <2>9, <2>10, <2>11 DEF SoleInv
  <1>10. ASSUME NEW t \in Task, CallFails(t)
         PROVE  SoleInv'
    BY <1>10, SoleInvQuiet DEF CallFails, NextDataset, TypeOK, run
  <1>11. CASE UNCHANGED vars
    BY <1>11, SoleInvQuiet DEF vars, store
  <1>12. QED
    BY <1>1, <1>2, <1>3, <1>4, <1>5, <1>6, <1>7, <1>8, <1>9, <1>10, <1>11
    DEF Next, WriterStep, SliceStep

LEMMA SoleInvAlways ==
    ASSUME OneCaller
    PROVE  Spec => []SoleInv
  <1>1. Init => SoleInv
    <2>1. Init => OwnDays /\ HalfDone /\ WrittenPairsMatch
      BY DEF Init, OwnDays, HalfDone, WrittenPairsMatch, NothingFetched, NoRecords, NoOutcome
    <2>2. Init => Fresh
      BY BronzeAssumption DEF Init, Fresh, NothingFetched, NoRecords
    <2>3. QED
      BY <2>1, <2>2 DEF SoleInv
  <1>2. TypeOK /\ TypeOK' /\ PairInv /\ SoleInv /\ [Next]_vars => SoleInv'
    BY SoleInvStep
  <1>3. QED
    BY <1>1, <1>2, TypeCorrect, PairInvAlways, PTL DEF Spec

\* With one caller, what a slice counts as written is what it fetched, and the
\* manifest describes that data, through failures, crashes and restarts.
THEOREM SoleCallerPairsMatch ==
    ASSUME OneCaller
    PROVE  Spec => []WrittenPairsMatch
  <1>1. SoleInv => WrittenPairsMatch
    BY DEF SoleInv
  <1>2. QED
    BY <1>1, SoleInvAlways, PTL

\* With one caller, Bronze never falls back to an older upstream revision.
THEOREM SoleCallerNeverGoesBack ==
    ASSUME OneCaller
    PROVE  Spec => BronzeNeverGoesBack
  <1> DEFINE Onward == \A x \in Datasets, d \in Days :
                          data'[x][d] >= data[x][d] /\ manifest'[x][d] >= manifest[x][d]
  <1>1. TypeOK /\ PairInv /\ SoleInv /\ [Next]_vars => [Onward]_store
    <2> SUFFICES ASSUME TypeOK, PairInv, SoleInv, [Next]_vars
                 PROVE  Onward \/ UNCHANGED store
      OBVIOUS
    <2>0. \A x \in Datasets, d \in Days : data[x][d] \in Nat /\ manifest[x][d] \in Nat
      BY DEF TypeOK, Versions
    <2>1. ASSUME NEW t \in Task, PutData(t)
          PROVE  Onward
      <3>1. PICK d \in todo[t] : data' = [data EXCEPT ![cur[t]][d] = got[t][cur[t]][d]]
        BY <2>1 DEF PutData
      <3>2. data[cur[t]][d] <= got[t][cur[t]][d] /\ cur[t] \in Datasets /\ d \in Days
        BY <2>1 DEF SoleInv, Fresh, PairInv, TodoFetched, TypeOK
      <3>3. got[t][cur[t]][d] \in Nat
        BY <3>2 DEF TypeOK, Versions
      <3>4. manifest' = manifest
        BY <2>1 DEF PutData
      <3>5. QED
        BY <3>1, <3>2, <3>3, <3>4, <2>0 DEF TypeOK
    <2>2. ASSUME NEW t \in Task, PutManifest(t)
          PROVE  Onward
      <3>1. /\ manifest' = [manifest EXCEPT ![cur[t]][day[t]] = got[t][cur[t]][day[t]]]
            /\ data' = data
        BY <2>2 DEF PutManifest
      <3>2. /\ manifest[cur[t]][day[t]] <= got[t][cur[t]][day[t]]
            /\ cur[t] \in Datasets
            /\ day[t] \in Days
        BY <2>2 DEF PutManifest, SoleInv, Fresh, PairInv, MidPair, TodoFetched, TypeOK
      <3>3. got[t][cur[t]][day[t]] \in Nat
        BY <3>2 DEF TypeOK, Versions
      <3>4. QED
        BY <3>1, <3>2, <3>3, <2>0 DEF TypeOK
    <2>3. ASSUME NEW w \in Writers, WriterStep(w)
          PROVE  UNCHANGED store
      BY <2>3 DEF WriterStep, Launch, LaunchOn, Collect, Crash
    <2>4. ASSUME NEW t \in Task,
                 StartSlice(t) \/ FetchNothing(t) \/ FetchRecords(t) \/ CallFails(t)
          PROVE  UNCHANGED store
      BY <2>4 DEF StartSlice, FetchNothing, FetchRecords, CallFails
    <2>5. Revise \/ UNCHANGED vars => UNCHANGED store
      BY DEF Revise, vars, store
    <2>6. QED
      BY <2>1, <2>2, <2>3, <2>4, <2>5 DEF Next, SliceStep
  <1>2. QED
    BY <1>1, TypeCorrect, PairInvAlways, SoleInvAlways, PTL DEF Spec, BronzeNeverGoesBack

-----------------------------------------------------------------------------
(* The audit. *)

AuditLocalType ==
    /\ phase \in {"idle", "scan", "fill", "ok", "raised", "died"}
    /\ target \in Datasets
    /\ probe \in 0..NumDays
    /\ missing \in SUBSET Days
    /\ fillFailed \in BOOLEAN
    /\ auditFaults \in 0..MaxFaults

\* The loop over the datasets keeps its types.
LEMMA NextTargetType ==
    ASSUME AuditLocalType, NEW failed, NextTarget(failed)
    PROVE  /\ phase' \in {"idle", "scan", "fill", "ok", "raised", "died"}
           /\ target' \in Datasets
           /\ probe' \in 0..NumDays
           /\ missing' \in SUBSET Days
  <1>1. CASE target < NumDatasets
    <2>1. target + 1 \in Datasets
      BY <1>1, BronzeAssumption DEF AuditLocalType, Datasets
    <2>2. QED
      BY <1>1, <2>1, BronzeAssumption DEF NextTarget, AuditLocalType
  <1>2. CASE ~(target < NumDatasets)
    BY <1>2 DEF NextTarget, AuditLocalType
  <1>3. QED
    BY <1>1, <1>2

LEMMA AuditLocalTypeAlways == AuditSpec => []AuditLocalType
  <1>1. AuditInit => AuditLocalType
    <2> SUFFICES ASSUME AuditInit
                 PROVE  AuditLocalType
      OBVIOUS
    <2>1. target \in Datasets /\ probe \in 0..NumDays /\ auditFaults \in 0..MaxFaults
      BY BronzeAssumption DEF AuditInit, Datasets
    <2>2. fillFailed \in BOOLEAN
      BY DEF AuditInit
    <2>3. QED
      BY <2>1, <2>2 DEF AuditInit, AuditLocalType
  <1>2. AuditLocalType /\ [AuditNext]_allVars => AuditLocalType'
    <2> SUFFICES ASSUME AuditLocalType, [AuditNext]_allVars
                 PROVE  AuditLocalType'
      OBVIOUS
    <2>1. CASE Begin
      <3>1. target' \in Datasets /\ probe' \in 0..NumDays
        BY <2>1, BronzeAssumption DEF Begin, Datasets
      <3>2. fillFailed' \in BOOLEAN
        BY <2>1 DEF Begin
      <3>3. QED
        BY <2>1, <3>1, <3>2 DEF Begin, AuditLocalType
    <2>2. CASE Head \/ HeadFails
      <3>1. probe \in Days
        BY <2>2, BronzeAssumption DEF Head, HeadFails, AuditLocalType, Days
      <3>2. probe - 1 \in 0..NumDays /\ missing \cup {probe} \in SUBSET Days
        BY <3>1, BronzeAssumption DEF AuditLocalType, Days
      <3>3. QED
        BY <2>2, <3>2, BronzeAssumption DEF Head, HeadFails, AuditLocalType
    <2>3. CASE NothingMissing
      BY <2>3, NextTargetType DEF NothingMissing, AuditLocalType
    <2>4. CASE Fill
      BY <2>4 DEF Fill, AuditLocalType
    <2>5. CASE FillReturns
      <3>1. fillFailed' \in BOOLEAN
        BY <2>5 DEF FillReturns, AuditLocalType
      <3>2. QED
        BY <2>5, <3>1, NextTargetType DEF FillReturns, AuditLocalType
    <2>6. CASE AuditDies
      BY <2>6, BronzeAssumption DEF AuditDies, AuditLocalType
    <2>7. CASE AroundAudit \/ UNCHANGED allVars
      BY <2>7 DEF AroundAudit, allVars, auditVars, task, AuditLocalType
    <2>8. QED
      BY <2>1, <2>2, <2>3, <2>4, <2>5, <2>6, <2>7 DEF AuditNext, AuditStep
  <1>3. QED
    BY <1>1, <1>2, PTL DEF AuditSpec

\* Composition: whatever the audit does, Bronze sees one more caller of
\* bulk.py, so ManifestSafe and WrittenSafe hold with the audit at work.
THEOREM AuditImplementsCaller == AuditSpec => AuditIsACaller
  <1>1. AuditInit => Init
    BY DEF AuditInit
  <1>2. AuditLocalType /\ [AuditNext]_allVars => [Next]_vars
    <2> SUFFICES ASSUME AuditLocalType, [AuditNext]_allVars
                 PROVE  [Next]_vars
      OBVIOUS
    <2>1. CASE Begin \/ Head \/ HeadFails \/ NothingMissing
      BY <2>1 DEF Begin, Head, HeadFails, NothingMissing
    <2>2. CASE Fill
      <3>1. LaunchOn(Auditor, Span(missing)) /\ Span(missing) \in Windows[Auditor]
        BY <2>2, AuditAssumption DEF Fill, AuditLocalType
      <3>2. QED
        BY <3>1, AuditAssumption DEF Next, WriterStep, Launch
    <2>3. CASE FillReturns
      BY <2>3, AuditAssumption DEF FillReturns, Next, WriterStep
    <2>4. CASE AuditDies
      BY <2>4, AuditAssumption DEF AuditDies, Next, WriterStep
    <2>5. CASE AroundAudit
      BY <2>5 DEF AroundAudit, Next
    <2>6. CASE UNCHANGED allVars
      BY <2>6 DEF allVars
    <2>7. QED
      BY <2>1, <2>2, <2>3, <2>4, <2>5, <2>6 DEF AuditNext, AuditStep
  <1>3. QED
    BY <1>1, <1>2, AuditLocalTypeAlways, PTL DEF AuditSpec, AuditIsACaller, Spec

\* Types of the composition.
THEOREM AuditTypeCorrect == AuditSpec => []AuditTypeOK
  <1>1. TypeOK /\ AuditLocalType => AuditTypeOK
    BY DEF AuditLocalType, AuditTypeOK
  <1>2. QED
    BY <1>1, TypeCorrect, AuditLocalTypeAlways, AuditImplementsCaller, PTL DEF AuditIsACaller
(* ------------------------------------------------------------------------- *)
(* What "recovered" means.  RecoveredOrEmpty speaks of the slices of the last*)
(* fill, so what a slice that is done has found out must be carried along,   *)
(* and that nothing moves those slices once the fill has returned.           *)

\* A dataset counted as empty is one the fetch returned nothing for.
EmptyMeansNothing ==
    \A t \in Task, x \in Datasets : outcome[t][x] = "empty" => got[t][x] = NoRecords

\* A slice that is done has an outcome for its last dataset.
DoneIsSettled ==
    \A t \in Task :
        /\ pc[t] = "done" => outcome[t][NumDatasets] # "pending"
        /\ pc[t] \in {"queued", "fetch", "data", "manifest"} => cur[t] <= NumDatasets

SliceInv == EmptyMeansNothing /\ DoneIsSettled

\* The fill's slices, while it runs and after it has returned without failure.
FillInv ==
    /\ phase = "fill" => window[Auditor] = Span(missing)
    /\ phase = "ok" /\ missing # {} /\ NumDatasets = 1 =>
          /\ window[Auditor] = Span(missing)
          /\ \A t \in Slices(Auditor) : pc[t] = "done" /\ outcome[t][1] # "failed"

LEMMA NextDatasetSettles ==
    ASSUME TypeOK, DoneIsSettled, NEW t \in Task,
           NEW o \in {"empty", "written", "failed"}, NextDataset(t, o)
    PROVE  DoneIsSettled'
  <1> SUFFICES ASSUME NEW s \in Task
               PROVE  /\ pc'[s] = "done" => outcome'[s][NumDatasets] # "pending"
                      /\ pc'[s] \in {"queued", "fetch", "data", "manifest"} =>
                           cur'[s] <= NumDatasets
    BY DEF DoneIsSettled
  <1>1. NumDatasets \in Datasets /\ cur[t] \in Datasets
    BY BronzeAssumption DEF Datasets, TypeOK
  <1>2. CASE s # t
    BY <1>2 DEF NextDataset, DoneIsSettled, TypeOK
  <1>3. CASE s = t
    <2>1. CASE cur[t] < NumDatasets
      <3>1. pc'[t] = "fetch" /\ cur'[t] = cur[t] + 1
        BY <2>1 DEF NextDataset, TypeOK
      <3>2. cur[t] + 1 <= NumDatasets
        BY <1>1, <2>1 DEF Datasets
      <3>3. QED
        BY <1>3, <3>1, <3>2
    <2>2. CASE ~(cur[t] < NumDatasets)
      <3>1. cur[t] = NumDatasets
        BY <1>1, <2>2 DEF Datasets
      <3>2. pc'[t] = "done" /\ outcome'[t][NumDatasets] = o
        BY <1>1, <2>2, <3>1 DEF NextDataset, TypeOK
      <3>3. QED
        BY <1>3, <3>2
    <2>3. QED
      BY <2>1, <2>2
  <1>4. QED
    BY <1>2, <1>3

LEMMA SliceInvStep ==
    ASSUME TypeOK, PairInv, SliceInv, [Next]_vars
    PROVE  SliceInv'
  <1> USE DEF SliceInv
  <1>1. ASSUME UNCHANGED slice
        PROVE  SliceInv'
    BY <1>1 DEF EmptyMeansNothing, DoneIsSettled, slice
  <1>2. ASSUME NEW w \in Writers, Launch(w)
        PROVE  SliceInv'
    <2>1. EmptyMeansNothing'
      BY <1>2 DEF Launch, LaunchOn, EmptyMeansNothing, NoOutcome
    <2>2. DoneIsSettled'
      BY <1>2, BronzeAssumption DEF Launch, LaunchOn, DoneIsSettled
    <2>3. QED
      BY <2>1, <2>2
  <1>3. ASSUME NEW w \in Writers, Collect(w)
        PROVE  SliceInv'
    BY <1>3, <1>1 DEF Collect
  <1>4. ASSUME NEW w \in Writers, Crash(w)
        PROVE  SliceInv'
    BY <1>4 DEF Crash, EmptyMeansNothing, DoneIsSettled
  <1>5. ASSUME NEW t \in Task, StartSlice(t)
        PROVE  SliceInv'
    BY <1>5 DEF StartSlice, EmptyMeansNothing, DoneIsSettled, TypeOK
  <1>6. ASSUME NEW t \in Task, FetchNothing(t)
        PROVE  SliceInv'
    <2>1. DoneIsSettled'
      BY <1>6, NextDatasetSettles DEF FetchNothing
    <2>2. EmptyMeansNothing'
      BY <1>6 DEF FetchNothing, NextDataset, EmptyMeansNothing, TypeOK
    <2>3. QED
      BY <2>1, <2>2
  <1>7. ASSUME NEW t \in Task, FetchRecords(t)
        PROVE  SliceInv'
    <2>1. outcome[t][cur[t]] = "pending"
      BY <1>7 DEF FetchRecords, PairInv, PendingAhead, TypeOK, Datasets
    <2>2. EmptyMeansNothing'
      BY <1>7, <2>1 DEF FetchRecords, EmptyMeansNothing, TypeOK
    <2>3. DoneIsSettled'
      BY <1>7 DEF FetchRecords, DoneIsSettled, TypeOK
    <2>4. QED
      BY <2>2, <2>3
  <1>8. ASSUME NEW t \in Task, PutData(t)
        PROVE  SliceInv'
    BY <1>8 DEF PutData, EmptyMeansNothing, DoneIsSettled, TypeOK
  <1>9. ASSUME NEW t \in Task, PutManifest(t)
        PROVE  SliceInv'
    <2>1. CASE todo[t] = {day[t]}
      <3>1. DoneIsSettled'
        BY <1>9, <2>1, NextDatasetSettles DEF PutManifest
      <3>2. EmptyMeansNothing'
        <4>1. got' = got /\ outcome' = [outcome EXCEPT ![t][cur[t]] = "written"]
          BY <1>9, <2>1 DEF PutManifest, NextDataset
        <4>2. \A s \in Task, x \in Datasets :
                 outcome'[s][x] = "empty" => outcome[s][x] = "empty"
          BY <4>1 DEF TypeOK
        <4>3. QED
          BY <4>1, <4>2 DEF EmptyMeansNothing
      <3>3. QED
        BY <3>1, <3>2
    <2>2. CASE todo[t] # {day[t]}
      BY <1>9, <2>2 DEF PutManifest, EmptyMeansNothing, DoneIsSettled, TypeOK
    <2>3. QED
      BY <2>1, <2>2
  <1>10. ASSUME NEW t \in Task, CallFails(t)
         PROVE  SliceInv'
    <2>1. DoneIsSettled'
      BY <1>10, NextDatasetSettles DEF CallFails
    <2>2. EmptyMeansNothing'
      <3>1. got' = got /\ outcome' = [outcome EXCEPT ![t][cur[t]] = "failed"]
        BY <1>10 DEF CallFails, NextDataset
      <3>2. \A s \in Task, x \in Datasets : outcome'[s][x] = "empty" => outcome[s][x] = "empty"
        BY <3>1 DEF TypeOK
      <3>3. QED
        BY <3>1, <3>2 DEF EmptyMeansNothing
    <2>3. QED
      BY <2>1, <2>2
  <1>11. CASE Revise \/ UNCHANGED vars
    BY <1>1, <1>11 DEF Revise, vars, slice
  <1>12. QED
    BY <1>2, <1>3, <1>4, <1>5, <1>6, <1>7, <1>8, <1>9, <1>10, <1>11
    DEF Next, WriterStep, SliceStep

LEMMA SliceInvAlways == Spec => []SliceInv
  <1>1. Init => SliceInv
    <2>1. Init => EmptyMeansNothing
      BY DEF Init, EmptyMeansNothing, NoOutcome
    <2>2. Init => DoneIsSettled
      BY DEF Init, DoneIsSettled
    <2>3. QED
      BY <2>1, <2>2 DEF SliceInv
  <1>2. TypeOK /\ PairInv /\ SliceInv /\ [Next]_vars => SliceInv'
    BY SliceInvStep
  <1>3. QED
    BY <1>1, <1>2, TypeCorrect, PairInvAlways, PTL DEF Spec

\* A window that is not empty is covered by its slices.
LEMMA SlicesCover ==
    ASSUME TypeOK, NEW w \in Writers, NEW d \in window[w]
    PROVE  \E t \in Slices(w) : d \in SliceDays(t)
  <1>1. CASE wide
    <2>1. window[w] \subseteq Nat /\ window[w] # {}
      BY DEF TypeOK, Days
    <2>2. PICK e \in window[w] : \A f \in window[w] : ~(<<f, e>> \in OpToRel(<, Nat))
      <3>1. IsWellFoundedOn(OpToRel(<, Nat), Nat)
        BY NatLessThanWellFounded
      <3>2. QED
        BY <2>1, <3>1, WFMin
    <2>3. ASSUME NEW f \in window[w]
          PROVE  e <= f
      <3>1. e \in Nat /\ f \in Nat
        BY <2>1
      <3>2. f < e => <<f, e>> \in OpToRel(<, Nat)
        <4> DEFINE Less == {ss \in Nat \X Nat : ss[1] < ss[2]}
        <4>1. OpToRel(<, Nat) = Less
          BY DEF OpToRel
        <4>2. f < e => <<f, e>> \in Less
          BY <3>1
        <4>3. QED
          BY <4>1, <4>2
      <3>3. ~(f < e)
        BY <2>2, <3>2
      <3>4. QED
        BY <3>1, <3>3
    <2>4. <<w, e>> \in Slices(w) /\ d \in SliceDays(<<w, e>>)
      BY <1>1, <2>3 DEF Slices, SlicesOf, SliceDays
    <2>5. QED
      BY <2>4
  <1>2. CASE ~wide
    <2>1. <<w, d>> \in Slices(w) /\ d \in SliceDays(<<w, d>>)
      BY <1>2 DEF Slices, SlicesOf, SliceDays
    <2>2. QED
      BY <2>1
  <1>3. QED
    BY <1>1, <1>2

\* Steps of the audit and around it keep FillInv.
LEMMA FillInvStep ==
    ASSUME TypeOK, AuditLocalType, SliceInv, FillInv, [AuditNext]_allVars
    PROVE  FillInv'
  <1>0. Auditor \in Writers
    BY AuditAssumption
  <1>1. CASE Begin \/ Head \/ HeadFails
    BY <1>1 DEF Begin, Head, HeadFails, FillInv
  <1>2. CASE NothingMissing
    BY <1>2 DEF NothingMissing, NextTarget, FillInv
  <1>3. CASE Fill
    <2>1. window'[Auditor] = Span(missing)
      BY <1>0, <1>3 DEF Fill, LaunchOn, TypeOK
    <2>2. phase' = "fill" /\ missing' = missing
      BY <1>3 DEF Fill
    <2>3. QED
      BY <2>1, <2>2 DEF FillInv
  <1>4. CASE FillReturns
    <2>1. /\ Collect(Auditor)
          /\ phase = "fill"
          /\ fillFailed' = (fillFailed \/ \E t \in Slices(Auditor) : ~SliceOk(t))
          /\ NextTarget(fillFailed')
      BY <1>4 DEF FillReturns
    <2>2. CASE target < NumDatasets
      BY <2>1, <2>2 DEF NextTarget, FillInv
    <2>3. CASE ~(target < NumDatasets)
      <3>1. SUFFICES ASSUME phase' = "ok", missing' # {}, NumDatasets = 1
                     PROVE  /\ window'[Auditor] = Span(missing')
                            /\ \A t \in Slices(Auditor)' :
                                  pc'[t] = "done" /\ outcome'[t][1] # "failed"
        BY <2>1, <2>3 DEF NextTarget, FillInv
      <3>2. ~fillFailed'
        BY <2>1, <2>3, <3>1 DEF NextTarget
      <3>3. \A t \in Slices(Auditor) : SliceOk(t)
        BY <2>1, <3>2
      <3>4. \A t \in Slices(Auditor) : outcome[t][1] # "failed"
        <4>1. Datasets = {1}
          BY <3>1 DEF Datasets
        <4>2. QED
          BY <3>3, <4>1 DEF SliceOk
      <3>5. /\ \A t \in Slices(Auditor) : pc[t] = "done"
            /\ UNCHANGED <<slice, window, wide>>
        BY <2>1 DEF Collect
      <3>6. Slices(Auditor)' = Slices(Auditor) /\ missing' = missing
        BY <2>1, <2>3, <3>5 DEF Slices, SlicesOf, NextTarget
      <3>7. QED
        BY <2>1, <3>4, <3>5, <3>6 DEF FillInv, slice
    <2>4. QED
      BY <2>2, <2>3
  <1>5. CASE AuditDies
    BY <1>5 DEF AuditDies, FillInv
  <1>6. CASE AroundAudit
    <2>1. phase' = phase /\ missing' = missing
      BY <1>6 DEF AroundAudit, auditVars, task
    <2>2. /\ wide' = wide
          /\ window'[Auditor] = window[Auditor]
          /\ \A t \in Task : t[1] = Auditor /\ pc[t] = "done" =>
                pc'[t] = "done" /\ outcome'[t] = outcome[t]
      <3>1. CASE Revise
        BY <3>1 DEF Revise, run, slice
      <3>2. ASSUME NEW w \in Writers \ {Auditor}, WriterStep(w)
            PROVE  <2>2
        BY <1>0, <3>2 DEF WriterStep, Launch, LaunchOn, Collect, Crash, slice, TypeOK
      <3>3. ASSUME NEW t \in Task, SliceStep(t) \/ CallFails(t)
            PROVE  <2>2
        <4>1. pc[t] # "done" /\ UNCHANGED <<wide, window>>
          BY <3>3 DEF SliceStep, StartSlice, FetchNothing, FetchRecords, PutData,
                      PutManifest, CallFails, run
        <4>2. \A s \in Task : s # t => pc'[s] = pc[s] /\ outcome'[s] = outcome[s]
          BY <3>3 DEF SliceStep, StartSlice, FetchNothing, FetchRecords, PutData,
                      PutManifest, CallFails, NextDataset, TypeOK
        <4>3. QED
          BY <4>1, <4>2
      <3>4. QED
        BY <1>6, <3>1, <3>2, <3>3 DEF AroundAudit
    <2>3. Slices(Auditor)' = Slices(Auditor)
      BY <2>2 DEF Slices, SlicesOf
    <2>4. \A t \in Slices(Auditor) : t[1] = Auditor
      BY DEF Slices
    <2>5. Slices(Auditor) \subseteq Task
      BY <1>0 DEF Slices, SlicesOf, Task, TypeOK
    <2>6. QED
      BY <2>1, <2>2, <2>3, <2>4, <2>5 DEF FillInv
  <1>7. CASE UNCHANGED allVars
    BY <1>7 DEF allVars, vars, auditVars, task, FillInv, Slices, SlicesOf
  <1>8. QED
    BY <1>1, <1>2, <1>3, <1>4, <1>5, <1>6, <1>7 DEF AuditNext, AuditStep

\* A task that ended well has, for a source with one dataset, either recovered
\* a day it found missing or been told by the upstream that there is nothing.
THEOREM RecoveredSafe == AuditSpec => []RecoveredOrEmpty
  <1>1. AuditInit => FillInv
    BY DEF AuditInit, FillInv
  <1>2. TypeOK /\ AuditLocalType /\ SliceInv /\ FillInv /\ [AuditNext]_allVars => FillInv'
    BY FillInvStep
  <1>3. AuditSpec => []FillInv
    BY <1>1, <1>2, TypeCorrect, SliceInvAlways, AuditLocalTypeAlways,
       AuditImplementsCaller, PTL DEF AuditSpec, AuditIsACaller
  <1>4. TypeOK /\ AuditLocalType /\ SliceInv /\ WrittenMeansBacked /\ FillInv
           => RecoveredOrEmpty
    <2> SUFFICES ASSUME TypeOK, AuditLocalType, SliceInv, WrittenMeansBacked, FillInv,
                        phase = "ok", NumDatasets = 1, NEW d \in missing
                 PROVE  \/ manifest[1][d] # 0
                        \/ \E t \in Slices(Auditor) : d \in SliceDays(t) /\ got[t][1][d] = 0
      BY DEF RecoveredOrEmpty
    <2>0. Auditor \in Writers /\ d \in Days /\ 1 \in Datasets
      BY AuditAssumption DEF AuditLocalType, Datasets
    <2>1. d \in window[Auditor]
      BY <2>0 DEF FillInv, Span, AuditLocalType, Days
    <2>2. PICK t \in Slices(Auditor) : d \in SliceDays(t)
      BY <2>0, <2>1, SlicesCover
    <2>3. t \in Task
      BY <2>0, <2>2 DEF Slices, SlicesOf, Task, TypeOK
    <2>4. outcome[t][1] \in {"empty", "written"}
      BY <2>0, <2>2, <2>3 DEF FillInv, SliceInv, DoneIsSettled, TypeOK
    <2>5. CASE outcome[t][1] = "empty"
      <3>1. got[t][1][d] = 0
        BY <2>0, <2>3, <2>5 DEF SliceInv, EmptyMeansNothing, NoRecords
      <3>2. QED
        BY <2>2, <3>1
    <2>6. CASE outcome[t][1] = "written"
      BY <2>0, <2>2, <2>3, <2>6 DEF WrittenMeansBacked
    <2>7. QED
      BY <2>4, <2>5, <2>6
  <1>5. QED
    BY <1>3, <1>4, TypeCorrect, WrittenSafe, SliceInvAlways, AuditLocalTypeAlways,
       AuditImplementsCaller, PTL DEF AuditIsACaller

=============================================================================
