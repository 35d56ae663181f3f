----------------------------- MODULE BronzeIngest -----------------------------
(***************************************************************************)
(* Writing one source into the Bronze layer.                               *)
(*                                                                         *)
(* A caller (an ingest DAG run, the fill of the Bronze audit, the backfill *)
(* CLI) hands a window of days to scripts/backfill/bulk.py, which cuts it  *)
(* into slices and runs each slice on a thread pool.  A slice is one call  *)
(* of BackfillFacade._upload_window: for every dataset of the source, in   *)
(* configuration order, fetch the records, group them by day, and PUT one  *)
(* data object and then one manifest object per day.                       *)
(*                                                                         *)
(* The object store has no transaction.  Callers run concurrently, any PUT *)
(* or fetch can fail, and a process can die between the two PUTs of a pair.*)
(*                                                                         *)
(* The content of a (dataset, day) partition is a version: the stamp of    *)
(* the upstream revision it was fetched from.  0 stands for "no records"   *)
(* upstream and for "no such object" in Bronze.  A day is the unit of a    *)
(* daily source; for a monthly source read "month" and take one day per    *)
(* slice; for a static source take a single day.                           *)
(***************************************************************************)
EXTENDS Naturals, FiniteSets

CONSTANTS
    Writers,       \* the processes that call bulk.py
    Scheduled,     \* those an Airflow schedule starts again and again
    NumDays,       \* the calendar is 1..NumDays
    NumDatasets,   \* datasets of the source under the run's strategy
    Windows,       \* Windows[w]: the windows (sets of days) w may ask for
    MaxWorkers,    \* size of the thread pool
    MaxRevisions,  \* bound: revisions the upstream makes
    MaxFaults,     \* bound: failed calls and killed processes
    MaxRuns        \* bound: runs of a writer that is not scheduled

Days == 1..NumDays
Datasets == 1..NumDatasets
Versions == 0..MaxRevisions
Task == Writers \X Days          \* a slice of w is named by its first day

ASSUME BronzeAssumption ==
    /\ NumDays \in Nat \ {0}
    /\ NumDatasets \in Nat \ {0}
    /\ MaxRevisions \in Nat
    /\ MaxFaults \in Nat
    /\ MaxRuns \in Nat
    /\ MaxWorkers \in Nat \ {0}
    /\ Scheduled \subseteq Writers
    /\ Windows \in [Writers -> SUBSET SUBSET Days]

VARIABLES
    wide,       \* the source takes a window in a single call (Open-Meteo)
    upstream,   \* upstream[x][d]: what a query for dataset x, day d returns
    stamp,      \* the last revision stamp used
    data,       \* data[x][d]: the data object of the partition
    manifest,   \* manifest[x][d]: the version its manifest describes
    status,     \* status[w]: how w's run stands
    window,     \* window[w]: the days w's run was asked for
    runs,       \* runs[w]: launches of an unscheduled writer
    faults,     \* failed calls and crashes so far
    pc,         \* pc[t]: where the slice t stands
    cur,        \* cur[t]: the dataset the slice works on
    day,        \* day[t]: the day whose pair is being written
    got,        \* got[t][x]: the records fetched for dataset x, by day
    todo,       \* todo[t]: days of the current dataset still to be written
    outcome     \* outcome[t][x]: what became of dataset x in this slice

store == <<data, manifest>>
slice == <<pc, cur, day, got, todo, outcome>>
run == <<status, window, runs>>
vars == <<wide, upstream, stamp, data, manifest, status, window, runs, faults,
          pc, cur, day, got, todo, outcome>>

NoRecords == [d \in Days |-> 0]
NothingFetched == [x \in Datasets |-> NoRecords]
NoOutcome == [x \in Datasets |-> "pending"]

\* bulk.py's slicing: one slice per day, or one for the whole window.
SlicesOf(days) ==
    IF wide THEN {d \in days : \A e \in days : d <= e} ELSE days

Slices(w) == {w} \X SlicesOf(window[w])

\* Broken variant: an inclusive window end.
SliceDaysInclusive(t) ==
    IF wide THEN window[t[1]] ELSE {d \in Days : d = t[2] \/ d = t[2] + 1}

SliceDays(t) == IF wide THEN window[t[1]] ELSE {t[2]}

Busy(w) == {t \in Slices(w) : pc[t] \in {"fetch", "data", "manifest"}}

\* _upload_window's last lines: any manifest makes the slice a success.
SliceOk(t) ==
    \/ \E x \in Datasets : outcome[t][x] = "written"
    \/ \A x \in Datasets : outcome[t][x] # "failed"

-----------------------------------------------------------------------------

Init ==
    /\ wide \in BOOLEAN
    /\ upstream \in [Datasets -> [Days -> 0..(IF MaxRevisions = 0 THEN 0 ELSE 1)]]
    /\ stamp = (IF MaxRevisions = 0 THEN 0 ELSE 1)
    /\ data = NothingFetched
    /\ manifest = NothingFetched
    /\ status = [w \in Writers |-> "idle"]
    /\ window = [w \in Writers |-> {}]
    /\ runs = [w \in Writers |-> 0]
    /\ faults = 0
    /\ pc = [t \in Task |-> "idle"]
    /\ cur = [t \in Task |-> 1]
    /\ day = [t \in Task |-> t[2]]
    /\ got = [t \in Task |-> NothingFetched]
    /\ todo = [t \in Task |-> {}]
    /\ outcome = [t \in Task |-> NoOutcome]

-----------------------------------------------------------------------------
(* The upstream: rows arrive or change late, or a day's rows disappear.    *)

Revise ==
    /\ stamp < MaxRevisions
    /\ stamp' = stamp + 1
    /\ \E x \in Datasets, d \in Days :
          \E v \in {0, stamp + 1} : upstream' = [upstream EXCEPT ![x][d] = v]
    /\ UNCHANGED <<wide, store, slice, run, faults>>

-----------------------------------------------------------------------------
(* A run: bulk.backfill_daily_window and its siblings.                     *)

\* The window is cut and every slice is submitted to the pool.
LaunchOn(w, days) ==
    /\ status[w] # "running"
    /\ w \in Scheduled \/ runs[w] < MaxRuns
    /\ status' = [status EXCEPT ![w] = "running"]
    /\ window' = [window EXCEPT ![w] = days]
    /\ runs' = [runs EXCEPT ![w] = IF w \in Scheduled THEN @ ELSE @ + 1]
    /\ pc' = [t \in Task |->
                IF t[1] # w THEN pc[t]
                ELSE IF t[2] \in SlicesOf(days) THEN "queued" ELSE "idle"]
    /\ cur' = [t \in Task |-> IF t[1] = w THEN 1 ELSE cur[t]]
    /\ day' = [t \in Task |-> IF t[1] = w THEN t[2] ELSE day[t]]
    /\ got' = [t \in Task |-> IF t[1] = w THEN NothingFetched ELSE got[t]]
    /\ todo' = [t \in Task |-> IF t[1] = w THEN {} ELSE todo[t]]
    /\ outcome' = [t \in Task |-> IF t[1] = w THEN NoOutcome ELSE outcome[t]]
    /\ UNCHANGED <<wide, upstream, stamp, store, faults>>

Launch(w) == \E days \in Windows[w] : LaunchOn(w, days)

\* The pool takes slices in the order they were submitted.
StartSlice(t) ==
    /\ pc[t] = "queued"
    /\ Cardinality(Busy(t[1])) < MaxWorkers
    /\ \A s \in Slices(t[1]) : s[2] < t[2] => pc[s] # "queued"
    /\ pc' = [pc EXCEPT ![t] = "fetch"]
    /\ UNCHANGED <<wide, upstream, stamp, store, run, faults, cur, day, got, todo, outcome>>

\* The run returns once every future has: failed when any slice failed.
Collect(w) ==
    /\ status[w] = "running"
    /\ \A t \in Slices(w) : pc[t] = "done"
    /\ status' = [status EXCEPT ![w] =
                    IF \A t \in Slices(w) : SliceOk(t) THEN "ok" ELSE "failed"]
    /\ UNCHANGED <<wide, upstream, stamp, store, slice, window, runs, faults>>

-----------------------------------------------------------------------------
(* A slice: BackfillFacade._upload_window over the datasets in order.      *)

\* Broken variant: the dataset loop runs one too far.
NextDatasetOneMore(t, o) ==
    /\ outcome' = [outcome EXCEPT ![t][cur[t]] = o]
    /\ IF cur[t] <= NumDatasets
          THEN /\ pc' = [pc EXCEPT ![t] = "fetch"]
               /\ cur' = [cur EXCEPT ![t] = @ + 1]
          ELSE /\ pc' = [pc EXCEPT ![t] = "done"]
               /\ cur' = cur

\* Dataset cur[t] ended with o; take the next one or finish the slice.
NextDataset(t, o) ==
    /\ outcome' = [outcome EXCEPT ![t][cur[t]] = o]
    /\ IF cur[t] < NumDatasets
          THEN /\ pc' = [pc EXCEPT ![t] = "fetch"]
               /\ cur' = [cur EXCEPT ![t] = @ + 1]
          ELSE /\ pc' = [pc EXCEPT ![t] = "done"]
               /\ cur' = cur

Fetched(t) ==
    [d \in Days |-> IF d \in SliceDays(t) THEN upstream[cur[t]][d] ELSE 0]

\* No dated record came back: skipped with a warning, neither manifest nor failure.
FetchNothing(t) ==
    /\ pc[t] = "fetch"
    /\ Fetched(t) = NoRecords
    /\ got' = [got EXCEPT ![t][cur[t]] = NoRecords]
    /\ NextDataset(t, "empty")
    /\ UNCHANGED <<wide, upstream, stamp, store, run, faults, day, todo>>

\* Broken variant: days that have a manifest already are not written again.
FetchRecordsSkipExisting(t) ==
    LET new == {d \in Days : Fetched(t)[d] # 0 /\ manifest[cur[t]][d] = 0} IN
    /\ pc[t] = "fetch"
    /\ Fetched(t) # NoRecords
    /\ got' = [got EXCEPT ![t][cur[t]] = Fetched(t)]
    /\ todo' = [todo EXCEPT ![t] = new]
    /\ IF new = {} THEN NextDataset(t, "empty")
       ELSE pc' = [pc EXCEPT ![t] = "data"] /\ UNCHANGED <<cur, outcome>>
    /\ UNCHANGED <<wide, upstream, stamp, store, run, faults, day>>

FetchRecords(t) ==
    /\ pc[t] = "fetch"
    /\ Fetched(t) # NoRecords
    /\ got' = [got EXCEPT ![t][cur[t]] = Fetched(t)]
    /\ todo' = [todo EXCEPT ![t] = {d \in Days : Fetched(t)[d] # 0}]
    /\ pc' = [pc EXCEPT ![t] = "data"]
    /\ UNCHANGED <<wide, upstream, stamp, store, run, faults, cur, day, outcome>>

\* Broken variant: an error of the data PUT is swallowed.
PutDataUnchecked(t) ==
    /\ pc[t] = "data"
    /\ \E d \in todo[t] :
          /\ \A e \in todo[t] : d <= e
          /\ day' = [day EXCEPT ![t] = d]
          /\ data' \in {data, [data EXCEPT ![cur[t]][d] = got[t][cur[t]][d]]}
    /\ pc' = [pc EXCEPT ![t] = "manifest"]
    /\ UNCHANGED <<wide, upstream, stamp, manifest, run, faults, cur, got, todo, outcome>>

\* _write_pair, first PUT: the data object of the earliest day left.
PutData(t) ==
    /\ pc[t] = "data"
    /\ \E d \in todo[t] :
          /\ \A e \in todo[t] : d <= e
          /\ day' = [day EXCEPT ![t] = d]
          /\ data' = [data EXCEPT ![cur[t]][d] = got[t][cur[t]][d]]
    /\ pc' = [pc EXCEPT ![t] = "manifest"]
    /\ UNCHANGED <<wide, upstream, stamp, manifest, run, faults, cur, got, todo, outcome>>

\* Broken variant: write_daily returns after its first day.
PutManifestFirstDayOnly(t) ==
    /\ pc[t] = "manifest"
    /\ manifest' = [manifest EXCEPT ![cur[t]][day[t]] = got[t][cur[t]][day[t]]]
    /\ todo' = [todo EXCEPT ![t] = {}]
    /\ NextDataset(t, "written")
    /\ UNCHANGED <<wide, upstream, stamp, data, run, faults, day, got>>

\* Broken variant: the manifest is computed from a second query.
PutManifestRequeried(t) ==
    /\ pc[t] = "manifest"
    /\ manifest' = [manifest EXCEPT ![cur[t]][day[t]] = upstream[cur[t]][day[t]]]
    /\ todo' = [todo EXCEPT ![t] = @ \ {day[t]}]
    /\ IF todo[t] = {day[t]}
          THEN NextDataset(t, "written")
          ELSE /\ pc' = [pc EXCEPT ![t] = "data"]
               /\ UNCHANGED <<cur, outcome>>
    /\ UNCHANGED <<wide, upstream, stamp, data, run, faults, day, got>>

\* _write_pair, second PUT: the manifest; then the next day or dataset.
PutManifest(t) ==
    /\ pc[t] = "manifest"
    /\ manifest' = [manifest EXCEPT ![cur[t]][day[t]] = got[t][cur[t]][day[t]]]
    /\ todo' = [todo EXCEPT ![t] = @ \ {day[t]}]
    /\ IF todo[t] = {day[t]}
          THEN NextDataset(t, "written")
          ELSE /\ pc' = [pc EXCEPT ![t] = "data"]
               /\ UNCHANGED <<cur, outcome>>
    /\ UNCHANGED <<wide, upstream, stamp, data, run, faults, day, got>>

-----------------------------------------------------------------------------
(* Faults.                                                                 *)

\* The fetch, or a PUT, raises: the dataset is recorded as failed and the
\* loop goes on.  Days this slice wrote before stay written.
CallFails(t) ==
    /\ pc[t] \in {"fetch", "data", "manifest"}
    /\ faults < MaxFaults
    /\ faults' = faults + 1
    /\ todo' = [todo EXCEPT ![t] = {}]
    /\ NextDataset(t, "failed")
    /\ UNCHANGED <<wide, upstream, stamp, store, run, day, got>>

\* The process dies; whatever its threads had in flight is gone.
Crash(w) ==
    /\ status[w] = "running"
    /\ faults < MaxFaults
    /\ faults' = faults + 1
    /\ status' = [status EXCEPT ![w] = "crashed"]
    /\ pc' = [t \in Task |-> IF t[1] = w THEN "idle" ELSE pc[t]]
    /\ todo' = [t \in Task |-> IF t[1] = w THEN {} ELSE todo[t]]
    /\ UNCHANGED <<wide, upstream, stamp, store, window, runs, cur, day, got, outcome>>

-----------------------------------------------------------------------------

SliceStep(t) ==
    \/ StartSlice(t)
    \/ FetchNothing(t)
    \/ FetchRecords(t)
    \/ PutData(t)
    \/ PutManifest(t)

WriterStep(w) == Launch(w) \/ Collect(w) \/ Crash(w)

Next ==
    \/ Revise
    \/ \E w \in Writers : WriterStep(w)
    \/ \E t \in Task : SliceStep(t) \/ CallFails(t)

Spec == Init /\ [][Next]_vars

\* Threads run, the pool is collected, and Airflow starts its runs again.
Fairness ==
    /\ \A t \in Task : WF_vars(SliceStep(t))
    /\ \A w \in Writers : WF_vars(Collect(w))
    /\ \A w \in Scheduled : WF_vars(Launch(w))

FairSpec == Spec /\ Fairness
-----------------------------------------------------------------------------
(* Properties.                                                             *)

\* Every variable ranges over the values the code can give it.
TypeOK ==
    /\ wide \in BOOLEAN
    /\ upstream \in [Datasets -> [Days -> Versions]]
    /\ stamp \in Versions
    /\ data \in [Datasets -> [Days -> Versions]]
    /\ manifest \in [Datasets -> [Days -> Versions]]
    /\ status \in [Writers -> {"idle", "running", "ok", "failed", "crashed"}]
    /\ window \in [Writers -> SUBSET Days]
    /\ runs \in [Writers -> 0..MaxRuns]
    /\ faults \in 0..MaxFaults
    /\ pc \in [Task -> {"idle", "queued", "fetch", "data", "manifest", "done"}]
    /\ cur \in [Task -> Datasets]
    /\ day \in [Task -> Days]
    /\ got \in [Task -> [Datasets -> [Days -> Versions]]]
    /\ todo \in [Task -> SUBSET Days]
    /\ outcome \in [Task -> [Datasets -> {"pending", "empty", "written", "failed"}]]

\* A manifest in Bronze always has its data object beside it, whoever crashed
\* and whoever else was writing: readers that find work by listing manifests
\* (the Bronze audit, the scanners) never open a missing object.
ManifestNeverAheadOfData ==
    \A x \in Datasets, d \in Days : manifest[x][d] # 0 => data[x][d] # 0

\* A dataset a slice reports as written has both objects of every day the
\* fetch returned records for, even with other callers at work: the file
\* count a run logs is never ahead of what a reader finds in Bronze.
WrittenMeansBacked ==
    \A t \in Task, x \in Datasets :
        outcome[t][x] = "written" =>
            \A d \in Days : got[t][x][d] # 0 => data[x][d] # 0 /\ manifest[x][d] # 0

\* With one caller at a time, whatever a dataset reported as written holds
\* is what the slice fetched, and its manifest describes that very data:
\* slices of one pool never touch each other's partitions.
WrittenPairsMatch ==
    \A t \in Task, x \in Datasets :
        outcome[t][x] = "written" =>
            \A d \in Days : got[t][x][d] # 0 =>
                data[x][d] = got[t][x][d] /\ manifest[x][d] = got[t][x][d]

\* With one caller at a time, a partition never falls back to an older
\* upstream revision: the lookback "is a replay of the same query over a
\* superset of rows", whichever slices fail and whenever the process dies.
BronzeNeverGoesBack ==
    [][\A x \in Datasets, d \in Days :
          data'[x][d] >= data[x][d] /\ manifest'[x][d] >= manifest[x][d]]_store

\* The days every window of a scheduled writer covers.
LookedBack == {d \in Days : \E w \in Scheduled : \A days \in Windows[w] : d \in days}

\* The lookback repairs: once revisions and faults are over, every day that
\* scheduled runs keep rewriting ends up with the upstream's last revision
\* and a manifest that describes it, whatever interleavings, torn pairs and
\* stale overwrites came before.
LookbackConverges ==
    <>[](\A x \in Datasets, d \in LookedBack :
            upstream[x][d] # 0 =>
                data[x][d] = upstream[x][d] /\ manifest[x][d] = upstream[x][d])

\* What bulk.backfill_monthly_window says of a month: when fewer manifests
\* come back than the source has datasets, the month is marked as failed.
ShortSliceIsFailed ==
    \A w \in Writers : status[w] = "ok" =>
        \A t \in Slices(w), x \in Datasets : outcome[t][x] = "written"

=============================================================================
