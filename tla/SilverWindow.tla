----------------------------- MODULE SilverWindow -----------------------------
(***************************************************************************)
(* etl_service_request and the two callers that run it over windows of     *)
(* days: the daily DAG, over its lookback, and a backfill (the shell plan  *)
(* or its DAG).                                                            *)
(*                                                                         *)
(* A job reads the month folders its window touches, splits the rows,      *)
(* replaces the day partitions that have valid rows, writes the rejects of *)
(* its window, checks the hit rate, and a second task registers the new    *)
(* partitions with Trino.  Bronze keeps changing underneath.  A day of     *)
(* Bronze is the number of its valid rows and of its rows without a usable *)
(* date: the counts are what the job, the rejects and the audit compare.   *)
(***************************************************************************)
EXTENDS Integers, FiniteSets

CONSTANTS
    NumDays,    \* days 1..NumDays of the calendar
    MonthOf,    \* the month folder a day's Bronze objects are in
    Jobs,       \* the callers
    Daily,      \* the caller that is the daily DAG
    Windows,    \* the windows each caller may be given
    Contents,   \* what a day of Bronze may hold
    MaxChanges, \* bound: changes of Bronze
    MaxManual,  \* bound: starts of callers other than Daily
    MaxFaults   \* bound: failed steps and deaths

Days == 1..NumDays

\* One day of Bronze: valid rows and rows that will be rejected.
NoRows == [good |-> 0, bad |-> 0]
Rows(content) == content.good + content.bad

ASSUME SilverAssumption ==
    /\ NumDays \in Nat \ {0}
    /\ Daily \in Jobs
    /\ MonthOf \in [Days -> Nat]
    /\ Windows \in [Jobs -> SUBSET SUBSET Days]
    /\ Contents \subseteq [good : Nat, bad : Nat]
    /\ NoRows \notin Contents
    /\ MaxChanges \in Nat /\ MaxManual \in Nat /\ MaxFaults \in Nat

AllWindows == UNION {Windows[j] : j \in Jobs}

VARIABLES
    bronze,   \* the data object of each day
    stage,    \* where each caller stands
    window,   \* the window it works on
    seen,     \* the valid rows it cached, per day
    quiet,    \* Bronze has not changed and no other job written since it read
    parquet,  \* the valid rows in each Silver partition, 0 without a partition
    rejects,  \* the rejects at each window's path, per Bronze day
    trino,    \* the partitions Trino knows
    changes, manual, faults  \* counted against the bounds

silverVars == <<bronze, stage, window, seen, quiet, parquet, rejects,
                trino, changes, manual, faults>>

NoDays == [d \in Days |-> 0]

Stages == {"idle", "read", "write", "reject", "check", "sync", "ok", "failed"}

SilverInit ==
    /\ bronze = [d \in Days |-> NoRows]
    /\ stage = [j \in Jobs |-> "idle"]
    /\ window = [j \in Jobs |-> {}]
    /\ seen = [j \in Jobs |-> NoDays]
    /\ quiet = [j \in Jobs |-> FALSE]
    /\ parquet = NoDays
    /\ rejects = [w \in AllWindows |-> NoDays]
    /\ trino = {}
    /\ changes = 0 /\ manual = 0 /\ faults = 0

-----------------------------------------------------------------------------
\* Bronze: an ingest PUTs a day's data object and, at once here, its manifest
\* (BronzeIngest has the gap between the two).

Ingest(d) ==
    /\ changes < MaxChanges
    /\ changes' = changes + 1
    /\ \E c \in Contents \ {bronze[d]} : bronze' = [bronze EXCEPT ![d] = c]
    /\ quiet' = [j \in Jobs |-> FALSE]
    /\ UNCHANGED <<stage, window, seen, parquet, rejects, trino, manual, faults>>

-----------------------------------------------------------------------------
\* A job.

To(j, next) == stage' = [stage EXCEPT ![j] = next]

\* month_prefixes: a job reads the whole months its window touches.
MonthDays(w) == {d \in Days : \E e \in w : MonthOf[d] = MonthOf[e]}

\* existing_month_prefixes: a month folder exists once a day in it has objects.
SomeMonthExists(w) == \E d \in MonthDays(w) : bronze[d] # NoRows

\* The schedule, a retry of the Spark task, or the next window of a backfill.
Submit(j, w) ==
    /\ stage[j] \in {"idle", "ok", "failed"}
    /\ w \in Windows[j]
    /\ IF j = Daily THEN UNCHANGED manual
       ELSE manual < MaxManual /\ manual' = manual + 1
    /\ To(j, "read")
    /\ window' = [window EXCEPT ![j] = w]
    /\ UNCHANGED <<bronze, seen, quiet, parquet, rejects, trino, changes, faults>>

NothingToRead(j) ==
    /\ stage[j] = "read"
    /\ ~SomeMonthExists(window[j])
    /\ To(j, "failed")
    /\ UNCHANGED <<bronze, window, seen, quiet, parquet, rejects, trino,
                   changes, manual, faults>>

\* The first action on the plan caches the valid rows; assert_unique counts them.
Cache(j) ==
    /\ stage[j] = "read"
    /\ SomeMonthExists(window[j])
    /\ seen' = [seen EXCEPT ![j] =
                  [d \in Days |-> IF d \in window[j] \cap MonthDays(window[j])
                                     THEN bronze[d].good ELSE 0]]
    /\ quiet' = [quiet EXCEPT ![j] = TRUE]
    /\ To(j, "write")
    /\ UNCHANGED <<bronze, window, parquet, rejects, trino, changes, manual, faults>>

\* Dynamic partition overwrite: only partitions with a row are replaced.
Overwrite(j, days) ==
    [d \in Days |-> IF d \in days /\ seen[j][d] > 0 THEN seen[j][d] ELSE parquet[d]]

\* Other jobs in flight over the same days can no longer be called quiet.
Disturb(j) == [i \in Jobs |-> i = j /\ quiet[i]]

\* Broken variant: the valid rows are not cached and are read again.
WriteUncached(j) ==
    /\ stage[j] = "write"
    /\ parquet' = [d \in Days |-> IF d \in window[j] /\ bronze[d].good > 0
                                     THEN bronze[d].good ELSE parquet[d]]
    /\ quiet' = Disturb(j)
    /\ To(j, "reject")
    /\ UNCHANGED <<bronze, window, seen, rejects, trino, changes, manual, faults>>

Write(j) ==
    /\ stage[j] = "write"
    /\ parquet' = Overwrite(j, window[j])
    /\ quiet' = Disturb(j)
    /\ To(j, "reject")
    /\ UNCHANGED <<bronze, window, seen, rejects, trino, changes, manual, faults>>

\* Spark moves the staged partitions one after the other, each over a deleted
\* one: a death leaves some replaced and at most one gone.
WriteDies(j) ==
    /\ stage[j] = "write"
    /\ faults < MaxFaults
    /\ faults' = faults + 1
    /\ \E done \in SUBSET window[j], gone \in SUBSET window[j] :
           /\ Cardinality(gone) <= 1
           /\ gone \cap done = {}
           /\ parquet' = [d \in Days |-> IF d \in gone /\ seen[j][d] > 0
                                            THEN 0 ELSE Overwrite(j, done)[d]]
    /\ quiet' = [i \in Jobs |-> FALSE]
    /\ To(j, "failed")
    /\ UNCHANGED <<bronze, window, seen, rejects, trino, changes, manual>>

\* Broken variant: rows without a date are dropped by the window's filter.
DatedOnly(w) == NoDays

\* The rows split_by_validity rejects now: they are not cached, and their
\* unusable date lets them through the window's filter from the whole months.
\* (They are counted, then written: taken as one step.)
Rejected(w) == [d \in Days |-> IF d \in MonthDays(w) THEN bronze[d].bad ELSE 0]

Quarantine(j) ==
    /\ stage[j] = "reject"
    /\ rejects' = IF \E d \in Days : Rejected(window[j])[d] > 0
                     THEN [rejects EXCEPT ![window[j]] = Rejected(window[j])]
                     ELSE rejects
    /\ To(j, "check")
    /\ UNCHANGED <<bronze, window, seen, quiet, parquet, trino, changes, manual, faults>>

\* The spatial hit rate is looked at when everything is already written.  The
\* job is over then, and its cache gone.
HitRateOk(j) ==
    /\ stage[j] = "check"
    /\ To(j, "sync")
    /\ seen' = [seen EXCEPT ![j] = NoDays]
    /\ UNCHANGED <<bronze, window, quiet, parquet, rejects, trino,
                   changes, manual, faults>>

\* Broken variant: the table is not registered again.
SyncNothing(j) ==
    /\ stage[j] = "sync"
    /\ UNCHANGED trino
    /\ To(j, "ok")
    /\ UNCHANGED <<bronze, window, seen, quiet, parquet, rejects,
                   changes, manual, faults>>

\* sync_partition_metadata, mode FULL: adds the new and drops the missing.
Sync(j) ==
    /\ stage[j] = "sync"
    /\ trino' = {d \in Days : parquet[d] > 0}
    /\ To(j, "ok")
    /\ UNCHANGED <<bronze, window, seen, quiet, parquet, rejects,
                   changes, manual, faults>>

\* Any other step raises or its process dies: duplicate keys, a low hit rate,
\* a lost connection.  Airflow retries a failed sync by itself.
StepFails(j) ==
    /\ stage[j] \in {"read", "reject", "check", "sync"}
    /\ faults < MaxFaults
    /\ faults' = faults + 1
    /\ \/ To(j, "failed")
       \/ stage[j] = "sync" /\ j = Daily /\ To(j, "sync")
    /\ seen' = [seen EXCEPT ![j] = NoDays]
    /\ UNCHANGED <<bronze, window, quiet, parquet, rejects, trino,
                   changes, manual>>

JobStep(j) ==
    \/ NothingToRead(j)
    \/ Cache(j)
    \/ Write(j)
    \/ Quarantine(j)
    \/ HitRateOk(j)
    \/ Sync(j)

DailyStep == JobStep(Daily) \/ \E w \in Windows[Daily] : Submit(Daily, w)

SilverNext ==
    \/ \E d \in Days : Ingest(d)
    \/ \E j \in Jobs : \/ JobStep(j) \/ WriteDies(j) \/ StepFails(j)
                       \/ \E w \in Windows[j] : Submit(j, w)

SilverSpec == SilverInit /\ [][SilverNext]_silverVars

-----------------------------------------------------------------------------

SilverTypeOK ==
    /\ bronze \in [Days -> Contents \cup {NoRows}]
    /\ stage \in [Jobs -> Stages]
    /\ window \in [Jobs -> SUBSET Days]
    /\ \A j \in Jobs : window[j] \in Windows[j] \/ stage[j] = "idle"
    /\ seen \in [Jobs -> [Days -> Nat]]
    /\ quiet \in [Jobs -> BOOLEAN]
    /\ parquet \in [Days -> Nat]
    /\ rejects \in [AllWindows -> [Days -> Nat]]
    /\ trino \in SUBSET Days
    /\ changes \in 0..MaxChanges
    /\ manual \in 0..MaxManual
    /\ faults \in 0..MaxFaults

\* The acceptance gate in the direction that always holds ("Bronze rows minus
\* Silver rows must equal the rejects"): a job that ended green while Bronze
\* stood still and no other job wrote has left every valid Bronze row of its
\* window where Trino sees it, and every other row in its rejects.
NoRowIsLost ==
    \A j \in Jobs : stage[j] = "ok" /\ quiet[j] =>
        \A d \in window[j] :
            /\ bronze[d].good > 0 => d \in trino /\ parquet[d] = bronze[d].good
            /\ bronze[d].bad > 0 => rejects[window[j]][d] = bronze[d].bad

\* The Silver table is a lagged copy of Bronze whatever jobs overlap, fail or
\* die: a partition is what one job once read of that day, as a whole.
Mirror == INSTANCE LaggedCopy WITH
    Keys <- Days, Workers <- Jobs, Values <- {c.good : c \in Contents}, None <- 0,
    source <- [d \in Days |-> bronze[d].good],
    held <- seen,
    table <- parquet

MirrorsBronze == Mirror!Spec

\* Silver converges: once Bronze, backfills and faults are over, every day all
\* windows of the daily DAG cover shows Trino the rows Bronze has.  A day
\* without a valid row keeps the partition it had.
SilverConverges ==
    <>[](\A d \in Days :
            /\ \A w \in Windows[Daily] : d \in w
            /\ bronze[d].good > 0
            => parquet[d] = bronze[d].good /\ d \in trino)
=============================================================================
