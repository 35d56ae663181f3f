# A TLA+ model of the urban-ops data platform

The platform moves municipal data (Winnipeg 311 requests, snow operations,
weather) through an object store in three layers: **Bronze** (raw records as
fetched), **Silver** (typed, validated Parquet) and **Gold** (dimension and fact
tables, forecasts and scores). Nothing in it has transactions over more than one
object or table, most of it is rerun daily over overlapping windows, and several
processes (Airflow DAGs, shell plans, people at a command line) write the same
places. Its correctness rests on *idempotent rewriting*: whatever was left
behind, running again repairs it. This directory models that machinery in TLA+,
checks it with TLC on small instances and proves the main properties with TLAPS
for every value of the parameters.

## 1. Inventory

| Component | State it keeps | Operations | Interacts with | What is hard | What makes it correct |
|---|---|---|---|---|---|
| Bronze ingest (`scripts/backfill/bulk.py`, `ingestion/backfill/facade.py`, `ingestion/loaders/s3_loader.py`) | data and manifest objects per (source, dataset, day or month); nothing in memory outlives a run | cut a window into slices, run them on a thread pool, per dataset fetch, group by day, PUT data, PUT manifest | upstream APIs, the audit, backfill plans, Silver | two PUTs without a transaction; callers racing; one dataset of several failing; late upstream revisions | manifests never ahead of data; what is reported written is there; the lookback converges |
| Bronze audit (`dags/dag_audit_bronze.py`) | lists of missing days and failures of one task run | HEAD probes, fill through `bulk.py`, raise at the end | Bronze ingest (as one more caller) | acts on probes that are old; HEAD errors read as absence; its own death | it only does what a caller may; "recovered" is true; gaps close |
| Backfill plans (`scripts/backfill/*.sh`) | state file of finished windows, `.notified-<pid>` marker, watchdog status | run or skip a window, checkpoint, delegate to a child plan, report errors and signals, ping | the backfill CLI, `spark-submit`, `sync_partitions` | signals to one or both shells, death between command and checkpoint, parent and child both seeing one failure | a checkpoint means the window ran; one failure, one message; no false success ping |
| Gold build (`scripts/gold/build_gold.py`) | Metastore tables and the objects under them; artefact list of the running build | compose, DROP, purge, CREATE, stale check, INSERT per chunk, gates | Silver, model artefacts, DAG and CLI builds | death between any two statements; purge errors nobody reads; models trained during a build; partial (`--only`) and overlapping builds | no union of generations; green means whole; a rebuild repairs; no version lost |
| Silver fact jobs (`spark/jobs/etl_service_request.py`, `etl_weather_*.py`) | Parquet partitions per local day, rejects per window, Trino's partition list | read months, normalise, split, overwrite partitions, write rejects, check hit rate, sync | Bronze, Trino, plans | dynamic overwrite leaves partitions without rows; check after write; sync as a second step | Silver equals a function of Bronze over synced days |
| Silver reference jobs (`etl_snow_clearing_address.py`, `etl_plow_*.py`, `etl_parking_ban.py`) | one small table each | check counts, overwrite the table | Bronze snapshots | picking the snapshot | the table is one snapshot, complete |
| Snapshot collection (`scripts/collect_snapshot.py`, `ingestion/snapshot/`) | one data and manifest object per collection day | stream to a temp file, refuse small pulls, upload, alert or ping | upstream, storage-node timer, audit (report only) | a missed day is lost; reruns over a good day; death between the two objects | a good day is never replaced by less than the floor; one alert or one ping |
| Socrata/Open-Meteo clients (`ingestion/clients/`, `ingestion/backfill/fetchers/`) | page offset, attempts | page until short, retry with backoff | upstream | rows moving between pages; retries exhausted | stable upstream: each row once |
| DQ audit and certification (`scripts/dq/`) | append-only audit log and certification rows | run rules, append, decide unknown / suspect / certified | Gold, Silver, XCom | retries with new run ids, missing run id | a verdict is about the run it names; never certified when something could not run |
| Outlook (`scripts/models/outlook_m1.py`) | `outlook.csv` and `run.json` per issue date and version | check, PUT, PUT `run.json` last | artefacts, DAG and CLI | check-then-act, HEAD errors as absence | a complete run is never overwritten |
| Training (`scripts/models/train_m1.py`) | one artefact directory per version | upload `predictions.csv`, then `metrics.json` | Gold build, outlook | a version appearing during a build | versions are only added |
| Forecast chain (`models/request_forecast/`, `spark/transforms/weather_archive.py`, `scripts/models/outlook_*.py`, `reconstruct_forecast.py`) | none between runs: functions of the archive and a forecast | cut events, splice observed and forecast days, build panel and features, split over time, match outlooks with events | weather archive, outlook, training | the event rule is written three times; holes and nulls; windows cut from a longer series; outcomes that are in the data but must not be used | the implementations agree; a forecast that comes true replays the archive; nothing looks ahead |
| Regression, scoring, analysis, profiling, presentation, dashboard, contracts | none between runs | - | - | numeric or rendering code | not modelled (section 9) |

`PROJECT.json` lists the same components with the files of each, and every
hazard of the code at its line.

## 2. Plan

Most important behaviour first; what is done is marked.

1. **BronzeIngest** (done): everything else reads what it writes.
2. **BronzeAudit** (done): EXTENDS BronzeIngest and composes the audit with its
   other callers; BronzeIngest's `Spec` is the abstract specification it is
   shown to implement.
3. **BackfillPlan** (done): the shell plans, independent of what a window does.
4. **GoldBuild** (done): the build over all kinds of tables.
5. **SilverWindow** (done) against the abstract **LaggedCopy**: the fact job,
   its two callers, the partition sync, over a Bronze that changes.
6. **DqAudit** (done): EXTENDS SilverWindow with the audit and the certification
   of the same days.
7. **SnapshotCollection** (done), with paging, and its readers **ReferenceTables**
   and **OutlookIssue**; **SnapshotPipeline** composes the three.
8. Pure algorithms (done): **SnowEvents**, **OutlookWeather**, **RequestPanel**,
   and **RequestForecast**, in which the archive they read grows day by day.

What a further step would take up: the forecast-weather Silver job (its dedup by
revision); the Silver rows that reach Gold through a build that runs beside a
Silver job; two runs of one plan at the same time.

## 3. Modules

Definitions carry the names of the functions they model where they can;
`PROJECT.json` maps each to its lines. In every module the operators introduced
by "Broken variant" are not part of the specification: each is a plausible
mistake in the code that some property is shown to catch.

**BronzeIngest.** Writers (an ingest DAG run, the audit's fill, the CLI) launch
runs over windows. `LaunchOn` is `backfill_daily_window` cutting a window into
slices: one per day, or one in all for an API that takes a window (`wide`).
`StartSlice` and `Collect` are the thread pool. A slice is one call of
`_upload_window`: `FetchNothing`, `FetchRecords`, `PutData`, `PutManifest` per
dataset and day, `CallFails` at any call, `NextDataset` the loop. The upstream
is one variable changed by `Revise`. Contents are *revisions*: a data object, a
manifest and a fetch each carry the number of the upstream revision they stem
from, 0 for none, which is all that "same", "older" and "missing" need. A
monthly source is the same machine with "month" for "day", a static one a
calendar of one day. `Crash` abandons a run at any point, including between the
two PUTs of a pair.

**BronzeAudit** EXTENDS BronzeIngest with the audit task: `Begin` (a scheduled
start or a retry), `Head` and `HeadFails` newest day first, `Fill` (a `LaunchOn`
of the writer `Auditor` over the span of the missing days), `FillReturns` (a
`Collect`), `NextTarget` and the verdict, `AuditDies`. `AroundAudit` lets every
other writer and every thread step in between.

**BackfillPlan.** Two shells, parent and child, as bash runs them: `RunWindow`,
`RunnerOk`/`RunnerFails` for each command of the window's runner (one for
Bronze, two for Silver: Spark, then the sync), `Mark`, `Delegate`,
`ChildReturns`, `PlanDone`, and the reporting path `Trap`, `Claim` (the
`mkdir`), `Post`, `Fail`, `Exit` (the EXIT trap). A run can be told to leave
phases out (`skipped`: `SKIP_STATIC`, `SKIP_WEATHER`, `SKIP_311`), and `LeftOut`
is true of their windows as of those the state file records. A signal reaches a
shell anywhere; its trap waits until the foreground command is over (`Free`),
and the short commands of a report are such commands: a trap that comes between
the `mkdir` and the end of the POST cuts the report off (`cutOff`), and one that
interrupts the EXIT trap is remembered in `leaving`. INT ends a shell through
its EXIT trap; TERM and HUP, re-raised by the trap, do not: this is how bash 5
behaves. `NewPids` takes one of the ids without a marker, since they are alike.

**GoldBuild.** One program counter per build and one action per statement of
`rebuild` and `build`: `Select`/`Refuse`, `Drop`, `Purge`/`PurgeLeaves`,
`Create`, `CheckEmpty`/`CheckStale`, `InsertReads` and `InsertCommits` (an INSERT
computes from what it reads and publishes later), `Gates`, `Finish`, with
`TableMissing` and `Crash` as ways out and `Train` alongside. Tables differ by
`Role`: built in chunks, filled by anti-join, one chunk per artefact version
(F5, F7), or for the serving version only (F6). A row stands for all rows of one
chunk and remembers its build and whether every table it was computed from was
whole. Besides the counts that follow from the chunks there are gates on numbers
measured off the sources and written down in the code. `Drifted` names the
tables that have one the sources may have left: whether it passes is open on
every build (`PinsFail`), and `off` keeps such a red apart from the others, for
it is one that no rebuild repairs (`dag_gold_build.py:44-46`).

**LaggedCopy** is an abstract specification: a table derived key by key from a
source. `Look` remembers the values of some keys, `Publish` writes what was
seen, `PublishInPart` is a publication cut short. It knows nothing of windows,
months, rejects, checks or Trino.

**SilverWindow.** `etl_service_request` and its callers. A day of Bronze is two
counts, its valid rows and the rows without a usable date. `Submit` is the
schedule, a retry or the next backfill window; `Cache` reads the months of the
window (`MonthDays`) and caches the valid rows of the window's days; `Write` is
Spark's dynamic overwrite, which leaves a partition alone when the job has no
row for it, and `WriteDies` a death in the middle of it; `Quarantine` computes
the rejects anew, outside the cache; `HitRateOk` is the check that comes after
the writes; `Sync` registers partitions with Trino. `Ingest` changes Bronze at
any time. The table of the module refines LaggedCopy's: `held` is what the job
cached.

**DqAudit** EXTENDS SilverWindow with `dag_dq_audit`: a try pushes a run id
(`PushId`) unless it dies before that, sums the manifests (`ReadManifests`),
counts through Trino and files everything in one INSERT (`RunChecks`,
`CheckBreaks`, `FilesAndDies`, `TryRaises`), Airflow retries (`AfterRaise`), and
`Certify` runs whatever became of the tries (`all_done`). `AroundDq` is every
step of SilverWindow.

**SnapshotCollection.** One collection at a time of one source: `Start`, the
walk (`RequestOk` per page, `RequestFails` with its retries), the floor
(`TooSmall`), the two uploads (`PutData`, `PutManifest`, `UploadFails`), the
dataset loop, and what the outside is told (`Report`). `Edit` adds or removes a
row of the upstream table between any two requests. What was collected is how
often each row came, which is what a walk can get wrong; equal contents stand
for equal checksums.

**ReferenceTables.** The four jobs. The address job reads a collected day,
caches and counts it, then overwrites; the static jobs overwrite and then count,
the boundary job from a second read of its object (`Seen`).

**OutlookIssue.** `outlook_m1 --upload` by the daily DAG and by hand: skip,
read data, read manifest and compare, HEAD, PUT `outlook.csv`, PUT `run.json`.
`HeadMisled` is `run_exists` taking any ClientError for absence. By hand it can
also score a file (`--forecast-file`) or the archive (`--replay-archive`):
`ReadOutside` looks at no vintage and no manifest, and what is filed then names
`Outside`. `sure` and `raced` only observe: whether the last HEAD of an issuer
still holds.

**SnapshotPipeline** composes the three: collector, readers and issuers
interleave, and a step of the collector also records which vintages were filed
(`FileVintage`).

**SnowEvents** has the event rule as the Spark job writes it (a running count
over window functions), as the outlook's port walks it and as the probe does,
and a reference definition, `MaximalRuns`. The probe downloads only the days of
its winters and rounds peak and total to a grain (0.1 cm) before it compares the
peak with the threshold: `ProbeEvents` is the set of the events it may report,
because which way a tie falls depends on the binary value of the number.
`ProbeAgrees` says how much of the job's events is left. **OutlookWeather** is
the chain from a forecast and the archive to an outlook's events, the
reconstruction used by the backtest, and the matching of outlooks with events.
**RequestPanel** is the training panel, its lag features, the two kinds of split
and the rows of a forecast event. `Ordered` stands for the sort (`SetToSortSeq`
would read better, but the proof system cannot expand it). **RequestForecast**
holds the state: the archive, which gets a day with a value, a day without one,
or a hole, per step.

**MC\*** modules define the values their `.cfg` files give the constants;
**\*Proofs** modules hold the theorems, **SetRecursion** the facts about
recursion on finite sets that they share.

## 4. Runs

| Run | Instance | Question and answer |
|---|---|---|
| `ingest_callers` | 2 writers (scheduled ingest over both days, one CLI run of any of them), 2 days, 1 dataset, revisions to 2, 1 fault | Concurrent callers: manifests never outrun data, reported days are backed, the lookback converges. Holds. |
| `ingest_onecaller` | 1 writer, any windows of 2 days, 2 datasets, 2 threads, 1 fault | One caller: pairs match what was fetched, no partition goes back. Holds. |
| `ingest_month` | 1 writer, 1 month, 2 datasets | "Fewer manifests than datasets marks the month failed". **Violated** (finding 1). |
| `audit_fill` | the audit and one CLI run, 3 days, 1 dataset, 1 fault of the ingest and 1 of the audit | The audit is a caller of `bulk.py`; its verdict is true; gaps close. Holds. |
| `audit_raise` | the same with 2 days | "If any gap could not be filled, the task raises". **Violated** (finding 2). |
| `plan_resume` | parent with 1 window (static), child with 2, 1 or 2 commands each; static tables and 311 can be skipped; 4 process ids; 1 failure, 2 signals, 1 kill | Checkpoints, alerts and pings over any number of runs. Holds when a run never gets the id of a marker left behind. |
| `plan_reuse` | 1 window per shell, ids may come back | Each failed run posts its alert. **Violated** (finding 3). |
| `gold_build` | 5 tables, one of each role; 2 builds in a row with any of 6 selections, 2 models, 2 faults; a number of the fact table may drift | Generations, wholeness of green builds, repair, versions, termination. Holds. |
| `gold_overlap` | 2 tables, one of which may drift, 2 builds at once, 1 fault | Overlapping builds that are all green leave counted tables that cannot drift complete. Holds. |
| `dq_pipeline` | 2 days of one month; the daily DAG over day 2, a backfill over both; 3 contents, 2 changes of Bronze, 1 backfill, 1 fault; the audit of day 1 with 2 tries | No row is lost, Silver implements LaggedCopy, converges, and a verdict is about the data and the run it names. Holds. |
| `snapshot_days` | a paged source, a one-request source, a static one and one of two datasets; 3 row ids, pages of 2, 2 tries a page; 1 edit, 2 collections of a day, 2 faults; 2 uploads; 3 tries of the DAG's task, 1 run by hand (of the vintage, or of a file or replay) or clearing | What a walk covers, what a check-in means, what the reference tables hold, what an outlook says of itself and when it may change. Holds. |
| `forecast_series` | every archive of up to 7 days with 0, 1 or 3 cm, without a value or without a row; 3 rules; horizon, lookback and deepest lead of 3 days, vintages that reach back a day and whose last day is cut short or not; 2 units, seasons of 3 days; a probe whose winters leave out one day, with a grain of 2 | The job's and the port's segmentation agree, the probe's as far as it sees, a forecast that comes true replays the archive, nothing leaks back. Holds. |

### Bounds, and why they are enough

- *Days, windows, chunks*: two or three. A slice only touches its own days, so
  two adjacent days already show an overlap or an omission; three give the
  audit's span a day in the middle that is present.
- *Writers*: two. Each interaction is a race between two pairs of PUTs.
- *Revisions*: two, so that older, newer and absent can be told apart.
- *Faults, signals, kills*: one or two. They bound the environment and not the
  program: every run starts again without limit (`LaunchOn` of scheduled
  writers, `Begin`, `StartRun`, `Submit` of the daily DAG), so one fault is met
  at every step of a run that follows arbitrary others. Two signals let one
  arrive while another is being reported; with two faults a misled HEAD can
  follow a failed try.
- *Builds*: two in a row. A build has no memory but the tables, and every state
  of the tables that a third could start from is left by a first that dies at
  some step, with one fault kept for the second.
- *Windows of a plan*: the parent's own one and two of the child show skip,
  resume and delegation. The parent's stands for both of its phases, which are
  left out by the same test. Of four process ids, markers can take up three:
  two signals and a kill leave no more behind.
- *`dq_pipeline`*: the audited day lies outside the daily window and in the same
  month, as in production (the audit trims the last week, which is the DAG's
  lookback; month folders are read whole), so that only the backfill can move it
  while the job that reads it daily still computes its rejects. Three contents
  tell a changed count, an unchanged one and rejects apart; two changes let
  Bronze move before and during a job. Two tries show a retry with a new id; a
  second DAG run comes with the second try.
- *`snapshot_days`*: three row ids with pages of two give a full page, a short
  one and an empty one, and an edit before or behind the offset. One day, because
  days share no object and every step of an issuer names one. Two collections
  let a rerun replace objects under a reader. Sources share nothing, so each
  behaviour is of one source.
- *`forecast_series`*: seven days hold a warm-up, an event, a bridged gap and a
  horizon of three. One centimetre is below every threshold and adds up, three
  is above. The winter without day 4 cuts every longer event and every trailing
  window in two, and with a grain of two every odd sum is a tie. The rules cover
  a rolling window longer than a gap, one that the
  lookback just fills, and none at all.

`CHECK_DEADLOCK FALSE` appears in the configurations whose systems really stop:
a source with a single run and no schedule (`ingest_month`), the two Gold runs,
where the number of builds is bounded, `snapshot_days`, when all days are scored
and nobody runs anything by hand, and `forecast_series`, whose archive ends.

## 5. Liveness and fairness

- `LookbackConverges`: threads take their steps and the pool is
  collected (an executor does not forget a future; every request has a
  timeout); scheduled writers are launched again (Airflow's daily schedule,
  `catchup=True`). Faults and revisions are bounded, so "eventually" reads
  "once faults and revisions stop". Convergence is claimed for days every
  scheduled window covers and for which the upstream has records: a day whose
  records vanish upstream keeps its old objects.
- `GapsClose`: the audit is scheduled again and its requests
  return. *Other callers are not assumed to be launched again*: the audit
  closes gaps alone. Slices that were started go on unless killed.
- `PlanCompletes`: shells run, and the operator starts the plan for real and in
  full again and again. This is strong fairness, because dry runs and runs that
  skip phases may come in between.
- `BuildEnds`: a build takes its next step. Statements are awaited without a
  retry loop, and a statement that hangs is a death in the model.
- `SilverConverges`: the daily DAG takes its next step, a new run after the last
  one included (`WF` of `DailyStep`). *Nothing is assumed of the backfill*, which
  may stop anywhere, nor of the audit. Claimed for days that every window of the
  daily DAG covers and that have a valid row.
- `WholeVintageIsScored`: the DAG's issuer takes its steps (`WF` of its
  `IssuerStep`), its retries being part of them; nothing is assumed of the
  operator or the collector. It holds because the tries outlast the faults
  (three tries, two faults).

## 6. What is proved

All theorems hold for every value of the constants that satisfies the modules'
named assumptions; TLC evaluates these on every run.

- **BronzeProofs.** `TypeCorrect`. `ManifestSafe` and `WrittenSafe`: for
  any number of concurrent callers. Neither property is inductive; the
  strengthening `PairInv` adds that a slice about to PUT a manifest has its data
  object in place (objects are overwritten but never deleted, so a race can
  change it but not take it away), and that days of the current dataset that
  are no longer in `todo` have both objects. `SoleCallerPairsMatch` and
  `SoleCallerNeverGoesBack` assume one caller (`OneCaller`). Their invariant
  `SoleInv` says that the slices of one pool have disjoint days and that what
  a running slice fetched for its days is at least as new as what Bronze holds
  and no newer than upstream.
  `AuditImplementsCaller` is the refinement: the audit
  with its surroundings implements BronzeIngest's `Spec`. Every audit step is a
  `LaunchOn`, a `Collect`, a `Crash` or a stutter. Through it `AuditTypeCorrect`
  reuses the ingest's theorem. `RecoveredSafe` needs an invariant (`FillInv`)
  tying the missing days to the fill's slices, and what a finished slice that
  is not failed says of its days.
- **BackfillPlanProofs.** `PlanTypeCorrect`; `CheckpointSafe` (invariant: the
  commands of the current window before the one in progress have landed);
  `OneMessageSafe` and `FailureToldWithFreshPids` (invariant `AlertInv`: the
  marker is there once a message is posted or about to be, at most one shell is
  ever about to post, and with fresh process ids a marker means that a shell of
  this run has posted or is about to, or was called away by a trap on its way).
  The first theorem allows a second message only where a signal interrupts the
  parent's EXIT trap, which takes the marker away; the second assumes
  `~ReusePids`, and `plan_reuse` shows that it must. `WatchdogSafe`: a success
  is of everything the run was asked to do, skipped phases apart, and from the
  ping on only a signal in the EXIT trap, which pings again, can end the run
  badly.
- **GoldBuildProofs.** `GoldTypeCorrect`; `GenerationSafe` for builds that do
  not overlap. `OneGeneration` alone is not inductive: a second generation
  would enter with an INSERT, so `GenerationInv` adds that only the last build
  started runs and that from the stale check on its table holds only its own
  rows, the rows in flight included. `BuildInv` adds what a build has behind it:
  a build at work has composed the chunks of its table; the rows it inserted, or
  is about to, are drawn from these chunks (`Drawn`: F7's from every forecast,
  all of them from whole tables when everything is rebuilt and no gate failed);
  every table it is past is complete while it has not gone red; a later build
  that has read the artefacts has read those of the earlier ones. From it follow
  `GreenMeansWholeAlways` and `VersionsKeptAlways` directly,
  `BacktestsCoverForecastsAlways` with what later builds leave alone, and
  `RebuildRepairsAlways` with `UnhurtIsSound`: the chunks of an unhurt full build
  are each in its table, in the statement in flight or still to come, and in one
  of these places only, so the gates count what they expect. These four assume
  `~Overlap`, as the DAG's `max_active_runs` does, and `GoldAssumption`: the
  order of `TABLES` (`check_order`) and which tables read the forecasts.
  What is left to be red for is a number that may drift.
  `GreenTogether` is about builds that do overlap. Its invariant names for each
  table an `Owner`, the last build to have purged it: unless it has failed, each
  of its chunks is in the table or still to come, and once its gates have passed
  whoever else has rows there has failed or will count too many. It is stated for
  counted tables that cannot drift (a gate that may be wrong proves nothing) and
  are built in plain chunks: anti-joins share their rows among builds,
  and builds that read different artefacts want different versions.
- **DqAuditProofs.** `SilverTypeCorrect`. `NoRowIsLostAlways`: the
  strengthening `Undisturbed` follows a quiet job through its stages: after
  `Cache` it holds Bronze's valid rows, after `Write` the partitions do, after
  `Quarantine` the rejects do, after `Sync` Trino does, and any step that could
  disturb this ends the quiet. `SilverImplementsLaggedCopy` is the refinement:
  `Cache` is a `Look`, `Write` a `Publish`, `WriteDies` a `PublishInPart`,
  `Ingest` a `Change` or a stutter, everything else a stutter or the look at
  nothing that dropping the cache is.
  The audit's steps leave the pipeline alone, so the same
  invariant and refinement carry over (`NoRowIsLostBesideTheAudit`,
  `PipelineImplementsLaggedCopy`). `PipelineTypeCorrect`: that what the audit
  compares are numbers rests on SetRecursion.
  `VerdictIsOfThisRunAlways` rests on `VerdictInv`: a run that can still file, and
  the id in XCom, have no verdict yet, so a verdict and the rows it judged stay as
  they are. `CertifiedBatchConservedAlways`: `BatchInv` says that while
  nothing has changed since the try began, the sum it keeps is that of the
  manifests now, that a `pass` filed under its id was of equal sums, and that no
  later id has rows.
- **SnapshotPipelineProofs.** `SnapshotTypeCorrect`. `CheckInIsTrueAlways`:
  while a collection runs, every dataset it is past and that has not failed has
  both objects, equal and above the floor. `WalkCoversTableAlways`: rows before
  the offset have been streamed and rows behind it have not, where "before" is
  the rank of the row among the rows that are there; while no row was removed
  the ranks only grow, while none was added they only fall, and a short page
  ends the table. The lemmas are about cardinalities of initial segments.
  `ReferenceTablesCheckedAlways`, `OutlookIsOfOneVintageAlways` (an issuer past
  its verification holds a vintage that was filed or, by hand only, something
  from outside, and one that is sure has found or left no `run.json`) and
  `OutlooksAppendOnlyAlways`.
- **SetRecursion** is a small library the other proofs rest on. The community
  modules define sums and folds by recursion on the subsets of a set, and the
  library's induction theorems take an operator, which none of the provers can
  instantiate. `RecursionDefines` gets around that: the value of a recursion is
  the least relation closed under its equation, and a least counterexample, by
  the well-founded order on finite subsets, shows that this relation is total and
  single-valued. From it follow what a sum takes out, its congruence and
  monotonicity, that the sizes of disjoint parts add up to the size of their
  union, and that ranks enumerate a set.
- **SnowEventsProofs.** `RunningCountFindsMaximalRuns`: for every finite set of
  qualifying days and every gap, the groups of the Spark job's running count are
  the maximal runs. Two days have the same number exactly when no opening day
  lies between them; a day opens an event exactly when the days just before it
  do not qualify. `WalkFindsMaximalRuns`: so are the runs the port and the probe
  cut, by an invariant of the walk (`Walked`: after any prefix of the days the
  list holds the maximal runs of that prefix, the last one being that of the
  latest day; a later day leaves the earlier runs as they are).
  `ImplementationsAgree` adds the attributes: a qualifying day is a hit of its
  own or has a last day of snow in its window, from which on every day of the
  series qualifies (`LastSnowQualifies`), so on a series without holes a run
  holds a value and the port's 0.0 and False never stand for a NULL. This is
  where a rolling criterion must ask for more than nothing (`accum > 0`).
  For the probe (`ProbeAgrees`) the lemmas are that dropping days of a series
  makes no trailing sum larger, so that its qualifying days are qualifying days
  of the job and each of its runs lies in one of the job's; that an event whose
  rows it has all seen stays a whole run; and that a rounding is never further
  off than half a grain, and exists. It assumes `GrainAssumption`.
- **RequestForecastProofs.** `ArchiveAlwaysOK` (the archive is a series over
  days that have passed) turns what was proved of all series into
  `SegmentationsAgreeAlways`, for any winters. `NothingLeaksBackAlways` has
  three parts. The splice drops every observed day from the first forecast day
  on, so an outlook does not change when they are withheld. The features of a
  row are a function of the earlier rows of its unit and of the earlier seasons
  (`SamePastSameLags`, `FeaturesOfPrefix`): they come out the same in the panel,
  in its prefix, and with a forecast event appended to the prefix. A cut in time
  (`CutInTimeIsHonest`) therefore trains on exactly what was known; the folds
  are such cuts, the holdout is one because seasons follow days, and since the
  folds hold out as many rows as the era has, each row of it is held out once
  and no other is (`HeldOutOnce`). These proofs use that there are finitely many
  units and that the requests of a unit during an event are a count.
  `OutlookReplaysArchiveAlways`: each of the three kinds of outlook, fed with
  days of the archive, sees a window of it without holes or nothing at all
  (`PartIsWindow`, `OutlookReplays`). SnowEventsProofs says what a window shows:
  no day qualifies in it that does not in the archive, and from its warm day on
  every day that does (`WindowQualifies`; before it the trailing sums lack
  history). Of two such sets of days, a run of the archive inside the window
  from the warm day on is a run of the window (`RunIsSeen`); the other way round
  it takes a gap's distance from both ends (`SeenIsRun`), from the warm day
  alone for the first day to be the same (`SameFirstDay`). Equal runs have equal
  attributes (`WindowEvent`), and spans of different runs do not overlap
  (`SpansApart`), so an event inside the window is matched by itself and by
  nothing else. The warm-up and the distances in `Replays` are the hypotheses of
  these lemmas.

## 7. What is only model-checked

- The liveness properties (`LookbackConverges`, `GapsClose`, `PlanCompletes`,
  `BuildEnds`, `SilverConverges`, `WholeVintageIsScored`): proofs under fairness
  need ENABLED, which the prover does not handle.
- Every invariant and action property the passing runs check is also a theorem
  (with the assumptions §6 names). No module uses a RECURSIVE operator.

## 8. Findings

1. `bulk.py:331-334` says a month with fewer manifests than datasets is marked
   failed; the code marks it ok (`ingest_month`). A plan then records it as done.
2. `dag_audit_bronze.py:18-19` says that a gap that could not be filled raises;
   a fill that finds no records counts as recovered (`audit_raise`).
3. `_plan_lib.sh`: after TERM or HUP the marker directory is left behind, and a
   later run with the same process id reports nothing (`plan_reuse`). There is a
   second way, which `FailureIsTold` therefore excuses by name (`cutOff`): a
   signal whose trap comes between the `mkdir` (149) and the end of the `curl`
   (162) finds the marker and stays silent, and the interrupted report is not
   resumed.

## 9. Not modelled

- *Numeric and rendering code*: regressions, bootstrap, severity score and
  deviance (real arithmetic), the geometry of zones, presentation, dashboard. No
  state, out of TLC's reach. By lines this is most of the repository.
- *The content of records and SQL*: Bronze contents are revisions or counts,
  Gold rows are chunks with a build and a fitness; which rows a rule rejects or
  a join yields is left out. The gates of GoldBuild are modelled by the counts
  they compare; when a table they count was computed from tables that are not
  whole, their outcome is left open.
- *Dry runs* other than those of the plans, *location prefixes* of smoke builds,
  logging, notification texts, argument parsing.
- *Plans*: two runs of one plan at the same time, a `kill -9` of the parent
  alone, `curl` failures.
- *Trino and the object store*: a statement is one read and one atomic commit;
  a PUT is atomic and read back at once (the store's documented consistency).
- *Silver*: the weather jobs beyond their event segmentation (the archive job
  reads, rejects and overwrites by the same pattern; the forecast job's dedup by
  revision is left out); counting and writing the rejects are one step although
  each reads Bronze again; the repartitioning and the columns.
- *The quality audit*: of its rules only the conservation of rows across layers
  is modelled by what it computes; the others pass or cannot run. The scorecard
  only reads. A DAG run that finds no id at all certifies the newest run of the
  log, and `VerdictIsOfThisRun` says nothing of it.
- *Snapshots*: two collections of one source at the same time (systemd does not
  start a unit twice); a row that changes in place without moving.
- *Outlook*: which model version serves (there is one), rehearsals, which
  `--bronze-root` and `--artefact-root` file elsewhere (`outlook_m1.py:423-441`);
  a failing `--check-predictions` is a try that fails like any other.
- *Precision and leads*: snow is counted in whole units, so the order in which
  an implementation sums floating-point numbers is left out. One value stands for
  every lead of a forecast day: that a reconstruction reads the lead it means
  (`reconstruct_forecast.py:194-197`) is not shown.
