-------------------------- MODULE SnapshotCollection --------------------------
(***************************************************************************)
(* collect_snapshot: one source's snapshot datasets copied, each as one    *)
(* stream, into the ingest_date folder of a day, beside an upstream that   *)
(* is edited in place and keeps no history.                                *)
(*                                                                         *)
(* A paged dataset (Socrata) is walked page by page with $limit/$offset,   *)
(* ordered by row id; the other kind (Open-Meteo) is one request.  What is *)
(* collected of a dataset is how often each row came: a content.  Equal    *)
(* contents have equal checksums, so a manifest is the content it is of.   *)
(*                                                                         *)
(* A process collects one source, and sources share nothing: which one is  *)
(* picked at the start.  One collection of a source runs at a time (the    *)
(* systemd unit); an operator's rerun of a day comes after.                *)
(***************************************************************************)
EXTENDS Integers, Sequences, FiniteSets, Functions

CONSTANTS
    Sources,     \* the sources of config/sources
    Datasets,    \* their snapshot datasets
    DatasetsOf,  \* those of a source, in config order
    Paged,       \* the datasets on Socrata
    MaxRow,      \* rows have ids 1..MaxRow
    Initial,     \* the rows there may be at first
    PageSize,
    MaxRetries,  \* tries of one page
    Floor,       \* min_records of a dataset
    NumDays,     \* days 1..NumDays may be collected
    MaxEdits,    \* bound: rows added or removed upstream
    MaxRuns,     \* bound: collections started
    MaxFaults    \* bound: failed requests and calls, deaths

ASSUME SnapshotAssumption ==
    /\ DatasetsOf \in [Sources -> Seq(Datasets)]
    /\ Paged \subseteq Datasets
    /\ Initial \subseteq SUBSET (1..MaxRow)
    /\ Floor \in [Datasets -> Nat \ {0}]
    /\ {MaxRow, PageSize, MaxRetries, NumDays} \subseteq Nat \ {0}
    /\ {MaxEdits, MaxRuns, MaxFaults} \subseteq Nat

RowIds == 1..MaxRow
Days == 1..NumDays

VARIABLES
    source,   \* the source collected
    upstream, \* the rows of each dataset now
    stage,    \* where the process stands
    day,      \* the ingest_date of the last collection
    at,       \* position of the dataset at work
    offset,   \* rows asked for so far
    tries,    \* tries of the page asked for
    got,      \* the content streamed so far
    failed,   \* datasets of this collection that failed
    data, manifest, \* the two objects of each dataset and day
    report,   \* what the last collection has told the outside
    begun,    \* the rows there when the walk began
    edited,   \* what happened to the dataset walked, during the walk
    edits, runs, faults  \* counted against the bounds

process == <<stage, day, at, offset, tries, got, failed, report, begun>>
bronzeSnapshots == <<data, manifest>>
collectorVars == <<source, upstream, process, bronzeSnapshots, edited, edits, runs>>

Contents == [RowIds -> Nat]
Nothing == [r \in RowIds |-> 0]
Size(content) == SumFunction(content)

\* The objects before there are any.
Absent == [r \in RowIds |-> -1]

Collects(ds) == \E i \in DOMAIN DatasetsOf[source] : DatasetsOf[source][i] = ds

Here == DatasetsOf[source][at]

CollectorInit ==
    /\ source \in Sources
    /\ \E rows \in Initial : upstream = [ds \in Datasets |-> rows]
    /\ stage = "idle" /\ day = 1 /\ at = 1
    /\ offset = 0 /\ tries = 1 /\ got = Nothing
    /\ failed = {}
    /\ data = [ds \in Datasets |-> [d \in Days |-> Absent]]
    /\ manifest = data
    /\ report = "none"
    /\ begun = {} /\ edited = {}
    /\ edits = 0 /\ runs = 0 /\ faults = 0

-----------------------------------------------------------------------------
\* The upstream: a new row's id may sort anywhere.

Edit(ds) ==
    /\ Collects(ds)
    /\ edits < MaxEdits
    /\ edits' = edits + 1
    /\ \E r \in RowIds :
           LET gone == r \in upstream[ds]
           IN  /\ upstream' = [upstream EXCEPT ![ds] = IF gone THEN @ \ {r} ELSE @ \cup {r}]
               /\ edited' = IF stage = "fetch" /\ ds = Here
                               THEN edited \cup {IF gone THEN "removed" ELSE "added"}
                               ELSE edited
    /\ UNCHANGED <<source, process, bronzeSnapshots, runs, faults>>

-----------------------------------------------------------------------------
\* The collection.  A walk starts from the first row.

BeginWalk ==
    /\ stage' = "fetch"
    /\ offset' = 0 /\ tries' = 1 /\ got' = Nothing
    /\ begun' = upstream[DatasetsOf[source][at']]
    /\ edited' = {}

\* A source without snapshot datasets is a usage error: nothing is attempted.
Start(d) ==
    /\ stage = "idle"
    /\ DatasetsOf[source] # <<>>
    /\ runs < MaxRuns
    /\ runs' = runs + 1
    /\ day' = d /\ at' = 1 /\ failed' = {} /\ report' = "none"
    /\ BeginWalk
    /\ UNCHANGED <<source, upstream, bronzeSnapshots, edits, faults>>

\* The rows the next request returns.
Page ==
    IF Here \notin Paged THEN upstream[Here]
    ELSE {r \in upstream[Here] :
             Cardinality({q \in upstream[Here] : q < r}) \in offset..(offset + PageSize - 1)}

\* Broken variant: a full page ends the walk, too.
AnyPage == Here \notin Paged \/ Cardinality(Page) <= PageSize

LastPage == Here \notin Paged \/ Cardinality(Page) < PageSize

RequestOk ==
    /\ stage = "fetch"
    /\ got' = [r \in RowIds |-> IF r \in Page THEN got[r] + 1 ELSE got[r]]
    /\ IF LastPage THEN stage' = "floor" /\ UNCHANGED offset
       ELSE offset' = offset + PageSize /\ UNCHANGED stage
    /\ tries' = 1
    /\ UNCHANGED <<source, upstream, day, at, failed, report, begun,
                   bronzeSnapshots, edited, edits, runs, faults>>

\* Datasets are independent: the collection goes on after a failed one.
NextDataset ==
    IF at < Len(DatasetsOf[source]) THEN at' = at + 1 /\ BeginWalk
    ELSE stage' = "report" /\ UNCHANGED <<at, offset, tries, got, begun, edited>>

Fails ==
    /\ failed' = failed \cup {Here}
    /\ NextDataset

\* 429 and transport errors are counted together; Open-Meteo gets one try.
RequestFails ==
    /\ stage = "fetch"
    /\ faults < MaxFaults
    /\ faults' = faults + 1
    /\ IF Here \in Paged /\ tries < MaxRetries
          THEN tries' = tries + 1 /\ UNCHANGED <<stage, at, offset, got, failed, begun, edited>>
          ELSE Fails
    /\ UNCHANGED <<source, upstream, day, report, bronzeSnapshots, edits, runs>>

\* SnapshotTooSmallError, before anything is uploaded.
TooSmall ==
    /\ stage = "floor"
    /\ Size(got) < Floor[Here]
    /\ Fails
    /\ UNCHANGED <<source, upstream, day, report, bronzeSnapshots, edits, runs, faults>>

PutData ==
    /\ stage = "floor"
    /\ Size(got) >= Floor[Here]
    /\ data' = [data EXCEPT ![Here][day] = got]
    /\ stage' = "manifest"
    /\ UNCHANGED <<source, upstream, day, at, offset, tries, got, failed, report, begun,
                   manifest, edited, edits, runs, faults>>

PutManifest ==
    /\ stage = "manifest"
    /\ manifest' = [manifest EXCEPT ![Here][day] = got]
    /\ NextDataset
    /\ UNCHANGED <<source, upstream, day, failed, report, data, edits, runs, faults>>

\* Either upload raises: the dataset has failed, whatever is already there.
UploadFails ==
    /\ \/ stage = "floor" /\ Size(got) >= Floor[Here]
       \/ stage = "manifest"
    /\ faults < MaxFaults
    /\ faults' = faults + 1
    /\ Fails
    /\ UNCHANGED <<source, upstream, day, report, bronzeSnapshots, edits, runs>>

\* Broken variant: one collected dataset is enough for the check-in.
CheckInUnlessAllFailed ==
    IF \A ds \in Datasets : Collects(ds) => ds \in failed THEN "alert" ELSE "checkin"

Outcome == IF failed = {} THEN "checkin" ELSE "alert"

\* Neither channel raises; an unset URL or a failed call leaves silence.
Report ==
    /\ stage = "report"
    /\ stage' = "idle"
    /\ report' \in {Outcome, "silent"}
    /\ UNCHANGED <<source, upstream, day, at, offset, tries, got, failed, begun,
                   bronzeSnapshots, edited, edits, runs, faults>>

Dies ==
    /\ stage # "idle"
    /\ faults < MaxFaults
    /\ faults' = faults + 1
    /\ stage' = "idle"
    /\ UNCHANGED <<source, upstream, day, at, offset, tries, got, failed, report, begun,
                   bronzeSnapshots, edited, edits, runs>>

CollectorNext ==
    \/ \E ds \in Datasets : Edit(ds)
    \/ \E d \in Days : Start(d)
    \/ RequestOk
    \/ RequestFails
    \/ TooSmall
    \/ PutData
    \/ PutManifest
    \/ UploadFails
    \/ Report
    \/ Dies

-----------------------------------------------------------------------------

CollectorTypeOK ==
    /\ source \in Sources
    /\ upstream \in [Datasets -> SUBSET RowIds]
    /\ stage \in {"idle", "fetch", "floor", "manifest", "report"}
    /\ day \in Days
    /\ at \in Nat
    /\ stage # "idle" => at \in 1..Len(DatasetsOf[source])
    /\ offset \in Nat /\ tries \in 1..MaxRetries
    /\ got \in Contents
    /\ failed \in SUBSET Datasets
    /\ data \in [Datasets -> [Days -> Contents \cup {Absent}]]
    /\ manifest \in [Datasets -> [Days -> Contents \cup {Absent}]]
    /\ report \in {"none", "checkin", "alert", "silent"}
    /\ begun \in SUBSET RowIds /\ edited \in SUBSET {"added", "removed"}
    /\ edits \in 0..MaxEdits /\ runs \in 0..MaxRuns /\ faults \in 0..MaxFaults

\* What ordering by the row id buys a walk that ended (fetch.py, STABLE_ORDER):
\* while no row was removed it has every row that was there when it began, and
\* while none was added it has no row twice.  An edit of the other kind shifts
\* the pages in spite of the order.
WalkCoversTable ==
    stage \in {"floor", "manifest"} =>
        /\ "removed" \notin edited => \A r \in begun : got[r] > 0
        /\ "added" \notin edited => \A r \in RowIds : got[r] <= 1

\* The watchdog is told the truth: after a check-in every dataset of the source
\* has both objects of that day, of one and the same walk, and no fewer rows
\* than its floor; and an alert has a failed dataset behind it.
CheckInIsTrue ==
    /\ report = "checkin" =>
           \A i \in DOMAIN DatasetsOf[source] :
               LET ds == DatasetsOf[source][i]
               IN data[ds][day] = manifest[ds][day] /\ Size(data[ds][day]) >= Floor[ds]
    /\ report = "alert" => failed # {}
=============================================================================
