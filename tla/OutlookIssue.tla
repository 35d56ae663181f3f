---------------------------- MODULE OutlookIssue ----------------------------
(***************************************************************************)
(* outlook_m1 --upload: the outlook of one issue day, made from the        *)
(* forecast vintage collected that day and filed as outlook.csv and then   *)
(* run.json.  Two issuers run it: the daily DAG, with --skip-existing,     *)
(* retries and a fresh directory for each try; and an operator on the      *)
(* command line, with or without the flag, whose local copy stays.  The    *)
(* operator may have it score a forecast file of his own, or the observed  *)
(* archive (--replay-archive), in place of the vintage; run.json says so.  *)
(*                                                                         *)
(* What the chain computes is a function of its inputs and is left out     *)
(* here: an object of the artefact is the vintage it is of and who wrote   *)
(* it.                                                                     *)
(***************************************************************************)
EXTENDS SnapshotCollection

CONSTANTS
    Forecast,  \* the forecast dataset
    Dag, Cli,  \* the issuers
    MaxTries,  \* tries of the DAG's task (retries + 1)
    MaxByHand  \* bound: runs on the command line, and clearings

ASSUME OutlookAssumption ==
    /\ Forecast \in Datasets
    /\ Dag # Cli
    /\ MaxTries \in Nat \ {0}
    /\ MaxByHand \in Nat

Issuers == {Dag, Cli}
\* No vintage: a forecast file, or the archive replayed as a forecast.
Outside == [r \in RowIds |-> -2]
Scored == Contents \cup {Outside}
Artefacts == [of : Scored, by : Issuers]
NoArtefact == [of |-> Absent, by |-> Dag]

VARIABLES
    step,      \* where each issuer stands
    issue,     \* the day it scores
    vintage,   \* the payload it has read, or Outside
    tried,     \* tries of the DAG's task for its day
    ended,     \* the days whose DAG run is over
    local,     \* the days of which the operator's directory holds a run
    csv, json, \* the two objects of each day
    sure,      \* its last HEAD was answered, and nobody else has PUT since
    raced,     \* days on which somebody PUT without being sure
    vintages,  \* the contents that were filed of a day with their manifest
    byHand     \* counted against the bound

outlookVars == <<step, issue, vintage, tried, ended, local, csv, json, sure, raced, byHand>>

OutlookInit ==
    /\ step = [i \in Issuers |-> "off"]
    /\ issue = [i \in Issuers |-> 1]
    /\ vintage = [i \in Issuers |-> Absent]
    /\ tried = 0 /\ ended = {} /\ local = {}
    /\ csv = [d \in Days |-> NoArtefact]
    /\ json = csv
    /\ sure = [i \in Issuers |-> FALSE]
    /\ raced = {} /\ byHand = 0
    /\ vintages = [d \in Days |-> {}]

\* The record a later reader needs of what was collected.
FileVintage ==
    vintages' = [d \in Days |-> vintages[d] \cup
                   IF manifest'[Forecast][d] \in {Absent, manifest[Forecast][d]} THEN {}
                   ELSE {manifest'[Forecast][d]}]

StepTo(i, next) == step' = [step EXCEPT ![i] = next]

-----------------------------------------------------------------------------
\* The ways a try begins and ends.

\* One DAG run at a time (max_active_runs), for a day that has had none.
DagBegins(d) ==
    /\ step[Dag] = "off"
    /\ d \notin ended
    /\ tried' = 1
    /\ issue' = [issue EXCEPT ![Dag] = d]
    /\ StepTo(Dag, "skip")
    /\ UNCHANGED <<collectorVars, faults, vintages, vintage, ended, local, csv, json,
                   sure, raced, byHand>>

\* The operator, with the --out-dir of the last run or with another.
CliBegins(d) ==
    /\ step[Cli] = "off"
    /\ byHand < MaxByHand
    /\ byHand' = byHand + 1
    /\ issue' = [issue EXCEPT ![Cli] = d]
    /\ StepTo(Cli, "skip") \/ StepTo(Cli, "read")
    /\ local' \in {local, {}}
    /\ UNCHANGED <<collectorVars, faults, vintages, vintage, tried, ended, csv, json, sure,
                   raced>>

\* The operator clears a DAG run that is over, whatever became of it.
Clear(d) ==
    /\ step[Dag] = "off"
    /\ d \in ended
    /\ byHand < MaxByHand
    /\ byHand' = byHand + 1
    /\ ended' = ended \ {d}
    /\ UNCHANGED <<collectorVars, faults, vintages, step, issue, vintage, tried, local, csv,
                   json, sure, raced>>

Succeeds(i) ==
    /\ StepTo(i, "off")
    /\ ended' = IF i = Dag THEN ended \cup {issue[Dag]} ELSE ended
    /\ UNCHANGED tried

\* Broken variants: the task has no retries, and no end of them.
NoRetry(i) == Succeeds(i)
RetryForEver(i) == StepTo(i, "skip") /\ tried' = tried + 1 /\ UNCHANGED ended

\* A non-zero exit makes the DAG's task raise, and Airflow tries again.
Raises(i) ==
    IF i = Dag /\ tried < MaxTries
       THEN tried' = tried + 1 /\ StepTo(Dag, "skip") /\ UNCHANGED ended
       ELSE Succeeds(i)

-----------------------------------------------------------------------------
\* The steps of main.

\* --skip-existing: run.json is there, and the day is left alone.
SkipExisting(i) ==
    /\ step[i] = "skip"
    /\ json[issue[i]] # NoArtefact
    /\ Succeeds(i)
    /\ UNCHANGED <<collectorVars, faults, vintages, issue, vintage, local, csv, json,
                   sure, raced, byHand>>

NothingToSkip(i) ==
    /\ step[i] = "skip"
    /\ json[issue[i]] = NoArtefact
    /\ StepTo(i, "read")
    /\ UNCHANGED <<collectorVars, faults, vintages, issue, vintage, tried, ended, local,
                   csv, json, sure, raced, byHand>>

\* fetch_forecast_vintage reads the data object, then the manifest.
ReadData(i) ==
    /\ step[i] = "read"
    /\ vintage' = [vintage EXCEPT ![i] = data[Forecast][issue[i]]]
    /\ IF vintage'[i] = Absent THEN Raises(i)
       ELSE StepTo(i, "verify") /\ UNCHANGED <<tried, ended>>
    /\ UNCHANGED <<collectorVars, faults, vintages, issue, local, csv, json, sure, raced,
                   byHand>>

\* --forecast-file or --replay-archive, which only the operator gives: the
\* vintage is not looked at.
ReadOutside ==
    /\ step[Cli] = "read"
    /\ vintage' = [vintage EXCEPT ![Cli] = Outside]
    /\ StepTo(Cli, "verify")
    /\ UNCHANGED <<collectorVars, faults, vintages, issue, tried, ended, local, csv, json,
                   sure, raced, byHand>>

\* Broken variant: a manifest is enough, whatever it says.
HasManifest(i) == manifest[Forecast][issue[i]] # Absent

Verified(i) == vintage[i] \in {manifest[Forecast][issue[i]], Outside}

\* A vintage that does not match its manifest is refused.  Else the chain runs
\* and write_local files the run, once for each day of a directory.
Verify(i) ==
    /\ step[i] = "verify"
    /\ IF Verified(i) /\ (i = Cli => issue[i] \notin local)
          THEN /\ StepTo(i, "head")
               /\ local' = IF i = Cli THEN local \cup {issue[i]} ELSE local
               /\ UNCHANGED <<tried, ended>>
          ELSE Raises(i) /\ UNCHANGED local
    /\ UNCHANGED <<collectorVars, faults, vintages, issue, vintage, csv, json, sure,
                   raced, byHand>>

\* Broken variant: upload does not look for a run.
NoLook(i) ==
    /\ step[i] = "head"
    /\ StepTo(i, "csv")
    /\ sure' = [sure EXCEPT ![i] = TRUE]
    /\ UNCHANGED <<collectorVars, faults, vintages, issue, vintage, tried, ended, local,
                   csv, json, raced, byHand>>

\* upload refuses before it writes anything when run.json exists.
HeadRun(i) ==
    /\ step[i] = "head"
    /\ IF json[issue[i]] # NoArtefact THEN Raises(i) /\ UNCHANGED sure
       ELSE /\ StepTo(i, "csv")
            /\ sure' = [sure EXCEPT ![i] = TRUE]
            /\ UNCHANGED <<tried, ended>>
    /\ UNCHANGED <<collectorVars, faults, vintages, issue, vintage, local, csv, json,
                   raced, byHand>>

\* run_exists takes every ClientError for "there is none": a 403, a 503.
HeadMisled(i) ==
    /\ step[i] \in {"skip", "head"}
    /\ faults < MaxFaults
    /\ faults' = faults + 1
    /\ IF step[i] = "skip" THEN StepTo(i, "read") /\ UNCHANGED sure
       ELSE StepTo(i, "csv") /\ sure' = [sure EXCEPT ![i] = FALSE]
    /\ UNCHANGED <<collectorVars, vintages, issue, vintage, tried, ended, local, csv,
                   json, raced, byHand>>

\* What a PUT of i means for those who believe they are alone.
Puts(i) ==
    /\ sure' = [j \in Issuers |-> sure[j] /\ (j = i \/ issue[j] # issue[i])]
    /\ raced' = IF sure[i] THEN raced ELSE raced \cup {issue[i]}

Written(i) == [of |-> vintage[i], by |-> i]

PutCsv(i) ==
    /\ step[i] = "csv"
    /\ csv' = [csv EXCEPT ![issue[i]] = Written(i)]
    /\ Puts(i)
    /\ StepTo(i, "json")
    /\ UNCHANGED <<collectorVars, faults, vintages, issue, vintage, tried, ended, local,
                   json, byHand>>

\* run.json last: its presence marks the run complete.
PutJson(i) ==
    /\ step[i] = "json"
    /\ json' = [json EXCEPT ![issue[i]] = Written(i)]
    /\ Puts(i)
    /\ Succeeds(i)
    /\ UNCHANGED <<collectorVars, faults, vintages, issue, vintage, local, csv, byHand>>

\* An input cannot be read, the chain refuses, a PUT raises, the process dies.
TryFails(i) ==
    /\ step[i] # "off"
    /\ faults < MaxFaults
    /\ faults' = faults + 1
    /\ Raises(i)
    /\ UNCHANGED <<collectorVars, vintages, issue, vintage, local, csv, json, sure, raced,
                   byHand>>

IssuerStep(i) ==
    \/ SkipExisting(i)
    \/ NothingToSkip(i)
    \/ ReadData(i)
    \/ Verify(i)
    \/ HeadRun(i)
    \/ PutCsv(i)
    \/ PutJson(i)

OutlookNext ==
    \/ \E d \in Days : DagBegins(d) \/ CliBegins(d) \/ Clear(d)
    \/ ReadOutside
    \/ \E i \in Issuers : IssuerStep(i) \/ HeadMisled(i) \/ TryFails(i)

-----------------------------------------------------------------------------

OutlookTypeOK ==
    /\ step \in [Issuers -> {"off", "skip", "read", "verify", "head", "csv", "json"}]
    /\ issue \in [Issuers -> Days]
    /\ vintage \in [Issuers -> Scored \cup {Absent}]
    /\ tried \in 0..MaxTries
    /\ ended \in SUBSET Days /\ local \in SUBSET Days /\ raced \in SUBSET Days
    /\ csv \in [Days -> Artefacts \cup {NoArtefact}]
    /\ json \in [Days -> Artefacts \cup {NoArtefact}]
    /\ sure \in [Issuers -> BOOLEAN]
    /\ vintages \in [Days -> SUBSET Contents]
    /\ byHand \in 0..MaxByHand

\* A complete outlook has its provenance.  The DAG's names a vintage that was
\* filed with its own manifest, although a rerun of the collection may replace
\* the objects while they are read; the operator's does too, unless it says it
\* was made of a file or a replay.  And unless issuers raced, outlook.csv is of
\* the same vintage and try as run.json.
OutlookIsOfOneVintage ==
    \A d \in Days : json[d] # NoArtefact =>
        /\ json[d].of \in vintages[d] \/ (json[d].of = Outside /\ json[d].by = Cli)
        /\ d \notin raced => csv[d] = json[d]

\* "Outlooks are append-only", as far as the code keeps it: a complete run
\* changes only when somebody PUTs who is not sure, misled by the HEAD or
\* overtaken since.
OutlooksAppendOnly ==
    [][\A d \in Days : json[d] # NoArtefact /\ <<csv[d], json[d]>>' # <<csv[d], json[d]>>
           => d \in raced']_outlookVars

Whole(d) ==
    /\ data[Forecast][d] # Absent
    /\ manifest[Forecast][d] = data[Forecast][d]

\* The day of a vintage that is whole when its DAG run begins gets an outlook,
\* the DAG's or one filed by hand first, unless a rerun of the collection breaks
\* the vintage meanwhile: the retries outlast the faults.
WholeVintageIsScored ==
    \A d \in Days :
        (issue[Dag] = d /\ step[Dag] = "skip" /\ tried = 1 /\ Whole(d))
            ~> (json[d] # NoArtefact \/ ~Whole(d))
=============================================================================
