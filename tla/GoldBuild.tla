------------------------------ MODULE GoldBuild ------------------------------
(***************************************************************************)
(* Rebuilding the Gold layer: scripts/gold/build_gold.py.                  *)
(*                                                                         *)
(* A build takes the selected tables in the order of TABLES.  For each it  *)
(* composes the SELECTs (a training artefact is read here, before anything *)
(* is destroyed), drops the external table, deletes its objects, creates   *)
(* it again, refuses to go on if rows are visible, inserts one statement   *)
(* per chunk, and counts.  A failed count is collected and the build goes  *)
(* on; nothing is rolled back.  Nothing locks: the DAG allows one run, the *)
(* command line none knows of.                                             *)
(*                                                                         *)
(* A table's content is a set of rows, one for all that a chunk (a year; a *)
(* model version for the forecast tables) contributes.  A row remembers    *)
(* the build that inserted it and whether it is fit: whether the Gold      *)
(* tables it was computed from were whole.                                 *)
(***************************************************************************)
EXTENDS Naturals, FiniteSets

CONSTANTS
    NumTables,    \* TABLES is 1..NumTables, in build order
    Role,         \* Role[t]: how t's SELECTs are composed
    Reads,        \* Reads[t]: the Gold tables t's SELECT reads
    GateReads,    \* GateReads[t]: other Gold tables t's gates join
    NumChunks,    \* NumChunks[t]: the years t is built in, 1 if not CHUNKED
    Counted,      \* the tables with a gate on the total number of rows
    Drifted,      \* tables with a gate on a measured number the sources may leave
    Selections,   \* the sets of tables --only can name
    MaxVersions,  \* bound: models trained
    MaxBuilds,    \* bound: builds started
    MaxFaults,    \* bound: failed statements, ignored deletions, killed builds
    Overlap       \* whether a build may be started while another runs

Tables == 1..NumTables
Versions == 1..MaxVersions
Builds == 1..MaxBuilds
Roles == {"chunks", "antijoin", "forecast", "load", "recommendation"}

ASSUME GoldAssumption ==
    /\ NumTables \in Nat
    /\ Role \in [Tables -> Roles]
    /\ Reads \in [Tables -> SUBSET Tables]
    /\ GateReads \in [Tables -> SUBSET Tables]
    /\ \A t \in Tables : \A d \in Reads[t] \cup GateReads[t] : d < t   \* check_order
    \* F6 and F7 are what reads the forecasts, and F7 always does.
    /\ \A t, d \in Tables : Role[d] = "forecast" =>
           /\ d \in Reads[t] => Role[t] \in {"load", "recommendation"}
           /\ Role[t] = "recommendation" => d \in Reads[t]
    /\ NumChunks \in [Tables -> Nat \ {0}]
    /\ Counted \subseteq Tables
    /\ Drifted \subseteq Tables
    /\ Selections \subseteq SUBSET Tables
    /\ MaxVersions \in Nat
    /\ MaxBuilds \in Nat
    /\ MaxFaults \in Nat
    /\ Overlap \in BOOLEAN

VARIABLES
    exists,      \* exists[t]: the Metastore knows t
    rows,        \* rows[t]: what t's objects hold, whether t exists or not
    artefacts,   \* the model versions under gold/_forecast_runs/
    started,     \* number of builds started
    selected,    \* selected[b]: the tables b was asked for
    wanted,      \* wanted[b]: --forecast-version, 0 when not given
    loaded,      \* loaded[b]: the artefacts b has read, {} before it needs them
    pc,          \* pc[b]: what b does next
    at,          \* at[b]: the table of TABLES b is at; NumTables + 1 past the last
    todo,        \* todo[b]: chunks of at[b] still to be inserted
    computed,    \* computed[b]: rows the INSERT in flight has computed
    red,         \* red[b]: some gate of b failed that no drift explains
    off,         \* off[b]: some gate of b on a number that may drift failed
    hurt,        \* hurt[b]: a fault of the environment struck b
    faults       \* faults so far

storage == <<exists, rows>>
asked == <<selected, wanted>>
build == <<loaded, pc, at, todo, computed, red, off, hurt>>
vars == <<storage, artefacts, started, asked, build, faults>>

Row == [chunk : Nat, build : Builds, fit : BOOLEAN]
Running(b) == pc[b] \in {"select", "drop", "purge", "create", "check", "insert",
                         "commit", "gates"}

FromArtefacts(t) == Role[t] \in {"forecast", "load", "recommendation"}

\* The version F6 scores: the one named, or else the only one there is.
Serving(b) == {v \in loaded[b] : wanted[b] # 0 => v = wanted[b]}

\* Broken variant: F7 too is built for the serving version alone.
ChunksServingOnly(b, t) ==
    CASE Role[t] = "forecast" -> loaded[b]
      [] Role[t] \in {"load", "recommendation"} -> Serving(b)
      [] OTHER -> 1..NumChunks[t]

\* The chunks b inserts into t, one statement each.
Chunks(b, t) ==
    CASE Role[t] \in {"forecast", "recommendation"} -> loaded[b]
      [] Role[t] = "load" -> Serving(b)
      [] OTHER -> 1..NumChunks[t]

Held(t) == {r.chunk : r \in rows[t]}

\* t holds exactly what some build meant to put there, from whole tables.
Whole(t) ==
    /\ exists[t]
    /\ rows[t] # {}
    /\ \E b \in Builds :
          rows[t] = {[chunk |-> c, build |-> b, fit |-> TRUE] : c \in Chunks(b, t)}

-----------------------------------------------------------------------------

Init ==
    /\ exists = [t \in Tables |-> FALSE]
    /\ rows = [t \in Tables |-> {}]
    /\ artefacts = {}
    /\ started = 0
    /\ selected = [b \in Builds |-> {}]
    /\ wanted = [b \in Builds |-> 0]
    /\ loaded = [b \in Builds |-> {}]
    /\ pc = [b \in Builds |-> "new"]
    /\ at = [b \in Builds |-> 1]
    /\ todo = [b \in Builds |-> {}]
    /\ computed = [b \in Builds |-> {}]
    /\ red = [b \in Builds |-> FALSE]
    /\ off = [b \in Builds |-> FALSE]
    /\ hurt = [b \in Builds |-> FALSE]
    /\ faults = 0

\* train_m1.py uploads a new version's panel; versions are never overwritten.
Train ==
    /\ \E v \in Versions \ artefacts :
          /\ \A w \in Versions \ artefacts : v <= w
          /\ artefacts' = artefacts \cup {v}
    /\ UNCHANGED <<storage, started, asked, build, faults>>

-----------------------------------------------------------------------------
(* A build.                                                                *)

\* The next build that has not been started yet is.
Start(b, sel, v) ==
    /\ b = started + 1
    /\ Overlap \/ \A a \in Builds : ~Running(a)
    /\ started' = b
    /\ selected' = [selected EXCEPT ![b] = sel]
    /\ wanted' = [wanted EXCEPT ![b] = v]
    /\ pc' = [pc EXCEPT ![b] = "select"]
    /\ UNCHANGED <<storage, artefacts, loaded, at, todo, computed, red, off, hurt, faults>>

\* b stops, for the reason given.
Ends(b, outcome) ==
    /\ pc' = [pc EXCEPT ![b] = outcome]
    /\ todo' = [todo EXCEPT ![b] = {}]
    /\ computed' = [computed EXCEPT ![b] = {}]

\* A table of TABLES that was not asked for.
Skip(b) ==
    /\ pc[b] = "select"
    /\ at[b] \in Tables \ selected[b]
    /\ at' = [at EXCEPT ![b] = @ + 1]
    /\ UNCHANGED <<storage, artefacts, started, asked, loaded, pc, todo, computed, red,
                   off, hurt,
                   faults>>

\* Broken variant: only the newest artefact is read.
LoadNewest(b, t) ==
    IF FromArtefacts(t) /\ loaded[b] = {}
       THEN {v \in artefacts : \A w \in artefacts : w <= v} ELSE loaded[b]

\* Broken variant: the listing is made again for every table.
LoadAgain(b, t) == IF FromArtefacts(t) THEN artefacts ELSE loaded[b]

\* _forecast_versions: listed once per build, by the first table that asks.
Load(b, t) == IF FromArtefacts(t) /\ loaded[b] = {} THEN artefacts ELSE loaded[b]

\* serving_version refuses to guess, and a build needs some artefact.
Composable(b, t, versions) ==
    /\ FromArtefacts(t) => versions # {}
    /\ Role[t] = "load" =>
          IF wanted[b] # 0 THEN wanted[b] \in versions ELSE Cardinality(versions) = 1

\* The table's SELECTs are composed, before anything is dropped.
Select(b) ==
    /\ pc[b] = "select"
    /\ at[b] \in selected[b]
    /\ Composable(b, at[b], Load(b, at[b]))
    /\ loaded' = [loaded EXCEPT ![b] = Load(b, at[b])]
    /\ pc' = [pc EXCEPT ![b] = "drop"]
    /\ UNCHANGED <<storage, artefacts, started, asked, at, todo, computed, red, off,
                   hurt, faults>>

Refuse(b) ==
    /\ pc[b] = "select"
    /\ at[b] \in selected[b]
    /\ ~Composable(b, at[b], Load(b, at[b]))
    /\ loaded' = [loaded EXCEPT ![b] = Load(b, at[b])]
    /\ Ends(b, "refused")
    /\ UNCHANGED <<storage, artefacts, started, asked, at, red, off, hurt, faults>>

\* DROP TABLE IF EXISTS: an external table's objects stay where they are.
Drop(b) ==
    /\ pc[b] = "drop"
    /\ exists' = [exists EXCEPT ![at[b]] = FALSE]
    /\ pc' = [pc EXCEPT ![b] = "purge"]
    /\ UNCHANGED <<rows, artefacts, started, asked, loaded, at, todo, computed, red, off,
                   hurt, faults>>

\* _purge_storage: every object under the table's prefix is deleted.
Purge(b) ==
    /\ pc[b] = "purge"
    /\ rows' = [rows EXCEPT ![at[b]] = {}]
    /\ pc' = [pc EXCEPT ![b] = "create"]
    /\ UNCHANGED <<exists, artefacts, started, asked, loaded, at, todo, computed, red,
                   off, hurt, faults>>

\* The response of delete_objects is not looked at: objects may be left.
PurgeLeaves(b) ==
    /\ pc[b] = "purge"
    /\ faults < MaxFaults
    /\ faults' = faults + 1
    /\ hurt' = [hurt EXCEPT ![b] = TRUE]
    /\ \E left \in SUBSET rows[at[b]] : rows' = [rows EXCEPT ![at[b]] = left]
    /\ pc' = [pc EXCEPT ![b] = "create"]
    /\ UNCHANGED <<exists, artefacts, started, asked, loaded, at, todo, computed, red, off>>

\* CREATE TABLE IF NOT EXISTS over the same location.
Create(b) ==
    /\ pc[b] = "create"
    /\ exists' = [exists EXCEPT ![at[b]] = TRUE]
    /\ pc' = [pc EXCEPT ![b] = "check"]
    /\ UNCHANGED <<rows, artefacts, started, asked, loaded, at, todo, computed, red, off,
                   hurt, faults>>

\* Broken variant: rows on a freshly created table are not looked for.
CheckNothing(b) ==
    /\ pc[b] = "check"
    /\ exists[at[b]]
    /\ pc' = [pc EXCEPT ![b] = "insert"]
    /\ todo' = [todo EXCEPT ![b] = Chunks(b, at[b])]
    /\ UNCHANGED <<storage, artefacts, started, asked, loaded, at, computed, red, off,
                   hurt, faults>>

\* A freshly created table that shows no rows may be filled.
CheckEmpty(b) ==
    /\ pc[b] = "check"
    /\ exists[at[b]]
    /\ rows[at[b]] = {}
    /\ pc' = [pc EXCEPT ![b] = "insert"]
    /\ todo' = [todo EXCEPT ![b] = Chunks(b, at[b])]
    /\ UNCHANGED <<storage, artefacts, started, asked, loaded, at, computed, red, off,
                   hurt, faults>>

\* Otherwise "building on top of this would union two generations".
CheckStale(b) ==
    /\ pc[b] = "check"
    /\ exists[at[b]]
    /\ rows[at[b]] # {}
    /\ Ends(b, "crashed")
    /\ UNCHANGED <<storage, artefacts, started, asked, loaded, at, red, off, hurt, faults>>

\* What the statement for chunk c of t yields: an anti-join skips what earlier
\* chunks inserted; F6 and F7 join F5 on the model version, F7 joins F6.
Yields(t, c) ==
    /\ Role[t] = "antijoin" => c \notin Held(t)
    /\ \A d \in Reads[t] :
          /\ Role[d] = "forecast" => c \in Held(d)
          /\ Role[d] = "load" => rows[d] # {}

\* An INSERT reads: every table it names has to be there.
InsertReads(b) ==
    /\ pc[b] = "insert"
    /\ \A d \in Reads[at[b]] \cup {at[b]} : exists[d]
    /\ \E c \in todo[b] :
          /\ \A e \in todo[b] : c <= e
          /\ todo' = [todo EXCEPT ![b] = @ \ {c}]
          /\ computed' = [computed EXCEPT ![b] =
                IF Yields(at[b], c)
                   THEN {[chunk |-> c, build |-> b, fit |-> \A d \in Reads[at[b]] : Whole(d)]}
                   ELSE {}]
    /\ pc' = [pc EXCEPT ![b] = "commit"]
    /\ UNCHANGED <<storage, artefacts, started, asked, loaded, at, red, off, hurt, faults>>

\* Broken variant: the loop never gets past its first statement.
InsertCommitsAgain(b) ==
    /\ pc[b] = "commit"
    /\ exists[at[b]]
    /\ rows' = [rows EXCEPT ![at[b]] = @ \cup computed[b]]
    /\ computed' = [computed EXCEPT ![b] = {}]
    /\ todo' = [todo EXCEPT ![b] = Chunks(b, at[b])]
    /\ pc' = [pc EXCEPT ![b] = "insert"]
    /\ UNCHANGED <<exists, artefacts, started, asked, loaded, at, red, off, hurt, faults>>

\* ... and publishes its files when it commits.
InsertCommits(b) ==
    /\ pc[b] = "commit"
    /\ exists[at[b]]
    /\ rows' = [rows EXCEPT ![at[b]] = @ \cup computed[b]]
    /\ computed' = [computed EXCEPT ![b] = {}]
    /\ pc' = [pc EXCEPT ![b] = IF todo[b] = {} THEN "gates" ELSE "insert"]
    /\ UNCHANGED <<exists, artefacts, started, asked, loaded, at, todo, red, off,
                   hurt, faults>>

\* Broken variant: the gate on the total is a lower bound.
GatesPassAtLeast(b, t) ==
    /\ t \in Counted \ Drifted => Cardinality(rows[t]) >= Cardinality(Chunks(b, t))
    /\ Cardinality(Held(t)) = Cardinality(Chunks(b, t))

\* check_gates: total rows where they are pinned, and chunks or versions.
GatesPass(b, t) ==
    /\ t \in Counted \ Drifted => Cardinality(rows[t]) = Cardinality(Chunks(b, t))
    /\ Cardinality(Held(t)) = Cardinality(Chunks(b, t))

\* The gates have whole tables to count: the rows' own, and those they join.
Reliable(t) == (\A r \in rows[t] : r.fit) /\ \A d \in GateReads[t] : Whole(d)

\* The numbers measured off the sources are written down in the code: after a
\* drift a build of whole tables misses them, and any build may hit them.
PinsFail(b) ==
    \E fail \in BOOLEAN :
        /\ fail => at[b] \in Drifted
        /\ off' = [off EXCEPT ![b] = @ \/ fail]

\* Broken variant: the next table's SELECTs are not composed.
GatesSkipSelect(b) ==
    /\ pc[b] = "gates"
    /\ \A d \in GateReads[at[b]] \cup {at[b]} : exists[d]
    /\ red' = [red EXCEPT ![b] = @ \/ ~GatesPass(b, at[b])]
    /\ PinsFail(b)
    /\ at' = [at EXCEPT ![b] = @ + 1]
    /\ pc' = [pc EXCEPT ![b] = "drop"]
    /\ UNCHANGED <<storage, artefacts, started, asked, loaded, todo, computed, hurt,
                   faults>>

\* A failed gate is collected.  When the tables behind the numbers were not
\* whole, other numbers may be wrong too.
Gates(b) ==
    /\ pc[b] = "gates"
    /\ \A d \in GateReads[at[b]] \cup {at[b]} : exists[d]
    /\ \E pass \in BOOLEAN :
          /\ pass => GatesPass(b, at[b])
          /\ Reliable(at[b]) /\ GatesPass(b, at[b]) => pass
          /\ red' = [red EXCEPT ![b] = @ \/ ~pass]
    /\ PinsFail(b)
    /\ at' = [at EXCEPT ![b] = @ + 1]
    /\ pc' = [pc EXCEPT ![b] = "select"]
    /\ UNCHANGED <<storage, artefacts, started, asked, loaded, todo, computed, hurt,
                   faults>>

\* Broken variant: the loop stops one table short.
FinishEarly(b) ==
    /\ pc[b] = "select"
    /\ at[b] >= NumTables
    /\ Ends(b, IF red[b] \/ off[b] THEN "red" ELSE "green")
    /\ UNCHANGED <<storage, artefacts, started, asked, loaded, at, red, off, hurt, faults>>

\* All tables are done: exit 0 if every gate was green, exit 1 otherwise.
Finish(b) ==
    /\ pc[b] = "select"
    /\ at[b] \notin Tables
    /\ Ends(b, IF red[b] \/ off[b] THEN "red" ELSE "green")
    /\ UNCHANGED <<storage, artefacts, started, asked, loaded, at, red, off, hurt, faults>>

\* A statement names a table that is not there (never built, or dropped).
TableMissing(b) ==
    /\ \/ pc[b] \in {"check", "commit"} /\ ~exists[at[b]]
       \/ pc[b] = "gates" /\ \E d \in GateReads[at[b]] \cup {at[b]} : ~exists[d]
       \/ pc[b] = "insert" /\ \E d \in Reads[at[b]] \cup {at[b]} : ~exists[d]
    /\ Ends(b, "crashed")
    /\ UNCHANGED <<storage, artefacts, started, asked, loaded, at, red, off, hurt, faults>>

\* A statement or request fails, or the process dies, the INSERT in flight
\* being abandoned or just committed.
Crash(b) ==
    /\ Running(b)
    /\ faults < MaxFaults
    /\ faults' = faults + 1
    /\ hurt' = [hurt EXCEPT ![b] = TRUE]
    /\ Ends(b, "crashed")
    /\ \/ UNCHANGED rows
       \/ /\ pc[b] = "commit"
          /\ exists[at[b]]
          /\ rows' = [rows EXCEPT ![at[b]] = @ \cup computed[b]]
    /\ UNCHANGED <<exists, artefacts, started, asked, loaded, at, red, off>>

Step(b) ==
    \/ Skip(b)
    \/ Select(b)
    \/ Refuse(b)
    \/ Drop(b)
    \/ Purge(b)
    \/ Create(b)
    \/ CheckEmpty(b)
    \/ CheckStale(b)
    \/ InsertReads(b)
    \/ InsertCommits(b)
    \/ Gates(b)
    \/ Finish(b)
    \/ TableMissing(b)

Next ==
    \/ Train
    \/ \E b \in Builds, sel \in Selections, v \in {0} \cup Versions : Start(b, sel, v)
    \/ \E b \in Builds : Step(b) \/ PurgeLeaves(b) \/ Crash(b)

Spec == Init /\ [][Next]_vars

\* A build that runs takes its steps.
FairSpec == Spec /\ \A b \in Builds : WF_vars(Step(b))

-----------------------------------------------------------------------------
(* Properties.                                                             *)

\* Every variable ranges over the values the build can give it.
TypeOK ==
    /\ exists \in [Tables -> BOOLEAN]
    /\ rows \in [Tables -> SUBSET Row]
    /\ artefacts \in SUBSET Versions
    /\ started \in 0..MaxBuilds
    /\ selected \in [Builds -> SUBSET Tables]
    /\ wanted \in [Builds -> {0} \cup Versions]
    /\ loaded \in [Builds -> SUBSET Versions]
    /\ pc \in [Builds -> {"new", "select", "drop", "purge", "create", "check", "insert",
                          "commit", "gates", "green", "red", "refused", "crashed"}]
    /\ at \in [Builds -> 1..(NumTables + 1)]
    /\ \A b \in Builds : pc[b] \in {"drop", "purge", "create", "check", "insert", "commit",
                                    "gates"} => at[b] \in Tables
    /\ todo \in [Builds -> SUBSET Nat]
    /\ computed \in [Builds -> SUBSET Row]
    /\ red \in [Builds -> BOOLEAN]
    /\ off \in [Builds -> BOOLEAN]
    /\ hurt \in [Builds -> BOOLEAN]
    /\ faults \in 0..MaxFaults

\* No table ever shows, or hides under its prefix, rows of two builds, wherever
\* a build died and whatever the purge left behind: what the stale check is for.
\* (While builds do not overlap.)
OneGeneration ==
    \A t \in Tables : \A r, s \in rows[t] : r.build = s.build

\* b ended green and is the last build started.
GreenLast(b) == pc[b] = "green" /\ b = started

\* The last build, when green, leaves in every table it was asked for each of
\* its chunks once and nothing else; a build of all tables leaves them whole,
\* computed from one another as they are now.
GreenMeansWhole ==
    \A b \in Builds : GreenLast(b) =>
        /\ \A t \in selected[b] :
              /\ exists[t]
              /\ Held(t) = Chunks(b, t)
              /\ \A r \in rows[t] : r.build = b
        /\ selected[b] = Tables => \A t \in Tables : Whole(t)

\* "A rebuild is idempotent, so fix the cause and re-run": a build of all
\* tables that no fault strikes never crashes, whatever earlier builds left and
\* whenever a model is trained; unless it is refused for its version it leaves
\* every table whole, and it is red for nothing but measured numbers the
\* sources have left, which no rebuild can repair.
RebuildRepairs ==
    \A b \in Builds : selected[b] = Tables /\ ~hurt[b] =>
        /\ pc[b] # "crashed" /\ ~red[b]
        /\ pc[b] = "red" => off[b]
        /\ b = started /\ pc[b] \in {"green", "red"} => \A t \in Tables : Whole(t)

\* "No version lost in the rebuild": when the last build is green and rebuilt
\* the forecasts, every version an earlier build read is still in F5.
VersionsKept ==
    \A a, b \in Builds, t \in Tables :
        a < b /\ GreenLast(b) /\ t \in selected[b] /\ Role[t] = "forecast" =>
            loaded[a] \subseteq Held(t)

\* "Every version in F5 was backtested": after a green build of F7, and until
\* F5 or F7 is rebuilt, F7 has the versions F5 has.
BacktestsCoverForecasts ==
    \A b \in Builds, f5, f7 \in Tables :
        /\ Role[f5] = "forecast" /\ Role[f7] = "recommendation"
        /\ pc[b] = "green" /\ f7 \in selected[b]
        /\ \A a \in Builds : a > b => selected[a] \cap {f5, f7} = {}
        => Held(f7) = Held(f5)

\* Builds that overlapped and all ended green, each checking its own count,
\* have left every table whose count is sure complete: each chunk once, of one
\* build.
GreenTogetherMeansComplete ==
    \A t \in Counted \ Drifted :
        /\ \E b \in Builds : t \in selected[b]
        /\ \A b \in Builds : t \in selected[b] => pc[b] = "green"
        => \E b \in Builds : Held(t) = Chunks(b, t) /\ \A r \in rows[t] : r.build = b

\* A build that was started ends.
BuildEnds == \A b \in Builds : Running(b) ~> ~Running(b)
=============================================================================
