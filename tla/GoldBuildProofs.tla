--------------------------- MODULE GoldBuildProofs ---------------------------
(* Theorems about GoldBuild, for every list of tables, number of builds,       *)
(* trained models and faults.                                                  *)
EXTENDS GoldBuild, FiniteSetTheorems, TLAPS

LEMMA ChunksAreNat ==
    ASSUME TypeOK, NEW b \in Builds, NEW t \in Tables
    PROVE  Chunks(b, t) \subseteq Nat
  BY GoldAssumption DEF TypeOK, Chunks, Serving, Versions, Roles

LEMMA TypeInit == Init => TypeOK
  <1> SUFFICES ASSUME Init
               PROVE  TypeOK
    OBVIOUS
  <1>1. faults \in 0..MaxFaults /\ started \in 0..MaxBuilds
    BY GoldAssumption DEF Init
  <1>2. at \in [Builds -> 1..(NumTables + 1)]
    BY GoldAssumption DEF Init
  <1>3. /\ exists \in [Tables -> BOOLEAN]
        /\ red \in [Builds -> BOOLEAN]
        /\ off \in [Builds -> BOOLEAN]
        /\ hurt \in [Builds -> BOOLEAN]
    BY DEF Init
  <1>4. QED
    BY <1>1, <1>2, <1>3 DEF Init, TypeOK

LEMMA TypeStep ==
    ASSUME TypeOK, [Next]_vars
    PROVE  TypeOK'
  <1> USE DEF TypeOK, storage, asked, build
  <1>1. CASE Train
    BY <1>1 DEF Train
  <1>2. ASSUME NEW b \in Builds, NEW sel \in Selections, NEW v \in {0} \cup Versions,
               Start(b, sel, v)
        PROVE  TypeOK'
    <2>1. sel \in SUBSET Tables
      BY GoldAssumption
    <2>3. started' \in 0..MaxBuilds
      BY <1>2, GoldAssumption DEF Start, Builds
    <2>4. /\ selected' \in [Builds -> SUBSET Tables]
          /\ wanted' \in [Builds -> {0} \cup Versions]
      BY <1>2, <2>1 DEF Start
    <2>5. QED
      BY <1>2, <2>3, <2>4 DEF Start
  <1>3. ASSUME NEW b \in Builds, Select(b)
        PROVE  TypeOK'
    <2>1. loaded' \in [Builds -> SUBSET Versions]
      BY <1>3 DEF Select, Load
    <2>2. QED
      BY <1>3, <2>1 DEF Select
  <1>4. ASSUME NEW b \in Builds, Refuse(b)
        PROVE  TypeOK'
    <2>1. loaded' \in [Builds -> SUBSET Versions]
      BY <1>4 DEF Refuse, Load
    <2>2. QED
      BY <1>4, <2>1 DEF Refuse, Ends
  <1>5. ASSUME NEW b \in Builds, Drop(b)
        PROVE  TypeOK'
    BY <1>5 DEF Drop
  <1>6. ASSUME NEW b \in Builds, Purge(b)
        PROVE  TypeOK'
    BY <1>6 DEF Purge
  <1>7. ASSUME NEW b \in Builds, PurgeLeaves(b)
        PROVE  TypeOK'
    <2>1. rows' \in [Tables -> SUBSET Row]
      BY <1>7 DEF PurgeLeaves
    <2>2. faults' \in 0..MaxFaults
      BY <1>7, GoldAssumption DEF PurgeLeaves
    <2>3. QED
      BY <1>7, <2>1, <2>2 DEF PurgeLeaves
  <1>8. ASSUME NEW b \in Builds, Create(b)
        PROVE  TypeOK'
    BY <1>8 DEF Create
  <1>9. ASSUME NEW b \in Builds, CheckEmpty(b)
        PROVE  TypeOK'
    <2>1. todo' \in [Builds -> SUBSET Nat]
      BY <1>9, ChunksAreNat DEF CheckEmpty
    <2>2. QED
      BY <1>9, <2>1 DEF CheckEmpty
  <1>10. ASSUME NEW b \in Builds, CheckStale(b)
         PROVE  TypeOK'
    BY <1>10 DEF CheckStale, Ends
  <1>11. ASSUME NEW b \in Builds, InsertReads(b)
         PROVE  TypeOK'
    <2>1. todo' \in [Builds -> SUBSET Nat]
      BY <1>11 DEF InsertReads
    <2>2. computed' \in [Builds -> SUBSET Row]
      <3> DEFINE fit == \A d \in Reads[at[b]] : Whole(d)
      <3>1. fit \in BOOLEAN
        OBVIOUS
      <3>2. PICK c \in todo[b] :
               computed' = [computed EXCEPT ![b] =
                  IF Yields(at[b], c)
                     THEN {[chunk |-> c, build |-> b, fit |-> fit]} ELSE {}]
        BY <1>11 DEF InsertReads
      <3> HIDE DEF fit
      <3>3. [chunk |-> c, build |-> b, fit |-> fit] \in Row
        BY <3>1, <3>2 DEF Row
      <3> QED
        BY <3>2, <3>3
    <2>3. QED
      BY <1>11, <2>1, <2>2 DEF InsertReads
  <1>12. ASSUME NEW b \in Builds, InsertCommits(b)
         PROVE  TypeOK'
    BY <1>12 DEF InsertCommits
  <1>13. ASSUME NEW b \in Builds, Gates(b)
         PROVE  TypeOK'
    <2>1. at' \in [Builds -> 1..(NumTables + 1)]
      BY <1>13, GoldAssumption DEF Gates, Tables
    <2>2. red' \in [Builds -> BOOLEAN]
      BY <1>13 DEF Gates
    <2>3. off' \in [Builds -> BOOLEAN]
      BY <1>13 DEF Gates, PinsFail
    <2>4. QED
      BY <1>13, <2>1, <2>2, <2>3 DEF Gates
  <1>14. ASSUME NEW b \in Builds, Finish(b) \/ TableMissing(b)
         PROVE  TypeOK'
    BY <1>14 DEF Finish, TableMissing, Ends
  <1>15. ASSUME NEW b \in Builds, Crash(b)
         PROVE  TypeOK'
    <2>1. rows' \in [Tables -> SUBSET Row]
      BY <1>15 DEF Crash
    <2>2. faults' \in 0..MaxFaults
      BY <1>15, GoldAssumption DEF Crash
    <2>3. QED
      BY <1>15, <2>1, <2>2 DEF Crash, Ends
  <1>16. ASSUME NEW b \in Builds, Skip(b)
         PROVE  TypeOK'
    BY <1>16, GoldAssumption DEF Skip, Tables
  <1>17. CASE UNCHANGED vars
    BY <1>17 DEF vars
  <1>18. QED
    BY <1>1, <1>2, <1>3, <1>4, <1>5, <1>6, <1>7, <1>8, <1>9, <1>10, <1>11, <1>12, <1>13,
       <1>14, <1>15, <1>16, <1>17
    DEF Next, Step

\* Every variable of the build keeps its type.
THEOREM GoldTypeCorrect == Spec => []TypeOK
  BY TypeInit, TypeStep, PTL DEF Spec

-----------------------------------------------------------------------------
(* Builds that do not overlap.  One build runs, the last one started, and from *)
(* the stale check on whatever its table holds, or is about to, is its own.    *)

SoleRunner == \A b \in Builds : Running(b) => b = started

Filling(b) == pc[b] \in {"insert", "commit", "gates"}

OwnRows ==
    \A b \in Builds :
        /\ Filling(b) => \A r \in rows[at[b]] : r.build = b
        /\ pc[b] = "commit" => \A r \in computed[b] : r.build = b

GenerationInv == TypeOK /\ SoleRunner /\ OwnRows /\ OneGeneration

LEMMA GenerationInit == Init => GenerationInv
  BY TypeInit DEF Init, GenerationInv, SoleRunner, Running, OwnRows, Filling, OneGeneration

LEMMA SoleRunnerStep ==
    ASSUME GenerationInv, [Next]_vars, ~Overlap
    PROVE  SoleRunner'
  <1> USE DEF GenerationInv, TypeOK, SoleRunner, Running, storage, asked, build
  <1>1. CASE Train
    BY <1>1 DEF Train
  <1>2. ASSUME NEW b \in Builds, NEW sel \in Selections, NEW v \in {0} \cup Versions,
               Start(b, sel, v)
        PROVE  SoleRunner'
    BY <1>2 DEF Start
  <1>3. ASSUME NEW b \in Builds, Step(b) \/ PurgeLeaves(b) \/ Crash(b)
        PROVE  SoleRunner'
    <2>1. started' = started
      BY <1>3 DEF Step, Skip, Select, Refuse, Drop, Purge, PurgeLeaves, Create, CheckEmpty,
                  CheckStale, InsertReads, InsertCommits, Gates, Finish, TableMissing, Crash
    <2>2. Running(b)
      BY <1>3 DEF Step, Skip, Select, Refuse, Drop, Purge, PurgeLeaves, Create, CheckEmpty,
                  CheckStale, InsertReads, InsertCommits, Gates, Finish, TableMissing, Crash
    <2>3. \A a \in Builds \ {b} : pc'[a] = pc[a]
      BY <1>3 DEF Step, Skip, Select, Refuse, Drop, Purge, PurgeLeaves, Create, CheckEmpty,
                  CheckStale, InsertReads, InsertCommits, Gates, Finish, TableMissing, Crash,
                  Ends
    <2>4. QED
      BY <2>1, <2>2, <2>3
  <1>4. CASE UNCHANGED vars
    BY <1>4 DEF vars
  <1>5. QED
    BY <1>1, <1>2, <1>3, <1>4 DEF Next

\* A step of b leaves the other builds' rows alone, b being the only one to run.
LEMMA OwnRowsStep ==
    ASSUME GenerationInv, [Next]_vars, ~Overlap
    PROVE  OwnRows' /\ OneGeneration'
  <1> USE DEF GenerationInv, TypeOK, SoleRunner, Running, OwnRows, Filling, OneGeneration,
              storage, asked, build
  <1>1. CASE Train
    BY <1>1 DEF Train
  <1>2. ASSUME NEW b \in Builds, NEW sel \in Selections, NEW v \in {0} \cup Versions,
               Start(b, sel, v)
        PROVE  OwnRows' /\ OneGeneration'
    BY <1>2 DEF Start
  <1>3. ASSUME NEW b \in Builds, Skip(b) \/ Select(b) \/ Refuse(b) \/ Drop(b) \/ Create(b)
                                 \/ CheckStale(b) \/ Gates(b) \/ Finish(b) \/ TableMissing(b)
        PROVE  OwnRows' /\ OneGeneration'
    <2>1. UNCHANGED rows
      BY <1>3 DEF Skip, Select, Refuse, Drop, Create, CheckStale, Gates, Finish, TableMissing
    <2>2. ~Filling(b)'
      BY <1>3 DEF Skip, Select, Refuse, Drop, Create, CheckStale, Gates, Finish, TableMissing,
                  Ends
    <2>3. \A a \in Builds \ {b} : pc'[a] = pc[a] /\ at'[a] = at[a] /\ computed'[a] = computed[a]
      BY <1>3 DEF Skip, Select, Refuse, Drop, Create, CheckStale, Gates, Finish, TableMissing,
                  Ends
    <2>4. QED
      BY <2>1, <2>2, <2>3
  <1>4. ASSUME NEW b \in Builds, Purge(b) \/ PurgeLeaves(b)
        PROVE  OwnRows' /\ OneGeneration'
    <2>1. \A t \in Tables : rows'[t] \subseteq rows[t]
      BY <1>4 DEF Purge, PurgeLeaves
    <2>2. pc' = [pc EXCEPT ![b] = "create"] /\ UNCHANGED <<at, computed>>
      BY <1>4 DEF Purge, PurgeLeaves
    <2>3. QED
      BY <2>1, <2>2
  <1>5. ASSUME NEW b \in Builds, CheckEmpty(b)
        PROVE  OwnRows' /\ OneGeneration'
    BY <1>5 DEF CheckEmpty
  <1>6. ASSUME NEW b \in Builds, InsertReads(b)
        PROVE  OwnRows' /\ OneGeneration'
    <2>1. \A r \in computed'[b] : r.build = b
      BY <1>6 DEF InsertReads
    <2>2. /\ UNCHANGED <<rows, at>>
          /\ pc' = [pc EXCEPT ![b] = "commit"]
          /\ \A a \in Builds \ {b} : computed'[a] = computed[a]
          /\ pc[b] = "insert"
      BY <1>6 DEF InsertReads
    <2>3. QED
      BY <2>1, <2>2
  <1>7. ASSUME NEW b \in Builds, InsertCommits(b)
        PROVE  OwnRows' /\ OneGeneration'
    <2>1. /\ pc[b] = "commit" /\ UNCHANGED at
          /\ rows' = [rows EXCEPT ![at[b]] = @ \cup computed[b]]
          /\ pc'[b] # "commit"
          /\ \A a \in Builds \ {b} : pc'[a] = pc[a]
      BY <1>7 DEF InsertCommits
    <2>2. \A r \in rows'[at[b]] : r.build = b
      BY <2>1
    <2>3. OneGeneration'
      BY <2>1, <2>2
    <2>4. \A a \in Builds \ {b} : ~Filling(a)
      BY <2>1
    <2>5. OwnRows'
      BY <2>1, <2>2, <2>4
    <2>6. QED
      BY <2>3, <2>5
  <1>8. ASSUME NEW b \in Builds, Crash(b)
        PROVE  OwnRows' /\ OneGeneration'
    <2>1. \A a \in Builds : ~Filling(a)'
      BY <1>8 DEF Crash, Ends
    <2>2. OwnRows'
      BY <2>1
    <2>3. CASE UNCHANGED rows
      BY <2>2, <2>3
    <2>4. CASE pc[b] = "commit" /\ rows' = [rows EXCEPT ![at[b]] = @ \cup computed[b]]
      <3>1. \A r \in rows'[at[b]] : r.build = b
        BY <2>4
      <3>2. QED
        BY <2>2, <2>4, <3>1
    <2>5. QED
      BY <1>8, <2>3, <2>4 DEF Crash
  <1>9. CASE UNCHANGED vars
    BY <1>9 DEF vars
  <1>10. QED
    BY <1>1, <1>2, <1>3, <1>4, <1>5, <1>6, <1>7, <1>8, <1>9 DEF Next, Step

\* Builds that do not overlap never leave rows of two builds in one table,
\* whichever of them died and whatever a purge left behind.
THEOREM GenerationSafe ==
    ASSUME ~Overlap
    PROVE  Spec => []OneGeneration
  <1>1. Init => GenerationInv
    BY GenerationInit
  <1>2. GenerationInv /\ [Next]_vars => GenerationInv'
    BY TypeStep, SoleRunnerStep, OwnRowsStep DEF GenerationInv
  <1>3. GenerationInv => OneGeneration
    BY DEF GenerationInv
  <1>4. QED
    BY <1>1, <1>2, <1>3, PTL DEF Spec

-----------------------------------------------------------------------------
(* What a build has behind it.  A build at work on a table has composed its      *)
(* chunks; the rows it has inserted are of these chunks; and every table it is   *)
(* past, as long as no gate has failed, holds each of them.                      *)

AtWork(b) ==
    pc[b] \in {"drop", "purge", "create", "check", "insert", "commit", "gates"}

\* The last build, while it may still get through its tables or has.
Live(b) == b = started /\ (Running(b) \/ pc[b] \in {"green", "red"})

NotStarted ==
    \A b \in Builds : b > started =>
        /\ pc[b] = "new" /\ at[b] = 1
        /\ selected[b] = {} /\ loaded[b] = {} /\ ~red[b] /\ ~hurt[b]

EndedIsThrough ==
    \A b \in Builds :
        /\ pc[b] \in {"green", "red"} => at[b] = NumTables + 1
        /\ pc[b] = "green" => ~red[b]
        /\ pc[b] = "red" => red[b] \/ off[b]

Composed(b, t) ==
    /\ t \in selected[b]
    /\ FromArtefacts(t) => loaded[b] # {}
    /\ Chunks(b, t) # {}

WorkIsComposed == \A b \in Builds : AtWork(b) => Composed(b, at[b])

\* A later build that has read artefacts has read those of the earlier ones.
LoadedGrows ==
    /\ \A b \in Builds : loaded[b] \subseteq artefacts
    /\ \A a, b \in Builds : a < b /\ loaded[b] # {} => loaded[a] \subseteq loaded[b]

\* What is true of a row that b has inserted into t, as long as b goes well.
Drawn(b, t, r) ==
    /\ r.build = b
    /\ r.chunk \in Chunks(b, t)
    /\ Role[t] = "recommendation" =>
           \A d \in Tables : Role[d] = "forecast" => r.chunk \in Held(d)
    /\ selected[b] = Tables /\ ~red[b] => r.fit

InHand ==
    \A b \in Builds : Filling(b) =>
        /\ \A r \in rows[at[b]] : Drawn(b, at[b], r)
        /\ pc[b] = "commit" => \A r \in computed[b] : Drawn(b, at[b], r)
        /\ todo[b] \subseteq Chunks(b, at[b])

ForecastsAreLoaded ==
    \A t \in Tables : Role[t] = "forecast" =>
        \A r \in rows[t] : r.chunk \in loaded[r.build]

Complete(b, t) ==
    /\ exists[t]
    /\ Composed(b, t)
    /\ Held(t) = Chunks(b, t)
    /\ \A r \in rows[t] : Drawn(b, t, r)

BehindIsComplete ==
    \A b \in Builds : Live(b) /\ ~red[b] =>
        \A t \in selected[b] : t < at[b] => Complete(b, t)

Actions(b) == Step(b) \/ PurgeLeaves(b) \/ Crash(b)

\* What any step of b leaves alone.
LEMMA StepFrame ==
    ASSUME TypeOK, NEW b \in Builds, Actions(b)
    PROVE  /\ Running(b)
           /\ UNCHANGED <<artefacts, started, selected, wanted>>
           /\ \A a \in Builds \ {b} :
                 /\ pc'[a] = pc[a] /\ at'[a] = at[a] /\ loaded'[a] = loaded[a]
                 /\ todo'[a] = todo[a] /\ computed'[a] = computed[a]
                 /\ red'[a] = red[a] /\ off'[a] = off[a] /\ hurt'[a] = hurt[a]
           /\ \A t \in Tables \ {at[b]} : rows'[t] = rows[t] /\ exists'[t] = exists[t]
           /\ red[b] => red'[b]
           /\ hurt[b] => hurt'[b]
           /\ loaded'[b] # loaded[b] => loaded[b] = {} /\ pc[b] = "select"
           /\ loaded'[b] \in {loaded[b], artefacts}
           /\ pc[b] = "select" => UNCHANGED <<rows, exists>>
  <1> USE DEF TypeOK, storage, asked, build, Running
  <1>1. Running(b) /\ UNCHANGED <<artefacts, started, selected, wanted>>
    BY DEF Actions, Step, Skip, Select, Refuse, Drop, Purge, PurgeLeaves, Create, CheckEmpty,
           CheckStale, InsertReads, InsertCommits, Gates, Finish, TableMissing, Crash
  <1>2. ASSUME NEW a \in Builds \ {b}
        PROVE  /\ pc'[a] = pc[a] /\ at'[a] = at[a] /\ loaded'[a] = loaded[a]
               /\ todo'[a] = todo[a] /\ computed'[a] = computed[a]
               /\ red'[a] = red[a] /\ off'[a] = off[a] /\ hurt'[a] = hurt[a]
    BY DEF Actions, Step, Skip, Select, Refuse, Drop, Purge, PurgeLeaves, Create, CheckEmpty,
           CheckStale, InsertReads, InsertCommits, Gates, PinsFail, Finish, TableMissing, Crash,
           Ends
  <1>3. \A t \in Tables \ {at[b]} : rows'[t] = rows[t] /\ exists'[t] = exists[t]
    BY DEF Actions, Step, Skip, Select, Refuse, Drop, Purge, PurgeLeaves, Create, CheckEmpty,
           CheckStale, InsertReads, InsertCommits, Gates, Finish, TableMissing, Crash
  <1>4. (red[b] => red'[b]) /\ (hurt[b] => hurt'[b])
    BY DEF Actions, Step, Skip, Select, Refuse, Drop, Purge, PurgeLeaves, Create, CheckEmpty,
           CheckStale, InsertReads, InsertCommits, Gates, Finish, TableMissing, Crash, Ends
  <1>5. /\ loaded'[b] # loaded[b] => loaded[b] = {} /\ pc[b] = "select"
        /\ loaded'[b] \in {loaded[b], artefacts}
    BY DEF Actions, Step, Skip, Select, Refuse, Drop, Purge, PurgeLeaves, Create, CheckEmpty,
           CheckStale, InsertReads, InsertCommits, Gates, Finish, TableMissing, Crash, Ends, Load
  <1>6. pc[b] = "select" => UNCHANGED <<rows, exists>>
    BY DEF Actions, Step, Skip, Select, Refuse, Drop, Purge, PurgeLeaves, Create, CheckEmpty,
           CheckStale, InsertReads, InsertCommits, Gates, Finish, TableMissing, Crash, Ends
  <1>7. QED
    BY <1>1, <1>2, <1>3, <1>4, <1>5, <1>6

LEMMA NotStartedStep ==
    ASSUME TypeOK, NotStarted, [Next]_vars
    PROVE  NotStarted'
  <1> USE DEF NotStarted, storage, asked, build
  <1>1. CASE Train
    BY <1>1 DEF Train
  <1>2. ASSUME NEW b \in Builds, NEW sel \in Selections, NEW v \in {0} \cup Versions,
               Start(b, sel, v)
        PROVE  NotStarted'
    BY <1>2 DEF Start, TypeOK, Builds
  <1>3. ASSUME NEW b \in Builds, Actions(b)
        PROVE  NotStarted'
    <2>1. ~(b > started) /\ UNCHANGED <<started, selected>>
      BY <1>3, StepFrame DEF Running
    <2>2. ASSUME NEW a \in Builds \ {b}
          PROVE  /\ pc'[a] = pc[a] /\ at'[a] = at[a] /\ loaded'[a] = loaded[a]
                 /\ red'[a] = red[a] /\ hurt'[a] = hurt[a]
      BY <1>3, StepFrame
    <2>3. QED
      BY <2>1, <2>2
  <1>4. CASE UNCHANGED vars
    BY <1>4 DEF vars
  <1>5. QED
    BY <1>1, <1>2, <1>3, <1>4 DEF Next, Actions

LEMMA EndedStep ==
    ASSUME TypeOK, EndedIsThrough, [Next]_vars
    PROVE  EndedIsThrough'
  <1> USE DEF TypeOK, EndedIsThrough, storage, asked, build
  <1>1. CASE Train
    BY <1>1 DEF Train
  <1>2. ASSUME NEW b \in Builds, NEW sel \in Selections, NEW v \in {0} \cup Versions,
               Start(b, sel, v)
        PROVE  EndedIsThrough'
    BY <1>2 DEF Start
  <1>3. ASSUME NEW b \in Builds, Actions(b)
        PROVE  EndedIsThrough'
    <2>1. ASSUME pc'[b] \in {"green", "red"} PROVE Finish(b)
      BY <1>3, <2>1
      DEF Actions, Step, Skip, Select, Refuse, Drop, Purge, PurgeLeaves, Create, CheckEmpty,
          CheckStale, InsertReads, InsertCommits, Gates, Finish, TableMissing, Crash, Ends
    <2>2. ASSUME Finish(b)
          PROVE  /\ at'[b] = NumTables + 1
                 /\ pc'[b] = "green" => ~red'[b]
                 /\ pc'[b] = "red" => red'[b] \/ off'[b]
      BY <2>2, GoldAssumption DEF Finish, Ends, Tables
    <2>3. QED
      BY <1>3, <2>1, <2>2, StepFrame
  <1>4. CASE UNCHANGED vars
    BY <1>4 DEF vars
  <1>5. QED
    BY <1>1, <1>2, <1>3, <1>4 DEF Next, Actions

LEMMA LoadedGrowsStep ==
    ASSUME GenerationInv, NotStarted, LoadedGrows, [Next]_vars
    PROVE  LoadedGrows'
  <1> USE DEF GenerationInv, LoadedGrows, storage, asked, build
  <1>1. CASE Train
    BY <1>1 DEF Train
  <1>2. ASSUME NEW b \in Builds, NEW sel \in Selections, NEW v \in {0} \cup Versions,
               Start(b, sel, v)
        PROVE  LoadedGrows'
    BY <1>2 DEF Start
  <1>3. ASSUME NEW b \in Builds, Actions(b)
        PROVE  LoadedGrows'
    <2>1. b = started
      BY <1>3, StepFrame DEF SoleRunner
    <2>2. UNCHANGED artefacts /\ \A a \in Builds \ {b} : loaded'[a] = loaded[a]
      BY <1>3, StepFrame
    <2>3. loaded'[b] = loaded[b] \/ loaded'[b] = artefacts
      BY <1>3, StepFrame
    <2>4. \A c \in Builds : b < c => loaded[c] = {}
      BY <2>1 DEF NotStarted, TypeOK, Builds
    <2>5. \A c \in Builds : b < c => b # c
      BY DEF Builds
    <2>6. QED
      BY <2>2, <2>3, <2>4, <2>5
  <1>4. CASE UNCHANGED vars
    BY <1>4 DEF vars
  <1>5. QED
    BY <1>1, <1>2, <1>3, <1>4 DEF Next, Actions

LEMMA SelectComposes ==
    ASSUME TypeOK, NEW b \in Builds, Select(b)
    PROVE  Composed(b, at[b])' /\ UNCHANGED at
  <1> DEFINE t == at[b]
  <1>1. /\ t \in selected[b] /\ t \in Tables
        /\ UNCHANGED <<selected, wanted, at>>
        /\ loaded'[b] = Load(b, t) /\ Composable(b, t, Load(b, t))
    BY DEF Select, TypeOK, asked
  <1>2. FromArtefacts(t) => loaded'[b] # {}
    BY <1>1 DEF Composable
  <1>3. Role[t] = "load" /\ wanted[b] # 0 => wanted[b] \in loaded'[b]
    BY <1>1 DEF Composable
  <1>4. Role[t] \in Roles /\ NumChunks[t] \in Nat \ {0}
    BY <1>1, GoldAssumption
  <1>5. Chunks(b, t)' # {}
    <2>1. CASE Role[t] \in {"forecast", "recommendation"}
      BY <2>1, <1>1, <1>2 DEF Chunks, FromArtefacts
    <2>2. CASE Role[t] = "load"
      <3>1. Chunks(b, t)' = {v \in loaded'[b] : wanted[b] # 0 => v = wanted[b]}
        BY <2>2, <1>1 DEF Chunks, Serving
      <3>2. loaded'[b] # {}
        BY <1>2, <2>2 DEF FromArtefacts
      <3>3. CASE wanted[b] # 0
        BY <3>1, <1>3, <2>2, <3>3
      <3>4. CASE wanted[b] = 0
        BY <3>1, <3>2, <3>4
      <3>5. QED
        BY <3>3, <3>4
    <2>3. CASE Role[t] \notin {"forecast", "recommendation", "load"}
      <3>1. Chunks(b, t)' = 1..NumChunks[t]
        BY <2>3, <1>1, <1>4 DEF Chunks, Roles
      <3>2. 1 \in 1..NumChunks[t]
        BY <1>4
      <3>3. QED
        BY <3>1, <3>2
    <2>4. QED
      BY <2>1, <2>2, <2>3
  <1>6. QED
    BY <1>1, <1>2, <1>5 DEF Composed, FromArtefacts

\* What b has composed stays composed, of the same chunks.
LEMMA ComposedStays ==
    ASSUME TypeOK, NEW b \in Builds, Actions(b), NEW t \in Tables, Composed(b, t)
    PROVE  Composed(b, t)' /\ Chunks(b, t)' = Chunks(b, t)
  <1>1. UNCHANGED <<selected, wanted>> /\ (loaded[b] # {} => loaded'[b] = loaded[b])
    BY StepFrame
  <1>2. Role[t] \in Roles
    BY GoldAssumption
  <1>3. CASE loaded'[b] = loaded[b]
    BY <1>1, <1>3 DEF Composed, Chunks, Serving, FromArtefacts
  <1>4. CASE ~FromArtefacts(t)
    BY <1>1, <1>2, <1>4 DEF Composed, Chunks, FromArtefacts, Roles
  <1>5. QED
    BY <1>1, <1>3, <1>4 DEF Composed

LEMMA WorkIsComposedStep ==
    ASSUME GenerationInv, WorkIsComposed, [Next]_vars
    PROVE  WorkIsComposed'
  <1> USE DEF GenerationInv, WorkIsComposed, AtWork, storage, asked, build
  <1>1. CASE Train
    BY <1>1 DEF Train, Composed, Chunks, Serving, FromArtefacts
  <1>2. ASSUME NEW b \in Builds, NEW sel \in Selections, NEW v \in {0} \cup Versions,
               Start(b, sel, v)
        PROVE  WorkIsComposed'
    <2>1. \A a \in Builds \ {b} : /\ selected'[a] = selected[a] /\ wanted'[a] = wanted[a]
                                   /\ pc'[a] = pc[a]
      BY <1>2 DEF Start, TypeOK
    <2>2. UNCHANGED <<loaded, at>> /\ pc'[b] = "select"
      BY <1>2 DEF Start, TypeOK
    <2>3. ASSUME NEW a \in Builds \ {b}, AtWork(a)
          PROVE  Composed(a, at[a])'
      BY <2>1, <2>2, <2>3 DEF Composed, Chunks, Serving, FromArtefacts
    <2>4. QED
      BY <2>1, <2>2, <2>3
  <1>3. ASSUME NEW b \in Builds, Actions(b)
        PROVE  WorkIsComposed'
    <2>1. b = started /\ UNCHANGED started
      BY <1>3, StepFrame DEF SoleRunner
    <2>2. \A a \in Builds \ {b} : ~AtWork(a) /\ pc'[a] = pc[a]
      BY <2>1, <1>3, StepFrame DEF SoleRunner, Running
    <2>3. CASE Select(b)
      BY <2>2, <2>3, SelectComposes
    <2>4. CASE ~Select(b) /\ AtWork(b)'
      <3>1. AtWork(b) /\ UNCHANGED at
        BY <1>3, <2>4
        DEF Actions, Step, Skip, Select, Refuse, Drop, Purge, PurgeLeaves, Create, CheckEmpty,
            CheckStale, InsertReads, InsertCommits, Gates, Finish, TableMissing, Crash, Ends,
            TypeOK
      <3>2. at[b] \in Tables /\ Composed(b, at[b])
        BY <3>1 DEF TypeOK
      <3>3. Composed(b, at[b])'
        BY <3>1, <3>2, <1>3, ComposedStays
      <3>4. QED
        BY <2>2, <3>3
    <2>5. CASE ~AtWork(b)'
      BY <2>2, <2>5
    <2>6. QED
      BY <2>3, <2>4, <2>5
  <1>4. CASE UNCHANGED vars
    BY <1>4 DEF vars, Composed, Chunks, Serving, FromArtefacts
  <1>5. QED
    BY <1>1, <1>2, <1>3, <1>4 DEF Next, Actions

\* A row once drawn stays so: the forecasts it was checked against are behind b.
LEMMA DrawnStays ==
    ASSUME TypeOK, NEW b \in Builds, Actions(b), NEW t \in Tables, t <= at[b],
           Composed(b, t), NEW r, Drawn(b, t, r)
    PROVE  Drawn(b, t, r)'
  <1>1. UNCHANGED selected /\ (red[b] => red'[b]) /\ Chunks(b, t)' = Chunks(b, t)
    BY StepFrame, ComposedStays
  <1>2. ASSUME Role[t] = "recommendation", NEW d \in Tables, Role[d] = "forecast"
        PROVE  Held(d)' = Held(d)
    <2>1. d < t
      BY <1>2, GoldAssumption
    <2>2. d # at[b]
      BY <2>1 DEF TypeOK, Tables
    <2>3. QED
      BY <2>2, StepFrame DEF Held
  <1>3. red[b] \in BOOLEAN
    BY DEF TypeOK
  <1>4. QED
    BY <1>1, <1>2, <1>3 DEF Drawn

LEMMA CompleteStays ==
    ASSUME TypeOK, NEW b \in Builds, Actions(b), NEW t \in Tables, t < at[b], Complete(b, t)
    PROVE  Complete(b, t)'
  <1>1. t # at[b] /\ t <= at[b]
    BY DEF TypeOK, Tables
  <1>2. rows'[t] = rows[t] /\ exists'[t] = exists[t]
    BY <1>1, StepFrame
  <1>3. Composed(b, t)' /\ Chunks(b, t)' = Chunks(b, t)
    BY ComposedStays DEF Complete
  <1>4. \A r \in rows[t] : Drawn(b, t, r)'
    BY <1>1, DrawnStays DEF Complete
  <1>5. QED
    BY <1>2, <1>3, <1>4 DEF Complete, Held

LEMMA RowsAreChunks ==
    ASSUME TypeOK, NEW b \in Builds, NEW t \in Tables, Complete(b, t),
           selected[b] = Tables, ~red[b]
    PROVE  rows[t] = {[chunk |-> c, build |-> b, fit |-> TRUE] : c \in Chunks(b, t)}
  <1>1. \A r \in rows[t] : r \in Row /\ r.build = b /\ r.fit = TRUE /\ r.chunk \in Chunks(b, t)
    BY DEF Complete, Drawn, TypeOK, Row
  <1>2. \A r \in rows[t] : r = [chunk |-> r.chunk, build |-> b, fit |-> TRUE]
    BY <1>1 DEF Row
  <1>3. ASSUME NEW r \in rows[t]
        PROVE  r \in {[chunk |-> c, build |-> b, fit |-> TRUE] : c \in Chunks(b, t)}
    BY <1>1, <1>2
  <1>4. ASSUME NEW c \in Chunks(b, t)
        PROVE  [chunk |-> c, build |-> b, fit |-> TRUE] \in rows[t]
    <2>1. PICK r \in rows[t] : r.chunk = c
      BY DEF Complete, Held
    <2>2. QED
      BY <1>2, <2>1
  <1>5. QED
    BY <1>3, <1>4

LEMMA CompleteIsWhole ==
    ASSUME TypeOK, NEW b \in Builds, NEW t \in Tables, Complete(b, t),
           selected[b] = Tables, ~red[b]
    PROVE  Whole(t)
  <1>1. rows[t] # {}
    BY DEF Complete, Composed, Held
  <1>2. QED
    BY <1>1, RowsAreChunks DEF Whole, Complete

LEMMA ChunksAreFinite ==
    ASSUME TypeOK, NEW b \in Builds, NEW t \in Tables
    PROVE  IsFiniteSet(Chunks(b, t))
  <1>1. IsFiniteSet(loaded[b])
    <2>1. IsFiniteSet(Versions)
      BY GoldAssumption, FS_Interval DEF Versions
    <2>2. QED
      BY <2>1, FS_Subset DEF TypeOK
  <1>2. IsFiniteSet(Serving(b))
    BY <1>1, FS_Subset DEF Serving
  <1>3. IsFiniteSet(1..NumChunks[t])
    BY GoldAssumption, FS_Interval
  <1>4. QED
    BY <1>1, <1>2, <1>3 DEF Chunks

\* The table b has just counted, no gate having failed.
LEMMA CountedIsComplete ==
    ASSUME TypeOK, InHand, WorkIsComposed, NEW b \in Builds, Gates(b), ~red'[b],
           NEW t \in Tables, t = at[b]
    PROVE  Complete(b, t)'
  <1>1. /\ pc[b] = "gates" /\ exists[t]
        /\ UNCHANGED <<exists, rows, selected, wanted, loaded>>
    BY DEF Gates, storage, asked
  <1>2. GatesPass(b, t)
    BY DEF Gates, TypeOK
  <1>3. Composed(b, t) /\ \A r \in rows[t] : Drawn(b, t, r)
    BY <1>1 DEF InHand, Filling, WorkIsComposed, AtWork
  <1>4. Held(t) \subseteq Chunks(b, t)
    BY <1>3 DEF Held, Drawn
  <1>5. Held(t) = Chunks(b, t)
    BY <1>2, <1>4, ChunksAreFinite, FS_Subset DEF GatesPass
  <1>6. Actions(b) /\ t <= at[b]
    BY DEF Actions, Step, TypeOK, Tables
  <1>7. /\ Composed(b, t)' /\ Chunks(b, t)' = Chunks(b, t)
        /\ \A r \in rows[t] : Drawn(b, t, r)'
    BY <1>3, <1>6, ComposedStays, DrawnStays
  <1>8. QED
    BY <1>1, <1>5, <1>7 DEF Complete, Held

LEMMA ForecastsAreLoadedStep ==
    ASSUME GenerationInv, NotStarted, InHand, ForecastsAreLoaded, [Next]_vars
    PROVE  ForecastsAreLoaded'
  <1> USE DEF GenerationInv, ForecastsAreLoaded, storage, asked, build
  <1>1. CASE Train
    BY <1>1 DEF Train
  <1>2. ASSUME NEW b \in Builds, NEW sel \in Selections, NEW v \in {0} \cup Versions,
               Start(b, sel, v)
        PROVE  ForecastsAreLoaded'
    BY <1>2 DEF Start
  <1>3. ASSUME NEW b \in Builds, Actions(b)
        PROVE  ForecastsAreLoaded'
    <2>1. \A a \in Builds : loaded[a] \subseteq loaded'[a]
      BY <1>3, StepFrame
    <2>2. ASSUME NEW t \in Tables, Role[t] = "forecast", NEW r \in rows'[t]
          PROVE  r \in rows[t] \/ (t = at[b] /\ pc[b] = "commit" /\ r \in computed[b])
      BY <1>3, <2>2
      DEF Actions, Step, Skip, Select, Refuse, Drop, Purge, PurgeLeaves, Create, CheckEmpty,
          CheckStale, InsertReads, InsertCommits, Gates, Finish, TableMissing, Crash, TypeOK
    <2>3. ASSUME NEW t \in Tables, Role[t] = "forecast", t = at[b], pc[b] = "commit",
                 NEW r \in computed[b]
          PROVE  r.chunk \in loaded[r.build]
      BY <2>3 DEF InHand, Filling, Drawn, Chunks
    <2>4. ASSUME NEW t \in Tables, NEW r \in rows'[t]
          PROVE  r.build \in Builds
      BY <2>4, TypeStep DEF TypeOK, Row
    <2>5. QED
      BY <2>1, <2>2, <2>3, <2>4
  <1>4. CASE UNCHANGED vars
    BY <1>4 DEF vars
  <1>5. QED
    BY <1>1, <1>2, <1>3, <1>4 DEF Next, Actions

\* What a statement has computed is drawn from what is there.
LEMMA ReadsAreDrawn ==
    ASSUME GenerationInv, BehindIsComplete, InHand, WorkIsComposed,
           NEW b \in Builds, InsertReads(b)
    PROVE  \A r \in computed'[b] : Drawn(b, at[b], r)
  <1>1. PICK c \in todo[b] :
           computed' = [computed EXCEPT ![b] =
              IF Yields(at[b], c)
                 THEN {[chunk |-> c, build |-> b, fit |-> \A d \in Reads[at[b]] : Whole(d)]}
                 ELSE {}]
    BY DEF InsertReads
  <1>2. /\ pc[b] = "insert" /\ at[b] \in Tables /\ b = started /\ Running(b)
        /\ c \in Chunks(b, at[b])
    BY DEF InsertReads, GenerationInv, TypeOK, SoleRunner, Running, InHand, Filling
  <1>3. SUFFICES ASSUME NEW r \in computed'[b]
                 PROVE  Drawn(b, at[b], r)
    OBVIOUS
  <1>4. /\ Yields(at[b], c)
        /\ r = [chunk |-> c, build |-> b, fit |-> \A d \in Reads[at[b]] : Whole(d)]
    BY <1>1 DEF GenerationInv, TypeOK
  <1>5. ASSUME Role[at[b]] = "recommendation", NEW d \in Tables, Role[d] = "forecast"
        PROVE  c \in Held(d)
    <2>1. d \in Reads[at[b]]
      BY <1>2, <1>5, GoldAssumption
    <2>2. QED
      BY <1>4, <1>5, <2>1 DEF Yields
  <1>6. ASSUME selected[b] = Tables, ~red[b], NEW d \in Reads[at[b]]
        PROVE  Whole(d)
    <2>1. d \in Tables /\ d < at[b]
      BY <1>2, GoldAssumption
    <2>2. Complete(b, d)
      BY <1>2, <1>6, <2>1 DEF BehindIsComplete, Live
    <2>3. QED
      BY <1>6, <2>1, <2>2, CompleteIsWhole DEF GenerationInv
  <1>7. r.chunk = c /\ r.build = b /\ r.fit = \A d \in Reads[at[b]] : Whole(d)
    BY <1>4
  <1>8. QED
    BY <1>2, <1>5, <1>6, <1>7 DEF Drawn

\* What is said of a's work on t reads no more than these.
LEMMA WorkFrame ==
    ASSUME NEW a, NEW t, UNCHANGED <<rows, exists>>,
           selected'[a] = selected[a], wanted'[a] = wanted[a],
           loaded'[a] = loaded[a], red'[a] = red[a]
    PROVE  /\ Chunks(a, t)' = Chunks(a, t)
           /\ \A r : Drawn(a, t, r) => Drawn(a, t, r)'
           /\ Complete(a, t) => Complete(a, t)'
  <1>1. Serving(a)' = Serving(a)
    BY DEF Serving
  <1>2. Chunks(a, t)' = Chunks(a, t)
    BY <1>1 DEF Chunks
  <1>3. \A d : Held(d)' = Held(d)
    BY DEF Held
  <1>4. \A r : Drawn(a, t, r) => Drawn(a, t, r)'
    BY <1>2, <1>3 DEF Drawn
  <1>5. Complete(a, t) => Complete(a, t)'
    BY <1>2, <1>3, <1>4 DEF Complete, Composed, FromArtefacts
  <1>6. QED
    BY <1>2, <1>4, <1>5

LEMMA InHandStep ==
    ASSUME GenerationInv, BehindIsComplete, InHand, WorkIsComposed, [Next]_vars
    PROVE  InHand'
  <1> USE DEF GenerationInv, storage, asked, build
  <1>1. CASE Train
    <2>1. UNCHANGED <<storage, asked, build>>
      BY <1>1 DEF Train
    <2>2. ASSUME NEW a \in Builds, Filling(a)
          PROVE  /\ \A r \in rows[at[a]] : Drawn(a, at[a], r)'
                 /\ pc[a] = "commit" => \A r \in computed[a] : Drawn(a, at[a], r)'
                 /\ todo[a] \subseteq Chunks(a, at[a])'
      <3>1. PICK t : t = at[a] /\ t = at'[a]
        BY <2>1
      <3>2. /\ \A r \in rows[t] : Drawn(a, t, r)
            /\ pc[a] = "commit" => \A r \in computed[a] : Drawn(a, t, r)
            /\ todo[a] \subseteq Chunks(a, t)
        BY <2>2, <3>1 DEF InHand
      <3>3. /\ \A r \in rows[t] : Drawn(a, t, r)'
            /\ pc[a] = "commit" => \A r \in computed[a] : Drawn(a, t, r)'
            /\ todo[a] \subseteq Chunks(a, t)'
        BY <2>1, <3>2, WorkFrame
      <3>4. QED
        BY <3>1, <3>3
    <2>3. QED
      BY <2>1, <2>2 DEF InHand, Filling
  <1>2. ASSUME NEW b \in Builds, NEW sel \in Selections, NEW v \in {0} \cup Versions,
               Start(b, sel, v)
        PROVE  InHand'
    <2>1. pc'[b] = "select" /\ UNCHANGED <<rows, loaded, at, todo, computed, red>>
      BY <1>2 DEF Start, TypeOK
    <2>2. \A a \in Builds \ {b} : /\ pc'[a] = pc[a] /\ selected'[a] = selected[a]
                                   /\ wanted'[a] = wanted[a]
      BY <1>2 DEF Start, TypeOK
    <2>3. ASSUME NEW a \in Builds \ {b}, Filling(a)
          PROVE  /\ \A r \in rows[at[a]] : Drawn(a, at[a], r)'
                 /\ pc[a] = "commit" => \A r \in computed[a] : Drawn(a, at[a], r)'
                 /\ todo[a] \subseteq Chunks(a, at[a])'
      <3>1. PICK t : t = at[a] /\ t = at'[a]
        BY <2>1
      <3>2. /\ \A r \in rows[t] : Drawn(a, t, r)
            /\ pc[a] = "commit" => \A r \in computed[a] : Drawn(a, t, r)
            /\ todo[a] \subseteq Chunks(a, t)
        BY <2>3, <3>1 DEF InHand
      <3>3. UNCHANGED exists
        BY <1>2 DEF Start
      <3>4. /\ \A r \in rows[t] : Drawn(a, t, r)'
            /\ pc[a] = "commit" => \A r \in computed[a] : Drawn(a, t, r)'
            /\ todo[a] \subseteq Chunks(a, t)'
        BY <2>1, <2>2, <3>2, <3>3, WorkFrame
      <3>5. QED
        BY <3>1, <3>4
    <2>4. QED
      BY <2>1, <2>2, <2>3 DEF InHand, Filling
  <1>3. ASSUME NEW b \in Builds, Actions(b)
        PROVE  InHand'
    <2>1. b = started /\ \A a \in Builds \ {b} : ~Filling(a) /\ pc'[a] = pc[a]
      BY <1>3, StepFrame DEF SoleRunner, Running, Filling
    <2>2. CASE ~Filling(b)'
      BY <2>1, <2>2 DEF InHand, Filling
    <2>3. CASE Filling(b)'
      <3>1. CheckEmpty(b) \/ InsertReads(b) \/ InsertCommits(b)
        BY <1>3, <2>3, SMTT(20)
        DEF Actions, Step, Skip, Select, Refuse, Drop, Purge, PurgeLeaves, Create, CheckEmpty,
            CheckStale, InsertReads, InsertCommits, Gates, Finish, TableMissing, Crash, Ends,
            Filling, TypeOK
      <3>2. at'[b] = at[b] /\ at[b] \in Tables /\ Composed(b, at[b])
        BY <3>1 DEF CheckEmpty, InsertReads, InsertCommits, TypeOK, WorkIsComposed, AtWork
      <3>3. PICK t \in Tables : t = at[b]
        BY <3>2
      <3>4. t <= at[b] /\ Composed(b, t) /\ Chunks(b, t)' = Chunks(b, t)
        BY <3>2, <3>3, <1>3, ComposedStays DEF TypeOK, Tables
      <3>5. \A r : Drawn(b, t, r) => Drawn(b, t, r)'
        BY <3>4, <1>3, DrawnStays
      <3>6. /\ \A r \in rows'[t] : Drawn(b, t, r)
            /\ pc'[b] = "commit" => \A r \in computed'[b] : Drawn(b, t, r)
            /\ todo'[b] \subseteq Chunks(b, t)
        <4>1. CASE CheckEmpty(b)
          BY <4>1, <3>3 DEF CheckEmpty, TypeOK
        <4>2. CASE InsertReads(b)
          <5>1. \A r \in computed'[b] : Drawn(b, t, r)
            BY <4>2, <3>3, ReadsAreDrawn
          <5>2. Filling(b) /\ rows' = rows /\ todo'[b] \subseteq todo[b]
            BY <4>2 DEF InsertReads, Filling, TypeOK
          <5>3. QED
            BY <5>1, <5>2, <3>3 DEF InHand
        <4>3. CASE InsertCommits(b)
          <5>1. /\ Filling(b) /\ pc[b] = "commit" /\ pc'[b] # "commit"
                /\ rows'[t] = rows[t] \cup computed[b] /\ todo' = todo
            BY <4>3, <3>3 DEF InsertCommits, Filling, TypeOK
          <5>2. QED
            BY <5>1, <3>3 DEF InHand
        <4>4. QED
          BY <3>1, <4>1, <4>2, <4>3
      <3>7. /\ \A r \in rows'[t] : Drawn(b, t, r)'
            /\ pc'[b] = "commit" => \A r \in computed'[b] : Drawn(b, t, r)'
            /\ todo'[b] \subseteq Chunks(b, t)'
        BY <3>4, <3>5, <3>6
      <3>8. t = at'[b]
        BY <3>2, <3>3
      <3>9. QED
        BY <2>1, <3>7, <3>8 DEF InHand, Filling
    <2>4. QED
      BY <2>2, <2>3
  <1>4. CASE UNCHANGED vars
    <2>1. UNCHANGED <<storage, asked, build>>
      BY <1>4 DEF vars
    <2>2. ASSUME NEW a \in Builds, Filling(a)
          PROVE  /\ \A r \in rows[at[a]] : Drawn(a, at[a], r)'
                 /\ pc[a] = "commit" => \A r \in computed[a] : Drawn(a, at[a], r)'
                 /\ todo[a] \subseteq Chunks(a, at[a])'
      <3>1. PICK t : t = at[a] /\ t = at'[a]
        BY <2>1
      <3>2. /\ \A r \in rows[t] : Drawn(a, t, r)
            /\ pc[a] = "commit" => \A r \in computed[a] : Drawn(a, t, r)
            /\ todo[a] \subseteq Chunks(a, t)
        BY <2>2, <3>1 DEF InHand
      <3>3. /\ \A r \in rows[t] : Drawn(a, t, r)'
            /\ pc[a] = "commit" => \A r \in computed[a] : Drawn(a, t, r)'
            /\ todo[a] \subseteq Chunks(a, t)'
        BY <2>1, <3>2, WorkFrame
      <3>4. QED
        BY <3>1, <3>3
    <2>3. QED
      BY <2>1, <2>2 DEF InHand, Filling
  <1>5. QED
    BY <1>1, <1>2, <1>3, <1>4 DEF Next, Actions

LEMMA BehindIsCompleteStep ==
    ASSUME GenerationInv, NotStarted, BehindIsComplete, InHand, WorkIsComposed, [Next]_vars
    PROVE  BehindIsComplete'
  <1> USE DEF GenerationInv, storage, asked, build
  <1>1. CASE Train
    <2>1. UNCHANGED <<storage, started, asked, build>>
      BY <1>1 DEF Train
    <2>2. \A a \in Builds, t \in Tables : Complete(a, t) => Complete(a, t)'
      BY <2>1, WorkFrame
    <2>3. \A a \in Builds : selected[a] \subseteq Tables
      BY DEF TypeOK
    <2>4. QED
      BY <2>1, <2>2, <2>3 DEF BehindIsComplete, Live, Running
  <1>2. ASSUME NEW b \in Builds, NEW sel \in Selections, NEW v \in {0} \cup Versions,
               Start(b, sel, v)
        PROVE  BehindIsComplete'
    <2>1. started' = b /\ at'[b] = 1
      BY <1>2 DEF Start, NotStarted, TypeOK, Builds
    <2>2. \A t \in Tables : ~(t < 1)
      BY DEF Tables
    <2>3. selected'[b] \subseteq Tables
      BY <1>2, GoldAssumption DEF Start, TypeOK
    <2>4. QED
      BY <2>1, <2>2, <2>3 DEF BehindIsComplete, Live
  <1>3. ASSUME NEW b \in Builds, Actions(b)
        PROVE  BehindIsComplete'
    <2>1. b = started /\ Running(b) /\ UNCHANGED <<started, selected>> /\ (red[b] => red'[b])
      BY <1>3, StepFrame DEF SoleRunner
    <2>2. SUFFICES ASSUME ~red'[b], Live(b)', NEW t \in selected[b], t < at'[b]
                   PROVE  Complete(b, t)'
      BY <2>1 DEF BehindIsComplete, Live
    <2>3. t \in Tables
      BY DEF TypeOK
    <2>4. CASE t < at[b]
      BY <1>3, <2>1, <2>2, <2>3, <2>4, CompleteStays DEF BehindIsComplete, Live
    <2>5. CASE ~(t < at[b])
      <3>1. Skip(b) \/ Gates(b)
        BY <1>3, <2>2, <2>5
        DEF Actions, Step, Skip, Select, Refuse, Drop, Purge, PurgeLeaves, Create, CheckEmpty,
            CheckStale, InsertReads, InsertCommits, Gates, Finish, TableMissing, Crash
      <3>2. at'[b] = at[b] + 1
        BY <3>1 DEF Skip, Gates, TypeOK
      <3>3. t = at[b]
        BY <2>2, <2>3, <2>5, <3>2 DEF TypeOK, Tables
      <3>4. ~Skip(b)
        BY <3>3 DEF Skip
      <3>5. QED
        BY <2>2, <2>3, <3>1, <3>3, <3>4, CountedIsComplete
    <2>6. QED
      BY <2>4, <2>5
  <1>4. CASE UNCHANGED vars
    <2>1. UNCHANGED <<storage, started, asked, build>>
      BY <1>4 DEF vars
    <2>2. \A a \in Builds, t \in Tables : Complete(a, t) => Complete(a, t)'
      BY <2>1, WorkFrame
    <2>3. \A a \in Builds : selected[a] \subseteq Tables
      BY DEF TypeOK
    <2>4. QED
      BY <2>1, <2>2, <2>3 DEF BehindIsComplete, Live, Running
  <1>5. QED
    BY <1>1, <1>2, <1>3, <1>4 DEF Next, Actions

-----------------------------------------------------------------------------
BuildInv ==
    /\ GenerationInv
    /\ NotStarted
    /\ EndedIsThrough
    /\ WorkIsComposed
    /\ LoadedGrows
    /\ InHand
    /\ ForecastsAreLoaded
    /\ BehindIsComplete

LEMMA BuildInit == Init => BuildInv
  <1> SUFFICES ASSUME Init PROVE BuildInv
    OBVIOUS
  <1>1. \A b \in Builds : pc[b] = "new" /\ loaded[b] = {}
    BY DEF Init
  <1>2. NotStarted /\ EndedIsThrough /\ WorkIsComposed /\ LoadedGrows /\ InHand
    BY <1>1 DEF Init, NotStarted, EndedIsThrough, WorkIsComposed, AtWork, LoadedGrows, InHand,
                Filling
  <1>3. ForecastsAreLoaded
    BY DEF Init, ForecastsAreLoaded
  <1>4. BehindIsComplete
    BY <1>1 DEF BehindIsComplete, Live, Running
  <1>5. QED
    BY <1>2, <1>3, <1>4, GenerationInit DEF BuildInv

LEMMA BuildStep ==
    ASSUME BuildInv, [Next]_vars, ~Overlap
    PROVE  BuildInv'
  <1> USE DEF BuildInv
  <1>1. GenerationInv'
    BY TypeStep, SoleRunnerStep, OwnRowsStep DEF GenerationInv
  <1>2. NotStarted' /\ WorkIsComposed' /\ LoadedGrows'
    BY NotStartedStep, WorkIsComposedStep, LoadedGrowsStep DEF GenerationInv
  <1>3. EndedIsThrough'
    BY EndedStep DEF GenerationInv
  <1>4. InHand' /\ ForecastsAreLoaded' /\ BehindIsComplete'
    BY InHandStep, ForecastsAreLoadedStep, BehindIsCompleteStep
  <1>5. QED
    BY <1>1, <1>2, <1>3, <1>4

\* What a build that has just become green, or is the last one, has behind it.
LEMMA GreenIsComplete ==
    ASSUME BuildInv, NEW b \in Builds, GreenLast(b)
    PROVE  \A t \in selected[b] : Complete(b, t)
  <1>1. /\ pc[b] = "green" /\ b = started /\ ~red[b]
        /\ \A t \in selected[b] : t \in Tables /\ t < at[b]
    BY GoldAssumption DEF GreenLast, BuildInv, EndedIsThrough, GenerationInv, TypeOK, Tables
  <1>2. QED
    BY <1>1 DEF BuildInv, BehindIsComplete, Live

\* The last build, when green, leaves each of its tables with each of its chunks
\* once, of this build; a build of all tables leaves every table whole.
THEOREM GreenMeansWholeAlways ==
    ASSUME ~Overlap
    PROVE  Spec => []GreenMeansWhole
  <1>1. BuildInv => GreenMeansWhole
    <2> SUFFICES ASSUME BuildInv, NEW b \in Builds, GreenLast(b)
                 PROVE  /\ \A t \in selected[b] :
                              /\ exists[t]
                              /\ Held(t) = Chunks(b, t)
                              /\ \A r \in rows[t] : r.build = b
                        /\ selected[b] = Tables => \A t \in Tables : Whole(t)
      BY DEF GreenMeansWhole
    <2>1. \A t \in selected[b] : Complete(b, t)
      BY GreenIsComplete
    <2>2. ASSUME selected[b] = Tables, NEW t \in Tables
          PROVE  Whole(t)
      BY <2>1, <2>2, CompleteIsWhole
      DEF BuildInv, GenerationInv, EndedIsThrough, GreenLast
    <2>3. QED
      BY <2>1, <2>2 DEF Complete, Drawn
  <1>2. QED
    BY <1>1, BuildInit, BuildStep, PTL DEF Spec

\* No version of the forecasts is lost: what an earlier build read, the last
\* green build has rebuilt too, a training between the two notwithstanding.
THEOREM VersionsKeptAlways ==
    ASSUME ~Overlap
    PROVE  Spec => []VersionsKept
  <1>1. BuildInv => VersionsKept
    <2> SUFFICES ASSUME BuildInv, NEW a \in Builds, NEW b \in Builds, NEW t \in Tables,
                        a < b, GreenLast(b), t \in selected[b], Role[t] = "forecast"
                 PROVE  loaded[a] \subseteq Held(t)
      BY DEF VersionsKept
    <2>1. Held(t) = loaded[b] /\ loaded[b] # {}
      BY GreenIsComplete DEF Complete, Composed, Chunks, FromArtefacts
    <2>2. QED
      BY <2>1 DEF BuildInv, LoadedGrows
  <1>2. QED
    BY <1>1, BuildInit, BuildStep, PTL DEF Spec

\* Where F7 was backtested it holds the versions of F5: each of its rows joined
\* one of F5, and F5 has no version but those that this build read or an earlier.
LEMMA BacktestedBehind ==
    ASSUME BuildInv, NEW b \in Builds, Live(b), ~red[b], NEW f5 \in Tables, NEW f7 \in Tables,
           Role[f5] = "forecast", Role[f7] = "recommendation",
           f7 \in selected[b], f7 < at[b]
    PROVE  Held(f7) = Held(f5)
  <1>1. Complete(b, f7)
    BY DEF BuildInv, BehindIsComplete
  <1>2. Held(f7) = loaded[b] /\ loaded[b] # {}
    BY <1>1 DEF Complete, Composed, Chunks, FromArtefacts
  <1>3. Held(f7) \subseteq Held(f5)
    BY <1>1 DEF Complete, Drawn, Held
  <1>4. ASSUME NEW r \in rows[f5]
        PROVE  r.chunk \in loaded[b]
    <2>1. r.build \in Builds /\ r.chunk \in loaded[r.build]
      BY DEF BuildInv, GenerationInv, TypeOK, Row, ForecastsAreLoaded
    <2>2. ~(r.build > started)
      BY <2>1 DEF BuildInv, NotStarted
    <2>3. r.build = b \/ r.build < b
      BY <2>1, <2>2 DEF Live, BuildInv, GenerationInv, TypeOK, Builds
    <2>4. QED
      BY <1>2, <2>1, <2>3 DEF BuildInv, LoadedGrows
  <1>5. QED
    BY <1>2, <1>3, <1>4 DEF Held

LEMMA BacktestsStep ==
    ASSUME BuildInv, BacktestsCoverForecasts, [Next]_vars
    PROVE  BacktestsCoverForecasts'
  <1> USE DEF BuildInv, GenerationInv, storage, asked, build
  <1>1. ASSUME UNCHANGED <<rows, pc, selected>>
        PROVE  BacktestsCoverForecasts'
    BY <1>1 DEF BacktestsCoverForecasts, Held
  <1>2. ASSUME NEW a \in Builds, NEW sel \in Selections, NEW v \in {0} \cup Versions,
               Start(a, sel, v)
        PROVE  BacktestsCoverForecasts'
    <2>1. selected[a] = {} /\ pc[a] = "new"
      BY <1>2 DEF Start, NotStarted, TypeOK, Builds
    <2>2. /\ UNCHANGED rows /\ pc'[a] = "select"
          /\ \A b \in Builds \ {a} : pc'[b] = pc[b] /\ selected'[b] = selected[b]
      BY <1>2 DEF Start, TypeOK
    <2>3. \A c \in Builds : selected[c] \subseteq selected'[c]
      BY <2>1, <2>2
    <2>4. SUFFICES ASSUME NEW b \in Builds, NEW f5 \in Tables, NEW f7 \in Tables,
                          Role[f5] = "forecast", Role[f7] = "recommendation",
                          pc'[b] = "green", f7 \in selected'[b],
                          \A c \in Builds : c > b => selected'[c] \cap {f5, f7} = {}
                   PROVE  Held(f7)' = Held(f5)'
      BY DEF BacktestsCoverForecasts
    <2>5. pc[b] = "green" /\ f7 \in selected[b]
      BY <2>2, <2>4
    <2>6. \A c \in Builds : c > b => selected[c] \cap {f5, f7} = {}
      BY <2>3, <2>4
    <2>7. Held(f7) = Held(f5)
      BY <2>4, <2>5, <2>6 DEF BacktestsCoverForecasts
    <2>8. QED
      BY <2>2, <2>7 DEF Held
  <1>3. ASSUME NEW a \in Builds, Actions(a)
        PROVE  BacktestsCoverForecasts'
    <2>1. a = started /\ Running(a) /\ UNCHANGED <<selected, started>>
      BY <1>3, StepFrame DEF SoleRunner
    <2>2. SUFFICES ASSUME NEW b \in Builds, NEW f5 \in Tables, NEW f7 \in Tables,
                          Role[f5] = "forecast", Role[f7] = "recommendation",
                          pc'[b] = "green", f7 \in selected[b],
                          \A c \in Builds : c > b => selected[c] \cap {f5, f7} = {}
                   PROVE  Held(f7)' = Held(f5)'
      BY <2>1 DEF BacktestsCoverForecasts
    <2>3. CASE b = a
      <3>1. Finish(b) /\ ~red[b]
        BY <1>3, <2>1, <2>2, <2>3
        DEF Actions, Step, Skip, Select, Refuse, Drop, Purge, PurgeLeaves, Create, CheckEmpty,
            CheckStale, InsertReads, InsertCommits, Gates, Finish, TableMissing, Crash, Ends,
            Running, TypeOK
      <3>2. f7 < at[b] /\ UNCHANGED rows /\ Live(b)
        BY <2>1, <2>3, <3>1, GoldAssumption DEF Finish, Tables, TypeOK, Live
      <3>3. Held(f7) = Held(f5)
        BY <2>2, <3>1, <3>2, BacktestedBehind
      <3>4. QED
        BY <3>2, <3>3 DEF Held
    <2>4. CASE b # a
      <3>1. pc[b] = "green"
        BY <1>3, <2>2, <2>4, StepFrame
      <3>2. Held(f7) = Held(f5)
        BY <2>2, <3>1 DEF BacktestsCoverForecasts
      <3>3. a > b
        BY <2>1, <2>4, <3>1 DEF NotStarted, TypeOK, Builds
      <3>4. f5 \notin selected[a] /\ f7 \notin selected[a]
        BY <2>2, <3>3
      <3>5. CASE pc[a] = "select"
        BY <1>3, <3>2, <3>5, StepFrame DEF Held
      <3>6. CASE AtWork(a)
        <4>1. at[a] \in selected[a]
          BY <3>6 DEF WorkIsComposed, Composed
        <4>2. rows'[f5] = rows[f5] /\ rows'[f7] = rows[f7]
          BY <1>3, <3>4, <4>1, StepFrame
        <4>3. QED
          BY <3>2, <4>2 DEF Held
      <3>7. QED
        BY <2>1, <3>5, <3>6 DEF Running, AtWork
    <2>5. QED
      BY <2>3, <2>4
  <1>4. QED
    BY <1>1, <1>2, <1>3 DEF Next, Actions, Train, vars

\* After a green build of the backtests, and until F5 or F7 is selected again,
\* F7 has the versions F5 has, whatever else is built and trained meanwhile.
THEOREM BacktestsCoverForecastsAlways ==
    ASSUME ~Overlap
    PROVE  Spec => []BacktestsCoverForecasts
  <1>1. Init => BacktestsCoverForecasts
    BY DEF Init, BacktestsCoverForecasts
  <1>2. BuildInv /\ BacktestsCoverForecasts /\ [Next]_vars => BacktestsCoverForecasts'
    BY BacktestsStep
  <1>3. QED
    BY <1>1, <1>2, BuildInit, BuildStep, PTL DEF Spec

-----------------------------------------------------------------------------
(* A build of all tables that no fault strikes.  Its chunks are in its table, in *)
(* the statement in flight or still to come, each in one of these places only.   *)

Covered(b) ==
    /\ \A c \in Chunks(b, at[b]) :
          \/ c \in todo[b]
          \/ c \in Held(at[b])
          \/ pc[b] = "commit" /\ \E r \in computed[b] : r.chunk = c
    /\ todo[b] \cap Held(at[b]) = {}
    /\ pc[b] = "commit" => \A r \in computed[b] : r.chunk \notin todo[b]
    /\ pc[b] = "gates" => todo[b] = {}

Sound(b) ==
    /\ ~red[b]
    /\ pc[b] # "crashed"
    /\ pc[b] \in {"create", "check"} => rows[at[b]] = {}
    /\ pc[b] = "check" \/ Filling(b) => exists[at[b]]
    /\ Filling(b) => Covered(b)

UnhurtIsSound == \A b \in Builds : selected[b] = Tables /\ ~hurt[b] => Sound(b)

LEMMA EarlierComplete ==
    ASSUME BuildInv, NEW b \in Builds, Running(b), selected[b] = Tables, Sound(b),
           at[b] \in Tables, NEW d \in Reads[at[b]] \cup GateReads[at[b]]
    PROVE  d \in Tables /\ Complete(b, d) /\ Whole(d)
  <1>1. d \in Tables /\ d < at[b]
    BY GoldAssumption
  <1>2. Complete(b, d)
    BY <1>1 DEF BuildInv, GenerationInv, SoleRunner, BehindIsComplete, Live, Sound
  <1>3. QED
    BY <1>1, <1>2, CompleteIsWhole DEF BuildInv, GenerationInv, Sound

LEMMA ChunkYields ==
    ASSUME BuildInv, NEW b \in Builds, pc[b] = "insert", selected[b] = Tables, Sound(b),
           NEW c \in todo[b]
    PROVE  Yields(at[b], c)
  <1>1. Running(b) /\ at[b] \in Tables /\ c \in Chunks(b, at[b]) /\ c \notin Held(at[b])
    BY DEF Running, BuildInv, GenerationInv, TypeOK, InHand, Filling, Sound, Covered
  <1>2. ASSUME NEW d \in Reads[at[b]], Role[d] = "forecast"
        PROVE  c \in Held(d)
    <2>1. d \in Tables /\ Held(d) = loaded[b]
      BY <1>1, <1>2, EarlierComplete DEF Complete, Chunks
    <2>2. Role[at[b]] \in {"load", "recommendation"}
      BY <1>1, <1>2, <2>1, GoldAssumption
    <2>3. QED
      BY <1>1, <2>1, <2>2 DEF Chunks, Serving
  <1>3. ASSUME NEW d \in Reads[at[b]]
        PROVE  rows[d] # {}
    BY <1>1, <1>3, EarlierComplete DEF Whole
  <1>4. QED
    BY <1>1, <1>2, <1>3 DEF Yields

LEMMA GatesAreGreen ==
    ASSUME BuildInv, NEW b \in Builds, pc[b] = "gates", selected[b] = Tables, Sound(b)
    PROVE  GatesPass(b, at[b]) /\ Reliable(at[b])
  <1>1. PICK t \in Tables : t = at[b]
    BY DEF BuildInv, GenerationInv, TypeOK
  <1>2. Running(b) /\ Filling(b)
    BY DEF Running, Filling
  <1>3. Held(t) = Chunks(b, t)
    <2>1. \A c \in Chunks(b, t) : c \in Held(t)
      BY <1>1, <1>2 DEF Sound, Covered
    <2>2. Held(t) \subseteq Chunks(b, t)
      BY <1>1, <1>2 DEF BuildInv, InHand, Drawn, Held
    <2>3. QED
      BY <2>1, <2>2
  <1>4. Complete(b, t)
    BY <1>1, <1>2, <1>3 DEF BuildInv, InHand, WorkIsComposed, AtWork, Sound, Complete
  <1>5. Cardinality(rows[t]) = Cardinality(Chunks(b, t))
    <2> DEFINE row == [c \in Chunks(b, t) |-> [chunk |-> c, build |-> b, fit |-> TRUE]]
    <2>1. rows[t] = {row[c] : c \in Chunks(b, t)}
      BY <1>4, RowsAreChunks DEF BuildInv, GenerationInv, Sound
    <2>2. \A c, e \in Chunks(b, t) : row[c] = row[e] => c = e
      <3>1. \A c \in Chunks(b, t) : row[c].chunk = c
        OBVIOUS
      <3> HIDE DEF row
      <3>2. QED
        BY <3>1
    <2>3. row \in [Chunks(b, t) -> rows[t]]
      BY <2>1
    <2> HIDE DEF row
    <2>4. ExistsBijection(Chunks(b, t), rows[t])
      BY <2>1, <2>2, <2>3 DEF ExistsBijection, Bijection, Injection, Surjection, IsInjective
    <2>5. IsFiniteSet(Chunks(b, t))
      BY ChunksAreFinite DEF BuildInv, GenerationInv
    <2>6. QED
      BY <2>4, <2>5, FS_Bijection
  <1>6. GatesPass(b, t)
    BY <1>3, <1>5 DEF GatesPass
  <1>7. \A r \in rows[t] : r.fit
    BY <1>4 DEF Complete, Drawn, Sound
  <1>8. \A d \in GateReads[t] : Whole(d)
    BY <1>1, <1>2, EarlierComplete
  <1>9. QED
    BY <1>1, <1>6, <1>7, <1>8 DEF Reliable

\* What an unhurt build of all tables may do next, and what it cannot.
LEMMA SoundStep ==
    ASSUME BuildInv, NEW b \in Builds, Actions(b), selected[b] = Tables, Sound(b), ~hurt'[b]
    PROVE  Sound(b)'
  <1> USE DEF BuildInv, GenerationInv, storage, asked, build
  <1>1. Running(b) /\ b = started
    BY StepFrame DEF SoleRunner
  <1>2. ASSUME Skip(b) \/ CheckStale(b)
        PROVE  FALSE
    BY <1>2 DEF Skip, CheckStale, Sound
  <1>3. ASSUME PurgeLeaves(b) \/ Crash(b)
        PROVE  FALSE
    BY <1>3 DEF PurgeLeaves, Crash, TypeOK
  <1>4. ASSUME TableMissing(b)
        PROVE  FALSE
    <2>1. at[b] \in Tables
      BY <1>4 DEF TableMissing, TypeOK
    <2>2. \A d \in Reads[at[b]] \cup GateReads[at[b]] : exists[d]
      BY <1>1, <2>1, EarlierComplete DEF Complete
    <2>3. exists[at[b]]
      BY <1>4, <2>2 DEF TableMissing, Sound, Filling
    <2>4. QED
      BY <1>4, <2>2, <2>3 DEF TableMissing
  <1>5. CASE Select(b)
    BY <1>5 DEF Select, Sound, Filling, TypeOK
  <1>6. CASE Refuse(b) \/ Finish(b)
    BY <1>6 DEF Refuse, Finish, Ends, Sound, Filling, TypeOK
  <1>7. CASE Drop(b) \/ Purge(b) \/ Create(b)
    BY <1>7 DEF Drop, Purge, Create, Sound, Filling, TypeOK
  <1>8. CASE CheckEmpty(b) \/ InsertReads(b) \/ InsertCommits(b)
    <2>1. PICK t \in Tables : t = at[b]
      BY <1>8 DEF CheckEmpty, InsertReads, InsertCommits, TypeOK
    <2>2. /\ at'[b] = t /\ ~red'[b] /\ exists[t] /\ exists' = exists
          /\ pc'[b] \in {"insert", "commit", "gates"}
      BY <1>8, <2>1
      DEF CheckEmpty, InsertReads, InsertCommits, Sound, Filling, TypeOK
    <2>3. Chunks(b, t)' = Chunks(b, t)
      BY <1>8, <2>1, ComposedStays
      DEF CheckEmpty, InsertReads, InsertCommits, WorkIsComposed, AtWork
    <2>4. /\ \A c \in Chunks(b, t) :
                \/ c \in todo'[b]
                \/ c \in Held(t)'
                \/ pc'[b] = "commit" /\ \E r \in computed'[b] : r.chunk = c
          /\ todo'[b] \cap Held(t)' = {}
          /\ pc'[b] = "commit" => \A r \in computed'[b] : r.chunk \notin todo'[b]
          /\ pc'[b] = "gates" => todo'[b] = {}
      <3>1. CASE CheckEmpty(b)
        BY <2>1, <3>1 DEF CheckEmpty, TypeOK, Held
      <3>2. CASE InsertReads(b)
        <4>1. PICK c \in todo[b] :
                 /\ todo' = [todo EXCEPT ![b] = @ \ {c}]
                 /\ computed' = [computed EXCEPT ![b] =
                       IF Yields(t, c)
                          THEN {[chunk |-> c, build |-> b,
                                 fit |-> \A d \in Reads[t] : Whole(d)]}
                          ELSE {}]
          BY <2>1, <3>2 DEF InsertReads
        <4>2. pc[b] = "insert" /\ pc'[b] = "commit" /\ rows' = rows
          BY <3>2 DEF InsertReads, TypeOK
        <4>3. Yields(t, c)
          BY <2>1, <4>2, ChunkYields
        <4>4. todo'[b] = todo[b] \ {c}
          BY <4>1 DEF TypeOK
        <4>5. computed'[b] = {[chunk |-> c, build |-> b, fit |-> \A d \in Reads[t] : Whole(d)]}
          BY <4>1, <4>3 DEF TypeOK
        <4>6. \E r \in computed'[b] : r.chunk = c
          BY <4>5
        <4>7. \A r \in computed'[b] : r.chunk = c
          BY <4>5
        <4>8. Covered(b) /\ Held(t)' = Held(t)
          BY <4>2 DEF Sound, Filling, Held
        <4>9. QED
          BY <2>1, <4>2, <4>4, <4>6, <4>7, <4>8 DEF Covered
      <3>3. CASE InsertCommits(b)
        <4>1. /\ pc[b] = "commit" /\ todo' = todo /\ pc'[b] # "commit"
              /\ rows'[t] = rows[t] \cup computed[b]
              /\ pc'[b] = "gates" => todo[b] = {}
          BY <2>1, <3>3 DEF InsertCommits, TypeOK
        <4>2. Held(t)' = Held(t) \cup {r.chunk : r \in computed[b]}
          BY <4>1 DEF Held
        <4>3. Covered(b)
          BY <4>1 DEF Sound, Filling
        <4>4. QED
          BY <2>1, <4>1, <4>2, <4>3 DEF Covered
      <3>4. QED
        BY <1>8, <3>1, <3>2, <3>3
    <2>5. Covered(b)'
      BY <2>2, <2>3, <2>4 DEF Covered
    <2>6. QED
      BY <2>2, <2>5 DEF Sound
  <1>9. CASE Gates(b)
    <2>1. GatesPass(b, at[b]) /\ Reliable(at[b])
      BY <1>9, GatesAreGreen DEF Gates
    <2>2. ~red'[b] /\ pc'[b] = "select"
      BY <1>9, <2>1 DEF Gates, Sound, TypeOK
    <2>3. QED
      BY <2>2 DEF Sound, Filling
  <1>10. QED
    BY <1>2, <1>3, <1>4, <1>5, <1>6, <1>7, <1>8, <1>9 DEF Actions, Step

LEMMA UnhurtIsSoundStep ==
    ASSUME BuildInv, UnhurtIsSound, [Next]_vars
    PROVE  UnhurtIsSound'
  <1> USE DEF BuildInv, GenerationInv, storage, asked, build
  <1>1. ASSUME UNCHANGED <<storage, asked, build>>
        PROVE  UnhurtIsSound'
    <2>1. \A b \in Builds : Chunks(b, at[b])' = Chunks(b, at[b]) /\ Held(at[b])' = Held(at[b])
      BY <1>1 DEF Chunks, Serving, Held
    <2>2. QED
      BY <1>1, <2>1 DEF UnhurtIsSound, Sound, Covered, Filling
  <1>2. ASSUME NEW b \in Builds, NEW sel \in Selections, NEW v \in {0} \cup Versions,
               Start(b, sel, v)
        PROVE  UnhurtIsSound'
    <2>1. \A a \in Builds \ {b} : /\ pc'[a] = pc[a] /\ selected'[a] = selected[a]
                                   /\ wanted'[a] = wanted[a]
      BY <1>2 DEF Start, TypeOK
    <2>2. UNCHANGED <<storage, loaded, at, todo, computed, red, hurt>> /\ pc'[b] = "select"
      BY <1>2 DEF Start, TypeOK
    <2>3. ~red[b]
      BY <1>2 DEF Start, NotStarted, TypeOK, Builds
    <2>4. Sound(b)'
      BY <2>2, <2>3 DEF Sound, Filling
    <2>5. \A a \in Builds \ {b} : Chunks(a, at[a])' = Chunks(a, at[a]) /\ Held(at[a])' = Held(at[a])
      BY <2>1, <2>2 DEF Chunks, Serving, Held
    <2>6. \A a \in Builds \ {b} : Sound(a) => Sound(a)'
      BY <2>1, <2>2, <2>5 DEF Sound, Covered, Filling
    <2>7. QED
      BY <2>1, <2>2, <2>4, <2>6 DEF UnhurtIsSound
  <1>3. ASSUME NEW b \in Builds, Actions(b)
        PROVE  UnhurtIsSound'
    <2>1. /\ UNCHANGED selected /\ (hurt[b] => hurt'[b])
          /\ \A a \in Builds \ {b} : /\ pc'[a] = pc[a] /\ hurt'[a] = hurt[a]
                                      /\ red'[a] = red[a] /\ ~Running(a)
      BY <1>3, StepFrame DEF SoleRunner
    <2>2. ASSUME selected[b] = Tables, ~hurt'[b]
          PROVE  Sound(b)'
      BY <1>3, <2>1, <2>2, SoundStep DEF UnhurtIsSound, TypeOK
    <2>3. \A a \in Builds \ {b} : Sound(a) => Sound(a)'
      BY <2>1 DEF Sound, Filling, Running
    <2>4. QED
      BY <2>1, <2>2, <2>3 DEF UnhurtIsSound
  <1>4. QED
    BY <1>1, <1>2, <1>3 DEF Next, Actions, Train, vars

\* A build of all tables that no fault strikes never crashes; unless refused for
\* its version it leaves every table whole, whatever earlier builds left and
\* whenever a model is trained, and only drifted numbers can have it end red.
THEOREM RebuildRepairsAlways ==
    ASSUME ~Overlap
    PROVE  Spec => []RebuildRepairs
  <1>1. Init => UnhurtIsSound
    BY DEF Init, UnhurtIsSound, Sound, Filling
  <1>2. BuildInv /\ UnhurtIsSound /\ [Next]_vars => UnhurtIsSound'
    BY UnhurtIsSoundStep
  <1>3. BuildInv /\ UnhurtIsSound => RebuildRepairs
    <2> SUFFICES ASSUME BuildInv, UnhurtIsSound, NEW b \in Builds, selected[b] = Tables, ~hurt[b]
                 PROVE  /\ pc[b] # "crashed" /\ ~red[b]
                        /\ pc[b] = "red" => off[b]
                        /\ b = started /\ pc[b] \in {"green", "red"} =>
                               \A t \in Tables : Whole(t)
      BY DEF RebuildRepairs
    <2>1. pc[b] # "crashed" /\ ~red[b]
      BY DEF UnhurtIsSound, Sound
    <2>2. pc[b] = "red" => off[b]
      BY <2>1 DEF BuildInv, EndedIsThrough
    <2>3. ASSUME b = started, pc[b] \in {"green", "red"}, NEW t \in Tables
          PROVE  Whole(t)
      <3>1. t < at[b]
        BY <2>3, GoldAssumption DEF BuildInv, EndedIsThrough, Tables
      <3>2. Complete(b, t)
        BY <2>1, <2>3, <3>1 DEF BuildInv, BehindIsComplete, Live
      <3>3. QED
        BY <2>1, <3>2, CompleteIsWhole DEF BuildInv, GenerationInv
    <2>4. QED
      BY <2>1, <2>2, <2>3
  <1>4. QED
    BY <1>1, <1>2, <1>3, BuildInit, BuildStep, PTL DEF Spec

-----------------------------------------------------------------------------
(* Builds that overlap, and a counted table t built in plain chunks.  Of the     *)
(* builds that purged t one was the last.  Unless it has failed, each of its     *)
(* chunks is in t or still to come; and once its gates have passed, whoever else *)
(* has rows in t fails or has gates ahead that will count too many.              *)

Years(t) == 1..NumChunks[t]

Plain(t) ==
    /\ t \in Counted \ Drifted /\ Role[t] = "chunks"
    /\ \A d \in Reads[t] : Role[d] \notin {"forecast", "load"}

Failed(b) == red[b] \/ pc[b] \in {"red", "refused", "crashed"}

Contents(t) ==
    /\ IsFiniteSet(rows[t])
    /\ \A r \in rows[t] : r.chunk \in Years(t) /\ t \in selected[r.build]

Statements(t) ==
    \A b \in Builds : at[b] = t =>
        /\ AtWork(b) => t \in selected[b]
        /\ Filling(b) => todo[b] \subseteq Years(t)
        /\ pc[b] = "commit" =>
              /\ IsFiniteSet(computed[b])
              /\ \A r \in computed[b] : r.build = b /\ r.chunk \in Years(t)

Purged(b, t) ==
    /\ t \in selected[b]
    /\ \/ at[b] > t
       \/ at[b] = t /\ (pc[b] \in {"create", "check"} \/ Filling(b))

Placed(b, t, c) ==
    \/ \E r \in rows[t] : r.build = b /\ r.chunk = c
    \/ /\ at[b] = t
       /\ \/ pc[b] \in {"insert", "commit"} /\ c \in todo[b]
          \/ pc[b] = "commit" /\ \E r \in computed[b] : r.chunk = c

Doomed(a, t) == Failed(a) \/ (at[a] = t /\ Filling(a))

Owner(b, t) ==
    /\ t \in selected[b]
    /\ \/ Failed(b)
       \/ /\ Purged(b, t)
          /\ (at[b] = t /\ pc[b] \in {"create", "check"}) \/ \A c \in Years(t) : Placed(b, t, c)
          /\ at[b] > t => \A r \in rows[t] : r.build # b => Doomed(r.build, t)

Owned(t) == (\E b \in Builds : Purged(b, t)) => \E b \in Builds : Owner(b, t)

OverlapInv(t) == Contents(t) /\ Statements(t) /\ Owned(t)

LEMMA PlainChunks ==
    ASSUME NEW b, NEW t, Plain(t)
    PROVE  Chunks(b, t) = Years(t) /\ \A c : Yields(t, c)
  BY DEF Plain, Chunks, Years, Yields

\* As many rows as chunks, each chunk being there from b, are b's rows.
LEMMA CountMeansOnly ==
    ASSUME NEW t \in Tables, NEW b, IsFiniteSet(rows[t]),
           \A c \in Years(t) : \E r \in rows[t] : r.build = b /\ r.chunk = c,
           Cardinality(rows[t]) = Cardinality(Years(t))
    PROVE  \A r \in rows[t] : r.build = b
  <1> DEFINE row == [c \in Years(t) |-> CHOOSE r \in rows[t] : r.build = b /\ r.chunk = c]
             own == {row[c] : c \in Years(t)}
  <1>1. \A c \in Years(t) : row[c] \in rows[t] /\ row[c].build = b /\ row[c].chunk = c
    OBVIOUS
  <1> HIDE DEF row
  <1>2. row \in [Years(t) -> own] \/ row = [c \in Years(t) |-> row[c]]
    BY DEF row
  <1>3. row = [c \in Years(t) |-> row[c]]
    BY DEF row
  <1>4. row \in [Years(t) -> own]
    BY <1>3
  <1>5. \A c, e \in Years(t) : row[c] = row[e] => c = e
    BY <1>1
  <1>6. ExistsBijection(Years(t), own)
    BY <1>4, <1>5 DEF ExistsBijection, Bijection, Injection, Surjection, IsInjective
  <1>7. IsFiniteSet(Years(t))
    BY GoldAssumption, FS_Interval DEF Years
  <1>8. Cardinality(own) = Cardinality(rows[t])
    BY <1>6, <1>7, FS_Bijection
  <1>9. own \subseteq rows[t]
    BY <1>1
  <1>10. own = rows[t]
    BY <1>8, <1>9, FS_Subset
  <1>11. QED
    BY <1>1, <1>10

LEMMA StatementsStep ==
    ASSUME TypeOK, NotStarted, NEW t \in Tables, Plain(t), Statements(t), [Next]_vars
    PROVE  Statements(t)'
  <1> USE DEF storage, asked, build
  <1>1. ASSUME UNCHANGED <<selected, pc, at, todo, computed>>
        PROVE  Statements(t)'
    BY <1>1 DEF Statements, AtWork, Filling
  <1>2. ASSUME NEW b \in Builds, NEW sel \in Selections, NEW v \in {0} \cup Versions,
               Start(b, sel, v)
        PROVE  Statements(t)'
    <2>1. /\ UNCHANGED <<at, todo, computed>> /\ pc'[b] = "select"
          /\ \A a \in Builds \ {b} : pc'[a] = pc[a] /\ selected'[a] = selected[a]
      BY <1>2 DEF Start, TypeOK
    <2>2. QED
      BY <2>1 DEF Statements, AtWork, Filling
  <1>3. ASSUME NEW b \in Builds, Actions(b)
        PROVE  Statements(t)'
    <2>1. /\ UNCHANGED selected
          /\ \A a \in Builds \ {b} : /\ pc'[a] = pc[a] /\ at'[a] = at[a]
                                      /\ todo'[a] = todo[a] /\ computed'[a] = computed[a]
      BY <1>3, StepFrame
    <2>2. SUFFICES ASSUME at'[b] = t
                   PROVE  /\ AtWork(b)' => t \in selected[b]
                          /\ Filling(b)' => todo'[b] \subseteq Years(t)
                          /\ pc'[b] = "commit" =>
                                /\ IsFiniteSet(computed'[b])
                                /\ \A r \in computed'[b] : r.build = b /\ r.chunk \in Years(t)
      BY <2>1 DEF Statements, AtWork, Filling
    <2>3. CASE InsertReads(b)
      <3>1. at[b] = t /\ pc[b] = "insert" /\ pc'[b] = "commit"
        BY <2>2, <2>3 DEF InsertReads, TypeOK
      <3>2. PICK c \in todo[b], f \in BOOLEAN :
               /\ todo'[b] = todo[b] \ {c}
               /\ computed'[b] \in {{}, {[chunk |-> c, build |-> b, fit |-> f]}}
        <4>1. PICK c \in todo[b] :
                 /\ todo' = [todo EXCEPT ![b] = @ \ {c}]
                 /\ computed' = [computed EXCEPT ![b] =
                       IF Yields(at[b], c)
                          THEN {[chunk |-> c, build |-> b,
                                 fit |-> \A d \in Reads[at[b]] : Whole(d)]}
                          ELSE {}]
          BY <2>3 DEF InsertReads
        <4> DEFINE f == \A d \in Reads[at[b]] : Whole(d)
        <4>2. f \in BOOLEAN
          OBVIOUS
        <4>3. computed'[b] \in {{}, {[chunk |-> c, build |-> b, fit |-> f]}}
          BY <4>1 DEF TypeOK
        <4> HIDE DEF f
        <4>4. QED
          BY <4>1, <4>2, <4>3 DEF TypeOK
      <3>3. IsFiniteSet(computed'[b])
        <4>1. IsFiniteSet({[chunk |-> c, build |-> b, fit |-> f]})
          BY FS_Singleton
        <4>2. QED
          BY <3>2, <4>1, FS_EmptySet
      <3>4. \A r \in computed'[b] : r.build = b /\ r.chunk = c
        BY <3>2
      <3>5. t \in selected[b] /\ todo[b] \subseteq Years(t)
        BY <3>1 DEF Statements, AtWork, Filling
      <3>6. QED
        BY <3>2, <3>3, <3>4, <3>5
    <2>4. CASE ~InsertReads(b)
      <3>1. pc'[b] # "commit"
        BY <1>3, <2>4
        DEF Actions, Step, Skip, Select, Refuse, Drop, Purge, PurgeLeaves, Create, CheckEmpty,
            CheckStale, InsertReads, InsertCommits, Gates, Finish, TableMissing, Crash, Ends,
            TypeOK
      <3>2. AtWork(b)' => at[b] = t /\ (AtWork(b) \/ Select(b))
        BY <1>3, <2>2
        DEF Actions, Step, Skip, Select, Refuse, Drop, Purge, PurgeLeaves, Create, CheckEmpty,
            CheckStale, InsertReads, InsertCommits, Gates, Finish, TableMissing, Crash, Ends,
            TypeOK, AtWork
      <3>3. AtWork(b)' => t \in selected[b]
        BY <3>2 DEF Select, Statements
      <3>4. Filling(b)' => at[b] = t /\ (CheckEmpty(b) \/ (InsertCommits(b) /\ todo' = todo))
        BY <1>3, <2>2, <2>4
        DEF Actions, Step, Skip, Select, Refuse, Drop, Purge, PurgeLeaves, Create, CheckEmpty,
            CheckStale, InsertReads, InsertCommits, Gates, Finish, TableMissing, Crash, Ends,
            TypeOK, Filling
      <3>5. CheckEmpty(b) /\ at[b] = t => todo'[b] = Years(t)
        BY PlainChunks DEF CheckEmpty, TypeOK
      <3>6. InsertCommits(b) => Filling(b)
        BY DEF InsertCommits, Filling
      <3>7. QED
        BY <3>1, <3>3, <3>4, <3>5, <3>6 DEF Statements
    <2>5. QED
      BY <2>3, <2>4
  <1>4. QED
    BY <1>1, <1>2, <1>3 DEF Next, Actions, Train, vars

LEMMA ContentsStep ==
    ASSUME TypeOK, NotStarted, NEW t \in Tables, Plain(t), Statements(t), Contents(t), [Next]_vars
    PROVE  Contents(t)'
  <1> USE DEF storage, asked, build
  <1>1. \A r \in rows[t] : r.build \in Builds
    BY DEF TypeOK, Row
  <1>2. ASSUME UNCHANGED rows, \A b \in Builds : selected[b] \subseteq selected'[b]
        PROVE  Contents(t)'
    BY <1>1, <1>2 DEF Contents
  <1>3. ASSUME NEW b \in Builds, NEW sel \in Selections, NEW v \in {0} \cup Versions,
               Start(b, sel, v)
        PROVE  Contents(t)'
    <2>1. selected[b] = {}
      BY <1>3 DEF Start, NotStarted, TypeOK, Builds
    <2>2. QED
      BY <1>2, <1>3, <2>1 DEF Start, TypeOK
  <1>4. ASSUME NEW b \in Builds, Actions(b)
        PROVE  Contents(t)'
    <2>1. UNCHANGED selected
      BY <1>4, StepFrame
    <2>2. \/ rows'[t] \subseteq rows[t]
          \/ pc[b] = "commit" /\ at[b] = t /\ rows'[t] = rows[t] \cup computed[b]
      BY <1>4
      DEF Actions, Step, Skip, Select, Refuse, Drop, Purge, PurgeLeaves, Create, CheckEmpty,
          CheckStale, InsertReads, InsertCommits, Gates, Finish, TableMissing, Crash, TypeOK
    <2>3. CASE rows'[t] \subseteq rows[t]
      BY <2>1, <2>3, FS_Subset DEF Contents
    <2>4. CASE pc[b] = "commit" /\ at[b] = t /\ rows'[t] = rows[t] \cup computed[b]
      <3>1. /\ IsFiniteSet(computed[b]) /\ t \in selected[b]
            /\ \A r \in computed[b] : r.build = b /\ r.chunk \in Years(t)
        BY <2>4 DEF Statements, AtWork
      <3>2. IsFiniteSet(rows'[t])
        <4>1. IsFiniteSet(rows[t])
          BY DEF Contents
        <4>2. IsFiniteSet(rows[t] \cup computed[b])
          BY <3>1, <4>1, FS_Union
        <4>3. QED
          BY <2>4, <4>2
      <3>3. QED
        BY <2>1, <2>4, <3>1, <3>2 DEF Contents
    <2>5. QED
      BY <2>2, <2>3, <2>4
  <1>5. QED
    BY <1>2, <1>3, <1>4 DEF Next, Actions, Train, vars

\* Of b, what its own steps and those of the others leave as it is.
LEMMA OwnerKept ==
    ASSUME TypeOK, NotStarted, NEW t \in Tables, Plain(t), Contents(t), Statements(t),
           NEW a \in Builds, Actions(a), ~(at[a] = t /\ pc[a] = "purge"),
           NEW b \in Builds, Owner(b, t)
    PROVE  Owner(b, t)'
  <1> USE DEF storage, asked, build
  <1>1. /\ Running(a) /\ UNCHANGED selected
        /\ \A c \in Builds \ {a} : /\ pc'[c] = pc[c] /\ at'[c] = at[c] /\ red'[c] = red[c]
                                    /\ todo'[c] = todo[c] /\ computed'[c] = computed[c]
        /\ red[a] => red'[a]
    BY StepFrame
  <1>2. \A c \in Builds : Failed(c) => Failed(c)'
    BY <1>1 DEF Failed, Running
  <1>3. CASE Failed(b)
    BY <1>1, <1>2, <1>3 DEF Owner
  <1>4. CASE ~Failed(b) /\ Failed(b)'
    BY <1>1, <1>4 DEF Owner
  <1>5. CASE ~Failed(b) /\ ~Failed(b)'
    <2>1. /\ Purged(b, t) /\ t \in selected[b]
          /\ (at[b] = t /\ pc[b] \in {"create", "check"}) \/ \A c \in Years(t) : Placed(b, t, c)
          /\ at[b] > t => \A r \in rows[t] : r.build # b => Doomed(r.build, t)
      BY <1>5 DEF Owner
    <2>2. \/ rows'[t] = rows[t]
          \/ /\ pc[a] = "commit" /\ at[a] = t /\ rows'[t] = rows[t] \cup computed[a]
             /\ InsertCommits(a) \/ Failed(a)'
      BY DEF Actions, Step, Skip, Select, Refuse, Drop, Purge, PurgeLeaves, Create, CheckEmpty,
             CheckStale, InsertReads, InsertCommits, Gates, Finish, TableMissing, Crash, TypeOK,
             Ends, Failed
    <2>3. rows[t] \subseteq rows'[t]
      BY <2>2
    <2>4. \A r \in rows[t] : r.build \in Builds
      BY DEF TypeOK, Row
    <2>5. ASSUME b # a
          PROVE  Owner(b, t)'
      <3>1. /\ pc'[b] = pc[b] /\ at'[b] = at[b] /\ todo'[b] = todo[b]
            /\ computed'[b] = computed[b]
        BY <1>1, <2>5
      <3>2. Purged(b, t)'
        BY <1>1, <2>1, <3>1 DEF Purged, Filling
      <3>3. \A c : Placed(b, t, c) => Placed(b, t, c)'
        BY <2>3, <3>1 DEF Placed
      <3>4. ASSUME at[b] > t, NEW r \in rows'[t], r.build # b
            PROVE  Doomed(r.build, t)'
        <4>1. CASE r \in rows[t]
          <5>1. Doomed(r.build, t) /\ r.build \in Builds
            BY <2>1, <2>4, <3>4, <4>1
          <5>2. CASE r.build # a
            BY <1>1, <1>2, <5>1, <5>2 DEF Doomed, Filling
          <5>3. CASE r.build = a /\ Failed(a)
            BY <1>2, <5>3 DEF Doomed
          <5>4. CASE r.build = a /\ at[a] = t /\ Filling(a)
            <6>1. \/ at'[a] = t /\ Filling(a)'
                  \/ Failed(a)'
                  \/ Gates(a)
              BY <5>4
              DEF Actions, Step, Skip, Select, Refuse, Drop, Purge, PurgeLeaves, Create,
                  CheckEmpty, CheckStale, InsertReads, InsertCommits, Gates, Finish,
                  TableMissing, Crash, TypeOK, Ends, Failed, Filling
            <6>2. ASSUME Gates(a)
                  PROVE  red'[a]
              <7>1. \A c \in Years(t) : \E q \in rows[t] : q.build = b /\ q.chunk = c
                BY <2>1, <3>4 DEF Placed, TypeOK, Tables
              <7>2. Cardinality(rows[t]) # Cardinality(Years(t))
                BY <3>4, <4>1, <7>1, CountMeansOnly DEF Contents
              <7>3. ~GatesPass(a, t)
                BY <7>2, PlainChunks DEF GatesPass, Plain
              <7>4. QED
                BY <5>4, <6>2, <7>3 DEF Gates, TypeOK
            <6>3. QED
              BY <5>4, <6>1, <6>2 DEF Doomed, Failed
          <5>5. QED
            BY <5>1, <5>2, <5>3, <5>4 DEF Doomed
        <4>2. CASE r \notin rows[t]
          <5>1. /\ pc[a] = "commit" /\ at[a] = t /\ r \in computed[a]
                /\ InsertCommits(a) \/ Failed(a)'
            BY <2>2, <3>4, <4>2
          <5>2. r.build = a
            BY <5>1 DEF Statements
          <5>3. InsertCommits(a) => at'[a] = t /\ Filling(a)'
            BY <5>1 DEF InsertCommits, Filling, TypeOK
          <5>4. QED
            BY <5>1, <5>2, <5>3 DEF Doomed
        <4>3. QED
          BY <4>1, <4>2
      <3>5. QED
        BY <1>1, <2>1, <3>1, <3>2, <3>3, <3>4 DEF Owner
    <2>6. ASSUME b = a
          PROVE  Owner(b, t)'
      <3>1. CASE at[b] > t
        <4>1. at'[b] > t
          BY <3>1, <2>6
          DEF Actions, Step, Skip, Select, Refuse, Drop, Purge, PurgeLeaves, Create,
              CheckEmpty, CheckStale, InsertReads, InsertCommits, Gates, Finish,
              TableMissing, Crash, TypeOK, Tables
        <4>2. at[b] # t /\ at'[b] # t
          BY <3>1, <4>1, TypeStep DEF TypeOK, Tables
        <4>3. rows'[t] = rows[t]
          BY <2>2, <2>6, <4>2
        <4>4. \A c \in Years(t) : Placed(b, t, c)'
          BY <2>1, <4>2, <4>3 DEF Placed
        <4>5. \A r \in rows[t] : r.build # b => Doomed(r.build, t)'
          BY <1>1, <1>2, <2>1, <2>4, <2>6, <3>1 DEF Doomed, Filling
        <4>6. QED
          BY <1>1, <2>1, <4>1, <4>3, <4>4, <4>5 DEF Owner, Purged
      <3>2. CASE at[b] = t
        <4>1. pc[b] \in {"create", "check"} \/ Filling(b)
          BY <2>1, <3>2 DEF Purged, TypeOK, Tables
        <4>2. \/ Create(b) \/ CheckEmpty(b) \/ InsertReads(b) \/ InsertCommits(b) \/ Gates(b)
              \/ Failed(b)'
          <5>1. pc[b] \notin {"select", "drop", "purge"}
            BY <4>1 DEF Filling
          <5>2. ~(Skip(b) \/ Select(b) \/ Refuse(b) \/ Drop(b) \/ Purge(b) \/ PurgeLeaves(b)
                  \/ Finish(b))
            BY <5>1 DEF Skip, Select, Refuse, Drop, Purge, PurgeLeaves, Finish
          <5>3. CheckStale(b) \/ TableMissing(b) \/ Crash(b) => Failed(b)'
            BY DEF CheckStale, TableMissing, Crash, Ends, Failed, TypeOK
          <5>4. QED
            BY <2>6, <5>2, <5>3 DEF Actions, Step
        <4>3. CASE Create(b)
          <5>1. at'[b] = t /\ pc'[b] = "check"
            BY <3>2, <4>3 DEF Create, TypeOK
          <5>2. QED
            BY <1>1, <2>1, <5>1 DEF Owner, Purged, TypeOK, Tables
        <4>4. CASE CheckEmpty(b) \/ InsertReads(b) \/ InsertCommits(b)
          <5>1. at'[b] = t /\ Filling(b)' /\ ~(at'[b] > t)
            BY <3>2, <4>4 DEF CheckEmpty, InsertReads, InsertCommits, TypeOK, Filling, Tables
          <5>2. ASSUME NEW c \in Years(t)
                PROVE  Placed(b, t, c)'
            <6>1. CASE CheckEmpty(b)
              <7>1. pc'[b] = "insert" /\ todo'[b] = Years(t)
                BY <3>2, <6>1, PlainChunks DEF CheckEmpty, TypeOK
              <7>2. QED
                BY <5>1, <5>2, <7>1 DEF Placed
            <6>2. CASE InsertReads(b)
              <7>1. PICK e \in todo[b] :
                       /\ todo' = [todo EXCEPT ![b] = @ \ {e}]
                       /\ computed' = [computed EXCEPT ![b] =
                             IF Yields(t, e)
                                THEN {[chunk |-> e, build |-> b,
                                       fit |-> \A d \in Reads[t] : Whole(d)]}
                                ELSE {}]
                BY <3>2, <6>2 DEF InsertReads
              <7>2. pc[b] = "insert" /\ pc'[b] = "commit" /\ rows' = rows
                BY <6>2 DEF InsertReads, TypeOK
              <7>3. computed'[b] = {[chunk |-> e, build |-> b,
                                     fit |-> \A d \in Reads[t] : Whole(d)]}
                BY <7>1, PlainChunks DEF TypeOK
              <7>4. todo'[b] = todo[b] \ {e} /\ \E r \in computed'[b] : r.chunk = e
                BY <7>1, <7>3 DEF TypeOK
              <7>5. Placed(b, t, c)
                BY <2>1, <5>2, <7>2
              <7>6. QED
                BY <5>1, <7>2, <7>4, <7>5 DEF Placed
            <6>3. CASE InsertCommits(b)
              <7>1. /\ pc[b] = "commit" /\ rows'[t] = rows[t] \cup computed[b] /\ todo' = todo
                    /\ todo[b] # {} => pc'[b] = "insert"
                BY <3>2, <6>3 DEF InsertCommits, TypeOK
              <7>2. Placed(b, t, c)
                BY <2>1, <5>2, <7>1
              <7>3. \A r \in computed[b] : r.build = b
                BY <3>2, <7>1 DEF Statements
              <7>4. QED
                BY <5>1, <7>1, <7>2, <7>3 DEF Placed
            <6>4. QED
              BY <4>4, <6>1, <6>2, <6>3
          <5>3. QED
            BY <1>1, <2>1, <5>1, <5>2 DEF Owner, Purged
        <4>5. CASE Gates(b)
          <5>1. /\ pc[b] = "gates" /\ rows' = rows /\ at'[b] = t + 1
            BY <3>2, <4>5 DEF Gates, TypeOK
          <5>2. \A c \in Years(t) : \E r \in rows[t] : r.build = b /\ r.chunk = c
            BY <2>1, <5>1 DEF Placed
          <5>3. GatesPass(b, t)
            BY <1>5, <3>2, <4>5 DEF Gates, Failed, TypeOK
          <5>4. \A r \in rows[t] : r.build = b
            BY <5>2, <5>3, CountMeansOnly, PlainChunks DEF GatesPass, Plain, Contents
          <5>5. at'[b] > t
            BY <5>1 DEF Tables
          <5>6. QED
            BY <1>1, <2>1, <5>1, <5>2, <5>4, <5>5 DEF Owner, Purged, Placed
        <4>6. QED
          BY <1>5, <4>2, <4>3, <4>4, <4>5
      <3>3. QED
        BY <2>1, <3>1, <3>2 DEF Purged
    <2>7. QED
      BY <2>5, <2>6
  <1>6. QED
    BY <1>3, <1>4, <1>5

LEMMA OwnedStep ==
    ASSUME TypeOK, NotStarted, NEW t \in Tables, Plain(t), Contents(t), Statements(t),
           Owned(t), [Next]_vars
    PROVE  Owned(t)'
  <1> USE DEF storage, asked, build
  <1>1. ASSUME UNCHANGED <<rows, selected, pc, at, todo, computed, red>>
        PROVE  Owned(t)'
    BY <1>1 DEF Owned, Owner, Purged, Placed, Doomed, Failed, Filling
  <1>2. ASSUME NEW a \in Builds, NEW sel \in Selections, NEW v \in {0} \cup Versions,
               Start(a, sel, v)
        PROVE  Owned(t)'
    <2>1. /\ UNCHANGED <<rows, at, todo, computed, red>> /\ pc'[a] = "select"
          /\ \A c \in Builds \ {a} : pc'[c] = pc[c] /\ selected'[c] = selected[c]
      BY <1>2 DEF Start, TypeOK
    <2>2. selected[a] = {} /\ at[a] = 1
      BY <1>2 DEF Start, NotStarted, TypeOK, Builds
    <2>3. \A c \in Builds : Purged(c, t)' => Purged(c, t) /\ c # a
      BY <2>1, <2>2 DEF Purged, Filling, Tables
    <2>4. \A c \in Builds \ {a} : Failed(c)' <=> Failed(c)
      BY <2>1 DEF Failed
    <2>5. \A r \in rows[t] : r.build \in Builds /\ t \in selected[r.build]
      BY DEF TypeOK, Row, Contents
    <2>6. \A r \in rows[t] : r.build # a /\ (Doomed(r.build, t) => Doomed(r.build, t)')
      BY <2>1, <2>2, <2>4, <2>5 DEF Doomed, Filling
    <2>7. ASSUME NEW b \in Builds, Owner(b, t)
          PROVE  Owner(b, t)'
      <3>1. b # a
        BY <2>2, <2>7 DEF Owner
      <3>2. pc'[b] = pc[b] /\ selected'[b] = selected[b]
        BY <2>1, <3>1
      <3>3. Purged(b, t) => Purged(b, t)'
        BY <2>1, <3>2 DEF Purged, Filling
      <3>4. \A c : Placed(b, t, c) => Placed(b, t, c)'
        BY <2>1, <3>2 DEF Placed
      <3>5. QED
        BY <2>1, <2>4, <2>6, <2>7, <3>1, <3>2, <3>3, <3>4 DEF Owner
    <2>8. QED
      BY <2>3, <2>7 DEF Owned
  <1>3. ASSUME NEW a \in Builds, Actions(a)
        PROVE  Owned(t)'
    <2>1. CASE at[a] = t /\ pc[a] = "purge"
      <3>1. at'[a] = t /\ (pc'[a] = "create" \/ Failed(a)') /\ UNCHANGED selected
        BY <1>3, <2>1
        DEF Actions, Step, Skip, Select, Refuse, Drop, Purge, PurgeLeaves, Create, CheckEmpty,
            CheckStale, InsertReads, InsertCommits, Gates, Finish, TableMissing, Crash, Ends,
            TypeOK, Failed
      <3>2. t \in selected[a]
        BY <2>1 DEF Statements, AtWork
      <3>3. Owner(a, t)'
        BY <3>1, <3>2 DEF Owner, Purged, Tables
      <3>4. QED
        BY <3>3 DEF Owned
    <2>2. CASE ~(at[a] = t /\ pc[a] = "purge")
      <3>1. \A b \in Builds \ {a} : Purged(b, t)' => Purged(b, t)
        BY <1>3, StepFrame DEF Purged, Filling
      <3>2. Purged(a, t)' => Purged(a, t)
        <4>1. SUFFICES ASSUME Purged(a, t)'
                       PROVE  Purged(a, t)
          OBVIOUS
        <4>2. t \in selected[a]
          BY <1>3, <4>1, StepFrame DEF Purged
        <4>3. CASE at'[a] = at[a]
          <5>1. at[a] = t => pc[a] \in {"create", "check"} \/ Filling(a)
            BY <1>3, <2>2, <4>1, <4>3
            DEF Actions, Step, Skip, Select, Refuse, Drop, Purge, PurgeLeaves, Create,
                CheckEmpty, CheckStale, InsertReads, InsertCommits, Gates, Finish,
                TableMissing, Crash, Ends, TypeOK, Purged, Filling, Tables
          <5>2. QED
            BY <4>1, <4>2, <4>3, <5>1 DEF Purged
        <4>4. CASE at'[a] # at[a]
          <5>1. (Skip(a) \/ Gates(a)) /\ at'[a] = at[a] + 1 /\ pc'[a] = "select"
            BY <1>3, <4>4
            DEF Actions, Step, Skip, Select, Refuse, Drop, Purge, PurgeLeaves, Create,
                CheckEmpty, CheckStale, InsertReads, InsertCommits, Gates, Finish,
                TableMissing, Crash, TypeOK
          <5>2. at'[a] > t
            BY <4>1, <5>1 DEF Purged, Filling
          <5>3. at[a] > t \/ at[a] = t
            BY <5>1, <5>2 DEF TypeOK, Tables
          <5>4. at[a] = t => Filling(a)
            BY <4>2, <5>1 DEF Skip, Gates, Filling
          <5>5. QED
            BY <4>2, <5>3, <5>4 DEF Purged
        <4>5. QED
          BY <4>3, <4>4
      <3>3. \A b \in Builds : Owner(b, t) => Owner(b, t)'
        BY <1>3, <2>2, OwnerKept
      <3>4. QED
        BY <3>1, <3>2, <3>3 DEF Owned
    <2>3. QED
      BY <2>1, <2>2
  <1>4. QED
    BY <1>1, <1>2, <1>3 DEF Next, Actions, Train, vars

\* All plain counted tables at once.
OverlapsInv ==
    /\ TypeOK
    /\ NotStarted
    /\ EndedIsThrough
    /\ \A t \in Counted \ Drifted : Contents(t) /\ Statements(t) /\ Owned(t)

\* Builds that overlap, any number of them, and that all end green have left each
\* table they built and could count complete, of one build: each count was right when it
\* was made, and the last of them saw everything. For tables built in plain
\* chunks, that do not read forecasts or loads.
THEOREM GreenTogether ==
    ASSUME \A t \in Counted \ Drifted : Plain(t)
    PROVE  Spec => []GreenTogetherMeansComplete
  <1>1. Init => OverlapsInv
    <2> SUFFICES ASSUME Init PROVE OverlapsInv
      OBVIOUS
    <2>1. \A b \in Builds : pc[b] = "new" /\ at[b] = 1
      BY DEF Init
    <2>2. Counted \ Drifted \subseteq Tables
      BY GoldAssumption
    <2>3. \A t \in Counted \ Drifted : Contents(t) /\ Statements(t)
      BY <2>1, <2>2, FS_EmptySet DEF Init, Contents, Statements, AtWork, Filling
    <2>4. \A t \in Counted \ Drifted, b \in Builds : ~Purged(b, t)
      BY <2>1, <2>2 DEF Init, Purged
    <2>5. QED
      BY <2>1, <2>3, <2>4, TypeInit
      DEF OverlapsInv, Owned, NotStarted, EndedIsThrough, Init
  <1>2. OverlapsInv /\ [Next]_vars => OverlapsInv'
    <2> SUFFICES ASSUME OverlapsInv, [Next]_vars PROVE OverlapsInv'
      OBVIOUS
    <2> USE DEF OverlapsInv
    <2>1. TypeOK' /\ NotStarted' /\ EndedIsThrough'
      BY TypeStep, NotStartedStep, EndedStep
    <2>2. ASSUME NEW t \in Counted \ Drifted
          PROVE  Contents(t)' /\ Statements(t)' /\ Owned(t)'
      <3>1. t \in Tables /\ Plain(t)
        BY GoldAssumption
      <3>2. QED
        BY <3>1, ContentsStep, StatementsStep, OwnedStep
    <2>3. QED
      BY <2>1, <2>2
  <1>3. OverlapsInv => GreenTogetherMeansComplete
    <2> SUFFICES ASSUME OverlapsInv, NEW t \in Counted \ Drifted,
                        \E b \in Builds : t \in selected[b],
                        \A b \in Builds : t \in selected[b] => pc[b] = "green"
                 PROVE  \E b \in Builds : Held(t) = Chunks(b, t) /\ \A r \in rows[t] : r.build = b
      BY DEF GreenTogetherMeansComplete
    <2>1. t \in Tables /\ Plain(t)
      BY GoldAssumption
    <2>2. \A b \in Builds : t \in selected[b] =>
             ~Failed(b) /\ at[b] > t /\ at[b] # t /\ Purged(b, t)
      BY <2>1, GoldAssumption
      DEF OverlapsInv, EndedIsThrough, Failed, Purged, Tables
    <2>3. PICK b \in Builds : Owner(b, t)
      BY <2>2 DEF OverlapsInv, Owned
    <2>4. /\ at[b] > t /\ at[b] # t
          /\ \A c \in Years(t) : Placed(b, t, c)
          /\ \A r \in rows[t] : r.build # b => Doomed(r.build, t)
      BY <2>2, <2>3 DEF Owner
    <2>5. \A r \in rows[t] : r.build \in Builds /\ t \in selected[r.build] /\ r.chunk \in Years(t)
      BY <2>1 DEF OverlapsInv, Contents, TypeOK, Row
    <2>6. \A r \in rows[t] : ~Doomed(r.build, t)
      BY <2>2, <2>5 DEF Doomed
    <2>7. \A r \in rows[t] : r.build = b
      BY <2>4, <2>6
    <2>8. Held(t) = Years(t)
      BY <2>4, <2>5 DEF Held, Placed
    <2>9. QED
      BY <2>1, <2>7, <2>8, PlainChunks
  <1>4. QED
    BY <1>1, <1>2, <1>3, PTL DEF Spec
=============================================================================
