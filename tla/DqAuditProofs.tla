---------------------------- MODULE DqAuditProofs ----------------------------
(* Theorems about SilverWindow, for every calendar, set of callers and windows,  *)
(* contents of Bronze, and number of changes, runs and faults; and about DqAudit *)
(* beside it, for every set of audited days and number of tries.                 *)
EXTENDS DqAudit, SetRecursion

-----------------------------------------------------------------------------
(* The Silver jobs. *)

LEMMA NoRowsFacts == NoRows \in [good : Nat, bad : Nat] /\ NoRows.good = 0 /\ NoRows.bad = 0
  BY DEF NoRows

LEMMA BronzeRows ==
    ASSUME SilverTypeOK, NEW d \in Days
    PROVE  bronze[d] \in [good : Nat, bad : Nat]
  BY SilverAssumption, NoRowsFacts DEF SilverTypeOK

LEMMA WindowDays ==
    ASSUME SilverTypeOK, NEW j \in Jobs
    PROVE  window[j] \subseteq Days /\ window[j] \cap MonthDays(window[j]) = window[j]
  BY DEF SilverTypeOK, MonthDays

LEMMA NoDaysType == NoDays \in [Days -> Nat]
  BY DEF NoDays

\* What a job counts as rejected is a number of rows for each day.
LEMMA RejectedType ==
    ASSUME SilverTypeOK, NEW w
    PROVE  Rejected(w) \in [Days -> Nat]
  BY BronzeRows DEF Rejected

LEMMA OverwriteType ==
    ASSUME SilverTypeOK, NEW j \in Jobs, NEW days
    PROVE  Overwrite(j, days) \in [Days -> Nat]
  BY DEF SilverTypeOK, Overwrite

LEMMA SilverTypeInit == SilverInit => SilverTypeOK
  <1> SUFFICES ASSUME SilverInit PROVE SilverTypeOK
    OBVIOUS
  <1>1. rejects \in [AllWindows -> [Days -> Nat]]
    BY NoDaysType DEF SilverInit
  <1>2. seen \in [Jobs -> [Days -> Nat]]
    BY NoDaysType DEF SilverInit
  <1>3. changes \in 0..MaxChanges /\ manual \in 0..MaxManual /\ faults \in 0..MaxFaults
    BY SilverAssumption DEF SilverInit
  <1>4. QED
    BY <1>1, <1>2, <1>3, NoDaysType DEF SilverInit, SilverTypeOK, Stages

LEMMA SilverTypeStep ==
    ASSUME SilverTypeOK, [SilverNext]_silverVars
    PROVE  SilverTypeOK'
  <1> USE DEF SilverTypeOK, To
  <1>1. ASSUME NEW d \in Days, Ingest(d)
        PROVE  SilverTypeOK'
    BY <1>1, SilverAssumption DEF Ingest
  <1>2. ASSUME NEW j \in Jobs, NEW w \in Windows[j], Submit(j, w)
        PROVE  SilverTypeOK'
    <2>1. w \in SUBSET Days
      BY SilverAssumption
    <2>2. manual' \in 0..MaxManual
      BY <1>2, SilverAssumption DEF Submit
    <2>3. stage' \in [Jobs -> Stages] /\ window' \in [Jobs -> SUBSET Days]
      BY <1>2, <2>1 DEF Submit, Stages
    <2>4. \A i \in Jobs : window'[i] \in Windows[i] \/ stage'[i] = "idle"
      BY <1>2 DEF Submit
    <2>5. QED
      BY <1>2, <2>2, <2>3, <2>4 DEF Submit
  <1>3. ASSUME NEW j \in Jobs, NothingToRead(j)
        PROVE  SilverTypeOK'
    BY <1>3 DEF NothingToRead, Stages
  <1>4. ASSUME NEW j \in Jobs, Cache(j)
        PROVE  SilverTypeOK'
    <2>1. [d \in Days |-> IF d \in window[j] \cap MonthDays(window[j])
                             THEN bronze[d].good ELSE 0] \in [Days -> Nat]
      BY BronzeRows
    <2>2. seen' \in [Jobs -> [Days -> Nat]]
      BY <1>4, <2>1 DEF Cache
    <2>3. QED
      BY <1>4, <2>2 DEF Cache, Stages
  <1>5. ASSUME NEW j \in Jobs, Write(j)
        PROVE  SilverTypeOK'
    <2>1. parquet' \in [Days -> Nat]
      BY <1>5, OverwriteType DEF Write
    <2>2. quiet' \in [Jobs -> BOOLEAN]
      BY <1>5 DEF Write, Disturb
    <2>3. QED
      BY <1>5, <2>1, <2>2 DEF Write, Stages
  <1>6. ASSUME NEW j \in Jobs, WriteDies(j)
        PROVE  SilverTypeOK'
    <2>1. PICK done \in SUBSET window[j], gone \in SUBSET window[j] :
              parquet' = [d \in Days |-> IF d \in gone /\ seen[j][d] > 0
                                            THEN 0 ELSE Overwrite(j, done)[d]]
      BY <1>6 DEF WriteDies
    <2>2. parquet' \in [Days -> Nat]
      BY <2>1, OverwriteType
    <2>3. faults' \in 0..MaxFaults
      BY <1>6, SilverAssumption DEF WriteDies
    <2>4. QED
      BY <1>6, <2>2, <2>3 DEF WriteDies, Stages
  <1>7. ASSUME NEW j \in Jobs, Quarantine(j)
        PROVE  SilverTypeOK'
    <2>1. rejects' \in [AllWindows -> [Days -> Nat]]
      BY <1>7, RejectedType DEF Quarantine
    <2>2. QED
      BY <1>7, <2>1 DEF Quarantine, Stages
  <1>8. ASSUME NEW j \in Jobs, HitRateOk(j)
        PROVE  SilverTypeOK'
    BY <1>8, NoDaysType DEF HitRateOk, Stages
  <1>9. ASSUME NEW j \in Jobs, Sync(j)
        PROVE  SilverTypeOK'
    BY <1>9 DEF Sync, Stages
  <1>10. ASSUME NEW j \in Jobs, StepFails(j)
         PROVE  SilverTypeOK'
    <2>1. stage' \in [Jobs -> Stages]
      BY <1>10 DEF StepFails, Stages
    <2>2. faults' \in 0..MaxFaults
      BY <1>10, SilverAssumption DEF StepFails
    <2>3. seen' \in [Jobs -> [Days -> Nat]]
      BY <1>10, NoDaysType DEF StepFails
    <2>4. \A i \in Jobs : window'[i] \in Windows[i] \/ stage'[i] = "idle"
      BY <1>10 DEF StepFails
    <2>5. QED
      BY <1>10, <2>1, <2>2, <2>3, <2>4 DEF StepFails
  <1>11. CASE UNCHANGED silverVars
    BY <1>11 DEF silverVars
  <1>12. QED
    BY <1>1, <1>2, <1>3, <1>4, <1>5, <1>6, <1>7, <1>8, <1>9, <1>10, <1>11
    DEF SilverNext, JobStep

\* Every variable of the Silver jobs keeps its type.
THEOREM SilverTypeCorrect == SilverSpec => []SilverTypeOK
  BY SilverTypeInit, SilverTypeStep, PTL DEF SilverSpec

-----------------------------------------------------------------------------
(* A job that was not disturbed.  What it has cached is what Bronze holds, and *)
(* each later step has put one more part of it in its place.                   *)

CachedIsBronze(j) ==
    stage[j] = "write" => \A d \in window[j] : seen[j][d] = bronze[d].good

WrittenIsBronze(j) ==
    stage[j] \in {"reject", "check", "sync", "ok"} =>
        \A d \in window[j] : bronze[d].good > 0 => parquet[d] = bronze[d].good

RejectsAreBronze(j) ==
    stage[j] \in {"check", "sync", "ok"} =>
        \A d \in window[j] : bronze[d].bad > 0 => rejects[window[j]][d] = bronze[d].bad

RegisteredIsBronze(j) ==
    stage[j] = "ok" => \A d \in window[j] : bronze[d].good > 0 => d \in trino

Undisturbed ==
    \A j \in Jobs : quiet[j] =>
        /\ CachedIsBronze(j)
        /\ WrittenIsBronze(j)
        /\ RejectsAreBronze(j)
        /\ RegisteredIsBronze(j)

LEMMA UndisturbedInit == SilverInit => Undisturbed
  BY DEF SilverInit, Undisturbed

LEMMA UndisturbedStep ==
    ASSUME SilverTypeOK, Undisturbed, [SilverNext]_silverVars
    PROVE  Undisturbed'
  <1> USE DEF Undisturbed, CachedIsBronze, WrittenIsBronze, RejectsAreBronze, RegisteredIsBronze
  <1> USE DEF To
  <1>a. /\ stage \in [Jobs -> Stages] /\ window \in [Jobs -> SUBSET Days]
        /\ quiet \in [Jobs -> BOOLEAN] /\ seen \in [Jobs -> [Days -> Nat]]
        /\ parquet \in [Days -> Nat]
        /\ \A d \in Days : bronze[d].good \in Nat /\ bronze[d].bad \in Nat
    BY BronzeRows DEF SilverTypeOK
  <1>1. ASSUME NEW d \in Days, Ingest(d)
        PROVE  Undisturbed'
    BY <1>1 DEF Ingest
  <1>2. ASSUME NEW j \in Jobs, NEW w \in Windows[j], Submit(j, w)
        PROVE  Undisturbed'
    BY <1>2, <1>a DEF Submit
  <1>3. ASSUME NEW j \in Jobs, NothingToRead(j)
        PROVE  Undisturbed'
    BY <1>3, <1>a DEF NothingToRead
  <1>4. ASSUME NEW j \in Jobs, Cache(j)
        PROVE  Undisturbed'
    <2>1. \A d \in window[j] : seen'[j][d] = bronze[d].good
      BY <1>4, <1>a, WindowDays DEF Cache
    <2>2. \A i \in Jobs \ {j} : seen'[i] = seen[i] /\ quiet'[i] = quiet[i] /\ stage'[i] = stage[i]
      BY <1>4, <1>a DEF Cache
    <2>3. stage'[j] = "write"
      BY <1>4, <1>a DEF Cache
    <2>4. QED
      BY <1>4, <2>1, <2>2, <2>3 DEF Cache
  <1>5. ASSUME NEW j \in Jobs, Write(j)
        PROVE  Undisturbed'
    <2>1. \A i \in Jobs \ {j} : ~quiet'[i]
      BY <1>5 DEF Write, Disturb
    <2>2. quiet'[j] => quiet[j]
      BY <1>5 DEF Write, Disturb
    <2>3. stage'[j] = "reject" /\ stage[j] = "write"
      BY <1>5, <1>a DEF Write
    <2>4. quiet[j] => \A d \in window[j] : bronze[d].good > 0 => parquet'[d] = bronze[d].good
      BY <1>5, <1>a DEF Write, Overwrite
    <2>5. QED
      BY <1>5, <2>1, <2>2, <2>3, <2>4 DEF Write
  <1>6. ASSUME NEW j \in Jobs, WriteDies(j)
        PROVE  Undisturbed'
    BY <1>6 DEF WriteDies
  <1>7. ASSUME NEW j \in Jobs, Quarantine(j)
        PROVE  Undisturbed'
    <2>1. stage'[j] = "check" /\ stage[j] = "reject"
      BY <1>7, <1>a DEF Quarantine
    <2>2. \A i \in Jobs \ {j} : stage'[i] = stage[i]
      BY <1>7, <1>a DEF Quarantine
    <2>3. window[j] \in AllWindows
      BY <1>7 DEF Quarantine, SilverTypeOK, AllWindows
    <2>4. \A d \in window[j] : Rejected(window[j])[d] = bronze[d].bad
      BY <1>a, WindowDays DEF Rejected
    <2>5. \A d \in window[j] : bronze[d].bad > 0 => rejects'[window[j]][d] = bronze[d].bad
      BY <1>7, <1>a, <2>3, <2>4 DEF Quarantine, SilverTypeOK
    <2>6. \A w : w # window[j] => rejects'[w] = rejects[w]
      BY <1>7, <2>3 DEF Quarantine, SilverTypeOK
    <2>7. QED
      BY <1>7, <2>1, <2>2, <2>5, <2>6 DEF Quarantine
  <1>8. ASSUME NEW j \in Jobs, HitRateOk(j)
        PROVE  Undisturbed'
    BY <1>8, <1>a DEF HitRateOk
  <1>9. ASSUME NEW j \in Jobs, Sync(j)
        PROVE  Undisturbed'
    <2>1. \A d \in Days : parquet[d] > 0 <=> d \in trino'
      BY <1>9, <1>a DEF Sync
    <2>2. \A i \in Jobs : stage'[i] = "ok" => stage[i] \in {"sync", "ok"}
      BY <1>9, <1>a DEF Sync
    <2>3. \A i \in Jobs : quiet[i] /\ stage'[i] = "ok" =>
              \A d \in window[i] : bronze[d].good > 0 => d \in trino'
      BY <1>a, <2>1, <2>2
    <2>4. QED
      BY <1>9, <1>a, <2>3 DEF Sync
  <1>10. ASSUME NEW j \in Jobs, StepFails(j)
         PROVE  Undisturbed'
    <2>1. stage'[j] \in {"failed", "sync"} /\ (stage'[j] = "sync" => stage[j] = "sync")
      BY <1>10, <1>a DEF StepFails
    <2>2. \A i \in Jobs \ {j} : stage'[i] = stage[i] /\ seen'[i] = seen[i]
      BY <1>10, <1>a DEF StepFails
    <2>3. QED
      BY <1>10, <2>1, <2>2 DEF StepFails
  <1>11. CASE UNCHANGED silverVars
    BY <1>11 DEF silverVars
  <1>12. QED
    BY <1>1, <1>2, <1>3, <1>4, <1>5, <1>6, <1>7, <1>8, <1>9, <1>10, <1>11
    DEF SilverNext, JobStep

\* A job that ended green, while Bronze stood still and no other job wrote, has
\* put every row of its window in Silver or in its rejects.
THEOREM NoRowIsLostAlways == SilverSpec => []NoRowIsLost
  <1>1. Undisturbed => NoRowIsLost
    BY DEF Undisturbed, WrittenIsBronze, RejectsAreBronze, RegisteredIsBronze, NoRowIsLost
  <1>2. QED
    BY <1>1, SilverTypeInit, SilverTypeStep, UndisturbedInit, UndisturbedStep, PTL
    DEF SilverSpec

-----------------------------------------------------------------------------
(* The Silver table is a lagged copy of Bronze: the step that caches is the    *)
(* copy's look, the one that writes its publication, a death in the middle of  *)
(* it a publication in part; nothing else touches source, cache and table.     *)

LEMMA MirrorInit == SilverInit => Mirror!Init
  BY NoRowsFacts DEF SilverInit, NoDays, Mirror!Init, Mirror!Blank

LEMMA DropsCache ==
    ASSUME SilverTypeOK, NEW j \in Jobs, seen' = [seen EXCEPT ![j] = NoDays],
           UNCHANGED <<bronze, parquet>>
    PROVE  Mirror!Look(j)
  <1>1. NoDays = [k \in Days |-> IF k \in {} THEN bronze[k].good ELSE 0]
    BY DEF NoDays
  <1>2. {} \in SUBSET Days
    OBVIOUS
  <1>3. QED
    BY <1>1, <1>2 DEF Mirror!Look

LEMMA MirrorStep ==
    ASSUME SilverTypeOK, [SilverNext]_silverVars
    PROVE  [Mirror!Next]_(Mirror!copyVars)
  <1> USE DEF Mirror!copyVars
  <1>a. /\ seen \in [Jobs -> [Days -> Nat]] /\ parquet \in [Days -> Nat]
        /\ window \in [Jobs -> SUBSET Days]
    BY DEF SilverTypeOK
  <1>1. ASSUME NEW d \in Days, Ingest(d)
        PROVE  Mirror!Change(d)
    <2>1. PICK c \in Contents : bronze' = [bronze EXCEPT ![d] = c]
      BY <1>1 DEF Ingest
    <2>2. c.good \in {x.good : x \in Contents}
      OBVIOUS
    <2>3. [k \in Days |-> bronze'[k].good] = [[k \in Days |-> bronze[k].good] EXCEPT ![d] = c.good]
      BY <2>1 DEF SilverTypeOK
    <2>4. QED
      BY <1>1, <2>2, <2>3 DEF Ingest, Mirror!Change
  <1>2. ASSUME NEW j \in Jobs, Cache(j)
        PROVE  Mirror!Look(j)
    <2> DEFINE ks == window[j] \cap MonthDays(window[j])
    <2>1. ks \in SUBSET Days
      BY <1>a
    <2>2. seen' = [seen EXCEPT ![j] = [k \in Days |->
                      IF k \in ks THEN [d \in Days |-> bronze[d].good][k] ELSE 0]]
      BY <1>2 DEF Cache
    <2> HIDE DEF ks
    <2>3. QED
      BY <1>2, <2>1, <2>2 DEF Cache, Mirror!Look
  <1>3. ASSUME NEW j \in Jobs, Write(j)
        PROVE  Mirror!PublishInPart(j)
    <2>1. window[j] \in SUBSET Days /\ {} \in SUBSET Days
      BY <1>a
    <2>2. parquet' = [k \in Days |-> IF k \in {} /\ seen[j][k] # 0
                         THEN 0 ELSE Mirror!Published(j, window[j])[k]]
      BY <1>3, <1>a DEF Write, Overwrite, Mirror!Published
    <2>3. QED
      BY <1>3, <2>1, <2>2 DEF Write, Mirror!PublishInPart
  <1>4. ASSUME NEW j \in Jobs, WriteDies(j)
        PROVE  Mirror!PublishInPart(j)
    <2>1. PICK done \in SUBSET window[j], gone \in SUBSET window[j] :
              parquet' = [d \in Days |-> IF d \in gone /\ seen[j][d] > 0
                                            THEN 0 ELSE Overwrite(j, done)[d]]
      BY <1>4 DEF WriteDies
    <2>2. done \in SUBSET Days /\ gone \in SUBSET Days
      BY <1>a
    <2>3. parquet' = [k \in Days |-> IF k \in gone /\ seen[j][k] # 0
                         THEN 0 ELSE Mirror!Published(j, done)[k]]
      BY <2>1, <1>a DEF Overwrite, Mirror!Published
    <2>4. QED
      BY <1>4, <2>2, <2>3 DEF WriteDies, Mirror!PublishInPart
  <1>5. ASSUME NEW j \in Jobs, HitRateOk(j) \/ StepFails(j)
        PROVE  Mirror!Look(j)
    BY <1>5, DropsCache DEF HitRateOk, StepFails
  <1>6. ASSUME NEW j \in Jobs, NothingToRead(j) \/ Quarantine(j) \/ Sync(j)
        PROVE  UNCHANGED <<bronze, seen, parquet>>
    BY <1>6 DEF NothingToRead, Quarantine, Sync
  <1>7. ASSUME NEW j \in Jobs, NEW w \in Windows[j], Submit(j, w)
        PROVE  UNCHANGED <<bronze, seen, parquet>>
    BY <1>7 DEF Submit
  <1>8. CASE UNCHANGED silverVars
    BY <1>8 DEF silverVars
  <1>9. QED
    BY <1>1, <1>2, <1>3, <1>4, <1>5, <1>6, <1>7, <1>8
    DEF SilverNext, JobStep, Mirror!Next

\* The Silver jobs implement a lagged copy, whatever jobs overlap, fail or die.
THEOREM SilverImplementsLaggedCopy == SilverSpec => MirrorsBronze
  BY SilverTypeInit, SilverTypeStep, MirrorInit, MirrorStep, PTL
  DEF SilverSpec, MirrorsBronze, Mirror!Spec

-----------------------------------------------------------------------------
(* The quality audit beside them. *)

\* The audit shares with Silver only the bound on faults.
LEMMA DqStepKeepsSilver ==
    ASSUME SilverTypeOK, DqStep
    PROVE  /\ UNCHANGED <<bronze, stage, window, seen, quiet, parquet, rejects, trino,
                          changes, manual>>
           /\ faults' \in 0..MaxFaults
  <1> USE SilverAssumption DEF silverVars, SilverTypeOK, File
  <1>1. CASE StartDagRun \/ PushId \/ ReadManifests \/ RunChecks \/ Certify
    BY <1>1 DEF StartDagRun, PushId, ReadManifests, RunChecks, Certify
  <1>2. CASE DiesBeforeId \/ CheckBreaks \/ FilesAndDies \/ TryRaises \/ CertifyUnreachable
    BY <1>2 DEF DiesBeforeId, CheckBreaks, FilesAndDies, TryRaises, CertifyUnreachable
  <1>3. QED
    BY <1>1, <1>2 DEF DqStep

LEMMA AroundDqIsSilver ==
    ASSUME AroundDq \/ UNCHANGED pipelineVars
    PROVE  [SilverNext]_silverVars
  BY DEF AroundDq, pipelineVars

LEMMA SilverTypeInDq ==
    ASSUME SilverTypeOK, [DqNext]_pipelineVars
    PROVE  SilverTypeOK'
  <1>1. CASE DqStep
    BY <1>1, DqStepKeepsSilver DEF SilverTypeOK
  <1>2. CASE AroundDq \/ UNCHANGED pipelineVars
    BY <1>2, AroundDqIsSilver, SilverTypeStep
  <1>3. QED
    BY <1>1, <1>2 DEF DqNext

LEMMA UndisturbedInDq ==
    ASSUME SilverTypeOK, Undisturbed, [DqNext]_pipelineVars
    PROVE  Undisturbed'
  <1>1. CASE DqStep
    BY <1>1, DqStepKeepsSilver
    DEF Undisturbed, CachedIsBronze, WrittenIsBronze, RejectsAreBronze, RegisteredIsBronze
  <1>2. CASE AroundDq \/ UNCHANGED pipelineVars
    BY <1>2, AroundDqIsSilver, UndisturbedStep
  <1>3. QED
    BY <1>1, <1>2 DEF DqNext

LEMMA MirrorInDq ==
    ASSUME SilverTypeOK, [DqNext]_pipelineVars
    PROVE  [Mirror!Next]_(Mirror!copyVars)
  <1>1. CASE DqStep
    BY <1>1, DqStepKeepsSilver DEF Mirror!copyVars
  <1>2. CASE AroundDq \/ UNCHANGED pipelineVars
    BY <1>2, AroundDqIsSilver, MirrorStep
  <1>3. QED
    BY <1>1, <1>2 DEF DqNext

\* With the audit beside it, a green and undisturbed job still loses no row.
THEOREM NoRowIsLostBesideTheAudit == DqSpec => []NoRowIsLost
  <1>1. Undisturbed => NoRowIsLost
    BY DEF Undisturbed, WrittenIsBronze, RejectsAreBronze, RegisteredIsBronze, NoRowIsLost
  <1>2. DqInit => SilverTypeOK /\ Undisturbed
    BY SilverTypeInit, UndisturbedInit DEF DqInit
  <1>3. QED
    BY <1>1, <1>2, SilverTypeInDq, UndisturbedInDq, PTL DEF DqSpec

\* With the audit beside it, the Silver table is still a lagged copy of Bronze.
THEOREM PipelineImplementsLaggedCopy == DqSpec => MirrorsBronze
  <1>1. DqInit => SilverTypeOK /\ Mirror!Init
    BY SilverTypeInit, MirrorInit DEF DqInit
  <1>2. QED
    BY <1>1, SilverTypeInDq, MirrorInDq, PTL DEF DqSpec, MirrorsBronze, Mirror!Spec

-----------------------------------------------------------------------------
(* The newest run of the log.  A non-empty set of run ids has a largest one.     *)

LEMMA LargestRun ==
    ASSUME NEW S, S \subseteq RunIds, S # {}
    PROVE  \E r \in S : \A q \in S : q <= r
  <1>1. IsFiniteSet(RunIds) /\ \A r \in S : r \in Int
    BY FS_Interval, DqAssumption DEF RunIds
  <1>2. IsFiniteSet(S)
    BY <1>1, FS_Subset
  <1>3. \E r \in S : \A q \in S : r >= q
    BY <1>1, <1>2, FirstAndLastOf
  <1>4. QED
    BY <1>1, <1>3

LEMMA LatestRunIsFiled ==
    ASSUME AuditTypeOK
    PROVE  \/ LatestRun = 0
           \/ LatestRun \in RunIds /\ log[LatestRun] # {}
  <1> DEFINE S == {r \in RunIds : log[r] # {}}
  <1>1. CASE S = {}
    BY <1>1 DEF LatestRun
  <1>2. CASE S # {}
    <2>1. PICK r \in S : \A q \in S : q <= r
      BY <1>2, LargestRun
    <2>2. \A q \in RunIds : q > r => log[q] = {}
      BY <2>1, DqAssumption DEF RunIds
    <2>3. \E x \in RunIds : log[x] # {} /\ \A q \in RunIds : q > x => log[q] = {}
      BY <2>1, <2>2
    <2>4. QED
      BY <1>2, <2>3 DEF LatestRun
  <1>3. QED
    BY <1>1, <1>2

LEMMA DecideStatus == \A outcomes : Decide(outcomes) \in Statuses
  BY DEF Decide, Statuses

LEMMA ConservationOutcome == \A n : Conservation(n) \in {"pass", "error", "broken"}
  BY DEF Conservation

-----------------------------------------------------------------------------
(* Types.  Where the DAG run stands tells how far its tries and its id are.      *)

Progress ==
    /\ audit = "idle" => tries = 0
    /\ audit = "try" => tries < MaxTries /\ runId < MaxAudits
    /\ audit \in {"manifests", "checks"} => runId \in RunIds

LEMMA AuditTypeInit == DqInit => AuditTypeOK /\ Progress
  <1> SUFFICES ASSUME DqInit PROVE AuditTypeOK /\ Progress
    OBVIOUS
  <1>1. cert \in [run : 0..MaxAudits, status : Statuses]
    BY DqAssumption DEF DqInit, NoCert, Statuses
  <1>2. log \in [RunIds -> Outcomes]
    BY DEF DqInit, Outcomes
  <1>3. tries \in 0..MaxTries /\ runId \in 0..MaxAudits /\ xcom \in {0, runId}
    BY DqAssumption DEF DqInit
  <1>4. still \in BOOLEAN
    BY DEF DqInit
  <1>5. QED
    BY <1>1, <1>2, <1>3, <1>4 DEF DqInit, AuditTypeOK, Progress

LEMMA AfterRaiseProgress ==
    ASSUME AuditTypeOK, NEW t \in 0..MaxTries, AfterRaise(t), tries' = t, runId' = runId
    PROVE  audit' \in {"try", "certify"} /\ Progress'
  BY DqAssumption DEF AuditTypeOK, AfterRaise, Progress

LEMMA FileType ==
    ASSUME AuditTypeOK, Progress, NEW found \in Outcomes, NEW raises, File(found, raises)
    PROVE  AuditTypeOK' /\ Progress'
  <1>1. log' \in [RunIds -> Outcomes]
    BY DEF File, AuditTypeOK
  <1>2. audit' \in {"try", "certify"} /\ Progress'
    BY AfterRaiseProgress DEF File, AuditTypeOK, Progress
  <1>3. QED
    BY <1>1, <1>2 DEF File, AuditTypeOK

LEMMA AuditTypeStep ==
    ASSUME AuditTypeOK, Progress, [DqNext]_pipelineVars
    PROVE  AuditTypeOK' /\ Progress'
  <1> USE DqAssumption
  <1>1. CASE StartDagRun
    BY <1>1 DEF StartDagRun, AuditTypeOK, Progress
  <1>2. CASE PushId
    BY <1>2 DEF PushId, AuditTypeOK, Progress, RunIds
  <1>3. CASE DiesBeforeId
    <2>1. tries' \in 0..MaxTries
      BY <1>3 DEF DiesBeforeId, AuditTypeOK, Progress
    <2>2. audit' \in {"try", "certify"} /\ Progress'
      BY <1>3, <2>1, AfterRaiseProgress DEF DiesBeforeId
    <2>3. QED
      BY <1>3, <2>1, <2>2 DEF DiesBeforeId, AuditTypeOK
  <1>4. CASE ReadManifests
    BY <1>4 DEF ReadManifests, AuditTypeOK, Progress
  <1>5. CASE RunChecks \/ CheckBreaks \/ FilesAndDies
    <2>1. {Conservation(TrinoCount)} \in Outcomes /\ {Conservation(TrinoCount), "broken"} \in Outcomes
      BY ConservationOutcome DEF Outcomes
    <2>2. QED
      BY <1>5, <2>1, FileType DEF RunChecks, CheckBreaks, FilesAndDies
  <1>6. CASE TryRaises
    <2>1. audit' \in {"try", "certify"} /\ Progress'
      BY <1>6, AfterRaiseProgress DEF TryRaises, AuditTypeOK
    <2>2. QED
      BY <1>6, <2>1 DEF TryRaises, AuditTypeOK
  <1>7. CASE Certify
    <2> DEFINE run == IF xcom # 0 THEN xcom ELSE LatestRun
    <2>1. run \in 0..MaxAudits
      BY LatestRunIsFiled DEF AuditTypeOK, RunIds
    <2>2. cert' = IF run = 0 THEN cert ELSE [run |-> run, status |-> Decide(log[run])]
      BY <1>7 DEF Certify
    <2> HIDE DEF run
    <2>3. cert' \in [run : 0..MaxAudits, status : Statuses]
      BY <2>1, <2>2, DecideStatus DEF AuditTypeOK
    <2>4. QED
      BY <1>7, <2>3 DEF Certify, EndDagRun, AuditTypeOK, Progress
  <1>8. CASE CertifyUnreachable
    BY <1>8 DEF CertifyUnreachable, EndDagRun, AuditTypeOK, Progress
  <1>9. CASE AroundDq
    BY <1>9 DEF AroundDq, AuditTypeOK, Progress
  <1>10. CASE UNCHANGED pipelineVars
    BY <1>10 DEF pipelineVars, dqVars, AuditTypeOK, Progress
  <1>11. QED
    BY <1>1, <1>2, <1>3, <1>4, <1>5, <1>6, <1>7, <1>8, <1>9, <1>10 DEF DqNext, DqStep

\* What the manifests add up to is a number, whichever days are audited.
LEMMA ManifestSumIsInt ==
    ASSUME SilverTypeOK
    PROVE  ManifestSum \in Int
  <1> DEFINE rows == [d \in Days |-> Rows(bronze[d])]
  <1>1. IsFiniteSet(Days)
    BY FS_Interval, SilverAssumption DEF Days
  <1>2. IsFiniteSet(Audited)
    BY <1>1, FS_Subset, DqAssumption
  <1>3. \A d \in Audited : rows[d] \in Int
    BY BronzeRows, DqAssumption DEF Rows
  <1> HIDE DEF rows
  <1>4. SumFunctionOnSet(rows, Audited) \in Int
    BY <1>2, <1>3, SumIsInt
  <1>5. QED
    BY <1>4 DEF ManifestSum, rows

SumTypeOK == sumBronze \in Int

LEMMA SumTypeStep ==
    ASSUME SilverTypeOK, SumTypeOK, [DqNext]_pipelineVars
    PROVE  SumTypeOK'
  <1>1. sumBronze' \in {sumBronze, 0, ManifestSum}
    BY DEF DqNext, DqStep, StartDagRun, PushId, DiesBeforeId, ReadManifests, RunChecks,
           CheckBreaks, FilesAndDies, TryRaises, Certify, CertifyUnreachable, AroundDq, File,
           pipelineVars, dqVars
  <1>2. QED
    BY <1>1, ManifestSumIsInt DEF SumTypeOK

\* Every variable of the pipeline keeps its type.
THEOREM PipelineTypeCorrect == DqSpec => []PipelineTypeOK
  <1>1. DqInit => SilverTypeOK /\ SumTypeOK
    BY SilverTypeInit DEF DqInit, SumTypeOK
  <1>2. SilverTypeOK /\ AuditTypeOK /\ SumTypeOK => PipelineTypeOK
    BY DEF PipelineTypeOK, SumTypeOK
  <1>3. QED
    BY <1>1, <1>2, AuditTypeInit, SilverTypeInDq, AuditTypeStep, SumTypeStep, PTL DEF DqSpec

-----------------------------------------------------------------------------
(* What a certified batch rests on.  The sum of the manifests is current as long *)
(* as the data stand still, so a passed conservation in the newest run is one of *)
(* the data that are there; and no run is filed or certified ahead of its id.    *)

ManifestsAreCurrent == audit = "checks" /\ still => sumBronze = ManifestSum

PassedIsConserved ==
    runId \in RunIds /\ still /\ Decide(log[runId]) = "certified" => BatchConserved

NothingAhead ==
    /\ \A r \in RunIds : r > runId => log[r] = {}
    /\ cert.run <= runId
    /\ cert.run = 0 => cert.status = "unknown"

CertifiedIsConserved ==
    still /\ cert.status = "certified" /\ cert.run = runId => BatchConserved

BatchInv == ManifestsAreCurrent /\ PassedIsConserved /\ NothingAhead /\ CertifiedIsConserved

LEMMA BatchInit == DqInit => BatchInv
  BY DqAssumption
  DEF DqInit, BatchInv, ManifestsAreCurrent, PassedIsConserved, NothingAhead,
      CertifiedIsConserved, NoCert, RunIds

LEMMA SameDataSameSums ==
    ASSUME UNCHANGED <<bronze, parquet, trino>>
    PROVE  /\ ManifestSum' = ManifestSum
           /\ TrinoCount' = TrinoCount
           /\ BatchConserved' = BatchConserved
  BY DEF ManifestSum, TrinoCount, BatchConserved, Rows

\* An outcome of conservation that lets a run be certified.
LEMMA PassMeansEqual ==
    ASSUME sumBronze = ManifestSum, NEW found \in Outcomes,
           Conservation(TrinoCount) \in found, Decide(found) = "certified"
    PROVE  BatchConserved
  <1>1. "broken" \notin found /\ "error" \notin found
    BY DEF Decide
  <1>2. Conservation(TrinoCount) = "pass"
    BY <1>1, ConservationOutcome
  <1>3. sumBronze # -1 /\ sumBronze = TrinoCount
    BY <1>2 DEF Conservation
  <1>4. QED
    BY <1>3 DEF ManifestSum, BatchConserved

LEMMA FileKeepsBatch ==
    ASSUME AuditTypeOK, Progress, BatchInv,
           NEW found \in Outcomes, Conservation(TrinoCount) \in found,
           NEW raises, File(found, raises)
    PROVE  BatchInv'
  <1>1. UNCHANGED <<bronze, parquet, trino, still, runId, cert>> /\ audit' # "checks"
    BY DEF File, AfterRaise
  <1>2. runId \in RunIds /\ log' = [log EXCEPT ![runId] = found] /\ audit = "checks"
    BY DEF File, Progress
  <1>3. still /\ Decide(found) = "certified" => BatchConserved
    BY <1>2, PassMeansEqual DEF BatchInv, ManifestsAreCurrent
  <1>4. log'[runId] = found /\ \A r \in RunIds : r # runId => log'[r] = log[r]
    BY <1>2 DEF AuditTypeOK
  <1>5. BatchConserved' = BatchConserved
    BY <1>1, SameDataSameSums
  <1>6. ManifestsAreCurrent' /\ PassedIsConserved' /\ CertifiedIsConserved'
    BY <1>1, <1>3, <1>4, <1>5
    DEF BatchInv, ManifestsAreCurrent, PassedIsConserved, CertifiedIsConserved
  <1>7. NothingAhead'
    BY <1>1, <1>4, <1>2, DqAssumption DEF BatchInv, NothingAhead, AuditTypeOK, RunIds
  <1>8. QED
    BY <1>6, <1>7 DEF BatchInv

LEMMA BatchStep ==
    ASSUME AuditTypeOK, Progress, BatchInv, [DqNext]_pipelineVars
    PROVE  BatchInv'
  <1> USE DEF BatchInv
  <1>1. CASE \/ StartDagRun \/ DiesBeforeId \/ TryRaises \/ CertifyUnreachable
             \/ UNCHANGED pipelineVars
    <2>1. UNCHANGED <<bronze, parquet, trino, still, runId, cert, log>> /\ (audit' = "checks" =>
              audit = "checks" /\ UNCHANGED sumBronze)
      BY <1>1
      DEF StartDagRun, DiesBeforeId, TryRaises, CertifyUnreachable, EndDagRun, AfterRaise,
          silverVars, pipelineVars, dqVars
    <2>2. QED
      BY <2>1, SameDataSameSums
      DEF ManifestsAreCurrent, PassedIsConserved, NothingAhead, CertifiedIsConserved
  <1>2. CASE PushId
    <2>1. runId' = runId + 1 /\ runId' \in RunIds /\ log' = log /\ cert' = cert /\ audit' = "manifests"
      BY <1>2, DqAssumption DEF PushId, Progress, AuditTypeOK, RunIds
    <2>2. log'[runId'] = {} /\ Decide({}) = "unknown"
      BY <2>1, DqAssumption DEF NothingAhead, AuditTypeOK, RunIds, Decide
    <2>3. cert.run \in Nat /\ cert.run < runId'
      BY <2>1, DqAssumption DEF NothingAhead, AuditTypeOK, RunIds
    <2>4. NothingAhead'
      BY <2>1, <2>3, DqAssumption DEF NothingAhead, AuditTypeOK, RunIds
    <2>5. QED
      BY <2>1, <2>2, <2>3, <2>4 DEF ManifestsAreCurrent, PassedIsConserved, CertifiedIsConserved
  <1>3. CASE ReadManifests
    <2>1. UNCHANGED <<bronze, parquet, trino, still, runId, cert, log>> /\ sumBronze' = ManifestSum
      BY <1>3 DEF ReadManifests, silverVars
    <2>2. QED
      BY <2>1, SameDataSameSums
      DEF ManifestsAreCurrent, PassedIsConserved, NothingAhead, CertifiedIsConserved
  <1>4. CASE RunChecks \/ CheckBreaks \/ FilesAndDies
    <2>1. {Conservation(TrinoCount)} \in Outcomes /\ {Conservation(TrinoCount), "broken"} \in Outcomes
      BY ConservationOutcome DEF Outcomes
    <2>2. QED
      BY <1>4, <2>1, FileKeepsBatch DEF RunChecks, CheckBreaks, FilesAndDies
  <1>5. CASE Certify
    <2> DEFINE run == IF xcom # 0 THEN xcom ELSE LatestRun
    <2>1. run = 0 \/ (run \in RunIds /\ run <= runId)
      BY LatestRunIsFiled, DqAssumption DEF NothingAhead, AuditTypeOK, RunIds
    <2>2. cert' = IF run = 0 THEN cert ELSE [run |-> run, status |-> Decide(log[run])]
      BY <1>5 DEF Certify
    <2>3. UNCHANGED <<bronze, parquet, trino, still, runId, log>> /\ audit' = "idle"
      BY <1>5 DEF Certify, EndDagRun, silverVars
    <2> HIDE DEF run
    <2>4. NothingAhead'
      BY <2>1, <2>2, <2>3, DqAssumption DEF NothingAhead, RunIds
    <2>5. BatchConserved' = BatchConserved
      BY <2>3, SameDataSameSums
    <2>6. CertifiedIsConserved'
      BY <2>1, <2>2, <2>3, <2>5 DEF CertifiedIsConserved, PassedIsConserved
    <2>7. QED
      BY <2>3, <2>4, <2>5, <2>6 DEF ManifestsAreCurrent, PassedIsConserved
  <1>6. CASE AroundDq
    <2>1. still' => still /\ UNCHANGED <<bronze, parquet, trino>>
      BY <1>6 DEF AroundDq
    <2>2. UNCHANGED <<audit, runId, sumBronze, log, cert>>
      BY <1>6 DEF AroundDq
    <2>3. QED
      BY <2>1, <2>2, SameDataSameSums
      DEF ManifestsAreCurrent, PassedIsConserved, NothingAhead, CertifiedIsConserved
  <1>7. QED
    BY <1>1, <1>2, <1>3, <1>4, <1>5, <1>6 DEF DqNext, DqStep

\* A batch certified by the newest run is conserved while its data stand still.
THEOREM CertifiedBatchConservedAlways == DqSpec => []CertifiedBatchConserved
  <1>1. BatchInv => CertifiedBatchConserved
    BY DEF BatchInv, CertifiedIsConserved, CertifiedBatchConserved
  <1>2. QED
    BY <1>1, AuditTypeInit, AuditTypeStep, BatchInit, BatchStep, PTL DEF DqSpec
-----------------------------------------------------------------------------
(* What a verdict rests on.  A run that can still file has no verdict yet, and   *)
(* neither has the one in XCom, so a verdict and the rows it judged stay as they *)
(* are.                                                                          *)

VerdictInv ==
    /\ audit \in {"manifests", "checks"} => cert.run < runId
    /\ xcom # 0 => xcom = runId /\ cert.run < runId
    /\ cert.run # 0 => cert.run \in RunIds /\ cert.status = Decide(log[cert.run])

LEMMA VerdictInit == DqInit => VerdictInv
  BY DEF DqInit, VerdictInv, NoCert

LEMMA VerdictStep ==
    ASSUME AuditTypeOK, Progress, NothingAhead, VerdictInv, [DqNext]_pipelineVars
    PROVE  VerdictInv'
  <1> USE DEF VerdictInv
  <1>1. CASE \/ StartDagRun \/ DiesBeforeId \/ ReadManifests \/ TryRaises
             \/ CertifyUnreachable \/ AroundDq \/ UNCHANGED pipelineVars
    <2>1. /\ UNCHANGED <<runId, cert, log>> /\ xcom' \in {0, xcom}
          /\ audit' \in {"manifests", "checks"} => audit \in {"manifests", "checks"}
      BY <1>1
      DEF StartDagRun, DiesBeforeId, ReadManifests, TryRaises, CertifyUnreachable, AroundDq,
          EndDagRun, AfterRaise, pipelineVars, dqVars
    <2>2. QED
      BY <2>1
  <1>2. CASE PushId
    <2>1. UNCHANGED <<cert, log>> /\ runId' = runId + 1 /\ xcom' = runId'
      BY <1>2 DEF PushId
    <2>2. cert.run \in Nat /\ cert.run < runId'
      BY <2>1, DqAssumption DEF NothingAhead, AuditTypeOK
    <2>3. QED
      BY <2>1, <2>2
  <1>3. CASE RunChecks \/ CheckBreaks \/ FilesAndDies
    <2>1. PICK found, raises : File(found, raises)
      BY <1>3 DEF RunChecks, CheckBreaks, FilesAndDies
    <2>2. /\ log' = [log EXCEPT ![runId] = found] /\ UNCHANGED <<runId, xcom, cert>>
          /\ audit = "checks" /\ audit' \in {"try", "certify"}
      BY <2>1 DEF File, AfterRaise
    <2>3. cert.run # 0 => log'[cert.run] = log[cert.run]
      BY <2>2, DqAssumption DEF AuditTypeOK, RunIds
    <2>4. QED
      BY <2>2, <2>3
  <1>4. CASE Certify
    <2> DEFINE run == IF xcom # 0 THEN xcom ELSE LatestRun
    <2>1. run = 0 \/ run \in RunIds
      BY LatestRunIsFiled, DqAssumption DEF AuditTypeOK, RunIds
    <2>2. /\ cert' = IF run = 0 THEN cert ELSE [run |-> run, status |-> Decide(log[run])]
          /\ UNCHANGED log /\ audit' = "idle" /\ xcom' = 0
      BY <1>4 DEF Certify, EndDagRun
    <2> HIDE DEF run
    <2>3. QED
      BY <2>1, <2>2
  <1>5. QED
    BY <1>1, <1>2, <1>3, <1>4 DEF DqNext, DqStep

\* A verdict is of the DAG run that files it and of nothing when that run filed no
\* observations, and it is not revised.
THEOREM VerdictIsOfThisRunAlways == DqSpec => VerdictIsOfThisRun
  <1> DEFINE A == /\ audit = "certify" /\ xcom # 0 /\ cert' # cert =>
                        /\ cert'.run = xcom /\ cert.run < xcom
                        /\ log[xcom] = {} => cert'.status = "unknown"
                  /\ cert'.run = cert.run => cert' = cert
                  /\ cert.run # 0 => cert.status = Decide(log'[cert.run])
  <1>1. ASSUME AuditTypeOK, Progress, NothingAhead, VerdictInv, VerdictInv', [DqNext]_pipelineVars
        PROVE  A
    <2>1. CASE cert' = cert
      BY <1>1, <2>1 DEF VerdictInv
    <2>2. CASE Certify /\ cert' # cert
      <3> DEFINE run == IF xcom # 0 THEN xcom ELSE LatestRun
      <3>1. /\ run # 0 /\ cert' = [run |-> run, status |-> Decide(log[run])]
            /\ UNCHANGED log
        BY <2>2 DEF Certify
      <3>2. xcom # 0 => run = xcom /\ cert.run < run
        BY <1>1 DEF VerdictInv
      <3> HIDE DEF run
      <3>3. log[run] = {} => cert'.status = "unknown"
        BY <3>1 DEF Decide
      <3>4. cert.run # 0 => cert.status = Decide(log'[cert.run])
        BY <3>1, <1>1 DEF VerdictInv
      <3>5. cert'.run = cert.run => cert' = cert
        <4>1. cert \in [run : 0..MaxAudits, status : Statuses]
          BY <1>1 DEF AuditTypeOK
        <4>2. QED
          BY <4>1, <3>1, <3>4
      <3>6. QED
        BY <3>1, <3>2, <3>3, <3>4, <3>5
    <2>3. ~Certify => cert' = cert
      BY <1>1
      DEF DqNext, DqStep, StartDagRun, PushId, DiesBeforeId, ReadManifests, RunChecks,
          CheckBreaks, FilesAndDies, TryRaises, CertifyUnreachable, AroundDq, File,
          pipelineVars, dqVars
    <2>4. QED
      BY <2>1, <2>2, <2>3
  <1> HIDE DEF A
  <1>2. DqSpec => [](AuditTypeOK /\ Progress /\ BatchInv /\ VerdictInv)
    <2>1. BatchInv => NothingAhead
      BY DEF BatchInv
    <2>2. QED
      BY <2>1, AuditTypeInit, AuditTypeStep, BatchInit, BatchStep, VerdictInit, VerdictStep, PTL
      DEF DqSpec
  <1>3. BatchInv => NothingAhead
    BY DEF BatchInv
  <1>4. DqSpec => [][A]_pipelineVars
    BY <1>1, <1>2, <1>3, PTL DEF DqSpec
  <1>5. QED
    BY <1>4 DEF VerdictIsOfThisRun, A

=============================================================================
