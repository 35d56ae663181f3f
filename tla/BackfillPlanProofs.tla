-------------------------- MODULE BackfillPlanProofs --------------------------
(* Theorems about BackfillPlan, for every plan, number of runs, failures,      *)
(* signals and kills.                                                          *)
EXTENDS BackfillPlan, TLAPS

USE DEF Shells

\* A shell is at a window of its plan while it runs or records one.
InPlan == \A s \in Shells : pc[s] \in {"runner", "mark"} => at[s] <= NumWindows[s]

LEMMA WindowsAre ==
    \A s \in Shells, i \in Nat \ {0} : i <= NumWindows[s] => <<s, i>> \in Windows
  BY PlanAssumption DEF Windows

\* A run's process id is one no marker is named after, unless ids come again.
LEMMA FreshPid ==
    /\ NewPids \subseteq Pids
    /\ ~ReusePids => \A p \in NewPids : p \notin markers
  BY PlanAssumption DEF NewPids

LEMMA TypeInit == Init => TypeOK /\ InPlan
  <1> SUFFICES ASSUME Init
               PROVE  TypeOK /\ InPlan
    OBVIOUS
  <1>1. dry \in BOOLEAN /\ killed \in BOOLEAN /\ cutOff \in BOOLEAN
    BY DEF Init
  <1>2. /\ faults \in 0..MaxFaults
        /\ signals \in 0..MaxSignals
        /\ kills \in 0..MaxKills
    BY PlanAssumption DEF Init
  <1>3. \A s \in Shells : at[s] <= NumWindows[s] + 1
    BY PlanAssumption DEF Init
  <1>4. QED
    BY <1>1, <1>2, <1>3 DEF Init, TypeOK, InPlan

LEMMA TypeStep ==
    ASSUME TypeOK, InPlan, [Next]_vars
    PROVE  TypeOK' /\ InPlan'
  <1> USE DEF TypeOK, InPlan, counters
  <1>1. ASSUME NEW d \in BOOLEAN, NEW skip \in SUBSET Skippable, StartRun(d, skip)
        PROVE  TypeOK' /\ InPlan'
    <2>1. \A s \in Shells : at'[s] <= NumWindows[s] + 1
      BY <1>1, PlanAssumption DEF StartRun
    <2>2. killed' \in BOOLEAN /\ dry' \in BOOLEAN /\ cutOff' \in BOOLEAN
      BY <1>1 DEF StartRun
    <2>3. pid' \in Pids
      BY <1>1, FreshPid DEF StartRun
    <2>4. /\ pc' \in [Shells -> {"next", "runner", "mark", "wait", "done", "trap",
                                 "claim", "post", "fail", "exit", "over"}]
          /\ at' \in [Shells -> Nat \ {0}]
          /\ step' \in [Shells -> {1, 2}]
          /\ pending' \in [Shells -> {"none", "INT", "TERM"}]
          /\ cause' \in [Shells -> {"ok", "error", "INT", "TERM", "killed"}]
      BY <1>1 DEF StartRun
    <2>5. InPlan'
      BY <1>1 DEF StartRun, Alive
    <2>6. /\ UNCHANGED <<steps, markers, done, landed, counters>>
          /\ posted' = 0
          /\ watchdog' = "started"
          /\ leaving' = {}
          /\ skipped' \in SUBSET Skippable
      BY <1>1 DEF StartRun
    <2>7. QED
      BY <2>1, <2>2, <2>3, <2>4, <2>5, <2>6
  <1>2. ASSUME NEW s \in Shells, Skip(s)
        PROVE  TypeOK' /\ InPlan'
    BY <1>2, PlanAssumption DEF Skip
  <1>3. ASSUME NEW s \in Shells, RunWindow(s)
        PROVE  TypeOK' /\ InPlan'
    BY <1>3, PlanAssumption DEF RunWindow
  <1>4. ASSUME NEW s \in Shells, RunnerOk(s)
        PROVE  TypeOK' /\ InPlan'
    <2>1. landed' \in SUBSET (Shells \X Nat \X {1, 2})
      BY <1>4 DEF RunnerOk
    <2>2. QED
      BY <1>4, <2>1, PlanAssumption DEF RunnerOk
  <1>5. ASSUME NEW s \in Shells, RunnerFails(s)
        PROVE  TypeOK' /\ InPlan'
    BY <1>5, PlanAssumption DEF RunnerFails
  <1>6. ASSUME NEW s \in Shells, Mark(s)
        PROVE  TypeOK' /\ InPlan'
    <2>1. <<s, at[s]>> \in Windows
      BY <1>6, WindowsAre DEF Mark
    <2>2. QED
      BY <1>6, <2>1, PlanAssumption DEF Mark
  <1>7. ASSUME Handover
        PROVE  TypeOK' /\ InPlan'
    <2>1. CASE Delegate
      BY <2>1, PlanAssumption DEF Delegate
    <2>2. CASE ChildDone
      BY <2>2, PlanAssumption DEF ChildDone
    <2>3. CASE ChildReturns
      BY <2>3, PlanAssumption DEF ChildReturns
    <2>4. QED
      BY <1>7, <2>1, <2>2, <2>3 DEF Handover
  <1>8. ASSUME NEW s \in Shells, PlanDone(s)
        PROVE  TypeOK' /\ InPlan'
    BY <1>8, PlanAssumption DEF PlanDone, Ping
  <1>18. ASSUME NEW s \in Shells, Claim(s)
         PROVE  TypeOK' /\ InPlan'
    <2>1. PICK where \in {"fail", "post"} : pc' = [pc EXCEPT ![s] = where]
      BY <1>18 DEF Claim
    <2>2. QED
      BY <1>18, <2>1, PlanAssumption DEF Claim
  <1>16. ASSUME NEW s \in Shells, Exit(s)
         PROVE  TypeOK' /\ InPlan'
    <2>1. markers' \in SUBSET Pids
      BY <1>16 DEF Exit, Unmarked
    <2>2. QED
      BY <1>16, <2>1, PlanAssumption DEF Exit
  <1>15. ASSUME NEW s \in Shells, Trap(s)
         PROVE  TypeOK' /\ InPlan'
    <2>1. cutOff' \in BOOLEAN
      BY <1>15 DEF Trap
    <2>2. leaving' \in SUBSET Shells /\ markers' \in SUBSET Pids
      BY <1>15 DEF Trap, Unmarked
    <2>3. QED
      BY <1>15, <2>1, <2>2, PlanAssumption DEF Trap
  <1>9. ASSUME NEW s \in Shells, Post(s)
        PROVE  TypeOK' /\ InPlan'
    BY <1>9, PlanAssumption DEF Post
  <1>17. ASSUME NEW s \in Shells, Fail(s)
         PROVE  TypeOK' /\ InPlan'
    <2>1. PICK where \in {"over", "exit"} : pc' = [pc EXCEPT ![s] = where]
      BY <1>17 DEF Fail
    <2>2. /\ pc' \in [Shells -> {"next", "runner", "mark", "wait", "done", "trap",
                                 "claim", "post", "fail", "exit", "over"}]
          /\ InPlan'
      BY <1>17, <2>1 DEF Fail
    <2>3. watchdog' \in {"new", "started", "success", "fail"}
      BY <1>17 DEF Fail, Ping
    <2>4. QED
      BY <1>17, <2>2, <2>3, PlanAssumption DEF Fail
  <1>10. ASSUME NEW s \in Shells, NEW sig \in {"INT", "TERM"}, SignalShell(s, sig)
         PROVE  TypeOK' /\ InPlan'
    BY <1>10, PlanAssumption DEF SignalShell
  <1>11. ASSUME NEW sig \in {"INT", "TERM"}, SignalGroup(sig)
         PROVE  TypeOK' /\ InPlan'
    BY <1>11, PlanAssumption DEF SignalGroup
  <1>12. ASSUME KillAll
         PROVE  TypeOK' /\ InPlan'
    <2>1. killed' \in BOOLEAN
      BY <1>12 DEF KillAll
    <2>2. QED
      BY <1>12, <2>1, PlanAssumption DEF KillAll
  <1>19. ASSUME KillChild
         PROVE  TypeOK' /\ InPlan'
    <2>1. killed' \in BOOLEAN
      BY <1>19 DEF KillChild
    <2>2. QED
      BY <1>19, <2>1, PlanAssumption DEF KillChild
  <1>13. CASE UNCHANGED vars
    BY <1>13 DEF vars, shellVars
  <1>14. QED
    BY <1>1, <1>2, <1>3, <1>4, <1>5, <1>6, <1>7, <1>8, <1>9, <1>10, <1>11, <1>12, <1>13,
       <1>15, <1>16, <1>17, <1>18, <1>19 DEF Next, ShellStep

LEMMA TypeAlways == Spec => [](TypeOK /\ InPlan)
  BY TypeInit, TypeStep, PTL DEF Spec

\* Every variable keeps its type.
THEOREM PlanTypeCorrect == Spec => []TypeOK
  BY TypeAlways, PTL

(* ------------------------------------------------------------------------- *)
(* Checkpoints.                                                              *)

\* The runner's commands before the one in progress have succeeded.
Climbed ==
    \A s \in Shells : ~dry =>
        /\ pc[s] = "runner" =>
              step[s] <= steps /\ \A k \in 1..(step[s] - 1) : <<s, at[s], k>> \in landed
        /\ pc[s] = "mark" => \A k \in 1..steps : <<s, at[s], k>> \in landed

CheckpointInv == Climbed /\ CheckpointMeansRan

LEMMA CheckpointStep ==
    ASSUME TypeOK, InPlan, CheckpointInv, [Next]_vars
    PROVE  CheckpointInv'
  <1> USE DEF CheckpointInv, CheckpointMeansRan, Climbed, TypeOK
  <1>1. ASSUME NEW d \in BOOLEAN, NEW skip \in SUBSET Skippable, StartRun(d, skip)
        PROVE  CheckpointInv'
    BY <1>1 DEF StartRun, Alive
  <1>2. ASSUME NEW s \in Shells, RunWindow(s)
        PROVE  CheckpointInv'
    BY <1>2 DEF RunWindow
  <1>3. ASSUME NEW s \in Shells, RunnerOk(s)
        PROVE  CheckpointInv'
    <2>1. landed \subseteq landed'
      BY <1>3 DEF RunnerOk
    <2>2. CheckpointMeansRan'
      BY <1>3, <2>1 DEF RunnerOk
    <2>3. Climbed'
      <3> SUFFICES ASSUME ~dry, NEW r \in Shells
                   PROVE  /\ pc'[r] = "runner" =>
                               /\ step'[r] <= steps
                               /\ \A k \in 1..(step'[r] - 1) : <<r, at[r], k>> \in landed'
                          /\ pc'[r] = "mark" =>
                               \A k \in 1..steps : <<r, at[r], k>> \in landed'
        BY <1>3 DEF RunnerOk
      <3>1. CASE r # s
        BY <1>3, <2>1, <3>1 DEF RunnerOk
      <3>2. CASE r = s
        BY <1>3, <2>1, <3>2 DEF RunnerOk
      <3>3. QED
        BY <3>1, <3>2
    <2>4. QED
      BY <2>2, <2>3
  <1>4. ASSUME NEW s \in Shells, Mark(s)
        PROVE  CheckpointInv'
    BY <1>4 DEF Mark
  <1>5. ASSUME NEW s \in Shells, Skip(s) \/ RunnerFails(s)
        PROVE  CheckpointInv'
    BY <1>5 DEF Skip, RunnerFails
  <1>6. ASSUME NEW s \in Shells,
               PlanDone(s) \/ Exit(s) \/ Trap(s) \/ Claim(s) \/ Post(s) \/ Fail(s)
        PROVE  CheckpointInv'
    BY <1>6 DEF PlanDone, Exit, Trap, Claim, Post, Fail
  <1>7. ASSUME Handover
        PROVE  CheckpointInv'
    BY <1>7 DEF Handover, Delegate, ChildDone, ChildReturns
  <1>8. ASSUME NEW s \in Shells, NEW sig \in {"INT", "TERM"},
               SignalShell(s, sig) \/ SignalGroup(sig)
        PROVE  CheckpointInv'
    BY <1>8 DEF SignalShell, SignalGroup
  <1>9. ASSUME KillAll \/ KillChild
        PROVE  CheckpointInv'
    BY <1>9 DEF KillAll, KillChild
  <1>10. CASE UNCHANGED vars
    BY <1>10 DEF vars, shellVars
  <1>11. QED
    BY <1>1, <1>2, <1>3, <1>4, <1>5, <1>6, <1>7, <1>8, <1>9, <1>10 DEF Next, ShellStep

\* No signal, failure, kill or dry run records a window that did not run.
THEOREM CheckpointSafe == Spec => []CheckpointMeansRan
  <1>1. Init => CheckpointInv
    BY DEF Init, CheckpointInv, Climbed, CheckpointMeansRan
  <1>2. TypeOK /\ InPlan /\ CheckpointInv /\ [Next]_vars => CheckpointInv'
    BY CheckpointStep
  <1>3. CheckpointInv => CheckpointMeansRan
    BY DEF CheckpointInv
  <1>4. QED
    BY <1>1, <1>2, <1>3, TypeAlways, PTL DEF Spec

(* ------------------------------------------------------------------------- *)
(* Alerts.  The marker decides who posts; that it works rests on the parent  *)
(* being in "wait" for as long as the child lives.                           *)

\* The child runs only while the parent waits for it.
ChildUnderWait == Alive("child") => pc["parent"] = "wait"

\* A message posted or on its way means the marker is there, and only one
\* shell is ever about to post.  A signal in the parent's EXIT trap may find the
\* marker gone, once: the trap is not begun again.
OnePost ==
    /\ \A s \in Shells : pc[s] = "post" => pid \in markers
    /\ "parent" \notin leaving =>
          /\ Alive("parent") /\ posted = 1 => pid \in markers
          /\ posted <= 1
          /\ \A s \in Shells : pc[s] = "post" => posted = 0
    /\ "parent" \in leaving =>
          /\ pc["parent"] \in {"claim", "post", "fail", "over"}
          /\ posted <= 2
          /\ posted = 2 /\ Alive("parent") => pid \in markers
          /\ pc["parent"] = "post" => posted <= 1

\* With a fresh process id the marker is the run's own: it was claimed by a
\* shell that has posted or is about to, unless a trap called it away.
MarkerIsOurs ==
    ~ReusePids /\ ~killed /\ ~cutOff =>
        /\ Alive("parent") /\ pid \in markers =>
              posted >= 1 \/ \E s \in Shells : pc[s] = "post"
        /\ pc["parent"] = "fail" => posted >= 1
        /\ pc["parent"] = "exit" /\ cause["parent"] # "ok" => posted >= 1
        /\ FailureIsTold

\* What a shell reports; a child not yet started has nothing to report.
Causes ==
    /\ \A s \in Shells :
          /\ pc[s] \in {"next", "runner", "mark", "wait", "done", "trap"} => cause[s] = "ok"
          /\ pc[s] \in {"claim", "post", "fail"} => cause[s] \in {"error", "INT", "TERM"}
          /\ pc[s] = "exit" => cause[s] # "killed"
    /\ pc["parent"] \in {"next", "runner", "mark"} => cause["child"] = "ok"

AlertInv == ChildUnderWait /\ OnePost /\ MarkerIsOurs /\ Causes

LEMMA AlertStep ==
    ASSUME TypeOK, AlertInv, [Next]_vars
    PROVE  AlertInv'
  <1> USE DEF AlertInv, ChildUnderWait, OnePost, MarkerIsOurs, Causes, FailureIsTold,
              Alive, TypeOK
  <1>1. ASSUME NEW d \in BOOLEAN, NEW skip \in SUBSET Skippable, StartRun(d, skip)
        PROVE  AlertInv'
    <2>1. ~ReusePids => pid' \notin markers
      BY <1>1, FreshPid DEF StartRun
    <2>2. QED
      BY <1>1, <2>1 DEF StartRun
  <1>2. ASSUME NEW s \in Shells, Skip(s) \/ RunWindow(s) \/ Mark(s)
        PROVE  AlertInv'
    BY <1>2 DEF Skip, RunWindow, Mark
  <1>3. ASSUME NEW s \in Shells, RunnerOk(s) \/ RunnerFails(s)
        PROVE  AlertInv'
    BY <1>3 DEF RunnerOk, RunnerFails
  <1>4. ASSUME NEW s \in Shells, PlanDone(s)
        PROVE  AlertInv'
    BY <1>4 DEF PlanDone
  <1>14. ASSUME NEW s \in Shells, Exit(s)
         PROVE  AlertInv'
    BY <1>14 DEF Exit, Unmarked, OwnsMarker
  <1>5. ASSUME NEW s \in Shells, Trap(s)
        PROVE  AlertInv'
    <2>1. CASE s = "child"
      BY <1>5, <2>1 DEF Trap, Free, Unmarked, OwnsMarker
    <2>2. CASE s = "parent" /\ pc["parent"] = "exit"
      BY <1>5, <2>2 DEF Trap, Free, Unmarked, OwnsMarker
    <2>3. CASE s = "parent" /\ pc["parent"] # "exit"
      <3>1. ~cutOff' => ~cutOff /\ pc["parent"] # "post"
        BY <1>5, <2>3 DEF Trap
      <3>2. ~Alive("child") /\ UNCHANGED <<markers, leaving, posted, killed, pid>>
        BY <1>5, <2>3 DEF Trap, Free
      <3>3. /\ pc' = [pc EXCEPT !["parent"] = "claim"]
            /\ cause' = [cause EXCEPT !["parent"] = pending["parent"]]
            /\ pending["parent"] \in {"INT", "TERM"}
            /\ pc["parent"] # "over"
        BY <1>5, <2>3 DEF Trap
      <3>4. MarkerIsOurs'
        BY <3>1, <3>2, <3>3
      <3>5. ChildUnderWait' /\ Causes'
        BY <2>3, <3>2, <3>3
      <3>6. OnePost'
        BY <2>3, <3>2, <3>3
      <3>7. QED
        BY <3>4, <3>5, <3>6
    <2>4. QED
      BY <2>1, <2>2, <2>3
  <1>6. ASSUME NEW s \in Shells, Claim(s)
        PROVE  AlertInv'
    BY <1>6 DEF Claim
  <1>7. ASSUME NEW s \in Shells, Post(s)
        PROVE  AlertInv'
    BY <1>7 DEF Post
  <1>8. ASSUME NEW s \in Shells, Fail(s)
        PROVE  AlertInv'
    BY <1>8 DEF Fail
  <1>9. ASSUME Handover
        PROVE  AlertInv'
    BY <1>9 DEF Handover, Delegate, ChildDone, ChildReturns
  <1>10. ASSUME NEW s \in Shells, NEW sig \in {"INT", "TERM"},
                SignalShell(s, sig) \/ SignalGroup(sig)
         PROVE  AlertInv'
    BY <1>10 DEF SignalShell, SignalGroup
  <1>11. ASSUME KillAll \/ KillChild
         PROVE  AlertInv'
    BY <1>11 DEF KillAll, KillChild
  <1>12. CASE UNCHANGED vars
    BY <1>12 DEF vars, shellVars
  <1>13. QED
    BY <1>1, <1>2, <1>3, <1>4, <1>5, <1>6, <1>7, <1>8, <1>9, <1>10, <1>11, <1>12, <1>14
    DEF Next, ShellStep

LEMMA AlertAlways == Spec => []AlertInv
  <1>1. Init => AlertInv
    BY DEF Init, AlertInv, ChildUnderWait, OnePost, MarkerIsOurs, Causes, FailureIsTold, Alive
  <1>2. TypeOK /\ AlertInv /\ [Next]_vars => AlertInv'
    BY AlertStep
  <1>3. QED
    BY <1>1, <1>2, TypeAlways, PTL DEF Spec

\* One failure gives at most one message, whatever signals reach which shell and
\* when; a signal in the parent's EXIT trap may add its own.
THEOREM OneMessageSafe == Spec => []OneMessagePerRun
  <1>1. AlertInv => OneMessagePerRun
    BY DEF AlertInv, OnePost, OneMessagePerRun
  <1>2. QED
    BY <1>1, AlertAlways, PTL

\* With fresh process ids, a run that fails or is interrupted has told somebody,
\* unless a shell of it was killed outright or called away by a signal between
\* its claim of the alert and its POST.
THEOREM FailureToldWithFreshPids ==
    ASSUME ~ReusePids
    PROVE  Spec => []FailureIsTold
  <1>1. AlertInv => FailureIsTold
    BY DEF AlertInv, MarkerIsOurs, FailureIsTold
  <1>2. QED
    BY <1>1, AlertAlways, PTL

(* ------------------------------------------------------------------------- *)
(* The watchdog.                                                             *)

\* Windows passed by in a real run are recorded or of a skipped phase.
PassedAreDone ==
    \A s \in Shells : \A i \in Nat \ {0} : i < at[s] => dry \/ LeftOut(<<s, i>>)

\* Whether shell s is past its last window.
PastAll(s) == at[s] = NumWindows[s] + 1

\* How far the plans are when a shell stands where it stands.
Reached ==
    /\ pc["child"] = "done" => PastAll("child")
    /\ pc["child"] = "exit" /\ cause["child"] = "ok" => PastAll("child")
    /\ pc["parent"] \in {"wait", "done"} => PastAll("parent")
    /\ pc["parent"] = "wait" /\ ~Alive("child") /\ cause["child"] = "ok" =>
          PastAll("child")
    /\ pc["parent"] = "done" => ~Alive("child") /\ ("311" \in skipped \/ PastAll("child"))
    /\ pc["parent"] = "exit" /\ watchdog = "success" => cause["parent"] = "ok"

WatchdogInv == PassedAreDone /\ Reached /\ SuccessPingIsHonest

LEMMA AllPassedIsAllDone ==
    ASSUME TypeOK, PassedAreDone, ~dry, PastAll("parent"),
           "311" \in skipped \/ PastAll("child")
    PROVE  \A w \in Windows : LeftOut(w)
  <1>1. ASSUME NEW w \in Windows
        PROVE  LeftOut(w)
    <2>1. PICK s \in Shells : w \in {s} \X (1..NumWindows[s])
      BY <1>1 DEF Windows
    <2>2. PICK i \in 1..NumWindows[s] : w = <<s, i>>
      BY <2>1
    <2>3. CASE PastAll(s)
      <3>1. i \in Nat \ {0} /\ i < at[s]
        BY <2>2, <2>3, PlanAssumption DEF PastAll
      <3>2. QED
        BY <2>2, <3>1 DEF PassedAreDone
    <2>4. CASE s = "child" /\ "311" \in skipped
      BY <2>2, <2>4 DEF LeftOut, Phase
    <2>5. QED
      BY <2>3, <2>4
  <1>2. QED
    BY <1>1

LEMMA WatchdogStep ==
    ASSUME TypeOK, InPlan, AlertInv, WatchdogInv, [Next]_vars
    PROVE  WatchdogInv'
  <1> USE DEF WatchdogInv, AlertInv, ChildUnderWait, Causes, PassedAreDone, Reached,
              PastAll, LeftOut, SuccessPingIsHonest, Alive, TypeOK
  <1>1. ASSUME NEW d \in BOOLEAN, NEW skip \in SUBSET Skippable, StartRun(d, skip)
        PROVE  WatchdogInv'
    BY <1>1 DEF StartRun
  <1>2. ASSUME NEW s \in Shells, Skip(s) \/ RunWindow(s) \/ Mark(s)
        PROVE  WatchdogInv'
    BY <1>2 DEF Skip, RunWindow, Mark
  <1>3. ASSUME NEW s \in Shells, RunnerOk(s) \/ RunnerFails(s)
        PROVE  WatchdogInv'
    BY <1>3 DEF RunnerOk, RunnerFails
  <1>4. ASSUME NEW s \in Shells, PlanDone(s)
        PROVE  WatchdogInv'
    <2>1. PassedAreDone' /\ Reached'
      BY <1>4 DEF PlanDone, Ping, OwnsMarker
    <2>2. SuccessPingIsHonest'
      <3>1. CASE s = "parent"
        <4>1. dry \/ \A w \in Windows : LeftOut(w)
          BY <1>4, <3>1, AllPassedIsAllDone DEF PlanDone
        <4>2. pc'["parent"] = "exit" /\ cause'["parent"] = "ok"
              /\ UNCHANGED <<dry, done, skipped>>
          BY <1>4, <3>1 DEF PlanDone
        <4>3. QED
          BY <4>1, <4>2
      <3>2. CASE s = "child"
        BY <1>4, <3>2 DEF PlanDone, Ping, OwnsMarker
      <3>3. QED
        BY <3>1, <3>2
    <2>3. QED
      BY <2>1, <2>2
  <1>5. ASSUME NEW s \in Shells, Trap(s) \/ Claim(s) \/ Post(s)
        PROVE  WatchdogInv'
    BY <1>5 DEF Trap, Free, Claim, Post
  <1>6. ASSUME NEW s \in Shells, Fail(s) \/ Exit(s)
        PROVE  WatchdogInv'
    BY <1>6 DEF Fail, Exit, Ping, OwnsMarker
  <1>7. ASSUME Handover
        PROVE  WatchdogInv'
    BY <1>7, PlanAssumption DEF Handover, Delegate, ChildDone, ChildReturns
  <1>8. ASSUME NEW s \in Shells, NEW sig \in {"INT", "TERM"},
               SignalShell(s, sig) \/ SignalGroup(sig)
        PROVE  WatchdogInv'
    BY <1>8 DEF SignalShell, SignalGroup
  <1>9. ASSUME KillAll \/ KillChild
        PROVE  WatchdogInv'
    BY <1>9 DEF KillAll, KillChild
  <1>10. CASE UNCHANGED vars
    BY <1>10 DEF vars, shellVars
  <1>11. QED
    BY <1>1, <1>2, <1>3, <1>4, <1>5, <1>6, <1>7, <1>8, <1>9, <1>10 DEF Next, ShellStep

\* The watchdog is left on a success only by a run that did everything it was
\* not told to skip.
THEOREM WatchdogSafe == Spec => []SuccessPingIsHonest
  <1>1. Init => WatchdogInv
    BY DEF Init, WatchdogInv, PassedAreDone, Reached, PastAll, SuccessPingIsHonest, Alive
  <1>2. TypeOK /\ InPlan /\ AlertInv /\ WatchdogInv /\ [Next]_vars => WatchdogInv'
    BY WatchdogStep
  <1>3. WatchdogInv => SuccessPingIsHonest
    BY DEF WatchdogInv
  <1>4. QED
    BY <1>1, <1>2, <1>3, TypeAlways, AlertAlways, PTL DEF Spec
=============================================================================
