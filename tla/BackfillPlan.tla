----------------------------- MODULE BackfillPlan -----------------------------
(***************************************************************************)
(* The long-running backfill plans: scripts/backfill/_plan_lib.sh and the  *)
(* plan scripts that source it.                                            *)
(*                                                                         *)
(* A plan is a list of windows.  Each runs through an external command (the*)
(* Bronze CLI; or spark-submit and then sync_partitions for Silver) and is *)
(* appended to the plan's state file once the command has exited 0.  A run *)
(* started again skips what the file records.  plan_full_backfill.sh, the  *)
(* "parent", runs its own windows and then plan_wpg_311_backfill.sh, the   *)
(* "child", with a state file of its own; a plan without delegation is one *)
(* whose child has no windows.                                             *)
(*                                                                         *)
(* A phase of plan_full_backfill.sh (the static tables, the weather, 311)  *)
(* can be left out of a run on purpose: SKIP_STATIC, SKIP_WEATHER, SKIP_311*)
(*                                                                         *)
(* A shell that sees a command fail (ERR trap) or gets a signal (INT, TERM *)
(* or HUP; TERM stands for both of the last two) posts one alert.  The two *)
(* shells share a marker directory named after the parent's process id so  *)
(* that one failure gives one message.  bash runs a signal's trap when its *)
(* foreground command has returned, also in the middle of another trap: a  *)
(* report can be cut off by a signal, which then finds the marker and says *)
(* nothing.  A shell that re-raises TERM or HUP on itself ends without     *)
(* running its EXIT trap, and no shell runs it twice.                      *)
(*                                                                         *)
(* Any process can be killed outright, and runs are started one after      *)
(* another.                                                                *)
(***************************************************************************)
EXTENDS Naturals

CONSTANTS
    NumWindows,   \* NumWindows[s]: windows of the plan shell s runs
    NumStatic,    \* the parent's first windows that are static tables
    Skippable,    \* phases the plan has a SKIP_ flag for
    Pids,         \* process ids the parent can get
    ReusePids,    \* whether a run may get the id of a run whose marker is left
    MaxFaults,    \* bound: windows that fail
    MaxSignals,   \* bound: signals sent
    MaxKills      \* bound: kill -9, or the machine going away

Shells == {"parent", "child"}
Windows == UNION {{s} \X (1..NumWindows[s]) : s \in Shells}
Phases == {"static", "weather", "311"}

\* The phase of plan_full_backfill.sh a window belongs to.
Phase(w) ==
    IF w[1] = "child" THEN "311"
    ELSE IF w[2] <= NumStatic THEN "static" ELSE "weather"

ASSUME PlanAssumption ==
    /\ NumWindows \in [Shells -> Nat]
    /\ NumStatic \in Nat
    /\ Skippable \subseteq Phases
    /\ ReusePids \in BOOLEAN
    /\ MaxFaults \in Nat
    /\ MaxSignals \in Nat
    /\ MaxKills \in Nat

VARIABLES
    steps,     \* commands a window's runner issues: 1 (Bronze) or 2 (Silver)
    dry,       \* DRY_RUN of the current run
    skipped,   \* phases the current run was told to leave out
    pid,       \* process id of the current run's parent shell
    markers,   \* process ids with a .notified-<pid> directory
    done,      \* the state files: windows recorded as done
    landed,    \* <<shell, window, step>> whose command succeeded for real
    pc,        \* pc[s]: where shell s stands
    at,        \* at[s]: the window shell s is at
    step,      \* step[s]: the runner's command in progress
    pending,   \* pending[s]: a signal whose trap has not run yet, or "none"
    cause,     \* cause[s]: what shell s reports and ends with
    leaving,   \* shells whose EXIT trap has begun and was interrupted
    posted,    \* alerts posted by the current run
    cutOff,    \* a trap came between a shell's claim and the end of its POST
    watchdog,  \* the last ping the watchdog got
    killed,    \* a shell of the current run was killed outright
    faults, signals, kills   \* counters of the bounds

shellVars == <<pc, at, step, pending, cause, leaving>>
counters == <<faults, signals, kills>>
vars == <<steps, dry, skipped, pid, markers, done, landed, shellVars, posted,
          cutOff, watchdog, killed, counters>>

Init ==
    /\ steps \in {1, 2}
    /\ dry = FALSE
    /\ skipped = {}
    /\ markers = {}
    /\ pid \in Pids
    /\ done = {}
    /\ landed = {}
    /\ pc = [s \in Shells |-> "over"]
    /\ at = [s \in Shells |-> 1]
    /\ step = [s \in Shells |-> 1]
    /\ pending = [s \in Shells |-> "none"]
    /\ cause = [s \in Shells |-> "ok"]
    /\ leaving = {}
    /\ posted = 0
    /\ cutOff = FALSE
    /\ watchdog = "new"
    /\ killed = FALSE
    /\ faults = 0
    /\ signals = 0
    /\ kills = 0

Alive(s) == pc[s] # "over"

\* A pending trap of s may run now: s waits for no command of a window and for
\* no child.  The short commands of a report (mkdir, curl) and of the EXIT trap
\* (rmdir) are steps of their own; a trap runs before or after each.
Free(s) ==
    \/ pc[s] \in {"next", "mark", "trap", "done", "claim", "post", "fail", "exit"}
    \/ s = "parent" /\ pc[s] = "wait" /\ ~Alive("child")

\* Only the parent created the marker, and only it talks to the watchdog.
OwnsMarker(s) == s = "parent"

Ping(s, what) == watchdog' = IF OwnsMarker(s) THEN what ELSE watchdog

-----------------------------------------------------------------------------
(* A run: started by an operator, resumed by the same command.             *)

\* Process ids a parent can get.  Of the ids without a marker it does not matter
\* which one it is.
NewPids ==
    IF ReusePids THEN Pids
    ELSE IF Pids \subseteq markers THEN {} ELSE {CHOOSE p \in Pids : p \notin markers}

StartRun(d, skip) ==
    /\ \A s \in Shells : ~Alive(s)
    /\ dry' = d
    /\ skipped' = skip
    /\ pid' \in NewPids
    /\ pc' = [pc EXCEPT !["parent"] = "next"]
    /\ at' = [s \in Shells |-> 1]
    /\ step' = [s \in Shells |-> 1]
    /\ pending' = [s \in Shells |-> "none"]
    /\ cause' = [s \in Shells |-> "ok"]
    /\ leaving' = {}
    /\ posted' = 0
    /\ cutOff' = FALSE
    /\ watchdog' = "started"
    /\ killed' = FALSE
    /\ UNCHANGED <<steps, markers, done, landed, counters>>

\* A window is left out: its phase is skipped in this run, or run_window finds it
\* in the state file.
LeftOut(w) == Phase(w) \in skipped \/ w \in done

Skip(s) ==
    /\ pc[s] = "next"
    /\ pending[s] = "none"
    /\ at[s] <= NumWindows[s]
    /\ LeftOut(<<s, at[s]>>)
    /\ at' = [at EXCEPT ![s] = @ + 1]
    /\ UNCHANGED <<steps, dry, skipped, pid, markers, done, landed, pc, step, pending,
                   cause, leaving, posted, cutOff, watchdog, killed, counters>>

\* Broken variant: the loop over the windows runs one too far.
RunWindowOneMore(s) ==
    /\ pc[s] = "next"
    /\ pending[s] = "none"
    /\ at[s] <= NumWindows[s] + 1
    /\ ~LeftOut(<<s, at[s]>>)
    /\ pc' = [pc EXCEPT ![s] = "runner"]
    /\ step' = [step EXCEPT ![s] = 1]
    /\ UNCHANGED <<steps, dry, skipped, pid, markers, done, landed, at, pending, cause, leaving,
                   posted, cutOff, watchdog, killed, counters>>

\* run_window for any other window: the runner's first command starts.
RunWindow(s) ==
    /\ pc[s] = "next"
    /\ pending[s] = "none"
    /\ at[s] <= NumWindows[s]
    /\ ~LeftOut(<<s, at[s]>>)
    /\ pc' = [pc EXCEPT ![s] = "runner"]
    /\ step' = [step EXCEPT ![s] = 1]
    /\ UNCHANGED <<steps, dry, skipped, pid, markers, done, landed, at, pending, cause, leaving,
                   posted, cutOff, watchdog, killed, counters>>

\* One command of the runner exits 0; a pending trap runs before anything else.
RunnerOk(s) ==
    /\ pc[s] = "runner"
    /\ landed' = IF dry THEN landed ELSE landed \cup {<<s, at[s], step[s]>>}
    /\ IF pending[s] # "none"
          THEN pc' = [pc EXCEPT ![s] = "trap"] /\ UNCHANGED step
          ELSE IF step[s] < steps
             THEN step' = [step EXCEPT ![s] = @ + 1] /\ UNCHANGED pc
             ELSE pc' = [pc EXCEPT ![s] = "mark"] /\ UNCHANGED step
    /\ UNCHANGED <<steps, dry, skipped, pid, markers, done, at, pending, cause, leaving,
                   posted, cutOff, watchdog, killed, counters>>

\* Broken variant: without set -E the ERR trap is not inherited by run_window.
RunnerFailsUntrapped(s) ==
    /\ pc[s] = "runner"
    /\ faults < MaxFaults
    /\ faults' = faults + 1
    /\ IF pending[s] # "none"
          THEN pc' = [pc EXCEPT ![s] = "trap"] /\ UNCHANGED cause
          ELSE pc' = [pc EXCEPT ![s] = "fail"] /\ cause' = [cause EXCEPT ![s] = "error"]
    /\ UNCHANGED <<steps, dry, skipped, pid, markers, done, landed, at, step, pending,
                   leaving, posted, cutOff, watchdog, killed, signals, kills>>

\* A command of the runner fails: a pending trap comes first, then the ERR trap.
RunnerFails(s) ==
    /\ pc[s] = "runner"
    /\ faults < MaxFaults
    /\ faults' = faults + 1
    /\ IF pending[s] # "none"
          THEN pc' = [pc EXCEPT ![s] = "trap"] /\ UNCHANGED cause
          ELSE pc' = [pc EXCEPT ![s] = "claim"] /\ cause' = [cause EXCEPT ![s] = "error"]
    /\ UNCHANGED <<steps, dry, skipped, pid, markers, done, landed, at, step, pending,
                   leaving, posted, cutOff, watchdog, killed, signals, kills>>

\* Broken variant: a dry run records its windows too.
MarkEvenDry(s) ==
    /\ pc[s] = "mark"
    /\ pending[s] = "none"
    /\ done' = done \cup {<<s, at[s]>>}
    /\ at' = [at EXCEPT ![s] = @ + 1]
    /\ pc' = [pc EXCEPT ![s] = "next"]
    /\ UNCHANGED <<steps, dry, skipped, pid, markers, landed, step, pending, cause, leaving,
                   posted, cutOff, watchdog, killed, counters>>

\* Broken variant: the state file is rewritten (>), not appended to (>>).
MarkOverwrites(s) ==
    /\ pc[s] = "mark"
    /\ pending[s] = "none"
    /\ done' = IF dry THEN done ELSE {w \in done : w[1] # s} \cup {<<s, at[s]>>}
    /\ at' = [at EXCEPT ![s] = @ + 1]
    /\ pc' = [pc EXCEPT ![s] = "next"]
    /\ UNCHANGED <<steps, dry, skipped, pid, markers, landed, step, pending, cause, leaving,
                   posted, cutOff, watchdog, killed, counters>>

\* state_mark: appended, except in a dry run.
Mark(s) ==
    /\ pc[s] = "mark"
    /\ pending[s] = "none"
    /\ done' = IF dry THEN done ELSE done \cup {<<s, at[s]>>}
    /\ at' = [at EXCEPT ![s] = @ + 1]
    /\ pc' = [pc EXCEPT ![s] = "next"]
    /\ UNCHANGED <<steps, dry, skipped, pid, markers, landed, step, pending, cause, leaving,
                   posted, cutOff, watchdog, killed, counters>>

\* The parent has no windows left and calls the child plan, unless told to skip
\* that phase.
Delegate ==
    /\ pc["parent"] = "next"
    /\ pending["parent"] = "none"
    /\ at["parent"] > NumWindows["parent"]
    /\ pc' = IF "311" \in skipped
                THEN [pc EXCEPT !["parent"] = "done"]
                ELSE [s \in Shells |-> IF s = "parent" THEN "wait" ELSE "next"]
    /\ UNCHANGED <<steps, dry, skipped, pid, markers, done, landed, at, step, pending,
                   cause, leaving, posted, cutOff, watchdog, killed, counters>>

\* The child has no windows left; its plan_done owns no marker.
ChildDone ==
    /\ pc["child"] = "next"
    /\ pending["child"] = "none"
    /\ at["child"] > NumWindows["child"]
    /\ pc' = [pc EXCEPT !["child"] = "done"]
    /\ UNCHANGED <<steps, dry, skipped, pid, markers, done, landed, at, step, pending,
                   cause, leaving, posted, cutOff, watchdog, killed, counters>>

\* The child exited: 0 lets the parent finish, anything else is an error there.
ChildReturns ==
    /\ pc["parent"] = "wait"
    /\ ~Alive("child")
    /\ pending["parent"] = "none"
    /\ IF cause["child"] = "ok"
          THEN pc' = [pc EXCEPT !["parent"] = "done"] /\ UNCHANGED cause
          ELSE /\ pc' = [pc EXCEPT !["parent"] = "claim"]
               /\ cause' = [cause EXCEPT !["parent"] = "error"]
    /\ UNCHANGED <<steps, dry, skipped, pid, markers, done, landed, at, step, pending,
                   leaving, posted, cutOff, watchdog, killed, counters>>

\* Broken variant: a delegated plan pings the watchdog too.
PlanDoneAnyPings(s) ==
    /\ pc[s] = "done"
    /\ pending[s] = "none"
    /\ watchdog' = "success"
    /\ pc' = [pc EXCEPT ![s] = "exit"]
    /\ UNCHANGED <<steps, dry, skipped, pid, markers, done, landed, at, step, pending,
                   cause, leaving, posted, cutOff, killed, counters>>

\* plan_done and the script's end.
PlanDone(s) ==
    /\ pc[s] = "done"
    /\ pending[s] = "none"
    /\ Ping(s, "success")
    /\ pc' = [pc EXCEPT ![s] = "exit"]
    /\ UNCHANGED <<steps, dry, skipped, pid, markers, done, landed, at, step, pending,
                   cause, leaving, posted, cutOff, killed, counters>>

\* _on_exit, the EXIT trap: rmdir of the marker by the shell that owns it.
Unmarked(s) == IF OwnsMarker(s) THEN markers \ {pid} ELSE markers

Exit(s) ==
    /\ pc[s] = "exit"
    /\ markers' = Unmarked(s)
    /\ pc' = [pc EXCEPT ![s] = "over"]
    /\ UNCHANGED <<steps, dry, skipped, pid, done, landed, at, step, pending, cause, leaving,
                   posted, cutOff, watchdog, killed, counters>>

-----------------------------------------------------------------------------
(* Reporting: _on_error and _on_signal.                                    *)

\* A signal's trap starts, in the EXIT trap before or after its rmdir.
Trap(s) ==
    /\ Alive(s)
    /\ pending[s] # "none"
    /\ Free(s)
    /\ cause' = [cause EXCEPT ![s] = pending[s]]
    /\ pending' = [pending EXCEPT ![s] = "none"]
    /\ pc' = [pc EXCEPT ![s] = "claim"]
    /\ cutOff' = (cutOff \/ pc[s] = "post")
    /\ IF pc[s] = "exit"
          THEN leaving' = leaving \cup {s} /\ markers' \in {markers, Unmarked(s)}
          ELSE UNCHANGED <<leaving, markers>>
    /\ UNCHANGED <<steps, dry, skipped, pid, done, landed, at, step, posted,
                   watchdog, killed, counters>>

\* Broken variant: nobody looks whether the marker is there.
ClaimUnchecked(s) ==
    /\ pc[s] = "claim"
    /\ markers' = markers \cup {pid}
    /\ pc' = [pc EXCEPT ![s] = "post"]
    /\ UNCHANGED <<steps, dry, skipped, pid, done, landed, at, step, pending, cause, leaving,
                   posted, cutOff, watchdog, killed, counters>>

\* _already_reported, and the mkdir that claims the marker.
Claim(s) ==
    /\ pc[s] = "claim"
    /\ markers' = markers \cup {pid}
    /\ pc' = [pc EXCEPT ![s] = IF pid \in markers THEN "fail" ELSE "post"]
    /\ UNCHANGED <<steps, dry, skipped, pid, done, landed, at, step, pending, cause, leaving,
                   posted, cutOff, watchdog, killed, counters>>

\* The POST to the webhook; that the webhook is down is nobody's failure.
Post(s) ==
    /\ pc[s] = "post"
    /\ posted' = posted + 1
    /\ pc' = [pc EXCEPT ![s] = "fail"]
    /\ UNCHANGED <<steps, dry, skipped, pid, markers, done, landed, at, step, pending,
                   cause, leaving, cutOff, watchdog, killed, counters>>

\* The /fail ping and the end of the shell: through its EXIT trap after an error
\* and after INT, without it after TERM or HUP and when it has begun already.
Fail(s) ==
    /\ pc[s] = "fail"
    /\ pending[s] = "none"
    /\ Ping(s, "fail")
    /\ pc' = [pc EXCEPT ![s] =
                 IF cause[s] = "TERM" \/ s \in leaving THEN "over" ELSE "exit"]
    /\ UNCHANGED <<steps, dry, skipped, pid, markers, done, landed, at, step, pending,
                   cause, leaving, posted, cutOff, killed, counters>>

-----------------------------------------------------------------------------
(* The environment.                                                        *)

\* A signal to one shell (kill), which its command outlives.  It finds the shell
\* anywhere, in a report or in the EXIT trap too; one that waits for a signal's
\* trap already ends with either.
SignalShell(s, sig) ==
    /\ signals < MaxSignals
    /\ Alive(s)
    /\ signals' = signals + 1
    /\ pending' = [pending EXCEPT ![s] = sig]
    /\ UNCHANGED <<steps, dry, skipped, pid, markers, done, landed, pc, at, step, cause, leaving,
                   posted, cutOff, watchdog, killed, faults, kills>>

\* A signal to the foreground group (Ctrl-C, a dropped SSH session): it reaches
\* both shells and ends the command in progress, a curl of a report included.
SignalGroup(sig) ==
    /\ signals < MaxSignals
    /\ Alive("parent")
    /\ signals' = signals + 1
    /\ pending' = [s \in Shells |-> IF Alive(s) THEN sig ELSE pending[s]]
    /\ pc' = [s \in Shells |-> IF pc[s] = "runner" THEN "trap" ELSE pc[s]]
    /\ UNCHANGED <<steps, dry, skipped, pid, markers, done, landed, at, step, cause, leaving,
                   posted, cutOff, watchdog, killed, faults, kills>>

\* The machine, or the whole process tree, goes away.
KillAll ==
    /\ kills < MaxKills
    /\ Alive("parent")
    /\ kills' = kills + 1
    /\ killed' = TRUE
    /\ pc' = [s \in Shells |-> "over"]
    /\ cause' = [s \in Shells |-> "killed"]
    /\ UNCHANGED <<steps, dry, skipped, pid, markers, done, landed, at, step, pending,
                   leaving, posted, cutOff, watchdog, faults, signals>>

\* The child alone is killed, by the OOM killer for one.
KillChild ==
    /\ kills < MaxKills
    /\ Alive("child")
    /\ kills' = kills + 1
    /\ killed' = TRUE
    /\ pc' = [pc EXCEPT !["child"] = "over"]
    /\ cause' = [cause EXCEPT !["child"] = "killed"]
    /\ UNCHANGED <<steps, dry, skipped, pid, markers, done, landed, at, step, pending,
                   leaving, posted, cutOff, watchdog, faults, signals>>

ShellStep(s) ==
    \/ Skip(s)
    \/ RunWindow(s)
    \/ RunnerOk(s)
    \/ Mark(s)
    \/ PlanDone(s)
    \/ Exit(s)
    \/ Trap(s)
    \/ Claim(s)
    \/ Post(s)
    \/ Fail(s)

Handover == Delegate \/ ChildDone \/ ChildReturns

Next ==
    \/ \E d \in BOOLEAN, skip \in SUBSET Skippable : StartRun(d, skip)
    \/ \E s \in Shells : ShellStep(s) \/ RunnerFails(s)
    \/ Handover
    \/ \E s \in Shells, sig \in {"INT", "TERM"} : SignalShell(s, sig)
    \/ \E sig \in {"INT", "TERM"} : SignalGroup(sig)
    \/ KillAll
    \/ KillChild

Spec == Init /\ [][Next]_vars

\* Shells run, and the operator starts the plan for real and in full again and
\* again, whatever dry runs and skipping runs come in between.
Fairness ==
    /\ \A s \in Shells : WF_vars(ShellStep(s))
    /\ WF_vars(Handover)
    /\ SF_vars(StartRun(FALSE, {}))

FairSpec == Spec /\ Fairness

-----------------------------------------------------------------------------
(* Properties.                                                             *)

\* Every variable ranges over the values the scripts can give it.
TypeOK ==
    /\ steps \in {1, 2}
    /\ dry \in BOOLEAN
    /\ skipped \in SUBSET Skippable
    /\ pid \in Pids
    /\ markers \in SUBSET Pids
    /\ done \in SUBSET Windows
    /\ landed \in SUBSET (Shells \X Nat \X {1, 2})
    /\ pc \in [Shells -> {"next", "runner", "mark", "wait", "done", "trap",
                          "claim", "post", "fail", "exit", "over"}]
    /\ at \in [Shells -> Nat \ {0}]
    /\ \A s \in Shells : at[s] <= NumWindows[s] + 1
    /\ step \in [Shells -> {1, 2}]
    /\ pending \in [Shells -> {"none", "INT", "TERM"}]
    /\ cause \in [Shells -> {"ok", "error", "INT", "TERM", "killed"}]
    /\ leaving \in SUBSET Shells
    /\ posted \in Nat
    /\ cutOff \in BOOLEAN
    /\ watchdog \in {"new", "started", "success", "fail"}
    /\ killed \in BOOLEAN
    /\ faults \in 0..MaxFaults
    /\ signals \in 0..MaxSignals
    /\ kills \in 0..MaxKills

\* A window in a state file has had every command of its runner succeed, in a
\* run that wrote: no signal, failure, kill or dry run leaves a line for a
\* window that a resumed run would then wrongly skip.
CheckpointMeansRan ==
    \A w \in done : \A k \in 1..steps : <<w[1], w[2], k>> \in landed

\* "One failure produces one Discord message rather than two", with both
\* shells seeing the failure or the signal, and signals coming in the middle of
\* a report.  Only a signal that interrupts the parent's EXIT trap, which takes
\* the marker away, can add a second message, its own.
OneMessagePerRun == posted <= IF "parent" \in leaving THEN 2 ELSE 1

\* A run that ended by an error or a signal has posted an alert, unless one of
\* its shells was killed outright or was called away by a signal after it had
\* claimed the alert and before it had posted it.
FailureIsTold ==
    /\ ~Alive("parent")
    /\ cause["parent"] \in {"error", "INT", "TERM"}
    /\ ~killed
    /\ ~cutOff
    => posted >= 1

\* The watchdog's last word is a success only while the last run started did
\* everything it was asked to: it was a dry run, or every window of a phase it
\* was not told to skip is recorded.  Nothing of the run can still fail then, and
\* a signal that finds it on its way out takes the success back.
SuccessPingIsHonest ==
    watchdog = "success" =>
        /\ pc["parent"] \notin {"next", "runner", "mark", "trap", "wait", "done"}
        /\ ~Alive("parent") => cause["parent"] \in {"ok", "killed"}
        /\ dry \/ \A w \in Windows : LeftOut(w)

\* A plan started again and again records every window once failures stop.
PlanCompletes == <>[](done = Windows)
=============================================================================
