--------------------------- MODULE TaskLifecycle ---------------------------
(***************************************************************************)
(* The custody of a task folder: which bucket of tasks/ it lies in, who    *)
(* moves it, and which process works on it.                                *)
(*                                                                         *)
(* Four kinds of actors share tasks/ and nothing else:                     *)
(*   - the dispatcher (task_dispatcher.py) ingests inbox/ into active/ and *)
(*     starts a runner;                                                    *)
(*   - the runners (stage_runner_agent.py), one process per spawn, guarded *)
(*     by a flock inside the folder, work and park the folder themselves;  *)
(*   - the watcher (watcher.py) respawns dead runners and requeues parked  *)
(*     folders;                                                            *)
(*   - people: the bot's buttons and commands, and the owner of the PR.    *)
(*                                                                         *)
(* What a runner does inside its folder is the subject of StageRunner;     *)
(* here it is a choice of outcomes.                                        *)
(***************************************************************************)
EXTENDS Integers, FiniteSets

CONSTANTS
  Tasks,        \* task ids
  Pids,         \* process ids
  None,         \* no task, no process
  MaxStages,    \* DISPATCHER_MAX_STAGES: runners the dispatcher keeps at once
  MaxRespawn,   \* WATCHER_MAX_RESPAWN
  RetryLimit,   \* automatic requeues per task, for each sweep of the watcher
  Kinds,        \* the outside events that may happen (not in the code)
  MaxEvents     \* how many of them, each once (not in the code)

Sweeps == {"transient", "limit", "clarify"}
Events == {"operator", "crash", "misprobe", "tornRead", "dispatcherStop",
           "dispatcherKill", "watcherKill"}

ASSUME LimitsAssumption ==
  /\ None \notin Tasks
  /\ None \notin Pids
  /\ MaxStages \in Nat
  /\ MaxRespawn \in Nat
  /\ RetryLimit \in [Sweeps -> Nat]
  /\ Kinds \subseteq Events
  /\ MaxEvents \in Nat

VARIABLES
  task,      \* the folder of each task: bucket, state.json, .runner.pid
  proc,      \* the runner processes
  lock,      \* holder of .runner.lock (a kernel flock, gone with its holder)
  disp,      \* the dispatcher: alive, step of the ingest, task and pid in hand
  children,  \* the dispatcher's _stage_runners
  wat,       \* the watcher: alive, pass, folders left to visit, decision taken
  managed,   \* the watcher's _managed_tasks
  respawns,  \* the watcher's _respawn_counts
  reruns,    \* history: automatic requeues each task really had
  spent      \* the outside events that have happened

vars == <<task, proc, lock, disp, children, wat, managed, respawns, reruns, spent>>

----------------------------------------------------------------------------
(* Folders *)

Buckets == {"none", "inbox", "active", "awaiting-input", "awaiting-approval", "failed",
            "done"}

\* "none": no readable state.json yet. "pipeline" stands for every name in
\* PIPELINE_STAGES.
Stages == {"none", "received", "pipeline", "inbox", "awaiting-approval", "awaiting-input",
           "awaiting_clarify", "waiting-limits", "failed", "done"}

TerminalStages == {"awaiting-approval", "awaiting-input", "awaiting_clarify",
                   "waiting-limits", "failed", "done"}
\* A bug to test the properties with: folders that died before their first stage are
\* not adopted.
ResumableStagesNoReceived == {"pipeline"}

ResumableStages == {"received", "pipeline"}

\* age of state.json: 0 younger than GRACE_PERIOD, 1 older, 2 (of a folder that
\* waits for it) past resume_at or past CLARIFY_DEADMAN_HOURS.
Folder == [dir: Buckets, torn: BOOLEAN, stage: Stages, used: [Sweeps -> Nat],
           age: 0..2, pid: Pids \cup {None}, over: BOOLEAN, net: BOOLEAN,
           pr: {"none", "open", "merged", "closed"}, ask: {"no", "open", "answered"}]

NoFolder == [dir |-> "none", torn |-> FALSE, stage |-> "none", used |-> [s \in Sweeps |-> 0],
             age |-> 0, pid |-> None, over |-> FALSE, net |-> FALSE, pr |-> "none", ask |-> "no"]

\* Moved to a bucket; rewritten with a new stage (its age starts anew); with its
\* clarification questions open, answered or gone.
In(x, dir) == [x EXCEPT !.dir = dir]
At(x, stage) == [x EXCEPT !.stage = stage, !.age = 0]
Asks(x, ask) == [x EXCEPT !.ask = ask]

\* The bucket a terminal folder stranded in active/ belongs in.
TerminalBucket(stage) ==
  CASE stage \in {"awaiting-input", "waiting-limits"} -> "awaiting-input"
    [] stage = "failed" -> "failed"
    [] OTHER -> "none"

----------------------------------------------------------------------------
(* Processes *)

Phases == {"gone", "boot", "work", "toInput", "toFailed", "tail"}
Gone == [task |-> None, phase |-> "gone"]
Alive(p) == proc[p].phase # "gone"
HoldsLock(p) == proc[p].phase \in {"work", "toInput", "toFailed", "tail"}

FreePids == {p \in Pids : /\ proc[p] = Gone
                          /\ p # disp.pid
                          /\ \A t \in Tasks : p # task[t].pid /\ p # children[t]}

\* Exit or death: the kernel drops the flock.
EndAll(ps) ==
  /\ proc' = [p \in Pids |-> IF p \in ps THEN Gone ELSE proc[p]]
  /\ lock' = [t \in Tasks |-> IF lock[t] \in ps THEN None ELSE lock[t]]

Ends(p) == EndAll({p})

\* The pid file names a live runner of this very task (pid and command line).
PidAlive(t) == task[t].pid # None /\ proc[task[t].pid].task = t

Spend(k) ==
  /\ k \in Kinds \ spent
  /\ Cardinality(spent) < MaxEvents
  /\ spent' = spent \cup {k}

\* A probe answers from kill(0) and ps; a ps that fails or times out reads as
\* dead, whatever the process does.
Probe(t, dead) ==
  \/ dead = ~PidAlive(t) /\ UNCHANGED spent
  \/ dead /\ PidAlive(t) /\ Spend("misprobe")

----------------------------------------------------------------------------
Init ==
  /\ task = [t \in Tasks |-> NoFolder]
  /\ proc = [p \in Pids |-> Gone]
  /\ lock = [t \in Tasks |-> None]
  /\ disp = [up |-> TRUE, pc |-> "poll", task |-> None, pid |-> None]
  /\ children = [t \in Tasks |-> None]
  /\ wat = [up |-> FALSE, pass |-> "boot", todo |-> {}, plan |-> "none", task |-> None]
  /\ managed = {}
  /\ respawns = [t \in Tasks |-> 0]
  /\ reruns = [t \in Tasks |-> [s \in Sweeps |-> 0]]
  /\ spent = {}

watcherVars == <<wat, managed, respawns, reruns>>
dispatcherVars == <<disp, children>>
procVars == <<proc, lock>>

----------------------------------------------------------------------------
(* The dispatcher: _ingest, step by step *)

Idle == [disp EXCEPT !.pc = "poll", !.task = None, !.pid = None]

\* _quarantine puts the folder into failed/ (as intake-<stamp>-<name>, from where
\* /requeue takes it by that name): a spec.json read while the bot is still writing it
\* is not JSON; or active/<task> exists again, because the agent of a runner whose
\* folder has moved away still wrote there.
DispatcherQuarantine(t) ==
  /\ disp.up /\ disp.pc = "poll"
  /\ task[t].dir = "inbox"
  /\ task[t].torn \/ lock[t] # None
  /\ task' = [task EXCEPT ![t] = In(@, "failed")]
  /\ UNCHANGED <<procVars, dispatcherVars, watcherVars, spent>>

DispatcherTake(t) ==
  /\ disp.up /\ disp.pc = "poll"
  /\ task[t].dir = "inbox" /\ ~task[t].torn
  /\ task' = [task EXCEPT ![t] = In(@, "active")]
  /\ disp' = [disp EXCEPT !.pc = "taken", !.task = t]
  /\ UNCHANGED <<procVars, children, watcherVars, spent>>

\* A bug: the retry counters start anew with every ingest.
IngestedAfresh(x) == At([x EXCEPT !.used = [s \in Sweeps |-> 0]], "received")

\* The fresh state.json: stage "received"; the retry counters, the cost and the
\* PR are carried over from the prior file (they stay in the record).
Ingested(x) == At(x, "received")

\* The folder may be gone again; the write then raises and ends the sweep.
DispatcherWriteState ==
  /\ disp.up /\ disp.pc = "taken"
  /\ LET t == disp.task IN
       \/ /\ task[t].dir = "active"
          /\ task' = [task EXCEPT ![t] = Ingested(@)]
          /\ disp' = [disp EXCEPT !.pc = "written"]
       \/ /\ task[t].dir # "active"
          /\ disp' = Idle
          /\ UNCHANGED task
  /\ UNCHANGED <<procVars, children, watcherVars, spent>>

Running == {t \in Tasks : children[t] # None /\ Alive(children[t])}

\* _spawn_stage_runner: reap, defer at the limit, else start a process.
DispatcherDefer ==
  /\ disp.up /\ disp.pc = "written"
  /\ Cardinality(Running) >= MaxStages
  /\ children' = [t \in Tasks |-> IF t \in Running THEN children[t] ELSE None]
  /\ disp' = Idle
  /\ UNCHANGED <<task, procVars, watcherVars, spent>>

DispatcherSpawn(p) ==
  /\ disp.up /\ disp.pc = "written"
  /\ Cardinality(Running) < MaxStages
  /\ p \in FreePids
  /\ proc' = [proc EXCEPT ![p] = [task |-> disp.task, phase |-> "boot"]]
  /\ children' = [t \in Tasks |-> IF t = disp.task THEN p
                                  ELSE IF t \in Running THEN children[t] ELSE None]
  /\ disp' = [disp EXCEPT !.pc = "spawned", !.pid = p]
  /\ UNCHANGED <<task, lock, watcherVars, spent>>

DispatcherWritePid ==
  /\ disp.up /\ disp.pc = "spawned"
  /\ task' = [task EXCEPT ![disp.task].pid =
                IF task[disp.task].dir = "active" THEN disp.pid ELSE @]
  /\ disp' = Idle
  /\ UNCHANGED <<procVars, children, watcherVars, spent>>

\* SIGTERM is honoured between sweeps; the drain terminates the children.
DispatcherStop ==
  /\ disp.up /\ disp.pc = "poll"
  /\ Spend("dispatcherStop")
  /\ EndAll({children[t] : t \in Running})
  /\ children' = [t \in Tasks |-> None]
  /\ disp' = [disp EXCEPT !.up = FALSE]
  /\ UNCHANGED <<task, watcherVars>>

\* SIGKILL or a crash: the runners have a session of their own and live on
\* (aidstack.sh), or they share the unit's control group and die with it (systemd).
DispatcherKilled ==
  /\ disp.up
  /\ Spend("dispatcherKill")
  /\ disp' = [Idle EXCEPT !.up = FALSE]
  /\ children' = [t \in Tasks |-> None]
  /\ UNCHANGED procVars \/ EndAll({children[t] : t \in Running})
  /\ UNCHANGED <<task, watcherVars>>

DispatcherStart ==
  /\ ~disp.up
  /\ disp' = [disp EXCEPT !.up = TRUE]
  /\ UNCHANGED <<task, procVars, children, watcherVars, spent>>

----------------------------------------------------------------------------
(* The runners *)

\* Writes through active/<task> are dropped when the folder has moved away.
Writes(t, x) == task' = [task EXCEPT ![t] = IF @.dir = "active" THEN x ELSE @]

\* A bug: the lock is opened but not waited for.
RunnerLocksAnyway(p) ==
  LET t == proc[p].task IN
  /\ proc[p].phase = "boot"
  /\ wat.task # t /\ disp.pid # p
  /\ task[t].dir = "active"
  /\ lock' = [lock EXCEPT ![t] = p]
  /\ proc' = [proc EXCEPT ![p].phase = "work"]
  /\ UNCHANGED <<task, dispatcherVars, watcherVars, spent>>

\* A Python process takes longer to boot than the watcher to act on a decision, or than
\* the dispatcher to write a pid: no runner gets from "boot" to "work" meanwhile.
RunnerLocks(p) ==
  LET t == proc[p].task IN
  /\ proc[p].phase = "boot"
  /\ wat.task # t /\ disp.pid # p
  /\ task[t].dir = "active" /\ lock[t] = None
  /\ lock' = [lock EXCEPT ![t] = p]
  /\ proc' = [proc EXCEPT ![p].phase = "work"]
  /\ UNCHANGED <<task, dispatcherVars, watcherVars, spent>>

\* No spec.json at the given path, or another runner holds the lock.
RunnerBounces(p) ==
  LET t == proc[p].task IN
  /\ proc[p].phase = "boot"
  /\ task[t].dir # "active" \/ lock[t] # None
  /\ Ends(p)
  /\ UNCHANGED <<task, dispatcherVars, watcherVars, spent>>

\* Before the first stage: the target repository is missing.
RunnerRefuses(p) ==
  /\ proc[p].phase = "work"
  /\ task[proc[p].task].stage = "received"
  /\ Ends(p)
  /\ UNCHANGED <<task, dispatcherVars, watcherVars, spent>>

\* A stage is entered; meanwhile a stage may have failed and left its error
\* log (one that no sweep will read is left out), money may have been spent beyond the
\* cap, a PR may have been opened.
StageEffects(x) == {x, [x EXCEPT !.net = @ \/ x.used["transient"] < RetryLimit["transient"]],
                    [x EXCEPT !.over = TRUE],
                    [x EXCEPT !.pr = IF @ = "none" THEN "open" ELSE @]}

RunnerProgress(p) ==
  LET t == proc[p].task IN
  /\ proc[p].phase = "work"
  /\ task[t].dir = "active"
  /\ \E x \in StageEffects(task[t]) : Writes(t, At(x, "pipeline"))
  /\ UNCHANGED <<procVars, dispatcherVars, watcherVars, spent>>

\* state.json cannot be read back: the folder was moved under the runner.
RunnerLosesFolder(p) ==
  /\ proc[p].phase = "work"
  /\ task[proc[p].task].dir # "active"
  /\ Ends(p)
  /\ UNCHANGED <<task, dispatcherVars, watcherVars, spent>>

\* Approved: the stage is written and the folder stays in active/.
RunnerApproves(p) ==
  LET t == proc[p].task IN
  /\ proc[p].phase = "work"
  /\ Writes(t, At(task[t], "awaiting-approval"))
  /\ proc' = [proc EXCEPT ![p].phase = "tail"]
  /\ UNCHANGED <<lock, dispatcherVars, watcherVars, spent>>

\* rc 5 of a safety violation: stage "failed", and nobody moves the folder.
RunnerStopsUnsafe(p) ==
  LET t == proc[p].task IN
  /\ proc[p].phase = "work"
  /\ Writes(t, At(task[t], "failed"))
  /\ proc' = [proc EXCEPT ![p].phase = "tail"]
  /\ UNCHANGED <<lock, dispatcherVars, watcherVars, spent>>

\* Handoff, budget stop, limit park, clarify pause: stage first, then the move.
Parkings == {[stage |-> "awaiting-input", phase |-> "toInput"],
             [stage |-> "waiting-limits", phase |-> "toInput"],
             [stage |-> "awaiting_clarify", phase |-> "toInput"],
             [stage |-> "failed", phase |-> "toFailed"]}

RunnerParks(p) ==
  LET t == proc[p].task IN
  /\ proc[p].phase = "work"
  /\ \E k \in Parkings :
       /\ k.stage = "failed" => task[t].pr = "none"
       /\ Writes(t, Asks(At(task[t], k.stage),
                         IF k.stage = "awaiting_clarify" THEN "open" ELSE task[t].ask))
       /\ proc' = [proc EXCEPT ![p].phase = k.phase]
  /\ UNCHANGED <<lock, dispatcherVars, watcherVars, spent>>

RunnerMoves(p) ==
  LET t == proc[p].task IN
  /\ proc[p].phase \in {"toInput", "toFailed"}
  /\ Writes(t, In(task[t], IF proc[p].phase = "toFailed" THEN "failed" ELSE "awaiting-input"))
  /\ proc' = [proc EXCEPT ![p].phase = "tail"]
  /\ UNCHANGED <<lock, dispatcherVars, watcherVars, spent>>

RunnerExits(p) ==
  /\ proc[p].phase = "tail"
  /\ Ends(p)
  /\ UNCHANGED <<task, dispatcherVars, watcherVars, spent>>

RunnerCrashes(p) ==
  /\ Alive(p)
  /\ Spend("crash")
  /\ Ends(p)
  /\ UNCHANGED <<task, dispatcherVars, watcherVars>>

----------------------------------------------------------------------------
(* People and time *)

SubmitOpen(t) ==
  /\ task[t].dir = "none"
  /\ task' = [task EXCEPT ![t].dir = "inbox", ![t].torn = TRUE]
  /\ UNCHANGED <<procVars, dispatcherVars, watcherVars, spent>>

SubmitClose(t) ==
  /\ task[t].torn
  /\ task' = [task EXCEPT ![t].torn = FALSE]
  /\ UNCHANGED <<procVars, dispatcherVars, watcherVars, spent>>

\* People are slower than an ingest and than a Python process that starts.
AtRest(t) == disp.task # t /\ \A p \in Pids : proc[p].phase = "boot" => proc[p].task # t

Operator(t, dirs, x) ==
  /\ AtRest(t)
  /\ task[t].dir \in dirs
  /\ Spend("operator")
  /\ task' = [task EXCEPT ![t] = x]
  /\ UNCHANGED <<procVars, dispatcherVars, watcherVars>>

\* A person who sends a task on takes the responsibility for questions still open.
Waived(x) == Asks(x, IF x.ask = "open" THEN "no" ELSE x.ask)

\* /requeue: state.json is left as it is, its age included.
Requeue(t) ==
  Operator(t, {"awaiting-input", "awaiting-approval", "failed"}, In(Waived(task[t]), "inbox"))

\* The raised cap may or may not clear what was already spent.
BudgetContinue(t) ==
  \E x \in {task[t], [task[t] EXCEPT !.over = FALSE]} :
    Operator(t, {"awaiting-input"}, In(At(Waived(x), "inbox"), "inbox"))

BudgetDiscard(t) == Operator(t, {"awaiting-input"}, In(task[t], "failed"))

RateLimitSwitch(t) == Operator(t, {"awaiting-input"}, In(Waived(task[t]), "inbox"))

RateLimitCancel(t) == Operator(t, {"awaiting-input"}, In(task[t], "failed"))

ClarifyReply(t) ==
  /\ task[t].stage = "awaiting_clarify"
  /\ Operator(t, {"awaiting-input"}, In(At(Asks(task[t], "answered"), "inbox"), "inbox"))

\* The owner merges or closes the PR on GitHub.
OwnerSettlesPr(t) ==
  /\ AtRest(t)
  /\ task[t].pr = "open"
  /\ task[t].stage = "awaiting-approval"
  /\ \E verdict \in {"merged", "closed"} : task' = [task EXCEPT ![t].pr = verdict]
  /\ UNCHANGED <<procVars, dispatcherVars, watcherVars, spent>>

\* GRACE_PERIOD (30 s) outlasts the few file operations of an ingest.
TimePasses(t) ==
  /\ task[t].stage # "none"
  /\ task[t].age < IF task[t].stage \in {"waiting-limits", "awaiting_clarify"} THEN 2 ELSE 1
  /\ disp.task # t
  /\ task' = [task EXCEPT ![t].age = @ + 1]
  /\ UNCHANGED <<procVars, dispatcherVars, watcherVars, spent>>

----------------------------------------------------------------------------
(* The watcher: passes over the buckets, one folder at a time *)

\* A bug: the loop forgets the sweep of the limit parks.
NextPassNoLimit(pass) ==
  CASE pass = "boot" -> "transient"
    [] pass = "transient" -> "clarify"
    [] pass = "clarify" -> "pr"
    [] pass = "pr" -> "orphans"
    [] pass = "orphans" -> "managed"
    [] pass \in {"managed", "limit"} -> "transient"

NextPass(pass) ==
  CASE pass = "boot" -> "transient"
    [] pass = "transient" -> "limit"
    [] pass = "limit" -> "clarify"
    [] pass = "clarify" -> "pr"
    [] pass = "pr" -> "orphans"
    [] pass = "orphans" -> "managed"
    [] pass = "managed" -> "transient"

\* iterdir() at the start of a pass.
Listing(pass) ==
  CASE pass \in {"boot", "pr", "orphans"} -> {t \in Tasks : task[t].dir = "active"}
    [] pass = "managed" -> managed
    [] OTHER -> {t \in Tasks : task[t].dir = "awaiting-input"}

WatcherStart ==
  /\ ~wat.up
  /\ wat' = [up |-> TRUE, pass |-> "boot", todo |-> Listing("boot"), plan |-> "none",
             task |-> None]
  /\ managed' = {}
  /\ respawns' = [t \in Tasks |-> 0]
  /\ UNCHANGED <<task, procVars, dispatcherVars, reruns, spent>>

WatcherNextPass ==
  /\ wat.up /\ wat.plan = "none" /\ wat.todo = {}
  /\ wat' = [wat EXCEPT !.pass = NextPass(@), !.todo = Listing(NextPass(wat.pass))]
  /\ UNCHANGED <<task, procVars, dispatcherVars, managed, respawns, reruns, spent>>

\* SIGKILL, a reboot, or an unhandled exception.
Down == [wat EXCEPT !.up = FALSE, !.todo = {}, !.plan = "none", !.task = None]

WatcherKilled ==
  /\ wat.up
  /\ Spend("watcherKill")
  /\ wat' = Down
  /\ UNCHANGED <<task, procVars, dispatcherVars, managed, respawns, reruns>>

\* The folder is looked at and a decision is taken; it is acted on in a later step.
Visiting(t, passes) == wat.up /\ wat.plan = "none" /\ wat.pass \in passes /\ t \in wat.todo

Decides(t, plan) ==
  wat' = [wat EXCEPT !.todo = @ \ {t}, !.plan = plan,
                     !.task = IF plan = "none" THEN None ELSE t]

\* A bug: the decision survives the step that acted on it.
DoneUnfinished == [wat EXCEPT !.task = None]

Done == [wat EXCEPT !.plan = "none", !.task = None]

SweepDue(t) ==
  LET x == task[t] IN
  /\ x.dir = "awaiting-input"
  /\ x.used[wat.pass] < RetryLimit[wat.pass]
  /\ \/ /\ wat.pass = "transient" 
        /\ x.stage \notin {"none", "waiting-limits"} /\ x.age > 0 /\ x.net
     \/ wat.pass = "limit" /\ x.stage = "waiting-limits" /\ x.age = 2
     \/ wat.pass = "clarify" /\ x.stage = "awaiting_clarify" /\ x.age = 2

WatcherSweeps(t) ==
  /\ Visiting(t, Sweeps)
  /\ Decides(t, IF SweepDue(t) THEN "count" ELSE "none")
  /\ UNCHANGED <<task, procVars, dispatcherVars, managed, respawns, reruns, spent>>

WatcherReconcilesPr(t) ==
  /\ Visiting(t, {"pr"})
  /\ Decides(t, IF /\ task[t].dir = "active" /\ task[t].stage = "awaiting-approval"
                   /\ task[t].pr \in {"merged", "closed"}
                THEN "settle" ELSE "none")
  /\ UNCHANGED <<task, procVars, dispatcherVars, managed, respawns, reruns, spent>>

\* A bug: the scan trusts the age of state.json and does not ask for the runner.
SparedByAge(t, dead) ==
  \/ task[t].dir # "active" \/ t \in managed
  \/ task[t].stage = "none" /\ wat.pass # "boot"
  \/ task[t].stage # "none" /\ task[t].age = 0
  \/ task[t].stage \in TerminalStages /\ TerminalBucket(task[t].stage) = "none"
  \/ task[t].stage \notin ResumableStages \cup TerminalStages /\ wat.pass # "boot"

\* scan_orphans at start-up, then the orphan scan of every tick. Which folders the
\* scan leaves alone, and what it does with the others.
Spared(t, dead) ==
  \/ task[t].dir # "active" \/ t \in managed
  \/ task[t].stage = "none" /\ wat.pass # "boot"
  \/ task[t].stage # "none" /\ (task[t].age = 0 \/ ~dead)
  \/ task[t].stage \in TerminalStages /\ TerminalBucket(task[t].stage) = "none"
  \/ task[t].stage \notin ResumableStages \cup TerminalStages /\ wat.pass # "boot"

OrphanPlan(t, dead) ==
  IF Spared(t, dead) THEN "none"
  ELSE IF task[t].stage = "none" THEN "toFailed"
  ELSE IF task[t].stage \in TerminalStages
       THEN IF TerminalBucket(task[t].stage) = "failed" THEN "toFailed" ELSE "toInput"
  ELSE IF respawns[t] >= MaxRespawn THEN "toFailed"
  ELSE IF task[t].over THEN "park"
  ELSE IF task[t].stage \in ResumableStages THEN "adopt"
  ELSE "none"

\* state.json is rewritten in place, and read here without its lock: while a runner
\* writes it may read as empty. Only the start-up scan acts on that.
ReadsTorn(t) ==
  /\ wat.pass = "boot" /\ t \in {proc[p].task : p \in {q \in Pids : HoldsLock(q)}}
  /\ task[t].dir = "active"
  /\ Spend("tornRead")
  /\ Decides(t, "toFailed")

WatcherScans(t) ==
  /\ Visiting(t, {"boot", "orphans"})
  /\ \/ \E dead \in BOOLEAN : Probe(t, dead) /\ Decides(t, OrphanPlan(t, dead))
     \/ ReadsTorn(t)
  /\ UNCHANGED <<task, procVars, dispatcherVars, managed, respawns, reruns>>

\* A managed runner that died is replaced, whatever the stage it left behind.
ManagedPlan(t, dead) ==
  IF task[t].dir # "active" \/ task[t].pid = None \/ ~dead THEN "none"
  ELSE IF respawns[t] < MaxRespawn THEN "revive" ELSE "toFailed"

WatcherChecksManaged(t) ==
  /\ Visiting(t, {"managed"})
  /\ \E dead \in BOOLEAN :
       /\ Probe(t, dead)
       /\ Decides(t, ManagedPlan(t, dead))
       /\ managed' = IF task[t].dir # "active" \/ (task[t].pid # None /\ dead)
                     THEN managed \ {t} ELSE managed
  /\ UNCHANGED <<task, procVars, dispatcherVars, respawns, reruns>>

\* _spawn_runner: start a process, write its pid over the previous one.
WatcherSpawns(p) ==
  LET t == wat.task IN
  /\ wat.plan \in {"adopt", "revive"}
  /\ task[t].dir = "active"
  /\ p \in FreePids
  /\ proc' = [proc EXCEPT ![p] = [task |-> t, phase |-> "boot"]]
  /\ task' = [task EXCEPT ![t].pid = p]
  /\ respawns' = [respawns EXCEPT ![t] = @ + 1]
  /\ managed' = IF wat.plan = "adopt" THEN managed \cup {t} ELSE managed
  /\ wat' = Done
  /\ UNCHANGED <<lock, dispatcherVars, reruns, spent>>

\* _move_to_bucket; budget_gate.park also writes the stage.
WatcherMoves ==
  LET t == wat.task IN
  /\ wat.plan \in {"toInput", "toFailed", "park"}
  /\ task[t].dir = "active"
  /\ task' = [task EXCEPT ![t] =
                CASE wat.plan = "toFailed" -> In(@, "failed")
                  [] wat.plan = "toInput" -> In(@, "awaiting-input")
                  [] wat.plan = "park" -> In(At(@, "awaiting-input"), "awaiting-input")]
  /\ wat' = Done
  /\ UNCHANGED <<procVars, dispatcherVars, managed, respawns, reruns, spent>>

\* The folder left active/ after the look: spawn and move raise and end the watcher.
WatcherTrips ==
  /\ wat.plan \in {"adopt", "revive", "toInput", "toFailed"}
  /\ task[wat.task].dir # "active"
  /\ wat' = Down
  /\ UNCHANGED <<task, procVars, dispatcherVars, managed, respawns, reruns, spent>>

\* The same, where the exception is caught.
WatcherGivesUp ==
  /\ \/ wat.plan \in {"park", "settle", "file"} /\ task[wat.task].dir # "active"
     \/ wat.plan \in {"count", "move"} /\ task[wat.task].dir # "awaiting-input"
  /\ wat' = Done
  /\ UNCHANGED <<task, procVars, dispatcherVars, managed, respawns, reruns, spent>>

\* A bug: a pull request that is no longer open counts as merged.
VerdictUnread(x) == "done"

\* What the answer of gh makes of the task: its stage and its bucket.
Verdict(x) == IF x.pr = "merged" THEN "done" ELSE "failed"

\* _reconcile_pr_task: the stage is written first, the folder moved afterwards.
WatcherSettles ==
  LET t == wat.task IN
  /\ wat.plan = "settle" /\ task[t].dir = "active"
  /\ task' = [task EXCEPT ![t] = At(@, Verdict(@))]
  /\ wat' = [wat EXCEPT !.plan = "file"]
  /\ UNCHANGED <<procVars, dispatcherVars, managed, respawns, reruns, spent>>

WatcherFiles ==
  LET t == wat.task IN
  /\ wat.plan = "file" /\ task[t].dir = "active"
  /\ task' = [task EXCEPT ![t] = In(@, Verdict(@))]
  /\ wat' = Done
  /\ UNCHANGED <<procVars, dispatcherVars, managed, respawns, reruns, spent>>

\* _requeue_to_inbox: the counter is written, then the folder is moved. The limit
\* and clarify sweeps have set the stage, the latter has answered for the operator.
Counted(x, sweep) ==
  [At(Asks(x, IF sweep = "clarify" THEN "answered" ELSE x.ask),
      IF sweep = "transient" THEN x.stage ELSE "inbox") EXCEPT !.used[sweep] = @ + 1]

WatcherCounts ==
  LET t == wat.task IN
  /\ wat.plan = "count" /\ task[t].dir = "awaiting-input"
  /\ task' = [task EXCEPT ![t] = Counted(@, wat.pass)]
  /\ wat' = [wat EXCEPT !.plan = "move"]
  /\ UNCHANGED <<procVars, dispatcherVars, managed, respawns, reruns, spent>>

WatcherRequeues ==
  LET t == wat.task IN
  /\ wat.plan = "move" /\ task[t].dir = "awaiting-input"
  /\ task' = [task EXCEPT ![t] = In(@, "inbox")]
  /\ reruns' = [reruns EXCEPT ![t][wat.pass] = @ + 1]
  /\ wat' = Done
  /\ UNCHANGED <<procVars, dispatcherVars, managed, respawns, spent>>

----------------------------------------------------------------------------
Dispatcher ==
  \/ \E t \in Tasks : DispatcherQuarantine(t) \/ DispatcherTake(t)
  \/ DispatcherWriteState \/ DispatcherDefer \/ DispatcherWritePid
  \/ \E p \in Pids : DispatcherSpawn(p)
  \/ DispatcherStart

Runner(p) ==
  \/ RunnerLocks(p) \/ RunnerBounces(p) \/ RunnerRefuses(p) \/ RunnerLosesFolder(p)
  \/ RunnerApproves(p) \/ RunnerStopsUnsafe(p) \/ RunnerParks(p)
  \/ RunnerMoves(p) \/ RunnerExits(p)

WatcherLooks ==
  \/ WatcherStart \/ WatcherNextPass
  \/ \E t \in Tasks : \/ WatcherSweeps(t) \/ WatcherReconcilesPr(t)
                      \/ WatcherScans(t) \/ WatcherChecksManaged(t)

WatcherActs ==
  \/ \E p \in Pids : WatcherSpawns(p)
  \/ WatcherMoves \/ WatcherTrips \/ WatcherGivesUp
  \/ WatcherSettles \/ WatcherFiles \/ WatcherCounts \/ WatcherRequeues

People ==
  \E t \in Tasks :
    \/ SubmitOpen(t) \/ SubmitClose(t) \/ Requeue(t) \/ BudgetContinue(t)
    \/ BudgetDiscard(t) \/ RateLimitSwitch(t) \/ RateLimitCancel(t)
    \/ ClarifyReply(t) \/ OwnerSettlesPr(t)

Faults ==
  \/ DispatcherStop \/ DispatcherKilled \/ WatcherKilled
  \/ \E p \in Pids : RunnerCrashes(p)

Next ==
  \/ Dispatcher \/ WatcherLooks \/ WatcherActs \/ People \/ Faults
  \/ \E p \in Pids : Runner(p) \/ RunnerProgress(p)
  \/ \E t \in Tasks : TimePasses(t)

Spec == Init /\ [][Next]_vars

\* systemd restarts both daemons (Restart=always) and each runs an endless loop; a
\* stage has a timeout, so a runner reaches an outcome; time passes.
Fairness ==
  /\ WF_vars(Dispatcher)
  /\ WF_vars(WatcherLooks) /\ WF_vars(WatcherActs)
  /\ \A p \in Pids : WF_vars(Runner(p))
  /\ \A t \in Tasks : WF_vars(TimePasses(t)) /\ WF_vars(SubmitClose(t))

FairSpec == Spec /\ Fairness

----------------------------------------------------------------------------
(* Properties *)

Plans == {"none", "adopt", "revive", "toInput", "toFailed", "park", "settle", "file",
          "count", "move"}
Passes == Sweeps \cup {"boot", "pr", "orphans", "managed"}

TaskOK == task \in [Tasks -> Folder]
ProcOK == /\ proc \in [Pids -> [task: Tasks \cup {None}, phase: Phases]]
          /\ \A p \in Pids : Alive(p) => proc[p].task \in Tasks
LockOK == lock \in [Tasks -> Pids \cup {None}]
DispOK == /\ disp \in [up: BOOLEAN, pc: {"poll", "taken", "written", "spawned"},
                       task: Tasks \cup {None}, pid: Pids \cup {None}]
          /\ disp.pc # "poll" => disp.task \in Tasks
ChildrenOK == children \in [Tasks -> Pids \cup {None}]
WatOK == /\ wat \in [up: BOOLEAN, pass: Passes, todo: SUBSET Tasks, plan: Plans,
                     task: Tasks \cup {None}]
         /\ wat.plan # "none" => wat.task \in Tasks
ManagedOK == managed \subseteq Tasks
RespawnsOK == respawns \in [Tasks -> Nat]
RerunsOK == reruns \in [Tasks -> [Sweeps -> Nat]]
SpentOK == spent \subseteq Events

TypeOK ==
  /\ TaskOK /\ ProcOK /\ LockOK /\ DispOK /\ ChildrenOK
  /\ WatOK /\ ManagedOK /\ RespawnsOK /\ RerunsOK /\ SpentOK

\* At most one process works on a task at a time, however many were spawned by
\* the dispatcher and the watcher together (_acquire_runner_lock).
SingleWorker ==
  \A p, q \in Pids :
    HoldsLock(p) /\ HoldsLock(q) /\ proc[p].task = proc[q].task => p = q

\* Each automatic requeue is paid for from a counter that survives re-ingest: over
\* the whole life of a task no sweep brings it back more often than its limit.
RetriesBounded ==
  \A t \in Tasks, s \in Sweeps : reruns[t][s] <= RetryLimit[s]

\* One watcher never starts more than MaxRespawn runners for a task.
RespawnsBounded == \A t \in Tasks : respawns[t] <= MaxRespawn

\* No failure makes the watcher work for ever: neither by requeues, whose counters
\* outlive every restart, nor by runners one watcher starts again.
RestartsBounded == RetriesBounded /\ RespawnsBounded

\* Nobody but the runner itself takes a folder out of active/ while a runner works whose
\* pid it records, unless a probe or a read of the watcher failed. (A runner that lost
\* the lock may leave its own pid there.) A settled PR moves it too: the watcher revives
\* runners of approved tasks.
WorkLeftAlone ==
  [][\A t \in Tasks :
       /\ \E p \in Pids : proc[p] = [task |-> t, phase |-> "work"] /\ task[t].pid = p
       /\ task[t].dir = "active" /\ wat.plan \notin {"settle", "file"}
       /\ spent \cap {"misprobe", "tornRead"} = {}
       => task'[t].dir = "active"]_vars

\* An approved task whose PR is open is never thrown into failed/.
ApprovedKept ==
  \A t \in Tasks : task[t].stage = "awaiting-approval" => task[t].dir # "failed"

\* A task left in active/ without a runner is picked up again or put away, and so
\* is an approved one once its PR is merged or closed. Exceptions: a task that
\* died between the clarify stage and its move, and one whose merged PR a watcher was
\* settling when it was killed: stage "done" is nobody's business in active/.
Settled(t) ==
  \/ task[t].dir # "active"
  \/ task[t].stage = "awaiting-approval" /\ task[t].pr \notin {"merged", "closed"}
  \/ task[t].stage = "awaiting_clarify"
  \/ task[t].stage = "done" /\ "watcherKill" \in spent
OrphansRecovered == \A t \in Tasks : task[t].dir = "active" ~> Settled(t)

\* A limit park ends by itself while its budget of resumes lasts. Exception: a watcher
\* killed between the new stage and the move, which leaves stage "inbox" behind.
LimitParkEnds ==
  \A t \in Tasks :
    task[t].dir = "awaiting-input" /\ task[t].stage = "waiting-limits"
      /\ task[t].used["limit"] < RetryLimit["limit"]
    ~> task[t].dir # "awaiting-input" \/ task[t].stage = "inbox"

----------------------------------------------------------------------------
(* The promise to the operator *)

\* The flock says who works on a task; every automatic requeue counts.
place == [t \in Tasks |-> task[t].dir]
request == [t \in Tasks |-> task[t].pr]
returns == [t \in Tasks |-> reruns[t]["transient"] + reruns[t]["limit"] + reruns[t]["clarify"]]
ReturnLimit == RetryLimit["transient"] + RetryLimit["limit"] + RetryLimit["clarify"]

Custody == INSTANCE TaskCustody
             WITH Workers <- Pids, Nobody <- None, Limit <- ReturnLimit, worker <- lock

\* Dispatcher, runners, watcher and people together keep what tasks/ promises: a folder
\* moves along the edges of the lifecycle, work begins only where nobody works, done/ takes
\* only merged work, and automatic returns end (ARCHITECTURE.md, "Task lifecycle").
KeepsCustody == Custody!Spec

=============================================================================
