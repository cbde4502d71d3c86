---------------------------- MODULE PairedStages ----------------------------
(* Tester and security run at once, in two threads of one runner              *)
(* (dispatcher/stage_runner_agent.py _run_two_stages_parallel). They share    *)
(* the folder, its state.json, and the registry of claude children that       *)
(* proc_reaper kills before a folder moves. Each of the two may finish, fail, *)
(* be tried again on another backend, or run into the limits and park the     *)
(* folder under the feet of the other.                                        *)
(*                                                                            *)
(* _update_state, _append_history and _add_tokens_used read and rewrite       *)
(* state.json under a lock that is released before the rewritten text leaves  *)
(* the writer's buffer: until then the file on disk is empty.                 *)
EXTENDS Integers, FiniteSets

CONSTANTS
  Retries,          \* backends left to try after a failure, at most
  Bills,            \* what a finished stage cost, in dollars and in tokens
  CostCap, TokenCap,
  Nobody            \* no write is in flight

ASSUME PairAssumption ==
  /\ Retries \in Nat \ {0}
  /\ Bills \subseteq Nat /\ IsFiniteSet(Bills)
  /\ CostCap \in Nat /\ TokenCap \in Nat

Pair == {"tester", "security"}

Other(s) == CHOOSE u \in Pair : u # s

VARIABLES
  th,               \* the two threads
  known,            \* sessions the runner read before the pair: killed stages
  json,             \* state.json, wherever the folder is
  torn,             \* whose write of state.json is still in a buffer
  folder,           \* where the folder is and why; "deleted" when it is lost
  ghost,            \* active/<id> came back without a state.json
  alive,            \* stages whose claude child runs
  tracked,          \* proc_reaper._LIVE
  main,             \* the thread that waits for the two
  told              \* what the operator was told

vars == <<th, known, json, torn, folder, ghost, alive, tracked, main, told>>

Outcomes == {"none", "ok", "fail", "timeout", "stall", "cap"}

Steps == {"begin", "persist", "spawn", "born", "running", "clear", "back", "retry", "failing",
          "finish", "tokens", "capped", "reload", "reap", "mark", "park", "done",
          "raised", "gone"}

Over == {"done", "raised", "gone"}

Parked == {"parked", "stopped", "handed"}     \* awaiting-input/

Fresh == [at |-> "begin", rc |-> "none", tries |-> 0, left |-> 0, bill |-> 0]

(* cost_usd and tokens_used of the stages before the pair are the zero the    *)
(* pair adds to.                                                              *)
Init ==
  /\ th = [s \in Pair |-> Fresh]
  /\ known \in SUBSET Pair
  /\ json = [stage |-> "running", cost |-> 0, tokens |-> 0, sessions |-> known]
  /\ torn = Nobody
  /\ folder = "active" /\ ghost = FALSE
  /\ alive = {} /\ tracked = {}
  /\ main = "waiting"
  /\ told = [limit |-> 0, budget |-> 0, handoff |-> 0]

-----------------------------------------------------------------------------
(* state.json: a write into a folder that is gone is dropped, into a folder   *)
(* without a state.json or over an empty one it raises.                       *)

Here == folder = "active"

Raises == IF Here THEN torn # Nobody ELSE ghost

Written(who, new) ==
  /\ json' = IF Here THEN new ELSE json
  /\ torn' = IF Here THEN who ELSE torn

(* with ...open("r+"): the buffer is written when the block ends.             *)
Flushed(who) ==
  /\ torn = who
  /\ torn' = Nobody
  /\ UNCHANGED <<th, known, json, folder, ghost, alive, tracked, main, told>>

(* A thread takes its next step when its own file is closed.                  *)
At(s, pc) == main = "waiting" /\ th[s].at = pc /\ torn # s

Goes(s, pc) == th' = [th EXCEPT ![s].at = pc]

OnlyThread == UNCHANGED <<known, json, torn, folder, ghost, alive, tracked, main, told>>

(* Writes that nothing catches, and the plain read at the end of a stage.     *)
Raised(s) ==
  /\ \/ \E pc \in {"begin", "back", "retry", "failing", "finish", "capped"} : At(s, pc) /\ Raises
     \/ \E pc \in {"tokens", "reload"} : At(s, pc) /\ Here /\ torn # Nobody
  /\ Goes(s, "raised")
  /\ OnlyThread

-----------------------------------------------------------------------------
(* One stage.                                                                 *)

StageBegun(s) ==
  /\ At(s, "begin") /\ ~ Raises
  /\ Written(s, [json EXCEPT !.stage = "running"])
  /\ Goes(s, "persist")
  /\ UNCHANGED <<known, folder, ghost, alive, tracked, main, told>>

(* A fresh session id is added to the stage_sessions the runner read before   *)
(* the pair, and those go into the file; an error is only reported. A known   *)
(* session is resumed.                                                        *)
SessionStored(s) ==
  /\ At(s, "persist")
  /\ \/ s \notin known /\ ~ Raises /\ Written(s, [json EXCEPT !.sessions = known \cup {s}])
     \/ (s \in known \/ Raises) /\ UNCHANGED <<json, torn>>
  /\ Goes(s, "spawn")
  /\ UNCHANGED <<known, folder, ghost, alive, tracked, main, told>>

(* proc_reaper.spawn: Popen, then track.                                      *)
Spawned(s) ==
  /\ At(s, "spawn")
  /\ alive' = alive \cup {s}
  /\ Goes(s, "born")
  /\ UNCHANGED <<known, json, torn, folder, ghost, tracked, main, told>>

SpawnFailed(s) ==
  /\ At(s, "spawn")
  /\ th' = [th EXCEPT ![s].at = "back", ![s].rc = "fail"]
  /\ OnlyThread

Tracked(s) ==
  /\ At(s, "born")
  /\ tracked' = tracked \cup {s}
  /\ Goes(s, "running")
  /\ UNCHANGED <<known, json, torn, folder, ghost, alive, main, told>>

(* A child writes to the path it was given, and makes the directory again     *)
(* when it is gone.                                                           *)
GhostWritten(s) ==
  /\ s \in alive
  /\ ~ Here
  /\ ghost' = TRUE
  /\ UNCHANGED <<th, known, json, torn, folder, alive, tracked, main, told>>

(* A stage that succeeded takes its session out of the ones it read, if it is *)
(* among them.                                                                *)
AfterReturn(s, rc) == IF rc = "ok" /\ s \in known THEN "clear" ELSE "back"

SessionCleared(s) ==
  /\ At(s, "clear")
  /\ \/ ~ Raises /\ Written(s, [json EXCEPT !.sessions = known \ {s}])
     \/ Raises /\ UNCHANGED <<json, torn>>
  /\ Goes(s, "back")
  /\ UNCHANGED <<known, folder, ghost, alive, tracked, main, told>>

\* A bug: at the deadline only the pid is signalled, the child lives on.
ReturnedOrphaning(s, rc, bill) ==
  /\ At(s, "running")
  /\ rc \in {"ok", "stall", "timeout"} => s \in alive
  /\ alive' = IF rc = "timeout" THEN alive ELSE alive \ {s}
  /\ tracked' = tracked \ {s}
  /\ th' = [th EXCEPT ![s].at = AfterReturn(s, rc), ![s].rc = rc,
                      ![s].bill = IF rc = "ok" THEN bill ELSE 0]
  /\ UNCHANGED <<known, json, torn, folder, ghost, main, told>>

(* _run_claude_stage returns: the child exited by itself (one that was killed *)
(* by the other thread has failed), or was killed for a limit storm or at the *)
(* deadline.                                                                  *)
Returned(s, rc, bill) ==
  /\ At(s, "running")
  /\ rc \in {"ok", "stall", "timeout"} => s \in alive
  /\ alive' = alive \ {s}
  /\ tracked' = tracked \ {s}
  /\ th' = [th EXCEPT ![s].at = AfterReturn(s, rc), ![s].rc = rc,
                      ![s].bill = IF rc = "ok" THEN bill ELSE 0]
  /\ UNCHANGED <<known, json, torn, folder, ghost, main, told>>

(* After an attempt the runner reads what it cost where the folder was (zero  *)
(* once it moved) and writes its own sum of cost_usd. A storm parks only      *)
(* after the first attempt; another backend is tried after a failure that is  *)
(* no timeout, as long as there is one.                                       *)
Accounted(s, plan) ==
  LET x == th[s]
      left == IF x.tries = 0 THEN plan ELSE x.left
      bill == IF Here THEN x.bill ELSE 0
      next == IF x.rc = "ok" THEN "finish"
              ELSE IF x.rc = "stall" /\ x.tries = 0 THEN "reap"
              ELSE IF x.rc = "timeout" /\ x.tries = 0 THEN "failing"
              ELSE IF left > 0 THEN "retry" ELSE "failing"
  IN  /\ At(s, "back") /\ ~ Raises
      /\ Written(s, [json EXCEPT !.cost = bill])
      /\ th' = [th EXCEPT ![s].at = next, ![s].left = left, ![s].bill = bill]
      /\ UNCHANGED <<known, folder, ghost, alive, tracked, main, told>>

\* A bug: the backend that was tried stays in the chain.
RetriedUncounted(s) ==
  /\ At(s, "retry") /\ ~ Raises
  /\ Written(s, json)
  /\ th' = [th EXCEPT ![s].at = "persist", ![s].tries = @ + 1]
  /\ UNCHANGED <<known, folder, ghost, alive, tracked, main, told>>

\* A bug: the chain starts again after every failure.
RetriedForever(s) ==
  /\ At(s, "retry") /\ ~ Raises
  /\ Written(s, json)
  /\ th' = [th EXCEPT ![s].at = "persist", ![s].tries = 1]
  /\ UNCHANGED <<known, folder, ghost, alive, tracked, main, told>>

Retried(s) ==
  /\ At(s, "retry") /\ ~ Raises
  /\ Written(s, json)
  /\ th' = [th EXCEPT ![s].at = "persist", ![s].tries = @ + 1, ![s].left = @ - 1]
  /\ UNCHANGED <<known, folder, ghost, alive, tracked, main, told>>

StageFailed(s) ==
  /\ At(s, "failing") /\ ~ Raises
  /\ Written(s, [json EXCEPT !.stage = "failed"])
  /\ Goes(s, "done")
  /\ UNCHANGED <<known, folder, ghost, alive, tracked, main, told>>

StageFinished(s) ==
  /\ At(s, "finish") /\ ~ Raises
  /\ Written(s, json)
  /\ Goes(s, "tokens")
  /\ UNCHANGED <<known, folder, ghost, alive, tracked, main, told>>

\* A bug: each stage counts from the total it began with.
TokenSumOwn(s) == IF Here THEN th[s].bill ELSE 0

(* _read_stage_tokens and _add_tokens_used: the sum in the file, or nothing   *)
(* once the folder moved.                                                     *)
TokenSum(s) == IF Here THEN json.tokens + th[s].bill ELSE 0

TokensCounted(s) ==
  /\ At(s, "tokens")
  /\ Here => torn = Nobody
  /\ Written(s, [json EXCEPT !.tokens = TokenSum(s)])
  /\ Goes(s, IF TokenSum(s) > TokenCap \/ th[s].bill > CostCap THEN "capped" ELSE "reload")
  /\ UNCHANGED <<known, folder, ghost, alive, tracked, main, told>>

\* A bug: a stage over its cap parks the folder itself.
StopAtOnce(s) ==
  /\ At(s, "capped") /\ ~ Raises
  /\ Written(s, json)
  /\ th' = [th EXCEPT ![s].at = "done", ![s].rc = "cap"]
  /\ folder' = IF Here THEN "stopped" ELSE folder
  /\ told' = [told EXCEPT !.budget = @ + 1]
  /\ UNCHANGED <<known, ghost, alive, tracked, main>>

(* _cap_stop without a park: the pair's own check parks.                      *)
StopDeferred(s) ==
  /\ At(s, "capped") /\ ~ Raises
  /\ Written(s, json)
  /\ th' = [th EXCEPT ![s].at = "done", ![s].rc = "cap"]
  /\ UNCHANGED <<known, folder, ghost, alive, tracked, main, told>>

Reloaded(s) ==
  /\ At(s, "reload")
  /\ Here => torn = Nobody
  /\ Goes(s, "done")
  /\ OnlyThread

-----------------------------------------------------------------------------
(* _park_limit_stall.                                                         *)

(* kill_tracked: what is in the registry, nothing else.                       *)
ChildrenReaped(s) ==
  /\ At(s, "reap")
  /\ alive' = alive \ tracked
  /\ tracked' = {}
  /\ Goes(s, "mark")
  /\ UNCHANGED <<known, json, torn, folder, ghost, main, told>>

(* A folder that reads as parked already is left to the thread that marked it.*)
MarkedAlready == Here /\ torn = Nobody /\ json.stage = "waiting-limits"

ParkSkipped(s) ==
  /\ At(s, "mark") /\ MarkedAlready
  /\ Goes(s, "done")
  /\ OnlyThread

(* The label the watcher resumes by; an error is only reported.               *)
ParkMarked(s) ==
  /\ At(s, "mark") /\ ~ MarkedAlready
  /\ \/ ~ Raises /\ Written(s, [json EXCEPT !.stage = "waiting-limits"])
     \/ Raises /\ UNCHANGED <<json, torn>>
  /\ Goes(s, "park")
  /\ UNCHANGED <<known, folder, ghost, alive, tracked, main, told>>

(* What is at active/<id> replaces what is in awaiting-input/.                *)
ParkMoved(s) ==
  /\ At(s, "park")
  /\ folder' = IF Here THEN "parked" ELSE IF ghost THEN "deleted" ELSE folder
  /\ ghost' = FALSE
  /\ told' = [told EXCEPT !.limit = @ + 1]
  /\ Goes(s, "done")
  /\ UNCHANGED <<known, json, torn, alive, tracked, main>>

-----------------------------------------------------------------------------
(* The thread that waits. No other thread runs any more.                      *)

Joining == main = "waiting" /\ torn = Nobody /\ \A s \in Pair : th[s].at \in Over

(* future.result() raises what the thread raised; so does the first write.    *)
Crashed ==
  /\ \/ Joining /\ \E s \in Pair : th[s].at = "raised"
     \/ Joining /\ Raises
     \/ main \in {"stopping", "handing"} /\ Raises
  /\ main' = "crashed"
  /\ UNCHANGED <<th, known, json, torn, folder, ghost, alive, tracked, told>>

Combined == th["tester"].bill + th["security"].bill

(* run_pipeline looks at the tester's code first.                             *)
Verdict ==
  LET tester == th["tester"].rc
      rc == IF tester # "ok" THEN tester ELSE th["security"].rc
  IN  IF Combined > CostCap \/ \E s \in Pair : th[s].rc = "cap" THEN "stopping"
      ELSE CASE rc \in {"fail", "timeout"} -> "handing"
             [] rc = "stall" -> "ended"
             [] rc = "ok" -> "reviewer"

\* A bug: the last of the two to write cost_usd has the last word.
JoinedUncombined ==
  /\ Joining /\ ~ Raises
  /\ \A s \in Pair : th[s].at = "done"
  /\ main' = Verdict
  /\ UNCHANGED <<th, known, json, torn, folder, ghost, alive, tracked, told>>

Joined ==
  /\ Joining /\ ~ Raises
  /\ \A s \in Pair : th[s].at = "done"
  /\ json' = IF Here THEN [json EXCEPT !.cost = Combined] ELSE json
  /\ main' = Verdict
  /\ UNCHANGED <<th, known, torn, folder, ghost, alive, tracked, told>>

(* _cap_stop and budget_gate.park                                             *)
BudgetStopped ==
  /\ main = "stopping" /\ ~ Raises
  /\ folder' = IF Here THEN "stopped" ELSE folder
  /\ told' = [told EXCEPT !.budget = @ + 1]
  /\ main' = "ended"
  /\ UNCHANGED <<th, known, json, torn, ghost, alive, tracked>>

(* _handoff_terminal: work is an open PR or a branch, of the worktree while   *)
(* state.json can name it and of the target's own checkout otherwise.         *)
HandedOff(work) ==
  /\ main = "handing" /\ ~ Raises
  /\ folder' = CASE Here /\ work -> "handed"
                 [] Here /\ ~ work -> "failed"
                 [] folder \in Parked /\ work -> "deleted"
                 [] OTHER -> folder
  /\ told' = [told EXCEPT !.handoff = @ + 1]
  /\ main' = "ended"
  /\ UNCHANGED <<th, known, json, torn, ghost, alive, tracked>>

-----------------------------------------------------------------------------
(* The runner is killed. SIGTERM runs a handler that kills what is tracked    *)
(* and re-raises; the threads go on until then.                               *)

Signalled ==
  /\ main = "waiting"
  /\ alive' = alive \ tracked
  /\ tracked' = {}
  /\ UNCHANGED <<th, known, json, torn, folder, ghost, main, told>>

RunnerKilled ==
  /\ main = "waiting"
  /\ main' = "killed"
  /\ th' = [s \in Pair |-> [th[s] EXCEPT !.at = "gone"]]
  /\ UNCHANGED <<known, json, torn, folder, ghost, alive, tracked, told>>

(* The watcher's sweep: a child whose parent is gone.                         *)
Swept(s) ==
  /\ main = "killed"
  /\ s \in alive
  /\ alive' = alive \ {s}
  /\ UNCHANGED <<th, known, json, torn, folder, ghost, tracked, main, told>>

-----------------------------------------------------------------------------
ThreadStep(s) ==
  \/ Raised(s) \/ StageBegun(s) \/ SessionStored(s) \/ Spawned(s) \/ Tracked(s) \/ SessionCleared(s)
  \/ \E rc \in {"ok", "fail", "stall", "timeout"}, bill \in Bills : Returned(s, rc, bill)
  \/ \E plan \in 0..Retries : Accounted(s, plan)
  \/ Retried(s) \/ StageFailed(s) \/ StageFinished(s) \/ TokensCounted(s)
  \/ StopDeferred(s) \/ Reloaded(s)
  \/ ChildrenReaped(s) \/ ParkSkipped(s) \/ ParkMarked(s) \/ ParkMoved(s)

MainStep == Crashed \/ Joined \/ BudgetStopped \/ \E work \in BOOLEAN : HandedOff(work)

Next ==
  \/ \E s \in Pair : \/ (main = "waiting" /\ Flushed(s)) \/ ThreadStep(s)
                     \/ SpawnFailed(s) \/ GhostWritten(s) \/ Swept(s)
  \/ MainStep
  \/ Signalled \/ RunnerKilled

Spec == Init /\ [][Next]_vars

(* Threads are scheduled, and _run_claude_stage returns at the stage timeout. *)
FairSpec ==
  /\ Spec
  /\ \A s \in Pair : WF_vars(main = "waiting" /\ Flushed(s)) /\ WF_vars(ThreadStep(s))
  /\ WF_vars(MainStep)

-----------------------------------------------------------------------------
(* Types of the variables.                                                    *)
TypeOK ==
  /\ known \subseteq Pair
  /\ th \in [Pair -> [at : Steps, rc : Outcomes, tries : 0..Retries, left : 0..Retries,
                      bill : Nat]]
  /\ json \in [stage : {"running", "failed", "waiting-limits"}, cost : Nat, tokens : Nat,
               sessions : SUBSET Pair]
  /\ torn \in Pair \cup {Nobody}
  /\ folder \in {"active", "failed", "deleted"} \cup Parked
  /\ ghost \in BOOLEAN
  /\ alive \subseteq Pair /\ tracked \subseteq Pair
  /\ main \in {"waiting", "stopping", "handing", "reviewer", "ended", "crashed", "killed"}
  /\ told \in [limit : Nat, budget : Nat, handoff : Nat]

(* A runner that ends by itself, even by an exception in one of the threads,  *)
(* leaves no child: each thread waits for its own, through parks, retries and *)
(* the kills of the other (_run_claude_stage).                                *)
NoChildLeft == main \in {"reviewer", "ended", "crashed"} => alive = {}

(* However the writes of the two fell, the cost that survives the join is the *)
(* sum of both, and the tokens too, unless a thread raised or the folder had  *)
(* been parked by then (_run_two_stages_parallel, _add_tokens_used).          *)
TotalsAgree ==
  main \in {"reviewer", "ended"} /\ folder \in {"active", "stopped", "handed", "failed"} =>
     /\ json.cost = Combined
     /\ json.tokens = Combined

(* Over a cap the pair never goes on to the reviewer: whichever stage counts  *)
(* its tokens last sees the sum, and the cost is looked at after the join.    *)
CapsHold ==
  main = "reviewer" =>
     /\ Combined <= TokenCap /\ Combined <= CostCap
     /\ folder = "active" /\ \A s \in Pair : th[s].rc = "ok"

(* One budget stop or one handoff, and it is the last word of the runner; a   *)
(* stopped folder was announced as stopped (_cap_stop, issue 19).             *)
ToldOnce ==
  /\ told.budget + told.handoff <= 1
  /\ main = "ended" /\ folder = "stopped" => told.budget = 1
  /\ main = "ended" /\ folder \in {"handed", "failed"} => told.handoff = 1

(* Whatever the two threads do to the file, the folder and each other's       *)
(* children, the runner ends (ThreadPoolExecutor, STAGE_TIMEOUT_SEC).         *)
RunnerEnds == main = "waiting" ~> main \in {"reviewer", "ended", "crashed", "killed"}

(* _terminate_pipeline: a limit park "ALREADY self-moved the task ...         *)
(* a handoff would rewrite it as a terminal failure and drop the auto-requeue"*)
ParkKept == [][folder = "parked" => folder' = "parked"]_vars
=============================================================================
