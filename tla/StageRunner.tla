---------------------------- MODULE StageRunner ----------------------------
(***************************************************************************)
(* One task's pipeline: run_pipeline of stage_runner_agent.py and what it  *)
(* leaves on disk for the next runner of the same task.                    *)
(*                                                                         *)
(* A runner walks through a list of stages, skips those whose artifact is  *)
(* already there, runs the others as child processes, stops at caps and    *)
(* gates, and after the review loops through hotfixes until the verdict,   *)
(* the iteration cap or the cost cap ends it. It may die at any step and   *)
(* be started again by the watcher, or be sent through inbox/ by a person. *)
(*                                                                         *)
(* Who may start a runner, and when, is the subject of TaskLifecycle; what *)
(* the two stages of the pair do to each other, of PairedStages: here the  *)
(* pair begins, ends and is retried together, with the return code of the  *)
(* first stage that failed, but each of the two counts its own bill.       *)
(***************************************************************************)
EXTENDS Integers, Sequences, FiniteSets

CONSTANTS
  Tiers,         \* the tiers triage may act with; "none": it does not act
  IterationCap,  \* iteration cap of each tier
  CostCap,       \* spec.cost_cap_usd at first; an attempt at a stage costs 0 or 1
  CostBump,      \* what [Continue] adds to it
  Interactive,   \* CLARIFY_INTERACTIVE_ENABLED
  MaxFallbacks,  \* backends left to retry a failed stage on
  Diligent,      \* a child that exits 0 has written its artifact anew
  MaxCritical,   \* critical findings of one review (not in the code)
  MaxStarts      \* runners started for the task (not in the code)

AllTiers == {"none", "S", "M", "L"}

ASSUME CapsAssumption ==
  /\ Tiers \subseteq AllTiers /\ Tiers # {}
  /\ IterationCap \in [AllTiers -> Nat \ {0}]
  /\ CostCap \in Nat
  /\ CostBump \in Nat
  /\ Interactive \in BOOLEAN
  /\ MaxFallbacks \in Nat
  /\ Diligent \in BOOLEAN
  /\ MaxCritical \in Nat
  /\ MaxStarts \in Nat

VARIABLES
  disk,   \* the folder's bucket and its state.json
  files,  \* the artifacts in the folder
  run     \* the runner: its program counter and its local variables

vars == <<disk, files, run>>

----------------------------------------------------------------------------
(* Stages, artifacts, verdicts *)

\* "architect" stands for every upstream stage without a gate of its own.
Stages == {"ba", "architect", "developer", "developer-hotfix", "tester", "security",
           "reviewer"}

Core == <<"developer", "tester", "security", "reviewer">>
Hotfix == <<"developer-hotfix", "tester", "security", "reviewer">>

\* stages_for_tier: S keeps the core only, M the BA too.
Menu(tier) ==
  CASE tier = "S" -> Core
    [] tier = "M" -> <<"ba", "developer", "tester", "security", "reviewer">>
    [] OTHER -> <<"ba", "architect", "developer", "tester", "security", "reviewer">>

NextTier(tier) == CASE tier = "S" -> "M" [] tier = "M" -> "L" [] OTHER -> "none"

\* Both developer stages write 03-dev-agent.md.
Artifact(s) == IF s = "developer-hotfix" THEN "developer" ELSE s
Artifacts == Stages \ {"developer-hotfix"}

\* An approval and a request for changes weigh the same: only the critical findings
\* count. A review is current while no developer has touched the code since.
Verdicts == [parsed: BOOLEAN, critical: 0..MaxCritical, current: BOOLEAN]
NoVerdict == [parsed |-> FALSE, critical |-> 0, current |-> FALSE]
NewVerdicts == { v \in Verdicts : v.current /\ (v.parsed \/ v.critical = 0) }
Outdated(v) == [v EXCEPT !.current = FALSE]

\* The brief is to the BA's liking, or has questions in it, or open boxes in its checklist.
Briefs == {"none", "clean", "markers", "unticked"}

\* "failed": an exit code of the child's, or no artifact.
Rcs == {"ok", "failed", "timeout", "stall", "violation"}

\* A timeout is not retried, and a limit stall at the first attempt is parked.
Retriable == {"failed", "violation"}

Terminals == {"awaiting-input", "awaiting-approval", "awaiting_clarify", "waiting-limits", "failed"}

----------------------------------------------------------------------------
(* state.json, the folder and the runner *)

NoBills == [s \in Stages |-> 0]

\* cost: the sum when the stages in hand began; own: what each of them has cost since;
\* left: those whose attempt is not counted yet.
Idle == [up |-> FALSE, pc |-> "off", tier |-> "none", list |-> Core, i |-> 1, hot |-> FALSE,
         cap |-> 1, cost |-> 0, own |-> NoBills, left |-> {}, tries |-> 0, rc |-> "ok",
         why |-> "none", dest |-> "active", begun |-> FALSE, end |-> "none", starts |-> 0, managed |-> FALSE]

\* The folder after the first triage. At tier S triage writes the brief 01-ba.md itself,
\* after the verdict that keeps any later runner from doing so.
Init ==
  \E tier \in Tiers : \E brief \in IF tier = "S" THEN {"clean", "none"} ELSE {"none"} :
    /\ disk = [dir |-> "active", stage |-> "received", iter |-> 0, cost |-> 0, trend |-> <<>>,
               trendIter |-> 0, tier |-> tier, lock |-> FALSE, budget |-> CostCap, rounds |-> 0,
               offered |-> FALSE]
    /\ files = [md |-> {}, json |-> {}, brief |-> "none", canon |-> brief, answered |-> FALSE,
                named |-> FALSE, text |-> NoVerdict, review |-> NoVerdict]
    /\ run = Idle

Running(pc) == run.up /\ run.pc = pc
At == run.list[run.i]

\* The stages in hand: the tester runs with the security stage beside it.
Now == IF At = "tester" THEN {"tester", "security"} ELSE {At}

\* _stage_artifact_ready: the artifact's text is enough. _ba_needs_clarify_rerun.
Ready(s) == s \in files.md
\* A bug: the answers do not make the BA run again.
RerunsNever(s) == s = "ba" /\ FALSE

Reruns(s) == s = "ba" /\ files.answered /\ "markers" \in {files.brief, files.canon}

\* A bug: the runner's record is not cleared when it ends.
EndsHalf(how) == run' = [run EXCEPT !.up = FALSE, !.end = how]

Ends(how) == run' = [Idle EXCEPT !.end = how, !.starts = run.starts, !.managed = run.managed]

Goes(pc) == run' = [run EXCEPT !.pc = pc]
Parks(dest) == run' = [run EXCEPT !.pc = "move", !.dest = dest]

----------------------------------------------------------------------------
(* The start of a runner: the first run, a respawn, a requeue *)

\* The dispatcher starts what it has received; the watcher what a dead runner has left at
\* a stage, unless its budget is spent, and whatever it finds dead of its own runners.
Startable ==
  /\ ~run.up /\ disk.dir = "active" /\ run.starts < MaxStarts
  /\ \/ disk.stage = "received" \/ run.managed
     \/ disk.stage \in Stages /\ disk.cost < disk.budget

\* A bug: the cost is not carried forward.
RunnerStartAfresh ==
  /\ Startable
  /\ run' = [Idle EXCEPT !.up = TRUE, !.pc = "scan", !.tier = disk.tier, !.list = Menu(disk.tier),
                         !.cap = IF disk.rounds > 0 THEN disk.rounds ELSE IterationCap[disk.tier],
                         !.starts = run.starts + 1,
                         !.managed = run.managed \/ disk.stage # "received"]
  /\ disk' = [disk EXCEPT !.stage = Menu(disk.tier)[1], !.iter = 1]
  /\ UNCHANGED files

\* The tier comes from triage.json, which no upgrade has changed, and so does the cap
\* unless spec.json has one (rounds > 0); the cost comes from state.json; the iteration
\* starts at 1 again.
RunnerStart ==
  /\ Startable
  /\ run' = [Idle EXCEPT !.up = TRUE, !.pc = "scan", !.tier = disk.tier, !.list = Menu(disk.tier),
                         !.cap = IF disk.rounds > 0 THEN disk.rounds ELSE IterationCap[disk.tier],
                         !.cost = disk.cost,
                         !.starts = run.starts + 1,
                         !.managed = run.managed \/ disk.stage # "received"]
  /\ disk' = [disk EXCEPT !.stage = Menu(disk.tier)[1], !.iter = 1]
  /\ UNCHANGED files

\* What the child processes of the stages ws leave behind, finished or not. A developer
\* changes the code under the reviews there are.
Coding(ws) == ws \cap {"developer", "developer-hotfix"} # {}
Written(ws) ==
  [md: {files.md \cup {Artifact(s) : s \in ws}}, json: {files.json}, canon: {files.canon},
   brief: IF "ba" \in ws THEN Briefs \ {"none"} ELSE {files.brief},
   answered: {files.answered},
   named: IF Coding(ws) THEN BOOLEAN ELSE {files.named},
   text: IF "reviewer" \in ws THEN NewVerdicts
         ELSE {IF Coding(ws) THEN Outdated(files.text) ELSE files.text},
   review: {IF Coding(ws) THEN Outdated(files.review) ELSE files.review}]

RunnerDies ==
  /\ run.up
  /\ Ends("crash")
  /\ IF run.pc = "child" THEN \E ws \in SUBSET Now : files' \in Written(ws) ELSE UNCHANGED files
  /\ UNCHANGED disk

\* A person, or the watcher's sweep, sends a parked task through inbox/; a clarify reply
\* leaves the answers in the folder. state.json starts anew but for the carried fields.
Requeued(answers) ==
  /\ ~run.up /\ disk.dir \in {"awaiting-input", "failed"} /\ run.starts < MaxStarts
  /\ answers => disk.stage = "awaiting_clarify"
  /\ disk' = [disk EXCEPT !.dir = "active", !.stage = "received"]
  /\ files' = [files EXCEPT !.answered = @ \/ answers]
  /\ run' = [run EXCEPT !.end = "none", !.managed = FALSE]

\* The watcher's scan finds a folder whose runner is gone, at a terminal stage or at a
\* stage it may not start again. It knows no bucket for awaiting_clarify.
SweptAway ==
  /\ ~run.up /\ disk.dir = "active" /\ ~run.managed
  /\ \/ /\ disk.stage \in {"failed", "awaiting-input", "waiting-limits"}
        /\ disk' = [disk EXCEPT !.dir = IF disk.stage = "failed" THEN "failed" ELSE "awaiting-input"]
     \/ /\ disk.stage \in {"received"} \cup Stages /\ disk.cost >= disk.budget
        /\ disk' = [disk EXCEPT !.dir = "awaiting-input", !.stage = "awaiting-input",
                                !.offered = TRUE]
  /\ UNCHANGED <<files, run>>

\* budget_callback, [Continue]: both caps of spec.json grow, the default one if it has none.
\* The button stays in the chat once it has been offered.
Continued ==
  /\ ~run.up /\ disk.dir = "awaiting-input" /\ disk.offered /\ run.starts < MaxStarts
  /\ disk' = [disk EXCEPT !.dir = "active", !.stage = "received", !.budget = @ + CostBump,
                          !.rounds = (IF @ > 0 THEN @ ELSE IterationCap["none"]) + 1]
  /\ run' = [run EXCEPT !.end = "none", !.managed = FALSE]
  /\ UNCHANGED files

----------------------------------------------------------------------------
(* The walk through the list of stages *)

StageSkipped ==
  /\ Running("scan") /\ ~run.hot /\ run.i <= Len(run.list)
  /\ Ready(At) /\ ~Reruns(At)
  /\ run' = [run EXCEPT !.i = @ + 1]
  \* _restore_dev_lock_from_artifact
  /\ disk' = [disk EXCEPT !.lock = @ \/ (At = "developer" /\ files.named)]
  /\ UNCHANGED files

Due == run.i <= Len(run.list) /\ (run.hot \/ ~Ready(At) \/ Reruns(At))

StageBegins ==
  /\ Running("scan") /\ Due
  /\ At # "ba" => files.canon # "none"
  /\ disk' = [disk EXCEPT !.stage = At]
  /\ run' = [run EXCEPT !.pc = "child", !.begun = TRUE, !.left = Now]
  /\ UNCHANGED files

\* No 01-ba.md, or no worktree for a stage that must have one.
StageRefused ==
  /\ Running("scan") /\ Due
  /\ \/ At # "ba" /\ files.canon = "none"
     \/ Coding({At})
  /\ disk' = [disk EXCEPT !.stage = "failed"]
  /\ run' = [run EXCEPT !.pc = "handoff"]
  /\ UNCHANGED files

\* The structured result of an attempt that got as far as a verdict.
Structured(f) ==
  [f EXCEPT !.json = @ \cup {Artifact(s) : s \in Now},
            !.review = IF At = "reviewer" THEN f.text ELSE @]

\* A developer stage whose branch and PR are known, from its artifact or from git, sets
\* the lock; one that has left its branch, or a hotfix without a lock, is a violation.
StageReturns ==
  /\ Running("child")
  /\ \E rc \in Rcs, ws \in SUBSET Now, known \in BOOLEAN : \E f \in Written(ws) :
       /\ f.named => known
       /\ rc \in {"ok", "violation"} => (\A s \in Now : Artifact(s) \in f.md) /\ (Diligent => ws = Now)
       /\ rc = "violation" => Coding(Now) /\ known
       /\ rc = "ok" /\ At = "developer-hotfix" /\ known => disk.lock
       /\ files' = IF rc \in {"ok", "violation"} THEN Structured(f) ELSE f
       /\ disk' = [disk EXCEPT !.lock = @ \/ (rc = "ok" /\ Coding(Now) /\ known)]
       /\ run' = [run EXCEPT !.pc = "account", !.rc = rc]

\* _read_stage_cost_usd reads the structured result, be it of this attempt or of an
\* earlier one.
Charge(f, s) == IF Artifact(s) \in f.json THEN 0..1 ELSE {0}

\* Each stage writes the sum it began with and what it has cost itself: of the pair, the
\* one that counts last has the last word until the two are joined.
Bill(s, c) ==
  /\ disk' = [disk EXCEPT !.cost = run.cost + run.own[s] + c]
  /\ run' = [run EXCEPT !.own[s] = @ + c, !.left = @ \ {s}]

StageCounted(s) ==
  /\ Running("account") /\ s \in run.left
  /\ \E c \in Charge(files, s) : Bill(s, c)
  /\ UNCHANGED files

\* One of the pair is through and counted while the other is still at work.
FirstCounted(s) ==
  /\ Running("child") /\ At = "tester" /\ run.left = Now /\ s \in Now
  /\ \E ws \in SUBSET {s} : \E f \in Written(ws) :
       /\ s \in f.md /\ (Diligent => s \in ws)
       /\ files' = [f EXCEPT !.json = @ \cup {s}]
  /\ \E c \in 0..1 : Bill(s, c)

Counted == Running("account") /\ run.left = {}
Stalled == run.rc = "stall" /\ run.tries = 0

\* limit_stall.park, stage first, then the move. The first attempt that stalls is counted
\* and parked; what the other stage of the pair writes later finds the folder gone.
LimitsParked ==
  /\ Running("account") /\ run.left # Now /\ Stalled
  /\ disk' = [disk EXCEPT !.stage = "waiting-limits"]
  /\ Parks("awaiting-input")
  /\ UNCHANGED files

\* Another backend, if one is left: the first failure must be worth it, later ones
\* are not asked. Of the pair, one stage or both are tried again.
StageRetried ==
  /\ Counted /\ run.rc # "ok" /\ ~Stalled /\ run.tries < MaxFallbacks
  /\ run.tries = 0 => run.rc \in Retriable
  /\ \E again \in SUBSET Now \ {{}} :
       run' = [run EXCEPT !.pc = "child", !.tries = @ + 1, !.left = again]
  /\ UNCHANGED <<disk, files>>

StageFailed ==
  /\ Counted /\ run.rc # "ok" /\ ~Stalled
  /\ disk' = [disk EXCEPT !.stage = "failed"]
  /\ Goes("join")
  /\ UNCHANGED files

\* What the stages in hand have cost together.
Owed == run.own[At] + IF At = "tester" THEN run.own["security"] ELSE 0

\* The join writes the sum of the pair and looks at the cost cap whatever became of the
\* two; after a single stage the sum is the one on disk. Then _terminate_pipeline hands
\* off, but for two codes it takes for "already parked". A rate limit seen in the last
\* attempt's output overrides its code.
Joined ==
  /\ Running("join") \/ (Counted /\ run.rc = "ok")
  /\ LET sum == run.cost + Owed
         checked == run.pc = "account" \/ (At = "tester" /\ sum > disk.budget)
     IN  /\ disk' = [disk EXCEPT !.cost = sum]
         /\ \/ run' = [run EXCEPT !.cost = sum, !.own = NoBills, !.tries = 0, !.rc = "ok",
                                  !.pc = IF checked THEN "checks" ELSE "handoff"]
            \/ ~checked /\ run.rc \in {"violation", "stall"} /\ Ends("exit")
  /\ UNCHANGED files

\* Caps and gates after a stage, in the order of the code. Each begins with the copy
\* of the artifact to its canonical name.
Canonical == [files EXCEPT !.canon = IF At = "ba" THEN files.brief ELSE @]
OverCap == run.cost > disk.budget

CapStopped ==
  /\ Running("checks") /\ OverCap
  /\ disk' = [disk EXCEPT !.stage = "awaiting-input", !.offered = TRUE]
  /\ Parks("awaiting-input")
  /\ files' = Canonical

ClarifyPaused ==
  /\ Running("checks") /\ ~OverCap
  /\ At = "ba" /\ Interactive /\ files.brief = "markers"
  /\ disk' = [disk EXCEPT !.stage = "awaiting_clarify"]
  /\ Parks("awaiting-input")
  /\ files' = Canonical

\* _check_ba_quality_gate
Gated == At = "ba" /\ files.brief # "clean"

GateBlocked ==
  /\ Running("checks") /\ ~OverCap
  /\ Gated /\ ~(Interactive /\ files.brief = "markers")
  /\ disk' = [disk EXCEPT !.stage = "failed"]
  /\ Goes("handoff")
  /\ files' = Canonical

StagePassed ==
  /\ Running("checks") /\ ~OverCap /\ ~Gated
  /\ run' = [run EXCEPT !.pc = "scan", !.i = @ + Cardinality(Now)]
  /\ files' = Canonical
  /\ UNCHANGED disk

\* A bug: only a branch found in git counts as work.
HandedOffByGit ==
  /\ Running("handoff")
  /\ \E work \in BOOLEAN :
       LET bucket == IF work THEN "awaiting-input" ELSE "failed" IN
       /\ disk' = [disk EXCEPT !.stage = bucket]
       /\ Parks(bucket)
  /\ UNCHANGED files

\* _handoff_terminal: a PR, or a branch recovered from the repository, is work to keep.
HandedOff ==
  /\ Running("handoff")
  /\ \E work \in BOOLEAN :
       LET bucket == IF disk.lock \/ work THEN "awaiting-input" ELSE "failed" IN
       /\ disk' = [disk EXCEPT !.stage = bucket]
       /\ Parks(bucket)
  /\ UNCHANGED files

Moved ==
  /\ Running("move")
  /\ disk' = [disk EXCEPT !.dir = run.dest]
  /\ Ends("exit")
  /\ UNCHANGED files

----------------------------------------------------------------------------
(* After the last stage of the list *)

\* _decide_post_pipeline_stage, auto_loop.evaluate_stop: the first that holds.
Judgement(clear, lastRound) ==
  IF "reviewer" \notin files.json THEN "no_reviewer"
  ELSE IF clear THEN "approve"
  ELSE IF lastRound THEN "iteration_cap"
  ELSE IF run.cost >= disk.budget THEN "cost_cap"
  ELSE "request_changes"

Clear == files.review.parsed /\ files.review.critical = 0

\* A bug: an approval with critical findings is an approval.
DecisionByLabel == Judgement(files.review.parsed, disk.iter >= run.cap)

Decision == Judgement(Clear, disk.iter >= run.cap)

\* The last three counts are all that is ever read.
Noted(trend, c) ==
  LET longer == Append(trend, c) IN
  IF Len(longer) > 3 THEN Tail(longer) ELSE longer

Decided ==
  /\ Running("scan") /\ run.i > Len(run.list)
  /\ run' = [run EXCEPT !.pc = "decided", !.why = Decision]
  /\ disk' = IF "reviewer" \in files.json /\ disk.trendIter # disk.iter
             THEN [disk EXCEPT !.trend = Noted(@, files.review.critical), !.trendIter = disk.iter]
             ELSE disk
  /\ UNCHANGED files

\* A bug: the round is not counted.
HotfixUncounted ==
  /\ Running("decided") /\ run.why = "request_changes"
  /\ run' = [run EXCEPT !.pc = "scan", !.list = Hotfix, !.i = 1, !.hot = TRUE]
  /\ UNCHANGED <<disk, files>>

HotfixBegins ==
  /\ Running("decided") /\ run.why = "request_changes"
  /\ disk' = [disk EXCEPT !.iter = @ + 1]
  /\ run' = [run EXCEPT !.pc = "scan", !.list = Hotfix, !.i = 1, !.hot = TRUE]
  /\ UNCHANGED files

\* _critical_is_converging, _maybe_upgrade_tier
Converging == \A k \in 1..(Len(disk.trend) - 1) : disk.trend[k] > disk.trend[k + 1]

Upgradable ==
  /\ run.why = "iteration_cap"
  /\ files.review.critical > 0 /\ Converging
  /\ NextTier(run.tier) # "none"

TierUpgraded ==
  /\ Running("decided") /\ Upgradable
  /\ LET tier == NextTier(run.tier) IN
       run' = [run EXCEPT !.pc = "scan", !.tier = tier,
                          !.cap = IF @ < IterationCap[tier] THEN IterationCap[tier] ELSE @]
  /\ UNCHANGED <<disk, files>>

Approved ==
  /\ Running("decided") /\ run.why \in {"approve", "no_reviewer"}
  /\ disk' = [disk EXCEPT !.stage = "awaiting-approval"]
  /\ Ends("exit")
  /\ UNCHANGED files

StoppedForDecision ==
  /\ Running("decided") /\ run.why \in {"iteration_cap", "cost_cap"} /\ ~Upgradable
  /\ disk' = [disk EXCEPT !.stage = "awaiting-input", !.offered = TRUE]
  /\ Parks("awaiting-input")
  /\ UNCHANGED files

----------------------------------------------------------------------------
Pipeline ==
  \/ StageSkipped \/ StageBegins \/ StageRefused \/ StageReturns
  \/ \E s \in Stages : FirstCounted(s) \/ StageCounted(s)
  \/ LimitsParked \/ StageRetried \/ StageFailed \/ Joined \/ CapStopped \/ ClarifyPaused
  \/ GateBlocked \/ StagePassed \/ HandedOff \/ Moved
  \/ Decided \/ HotfixBegins \/ TierUpgraded \/ Approved \/ StoppedForDecision

Next ==
  \/ Pipeline \/ RunnerStart \/ RunnerDies \/ Continued \/ SweptAway
  \/ \E answers \in BOOLEAN : Requeued(answers)

Spec == Init /\ [][Next]_vars

\* Every stage has a timeout, and nothing else in a runner waits.
FairSpec == Spec /\ WF_vars(Pipeline)

----------------------------------------------------------------------------
(* Properties *)

Buckets == {"active", "awaiting-input", "failed"}
Recorded == Stages \cup Terminals \cup {"received"}
Lists == {Menu(tier) : tier \in AllTiers} \cup {Hotfix}
Counters == {"off", "scan", "child", "account", "join", "checks", "handoff", "move", "decided"}
Reasons == {"none", "no_reviewer", "approve", "iteration_cap", "cost_cap", "request_changes"}
Endings == {"none", "exit", "crash"}
Pos == Nat \ {0}

Folder ==
  [dir: Buckets, stage: Recorded, iter: Nat, cost: Nat, trend: Seq(0..MaxCritical),
   trendIter: Nat, tier: AllTiers, lock: BOOLEAN, budget: Nat, rounds: Nat, offered: BOOLEAN]

Texts ==
  [md: SUBSET Artifacts, json: SUBSET Artifacts, canon: Briefs, brief: Briefs, answered: BOOLEAN,
   named: BOOLEAN, text: Verdicts, review: Verdicts]

Runner ==
  [up: BOOLEAN, pc: Counters, tier: AllTiers, list: Lists, i: Pos, hot: BOOLEAN, cap: Pos,
   cost: Nat, own: [Stages -> Nat], left: SUBSET Stages, tries: Nat, rc: Rcs,
   why: Reasons, dest: Buckets, begun: BOOLEAN, end: Endings, starts: Nat, managed: BOOLEAN]

DiskOK == disk \in Folder
FilesOK == files \in Texts
RunOK == run \in Runner /\ (run.up <=> run.pc # "off")

TypeOK == DiskOK /\ FilesOK /\ RunOK

\* The threads of the pair overwrite each other's sum.
PairCounts == run.up /\ run.pc \in {"child", "account"} /\ At = "tester"

\* What has been spent on a task is not forgotten, whatever its runners do or suffer: the
\* cost on disk shrinks only while the pair counts, and then not below what it was when
\* the pair began (a runner that dies, or parks, there loses the bill of one of the two).
\* And beyond the cost cap a runner that takes the task over starts at most one more
\* stage (or pair).
CapStops ==
  [][/\ disk'.cost >= IF PairCounts THEN run.cost ELSE disk.cost
     /\ Running("scan") /\ run'.pc = "child" /\ disk.cost > disk.budget => ~run.begun]_vars

\* Hotfix rounds end: no round begins beyond the runner's iteration cap.
RoundsWithinCap == run.up => disk.iter <= run.cap

\* A task whose review is on file is approved only on a review without critical findings
\* of the very code that lies in the branch, across crashes, stale artifacts and hotfixes.
ApprovalCurrent ==
  disk.stage = "awaiting-approval" /\ "reviewer" \in files.json
    => files.review.critical = 0 /\ (Diligent => files.review.current)

\* Once a person has answered the questions, the developer does not start on a brief
\* that still has them.
AnswersHeeded ==
  Running("child") /\ At = "developer" /\ files.answered => files.canon # "markers"

\* A runner never puts a task with an open PR into failed/, however it came to end.
WorkKept == [][run.up /\ disk'.dir = "failed" => ~disk.lock]_vars

\* A runner that is not killed comes to an end.
Terminates == run.up ~> ~run.up
=============================================================================
