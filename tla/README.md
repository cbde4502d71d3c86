# ai-delivery in TLA+

ai-delivery turns a request typed into a Telegram bot into a pull request: a task folder
travels through the buckets of `tasks/`, and a pipeline of AI agents (business analyst,
architect, developer, tester, security, reviewer) works in it. The system is a handful of
Python processes that share a directory tree and nothing else: no database, no queue, no
supervisor that sees everything. What can go wrong is therefore what happens between two
processes at a folder, between a process that died and the one that takes over, and between
a handler's look at a file and its write, with a call to Telegram in the middle.

This directory models that, checks it with TLC on small instances, and proves most of the
safety properties with TLAPS for every value of the constants.

1. [The system](#1-the-system)
2. [Modules and how they correspond to the code](#2-modules-and-how-they-correspond-to-the-code)
3. [Runs, bounds and what they show](#3-runs-bounds-and-what-they-show)
4. [Fairness and timing assumptions](#4-fairness-and-timing-assumptions)
5. [What is proved](#5-what-is-proved)
6. [Where the code and its words disagree](#6-where-the-code-and-its-words-disagree)
7. [What is not modelled](#7-what-is-not-modelled)
8. [Plan](#8-plan)

To repeat a check: `tlc -config lifecycle.cfg MCTaskLifecycle.tla`; a proof:
`tlapm StageRunner_proofs.tla`. Paths below are relative to the repository's root.

## 1. The system

### Components, their state and their operations

| Component | State | Operations | Module |
|---|---|---|---|
| Dispatcher (`dispatcher/task_dispatcher.py`) | `_stage_runners` (its children), nothing else; a restart forgets it | every 2 s: move a spec from `inbox/` to `active/`, write `state.json`, spawn a runner, write `.runner.pid`; put an unreadable spec, or one whose name is taken in `active/`, into `failed/`; defer at `DISPATCHER_MAX_STAGES`; drain on SIGTERM | `TaskLifecycle` |
| Watcher (`dispatcher/watcher.py`, `runner_liveness.py`) | `_managed_tasks`, `_respawn_counts`, in memory | one scan at start-up; then each tick: requeue sweeps (transient errors, limit parks, clarify dead man), reconcile merged or closed PRs, orphan scan, liveness of managed runners | `TaskLifecycle`, `Dialog` |
| Stage runner (`dispatcher/stage_runner_agent.py`, `post_pipeline.py`, `auto_loop.py`, `control_loop.py`) | locals of `run_pipeline`, `LoopState`; on disk `state.json`, artifacts, `.runner.lock` | walk through the stages, skip finished ones, retry on other backends, caps and gates, review loop, tier upgrade, handoff, park; two stages at once | `StageRunner`, `PairedStages`, `Backends` |
| Parking (`budget_gate.py`, `limit_stall.py`, `clarify.py`) | stage and resume fields in `state.json` | park, offer buttons, ask, find what is due, send back to `inbox/` | `TaskLifecycle`, `PairedStages`, `Dialog` |
| `state.json` (`runner_state.py`, writers in five files) | the file, a lock file | read-modify-write, some under the lock, some not | `PairedStages` |
| Triage and tiers (`triage.py`, `triage_wiring.py`) | `triage.json` (sticky), `01-ba.md` at tier S | classify once, choose stages and caps, upgrade ladder | `StageRunner` |
| Backend routing (`backend_routing.py`, `provider_profiles.py`, `child_env.py`), cost ledger | registry file, ledger rows | which backend and key runs a stage, what comes after it refuses, what it is charged | `Backends` |
| Process reaper (`proc_reaper.py`) | registry of child process groups | register, kill on signal, sweep orphans | `PairedStages`, `BotAgents` |
| Room (`room_conductor.py`, `room_driver.py`) | turn counters, money, transcript; the registry of slots | hire, pay, answer, close | `RoomDriver`, `RoomContract` |
| Bot (`bot/bot.py`, `bot/budget_buttons.py`) | its own `state.json`, `active_tasks`, `meta_lock` | submit, `/requeue`, `/backend`, `/cancel`, `/room`; sub-agents and meta runs; `/notify`, prompts, replies, buttons; shutdown | `BotAgents`, `Dialog`, `RoomDriver`, `TaskLifecycle` |
| Delegation watchdog (`bot/watchdog.py`) | accounts of delegations | rules checked before a delegation, accounts recorded after it | `Watchdog` |
| Git and GitHub (`git_pr.py`, `target_policy.py`) | worktrees, branches, PRs | create a worktree, look for a branch, open or settle a PR | none |
| Memory, linters, prompts, operations | see `PROJECT.json` | side channels and pure text | none |

### How they interact

The dispatcher and the watcher start runners as child processes and learn about them
through a pid file and a look at the process table. Runners, daemons and bot hand a folder
to each other by `mv` between buckets: `inbox/` (to be ingested), `active/` (a runner's),
`awaiting-input/` (a person's, or a sweep's), `failed/`, `done/`. What the
folder waits for is said by `state.json`'s `stage`; the bucket and the stage are written in
two steps, by whoever moves it. The one lock that all runners respect is a `flock` on
`.runner.lock` inside the folder; the kernel drops it with its holder.

A runner that parks a task tells the bot once, by a POST to `/notify`. The bot shows a
prompt in the chat and files its message id in the folder's `state.json`; a reply is matched
to a task by that id, a tap by the task's name in the button. Inside the bot, coroutines
share dictionaries, one lock and one file; a step of one ends where it awaits.

### What is hard about it

* Three parties may start a runner for the same folder: dispatcher, orphan scan, managed
  check. Their views of who is alive are a pid file that several of them write and a `ps`
  that may time out.
* Every look of the watcher is separate from the act that follows it.
* Every runner may die between any two writes, and the next one resumes from whatever
  artifacts and `state.json` it finds.
* Retry counters, cost and the PR must survive a re-ingest that rewrites `state.json`.
* The same bucket, `awaiting-input/`, holds tasks that wait for a person, for a rate limit
  and for answers, and three sweeps look at it.
* The tester and the security stage run at once in one folder: either may park it under
  the other's feet.
* `state.json` is truncated and rewritten in place; the lock of its writers is released
  before the text has left the buffer.
* The bot reads, awaits Telegram, and writes what it read. A message may be delivered and
  its answer lost.
* A child may be born while the shutdown that is to end it has taken its list.

### What makes each component correct

| Component | Properties |
|---|---|
| Folder custody (dispatcher, watcher, runner processes, people) | one worker per task; restarts of any kind are bounded; a working runner keeps its folder; a folder without a runner does not stay in `active/`; a park by a limit ends; an approved task is not thrown away |
| Stage runner | rounds within the cap; spending never forgotten and stopped at the cap; an approval rests on the current review; answers reach the developer; open work is never filed as failed; every run ends |
| Pair of stages, `state.json` | no stage's bill is lost; a cap holds for the sum; one verdict, told once; no child is left; the pair ends |
| Backend routing | escalation sticks; no closed quota is drawn on again; a task is put down to the limits only when every provider was tried; the cost covers the ledger |
| Room | at most so many at once; a slot comes back; the bills are covered; silence is never an outcome; paid work is delivered; every room ends |
| Bot and watchdog | delegations within the rules; no project and no meta-agent worked twice; accounts true; nothing survives a shutdown; who waits is served |
| Dialog | an answer belongs to the questions it was given for; nobody is answered for, and no cap raised, twice for one stop; a pause ends without the operator |

`PROJECT.json` lists the hazards one by one, each at its line and with the property that
would catch it.

## 2. Modules and how they correspond to the code

| Module | What it is |
|---|---|
| `TaskCustody` | what `tasks/` promises its operator, whoever moves the folders and whatever dies: an abstract specification |
| `TaskLifecycle` | custody of task folders: dispatcher, watcher, runner processes, people, faults; implements `TaskCustody` (`KeepsCustody`) |
| `StageRunner` | the pipeline of one task: what one runner does, and the next one after it |
| `PairedStages` | tester and security as two threads of one runner over one `state.json` and one registry of children |
| `Backends` | the attempts of a stage over providers and keys, over the rounds of a task |
| `RoomContract` | what `/room` promises its owner: an abstract specification |
| `RoomDriver` | `/room` as the code runs it; implements `RoomContract` (`KeepsContract`) |
| `Watchdog` | the accounts of delegations and the rules they are checked against |
| `BotAgents` | extends `Watchdog`: the children of the bot, meta runs, its own `state.json`, its shutdown |
| `Dialog` | the talk between parked tasks and the operator: prompts, replies, buttons, dead man |
| `MC...` | instances for TLC, one per module that is run |
| `..._proofs` | theorems, one module per specification; `StageRunnerReview_proofs` is the second about StageRunner, on answers and reviews |

How they compose. `TaskLifecycle` says who may start and move what and takes a runner's
work as a choice of outcomes (`RunnerApproves`, `RunnerParks`, ...); `StageRunner` says how
those outcomes come about and takes the starting, sweeping and requeueing of folders as steps
of an environment (`Startable`, `SweptAway`, `Requeued`, `Continued`) that it copies, guards
included, from the same code. `PairedStages` opens up the one step in which StageRunner runs
tester and security, `Backends` the one in which an attempt follows another. `Dialog` opens
up the steps in which TaskLifecycle lets a person answer, tap or requeue. `TaskLifecycle`
refines `TaskCustody` and `RoomDriver` refines `RoomContract`, each by a refinement mapping;
`BotAgents` is built on `Watchdog`.

Operators whose comment begins with "A bug:" are the code with a plausible mistake in it.
Nothing uses them; putting one in place of its original shows that a property notices.

### TaskCustody and TaskLifecycle

| Variable | In the code |
|---|---|
| `task[t].dir` | the bucket the folder lies in |
| `task[t].stage`, `.age` | `stage` of `state.json` and how old its last write is: fresh, older than `GRACE_PERIOD`, past its resume time |
| `task[t].used` | `auto_retry_count`, `limit_resume_count` and the clarify counter |
| `task[t].pid` | `.runner.pid` |
| `task[t].over`, `.net`, `.pr`, `.ask` | cost beyond the cap; a network error in a log; the PR; open questions |
| `proc`, `lock` | runner processes, and the holder of `.runner.lock` |
| `disp`, `children` | the step `_ingest` has got to; `_stage_runners` |
| `wat`, `managed`, `respawns` | the pass of the loop, the folders it has yet to visit and the decision taken; `_managed_tasks`; `_respawn_counts` |
| `reruns`, `spent` | history: requeues that really happened, faults that have been used up |

* `DispatcherQuarantine` is `_quarantine`: the folder goes to `failed/` under a name of its own,
  and `/requeue` takes it back by that name.
* The dispatcher ingests in four steps, `DispatcherTake` (move), `DispatcherWriteState`,
  `DispatcherSpawn` or `DispatcherDefer`, `DispatcherWritePid`, with everybody else in
  between.
* The watcher's loop is a cycle of passes; a pass lists a bucket once (`Listing`) and visits the
  folders one by one. A visit decides (`WatcherSweeps`, `WatcherScans`, `WatcherChecksManaged`,
  `WatcherReconcilesPr`), a later step acts on the decision (`WatcherSpawns`, `WatcherMoves`,
  `WatcherCounts` then `WatcherRequeues`, `WatcherSettles` then `WatcherFiles`) or finds the
  folder gone: `WatcherTrips` is an exception that ends the daemon, `WatcherGivesUp` one that is
  caught, as in the code.
* A runner boots, takes the lock or bounces off it, works, writes its terminal stage, moves
  the folder, and is in a tail until its process ends.
* `OrphanPlan`, `ManagedPlan`, `SweepDue` and `Spared` are `_can_respawn`, the managed check
  and the sweeps' conditions, in the order of the code's early returns.

`TaskCustody` knows no daemons, no `state.json` and no probes. It has the bucket of a folder
(`place`), who works on it (`worker`), its pull request (`request`) and how often the system
brought it back by itself (`returns`), and six operations: a folder goes along an edge of the
lifecycle, into `done/` only with a merged request and out of `done/` never;
an automatic return, within a limit; work begins in `active/` where nobody works, by a
process that works nowhere else; processes leave, several at once; a request is opened by who
works; it is settled. TaskLifecycle maps its state to that with `place`, `request` and
`returns` (the sum over the three sweeps of `reruns`), and the holder of the lock is the
worker; looks, counts, pid files and rewrites of `state.json` are stutters.

### StageRunner

| Variable | In the code |
|---|---|
| `disk` | the bucket and `state.json`: stage, iteration, cost, review trend; `pr_lock`; `triage.json`'s tier; the caps of `spec.json`; whether [Continue] has been offered |
| `files` | the artifacts: `md`, the stages whose text is there, `json`, those with a structured result; the BA's brief under its own and its canonical name; a person's answers; the review in either form |
| `run` | locals of `run_pipeline` and a program counter |

`run.pc` goes `scan` (top of the loop over the stages), `child`, `account` (cost is read and
written; then a retry, a park at the limits or a failure), `join` and `checks` (the caps and
gates after a success); `handoff` and `move` are the two steps of `_handoff_terminal`, `decided`
is the moment after `_decide_post_pipeline_stage`.

* `StageReturns` is one attempt: a child may leave its artifact and exit with any code, in
  every combination the code tells apart; `Written` says what children can leave behind,
  also when they are killed (`RunnerDies`).
* `StageCounted` writes what the runner knew before the stages in hand (`run.cost`) and what
  this one has cost since (`run.own`). Tester and security do so each for itself, and
  `FirstCounted` while the other is still at work: the second write drops the bill of the
  first until `Joined` writes the sum.
* `CapStopped`, `ClarifyPaused`, `GateBlocked`, `StagePassed` are the tail of
  `_run_pipeline_stage_with_breadcrumbs`, mutually exclusive in its order.
* `Judgement` is `_decide_post_pipeline_stage` with `evaluate_stop`, the first that holds.
* `RunnerStart` takes from disk what the code reloads, and starts anew what it does not:
  cost is reloaded; the iteration is 1 again; the tier is that of the sticky triage verdict,
  which no upgrade has changed.
* Abstractions: cost is counted in attempts (0 or 1 each) and stands for tokens as well; a
  review is its number of critical findings, whether it could be parsed, and whether a
  developer has touched the code since; "architect" stands for the upstream stages without
  a gate; the pair tester/security ends, stalls and is retried together, with the return code of the
  first failure, though each of the two counts for itself; a child that crashed and one that
  left no artifact are both `failed`.

### PairedStages

| Variable | In the code |
|---|---|
| `th[s]` | a thread of `_run_two_stages_parallel`: where it is, the code its child returned, attempts made and left, what it was billed |
| `known` | the sessions in the state the runner read before the pair |
| `json`, `torn` | `state.json` (stage, cost, tokens, sessions), and whose rewrite is still in a buffer: until it is flushed, the file on disk is empty |
| `folder` | where the folder is and why: active, parked by the limits, stopped by a cap, handed off, failed, deleted |
| `ghost` | `active/<id>` re-created without a `state.json` by a child that still writes |
| `alive`, `tracked` | children that run; `proc_reaper._LIVE` |
| `main`, `told` | the thread that waits for both; what the operator was told |

* A thread goes `StageBegun`, `SessionStored`, `Spawned`, `Tracked`, `Returned`,
  `SessionCleared`, `Accounted`, then `Retried`, `StageFailed` or `StageFinished` and
  `TokensCounted`; each may meet an empty file (`Raised`) or a folder that has gone.
* `ParkMarked`, `ChildrenReaped` and `ParkMoved` are the limit park that one of the two may
  run into; `StopDeferred` is the token cap, left for the join. `Joined`, `BudgetStopped` and
  `HandedOff` are what the runner does with both results.
* `Signalled`, `RunnerKilled` and `Swept` are SIGTERM, SIGKILL and the sweep for orphans.
* Abstractions: adjacent writes of one thread (state and history) are one; money and tokens
  of a stage are the same number.

### Backends

| Variable | In the code |
|---|---|
| `conf` | what does not change during a task: keys, cheap stages, routing of the spec, tier, guard and fallback flags, proxy, `/backend`'s selection, the registry it was accepted under and the one of today |
| `round`, `seen`, `idx` | the runner's iteration, the one in the state it read last, the stage of the round |
| `tries`, `chain`, `limited` | attempts of the stage (label asked for, key and provider that paid, outcome), backends left, `rate_limited` |
| `logs` | stages whose error log shows a refusal |
| `written`, `cost`, `ledger` | artifacts there are; `cost_usd`; rows of the ledger |
| `violated` | history: some attempt ended in a safety violation |

`Routed`, `Base`, `Guarded` and `Resolved` are `_resolve_stage_backend` in its order;
`ProfileFor`, `ProfileUsed` and `Paid` follow a label through `provider_profiles` and
`child_env` to the key that is spent; a backend nobody knows ends up with anthropic.
`Supported` is the order in which providers are tried. `FirstAttempt`, `FallbackPlanned`,
`NextAttempt`, `StageDone` or `StageLost` are `_run_pipeline_stage_with_breadcrumbs` seen from
its attempts; `ChangesRequested` opens a round. The outcome `unsafe` is a developer who left
the branch or the PR of the task: it fails with code 5 after its artifact and its ledger row
are written, and is retried like any other failure.

### RoomContract and RoomDriver

| Variable | In the code |
|---|---|
| `room[r]` | locals of `run_room`: turn, money spent, unparseable replies so far, the job it has hired for, the files and the result there are, the message on its way; and, as history, what the owner heard and got, what the provider is owed, how often Telegram was deaf |
| `active` | `RoomRegistry` |

`ConductorSpawned` and `ReplyUnusable`, `ReplyFinish` or `ReplyDelegate` are a turn of the
conductor; `SpecialistReturned` one of a specialist; `MessageDelivered`, `MessageRefused` and
`DocumentRefused` what becomes of a message and of its files, the newest `FilesSent` there are:
the bot may fail to open one, which it only logs, and Telegram may refuse one, which it raises;
`BudgetExhausted` and `TurnsExhausted` the two ways to be cut short; `CrashReported` and
`RoomReleased` the `except` and the `finally`. What a child reports of its cost is `Reports`: in
full, without the usage, scraped from text, or nothing; for another backend than anthropic the
figure the CLI prints is inflated (`Markup`), and the code prices the tokens instead.

`RoomContract` knows phases, money paid and a specialist at work, and five operations: admit
within the limit, decline beyond it, pay while money is left, hire for a job the model can do
and the rest of the money covers, close with nobody at work. `RoomDriver` maps its state to that
with `phase`, `paid` and `hired`; messages and turns are stutters.

### Watchdog and BotAgents

| Variable | In the code |
|---|---|
| `dog` | the accounts of `watchdog.py`: root, hops, role, prompt and status of each delegation |
| `bot`, `active` | up, draining, stopping, down; `active_tasks` |
| `asked` | requests of `/run-in-project`: the body is awaited; recorded before (early) or after (late) the shutdown began |
| `co`, `alive`, `tracked`, `doomed` | the coroutine of each child, the child itself, the registry, and the list a shutdown has taken |
| `call`, `run` | who called `run_meta_claude` and how far it is; the run under `meta_lock` with the copy of the state it loaded |
| `disk`, `chosen` | the bot's `state.json`; what the operator chose last |

* `DispatchAsked` and `Dispatched` are `_handle_run_in_project` up to its answer, before and
  after it awaits the body: the latch of the shutdown is read in the first, everything else in
  the second, with `Allowed` for the five rules, of which the two about the clock refuse at any
  moment. The HTTP server answers until the loop ends, so the second may come in the drain.
  `Born` and `Registered` are two steps: a child exists before anybody has written it down.
* `MetaEntered`, `SessionCaptured`, `MetaStopped`, `MetaRetried`, `MetaEnded` are
  `run_meta_claude`; `BackendChosen` is `/backend`, which may come between any two of them.
* `ShutdownBegins`, `Drained`, `LoopClosed` are the end of the bot; `BotKilled` is an end
  without one, and `BotStarts` comes back to the accounts on disk, some of them too old.

### Dialog

| Variable | In the code |
|---|---|
| `folder[t].pending` | `clarify_pending` of `state.json`: for which questions, shown in which message |
| `folder[t].payload`, `.answers` | `clarifications-pending.json`; `clarifications.md`, each answer with the questions it stands next to and the message it came by |
| `folder[t].resumes` | `clarify_auto_resumes` |
| `folder[t].parks`, `.caps` | history: stops of the budget, raises of the caps |
| `post`, `send` | the POST a runner has yet to make; the `/notify` handler at work, with the state it read before it awaited Telegram |
| `chat`, `bot` | prompts by message id, with or without buttons; whether the bot is up |

`BriefAsks` and `BudgetParked` park a task, `Notified`, `Shown` and `SendReturns` or
`SendFails` tell the operator; `SendReturns` writes back the state as it was before the send.
`ReplyAccepted`, `Continued`, `Discarded` and `Requeued` are the operator; `ReplyRefused` and
`TappedLate` are what he is told when the prompt is no longer waited for. `DeadManResumes` is
the sweep that answers for him; `DeadManCut` and `ContinueCut` end it, or a tap, by a death
between two writes. "done" stands for everything after the pipeline.

## 3. Runs, bounds and what they show

| Run | Instance | Checks | States |
|---|---|---|---|
| `lifecycle` | 1 task, 3 processes, limit 1, 1 respawn, 1 transient retry; any one outside event | `TypeOK`, `SingleWorker`, `RestartsBounded`, `WorkLeftAlone` | 1.3 M |
| `lifecycle_fair` | the same with 1 limit resume instead of the retry, a crash or a killed watcher; fair daemons | `OrphansRecovered`, `LimitParkEnds`, `KeepsCustody` | 0.3 M |
| `runner` | tier M, caps 1, after its upgrade to L 2, cost cap 2, [Continue] +1, 1 fallback, clarification on, 2 starts; fair runner | `TypeOK`, `ApprovalCurrent`, `AnswersHeeded`, `CapStops`, `WorkKept`, `Terminates` | 0.6 M |
| `pair` | 1 retry each, bills 1, 2 or 5, cost cap 4, token cap 3; fair threads | `TypeOK`, `NoChildLeft`, `TotalsAgree`, `CapsHold`, `ToldOnce`, `RunnerEnds` | 0.5 M |
| `backends` | 2 stages over 3 rounds, the mixes of keys, tiers, routes, proxies and registries in `MCConfs` | `TypeOK`, `Escalated`, `QuotaSpared`, `LimitsReported`, `LedgerCovered` | 5.4 M |
| `room` | 2 requests, 1 slot, 2 turns, budget 100, a bill of 60, models with floors 4 and 90, markup 2, 1 repeated parse, 0 or 2 files and 1 sent; fair event loop | `TypeOK`, `SlotsAccounted`, `AnsweredOrDeaf`, `BillsCovered`, `PaidWorkDelivered`, `RoomConcludes`, `KeepsContract` | 0.4 M |
| `agents` | 2 children, 1 message, 2 projects, limits of 2, 1 repetition, 1 `/backend`, 1 killed bot | `TypeOK`, `RootsBounded`, `Exclusive`, `NoSurvivors`, `AccountsTrue` | 1.6 M |
| `agents_fair` | 1 child, 2 messages; fair event loop | `QueueDrains` | 0.4 M |
| `dialog` | 2 tasks, 1 auto-resume, at most 2 pauses, 1 stop, 1 requeue, 1 death, 1 refused edit, 3 of these in all; fair sends and sweep | `AnswersMatch`, `ResumesPaid`, `PauseEnds` | 0.3 M |
| `approved_lost`, `selection_reverted`, `parked_deleted` | small instances of TaskLifecycle, BotAgents, PairedStages | counterexamples, section 6 | |

`RestartsBounded` is `RetriesBounded` and `RespawnsBounded`, `Exclusive` is `ProjectAlone`
and `OneMeta`, `ResumesPaid` is `DefaultsOnce` and `RaisesPaid`: each pair is one question,
with a name for its halves.

Why these bounds are enough to be of use:

* `lifecycle_fair` is where TLC checks the refinement, since `lifecycle` with its seven kinds
  of outside events would take too long with it; the theorem `CustodyIsKept` covers all of
  them, in any number.
* `lifecycle`: the folders share only the dispatcher's limit and the single-threaded loop of
  the watcher, and every property is about one folder. What a second task adds, deferral,
  is reached with one: a task that is re-ingested while its former runner still holds a slot.
  Three processes are one at work, one booting, and one whose pid is still on file; a pid
  is not reused while a file or a daemon remembers it (`FreePids`). One outside event of
  seven kinds (`MaxEvents`), at any moment: pairs blow up the state space and are excluded
  from the run, not from the proofs.
* `runner`: M is the tier with a BA and its questions; L is reached by the upgrade ladder, and
  its cap of 2 allows a hotfix round there, as [Continue] does in M. S, whose brief comes from
  triage, has no stage that M lacks: it is left to the theorems, which cover every tier, as the
  instance with both would take too long for `Terminates`. `CostCap = 2` with a cost of 0 or
  1 per attempt puts the cap before, at and after each stage. One fallback gives a first and
  a later attempt, which the code treats differently; two starts give a runner and the one
  that takes over. `MaxCritical = 1` is clean and not clean.
* `pair`: the bills make either stage, both, or only their sum exceed a cap; one retry is a
  first and a last attempt.
* `backends`: round 2 escalates, round 3 is the first in which `developer-hotfix` does. Seven
  purses: nothing chosen, with no registry or with a keyless default; a profile that is still
  there, one that lost its key, one that was given to another provider; a profile without a
  URL of its own, and one of another provider than the one asked for. A route may name a
  backend that does not exist (`typo`), which the code runs on anthropic. Settings that only
  matter together vary together (`MCConfs`); the theorems take them in any mix.
* `room`: a bill of 60 is paid once within a budget of 100 and overdraws it the second time;
  a floor of 90 is affordable only at the start. Two requests are needed for the slot. Two
  files with one of them sent stand for any number beyond the five the code sends.
* `agents`: two children make a delegation in a delegation, two in one project and two in
  different ones; with limits of 2 every rule is at its limit. Tasks and projects are
  interchangeable (`SYMMETRY`), messages are alone.
* `dialog`: the second task is there for replies and taps that could reach the wrong one; a
  second pause is there for outdated prompts. With 4 events in all instead of 3 the same
  instance has 1.5 million states and the same result. `TypeOK` is proved and not run.

Deadlock checking is off everywhere: a task that is done, a bot that is down, a system
whose bounded events are used up may stop. Liveness is checked without symmetry.

What some properties say, and why they are stated as they are:

* `WorkLeftAlone` is about a runner whose pid is the one on file. A runner that lost the race
  for the lock may have overwritten it, and a failed probe or a torn read lifts the promise:
  these are named in the property because the code has no defence against them.
* `RetriesBounded` compares the requeues that really happened, a history variable, with the
  limit over the whole life of the task. A counter that starts anew at ingest breaks it.
* `OrphansRecovered` excepts a folder that died between the stage `awaiting_clarify` and its
  move, and one whose watcher was killed between the stage `done` and the move: the watcher
  knows no bucket for either stage.
* `CapStops`: the cost on disk shrinks only while the pair counts, and then not below what it
  was before the pair: a runner that dies or parks there loses one of the two bills. A runner
  that takes over a task beyond its cap may begin one stage, since the cap is checked after a
  stage, and no second one.
* `ApprovalCurrent` is stated for children that write their artifact anew when they exit
  with 0 (`Diligent`). The code checks that the artifact exists, not that it is new.
* `TotalsAgree` excepts a pair in which a thread raised on an empty `state.json`, and a
  folder that one of the two had parked under the other: the code drops that bill.
* `NoSurvivors`, `AccountsTrue` are about a bot that was not killed (`kills = 0`). A dispatch
  recorded before the shutdown is pending as long as it is active and the bot up; one recorded
  in the drain, which nobody terminates, as long as its coroutine lives.
* `Exclusive` takes a project for the string it is asked for by: `active_tasks` compares paths
  as they are written.
* `AnswersMatch` is about one chat: `_find_clarify_task` knows a prompt by its message id alone,
  which Telegram counts per chat, and the model gives no id twice.
* `PauseEnds` is about a watcher with `CLARIFY_DEADMAN_HOURS` set; without it a pause waits for
  a person.
* `QuotaSpared` is about tasks whose every backend has its key; a backend that fell back to
  the environment of anthropic is tried on anthropic again (section 6). `LimitsReported`
  excepts an attempt that died without a log, since the code then reads an older one.
* `LedgerCovered`: equality holds in the first round only, and only without a safety violation:
  a retry after one, and a failed attempt of a later round, charge the artifact that is already
  there again. Cost never falls short, neither of the ledger nor of the artifacts.
* `AnsweredOrDeaf` and `PaidWorkDelivered` except a Telegram that refused a message. The files
  of `PaidWorkDelivered` are the newest `FilesSent`, and one the bot could not open counts as
  `unread`; older ones are never sent.
* `Escalated` is about one runner, since the next one begins at iteration 1.
* `KeepsCustody` bounds automatic returns by the sum of the three limits; that each sweep
  keeps to its own is `RetriesBounded`.
* `DefaultsOnce` and `RaisesPaid` grant one more for a death between two writes: the code has
  no way to know how far it had got.

## 4. Fairness and timing assumptions

* `TaskLifecycle!Fairness`: both daemons are restarted by systemd (`Restart=always`) and poll
  for ever, so each is weakly fair; the watcher's looks and acts separately, since one loop
  alternates between them. A runner comes to an outcome because every stage has a timeout.
  Time passes. Nothing is assumed of people, and nothing of faults.
* `StageRunner!FairSpec`: weak fairness of the pipeline's own steps, for the same reason. Not
  of starts, requeues or deaths: `Terminates` is about a runner that is let alone.
* `PairedStages!FairSpec`: threads are scheduled, a buffer is flushed, and a stage ends by
  `STAGE_TIMEOUT_SEC`. Nothing of signals.
* `RoomDriver!FairSpec`: the event loop runs every task that is ready, a child exits, and a
  call to Telegram returns or raises. Opening a room is not fair.
* `BotAgents!FairSpec`: a meta run ends by itself, by `/cancel` or at `META_TIMEOUT_SEC`.
  Nothing is assumed of sub-agents, because nothing in the code ends a silent one.
* `Dialog!FairSpec`: a POST and a send end by their timeouts, the sweep comes round every
  half minute. Nobody owes an answer or a tap, and no bot need come back.

Orders of magnitude that are assumptions rather than guards of the code, because leaving them
out produces behaviours no machine shows:

* `AtRest`: a person presses no button between the dispatcher's move of a folder and the end
  of its ingest (milliseconds), nor while the runner's interpreter is starting.
* `TimePasses`: `GRACE_PERIOD`, 30 s, outlasts the file operations of one ingest.
* `RunnerLocks`: a Python process takes longer to boot than the watcher to act on a decision
  it has taken, or than the dispatcher to write the pid it has just got.
* `Working` and `DeadManDue` wait for `Quiet`: a send takes seconds, a stage minutes and the
  dead man hours, so neither works on a task while a send of that very task is in flight.

## 5. What is proved

For every set of tasks, processes, rooms and messages, every limit, cap, price, budget and
number of events. The assumptions on the constants say little more than that limits are
natural numbers, iteration caps and retries positive, and `None` no value of anything:
`LimitsAssumption`, `CapsAssumption`, `PairAssumption`, `BackendsAssumption`,
`RoomAssumption`, `WatchdogAssumption`, `BotAssumption`, `DialogAssumption`. TLC evaluates
each of them in the runs of its module.

| Theorem | States | Argument |
|---|---|---|
| `TypeCorrect` | `TypeOK` of TaskLifecycle | inductive as it stands, with two clauses that tie a decision to a task |
| `SingleWorkerHolds` | `SingleWorker` | a working runner is the recorded holder of its folder's lock, and a lock is taken only where nobody holds it |
| `RespawnsBoundedHolds` | `RespawnsBounded` | a pending decision to spawn has room in the counter: look and act are two steps, and only the watcher writes the counter in between |
| `RetriesBoundedHolds` | `RetriesBounded` | the requeues that happened never outrun the counter in `state.json`, and are strictly behind it between the count and the move; no other actor lowers a counter |
| `RestartsBoundedHolds` | `RestartsBounded` | both together |
| `WorkIsLeftAlone` | `WorkLeftAlone` | `Watched`: while the watcher has a decision in hand, nobody works on that folder under the pid on file, since it was dead when the watcher looked, a new process gets a pid nobody remembers, and none gets from boot to work meanwhile; and a runner is started only for a folder with a `state.json`, so every scan but the first asks for its process |
| `CustodyIsKept` | `KeepsCustody` | the refinement: who works holds the lock of its folder (`LockHeld`) and the holder of a lock works there and nowhere else (`LockTrue`); returns never outrun the counters (`RetriesPaid`); nothing is ever put into `awaiting-approval/` (`Placed`). Under these each edit of a folder is an edge of the lifecycle or leaves bucket and PR alone |
| `DoneIsMergedForGood` | a task in `done/` has a merged PR, and nothing leaves `done/` | follows from the promise alone, and so, by `CustodyIsKept`, for the system |
| `RunnerTypeCorrect` | `TypeOK` of StageRunner | strengthened by: a runner with a stage in hand is within its list |
| `HotfixRoundsBounded` | `RoundsWithinCap` | where another round is decided, the iteration is strictly below the cap; upgrades only raise the cap |
| `SpendingStops` | `CapStops` | `CostInv`: between stages the runner's sum is that of `state.json`, and while stages count it is at least that sum, and at most that sum with all their bills; a runner that has begun a stage and is back at its list has found the cost within the cap |
| `OpenWorkKept` | `WorkKept` | a running task is in `active/`, and a move to `failed/` is pending only without a lock |
| `RunnerStepsRunOut` | while a runner is up, every step takes it down a lexicographic order on five numbers (tiers above, rounds left, stages left, attempts left, place in the code) | the order, `Descends`; that the numbers stay natural is `Measured`, from `RoundsInv` |
| `AnswersAreHeeded` | `AnswersHeeded` | past the BA the canonical brief has no questions once they are answered, since the BA is skipped only without any and passed only by the gate |
| `ApprovedOnReview` | `ApprovalCurrent` | a review on file implies the developer's artifact, so no later runner repeats the developer stage; only hotfix rounds outdate a review, and they begin on one that asks for changes; so an outdated review is never a clear one, whatever crashes in between |
| `PairTypeCorrect`, `NoChildIsLeft`, `BothAreCounted`, `CapsAreKept`, `SaidOnce` | `TypeOK`, `NoChildLeft`, `TotalsAgree`, `CapsHold`, `ToldOnce` | one invariant, `PairInv`: a child runs only while its thread stands where it waits (`Settled`), a folder that is away was moved by a thread or the join that is past it (`Away`), the total is the sum over the threads that have counted (`Sums`), and each word to the operator belongs to a place in the code it is said at (`Said`) |
| `PairStepsRunOut` | every step of the pair, kills and signals included, lowers `Work`, which begins at 154 * `Retries` + 155 | a retry costs a thread more places in the code than it wins back; a write in flight, a child, an entry in the registry and a ghost weigh one each, less than any step that makes one |
| `TypeCorrect` (Backends), `QuotaIsSpared`, `LimitsAreReported` | `TypeOK`, `QuotaSpared`, `LimitsReported` | `Retried`: no label is tried twice (`Attempts`), what is left to try is neither repeated nor tried (`Chained`), while everyone refuses whoever has a key was tried or will be (`Reach`), and the log of a stage tells of its last attempt (`LogTrue`) |
| `EscalationHolds`, `LedgerIsCovered` | `Escalated`, `LedgerCovered` | the first attempt of a stage is resolved from an iteration at most one behind (`FirstOnAnthropic`); an artifact is charged by every attempt that can see it, a row is written only with an artifact (`Charges`), and which artifacts there are follows from the place in the code unless a violation left one (`Passed`) |
| `RoomTypeCorrect`, `SlotsHold`, `BillsAreCovered`, `SilenceNever`, `PaidWorkArrives` | `TypeOK`, `SlotsAccounted`, `BillsCovered`, `AnsweredOrDeaf`, `PaidWorkDelivered` | `RoomInv`: whatever a child reports, the debit is at least its bill; a room in `closing` carries the message it was cut short or finished with, with the work and the newest files in it, and a crash is a Telegram that was deaf once |
| `RoomStepsRunOut` | a request takes at most five steps for each turn and four more, and every step of the system is one of one request | `StepsLeft`, which every step lowers, from turns counted down and hops within a turn |
| `OverrunIsOneBill` | what the children that printed a figure cost a room is less than one bill above its budget | the budget is looked at before each child, and the debit is at least the bill |
| `RoomKeepsContract` | `KeepsContract` | the refinement: initial states map to initial states, and under `RoomInv` each step maps to one of the contract's or to a stutter |
| `BotTypeCorrect`, `WatchdogRules` | `TypeOK`, `RootsBounded` | a delegation is written down only if it is `Allowed`, and no other step adds one to a root |
| `ProjectsAreAlone`, `OneMetaRuns`, `ExclusiveHolds` | `Exclusive` | who is in `active_tasks` owns a project from the check on, with no await in between; a meta child belongs to the one holder of the lock or is doomed (`Locked`, `Owned`) |
| `AccountsAreTrue`, `TerminatedForGood`, `NothingSurvives` | `AccountsTrue`, `TerminatedStays`, `NoSurvivors` | a dispatch leaves `active_tasks` and becomes settled in one step (`Reported`); none of a bot that is up was recorded late (`LateOver`); a child not yet registered when the list is taken has a coroutine that kills it |
| `DialogTypeCorrect`, `AnswersMatchHolds`, `ResumesPaidHolds` | `TypeOK`, `AnswersMatch`, `ResumesPaid` | `DialogInv`, an invariant per task: the questions a folder waits on, the payload beside it and the snapshot of a send in flight all name the same pause, so writing the snapshot back is harmless as long as the folder stays parked. Steps of another task only make the chat grow (`Widened`) |

Four are worth reading. `ReviewInv` is the reason why skipping stages by their artifacts is
safe for a task that dies in the middle of a hotfix round, and it holds by a narrow margin:
only because the developer's artifact is never deleted. `SendInv` is the reason why the bot's
read-await-write of `state.json` loses no answer: it writes back a state that, while the
folder is still parked, nobody else has changed. `Watched` is the reason why a watcher that
looks first and acts later does not take a folder from a runner: not the lock, which the
watcher never asks for, but that a dead pid stays dead. `CustodyIsKept` and
`RoomKeepsContract` say that four kinds of actors around `tasks/`, and the whole of
`run_room`, do no more than their contracts.

The three theorems on steps that run out are the safety half of `Terminates`, `RunnerEnds`
and `RoomConcludes`: no execution of a runner, a pair or a room can go on for ever. That it
does go on until its end, which needs fairness, is left to TLC.

Each proof has one step per action, lemmas for the edits that actions share, and a QED by
`PTL`. The enumerated sets of names are cited as facts (`Words`) instead of being expanded.

Only model-checked: the liveness properties (`OrphansRecovered`, `LimitParkEnds`,
`Terminates`, `RunnerEnds`, `RoomConcludes`, `QueueDrains`, `PauseEnds`), since liveness under
fairness and `ENABLED` are beyond the prover. Every invariant and every action property of a
passing run is a theorem, and so are both refinements. No module declares a `RECURSIVE`
operator.

## 6. Where the code and its words disagree

Each of the following has a run in which TLC finds the behaviour (`PROJECT.json` has the
quotations):

| Run | What happens |
|---|---|
| `approved_lost` | a managed runner that ended after `awaiting-approval` counts as dead, is respawned up to the limit, and the folder lands in `failed/` with its PR open |
| `selection_reverted` | a meta run loads the bot's `state.json`, the operator chooses another backend, the meta run saves its copy when it sees its session id: the choice is gone |
| `parked_deleted` | security parks the folder and kills the tester's child; the tester's failure then hands the parked task off, and the handoff removes it |

Met while modelling. The steps are in the models; a run of their own they do not have.

Custody of folders:

* The sweep for transient errors takes a task that waits for clarification, because of an
  old network error in its logs, and a runner works on it with its questions open.
* The start-up scan of the watcher moves a folder to `failed/` that the dispatcher has just
  moved to `active/` and not yet given a `state.json`.
* Runners that the watcher starts (`watcher.py:668`) do not count against
  `DISPATCHER_MAX_STAGES`: a folder the dispatcher defers is adopted after its grace period.
* A folder that dies between the stage `awaiting_clarify` and its move has no bucket in the
  watcher's tables and stays in `active/`. A watcher that dies between the new stage `inbox`
  and the move leaves a limit park, or a clarify pause, that no sweep picks up; one that dies
  between the stage `done` and the move (`watcher.py:610`) leaves a merged task in `active/`
  for ever (`LimitParkEnds`, `PauseEnds` and `OrphansRecovered` are stated accordingly).
* `awaiting-approval` is a stage and never a bucket: nothing fills `awaiting-approval/`, where
  `/requeue` and the approve button look.

The pipeline:

* A crash between the reviewer's text and its structured result: the next runner skips the
  reviewer and approves for want of a verdict.
* A task blocked by the quality gate is requeued; the BA is skipped because its artifact
  exists, and the gate with it.
* A safety stop of the developer has return code 5, which `_terminate_pipeline` takes for
  "already parked": the folder stays in `active/` as `failed` until the watcher sweeps it. A
  retry that stalls on the limits is stranded in the same way.
* A review that cannot be parsed: the docstring of `_decide_post_pipeline_stage` says
  `('awaiting-input', 'unparseable')`; the code goes into a hotfix round with no finding.
* The iteration is set to 1 at every start of a pipeline (`stage_runner_agent.py:2835`), while
  `task_dispatcher.py:200` says it persists across re-ingest; [Continue] grants a whole new
  set of rounds. `RoundsWithinCap` is a bound per runner.
* `cost_usd` goes down while the pair counts: each thread writes its own snapshot and bill
  (`stage_runner_agent.py:2353`), and a runner that dies or parks before the join (2602) has
  forgotten one bill.
* A tier upgrade is not written to `triage.json`: a resumed runner has the old tier and cap.
* The budget stops at `cost > cap` in the runner (line 2479) and at `cost >= cap` in the
  watcher (737) and after the pipeline (`auto_loop.py:158`).
* At tier S the verdict is stored before the brief: a crash in between leaves a folder that
  every later runner refuses, `01-ba.md` missing (`Init` of StageRunner has it).
* The stagnation and watchdog stops of `auto_loop` are unreachable, as each decision is taken
  with a fresh `LoopState`.
* `SessionCleared`: sessions are cleared by the state read before the stage
  (`stage_runner_agent.py:1441`), so one opened in this very run survives.

The pair and `state.json`:

* The docstring of `_add_tokens_used` says "never lose an increment"; the lock is released
  before the text is flushed, and the other thread that reads in the window raises. A runner
  killed in it leaves an empty file.
* `stage_runner_agent.py:2275` says that nothing may be writing into the folder when `park()`
  moves it; a child born after the reap re-creates `active/<id>`, an empty ghost.
* The label `waiting-limits` may be overwritten by the other stage; a second
  park "must not re-notify" (`limit_stall.py:347`), and does when it read the old label, or
  none from the moved folder.
* The snapshot a SIGTERM kills by misses a child that is spawned later.

Backends and cost:

* The label `deepseek:alt` of a spec's routing is never split in `_resolve_stage_backend`, so
  such a stage runs on anthropic (`provider_profiles.py:28` names the form).
* A backend without a key runs in the environment of anthropic, is priced as itself, and on a
  refusal is tried on anthropic again.
* `_stage_hit_rate_limit` reads the log of an earlier attempt if the last one left none. With
  `RATE_LIMIT_CROSS_PROVIDER_FALLBACK=0`, `rate_limited` is not computed again.
* A failed attempt in a later round charges the earlier round's result again, and a retry after
  a safety violation that of the violation: artifact and ledger row are written before the
  code 5 is returned (`stage_runner_agent.py:1434`).
* `developer-hotfix` escalates one round late. The environment of a fallback lacks the
  two-model policy, and the LiteLLM proxy ignores a profile's key.

Room and bot:

* A room whose conductor cannot be parsed delivers nothing of the work it has paid for
  (`room_driver.py:492`), unlike one cut short by money or turns.
* A file the bot cannot open is missing from the answer with a line in the log
  (`bot.py:3213`), and of more than five files the older ones are never sent
  (`room_driver.py:610`): the owner is told of neither.
* `_handle_run_in_project` asks for the shutdown before it awaits the body (`bot.py:3398`,
  3401) and not after it: a dispatch whose body comes in the drain is recorded as pending and
  started, and is not terminated with the others; it ends as failed when the loop is closed.
* The docstring of `_shutdown_children` (`bot.py:3689`) says that no new child may be born
  after the snapshot; one whose coroutine is inside `create_subprocess_exec` at that moment is,
  and is ended only by the `finally` of that coroutine or the `atexit` belt.
* `watchdog.py:3` speaks of chains of delegations; `bot.py:3428` gives each dispatch without a
  running parent a root of its own, so a chain across reports is not counted as one.

The dialog:

* The dead man removes `clarify_pending` (`watcher.py:512`), so the branch for a late answer
  (`bot.py:1934`) is unreachable: a late answer is told "closed (not found)", against the
  comment at `bot.py:1929`.
* A prompt whose send timed out after delivery, or which a `/requeue` or a second list of
  questions has overtaken, is told that the task is long gone (`bot.py:1921`) while it lives.
* A budget stop at the BA keeps open questions that nobody is asked; an old Continue button
  may send back a task parked for another reason.
* `approval_needed` and `rate_limit_hit` have handlers and no sender; `pipeline_complete`,
  `pipeline_handoff`, `pr_reconciled`, `limit_stall_parked` and `clarify_deadman_resumed` have
  senders and no handler.

## 7. What is not modelled

* Prompts, linters, the classification of a task, memory, the texts of notifications, queries
  over the ledger, operations and services: text and side channels that no step waits for.
* git and GitHub beyond "a branch or PR is known": calls to programs and parsing of output.
* Speech to text, the approval callback with the memory bank, Windmill's schedule.
* In TaskLifecycle: what the stages do; id allocation (ids are unique); the pipe of a runner
  that nobody reads (`task_dispatcher.py:290`); a drain after a re-ingest that overwrote the
  tracked process (294); a requeue that meets an older folder in `inbox/` (`watcher.py:391`);
  a folder `active/<id>` that an agent creates anew, but for the collision it causes at ingest
  (PairedStages has the ghost itself). A spec that is JSON and does not fit the schema is
  treated like one that is half written.
* In StageRunner: the two stages of the pair against each other (PairedStages has them), the
  choice of a backend (Backends), the INVEST gate (off by default), a separate token cap.
* In PairedStages: the detector of limit storms and the parsing of reset times, process
  groups and the output of `ps`.
* In RoomDriver: a scratch directory that cannot be listed, which counts as an empty one; what
  is memorized after a room has closed.
* In BotAgents: the values of the clock rules; what children say to each other.
* In Dialog: the wording of answers and how a reply is split into them; voice messages.

## 8. Plan

| | Subject | Why |
|---|---|---|
| done | `TaskCustody` and `TaskLifecycle`, `StageRunner`, `PairedStages` (with `state.json` and the reaper), `Backends`, `RoomDriver` and `RoomContract`, `Watchdog` and `BotAgents`, `Dialog` | sections 3 and 5 |
| 1 | who else may throw an approved task away, undo a choice or delete a parked folder: do `ApprovedKept`, `SelectionKept` and `ParkKept` hold but for the steps that section 6 names? | it says where a repair would have to go |
| 2 | a measure for BotAgents and Dialog under their counters of outside events | their steps run out as well |
| 3 | the detector of limit storms (`limit_stall.py`) | one park per storm, resume times in the future |
| 4 | the approval callback and the PR watcher | a merged PR and a person's tap at once |
