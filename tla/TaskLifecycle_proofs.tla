----------------------- MODULE TaskLifecycle_proofs -----------------------
(***************************************************************************)
(* What TLAPS proves of TaskLifecycle for every set of tasks and processes *)
(* and every limit: type correctness, the single worker per folder, the    *)
(* bounds on respawns and on automatic requeues, that nobody takes the     *)
(* folder from under a runner at work, and that all of it together is what *)
(* TaskCustody promises. Each safety theorem has its strengthened          *)
(* inductive invariant next to it.                                         *)
(***************************************************************************)
EXTENDS TaskLifecycle, TLAPS

\* What a step leaves unchanged keeps its type. Every typing lemma below cites this for
\* the variables an action lists under UNCHANGED.
LEMMA Unchanged ==
  ASSUME TypeOK
  PROVE /\ UNCHANGED task => TaskOK'
        /\ UNCHANGED procVars => ProcOK' /\ LockOK'
        /\ UNCHANGED lock => LockOK'
        /\ UNCHANGED dispatcherVars => DispOK' /\ ChildrenOK'
        /\ UNCHANGED children => ChildrenOK'
        /\ UNCHANGED watcherVars => WatOK' /\ ManagedOK' /\ RespawnsOK' /\ RerunsOK'
        /\ UNCHANGED managed => ManagedOK'
        /\ UNCHANGED respawns => RespawnsOK'
        /\ UNCHANGED reruns => RerunsOK'
        /\ UNCHANGED spent => SpentOK'
  BY DEF TypeOK, TaskOK, ProcOK, Alive, LockOK, DispOK, ChildrenOK, WatOK, ManagedOK, RespawnsOK,
         RerunsOK, SpentOK, procVars, dispatcherVars, watcherVars

\* The values of a folder's ask field.
Answers == {"no", "open", "answered"}

\* Every edit the actions make to a folder (move, rewrite of state.json, questions, cap,
\* effects of a stage, ageing) yields a folder again.
LEMMA Edited ==
  ASSUME NEW x \in Folder
  PROVE /\ \A dir \in Buckets : In(x, dir) \in Folder
        /\ \A stage \in Stages : At(x, stage) \in Folder
        /\ \A ask \in Answers : Asks(x, ask) \in Folder
        /\ x.ask \in Answers
        /\ x.stage \in Stages
        /\ Waived(x) \in Folder
        /\ [x EXCEPT !.over = FALSE] \in Folder
        /\ StageEffects(x) \subseteq Folder
        /\ [x EXCEPT !.age = @ + 1] \in Folder \/ x.age = 2
<1>1. \A dir \in Buckets : In(x, dir) \in Folder
  BY DEF Folder, In
<1>2. \A stage \in Stages : At(x, stage) \in Folder
  <2> SUFFICES ASSUME NEW stage \in Stages PROVE At(x, stage) \in Folder
    OBVIOUS
  <2>1. [x EXCEPT !.stage = stage] \in Folder
    BY DEF Folder
  <2>2. \A y \in Folder : [y EXCEPT !.age = 0] \in Folder
    BY DEF Folder
  <2> QED BY <2>1, <2>2 DEF At
<1>3. \A ask \in Answers : Asks(x, ask) \in Folder
  BY DEF Folder, Asks, Answers
<1>4. x.ask \in Answers /\ x.stage \in Stages /\ [x EXCEPT !.over = FALSE] \in Folder
  BY DEF Folder, Answers
<1>5. Waived(x) \in Folder
  BY <1>3, <1>4 DEF Waived, Answers
<1>6. [x EXCEPT !.age = @ + 1] \in Folder \/ x.age = 2
  <2>1. x.age \in 0..2
    BY DEF Folder
  <2>2. \A age \in 0..2 : [x EXCEPT !.age = age] \in Folder
    BY DEF Folder
  <2>3. x.age + 1 \in 0..2 \/ x.age = 2
    BY <2>1
  <2> QED BY <2>2, <2>3
<1>7. StageEffects(x) \subseteq Folder
  <2>0. \A net \in BOOLEAN : [x EXCEPT !.net = net] \in Folder
    BY DEF Folder
  <2>1. /\ [x EXCEPT !.net = @ \/ x.used["transient"] < RetryLimit["transient"]] \in Folder
        /\ [x EXCEPT !.over = TRUE] \in Folder
    <3>1. (x.net \/ x.used["transient"] < RetryLimit["transient"]) \in BOOLEAN
      BY DEF Folder
    <3>2. [x EXCEPT !.over = TRUE] \in Folder
      BY DEF Folder
    <3> QED BY <2>0, <3>1, <3>2
  <2>2. [x EXCEPT !.pr = IF @ = "none" THEN "open" ELSE @] \in Folder
    BY DEF Folder
  <2> QED BY <2>1, <2>2 DEF StageEffects
<1> QED BY <1>1, <1>2, <1>3, <1>4, <1>5, <1>6, <1>7

\* A folder that records another pid, or none, is a folder.
LEMMA PidRecorded ==
  ASSUME NEW x \in Folder, NEW pid \in Pids \cup {None}
  PROVE [x EXCEPT !.pid = pid] \in Folder
BY SMTT(60) DEF Folder

\* So does the edit of _requeue_to_inbox, which bumps a retry counter.
LEMMA CountedOK ==
  ASSUME NEW x \in Folder, NEW sweep
  PROVE Counted(x, sweep) \in Folder
<1> DEFINE y == At(Asks(x, IF sweep = "clarify" THEN "answered" ELSE x.ask),
                   IF sweep = "transient" THEN x.stage ELSE "inbox")
<1>1. y \in Folder
  BY Edited DEF Answers, Stages
<1> HIDE DEF y
<1>2. \A z \in Folder : [z EXCEPT !.used[sweep] = @ + 1] \in Folder
  BY DEF Folder
<1> QED BY <1>1, <1>2 DEF Counted, y

\* Writing a folder over one entry keeps the type of task.
LEMMA Written ==
  ASSUME TaskOK, NEW t, NEW x, t \in Tasks => x \in Folder, task' = [task EXCEPT ![t] = x]
  PROVE TaskOK'
  BY DEF TaskOK

\* The same for a runner's write, dropped when the folder is gone.
LEMMA WrittenInPlace ==
  ASSUME TaskOK, NEW t, NEW x, t \in Tasks => x \in Folder, Writes(t, x)
  PROVE TaskOK'
  BY DEF TaskOK, Writes

\* The death of any set of processes, with the locks the kernel drops, is well typed.
LEMMA ProcessesEnded ==
  ASSUME ProcOK, LockOK, NEW ps, EndAll(ps)
  PROVE ProcOK' /\ LockOK'
  BY DEF EndAll, ProcOK, Alive, LockOK, Gone, Phases

\* A live runner that moves to another phase is well typed.
LEMMA PhaseChanged ==
  ASSUME ProcOK, NEW p \in Pids, Alive(p), NEW phase \in Phases,
         proc' = [proc EXCEPT ![p].phase = phase]
  PROVE ProcOK'
  BY DEF ProcOK, Alive

\* Spending one outside event is well typed.
LEMMA EventSpent ==
  ASSUME SpentOK, NEW k, Spend(k)
  PROVE SpentOK'
BY LimitsAssumption DEF Spend, SpentOK

\* A liveness probe, true or mistaken, is well typed.
LEMMA Probed ==
  ASSUME SpentOK, NEW t, NEW dead \in BOOLEAN, Probe(t, dead)
  PROVE SpentOK'
  BY EventSpent DEF Probe, SpentOK

\* A decision of the watcher is well typed.
LEMMA Decided ==
  ASSUME WatOK, NEW t \in Tasks, NEW plan \in Plans, Decides(t, plan)
  PROVE WatOK'
  BY DEF Decides, WatOK

\* The steps of _ingest and _spawn_stage_runner keep the types.
LEMMA DispatcherTyped == ASSUME TypeOK, Dispatcher PROVE TypeOK'
<1> USE LimitsAssumption
<1>1. ASSUME NEW t \in Tasks, DispatcherQuarantine(t) PROVE TypeOK'
  <2>1. In(task[t], "failed") \in Folder
    BY Edited DEF TypeOK, TaskOK, Buckets
  <2>2. TaskOK'
    BY <1>1, <2>1 DEF DispatcherQuarantine, TypeOK, TaskOK
  <2> QED BY <1>1, <2>2, Unchanged DEF DispatcherQuarantine, TypeOK
<1>2. ASSUME NEW t \in Tasks, DispatcherTake(t) PROVE TypeOK'
  <2>1. In(task[t], "active") \in Folder
    BY Edited DEF TypeOK, TaskOK, Buckets
  <2>2. TaskOK'
    BY <1>2, <2>1 DEF DispatcherTake, TypeOK, TaskOK
  <2>3. DispOK'
    BY <1>2 DEF DispatcherTake, TypeOK, DispOK
  <2> QED BY <1>2, <2>2, <2>3, Unchanged DEF DispatcherTake, TypeOK
<1>3. ASSUME DispatcherWriteState PROVE TypeOK'
  <2>1. disp.task \in Tasks => Ingested(task[disp.task]) \in Folder
    BY Edited DEF TypeOK, TaskOK, Ingested, Stages
  <2>2. TaskOK'
    BY <1>3, <2>1 DEF DispatcherWriteState, TypeOK, TaskOK
  <2>3. DispOK'
    BY <1>3 DEF DispatcherWriteState, Idle, TypeOK, DispOK
  <2> QED BY <1>3, <2>2, <2>3, Unchanged DEF DispatcherWriteState, TypeOK
<1>4. ASSUME DispatcherDefer PROVE TypeOK'
  <2>1. DispOK' /\ ChildrenOK'
    BY <1>4 DEF DispatcherDefer, Idle, TypeOK, DispOK, ChildrenOK
  <2> QED BY <1>4, <2>1, Unchanged DEF DispatcherDefer, TypeOK
<1>5. ASSUME DispatcherWritePid PROVE TypeOK'
  <2> DEFINE t == disp.task
             pid == IF task[t].dir = "active" THEN disp.pid ELSE task[t].pid
  <2>0. t \in Tasks /\ task[t] \in Folder /\ disp.pid \in Pids \cup {None}
    BY <1>5 DEF DispatcherWritePid, TypeOK, TaskOK, DispOK
  <2>1. pid \in Pids \cup {None}
    BY <2>0 DEF Folder
  <2>2. TaskOK'
    <3>1. task' = [task EXCEPT ![t].pid = pid]
      BY <1>5 DEF DispatcherWritePid
    <3> HIDE DEF pid, t
    <3>2. [task[t] EXCEPT !.pid = pid] \in Folder
      BY <2>0, <2>1, PidRecorded
    <3> QED BY <2>0, <3>1, <3>2 DEF TypeOK, TaskOK
  <2>3. DispOK'
    BY <1>5 DEF DispatcherWritePid, Idle, TypeOK, DispOK
  <2> QED BY <1>5, <2>2, <2>3, Unchanged DEF DispatcherWritePid, TypeOK
<1>6. ASSUME NEW p \in Pids, DispatcherSpawn(p) PROVE TypeOK'
  <2>1. ProcOK'
    BY <1>6 DEF DispatcherSpawn, TypeOK, ProcOK, Alive, DispOK, Phases
  <2>2. DispOK' /\ ChildrenOK'
    BY <1>6 DEF DispatcherSpawn, TypeOK, DispOK, ChildrenOK
  <2> QED BY <1>6, <2>1, <2>2, Unchanged DEF DispatcherSpawn, TypeOK
<1>7. ASSUME DispatcherStart PROVE TypeOK'
  <2>1. DispOK'
    BY <1>7 DEF DispatcherStart, TypeOK, DispOK
  <2> QED BY <1>7, <2>1, Unchanged DEF DispatcherStart, TypeOK
<1> QED BY <1>1, <1>2, <1>3, <1>4, <1>5, <1>6, <1>7 DEF Dispatcher

\* The steps of a stage runner keep the types.
LEMMA RunnerTyped ==
  ASSUME TypeOK, NEW p \in Pids, Runner(p) \/ RunnerProgress(p)
  PROVE TypeOK'
<1> DEFINE t == proc[p].task
<1>1. CASE RunnerLocks(p)
  <2>1. ProcOK' /\ LockOK'
    BY <1>1, PhaseChanged DEF RunnerLocks, Alive, TypeOK, LockOK, Phases
  <2> QED BY <1>1, <2>1, Unchanged DEF RunnerLocks, TypeOK
<1>2. CASE RunnerBounces(p) \/ RunnerRefuses(p) \/ RunnerLosesFolder(p) \/ RunnerExits(p)
  BY <1>2, ProcessesEnded, Unchanged
     DEF RunnerBounces, RunnerRefuses, RunnerLosesFolder, RunnerExits, Ends, TypeOK
<1>3. CASE RunnerProgress(p)
  <2>1. PICK x \in StageEffects(task[t]) : Writes(t, At(x, "pipeline"))
    BY <1>3 DEF RunnerProgress
  <2>2. t \in Tasks => x \in Folder
    BY <2>1, Edited DEF TypeOK, TaskOK
  <2>3. TaskOK'
    BY <2>1, <2>2, Edited, WrittenInPlace DEF TypeOK, Stages
  <2> QED BY <1>3, <2>3, Unchanged DEF RunnerProgress, TypeOK
<1>4. CASE RunnerApproves(p)
  <2>1. TaskOK'
    BY <1>4, Edited, WrittenInPlace DEF RunnerApproves, TypeOK, TaskOK, Stages
  <2>2. ProcOK'
    BY <1>4, PhaseChanged DEF RunnerApproves, Alive, TypeOK, Phases
  <2> QED BY <1>4, <2>1, <2>2, Unchanged DEF RunnerApproves, TypeOK
<1>5. CASE RunnerStopsUnsafe(p)
  <2>1. TaskOK'
    BY <1>5, Edited, WrittenInPlace DEF RunnerStopsUnsafe, TypeOK, TaskOK, Stages
  <2>2. ProcOK'
    BY <1>5, PhaseChanged DEF RunnerStopsUnsafe, Alive, TypeOK, Phases
  <2> QED BY <1>5, <2>1, <2>2, Unchanged DEF RunnerStopsUnsafe, TypeOK
<1>6. CASE RunnerParks(p)
  <2> DEFINE Parked(k) == Asks(At(task[t], k.stage),
                               IF k.stage = "awaiting_clarify" THEN "open" ELSE task[t].ask)
  <2>1. PICK k \in Parkings : /\ Writes(t, Parked(k))
                              /\ proc' = [proc EXCEPT ![p].phase = k.phase]
    BY <1>6 DEF RunnerParks
  <2>2. k.stage \in Stages /\ k.phase \in Phases
    BY DEF Parkings, Stages, Phases
  <2>3. t \in Tasks => Parked(k) \in Folder
    BY <2>2, Edited DEF TypeOK, TaskOK, Answers
  <2>4. TaskOK' /\ ProcOK'
    BY <1>6, <2>1, <2>2, <2>3, WrittenInPlace, PhaseChanged DEF RunnerParks, Alive, TypeOK
  <2> QED BY <1>6, <2>4, Unchanged DEF RunnerParks, TypeOK
<1>7. CASE RunnerMoves(p)
  <2>1. TaskOK'
    BY <1>7, Edited, WrittenInPlace DEF RunnerMoves, TypeOK, TaskOK, Buckets
  <2>2. ProcOK'
    BY <1>7, PhaseChanged DEF RunnerMoves, Alive, TypeOK, Phases
  <2> QED BY <1>7, <2>1, <2>2, Unchanged DEF RunnerMoves, TypeOK
<1> QED BY <1>1, <1>2, <1>3, <1>4, <1>5, <1>6, <1>7 DEF Runner

\* The bot's buttons, its commands and the owner of the PR keep the types.
LEMMA PeopleTyped == ASSUME TypeOK, People PROVE TypeOK'
<1>1. ASSUME NEW t \in Tasks, NEW dirs, NEW x \in Folder, Operator(t, dirs, x)
      PROVE TypeOK'
  <2>1. TaskOK' /\ SpentOK'
    BY <1>1, Written, EventSpent DEF Operator, TypeOK
  <2> QED BY <1>1, <2>1, Unchanged DEF Operator, TypeOK
<1> SUFFICES ASSUME NEW t \in Tasks,
                    \/ SubmitOpen(t) \/ SubmitClose(t) \/ Requeue(t) \/ BudgetContinue(t)
                    \/ BudgetDiscard(t) \/ RateLimitSwitch(t) \/ RateLimitCancel(t)
                    \/ ClarifyReply(t) \/ OwnerSettlesPr(t)
             PROVE TypeOK'
  BY DEF People
<1>2. task[t] \in Folder /\ {"inbox", "failed"} \subseteq Buckets /\ "inbox" \in Stages
  BY DEF TypeOK, TaskOK, Buckets, Stages
<1>3. CASE SubmitOpen(t) \/ SubmitClose(t)
  <2>1. [task[t] EXCEPT !.dir = "inbox", !.torn = TRUE] \in Folder
    BY <1>2 DEF Folder
  <2>2. [task[t] EXCEPT !.torn = FALSE] \in Folder
    BY <1>2 DEF Folder
  <2>3. TaskOK'
    BY <1>3, <2>1, <2>2, Written DEF SubmitOpen, SubmitClose, TypeOK, TaskOK
  <2> QED BY <1>3, <2>3, Unchanged DEF SubmitOpen, SubmitClose, TypeOK
<1>4. CASE Requeue(t) \/ RateLimitSwitch(t) \/ RateLimitCancel(t) \/ BudgetDiscard(t)
  BY <1>1, <1>2, <1>4, Edited DEF Requeue, RateLimitSwitch, RateLimitCancel, BudgetDiscard
<1>5. CASE BudgetContinue(t)
  <2>1. PICK x \in {task[t], [task[t] EXCEPT !.over = FALSE]} :
          Operator(t, {"awaiting-input"}, In(At(Waived(x), "inbox"), "inbox"))
    BY <1>5 DEF BudgetContinue
  <2>2. x \in Folder
    BY <1>2, Edited
  <2> QED BY <1>1, <1>2, <2>1, <2>2, Edited
<1>6. CASE ClarifyReply(t)
  BY <1>1, <1>2, <1>6, Edited DEF ClarifyReply, Answers
<1>7. CASE OwnerSettlesPr(t)
  <2>1. \A verdict \in {"merged", "closed"} : [task[t] EXCEPT !.pr = verdict] \in Folder
    BY <1>2 DEF Folder
  <2>2. TaskOK'
    BY <1>7, <2>1 DEF OwnerSettlesPr, TypeOK, TaskOK
  <2> QED BY <1>7, <2>2, Unchanged DEF OwnerSettlesPr, TypeOK
<1> QED BY <1>3, <1>4, <1>5, <1>6, <1>7

\* Stops, kills and crashes keep the types.
LEMMA FaultsTyped == ASSUME TypeOK, Faults PROVE TypeOK'
<1> USE LimitsAssumption
<1>1. CASE DispatcherStop
  <2>1. ProcOK' /\ LockOK' /\ SpentOK'
    BY <1>1, ProcessesEnded, EventSpent DEF DispatcherStop, TypeOK
  <2>2. DispOK' /\ ChildrenOK'
    BY <1>1 DEF DispatcherStop, TypeOK, DispOK, ChildrenOK
  <2> QED BY <1>1, <2>1, <2>2, Unchanged DEF DispatcherStop, TypeOK
<1>2. CASE DispatcherKilled
  <2>1. ProcOK' /\ LockOK' /\ SpentOK'
    BY <1>2, ProcessesEnded, EventSpent, Unchanged DEF DispatcherKilled, TypeOK
  <2>2. DispOK' /\ ChildrenOK'
    BY <1>2 DEF DispatcherKilled, Idle, TypeOK, DispOK, ChildrenOK
  <2> QED BY <1>2, <2>1, <2>2, Unchanged DEF DispatcherKilled, TypeOK
<1>3. CASE WatcherKilled
  <2>1. SpentOK'
    BY <1>3, EventSpent DEF WatcherKilled, TypeOK
  <2>2. WatOK'
    BY <1>3 DEF WatcherKilled, Down, TypeOK, WatOK, Plans
  <2> QED BY <1>3, <2>1, <2>2, Unchanged DEF WatcherKilled, TypeOK
<1>4. ASSUME NEW p \in Pids, RunnerCrashes(p) PROVE TypeOK'
  <2>1. ProcOK' /\ LockOK' /\ SpentOK'
    BY <1>4, ProcessesEnded, EventSpent DEF RunnerCrashes, Ends, TypeOK
  <2> QED BY <1>4, <2>1, Unchanged DEF RunnerCrashes, TypeOK
<1> QED BY <1>1, <1>2, <1>3, <1>4 DEF Faults

\* Whatever a scan decides about a folder is one of the watcher's plans.
LEMMA PlansTyped ==
  ASSUME NEW t, NEW dead
  PROVE OrphanPlan(t, dead) \in Plans /\ ManagedPlan(t, dead) \in Plans
<1>1. OrphanPlan(t, dead) \in Plans
  BY DEF OrphanPlan, Plans
<1>2. ManagedPlan(t, dead) \in Plans
  BY DEF ManagedPlan, Plans
<1> QED BY <1>1, <1>2

\* The passes of monitor_loop keep the types while they look.
LEMMA WatcherLooksTyped == ASSUME TypeOK, WatcherLooks PROVE TypeOK'
<1>1. CASE WatcherStart
  <2>1. WatOK' /\ ManagedOK' /\ RespawnsOK'
    BY <1>1 DEF WatcherStart, Listing, TypeOK, WatOK, ManagedOK, RespawnsOK, Plans, Passes
  <2> QED BY <1>1, <2>1, Unchanged DEF WatcherStart, TypeOK
<1>2. CASE WatcherNextPass
  <2>1. NextPass(wat.pass) \in Passes /\ Listing(NextPass(wat.pass)) \in SUBSET Tasks
    BY DEF NextPass, Listing, TypeOK, WatOK, ManagedOK, Passes, Sweeps
  <2>2. WatOK'
    BY <1>2, <2>1 DEF WatcherNextPass, TypeOK, WatOK
  <2> QED BY <1>2, <2>2, Unchanged DEF WatcherNextPass, TypeOK
<1>3. ASSUME NEW t \in Tasks, WatcherSweeps(t) PROVE TypeOK'
  BY <1>3, Decided, Unchanged DEF WatcherSweeps, TypeOK, Plans
<1>4. ASSUME NEW t \in Tasks, WatcherReconcilesPr(t) PROVE TypeOK'
  BY <1>4, Decided, Unchanged DEF WatcherReconcilesPr, TypeOK, Plans
<1>5. ASSUME NEW t \in Tasks, WatcherScans(t) PROVE TypeOK'
  <2>1. WatOK' /\ SpentOK'
    BY <1>5, Decided, Probed, EventSpent, PlansTyped DEF WatcherScans, ReadsTorn, TypeOK, Plans
  <2> QED BY <1>5, <2>1, Unchanged DEF WatcherScans, TypeOK
<1>6. ASSUME NEW t \in Tasks, WatcherChecksManaged(t) PROVE TypeOK'
  <2>1. WatOK' /\ SpentOK' /\ ManagedOK'
    BY <1>6, Decided, Probed, PlansTyped DEF WatcherChecksManaged, TypeOK, ManagedOK
  <2> QED BY <1>6, <2>1, Unchanged DEF WatcherChecksManaged, TypeOK
<1> QED BY <1>1, <1>2, <1>3, <1>4, <1>5, <1>6 DEF WatcherLooks

\* And when they act on what they saw.
LEMMA WatcherActsTyped == ASSUME TypeOK, WatcherActs PROVE TypeOK'
<1> DEFINE t == wat.task
<1> USE LimitsAssumption
<1>1. wat' \in {Done, Down} => WatOK'
  BY DEF TypeOK, WatOK, Done, Down, Plans
<1>2. t \in Tasks => task[t] \in Folder
  BY DEF TypeOK, TaskOK
<1>3. ASSUME NEW p \in Pids, WatcherSpawns(p) PROVE TypeOK'
  <2>0. t \in Tasks
    BY <1>3 DEF WatcherSpawns, TypeOK, WatOK
  <2>1. ProcOK'
    BY <1>3, <2>0 DEF WatcherSpawns, TypeOK, ProcOK, Alive, Phases
  <2>2. TaskOK'
    <3>1. [task[t] EXCEPT !.pid = p] \in Folder
      BY <1>2, <2>0, PidRecorded
    <3> QED BY <1>3, <3>1 DEF WatcherSpawns, TypeOK, TaskOK
  <2>3. WatOK'
    BY <1>1, <1>3 DEF WatcherSpawns
  <2>4. ManagedOK'
    BY <1>3, <2>0 DEF WatcherSpawns, TypeOK, ManagedOK
  <2>5. RespawnsOK'
    BY <1>3, <2>0 DEF WatcherSpawns, TypeOK, RespawnsOK
  <2> QED BY <1>3, <2>1, <2>2, <2>3, <2>4, <2>5, Unchanged DEF WatcherSpawns, TypeOK
<1>4. CASE WatcherMoves
  <2>1. TaskOK'
    BY <1>2, <1>4, Edited DEF WatcherMoves, TypeOK, TaskOK, Buckets, Stages
  <2>2. WatOK'
    BY <1>1, <1>4 DEF WatcherMoves
  <2> QED BY <1>4, <2>1, <2>2, Unchanged DEF WatcherMoves, TypeOK
<1>5. CASE WatcherTrips \/ WatcherGivesUp
  <2>1. WatOK'
    BY <1>1, <1>5 DEF WatcherTrips, WatcherGivesUp
  <2> QED BY <1>5, <2>1, Unchanged DEF WatcherTrips, WatcherGivesUp, TypeOK
<1>6. CASE WatcherSettles
  <2>1. TaskOK'
    BY <1>2, <1>6, Edited DEF WatcherSettles, Verdict, TypeOK, TaskOK, Stages
  <2>2. WatOK'
    BY <1>6 DEF WatcherSettles, TypeOK, WatOK, Plans
  <2> QED BY <1>6, <2>1, <2>2, Unchanged DEF WatcherSettles, TypeOK
<1>9. CASE WatcherFiles
  <2>1. TaskOK'
    BY <1>2, <1>9, Edited DEF WatcherFiles, Verdict, TypeOK, TaskOK, Buckets
  <2>2. WatOK'
    BY <1>1, <1>9 DEF WatcherFiles
  <2> QED BY <1>9, <2>1, <2>2, Unchanged DEF WatcherFiles, TypeOK
<1>7. CASE WatcherCounts
  <2>1. TaskOK'
    BY <1>2, <1>7, CountedOK DEF WatcherCounts, TypeOK, TaskOK
  <2>2. WatOK'
    BY <1>7 DEF WatcherCounts, TypeOK, WatOK, Plans
  <2> QED BY <1>7, <2>1, <2>2, Unchanged DEF WatcherCounts, TypeOK
<1>8. CASE WatcherRequeues
  <2>1. TaskOK'
    BY <1>2, <1>8, Edited DEF WatcherRequeues, TypeOK, TaskOK, Buckets
  <2>2. WatOK'
    BY <1>1, <1>8 DEF WatcherRequeues
  <2>3. RerunsOK'
    <3>1. t \in Tasks /\ reruns[t] \in [Sweeps -> Nat]
      BY <1>8 DEF WatcherRequeues, TypeOK, WatOK, RerunsOK
    <3>2. [reruns[t] EXCEPT ![wat.pass] = @ + 1] \in [Sweeps -> Nat]
      <4>1. CASE wat.pass \in Sweeps
        BY <3>1, <4>1
      <4>2. CASE wat.pass \notin Sweeps
        BY <3>1, <4>2
      <4> QED BY <4>1, <4>2
    <3> QED BY <1>8, <3>1, <3>2 DEF WatcherRequeues, TypeOK, RerunsOK
  <2> QED BY <1>8, <2>1, <2>2, <2>3, Unchanged DEF WatcherRequeues, TypeOK
<1> QED BY <1>3, <1>4, <1>5, <1>6, <1>7, <1>8, <1>9 DEF WatcherActs

\* The state of the whole system stays well typed: every folder is in a bucket and a
\* stage the code knows, every live process belongs to a task, and the dispatcher and the
\* watcher hold a task whenever they are in the middle of something.
THEOREM TypeCorrect == Spec => []TypeOK
<1>1. Init => TypeOK
  BY LimitsAssumption DEF Init, NoFolder, Gone, Alive, TypeOK, TaskOK, ProcOK, LockOK, DispOK, ChildrenOK,
     WatOK, ManagedOK, RespawnsOK, RerunsOK, SpentOK, Folder, Buckets, Stages, Phases, Plans, Passes
<1>2. TypeOK /\ [Next]_vars => TypeOK'
  <2> SUFFICES ASSUME TypeOK, [Next]_vars PROVE TypeOK'
    OBVIOUS
  <2>1. CASE UNCHANGED vars
    BY <2>1, Unchanged DEF vars, TypeOK, procVars, dispatcherVars, watcherVars
  <2>2. ASSUME NEW t \in Tasks, TimePasses(t) PROVE TypeOK'
    <3>1. task[t].age # 2 /\ task[t] \in Folder
      BY <2>2 DEF TimePasses, TypeOK, TaskOK
    <3>2. TaskOK'
      BY <2>2, <3>1, Edited DEF TimePasses, TypeOK, TaskOK
    <3> QED BY <2>2, <3>2, Unchanged DEF TimePasses, TypeOK
  <2> QED BY <2>1, <2>2, DispatcherTyped, RunnerTyped, PeopleTyped, FaultsTyped,
             WatcherLooksTyped, WatcherActsTyped DEF Next
<1> QED BY <1>1, <1>2, PTL DEF Spec

----------------------------------------------------------------------------
\* The strengthening of SingleWorker: a runner past _acquire_runner_lock is the holder the
\* kernel has on record for its folder.
LockHeld == \A p \in Pids : HoldsLock(p) => lock[proc[p].task] = p

\* Processes that end give their locks back, and only theirs.
LEMMA LockEnded ==
  ASSUME TypeOK, LockHeld, NEW ps, EndAll(ps)
  PROVE LockHeld'
  BY DEF TypeOK, ProcOK, LockOK, LockHeld, HoldsLock, Alive, EndAll, Gone

\* A new process holds nothing yet.
LEMMA LockSpawned ==
  ASSUME TypeOK, LockHeld, NEW q \in Pids, NEW t,
         proc' = [proc EXCEPT ![q] = [task |-> t, phase |-> "boot"]], UNCHANGED lock
  PROVE LockHeld'
  BY DEF TypeOK, ProcOK, LockHeld, HoldsLock

\* A runner that changes phase under its lock still holds it.
LEMMA LockKept ==
  ASSUME TypeOK, LockHeld, NEW q \in Pids, HoldsLock(q), NEW phase,
         proc' = [proc EXCEPT ![q].phase = phase], UNCHANGED lock
  PROVE LockHeld'
  BY DEF TypeOK, ProcOK, LockHeld, HoldsLock

\* A runner takes only a lock nobody holds.
LEMMA LockTaken ==
  ASSUME TypeOK, LockHeld, NEW q \in Pids, RunnerLocks(q)
  PROVE LockHeld'
<1>1. proc[q].task \in Tasks /\ lock[proc[q].task] = None
  BY DEF TypeOK, ProcOK, Alive, RunnerLocks
<1> SUFFICES ASSUME NEW p \in Pids, HoldsLock(p)' PROVE lock'[proc'[p].task] = p
  BY DEF LockHeld
<1>2. CASE p = q
  BY <1>1, <1>2 DEF RunnerLocks, TypeOK, ProcOK, LockOK
<1>3. CASE p # q
  <2>1. HoldsLock(p) /\ proc'[p].task = proc[p].task
    BY <1>3 DEF RunnerLocks, TypeOK, ProcOK, HoldsLock
  <2>2. proc[p].task # proc[q].task
    BY <1>1, <2>1, LimitsAssumption DEF LockHeld
  <2> QED BY <2>1, <2>2 DEF RunnerLocks, LockHeld, TypeOK, LockOK
<1> QED BY <1>2, <1>3

LEMMA OneHolder == Spec => []LockHeld
<1>1. Init => LockHeld
  BY DEF Init, LockHeld, HoldsLock, Gone
<1>2. TypeOK /\ LockHeld /\ [Next]_vars => LockHeld'
  <2> SUFFICES ASSUME TypeOK, LockHeld, [Next]_vars PROVE LockHeld'
    OBVIOUS
  <2>1. CASE UNCHANGED <<proc, lock>>
    BY <2>1 DEF LockHeld, HoldsLock
  <2>2. CASE \E ps : EndAll(ps)
    BY <2>2, LockEnded
  <2>3. CASE \E p \in Pids : DispatcherSpawn(p)
    BY <2>3, LockSpawned DEF DispatcherSpawn
  <2>4. CASE \E p \in Pids : WatcherSpawns(p)
    BY <2>4, LockSpawned DEF WatcherSpawns
  <2>5. ASSUME NEW p \in Pids, Runner(p) PROVE LockHeld'
    <3>1. CASE RunnerLocks(p)
      BY <3>1, LockTaken
    <3>2. CASE RunnerBounces(p) \/ RunnerRefuses(p) \/ RunnerLosesFolder(p) \/ RunnerExits(p)
      BY <2>2, <3>2 DEF RunnerBounces, RunnerRefuses, RunnerLosesFolder, RunnerExits, Ends
    <3>3. CASE RunnerApproves(p) \/ RunnerStopsUnsafe(p) \/ RunnerMoves(p)
      BY <3>3, LockKept DEF RunnerApproves, RunnerStopsUnsafe, RunnerMoves, HoldsLock
    <3>4. CASE RunnerParks(p)
      <4>1. HoldsLock(p) /\ UNCHANGED lock
        BY <3>4 DEF RunnerParks, HoldsLock
      <4>2. \E k \in Parkings : proc' = [proc EXCEPT ![p].phase = k.phase]
        BY <3>4 DEF RunnerParks
      <4>3. PICK phase : proc' = [proc EXCEPT ![p].phase = phase]
        BY <4>2
      <4> QED BY <4>1, <4>3, LockKept
    <3> QED BY <2>5, <3>1, <3>2, <3>3, <3>4 DEF Runner
  <2>6. CASE Dispatcher
    BY <2>1, <2>3, <2>6 DEF Dispatcher, DispatcherQuarantine, DispatcherTake,
       DispatcherWriteState, DispatcherDefer, DispatcherWritePid, DispatcherStart, procVars
  <2>7. CASE WatcherLooks
    BY <2>1, <2>7 DEF WatcherLooks, WatcherStart, WatcherNextPass, WatcherSweeps,
       WatcherReconcilesPr, WatcherScans, WatcherChecksManaged, procVars
  <2>8. CASE WatcherActs
    BY <2>1, <2>4, <2>8 DEF WatcherActs, WatcherMoves, WatcherTrips, WatcherGivesUp,
       WatcherSettles, WatcherFiles, WatcherCounts, WatcherRequeues, procVars
  <2>9. CASE People
    BY <2>1, <2>9 DEF People, SubmitOpen, SubmitClose, Requeue, BudgetContinue, BudgetDiscard,
       RateLimitSwitch, RateLimitCancel, ClarifyReply, OwnerSettlesPr, Operator, procVars
  <2>10. CASE Faults
    BY <2>1, <2>2, <2>10 DEF Faults, DispatcherStop, DispatcherKilled, WatcherKilled,
       RunnerCrashes, Ends, procVars
  <2>11. CASE \/ UNCHANGED vars
              \/ \E t \in Tasks : TimePasses(t)
              \/ \E p \in Pids : RunnerProgress(p)
    BY <2>1, <2>11 DEF vars, TimePasses, RunnerProgress, procVars
  <2> QED BY <2>5, <2>6, <2>7, <2>8, <2>9, <2>10, <2>11 DEF Next
<1> QED BY <1>1, <1>2, TypeCorrect, PTL DEF Spec

\* At most one process works on a task, however many runners the dispatcher and the
\* watcher start for it (_acquire_runner_lock), for any number of tasks and processes.
THEOREM SingleWorkerHolds == Spec => []SingleWorker
<1>1. LockHeld => SingleWorker
  BY DEF LockHeld, SingleWorker
<1> QED BY <1>1, OneHolder, PTL

----------------------------------------------------------------------------
\* Who is not the watcher leaves the watcher's variables alone.
\* The steps in which the watcher takes no part.
Others ==
  \/ Dispatcher \/ People \/ UNCHANGED vars
  \/ DispatcherStop \/ DispatcherKilled
  \/ \E p \in Pids : Runner(p) \/ RunnerProgress(p) \/ RunnerCrashes(p)
  \/ \E t \in Tasks : TimePasses(t)

\* A step is the watcher's look, the watcher's act, or another's.
LEMMA Divided ==
  ASSUME [Next]_vars
  PROVE Others \/ WatcherLooks \/ WatcherActs \/ WatcherKilled
  BY DEF Next, Others, Faults

\* Nobody else touches the watcher's memory, which lives in its process.
LEMMA OthersLeaveWatcher == ASSUME Others PROVE UNCHANGED watcherVars
<1>1. CASE Dispatcher
  BY <1>1 DEF Dispatcher, DispatcherQuarantine, DispatcherTake, DispatcherWriteState,
     DispatcherDefer, DispatcherWritePid, DispatcherSpawn, DispatcherStart
<1>2. CASE People
  BY <1>2 DEF People, SubmitOpen, SubmitClose, Requeue, BudgetContinue, BudgetDiscard,
     RateLimitSwitch, RateLimitCancel, ClarifyReply, OwnerSettlesPr, Operator
<1>3. CASE \E p \in Pids : Runner(p) \/ RunnerProgress(p) \/ RunnerCrashes(p)
  BY <1>3 DEF Runner, RunnerLocks, RunnerBounces, RunnerRefuses, RunnerLosesFolder,
     RunnerApproves, RunnerStopsUnsafe, RunnerParks, RunnerMoves, RunnerExits, RunnerProgress,
     RunnerCrashes
<1>4. CASE \/ UNCHANGED vars \/ DispatcherStop \/ DispatcherKilled
           \/ \E t \in Tasks : TimePasses(t)
  BY <1>4 DEF vars, watcherVars, DispatcherStop, DispatcherKilled, TimePasses
<1> QED BY <1>1, <1>2, <1>3, <1>4 DEF Others

\* The strengthening of RespawnsBounded: a decision to start a runner was taken with
\* room left in the counter, and nothing bumps the counter between the look and the act.
RespawnsPaid ==
  /\ \A t \in Tasks : respawns[t] <= MaxRespawn
  /\ wat.plan \in {"adopt", "revive"} => respawns[wat.task] < MaxRespawn

\* One watcher process starts at most MaxRespawn runners for a task (_classify_orphan and
\* the managed check of monitor_loop against MAX_RESPAWN).
THEOREM RespawnsBoundedHolds == Spec => []RespawnsBounded
<1>1. Init => RespawnsPaid
  BY LimitsAssumption DEF Init, RespawnsPaid
<1>2. TypeOK /\ RespawnsPaid /\ [Next]_vars => RespawnsPaid'
  <2> SUFFICES ASSUME TypeOK, RespawnsPaid, [Next]_vars PROVE RespawnsPaid'
    OBVIOUS
  <2> USE LimitsAssumption
  <2>1. CASE Others
    BY <2>1, OthersLeaveWatcher DEF RespawnsPaid, watcherVars
  <2>2. CASE WatcherLooks
    <3>1. CASE WatcherStart
      BY <3>1 DEF WatcherStart, RespawnsPaid
    <3>2. CASE WatcherNextPass
      BY <3>2 DEF WatcherNextPass, RespawnsPaid, TypeOK, WatOK
    <3>3. ASSUME NEW t \in Tasks, NEW plan, Decides(t, plan), UNCHANGED respawns,
                 plan \in {"adopt", "revive"} => respawns[t] < MaxRespawn
          PROVE RespawnsPaid'
      BY <3>3 DEF Decides, RespawnsPaid, TypeOK, WatOK
    <3>4. ASSUME NEW t \in Tasks, WatcherSweeps(t) \/ WatcherReconcilesPr(t)
          PROVE RespawnsPaid'
      BY <3>3, <3>4 DEF WatcherSweeps, WatcherReconcilesPr
    <3>5. ASSUME NEW t \in Tasks, WatcherScans(t) PROVE RespawnsPaid'
      <4>1. \A dead : OrphanPlan(t, dead) \in {"adopt", "revive"} => respawns[t] < MaxRespawn
        <5>1. respawns[t] >= MaxRespawn \/ respawns[t] < MaxRespawn
          BY DEF TypeOK, RespawnsOK
        <5>2. ASSUME respawns[t] >= MaxRespawn, NEW dead
              PROVE OrphanPlan(t, dead) \notin {"adopt", "revive"}
          BY <5>2 DEF OrphanPlan
        <5> QED BY <5>1, <5>2
      <4> QED BY <3>3, <3>5, <4>1 DEF WatcherScans, ReadsTorn
    <3>6. ASSUME NEW t \in Tasks, WatcherChecksManaged(t) PROVE RespawnsPaid'
      <4>1. \A dead : ManagedPlan(t, dead) \in {"adopt", "revive"} => respawns[t] < MaxRespawn
        BY DEF ManagedPlan
      <4> QED BY <3>3, <3>6, <4>1 DEF WatcherChecksManaged
    <3> QED BY <2>2, <3>1, <3>2, <3>4, <3>5, <3>6 DEF WatcherLooks
  <2>3. CASE WatcherActs
    <3>1. ASSUME NEW p \in Pids, WatcherSpawns(p) PROVE RespawnsPaid'
      BY <3>1 DEF WatcherSpawns, Done, RespawnsPaid, TypeOK, RespawnsOK, WatOK
    <3>2. CASE \/ WatcherMoves \/ WatcherTrips \/ WatcherGivesUp
               \/ WatcherSettles \/ WatcherFiles \/ WatcherRequeues \/ WatcherCounts
      BY <3>2 DEF WatcherMoves, WatcherTrips, WatcherGivesUp, WatcherSettles, WatcherFiles,
         WatcherRequeues,
         WatcherCounts, Done, Down, RespawnsPaid, TypeOK, WatOK
    <3> QED BY <2>3, <3>1, <3>2 DEF WatcherActs
  <2>4. CASE WatcherKilled
    BY <2>4 DEF WatcherKilled, Down, RespawnsPaid, TypeOK, WatOK
  <2> QED BY <2>1, <2>2, <2>3, <2>4, Divided
<1>3. RespawnsPaid => RespawnsBounded
  BY DEF RespawnsPaid, RespawnsBounded
<1> QED BY <1>1, <1>2, <1>3, TypeCorrect, PTL DEF Spec

----------------------------------------------------------------------------
\* No edit but the requeue's own touches the retry counters of a folder.
LEMMA UsedKeptByEdits ==
  ASSUME NEW x \in Folder, NEW dir, NEW stage, NEW ask
  PROVE /\ In(x, dir).used = x.used
        /\ At(x, stage).used = x.used
        /\ Asks(x, ask).used = x.used
        /\ Waived(x).used = x.used
        /\ [x EXCEPT !.over = FALSE].used = x.used
        /\ \A y \in StageEffects(x) : y.used = x.used
  BY DEF In, At, Asks, Waived, StageEffects, Folder

\* Nor does a sequence of two of them.
LEMMA UsedKeptByChains ==
  ASSUME NEW x \in Folder, NEW dir, NEW stage \in Stages, NEW ask
  PROVE /\ In(At(x, stage), dir).used = x.used
        /\ In(At(Waived(x), stage), dir).used = x.used
        /\ In(At(Asks(x, "answered"), stage), dir).used = x.used
        /\ Asks(At(x, stage), ask).used = x.used
<1>1. At(x, stage) \in Folder /\ Waived(x) \in Folder /\ Asks(x, "answered") \in Folder
  BY Edited DEF Answers
<1>2. At(Waived(x), stage) \in Folder /\ At(Asks(x, "answered"), stage) \in Folder
  BY <1>1, Edited
<1>3. \A y \in Folder : /\ In(y, dir).used = y.used /\ At(y, stage).used = y.used
                        /\ Asks(y, ask).used = y.used /\ Waived(y).used = y.used
                        /\ Asks(y, "answered").used = y.used
  BY UsedKeptByEdits
<1> QED BY <1>1, <1>2, <1>3

\* A step that leaves every retry counter alone.
UsedKept == \A t \in Tasks : task'[t].used = task[t].used

\* Writing over one folder an entry with the same counters leaves them all alone.
LEMMA UsedKeptWhenWritten ==
  ASSUME TypeOK, NEW t, NEW x, t \in Tasks => x.used = task[t].used,
         task' = [task EXCEPT ![t] = x] \/ Writes(t, x)
  PROVE UsedKept
  BY DEF TypeOK, TaskOK, UsedKept, Writes

\* Nobody but the watcher touches the retry counters: re-ingest carries them over, and so
\* does every write of a runner and every button of the bot.
LEMMA OthersKeepUsed == ASSUME TypeOK, Others PROVE UsedKept
<1>1. ASSUME UNCHANGED task PROVE UsedKept
  BY <1>1 DEF UsedKept
<1>2. \A t \in Tasks : task[t] \in Folder
  BY DEF TypeOK, TaskOK
<1>3. CASE Dispatcher
  <2>1. ASSUME NEW t \in Tasks, DispatcherQuarantine(t) \/ DispatcherTake(t) PROVE UsedKept
    BY <1>2, <2>1, UsedKeptByEdits DEF DispatcherQuarantine, DispatcherTake, TypeOK, TaskOK, UsedKept
  <2>2. CASE DispatcherWriteState
    BY <1>1, <1>2, <2>2, UsedKeptByEdits
       DEF DispatcherWriteState, Ingested, TypeOK, TaskOK, UsedKept
  <2>3. CASE DispatcherWritePid
    <3>1. \A t \in Tasks : \A pid : [task[t] EXCEPT !.pid = pid].used = task[t].used
      BY <1>2 DEF Folder
    <3> QED BY <1>2, <2>3, <3>1 DEF DispatcherWritePid, TypeOK, TaskOK, UsedKept
  <2>4. CASE DispatcherDefer \/ DispatcherStart \/ \E p \in Pids : DispatcherSpawn(p)
    BY <1>1, <2>4 DEF DispatcherDefer, DispatcherStart, DispatcherSpawn
  <2> QED BY <1>3, <2>1, <2>2, <2>3, <2>4 DEF Dispatcher
<1>4. ASSUME NEW p \in Pids, Runner(p) \/ RunnerProgress(p) PROVE UsedKept
  <2> DEFINE t == proc[p].task
  <2>1. CASE RunnerProgress(p)
    <3>1. PICK x \in StageEffects(task[t]) : Writes(t, At(x, "pipeline"))
      BY <2>1 DEF RunnerProgress
    <3>2. t \in Tasks => x \in Folder /\ x.used = task[t].used
      BY <1>2, <3>1, Edited, UsedKeptByEdits
    <3> QED BY <3>1, <3>2, UsedKeptByEdits, UsedKeptWhenWritten
  <2>2. CASE RunnerApproves(p) \/ RunnerStopsUnsafe(p) \/ RunnerMoves(p)
    BY <1>2, <2>2, UsedKeptByEdits, UsedKeptWhenWritten
       DEF RunnerApproves, RunnerStopsUnsafe, RunnerMoves
  <2>3. CASE RunnerParks(p)
    <3>1. PICK k \in Parkings :
            Writes(t, Asks(At(task[t], k.stage),
                           IF k.stage = "awaiting_clarify" THEN "open" ELSE task[t].ask))
      BY <2>3 DEF RunnerParks
    <3>2. k.stage \in Stages
      BY DEF Parkings, Stages
    <3> QED BY <1>2, <3>1, <3>2, UsedKeptByChains, UsedKeptWhenWritten
  <2>4. CASE \/ RunnerLocks(p) \/ RunnerBounces(p) \/ RunnerRefuses(p)
             \/ RunnerLosesFolder(p) \/ RunnerExits(p)
    BY <1>1, <2>4 DEF RunnerLocks, RunnerBounces, RunnerRefuses, RunnerLosesFolder, RunnerExits
  <2> QED BY <1>4, <2>1, <2>2, <2>3, <2>4 DEF Runner
<1>5. CASE People
  <2> SUFFICES ASSUME NEW t \in Tasks,
                      \/ SubmitOpen(t) \/ SubmitClose(t) \/ Requeue(t) \/ BudgetContinue(t)
                      \/ BudgetDiscard(t) \/ RateLimitSwitch(t) \/ RateLimitCancel(t)
                      \/ ClarifyReply(t) \/ OwnerSettlesPr(t)
               PROVE UsedKept
    BY <1>5 DEF People
  <2>1. CASE SubmitOpen(t) \/ SubmitClose(t) \/ OwnerSettlesPr(t)
    <3>1. /\ [task[t] EXCEPT !.dir = "inbox", !.torn = TRUE].used = task[t].used
          /\ [task[t] EXCEPT !.torn = FALSE].used = task[t].used
          /\ \A v : [task[t] EXCEPT !.pr = v].used = task[t].used
      BY <1>2 DEF Folder
    <3> QED BY <2>1, <3>1, UsedKeptWhenWritten
            DEF SubmitOpen, SubmitClose, OwnerSettlesPr, TypeOK, TaskOK, UsedKept
  <2>2. CASE \/ Requeue(t) \/ RateLimitSwitch(t) \/ BudgetDiscard(t) \/ RateLimitCancel(t)
    <3>1. \/ task' = [task EXCEPT ![t] = In(Waived(task[t]), "inbox")]
          \/ task' = [task EXCEPT ![t] = In(task[t], "failed")]
      BY <2>2 DEF Requeue, RateLimitSwitch, BudgetDiscard, RateLimitCancel, Operator
    <3>2. task[t] \in Folder /\ Waived(task[t]) \in Folder
      BY <1>2, Edited
    <3>3. /\ In(Waived(task[t]), "inbox").used = task[t].used
          /\ In(task[t], "failed").used = task[t].used
      BY <3>2, UsedKeptByEdits
    <3> QED BY <3>1, <3>3, UsedKeptWhenWritten
  <2>3. CASE BudgetContinue(t)
    <3>1. PICK x \in {task[t], [task[t] EXCEPT !.over = FALSE]} :
            task' = [task EXCEPT ![t] = In(At(Waived(x), "inbox"), "inbox")]
      BY <2>3 DEF BudgetContinue, Operator
    <3>2. x \in Folder /\ x.used = task[t].used
      BY <1>2, Edited, UsedKeptByEdits
    <3>3. In(At(Waived(x), "inbox"), "inbox").used = x.used
      BY <3>2, UsedKeptByChains DEF Stages
    <3> QED BY <3>1, <3>2, <3>3, UsedKeptWhenWritten
  <2>4. CASE ClarifyReply(t)
    <3>1. In(At(Asks(task[t], "answered"), "inbox"), "inbox").used = task[t].used
      BY <1>2, UsedKeptByChains DEF Stages
    <3> QED BY <2>4, <3>1, UsedKeptWhenWritten DEF ClarifyReply, Operator
  <2> QED BY <2>1, <2>2, <2>3, <2>4
<1>6. ASSUME NEW t \in Tasks, TimePasses(t) PROVE UsedKept
  <2>1. \A a : [task[t] EXCEPT !.age = a].used = task[t].used
    BY <1>2 DEF Folder
  <2> QED BY <1>6, <2>1 DEF TimePasses, TypeOK, TaskOK, UsedKept
<1>7. CASE \/ UNCHANGED vars \/ DispatcherStop \/ DispatcherKilled
           \/ \E p \in Pids : RunnerCrashes(p)
  BY <1>1, <1>7 DEF vars, DispatcherStop, DispatcherKilled, RunnerCrashes
<1> QED BY <1>3, <1>4, <1>5, <1>6, <1>7 DEF Others

\* The strengthening of RetriesBounded: requeues never outnumber the counter kept in
\* state.json, the counter never passes the limit, and between the count and the move
\* it is strictly ahead.
RetriesPaid ==
  /\ \A t \in Tasks, s \in Sweeps : /\ reruns[t][s] <= task[t].used[s]
                                  /\ task[t].used[s] <= RetryLimit[s]
  /\ wat.plan = "count" => /\ wat.pass \in Sweeps
                           /\ task[wat.task].used[wat.pass] < RetryLimit[wat.pass]
  /\ wat.plan = "move" => /\ wat.pass \in Sweeps
                          /\ reruns[wat.task][wat.pass] < task[wat.task].used[wat.pass]

\* A step that leaves counters, requeues and the watcher alone keeps RetriesPaid.
LEMMA RetriesPaidKept ==
  ASSUME TypeOK, RetriesPaid, UsedKept, UNCHANGED reruns,
         \/ UNCHANGED wat
         \/ wat'.plan \notin {"count", "move"}
  PROVE RetriesPaid'
  BY DEF TypeOK, WatOK, RetriesPaid, UsedKept

\* Only the watcher's own steps touch counters or requeues, and each of them pays first.
LEMMA RetriesArePaid == Spec => []RetriesPaid
<1>1. Init => RetriesPaid
  BY LimitsAssumption DEF Init, NoFolder, RetriesPaid
<1>2. TypeOK /\ RetriesPaid /\ [Next]_vars => RetriesPaid'
  <2> SUFFICES ASSUME TypeOK, RetriesPaid, [Next]_vars PROVE RetriesPaid'
    OBVIOUS
  <2> USE LimitsAssumption
  <2>0. ASSUME UNCHANGED task PROVE UsedKept
    BY <2>0 DEF UsedKept
  <2>1. CASE Others
    BY <2>1, OthersKeepUsed, OthersLeaveWatcher, RetriesPaidKept DEF watcherVars
  <2>2. CASE WatcherLooks
    <3>1. CASE WatcherStart \/ WatcherNextPass
      <4>1. CASE WatcherStart
        BY <2>0, <4>1, RetriesPaidKept DEF WatcherStart
      <4>2. CASE WatcherNextPass
        <5>1. wat'.plan = wat.plan /\ wat.plan = "none" /\ UNCHANGED <<task, reruns>>
          BY <4>2 DEF WatcherNextPass, TypeOK, WatOK
        <5> QED BY <2>0, <5>1, RetriesPaidKept
      <4> QED BY <3>1, <4>1, <4>2
    <3>2. ASSUME NEW t \in Tasks, NEW plan \in Plans \ {"count", "move"}, Decides(t, plan),
                 UNCHANGED <<task, reruns>>
          PROVE RetriesPaid'
      <4>1. wat'.plan \notin {"count", "move"}
        BY <3>2 DEF Decides, TypeOK, WatOK
      <4> QED BY <2>0, <3>2, <4>1, RetriesPaidKept
    <3>3. ASSUME NEW t \in Tasks, WatcherSweeps(t) PROVE RetriesPaid'
      <4>1. CASE SweepDue(t)
        <5>1. wat'.plan = "count" /\ wat'.task = t /\ wat'.pass = wat.pass
          BY <3>3, <4>1 DEF WatcherSweeps, Decides, TypeOK, WatOK
        <5>2. wat.pass \in Sweeps /\ task[t].used[wat.pass] < RetryLimit[wat.pass]
          BY <3>3, <4>1 DEF WatcherSweeps, Visiting, SweepDue
        <5> QED BY <3>3, <5>1, <5>2 DEF WatcherSweeps, RetriesPaid
      <4>2. CASE ~SweepDue(t)
        BY <3>2, <3>3, <4>2 DEF WatcherSweeps, Plans
      <4> QED BY <4>1, <4>2
    <3>4. ASSUME NEW t \in Tasks, WatcherReconcilesPr(t) PROVE RetriesPaid'
      BY <3>2, <3>4 DEF WatcherReconcilesPr, Plans
    <3>5. \A t, dead : /\ OrphanPlan(t, dead) \in Plans \ {"count", "move"}
                       /\ ManagedPlan(t, dead) \in Plans \ {"count", "move"}
      BY DEF OrphanPlan, ManagedPlan, Plans
    <3>6. ASSUME NEW t \in Tasks, WatcherScans(t) \/ WatcherChecksManaged(t)
          PROVE RetriesPaid'
      BY <3>2, <3>5, <3>6 DEF WatcherScans, ReadsTorn, WatcherChecksManaged, Plans
    <3> QED BY <2>2, <3>1, <3>3, <3>4, <3>6 DEF WatcherLooks
  <2>3. CASE WatcherActs
    <3>0. /\ \A t \in Tasks : task[t] \in Folder
          /\ wat.plan # "none" => wat.task \in Tasks
          /\ Done.plan = "none" /\ Down.plan = "none"
      BY DEF TypeOK, TaskOK, WatOK, Done, Down
    <3>1. ASSUME NEW p \in Pids, WatcherSpawns(p) PROVE RetriesPaid'
      <4>1. \A t \in Tasks : [task[t] EXCEPT !.pid = p].used = task[t].used
        BY <3>0 DEF Folder
      <4>2. UsedKept
        BY <3>1, <4>1 DEF WatcherSpawns, TypeOK, TaskOK, UsedKept
      <4> QED BY <3>0, <3>1, <4>2, RetriesPaidKept DEF WatcherSpawns
    <3>2. CASE WatcherMoves \/ WatcherSettles \/ WatcherFiles
      <4>1. UsedKept
        <5> DEFINE t == wat.task
        <5>1. t \in Tasks /\ task[t] \in Folder
          BY <3>0, <3>2 DEF WatcherMoves, WatcherSettles, WatcherFiles
        <5>2. \A stage \in Stages : At(task[t], stage) \in Folder
          BY <5>1, Edited
        <5>3. CASE WatcherMoves
          BY <5>1, <5>2, <5>3, UsedKeptByEdits
             DEF WatcherMoves, Stages, TypeOK, TaskOK, UsedKept
        <5>4. CASE WatcherSettles
          BY <5>1, <5>2, <5>4, UsedKeptByEdits
             DEF WatcherSettles, Verdict, Stages, TypeOK, TaskOK, UsedKept
        <5>5. CASE WatcherFiles
          BY <5>1, <5>5, UsedKeptByEdits DEF WatcherFiles, TypeOK, TaskOK, UsedKept
        <5> QED BY <3>2, <5>3, <5>4, <5>5
      <4>2. wat'.plan \notin {"count", "move"} /\ UNCHANGED reruns
        BY <3>0, <3>2 DEF WatcherMoves, WatcherSettles, WatcherFiles, TypeOK, WatOK
      <4> QED BY <4>1, <4>2, RetriesPaidKept
    <3>3. CASE WatcherTrips \/ WatcherGivesUp
      BY <2>0, <3>0, <3>3, RetriesPaidKept DEF WatcherTrips, WatcherGivesUp
    <3>4. CASE WatcherCounts
      <4> DEFINE t == wat.task  s == wat.pass
      <4>1. /\ t \in Tasks /\ s \in Sweeps
            /\ task[t].used \in [Sweeps -> Nat]
            /\ task[t].used[s] < RetryLimit[s]
        BY <3>0, <3>4 DEF WatcherCounts, RetriesPaid, Folder
      <4>2. Counted(task[t], s).used = [task[t].used EXCEPT ![s] = @ + 1]
        BY <3>0, <4>1 DEF Counted, At, Asks, Folder
      <4>3. \A u \in Tasks : task'[u].used = IF u = t THEN [task[t].used EXCEPT ![s] = @ + 1]
                                              ELSE task[u].used
        BY <3>4, <4>1, <4>2 DEF WatcherCounts, TypeOK, TaskOK
      <4>4. wat'.plan = "move" /\ wat'.task = t /\ wat'.pass = s /\ UNCHANGED reruns
        BY <3>4 DEF WatcherCounts, TypeOK, WatOK
      <4>5. \A u \in Tasks, r \in Sweeps :
              /\ task[u].used[r] \in Nat /\ reruns[u][r] \in Nat /\ RetryLimit[r] \in Nat
              /\ task'[u].used[r] = IF u = t /\ r = s THEN task[u].used[r] + 1
                                                     ELSE task[u].used[r]
        BY <3>0, <4>1, <4>3 DEF TypeOK, RerunsOK, Folder
      <4> QED BY <4>1, <4>4, <4>5 DEF RetriesPaid
    <3>5. CASE WatcherRequeues
      <4> DEFINE t == wat.task  s == wat.pass
      <4>1. /\ t \in Tasks /\ s \in Sweeps
            /\ reruns[t][s] < task[t].used[s]
        BY <3>0, <3>5 DEF WatcherRequeues, RetriesPaid
      <4>2. UsedKept
        BY <3>0, <3>5, <4>1, UsedKeptByEdits DEF WatcherRequeues, TypeOK, TaskOK, UsedKept
      <4>3. \A u \in Tasks, r \in Sweeps :
              /\ task[u].used[r] \in Nat /\ reruns[u][r] \in Nat /\ RetryLimit[r] \in Nat
              /\ reruns'[u][r] = IF u = t /\ r = s THEN reruns[u][r] + 1 ELSE reruns[u][r]
        BY <3>0, <3>5, <4>1 DEF WatcherRequeues, TypeOK, RerunsOK, Folder
      <4>4. wat'.plan = "none"
        BY <3>0, <3>5 DEF WatcherRequeues
      <4> QED BY <4>1, <4>2, <4>3, <4>4 DEF RetriesPaid, UsedKept
    <3> QED BY <2>3, <3>1, <3>2, <3>3, <3>4, <3>5 DEF WatcherActs
  <2>4. CASE WatcherKilled
    BY <2>0, <2>4, RetriesPaidKept DEF WatcherKilled, Down, TypeOK, WatOK
  <2> QED BY <2>1, <2>2, <2>3, <2>4, Divided
<1> QED BY <1>1, <1>2, TypeCorrect, PTL DEF Spec

\* Over the whole life of a task no sweep requeues it more often than its limit, through
\* any re-ingest, crash or restart (_requeue_to_inbox counts before it moves, _write_state_json
\* carries the counters over).
THEOREM RetriesBoundedHolds == Spec => []RetriesBounded
<1>1. TypeOK /\ RetriesPaid => RetriesBounded
  <2> SUFFICES ASSUME TypeOK, RetriesPaid, NEW t \in Tasks, NEW s \in Sweeps
               PROVE reruns[t][s] <= RetryLimit[s]
    BY DEF RetriesBounded
  <2>1. reruns[t][s] \in Nat /\ task[t].used[s] \in Nat /\ RetryLimit[s] \in Nat
    BY LimitsAssumption DEF TypeOK, RerunsOK, TaskOK, Folder
  <2> QED BY <2>1 DEF RetriesPaid
<1> QED BY <1>1, TypeCorrect, RetriesArePaid, PTL

\* No failure makes the watcher work for ever: neither by requeues, whose counters
\* outlive every restart, nor by runners one watcher starts again.
THEOREM RestartsBoundedHolds == Spec => []RestartsBounded
<1>1. RetriesBounded /\ RespawnsBounded => RestartsBounded
  BY DEF RestartsBounded
<1> QED BY <1>1, RetriesBoundedHolds, RespawnsBoundedHolds, PTL

----------------------------------------------------------------------------
(* Who takes a folder out of active/ *)

\* An edit that leaves the recorded pid alone and, once there was a state.json, leaves one.
Kept(x, y) == y.pid = x.pid /\ (x.stage # "none" => y.stage # "none")
Stays(x, y) == x.dir = "active" => y.dir = "active"

Tended == \A t \in Tasks : Kept(task[t], task'[t])
Staying == \A t \in Tasks : Stays(task[t], task'[t])

LEMMA KeptByEdits ==
  ASSUME NEW x \in Folder, NEW dir, NEW stage, NEW ask
  PROVE /\ Kept(x, In(x, dir))
        /\ stage # "none" => Kept(x, At(x, stage))
        /\ At(x, stage).dir = x.dir
        /\ Kept(x, Asks(x, ask)) /\ Asks(x, ask).dir = x.dir
        /\ Kept(x, Waived(x)) /\ Waived(x).dir = x.dir
        /\ Kept(x, [x EXCEPT !.over = FALSE])
        /\ \A y \in StageEffects(x) : Kept(x, y) /\ y.dir = x.dir
  BY DEF In, At, Asks, Waived, StageEffects, Folder, Kept

\* The sequences of edits the actions make.
LEMMA KeptByChains ==
  ASSUME NEW x \in Folder, NEW dir, NEW stage \in Stages \ {"none"}, NEW ask
  PROVE /\ Kept(x, In(At(x, stage), dir))
        /\ Kept(x, In(Waived(x), dir))
        /\ Kept(x, In(At(Waived(x), stage), dir))
        /\ Kept(x, In(At(Asks(x, "answered"), stage), dir))
        /\ Kept(x, Asks(At(x, stage), ask)) /\ Asks(At(x, stage), ask).dir = x.dir
<1>1. At(x, stage) \in Folder /\ Waived(x) \in Folder /\ Asks(x, "answered") \in Folder
  BY Edited DEF Answers
<1>2. At(Waived(x), stage) \in Folder /\ At(Asks(x, "answered"), stage) \in Folder
  BY <1>1, Edited
<1>3. \A y \in Folder : /\ Kept(y, In(y, dir)) /\ Kept(y, At(y, stage)) /\ Kept(y, Asks(y, ask))
                        /\ Kept(y, Waived(y)) /\ Kept(y, Asks(y, "answered"))
                        /\ At(y, stage).dir = y.dir /\ Asks(y, ask).dir = y.dir
  BY KeptByEdits
<1>4. \A u, v, w : Kept(u, v) /\ Kept(v, w) => Kept(u, w)
  BY DEF Kept
<1> QED BY <1>1, <1>2, <1>3, <1>4

\* Writing over one folder an entry that keeps what it should keeps it everywhere.
LEMMA TendedWhenWritten ==
  ASSUME TypeOK, NEW t, NEW x, t \in Tasks => Kept(task[t], x),
         task' = [task EXCEPT ![t] = x] \/ Writes(t, x)
  PROVE Tended /\ ((t \in Tasks => Stays(task[t], x)) => Staying)
  BY DEF TypeOK, TaskOK, Tended, Staying, Kept, Stays, Writes

LEMMA TendedUntouched == ASSUME UNCHANGED task PROVE Tended /\ Staying
  BY DEF Tended, Staying, Kept, Stays

\* Nobody but the dispatcher and the watcher writes a pid, nobody removes a state.json,
\* and of all the others only a runner that parks takes a folder out of active/.
LEMMA OthersTend ==
  ASSUME TypeOK, Others, ~ DispatcherWritePid
  PROVE Tended /\ (Staying \/ \E p \in Pids : RunnerMoves(p))
<1>2. \A t \in Tasks : task[t] \in Folder
  BY DEF TypeOK, TaskOK
<1>3. CASE Dispatcher
  <2>1. ASSUME NEW t \in Tasks, DispatcherQuarantine(t) \/ DispatcherTake(t)
        PROVE Tended /\ Staying
    <3>1. PICK dir : task' = [task EXCEPT ![t] = In(task[t], dir)] /\ task[t].dir = "inbox"
      BY <2>1, <1>2 DEF DispatcherQuarantine, DispatcherTake
    <3>2. Kept(task[t], In(task[t], dir))
      BY <1>2, KeptByEdits
    <3> QED BY <3>1, <3>2, TendedWhenWritten DEF Stays
  <2>2. CASE DispatcherWriteState
    <3>1. CASE UNCHANGED task
      BY <3>1, TendedUntouched
    <3>2. CASE task' = [task EXCEPT ![disp.task] = At(task[disp.task], "received")]
      <4>1. disp.task \in Tasks
        BY <2>2 DEF DispatcherWriteState, TypeOK, DispOK
      <4>2. /\ Kept(task[disp.task], At(task[disp.task], "received"))
            /\ Stays(task[disp.task], At(task[disp.task], "received"))
        BY <1>2, <4>1, KeptByEdits DEF Stays
      <4> QED BY <3>2, <4>2, TendedWhenWritten
    <3> QED BY <2>2, <3>1, <3>2 DEF DispatcherWriteState, Ingested
  <2>3. CASE DispatcherDefer \/ DispatcherStart \/ \E p \in Pids : DispatcherSpawn(p)
    BY <2>3, TendedUntouched DEF DispatcherDefer, DispatcherStart, DispatcherSpawn
  <2> QED BY <1>3, <2>1, <2>2, <2>3 DEF Dispatcher
<1>4. ASSUME NEW p \in Pids, Runner(p) \/ RunnerProgress(p)
      PROVE Tended /\ (Staying \/ RunnerMoves(p))
  <2> DEFINE t == proc[p].task
  <2>1. CASE RunnerProgress(p)
    <3>1. PICK x \in StageEffects(task[t]) : Writes(t, At(x, "pipeline"))
      BY <2>1 DEF RunnerProgress
    <3>2. t \in Tasks => x \in Folder /\ Kept(task[t], x) /\ x.dir = task[t].dir
      BY <1>2, <3>1, Edited, KeptByEdits
    <3>3. t \in Tasks => Kept(x, At(x, "pipeline")) /\ At(x, "pipeline").dir = x.dir
      BY <3>2, KeptByEdits
    <3>4. t \in Tasks => Kept(task[t], At(x, "pipeline")) /\ Stays(task[t], At(x, "pipeline"))
      BY <3>2, <3>3 DEF Kept, Stays
    <3> QED BY <3>1, <3>4, TendedWhenWritten
  <2>2. CASE RunnerApproves(p) \/ RunnerStopsUnsafe(p)
    <3>1. PICK stage \in {"awaiting-approval", "failed"} : Writes(t, At(task[t], stage))
      BY <2>2 DEF RunnerApproves, RunnerStopsUnsafe
    <3>2. t \in Tasks => Kept(task[t], At(task[t], stage)) /\ Stays(task[t], At(task[t], stage))
      BY <1>2, KeptByEdits DEF Stays
    <3> QED BY <3>1, <3>2, TendedWhenWritten
  <2>3. CASE RunnerMoves(p)
    <3>1. PICK dir : Writes(t, In(task[t], dir))
      BY <2>3 DEF RunnerMoves
    <3>2. t \in Tasks => Kept(task[t], In(task[t], dir))
      BY <1>2, KeptByEdits
    <3> QED BY <2>3, <3>1, <3>2, TendedWhenWritten
  <2>4. CASE RunnerParks(p)
    <3>1. PICK k \in Parkings :
            Writes(t, Asks(At(task[t], k.stage),
                           IF k.stage = "awaiting_clarify" THEN "open" ELSE task[t].ask))
      BY <2>4 DEF RunnerParks
    <3>2. k.stage \in Stages \ {"none"}
      BY DEF Parkings, Stages
    <3>3. t \in Tasks => \A ask : /\ Kept(task[t], Asks(At(task[t], k.stage), ask))
                                  /\ Stays(task[t], Asks(At(task[t], k.stage), ask))
      BY <1>2, <3>2, KeptByChains DEF Stays
    <3> QED BY <3>1, <3>3, TendedWhenWritten
  <2>5. CASE \/ RunnerLocks(p) \/ RunnerBounces(p) \/ RunnerRefuses(p)
             \/ RunnerLosesFolder(p) \/ RunnerExits(p)
    BY <2>5, TendedUntouched
       DEF RunnerLocks, RunnerBounces, RunnerRefuses, RunnerLosesFolder, RunnerExits
  <2> QED BY <1>4, <2>1, <2>2, <2>3, <2>4, <2>5 DEF Runner
<1>5. CASE People
  <2> SUFFICES ASSUME NEW t \in Tasks,
                      \/ SubmitOpen(t) \/ SubmitClose(t) \/ Requeue(t) \/ BudgetContinue(t)
                      \/ BudgetDiscard(t) \/ RateLimitSwitch(t) \/ RateLimitCancel(t)
                      \/ ClarifyReply(t) \/ OwnerSettlesPr(t)
               PROVE Tended /\ Staying
    BY <1>5 DEF People
  <2>1. CASE SubmitOpen(t) \/ SubmitClose(t) \/ OwnerSettlesPr(t)
    <3>1. /\ Kept(task[t], [task[t] EXCEPT !.dir = "inbox", !.torn = TRUE])
          /\ Kept(task[t], [task[t] EXCEPT !.torn = FALSE])
          /\ [task[t] EXCEPT !.torn = FALSE].dir = task[t].dir
          /\ \A v : Kept(task[t], [task[t] EXCEPT !.pr = v])
          /\ \A v : [task[t] EXCEPT !.pr = v].dir = task[t].dir
      BY <1>2 DEF Folder, Kept
    <3>2. CASE SubmitOpen(t)
      <4>1. /\ task[t].dir = "none"
            /\ task' = [task EXCEPT ![t] = [task[t] EXCEPT !.dir = "inbox", !.torn = TRUE]]
        BY <3>2 DEF SubmitOpen
      <4> QED BY <3>1, <4>1, TendedWhenWritten DEF Stays
    <3>3. CASE SubmitClose(t)
      <4>1. task' = [task EXCEPT ![t] = [task[t] EXCEPT !.torn = FALSE]]
        BY <3>3 DEF SubmitClose
      <4> QED BY <3>1, <4>1, TendedWhenWritten DEF Stays
    <3>4. CASE OwnerSettlesPr(t)
      <4>1. PICK v : task' = [task EXCEPT ![t] = [task[t] EXCEPT !.pr = v]]
        BY <3>4 DEF OwnerSettlesPr
      <4> DEFINE y == [task[t] EXCEPT !.pr = v]
      <4>2. Kept(task[t], y) /\ Stays(task[t], y) /\ task' = [task EXCEPT ![t] = y]
        BY <3>1, <4>1 DEF Stays
      <4> HIDE DEF y
      <4> QED BY <4>2, TendedWhenWritten
    <3> QED BY <2>1, <3>2, <3>3, <3>4
  <2>2. ASSUME NEW dirs, NEW x, Operator(t, dirs, x), "active" \notin dirs, Kept(task[t], x)
        PROVE Tended /\ Staying
    BY <2>2, TendedWhenWritten DEF Operator, Stays
  <2>3. CASE \/ Requeue(t) \/ RateLimitSwitch(t) \/ BudgetDiscard(t) \/ RateLimitCancel(t)
    <3>1. /\ Kept(task[t], In(Waived(task[t]), "inbox"))
          /\ Kept(task[t], In(task[t], "failed"))
      BY <1>2, KeptByEdits, KeptByChains DEF Stages
    <3> QED BY <2>2, <2>3, <3>1 DEF Requeue, RateLimitSwitch, BudgetDiscard, RateLimitCancel
  <2>4. CASE BudgetContinue(t)
    <3>1. PICK x \in {task[t], [task[t] EXCEPT !.over = FALSE]} :
            Operator(t, {"awaiting-input"}, In(At(Waived(x), "inbox"), "inbox"))
      BY <2>4 DEF BudgetContinue
    <3>2. x \in Folder /\ Kept(task[t], x)
      BY <1>2, Edited, KeptByEdits DEF Kept
    <3>3. Kept(x, In(At(Waived(x), "inbox"), "inbox"))
      BY <3>2, KeptByChains DEF Stages
    <3>4. Kept(task[t], In(At(Waived(x), "inbox"), "inbox"))
      BY <3>2, <3>3 DEF Kept
    <3> QED BY <2>2, <3>1, <3>4
  <2>5. CASE ClarifyReply(t)
    <3>1. Kept(task[t], In(At(Asks(task[t], "answered"), "inbox"), "inbox"))
      BY <1>2, KeptByChains DEF Stages
    <3> QED BY <2>2, <2>5, <3>1 DEF ClarifyReply
  <2> QED BY <2>1, <2>3, <2>4, <2>5
<1>6. ASSUME NEW t \in Tasks, TimePasses(t) PROVE Tended /\ Staying
  <2>1. \A a : /\ Kept(task[t], [task[t] EXCEPT !.age = a])
               /\ [task[t] EXCEPT !.age = a].dir = task[t].dir
    BY <1>2 DEF Folder, Kept
  <2>2. PICK a : task' = [task EXCEPT ![t] = [task[t] EXCEPT !.age = a]]
    BY <1>6 DEF TimePasses
  <2> DEFINE y == [task[t] EXCEPT !.age = a]
  <2>3. Kept(task[t], y) /\ Stays(task[t], y) /\ task' = [task EXCEPT ![t] = y]
    BY <2>1, <2>2 DEF Stays
  <2> HIDE DEF y
  <2> QED BY <2>3, TendedWhenWritten
<1>7. CASE \/ UNCHANGED vars \/ DispatcherStop \/ DispatcherKilled
           \/ \E p \in Pids : RunnerCrashes(p)
  BY <1>7, TendedUntouched DEF vars, DispatcherStop, DispatcherKilled, RunnerCrashes
<1> QED BY <1>3, <1>4, <1>5, <1>6, <1>7 DEF Others


\* A requeue's count keeps pid and state.json too.
LEMMA KeptByCount ==
  ASSUME NEW x \in Folder, NEW sweep
  PROVE Kept(x, Counted(x, sweep)) /\ Counted(x, sweep).dir = x.dir
<1> DEFINE y == Asks(x, IF sweep = "clarify" THEN "answered" ELSE x.ask)
           z == At(y, IF sweep = "transient" THEN x.stage ELSE "inbox")
<1>1. y \in Folder /\ Kept(x, y) /\ y.dir = x.dir
  BY Edited, KeptByEdits DEF Answers
<1>2. z \in Folder /\ z.dir = y.dir /\ z.pid = y.pid /\ (x.stage # "none" => z.stage # "none")
  <2>1. z \in Folder
    BY <1>1, Edited DEF Stages
  <2>2. z.dir = y.dir /\ z.pid = y.pid /\ (x.stage # "none" => z.stage # "none")
    BY <1>1 DEF At, Folder
  <2> QED BY <2>1, <2>2
<1> HIDE DEF y, z
<1>3. \A w \in Folder : LET v == [w EXCEPT !.used[sweep] = @ + 1]
                        IN  v.pid = w.pid /\ v.stage = w.stage /\ v.dir = w.dir
  BY DEF Folder
<1>4. Counted(x, sweep) = [z EXCEPT !.used[sweep] = @ + 1]
  BY DEF Counted, y, z
<1> QED BY <1>1, <1>2, <1>3, <1>4 DEF Kept

\* What the watcher does to a folder, the new runner's pid apart: only a move and a settled
\* PR take one out of active/.
LEMMA WatcherTends ==
  ASSUME TypeOK, WatcherActs, \A p \in Pids : ~ WatcherSpawns(p)
  PROVE Tended /\ (Staying \/ WatcherMoves \/ WatcherFiles)
<1> DEFINE t == wat.task  x == task[t]
<1>1. wat.plan # "none" => t \in Tasks /\ x \in Folder
  BY DEF TypeOK, TaskOK, WatOK
<1>2. CASE WatcherMoves
  <2>1. PICK y \in {In(x, "failed"), In(x, "awaiting-input"),
                    In(At(x, "awaiting-input"), "awaiting-input")} :
           task' = [task EXCEPT ![t] = y]
    BY <1>2 DEF WatcherMoves
  <2>2. x \in Folder
    BY <1>1, <1>2 DEF WatcherMoves
  <2>3. \A dir : Kept(x, In(x, dir)) /\ Kept(x, In(At(x, "awaiting-input"), dir))
    BY <2>2, KeptByEdits, KeptByChains DEF Stages
  <2>4. Kept(x, y)
    BY <2>3
  <2> QED BY <1>2, <2>1, <2>4, TendedWhenWritten
<1>3. CASE WatcherSettles
  <2>1. task' = [task EXCEPT ![t] = At(x, Verdict(x))]
    BY <1>3 DEF WatcherSettles
  <2>2. Kept(x, At(x, Verdict(x))) /\ Stays(x, At(x, Verdict(x)))
    BY <1>1, <1>3, KeptByEdits DEF WatcherSettles, Verdict, Stays
  <2> QED BY <2>1, <2>2, TendedWhenWritten
<1>7. CASE WatcherFiles
  <2>1. task' = [task EXCEPT ![t] = In(x, Verdict(x))]
    BY <1>7 DEF WatcherFiles
  <2>2. Kept(x, In(x, Verdict(x)))
    BY <1>1, <1>7, KeptByEdits DEF WatcherFiles
  <2> QED BY <1>7, <2>1, <2>2, TendedWhenWritten
<1>4. CASE WatcherCounts
  <2>1. task' = [task EXCEPT ![t] = Counted(x, wat.pass)] /\ t \in Tasks /\ x \in Folder
    BY <1>1, <1>4 DEF WatcherCounts
  <2>2. Kept(x, Counted(x, wat.pass)) /\ Stays(x, Counted(x, wat.pass))
    BY <2>1, KeptByCount DEF Stays
  <2> QED BY <2>1, <2>2, TendedWhenWritten
<1>5. CASE WatcherRequeues
  <2>1. task' = [task EXCEPT ![t] = In(x, "inbox")] /\ x.dir # "active" /\ x \in Folder
    BY <1>1, <1>5 DEF WatcherRequeues
  <2>2. Kept(x, In(x, "inbox")) /\ Stays(x, In(x, "inbox"))
    BY <2>1, KeptByEdits DEF Stays
  <2> QED BY <2>1, <2>2, TendedWhenWritten
<1>6. CASE WatcherTrips \/ WatcherGivesUp
  BY <1>6, TendedUntouched DEF WatcherTrips, WatcherGivesUp
<1> QED BY <1>2, <1>3, <1>4, <1>5, <1>6, <1>7 DEF WatcherActs

\* No process starts, and none begins to work.
Onward ==
  \A p \in Pids :
    \/ proc'[p] = proc[p]
    \/ proc'[p].phase = "gone"
    \/ /\ Alive(p) /\ proc'[p].task = proc[p].task
       /\ proc[p].phase # "boot" /\ proc'[p].phase \notin {"boot", "work"}

LEMMA OthersOnward ==
  ASSUME TypeOK, Others
  PROVE Onward \/ \E p \in Pids : DispatcherSpawn(p) \/ RunnerLocks(p)
<1>1. ASSUME UNCHANGED proc PROVE Onward
  BY <1>1 DEF Onward
<1>2. ASSUME NEW ps, EndAll(ps) PROVE Onward
  BY <1>2 DEF EndAll, Gone, Onward
<1>3. ASSUME NEW p \in Pids, proc[p].phase \notin {"gone", "boot"},
             NEW phase \in {"tail", "toInput", "toFailed"},
             proc' = [proc EXCEPT ![p].phase = phase]
      PROVE Onward
  BY <1>3 DEF TypeOK, ProcOK, Alive, Onward
<1>4. CASE Dispatcher
  BY <1>1, <1>4 DEF Dispatcher, DispatcherQuarantine, DispatcherTake, DispatcherWriteState,
     DispatcherDefer, DispatcherWritePid, DispatcherStart, procVars
<1>5. ASSUME NEW p \in Pids, Runner(p) \/ RunnerProgress(p) \/ RunnerCrashes(p)
      PROVE Onward \/ RunnerLocks(p)
  <2>1. CASE \/ RunnerBounces(p) \/ RunnerRefuses(p) \/ RunnerLosesFolder(p) \/ RunnerExits(p)
             \/ RunnerCrashes(p)
    BY <1>2, <2>1 DEF RunnerBounces, RunnerRefuses, RunnerLosesFolder, RunnerExits,
       RunnerCrashes, Ends
  <2>2. CASE RunnerApproves(p) \/ RunnerStopsUnsafe(p) \/ RunnerMoves(p)
    BY <1>3, <2>2 DEF RunnerApproves, RunnerStopsUnsafe, RunnerMoves
  <2>3. CASE RunnerParks(p)
    <3>1. PICK k \in Parkings : proc' = [proc EXCEPT ![p].phase = k.phase]
      BY <2>3 DEF RunnerParks
    <3>2. k.phase \in {"tail", "toInput", "toFailed"} /\ proc[p].phase = "work"
      BY <2>3 DEF RunnerParks, Parkings
    <3> QED BY <1>3, <3>1, <3>2
  <2>4. CASE RunnerProgress(p)
    BY <1>1, <2>4 DEF RunnerProgress, procVars
  <2> QED BY <1>5, <2>1, <2>2, <2>3, <2>4 DEF Runner
<1>6. CASE People
  BY <1>1, <1>6 DEF People, SubmitOpen, SubmitClose, Requeue, BudgetContinue, BudgetDiscard,
     RateLimitSwitch, RateLimitCancel, ClarifyReply, OwnerSettlesPr, Operator, procVars
<1>7. CASE DispatcherStop \/ DispatcherKilled
  BY <1>1, <1>2, <1>7 DEF DispatcherStop, DispatcherKilled, procVars
<1>8. CASE UNCHANGED vars \/ \E t \in Tasks : TimePasses(t)
  BY <1>1, <1>8 DEF vars, TimePasses, procVars
<1> QED BY <1>4, <1>5, <1>6, <1>7, <1>8 DEF Others

\* A runner is started for a folder that has a state.json, and so has one with a pid.
Begun ==
  /\ \A t \in Tasks : task[t].pid # None => task[t].stage # "none"
  /\ \A p \in Pids : Alive(p) => task[proc[p].task].stage # "none"
  /\ disp.pc \in {"written", "spawned"} => task[disp.task].stage # "none"
  /\ wat.plan \in {"adopt", "revive"} => task[wat.task].stage # "none"

\* The runner whose pid the dispatcher is about to write does not work yet.
Fresh == disp.pc = "spawned" => disp.pid \in Pids /\ proc[disp.pid].phase \in {"boot", "gone"}

Works(t, p) == proc[p] = [task |-> t, phase |-> "work"] /\ task[t].pid = p

\* When the watcher has decided to move a folder, its recorded runner does not work there,
\* unless a probe or a read failed.
Sighted ==
  wat.plan \in {"toInput", "toFailed", "park"} /\ spent \cap {"misprobe", "tornRead"} = {} =>
    \A p \in Pids : ~ Works(wat.task, p)

Watched == Begun /\ Fresh /\ Sighted

Decisions == {"adopt", "revive", "toInput", "toFailed", "park"}

\* A step in which no runner is started, locks or is recorded, nor one of these decisions
\* is taken.
LEMMA WatchedKept ==
  ASSUME TypeOK, Watched, Tended, Onward, spent \subseteq spent',
         \/ UNCHANGED <<disp.pc, disp.task, disp.pid>>
         \/ disp'.pc \notin {"written", "spawned"},
         UNCHANGED wat \/ wat'.plan \notin Decisions
  PROVE Watched'
<1>1. /\ disp.pc \in {"written", "spawned"} => disp.task \in Tasks
      /\ wat.plan \in Decisions => wat.task \in Tasks
      /\ \A p \in Pids : Alive(p) => proc[p].task \in Tasks
  BY DEF TypeOK, DispOK, WatOK, ProcOK, Decisions
<1>2. Begun'
  <2>1. \A p \in Pids : Alive(p)' => Alive(p) /\ proc'[p].task = proc[p].task
    BY DEF Onward, Alive
  <2>2. \A t \in Tasks : task'[t].pid # None => task'[t].stage # "none"
    BY DEF Tended, Kept, Watched, Begun
  <2>3. \A p \in Pids : Alive(p)' => task'[proc'[p].task].stage # "none"
    BY <1>1, <2>1 DEF Tended, Kept, Watched, Begun
  <2>4. disp'.pc \in {"written", "spawned"} => task'[disp'.task].stage # "none"
    BY <1>1 DEF Tended, Kept, Watched, Begun
  <2>5. wat'.plan \in {"adopt", "revive"} => task'[wat'.task].stage # "none"
    BY <1>1 DEF Tended, Kept, Watched, Begun, Decisions
  <2> QED BY <2>2, <2>3, <2>4, <2>5 DEF Begun
<1>3. Fresh'
  BY DEF Watched, Fresh, Onward, Alive
<1>4. Sighted'
  <2> SUFFICES ASSUME wat'.plan \in {"toInput", "toFailed", "park"},
                      spent' \cap {"misprobe", "tornRead"} = {}, NEW p \in Pids,
                      Works(wat.task, p)'
               PROVE FALSE
    BY DEF Sighted, Decisions
  <2>1. wat' = wat /\ spent \cap {"misprobe", "tornRead"} = {}
    BY DEF Decisions
  <2>2. proc'[p].phase = "work" /\ proc'[p] = proc[p]
    BY <2>1 DEF Works, Onward
  <2>3. Works(wat.task, p)
    BY <1>1, <2>1, <2>2 DEF Works, Tended, Kept, Decisions
  <2> QED BY <2>1, <2>3 DEF Watched, Sighted
<1> QED BY <1>2, <1>3, <1>4 DEF Watched

\* What the dispatcher does to Watched where it starts a runner or hands over its pid.
LEMMA DispatcherWatched ==
  ASSUME TypeOK, Watched,
         DispatcherWriteState \/ DispatcherWritePid \/ \E p \in Pids : DispatcherSpawn(p)
  PROVE Watched'
<1> USE LimitsAssumption
<1>1. CASE DispatcherWriteState
  <2>1. Tended /\ UNCHANGED <<proc, wat, spent>>
    BY <1>1, OthersTend DEF Others, Dispatcher, DispatcherWriteState, DispatcherWritePid,
       procVars, watcherVars
  <2>2. Onward
    BY <2>1 DEF Onward
  <2>3. CASE disp'.pc # "written"
    <3>1. disp'.pc \notin {"written", "spawned"}
      BY <1>1, <2>3 DEF DispatcherWriteState, Idle, TypeOK, DispOK
    <3> QED BY <2>1, <2>2, <3>1, WatchedKept
  <2>4. CASE disp'.pc = "written"
    <3>1. /\ disp.task \in Tasks /\ disp'.task = disp.task
          /\ task' = [task EXCEPT ![disp.task] = At(task[disp.task], "received")]
      BY <1>1, <2>4 DEF DispatcherWriteState, Ingested, Idle, TypeOK, DispOK
    <3>2. task'[disp.task].stage = "received"
      BY <3>1 DEF At, TypeOK, TaskOK, Folder
    <3>3. Begun'
      <4>1. \A p \in Pids : Alive(p) => proc[p].task \in Tasks
        BY DEF TypeOK, ProcOK
      <4>2. wat.plan \in {"adopt", "revive"} => wat.task \in Tasks
        BY DEF TypeOK, WatOK
      <4> QED BY <2>1, <3>1, <3>2, <4>1, <4>2 DEF Watched, Begun, Tended, Kept, Alive
    <3>4. Fresh'
      BY <2>4 DEF Fresh
    <3>5. Sighted'
      <4>1. wat.plan \in {"toInput", "toFailed", "park"} => wat.task \in Tasks
        BY DEF TypeOK, WatOK
      <4> QED BY <2>1, <4>1 DEF Watched, Sighted, Works, Tended, Kept
    <3> QED BY <3>3, <3>4, <3>5 DEF Watched
  <2> QED BY <2>3, <2>4
<1>2. CASE DispatcherWritePid
  <2>1. /\ disp.pc = "spawned" /\ disp.task \in Tasks /\ disp.pid \in Pids
        /\ proc[disp.pid].phase # "work" /\ task[disp.task].stage # "none"
        /\ disp'.pc = "poll" /\ UNCHANGED <<proc, wat, spent>>
    BY <1>2 DEF DispatcherWritePid, Idle, TypeOK, DispOK, procVars, watcherVars, Watched, Fresh,
       Begun
  <2>2. \A t \in Tasks : /\ task'[t].stage = task[t].stage
                         /\ task'[t].pid = task[t].pid \/ (t = disp.task /\ task'[t].pid = disp.pid)
    <3>1. PICK q : task' = [task EXCEPT ![disp.task].pid = q] /\ q \in {disp.pid, task[disp.task].pid}
      BY <1>2 DEF DispatcherWritePid
    <3> QED BY <2>1, <3>1 DEF TypeOK, TaskOK, Folder
  <2>3. Begun'
    <3>1. \A p \in Pids : Alive(p) => proc[p].task \in Tasks
      BY DEF TypeOK, ProcOK
    <3>2. wat.plan \in {"adopt", "revive"} => wat.task \in Tasks
      BY DEF TypeOK, WatOK
    <3> QED BY <2>1, <2>2, <3>1, <3>2 DEF Watched, Begun, Alive
  <2>4. Fresh'
    BY <2>1 DEF Fresh
  <2>5. Sighted'
    <3>1. wat.plan \in {"toInput", "toFailed", "park"} => wat.task \in Tasks
      BY DEF TypeOK, WatOK
    <3> QED BY <2>1, <2>2, <3>1 DEF Watched, Sighted, Works
  <2> QED BY <2>3, <2>4, <2>5 DEF Watched
<1>3. ASSUME NEW p \in Pids, DispatcherSpawn(p) PROVE Watched'
  <2>1. /\ disp.pc = "written" /\ disp'.pc = "spawned" /\ disp'.pid = p
        /\ disp'.task = disp.task /\ task[disp.task].stage # "none"
        /\ proc' = [proc EXCEPT ![p] = [task |-> disp.task, phase |-> "boot"]]
        /\ UNCHANGED <<task, wat, spent>>
    BY <1>3 DEF DispatcherSpawn, TypeOK, DispOK, watcherVars, Watched, Begun
  <2>2. /\ \A q \in Pids : q # p => proc'[q] = proc[q]
        /\ proc'[p] = [task |-> disp.task, phase |-> "boot"]
    BY <2>1 DEF TypeOK, ProcOK
  <2>3. Begun' /\ Fresh'
    BY <2>1, <2>2 DEF Watched, Begun, Fresh, Alive
  <2>4. Sighted'
    <3>1. \A q \in Pids : Works(wat.task, q)' => Works(wat.task, q)
      BY <2>1, <2>2 DEF Works
    <3> QED BY <2>1, <3>1 DEF Watched, Sighted
  <2> QED BY <2>3, <2>4 DEF Watched
<1> QED BY <1>1, <1>2, <1>3

\* A runner that gets to work is neither looked at by a decided watcher nor in the hands of
\* the dispatcher.
LEMMA LocksWatched == ASSUME TypeOK, Watched, NEW q \in Pids, RunnerLocks(q) PROVE Watched'
<1>1. /\ wat.task # proc[q].task /\ disp.pid # q /\ Alive(q)
      /\ proc' = [proc EXCEPT ![q].phase = "work"]
      /\ UNCHANGED <<task, disp, wat, spent>>
  BY DEF RunnerLocks, dispatcherVars, watcherVars, Alive
<1>2. /\ \A p \in Pids : p # q => proc'[p] = proc[p]
      /\ proc'[q].task = proc[q].task
  BY <1>1 DEF TypeOK, ProcOK
<1>3. Begun' /\ Fresh'
  BY <1>1, <1>2 DEF Watched, Begun, Fresh, Alive
<1>4. Sighted'
  <2>1. \A p \in Pids : Works(wat.task, p)' => Works(wat.task, p)
    BY <1>1, <1>2 DEF Works
  <2> QED BY <1>1, <2>1 DEF Watched, Sighted
<1> QED BY <1>3, <1>4 DEF Watched

LEMMA OthersWatched == ASSUME TypeOK, Watched, Others PROVE Watched'
<1>1. CASE \E p \in Pids : DispatcherSpawn(p) \/ RunnerLocks(p)
  BY <1>1, DispatcherWatched, LocksWatched
<1>2. CASE DispatcherWriteState \/ DispatcherWritePid
  BY <1>2, DispatcherWatched
<1>3. CASE /\ ~ DispatcherWriteState /\ ~ DispatcherWritePid
           /\ ~ \E p \in Pids : DispatcherSpawn(p) \/ RunnerLocks(p)
  <2>1. Tended /\ Onward /\ UNCHANGED wat
    BY <1>3, OthersTend, OthersOnward, OthersLeaveWatcher DEF watcherVars
  <2>2. \/ UNCHANGED <<disp.pc, disp.task, disp.pid>>
        \/ disp'.pc \notin {"written", "spawned"}
    <3>1. /\ Idle.pc = "poll"
          /\ \A up : LET d == [disp EXCEPT !.up = up]
                    IN  d.pc = disp.pc /\ d.task = disp.task /\ d.pid = disp.pid
          /\ \A up : [Idle EXCEPT !.up = up].pc = "poll"
          /\ \A t : [disp EXCEPT !.pc = "taken", !.task = t].pc = "taken"
      <4>1. disp \in [up: BOOLEAN, pc: {"poll", "taken", "written", "spawned"},
                      task: Tasks \cup {None}, pid: Pids \cup {None}]
        BY DEF TypeOK, DispOK
      <4>2. \A t : [disp EXCEPT !.pc = "taken", !.task = t].pc = "taken"
        BY <4>1
      <4>3. \A up : LET d == [disp EXCEPT !.up = up]
                    IN  d.pc = disp.pc /\ d.task = disp.task /\ d.pid = disp.pid
        BY <4>1
      <4>4. Idle.pc = "poll" /\ \A up : [Idle EXCEPT !.up = up].pc = "poll"
        BY <4>1 DEF Idle
      <4> QED BY <4>2, <4>3, <4>4
    <3>2. CASE Dispatcher
      <4>1. CASE \E t \in Tasks : DispatcherQuarantine(t)
        BY <4>1 DEF DispatcherQuarantine, dispatcherVars
      <4>2. CASE \E t \in Tasks : DispatcherTake(t)
        <5>1. PICK t : disp' = [disp EXCEPT !.pc = "taken", !.task = t]
          BY <4>2 DEF DispatcherTake
        <5> QED BY <3>1, <5>1
      <4>3. CASE DispatcherDefer
        BY <3>1, <4>3 DEF DispatcherDefer
      <4>4. CASE DispatcherStart
        <5>1. disp' = [disp EXCEPT !.up = TRUE]
          BY <4>4 DEF DispatcherStart
        <5> QED BY <3>1, <5>1
      <4> QED BY <1>3, <3>2, <4>1, <4>2, <4>3, <4>4 DEF Dispatcher
    <3>3. CASE DispatcherStop \/ DispatcherKilled
      <4>1. CASE disp' = [disp EXCEPT !.up = FALSE]
        <5>1. /\ disp'.pc = disp.pc
              /\ disp'.task = disp.task
              /\ disp'.pid = disp.pid
          BY <3>1, <4>1
        <5> QED BY <5>1
      <4>2. CASE disp' = [Idle EXCEPT !.up = FALSE]
        <5>1. disp'.pc = "poll"
          BY <3>1, <4>2
        <5> QED BY <5>1
      <4> QED BY <3>3, <4>1, <4>2 DEF DispatcherStop, DispatcherKilled
    <3>4. CASE People
      BY <3>4 DEF People, SubmitOpen, SubmitClose, Requeue, BudgetContinue, BudgetDiscard,
         RateLimitSwitch, RateLimitCancel, ClarifyReply, OwnerSettlesPr, Operator, dispatcherVars
    <3>5. ASSUME NEW p \in Pids, Runner(p) \/ RunnerProgress(p) \/ RunnerCrashes(p)
          PROVE UNCHANGED disp
      BY <3>5 DEF Runner, RunnerLocks, RunnerBounces, RunnerRefuses, RunnerLosesFolder,
         RunnerApproves, RunnerStopsUnsafe, RunnerParks, RunnerMoves, RunnerExits,
         RunnerProgress, RunnerCrashes, dispatcherVars
    <3>6. CASE UNCHANGED vars \/ \E t \in Tasks : TimePasses(t)
      BY <3>6 DEF vars, TimePasses, dispatcherVars
    <3> QED BY <3>2, <3>3, <3>4, <3>5, <3>6 DEF Others
  <2>3. spent \subseteq spent'
    <3>1. CASE Dispatcher
      BY <3>1 DEF Dispatcher, DispatcherQuarantine, DispatcherTake, DispatcherWriteState,
         DispatcherDefer, DispatcherWritePid, DispatcherStart, DispatcherSpawn
    <3>2. CASE DispatcherStop \/ DispatcherKilled
      BY <3>2 DEF DispatcherStop, DispatcherKilled, Spend
    <3>3. CASE People
      BY <3>3 DEF People, SubmitOpen, SubmitClose, Requeue, BudgetContinue, BudgetDiscard,
         RateLimitSwitch, RateLimitCancel, ClarifyReply, OwnerSettlesPr, Operator, Spend
    <3>4. ASSUME NEW p \in Pids, Runner(p) \/ RunnerProgress(p) \/ RunnerCrashes(p)
          PROVE spent \subseteq spent'
      BY <3>4 DEF Runner, RunnerLocks, RunnerBounces, RunnerRefuses, RunnerLosesFolder,
         RunnerApproves, RunnerStopsUnsafe, RunnerParks, RunnerMoves, RunnerExits,
         RunnerProgress, RunnerCrashes, Spend
    <3>5. CASE UNCHANGED vars \/ \E t \in Tasks : TimePasses(t)
      BY <3>5 DEF vars, TimePasses
    <3> QED BY <3>1, <3>2, <3>3, <3>4, <3>5 DEF Others
  <2> QED BY <2>1, <2>2, <2>3, WatchedKept
<1> QED BY <1>1, <1>2, <1>3

\* A decision taken on an honest probe is not taken on a working runner, and a runner is
\* only started where there is a state.json.
LEMMA LooksWatched == ASSUME TypeOK, Watched, WatcherLooks PROVE Watched'
<1>1. UNCHANGED <<task, proc, disp>> /\ spent \subseteq spent'
  BY DEF WatcherLooks, WatcherStart, WatcherNextPass, WatcherSweeps, WatcherReconcilesPr,
     WatcherScans, WatcherChecksManaged, ReadsTorn, Probe, Spend, procVars, dispatcherVars
<1>2. Tended /\ Onward
  BY <1>1, TendedUntouched DEF Onward
<1>3. CASE wat'.plan \notin Decisions
  BY <1>1, <1>2, <1>3, WatchedKept
<1>4. ASSUME NEW t \in Tasks, NEW dead \in BOOLEAN, NEW plan \in Decisions,
             Probe(t, dead), Decides(t, plan),
             plan \in {"adopt", "revive"} => task[t].stage # "none",
             dead \/ task[t].stage = "none"
      PROVE Watched'
  <2>1. wat'.plan = plan /\ wat'.task = t
    BY <1>4 DEF Decides, Decisions, TypeOK, WatOK
  <2>2. Begun' /\ Fresh'
    BY <1>1, <1>4, <2>1 DEF Watched, Begun, Fresh, Alive
  <2>3. Sighted'
    <3> SUFFICES ASSUME spent' \cap {"misprobe", "tornRead"} = {}, NEW p \in Pids,
                        Works(t, p)
                 PROVE FALSE
      BY <1>1, <2>1 DEF Sighted, Works
    <3>1. dead = ~ PidAlive(t)
      BY <1>4 DEF Probe, Spend
    <3>2. PidAlive(t) /\ Alive(p) /\ proc[p].task = t
      BY LimitsAssumption DEF PidAlive, Works, Alive
    <3> QED BY <1>4, <3>1, <3>2 DEF Watched, Begun
  <2> QED BY <2>2, <2>3 DEF Watched
<1>5. ASSUME NEW t \in Tasks, WatcherScans(t), wat'.plan \in Decisions PROVE Watched'
  <2>1. CASE ReadsTorn(t)
    <3>1. wat'.plan = "toFailed" /\ "tornRead" \in spent'
      BY <2>1 DEF ReadsTorn, Decides, Spend, TypeOK, WatOK
    <3> QED BY <1>1, <3>1 DEF Watched, Begun, Fresh, Sighted, Alive
  <2>2. ASSUME NEW dead \in BOOLEAN, Probe(t, dead), Decides(t, OrphanPlan(t, dead))
        PROVE Watched'
    <3>1. wat'.plan = OrphanPlan(t, dead)
      BY <2>2 DEF Decides, TypeOK, WatOK
    <3>2. ~ Spared(t, dead)
      BY <1>5, <3>1 DEF OrphanPlan, Decisions
    <3>3. dead \/ task[t].stage = "none"
      BY <3>2 DEF Spared
    <3>4. OrphanPlan(t, dead) \in {"adopt", "revive"} => task[t].stage # "none"
      BY DEF OrphanPlan, ResumableStages
    <3> QED BY <1>4, <1>5, <2>2, <3>1, <3>3, <3>4
  <2> QED BY <1>5, <2>1, <2>2 DEF WatcherScans
<1>6. ASSUME NEW t \in Tasks, WatcherChecksManaged(t), wat'.plan \in Decisions PROVE Watched'
  <2>1. PICK dead \in BOOLEAN : Probe(t, dead) /\ Decides(t, ManagedPlan(t, dead))
    BY <1>6 DEF WatcherChecksManaged
  <2>2. wat'.plan = ManagedPlan(t, dead)
    BY <2>1 DEF Decides, TypeOK, WatOK
  <2>3. dead /\ task[t].pid # None
    BY <1>6, <2>2 DEF ManagedPlan, Decisions
  <2> QED BY <1>4, <1>6, <2>1, <2>2, <2>3 DEF Watched, Begun
<1>7. ASSUME \/ WatcherStart \/ WatcherNextPass
             \/ \E t \in Tasks : WatcherSweeps(t) \/ WatcherReconcilesPr(t)
      PROVE wat'.plan \notin Decisions
  <2>1. CASE WatcherStart
    BY <2>1 DEF WatcherStart, Decisions
  <2>2. CASE WatcherNextPass
    BY <2>2 DEF WatcherNextPass, Decisions, TypeOK, WatOK
  <2>3. ASSUME NEW t \in Tasks, WatcherSweeps(t) \/ WatcherReconcilesPr(t)
        PROVE wat'.plan \notin Decisions
    <3>1. PICK plan \in {"none", "count", "settle"} : Decides(t, plan)
      BY <2>3 DEF WatcherSweeps, WatcherReconcilesPr
    <3> QED BY <3>1 DEF Decides, Decisions, TypeOK, WatOK
  <2> QED BY <1>7, <2>1, <2>2, <2>3
<1> QED BY <1>3, <1>5, <1>6, <1>7 DEF WatcherLooks

\* Acting on a decision ends it.
LEMMA ActsWatched == ASSUME TypeOK, Watched, WatcherActs \/ WatcherKilled PROVE Watched'
<1>1. /\ Done.plan = "none" /\ Down.plan = "none"
      /\ \A plan : [wat EXCEPT !.plan = plan].plan = plan
  BY DEF Done, Down, TypeOK, WatOK
<1>2. ASSUME NEW p \in Pids, WatcherSpawns(p) PROVE Watched'
  <2> DEFINE t == wat.task
  <2>1. /\ t \in Tasks /\ task[t].stage # "none" /\ p # disp.pid
        /\ proc' = [proc EXCEPT ![p] = [task |-> t, phase |-> "boot"]]
        /\ task' = [task EXCEPT ![t].pid = p]
        /\ wat'.plan = "none" /\ UNCHANGED disp
    BY <1>1, <1>2 DEF WatcherSpawns, FreePids, TypeOK, WatOK, dispatcherVars, Watched, Begun
  <2>2. /\ \A u \in Tasks : task'[u].stage = task[u].stage /\ (u # t => task'[u].pid = task[u].pid)
        /\ \A q \in Pids : q # p => proc'[q] = proc[q]
        /\ proc'[p] = [task |-> t, phase |-> "boot"]
    BY <2>1 DEF TypeOK, TaskOK, ProcOK, Folder
  <2>3. /\ disp.pc \in {"written", "spawned"} => disp.task \in Tasks
        /\ \A q \in Pids : Alive(q) => proc[q].task \in Tasks
    BY DEF TypeOK, DispOK, ProcOK
  <2>4. Begun'
    BY <2>1, <2>2, <2>3 DEF Watched, Begun, Alive
  <2>5. Fresh' /\ Sighted'
    BY <2>1, <2>2 DEF Watched, Fresh, Sighted
  <2> QED BY <2>4, <2>5 DEF Watched
<1>3. CASE WatcherActs /\ \A p \in Pids : ~ WatcherSpawns(p)
  <2>1. Tended
    BY <1>3, WatcherTends
  <2>2. /\ wat'.plan \notin Decisions /\ UNCHANGED <<proc, disp, spent>>
    BY <1>1, <1>3 DEF WatcherActs, WatcherMoves, WatcherTrips, WatcherGivesUp, WatcherSettles,
       WatcherFiles, WatcherCounts, WatcherRequeues, procVars, dispatcherVars, Decisions
  <2>3. Onward
    BY <2>2 DEF Onward
  <2> QED BY <2>1, <2>2, <2>3, WatchedKept
<1>4. CASE WatcherKilled
  <2>1. wat'.plan \notin Decisions /\ UNCHANGED <<task, proc, disp>> /\ spent \subseteq spent'
    BY <1>1, <1>4 DEF WatcherKilled, procVars, dispatcherVars, Decisions, Spend
  <2> QED BY <2>1, TendedUntouched, WatchedKept DEF Onward
<1> QED BY <1>2, <1>3, <1>4

LEMMA WatchedHolds == Spec => []Watched
<1>1. Init => Watched
  BY LimitsAssumption DEF Init, NoFolder, Gone, Watched, Begun, Fresh, Sighted, Alive
<1>2. TypeOK /\ Watched /\ [Next]_vars => Watched'
  BY OthersWatched, LooksWatched, ActsWatched, Divided
<1> QED BY <1>1, <1>2, TypeCorrect, PTL DEF Spec

\* Nobody but the runner itself takes a folder out of active/ while a runner works whose
\* pid it records, unless a probe or a read of the watcher failed. (A runner that lost
\* the lock may leave its own pid there.) A settled PR moves it too: the watcher revives
\* runners of approved tasks (scan_orphans, _pid_alive, _acquire_runner_lock).
THEOREM WorkIsLeftAlone == Spec => WorkLeftAlone
<1> DEFINE A == \A t \in Tasks :
                  /\ \E p \in Pids : proc[p] = [task |-> t, phase |-> "work"] /\ task[t].pid = p
                  /\ task[t].dir = "active" /\ wat.plan \notin {"settle", "file"}
                  /\ spent \cap {"misprobe", "tornRead"} = {}
                  => task'[t].dir = "active"
<1>1. TypeOK /\ LockHeld /\ Watched /\ [Next]_vars => A
  <2> SUFFICES ASSUME TypeOK, LockHeld, Watched, [Next]_vars,
                      NEW t \in Tasks, NEW p \in Pids,
                      proc[p] = [task |-> t, phase |-> "work"], task[t].pid = p,
                      task[t].dir = "active", wat.plan \notin {"settle", "file"},
                      spent \cap {"misprobe", "tornRead"} = {}
               PROVE task'[t].dir = "active"
    OBVIOUS
  <2>1. CASE Staying
    BY <2>1 DEF Staying, Stays
  <2>2. ASSUME NEW q \in Pids, RunnerMoves(q) PROVE task'[t].dir = "active"
    <3>1. proc[q].task # t
      BY <2>2 DEF RunnerMoves, LockHeld, HoldsLock
    <3> QED BY <2>2, <3>1 DEF RunnerMoves, Writes, TypeOK, TaskOK
  <2>3. CASE DispatcherWritePid \/ \E q \in Pids : WatcherSpawns(q)
    <3>1. \E u, q : task' = [task EXCEPT ![u].pid = q]
      <4>1. CASE DispatcherWritePid
        <5> DEFINE q == IF task[disp.task].dir = "active" THEN disp.pid ELSE task[disp.task].pid
        <5>1. task' = [task EXCEPT ![disp.task].pid = q]
          BY <4>1 DEF DispatcherWritePid
        <5> QED BY <5>1
      <4>2. ASSUME NEW q \in Pids, WatcherSpawns(q)
            PROVE task' = [task EXCEPT ![wat.task].pid = q]
        BY <4>2 DEF WatcherSpawns
      <4> QED BY <2>3, <4>1, <4>2
    <3>2. PICK u, q : task' = [task EXCEPT ![u].pid = q]
      BY <3>1
    <3> QED BY <3>2 DEF TypeOK, TaskOK, Folder
  <2>4. CASE WatcherMoves
    <3>1. wat.task # t
      BY <2>4 DEF WatcherMoves, Watched, Sighted, Works
    <3>2. PICK x : task' = [task EXCEPT ![wat.task] = x]
      BY <2>4 DEF WatcherMoves
    <3> QED BY <3>1, <3>2 DEF TypeOK, TaskOK
  <2>5. CASE Others
    BY <2>1, <2>2, <2>3, <2>5, OthersTend
  <2>6. CASE WatcherActs
    BY <2>1, <2>3, <2>4, <2>6, WatcherTends DEF WatcherFiles
  <2>7. CASE WatcherLooks \/ WatcherKilled
    <3>1. UNCHANGED task
      BY <2>7 DEF WatcherLooks, WatcherStart, WatcherNextPass, WatcherSweeps,
         WatcherReconcilesPr, WatcherScans, WatcherChecksManaged, WatcherKilled
    <3> QED BY <3>1
  <2> QED BY <2>5, <2>6, <2>7, Divided
<1>2. WorkLeftAlone <=> [][A]_vars
  BY DEF WorkLeftAlone
<1> HIDE DEF A
<1> QED BY <1>1, <1>2, TypeCorrect, OneHolder, WatchedHolds, PTL DEF Spec

----------------------------------------------------------------------------
(* What tasks/ promises, kept by every step (TaskCustody) *)

\* Who holds the lock of a folder works on that very folder; so nobody holds two.
LockTrue == \A t \in Tasks : lock[t] # None => HoldsLock(lock[t]) /\ proc[lock[t]].task = t

LEMMA LockTrueEnded ==
  ASSUME TypeOK, LockTrue, NEW ps, EndAll(ps)
  PROVE LockTrue'
  BY DEF TypeOK, LockOK, LockTrue, HoldsLock, EndAll

\* A new process gets a pid that no holder has.
LEMMA LockTrueSpawned ==
  ASSUME TypeOK, LockTrue, NEW q \in FreePids, NEW t,
         proc' = [proc EXCEPT ![q] = [task |-> t, phase |-> "boot"]], UNCHANGED lock
  PROVE LockTrue'
<1>1. q \in Pids /\ ~ HoldsLock(q)
  BY DEF FreePids, HoldsLock, Gone
<1>2. \A p \in Pids : p # q => proc'[p] = proc[p]
  BY DEF TypeOK, ProcOK
<1>3. \A u \in Tasks : lock[u] # None => lock[u] \in Pids /\ lock[u] # q
  BY <1>1 DEF TypeOK, LockOK, LockTrue
<1> QED BY <1>2, <1>3 DEF LockTrue, HoldsLock

LEMMA LockTrueKept ==
  ASSUME TypeOK, LockTrue, NEW q \in Pids,
         NEW phase \in {"work", "toInput", "toFailed", "tail"},
         proc' = [proc EXCEPT ![q].phase = phase], UNCHANGED lock
  PROVE LockTrue'
  BY DEF TypeOK, ProcOK, LockOK, LockTrue, HoldsLock

LEMMA LockTrueTaken ==
  ASSUME TypeOK, LockTrue, NEW q \in Pids, RunnerLocks(q)
  PROVE LockTrue'
<1>1. proc[q].task \in Tasks /\ ~ HoldsLock(q)
  BY DEF TypeOK, ProcOK, Alive, RunnerLocks, HoldsLock
<1> SUFFICES ASSUME NEW t \in Tasks, lock'[t] # None
             PROVE HoldsLock(lock[t])' /\ proc'[lock'[t]].task = t
  BY DEF LockTrue
<1>2. CASE t = proc[q].task
  BY <1>1, <1>2 DEF RunnerLocks, TypeOK, ProcOK, LockOK, HoldsLock
<1>3. CASE t # proc[q].task
  <2>1. lock'[t] = lock[t] /\ lock[t] \in Pids /\ lock[t] # q
    BY <1>1, <1>3 DEF RunnerLocks, TypeOK, LockOK, LockTrue
  <2>2. proc'[lock[t]] = proc[lock[t]]
    BY <2>1 DEF RunnerLocks, TypeOK, ProcOK
  <2> QED BY <2>1, <2>2 DEF LockTrue, HoldsLock
<1> QED BY <1>2, <1>3

LEMMA OneLock == Spec => []LockTrue
<1>1. Init => LockTrue
  BY DEF Init, LockTrue
<1>2. TypeOK /\ LockTrue /\ [Next]_vars => LockTrue'
  <2> SUFFICES ASSUME TypeOK, LockTrue, [Next]_vars PROVE LockTrue'
    OBVIOUS
  <2>1. CASE UNCHANGED <<proc, lock>>
    BY <2>1 DEF LockTrue, HoldsLock
  <2>2. CASE \E ps : EndAll(ps)
    BY <2>2, LockTrueEnded
  <2>3. ASSUME NEW p \in Pids, DispatcherSpawn(p) PROVE LockTrue'
    BY <2>3, LockTrueSpawned DEF DispatcherSpawn
  <2>4. ASSUME NEW p \in Pids, WatcherSpawns(p) PROVE LockTrue'
    BY <2>4, LockTrueSpawned DEF WatcherSpawns
  <2>5. ASSUME NEW p \in Pids, Runner(p) PROVE LockTrue'
    <3>1. CASE RunnerLocks(p)
      BY <3>1, LockTrueTaken
    <3>2. CASE RunnerBounces(p) \/ RunnerRefuses(p) \/ RunnerLosesFolder(p) \/ RunnerExits(p)
      BY <2>2, <3>2 DEF RunnerBounces, RunnerRefuses, RunnerLosesFolder, RunnerExits, Ends
    <3>3. CASE RunnerApproves(p) \/ RunnerStopsUnsafe(p) \/ RunnerMoves(p)
      BY <3>3, LockTrueKept DEF RunnerApproves, RunnerStopsUnsafe, RunnerMoves
    <3>4. CASE RunnerParks(p)
      <4>1. PICK k \in Parkings : proc' = [proc EXCEPT ![p].phase = k.phase]
        BY <3>4 DEF RunnerParks
      <4>2. k.phase \in {"work", "toInput", "toFailed", "tail"} /\ UNCHANGED lock
        BY <3>4 DEF RunnerParks, Parkings
      <4> QED BY <4>1, <4>2, LockTrueKept
    <3> QED BY <2>5, <3>1, <3>2, <3>3, <3>4 DEF Runner
  <2>6. CASE Dispatcher
    BY <2>1, <2>3, <2>6 DEF Dispatcher, DispatcherQuarantine, DispatcherTake,
       DispatcherWriteState, DispatcherDefer, DispatcherWritePid, DispatcherStart, procVars
  <2>7. CASE WatcherLooks
    BY <2>1, <2>7 DEF WatcherLooks, WatcherStart, WatcherNextPass, WatcherSweeps,
       WatcherReconcilesPr, WatcherScans, WatcherChecksManaged, procVars
  <2>8. CASE WatcherActs
    BY <2>1, <2>4, <2>8 DEF WatcherActs, WatcherMoves, WatcherTrips, WatcherGivesUp,
       WatcherSettles, WatcherFiles, WatcherCounts, WatcherRequeues, procVars
  <2>9. CASE People
    BY <2>1, <2>9 DEF People, SubmitOpen, SubmitClose, Requeue, BudgetContinue, BudgetDiscard,
       RateLimitSwitch, RateLimitCancel, ClarifyReply, OwnerSettlesPr, Operator, procVars
  <2>10. CASE Faults
    BY <2>1, <2>2, <2>10 DEF Faults, DispatcherStop, DispatcherKilled, WatcherKilled,
       RunnerCrashes, Ends, procVars
  <2>11. CASE \/ UNCHANGED vars
              \/ \E t \in Tasks : TimePasses(t)
              \/ \E p \in Pids : RunnerProgress(p)
    BY <2>1, <2>11 DEF vars, TimePasses, RunnerProgress, procVars
  <2> QED BY <2>5, <2>6, <2>7, <2>8, <2>9, <2>10, <2>11 DEF Next
<1> QED BY <1>1, <1>2, TypeCorrect, PTL DEF Spec

\* What an edit leaves of the view: the bucket it puts a folder in, and the PR untouched.
Put(x, y, dir) == y.dir = dir /\ y.pr = x.pr
Same(x, y) == Put(x, y, x.dir)

LEMMA PutByEdits ==
  ASSUME NEW x \in Folder, NEW dir, NEW stage, NEW ask
  PROVE /\ Put(x, In(x, dir), dir)
        /\ Same(x, At(x, stage)) /\ Same(x, Asks(x, ask)) /\ Same(x, Waived(x))
        /\ Same(x, [x EXCEPT !.over = FALSE]) /\ Same(x, [x EXCEPT !.torn = FALSE])
        /\ \A age : Same(x, [x EXCEPT !.age = age])
        /\ \A pid : Same(x, [x EXCEPT !.pid = pid])
  BY DEF In, At, Asks, Waived, Folder, Put, Same

\* The sequences of edits the actions make.
LEMMA PutByChains ==
  ASSUME NEW x \in Folder, NEW dir, NEW stage \in Stages, NEW ask
  PROVE /\ Put(x, In(At(x, stage), dir), dir)
        /\ Put(x, In(Waived(x), dir), dir)
        /\ Put(x, In(At(Waived(x), stage), dir), dir)
        /\ Put(x, In(At(Asks(x, "answered"), stage), dir), dir)
        /\ Same(x, Asks(At(x, stage), ask))
<1>1. At(x, stage) \in Folder /\ Waived(x) \in Folder /\ Asks(x, "answered") \in Folder
  BY Edited DEF Answers
<1>2. At(Waived(x), stage) \in Folder /\ At(Asks(x, "answered"), stage) \in Folder
  BY <1>1, Edited
<1>3. \A y \in Folder : /\ Put(y, In(y, dir), dir) /\ Same(y, At(y, stage))
                        /\ Same(y, Asks(y, ask)) /\ Same(y, Waived(y))
                        /\ Same(y, Asks(y, "answered"))
  BY PutByEdits
<1>4. \A u, v, w, d : Same(u, v) /\ Put(v, w, d) => Put(u, w, d)
  BY DEF Same, Put
<1>5. \A u, v, w : Same(u, v) /\ Same(v, w) => Same(u, w)
  BY DEF Same, Put
<1> QED BY <1>1, <1>2, <1>3, <1>4, <1>5

\* A requeue's count leaves bucket and PR alone.
LEMMA PutByCount ==
  ASSUME NEW x \in Folder, NEW sweep
  PROVE Same(x, Counted(x, sweep))
<1> DEFINE y == Asks(x, IF sweep = "clarify" THEN "answered" ELSE x.ask)
           z == At(y, IF sweep = "transient" THEN x.stage ELSE "inbox")
<1>1. y \in Folder /\ Same(x, y)
  BY Edited, PutByEdits DEF Answers
<1>2. z \in Folder /\ Same(y, z)
  BY <1>1, Edited, PutByEdits DEF Stages
<1> HIDE DEF y, z
<1>3. \A w \in Folder : LET v == [w EXCEPT !.used[sweep] = @ + 1]
                        IN  v.dir = w.dir /\ v.pr = w.pr
  BY DEF Folder
<1>4. Counted(x, sweep) = [z EXCEPT !.used[sweep] = @ + 1]
  BY DEF Counted, y, z
<1> QED BY <1>1, <1>2, <1>3, <1>4 DEF Same, Put

\* A step of the system, seen through the mapping: a step of TaskCustody or none.
Promised == [Custody!Next]_(Custody!vars)

LEMMA Unseen ==
  ASSUME \A t \in Tasks : Same(task[t], task'[t]), UNCHANGED <<lock, reruns>>
  PROVE Promised
<1>1. place' = place /\ request' = request
  BY DEF Same, Put, place, request
<1>2. returns' = returns
  BY DEF returns
<1> QED BY <1>1, <1>2 DEF Promised, Custody!vars

LEMMA Untouched == ASSUME UNCHANGED <<task, lock, reruns>> PROVE Promised
  BY Unseen DEF Same, Put

\* A write that leaves bucket and PR of its folder alone.
LEMMA Rewritten ==
  ASSUME TypeOK, NEW t, NEW x, t \in Tasks => Same(task[t], x),
         task' = [task EXCEPT ![t] = x] \/ Writes(t, x), UNCHANGED <<lock, reruns>>
  PROVE Promised
<1>1. \A u \in Tasks : Same(task[u], task'[u])
  BY DEF TypeOK, TaskOK, Writes, Same, Put
<1> QED BY <1>1, Unseen

\* A folder that goes from one bucket to another along an edge.
LEMMA Handed ==
  ASSUME TypeOK, NEW t \in Tasks, NEW dir, NEW x, Put(task[t], x, dir),
         <<task[t].dir, dir>> \in Custody!Edges,
         dir = "done" => task[t].pr = "merged",
         task' = [task EXCEPT ![t] = x], UNCHANGED <<lock, reruns>>
  PROVE Promised
<1>1. place' = [place EXCEPT ![t] = dir]
  BY DEF TypeOK, TaskOK, place, Put
<1>2. request' = request
  BY DEF TypeOK, TaskOK, request, Put
<1>3. returns' = returns
  BY DEF returns
<1>4. place[t] = task[t].dir /\ request[t] = task[t].pr
  BY DEF place, request
<1>5. Custody!Hand(t, dir)
  BY <1>1, <1>2, <1>3, <1>4 DEF Custody!Hand, Custody!Move
<1>6. <<task[t].dir, dir>>[2] = dir
  OBVIOUS
<1> QED BY <1>5, <1>6 DEF Promised, Custody!Next

\* Processes that end give their locks back.
LEMMA Left ==
  ASSUME NEW ps \in SUBSET Pids, EndAll(ps), UNCHANGED <<task, reruns>>
  PROVE Promised
<1>1. Custody!Leave(ps)
  BY DEF Custody!Leave, EndAll, place, request, returns
<1> QED BY <1>1 DEF Promised, Custody!Next

\* A runner that takes the lock begins to work where nobody works, and nowhere else.
LEMMA Taken ==
  ASSUME TypeOK, LockTrue, NEW p \in Pids, RunnerLocks(p)
  PROVE Promised
<1> DEFINE t == proc[p].task
<1>1. t \in Tasks /\ ~ HoldsLock(p)
  BY DEF TypeOK, ProcOK, Alive, RunnerLocks, HoldsLock
<1>2. \A u \in Tasks : lock[u] # p
  BY <1>1, LimitsAssumption DEF LockTrue
<1>3. UNCHANGED <<task, reruns>>
  BY DEF RunnerLocks, watcherVars
<1>4. Custody!Work(t, p)
  BY <1>1, <1>2, <1>3 DEF RunnerLocks, Custody!Work, place, request, returns
<1> QED BY <1>1, <1>4 DEF Promised, Custody!Next

\* A stage may open a pull request, and only for the task its runner holds.
LEMMA Opened ==
  ASSUME TypeOK, LockHeld, NEW p \in Pids, RunnerProgress(p)
  PROVE Promised
<1> DEFINE t == proc[p].task
<1>1. t \in Tasks /\ lock[t] = p /\ task[t] \in Folder
  BY DEF TypeOK, ProcOK, TaskOK, Alive, RunnerProgress, LockHeld, HoldsLock
<1>2. PICK x \in StageEffects(task[t]) : Writes(t, At(x, "pipeline"))
  BY DEF RunnerProgress
<1>3. x \in Folder
  BY <1>1, <1>2, Edited
<1>4. /\ x.dir = task[t].dir
      /\ x.pr = task[t].pr \/ (task[t].pr = "none" /\ x.pr = "open")
  BY <1>1, <1>2 DEF StageEffects, Folder
<1>5. Same(x, At(x, "pipeline"))
  BY <1>3, PutByEdits
<1>6. task' = [task EXCEPT ![t] = At(x, "pipeline")] /\ UNCHANGED <<lock, reruns>>
  BY <1>2 DEF RunnerProgress, Writes, procVars, watcherVars
<1>7. CASE x.pr = task[t].pr
  <2>1. Same(task[t], At(x, "pipeline"))
    BY <1>4, <1>5, <1>7 DEF Same, Put
  <2> QED BY <1>6, <2>1, Rewritten
<1>8. CASE task[t].pr = "none" /\ x.pr = "open"
  <2> DEFINE y == At(x, "pipeline")
  <2>1. y.dir = task[t].dir /\ y.pr = "open"
    BY <1>4, <1>5, <1>8 DEF Same, Put
  <2> HIDE DEF y
  <2>2. task' = [task EXCEPT ![t] = y]
    BY <1>6 DEF y
  <2>3. place' = place
    BY <2>1, <2>2 DEF TypeOK, TaskOK, place
  <2>4. request' = [request EXCEPT ![t] = "open"] /\ request[t] = "none"
    BY <1>1, <1>8, <2>1, <2>2 DEF TypeOK, TaskOK, request
  <2>5. UNCHANGED <<place, lock, returns>>
    BY <1>6, <2>3 DEF returns
  <2>6. lock[t] # None
    BY <1>1, LimitsAssumption
  <2>7. Custody!OpenRequest(t)
    BY <2>4, <2>5, <2>6 DEF Custody!OpenRequest
  <2> QED BY <1>1, <2>7 DEF Promised, Custody!Next
<1> QED BY <1>4, <1>7, <1>8

\* The owner settles an open pull request, and nothing else.
LEMMA OwnerSettled ==
  ASSUME TypeOK, NEW t \in Tasks, OwnerSettlesPr(t)
  PROVE Promised
<1>1. PICK verdict \in {"merged", "closed"} : task' = [task EXCEPT ![t].pr = verdict]
  BY DEF OwnerSettlesPr
<1>2. task[t].pr = "open" /\ UNCHANGED <<lock, reruns>>
  BY DEF OwnerSettlesPr, procVars, watcherVars
<1>3. place' = place
  BY <1>1 DEF TypeOK, TaskOK, Folder, place
<1>4. request' = [request EXCEPT ![t] = verdict] /\ request[t] = "open"
  BY <1>1, <1>2 DEF TypeOK, TaskOK, Folder, request
<1>5. Custody!SettleRequest(t, verdict)
  BY <1>2, <1>3, <1>4 DEF Custody!SettleRequest, returns
<1> QED BY <1>5 DEF Promised, Custody!Next

\* An automatic requeue is one of those the limits leave.
LEMMA Returned ==
  ASSUME TypeOK, RetriesPaid, WatcherRequeues
  PROVE Promised
<1> DEFINE t == wat.task  s == wat.pass
<1>1. /\ t \in Tasks /\ s \in Sweeps /\ task[t] \in Folder
      /\ reruns[t][s] < task[t].used[s]
  BY DEF WatcherRequeues, RetriesPaid, TypeOK, WatOK, TaskOK
<1>2. \A r \in Sweeps : /\ reruns[t][r] \in Nat /\ RetryLimit[r] \in Nat
                        /\ task[t].used[r] \in Nat
                        /\ reruns[t][r] <= task[t].used[r] /\ task[t].used[r] <= RetryLimit[r]
  BY <1>1, LimitsAssumption DEF RetriesPaid, TypeOK, RerunsOK, Folder
<1>3. \A r \in Sweeps : reruns[t][r] <= RetryLimit[r] /\ (r = s => reruns[t][r] < RetryLimit[r])
  BY <1>1, <1>2
<1>4. returns[t] < ReturnLimit
  BY <1>1, <1>2, <1>3 DEF returns, ReturnLimit, Sweeps
<1>5. \A u \in Tasks, r \in Sweeps :
        reruns'[u][r] = IF u = t /\ r = s THEN reruns[t][s] + 1 ELSE reruns[u][r]
  BY <1>1 DEF WatcherRequeues, TypeOK, RerunsOK
<1>6. returns' = [returns EXCEPT ![t] = @ + 1]
  <2>1. returns'[t] = returns[t] + 1
    BY <1>1, <1>2, <1>5 DEF returns, Sweeps
  <2>2. \A u \in Tasks : u # t => returns'[u] = returns[u]
    BY <1>5 DEF returns, Sweeps
  <2>3. /\ returns' = [u \in Tasks |-> returns'[u]] 
        /\ returns = [u \in Tasks |-> returns[u]]
    BY DEF returns
  <2> QED BY <1>1, <2>1, <2>2, <2>3
<1>7. Put(task[t], In(task[t], "inbox"), "inbox")
  BY <1>1, PutByEdits
<1>8. place' = [place EXCEPT ![t] = "inbox"] /\ request' = request
  <2>1. task' = [task EXCEPT ![t] = In(task[t], "inbox")]
    BY DEF WatcherRequeues
  <2> QED BY <1>1, <1>7, <2>1 DEF TypeOK, TaskOK, place, request, Put
<1>9. place[t] = "awaiting-input" /\ UNCHANGED lock
  BY <1>1 DEF WatcherRequeues, place, procVars
<1>10. Custody!Return(t)
  BY <1>4, <1>6, <1>8, <1>9 DEF Custody!Return, Custody!Move, Custody!Edges
<1> QED BY <1>1, <1>10 DEF Promised, Custody!Next


\* Nobody is put into awaiting-approval/: an approved folder stays in active/.
Placed == \A t \in Tasks : place[t] # "awaiting-approval"

LEMMA DispatcherPromised == ASSUME TypeOK, Dispatcher PROVE Promised
<1>1. \A t \in Tasks : task[t] \in Folder
  BY DEF TypeOK, TaskOK
<1>2. ASSUME NEW t \in Tasks, DispatcherQuarantine(t) \/ DispatcherTake(t) PROVE Promised
  <2>1. PICK dir \in {"failed", "active"} : task' = [task EXCEPT ![t] = In(task[t], dir)]
    BY <1>2 DEF DispatcherQuarantine, DispatcherTake
  <2>2. task[t].dir = "inbox" /\ UNCHANGED <<lock, reruns>>
    BY <1>2 DEF DispatcherQuarantine, DispatcherTake, procVars, watcherVars
  <2>3. Put(task[t], In(task[t], dir), dir)
    BY <1>1, PutByEdits
  <2>4. <<task[t].dir, dir>> \in Custody!Edges
    BY <2>2 DEF Custody!Edges
  <2> QED BY <2>1, <2>2, <2>3, <2>4, Handed
<1>3. CASE DispatcherWriteState
  <2>1. UNCHANGED <<lock, reruns>> /\ disp.task \in Tasks
    BY <1>3 DEF DispatcherWriteState, procVars, watcherVars, TypeOK, DispOK
  <2>2. \/ UNCHANGED task
        \/ task' = [task EXCEPT ![disp.task] = At(task[disp.task], "received")]
    BY <1>3 DEF DispatcherWriteState, Ingested
  <2>3. Same(task[disp.task], At(task[disp.task], "received"))
    BY <1>1, <2>1, PutByEdits
  <2> QED BY <2>1, <2>2, <2>3, Untouched, Rewritten
<1>4. CASE DispatcherWritePid
  <2> DEFINE t == disp.task
             pid == IF task[t].dir = "active" THEN disp.pid ELSE task[t].pid
             x == [task[t] EXCEPT !.pid = pid]
  <2>1. t \in Tasks /\ UNCHANGED <<lock, reruns>>
    BY <1>4 DEF DispatcherWritePid, procVars, watcherVars, TypeOK, DispOK
  <2>2. task' = [task EXCEPT ![t] = x]
    BY <1>4 DEF DispatcherWritePid
  <2>3. Same(task[t], x)
    BY <1>1, <2>1, PutByEdits
  <2> HIDE DEF x, t
  <2> QED BY <2>1, <2>2, <2>3, Rewritten
<1>5. CASE DispatcherDefer \/ DispatcherStart \/ \E p \in Pids : DispatcherSpawn(p)
  BY <1>5, Untouched
     DEF DispatcherDefer, DispatcherStart, DispatcherSpawn, procVars, watcherVars
<1> QED BY <1>2, <1>3, <1>4, <1>5 DEF Dispatcher

LEMMA RunnerPromised ==
  ASSUME TypeOK, LockHeld, LockTrue, NEW p \in Pids, Runner(p) \/ RunnerProgress(p)
  PROVE Promised
<1> DEFINE t == proc[p].task
<1>1. \A u \in Tasks : task[u] \in Folder
  BY DEF TypeOK, TaskOK
<1>2. CASE RunnerApproves(p) \/ RunnerStopsUnsafe(p)
  <2>1. PICK stage : Writes(t, At(task[t], stage))
    BY <1>2 DEF RunnerApproves, RunnerStopsUnsafe
  <2>2. UNCHANGED <<lock, reruns>>
    BY <1>2 DEF RunnerApproves, RunnerStopsUnsafe, watcherVars
  <2>3. t \in Tasks => Same(task[t], At(task[t], stage))
    BY <1>1, PutByEdits
  <2> QED BY <2>1, <2>2, <2>3, Rewritten
<1>3. CASE RunnerParks(p)
  <2>1. PICK k \in Parkings :
          Writes(t, Asks(At(task[t], k.stage),
                         IF k.stage = "awaiting_clarify" THEN "open" ELSE task[t].ask))
    BY <1>3 DEF RunnerParks
  <2>2. k.stage \in Stages
    BY DEF Parkings, Stages
  <2>3. UNCHANGED <<lock, reruns>>
    BY <1>3 DEF RunnerParks, watcherVars
  <2>4. t \in Tasks => \A ask : Same(task[t], Asks(At(task[t], k.stage), ask))
    BY <1>1, <2>2, PutByChains
  <2> QED BY <2>1, <2>3, <2>4, Rewritten
<1>4. CASE RunnerMoves(p)
  <2>1. PICK dir \in {"failed", "awaiting-input"} : Writes(t, In(task[t], dir))
    BY <1>4 DEF RunnerMoves
  <2>2. t \in Tasks /\ UNCHANGED <<lock, reruns>>
    BY <1>4 DEF RunnerMoves, watcherVars, TypeOK, ProcOK, Alive
  <2>3. CASE task[t].dir = "active"
    <3>1. task' = [task EXCEPT ![t] = In(task[t], dir)]
      BY <2>1, <2>3 DEF Writes
    <3>2. Put(task[t], In(task[t], dir), dir)
      BY <1>1, <2>2, PutByEdits
    <3>3. <<task[t].dir, dir>> \in Custody!Edges
      BY <2>3 DEF Custody!Edges
    <3> QED BY <2>2, <3>1, <3>2, <3>3, Handed
  <2>4. CASE task[t].dir # "active"
    <3>1. task' = task
      BY <2>1, <2>4 DEF Writes, TypeOK, TaskOK
    <3> QED BY <2>2, <3>1, Untouched
  <2> QED BY <2>3, <2>4
<1>5. CASE RunnerBounces(p) \/ RunnerRefuses(p) \/ RunnerLosesFolder(p) \/ RunnerExits(p)
  BY <1>5, Left
     DEF RunnerBounces, RunnerRefuses, RunnerLosesFolder, RunnerExits, Ends, watcherVars
<1> QED BY <1>2, <1>3, <1>4, <1>5, Taken, Opened DEF Runner

LEMMA PeoplePromised == ASSUME TypeOK, Placed, People PROVE Promised
<1> SUFFICES ASSUME NEW t \in Tasks,
                    \/ SubmitOpen(t) \/ SubmitClose(t) \/ Requeue(t) \/ BudgetContinue(t)
                    \/ BudgetDiscard(t) \/ RateLimitSwitch(t) \/ RateLimitCancel(t)
                    \/ ClarifyReply(t) \/ OwnerSettlesPr(t)
             PROVE Promised
  BY DEF People
<1>1. task[t] \in Folder
  BY DEF TypeOK, TaskOK
<1>2. CASE SubmitOpen(t)
  <2> DEFINE x == [task[t] EXCEPT !.dir = "inbox", !.torn = TRUE]
  <2>1. Put(task[t], x, "inbox")
    BY <1>1 DEF Folder, Put
  <2>2. task' = [task EXCEPT ![t] = x] /\ task[t].dir = "none" /\ UNCHANGED <<lock, reruns>>
    BY <1>2 DEF SubmitOpen, procVars, watcherVars
  <2>3. <<task[t].dir, "inbox">> \in Custody!Edges
    BY <2>2 DEF Custody!Edges
  <2> HIDE DEF x
  <2> QED BY <2>1, <2>2, <2>3, Handed
<1>3. CASE SubmitClose(t)
  BY <1>1, <1>3, PutByEdits, Rewritten DEF SubmitClose, procVars, watcherVars
<1>4. CASE Requeue(t) \/ RateLimitSwitch(t)
  <2>1. /\ task' = [task EXCEPT ![t] = In(Waived(task[t]), "inbox")]
        /\ task[t].dir \in {"awaiting-input", "awaiting-approval", "failed"}
        /\ UNCHANGED <<lock, reruns>>
    BY <1>4 DEF Requeue, RateLimitSwitch, Operator, procVars, watcherVars
  <2>2. <<task[t].dir, "inbox">> \in Custody!Edges
    BY <2>1 DEF Placed, place, Custody!Edges
  <2>3. Put(task[t], In(Waived(task[t]), "inbox"), "inbox")
    BY <1>1, PutByChains DEF Stages
  <2> QED BY <2>1, <2>2, <2>3, Handed
<1>5. CASE BudgetDiscard(t) \/ RateLimitCancel(t)
  <2>1. /\ task' = [task EXCEPT ![t] = In(task[t], "failed")]
        /\ task[t].dir = "awaiting-input" /\ UNCHANGED <<lock, reruns>>
    BY <1>5 DEF BudgetDiscard, RateLimitCancel, Operator, procVars, watcherVars
  <2>2. <<task[t].dir, "failed">> \in Custody!Edges
    BY <2>1 DEF Custody!Edges
  <2>3. Put(task[t], In(task[t], "failed"), "failed")
    BY <1>1, PutByEdits
  <2> QED BY <2>1, <2>2, <2>3, Handed
<1>6. CASE BudgetContinue(t) \/ ClarifyReply(t)
  <2>1. <<"awaiting-input", "inbox">> \in Custody!Edges
    BY DEF Custody!Edges
  <2>2. CASE BudgetContinue(t)
    <3>1. PICK x \in {task[t], [task[t] EXCEPT !.over = FALSE]} :
            /\ task' = [task EXCEPT ![t] = In(At(Waived(x), "inbox"), "inbox")]
            /\ task[t].dir = "awaiting-input" /\ UNCHANGED <<lock, reruns>>
      BY <2>2 DEF BudgetContinue, Operator, procVars, watcherVars
    <3>2. x \in Folder /\ Same(task[t], x)
      BY <1>1, Edited, PutByEdits DEF Same, Put
    <3>3. Put(x, In(At(Waived(x), "inbox"), "inbox"), "inbox")
      BY <3>2, PutByChains DEF Stages
    <3>4. Put(task[t], In(At(Waived(x), "inbox"), "inbox"), "inbox")
      BY <3>2, <3>3 DEF Same, Put
    <3> QED BY <2>1, <3>1, <3>4, Handed
  <2>3. CASE ClarifyReply(t)
    <3> DEFINE x == In(At(Asks(task[t], "answered"), "inbox"), "inbox")
    <3>1. /\ task' = [task EXCEPT ![t] = x]
          /\ task[t].dir = "awaiting-input" /\ UNCHANGED <<lock, reruns>>
      BY <2>3 DEF ClarifyReply, Operator, procVars, watcherVars
    <3>2. Put(task[t], x, "inbox")
      BY <1>1, PutByChains DEF Stages
    <3> HIDE DEF x
    <3> QED BY <2>1, <3>1, <3>2, Handed
  <2> QED BY <1>6, <2>2, <2>3
<1> QED BY <1>2, <1>3, <1>4, <1>5, <1>6, OwnerSettled

LEMMA FaultsPromised ==
  ASSUME TypeOK, \/ Faults \/ WatcherLooks \/ UNCHANGED vars
                 \/ \E t \in Tasks : TimePasses(t)
  PROVE Promised
<1>1. {children[t] : t \in Running} \in SUBSET Pids
  BY DEF TypeOK, ChildrenOK, Running
<1>2. CASE Faults
  <2>1. CASE DispatcherStop
    BY <1>1, <2>1, Left DEF DispatcherStop, watcherVars
  <2>2. CASE DispatcherKilled
    BY <1>1, <2>2, Left, Untouched DEF DispatcherKilled, procVars, watcherVars
  <2>3. CASE WatcherKilled
    BY <2>3, Untouched DEF WatcherKilled, procVars
  <2>4. CASE \E p \in Pids : RunnerCrashes(p)
    BY <2>4, Left DEF RunnerCrashes, Ends, watcherVars
  <2> QED BY <1>2, <2>1, <2>2, <2>3, <2>4 DEF Faults
<1>3. CASE WatcherLooks
  <2>1. UNCHANGED <<task, lock, reruns>>
    BY <1>3 DEF WatcherLooks, WatcherStart, WatcherNextPass, WatcherSweeps,
       WatcherReconcilesPr, WatcherScans, WatcherChecksManaged, procVars
  <2> QED BY <2>1, Untouched
<1>4. CASE UNCHANGED vars
  BY <1>4, Untouched DEF vars
<1>5. ASSUME NEW t \in Tasks, TimePasses(t) PROVE Promised
  <2>1. task' = [task EXCEPT ![t] = [task[t] EXCEPT !.age = task[t].age + 1]]
    BY <1>5 DEF TimePasses
  <2>2. UNCHANGED <<lock, reruns>> /\ task[t] \in Folder
    BY <1>5 DEF TimePasses, procVars, watcherVars, TypeOK, TaskOK
  <2>3. Same(task[t], [task[t] EXCEPT !.age = task[t].age + 1])
    BY <2>2, PutByEdits
  <2> QED BY <2>1, <2>2, <2>3, Rewritten
<1> QED BY <1>2, <1>3, <1>4, <1>5

LEMMA ActsPromised == ASSUME TypeOK, RetriesPaid, WatcherActs PROVE Promised
<1> DEFINE t == wat.task
<1>1. wat.plan # "none" => t \in Tasks /\ task[t] \in Folder
  BY DEF TypeOK, TaskOK, WatOK
<1>2. ASSUME NEW p \in Pids, WatcherSpawns(p) PROVE Promised
  <2> DEFINE x == [task[t] EXCEPT !.pid = p]
  <2>1. t \in Tasks /\ task[t] \in Folder
    BY <1>1, <1>2 DEF WatcherSpawns
  <2>2. task' = [task EXCEPT ![t] = x] /\ UNCHANGED <<lock, reruns>>
    BY <1>2 DEF WatcherSpawns
  <2>3. Same(task[t], x)
    BY <2>1, PutByEdits
  <2> HIDE DEF x, t
  <2> QED BY <2>2, <2>3, Rewritten
<1>3. CASE WatcherMoves
  <2>1. PICK dir \in {"failed", "awaiting-input"},
             x \in {task[t], At(task[t], "awaiting-input")} :
          task' = [task EXCEPT ![t] = In(x, dir)]
    BY <1>3 DEF WatcherMoves
  <2>2. /\ t \in Tasks /\ task[t] \in Folder
        /\ task[t].dir = "active" /\ UNCHANGED <<lock, reruns>>
    BY <1>1, <1>3 DEF WatcherMoves, procVars
  <2>3. Put(task[t], In(x, dir), dir)
    <3>1. Put(task[t], In(task[t], dir), dir)
      BY <2>2, PutByEdits
    <3>2. Put(task[t], In(At(task[t], "awaiting-input"), dir), dir)
      BY <2>2, PutByChains DEF Stages
    <3> QED BY <3>1, <3>2
  <2>4. <<task[t].dir, dir>> \in Custody!Edges
    BY <2>2 DEF Custody!Edges
  <2> QED BY <2>1, <2>2, <2>3, <2>4, Handed
<1>4. CASE WatcherSettles
  <2>1. task' = [task EXCEPT ![t] = At(task[t], Verdict(task[t]))]
    BY <1>4 DEF WatcherSettles
  <2>2. t \in Tasks /\ task[t] \in Folder /\ UNCHANGED <<lock, reruns>>
    BY <1>1, <1>4 DEF WatcherSettles, procVars
  <2>3. Same(task[t], At(task[t], Verdict(task[t])))
    BY <2>2, PutByEdits
  <2> QED BY <2>1, <2>2, <2>3, Rewritten
<1>7. CASE WatcherFiles
  <2>1. PICK dir \in {"done", "failed"} :
          /\ task' = [task EXCEPT ![t] = In(task[t], dir)]
          /\ dir = "done" => task[t].pr = "merged"
    BY <1>7 DEF WatcherFiles, Verdict
  <2>2. /\ t \in Tasks /\ task[t] \in Folder
        /\ task[t].dir = "active" /\ UNCHANGED <<lock, reruns>>
    BY <1>1, <1>7 DEF WatcherFiles, procVars
  <2>3. Put(task[t], In(task[t], dir), dir)
    BY <2>2, PutByEdits
  <2>4. <<task[t].dir, dir>> \in Custody!Edges
    BY <2>2 DEF Custody!Edges
  <2> QED BY <2>1, <2>2, <2>3, <2>4, Handed
<1>5. CASE WatcherCounts
  <2>1. /\ task' = [task EXCEPT ![t] = Counted(task[t], wat.pass)]
        /\ t \in Tasks /\ task[t] \in Folder /\ UNCHANGED <<lock, reruns>>
    BY <1>1, <1>5 DEF WatcherCounts, procVars
  <2>2. Same(task[t], Counted(task[t], wat.pass))
    BY <2>1, PutByCount
  <2> QED BY <2>1, <2>2, Rewritten
<1>6. CASE WatcherTrips \/ WatcherGivesUp
  BY <1>6, Untouched DEF WatcherTrips, WatcherGivesUp, procVars
<1> QED BY <1>2, <1>3, <1>4, <1>5, <1>6, <1>7, Returned DEF WatcherActs

\* A step of the promise keeps folders out of awaiting-approval/, and with it of the one
\* edge that /requeue would add.
LEMMA PlacedKept == ASSUME Placed, Promised PROVE Placed'
<1>1. CASE UNCHANGED place
  BY <1>1 DEF Placed
<1>2. ASSUME NEW t, NEW bucket, bucket # "awaiting-approval", place' = [place EXCEPT ![t] = bucket]
      PROVE Placed'
  BY <1>2 DEF Placed, place
<1>3. ASSUME NEW t \in Tasks, NEW edge \in Custody!Edges, Custody!Hand(t, edge[2])
      PROVE Placed'
  <2>1. edge[2] # "awaiting-approval"
    BY <1>3 DEF Custody!Edges
  <2> QED BY <1>2, <1>3, <2>1 DEF Custody!Hand, Custody!Move
<1>4. ASSUME NEW t \in Tasks, Custody!Return(t) PROVE Placed'
  BY <1>2, <1>4 DEF Custody!Return, Custody!Move
<1> QED BY <1>1, <1>3, <1>4 DEF Promised, Custody!Next, Custody!vars, Custody!Work,
           Custody!OpenRequest, Custody!SettleRequest, Custody!Leave

\* Dispatcher, runners, watcher and people together implement TaskCustody, whatever dies
\* and whenever: a folder moves along the edges of the lifecycle, work begins only where
\* nobody works, a pull request is opened by the one who works, done/ takes only merged
\* work, and the watcher brings no task back more often than its limits allow
\* (task_dispatcher.py, watcher.py, stage_runner_agent.py, bot.py).
THEOREM CustodyIsKept == Spec => KeepsCustody
<1>1. Init => Custody!Init
  <2> SUFFICES ASSUME Init PROVE Custody!Init
    OBVIOUS
  <2>1. place = [t \in Tasks |-> "none"] /\ request = [t \in Tasks |-> "none"]
    BY DEF Init, NoFolder, place, request
  <2>2. returns = [t \in Tasks |-> 0]
    BY DEF Init, returns, Sweeps
  <2> QED BY <2>1, <2>2 DEF Init, Custody!Init
<1>2. Init => Placed
  BY DEF Init, NoFolder, Placed, place
<1>3. TypeOK /\ LockHeld /\ LockTrue /\ RetriesPaid /\ Placed /\ [Next]_vars => Promised
  BY DispatcherPromised, RunnerPromised, PeoplePromised, FaultsPromised, ActsPromised
     DEF Next
<1>4. Placed /\ Promised => Placed'
  BY PlacedKept
<1>5. Promised <=> [Custody!Next]_(Custody!vars)
  BY DEF Promised
<1> HIDE DEF Promised
<1> QED BY <1>1, <1>2, <1>3, <1>4, <1>5, TypeCorrect, OneHolder, OneLock, RetriesArePaid, PTL
        DEF Spec, KeepsCustody, Custody!Spec


\* What follows for tasks/ from the promise alone.
Merged == \A t \in Tasks : place[t] = "done" => request[t] = "merged"
Final == \A t \in Tasks : place[t] = "done" => place'[t] = place[t]

LEMMA PromiseFulfilled == ASSUME Promised PROVE (Merged => Merged') /\ Final
<1>1. CASE UNCHANGED place /\ (\A t \in Tasks : request[t] = "merged" => request'[t] = "merged")
  BY <1>1 DEF Merged, Final
<1>2. ASSUME NEW t \in Tasks, NEW bucket, Custody!Move(t, bucket)
      PROVE (Merged => Merged') /\ Final
  <2>1. place[t] # "done" /\ (bucket = "done" => request[t] = "merged")
    BY <1>2 DEF Custody!Move, Custody!Edges
  <2>2. \A u \in Tasks : place'[u] = IF u = t THEN bucket ELSE place[u]
    BY <1>2 DEF Custody!Move, place
  <2>3. request' = request
    BY <1>2 DEF Custody!Move
  <2> QED BY <2>1, <2>2, <2>3 DEF Merged, Final
<1>3. ASSUME NEW t \in Tasks, NEW verdict, request[t] # "merged",
             request' = [request EXCEPT ![t] = verdict], UNCHANGED place
      PROVE (Merged => Merged') /\ Final
  <2>1. \A u \in Tasks : request[u] = "merged" => request'[u] = "merged"
    BY <1>3 DEF request
  <2> QED BY <1>1, <1>3, <2>1
<1>4. CASE UNCHANGED <<place, request>>
  BY <1>1, <1>4
<1>5. CASE Custody!Next
  <2>1. ASSUME NEW t \in Tasks,
               \/ \E edge \in Custody!Edges : Custody!Hand(t, edge[2])
               \/ Custody!Return(t)
        PROVE (Merged => Merged') /\ Final
    BY <1>2, <2>1 DEF Custody!Hand, Custody!Return
  <2>2. ASSUME NEW t \in Tasks,
               \/ Custody!OpenRequest(t)
               \/ \E verdict \in {"merged", "closed"} : Custody!SettleRequest(t, verdict)
        PROVE (Merged => Merged') /\ Final
    BY <1>3, <2>2 DEF Custody!OpenRequest, Custody!SettleRequest
  <2>3. CASE \/ \E t \in Tasks, w \in Pids : Custody!Work(t, w)
             \/ \E ws \in SUBSET Pids : Custody!Leave(ws)
    BY <1>4, <2>3 DEF Custody!Work, Custody!Leave
  <2> QED BY <1>5, <2>1, <2>2, <2>3 DEF Custody!Next
<1> QED BY <1>4, <1>5 DEF Promised, Custody!vars

\* A task in done/ has its pull request merged, and nobody takes a folder out of done/
\* again: no late watcher, no revived runner, no button pressed twice (_reconcile_pr_task,
\* requeue_command).
THEOREM DoneIsMergedForGood ==
  Spec => /\ [](\A t \in Tasks : task[t].dir = "done" => task[t].pr = "merged")
          /\ [][\A t \in Tasks : task[t].dir = "done" => task'[t].dir = "done"]_vars
<1>1. Custody!Init => Merged
  BY DEF Custody!Init, Merged
<1>2. [Custody!Next]_(Custody!vars) => (Merged => Merged') /\ Final
  BY PromiseFulfilled DEF Promised
<1>3. Merged => \A t \in Tasks : task[t].dir = "done" => task[t].pr = "merged"
  BY DEF Merged, place, request
<1>4. Final => \A t \in Tasks : task[t].dir = "done" => task'[t].dir = "done"
  BY DEF Final, place
<1> QED BY <1>1, <1>2, <1>3, <1>4, CustodyIsKept, PTL DEF KeepsCustody, Custody!Spec
=============================================================================
