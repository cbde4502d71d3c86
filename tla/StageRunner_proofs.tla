------------------------ MODULE StageRunner_proofs ------------------------
(***************************************************************************)
(* What TLAPS proves of StageRunner for every cap, every number of         *)
(* backends and findings, and any number of runners: types, spending, open *)
(* work, and that a runner runs out of steps.                              *)
(***************************************************************************)
EXTENDS StageRunner, SequenceTheorems, FiniteSetTheorems, TLAPS

----------------------------------------------------------------------------
(* Type correctness *)

\* The words the actions write are of the sets the types speak of. Cited instead of the
\* definitions of those sets, which are long enumerations.
LEMMA Words ==
  /\ {"active", "awaiting-input", "failed"} = Buckets
  /\ Terminals \subseteq Recorded /\ Stages \subseteq Recorded /\ "received" \in Recorded
  /\ {"awaiting-input", "awaiting-approval", "awaiting_clarify", "waiting-limits", "failed"} = Terminals
  /\ {"off", "scan", "child", "account", "join", "checks", "handoff", "move",
      "decided"} = Counters
  /\ {"none", "no_reviewer", "approve", "iteration_cap", "cost_cap", "request_changes"} = Reasons
  /\ {"none", "exit", "crash"} = Endings
  /\ {"ok", "failed", "timeout", "stall", "violation"} = Rcs
  /\ {"none", "S", "M", "L"} = AllTiers
  /\ {"none", "clean", "markers", "unticked"} = Briefs
  BY DEF Buckets, Recorded, Terminals, Counters, Reasons, Endings, Rcs, AllTiers, Briefs

LEMMA ListsOK ==
  /\ Hotfix \in Lists
  /\ Core \in Lists
  /\ \A tier \in AllTiers : Menu(tier) \in Lists
<1>1. "S" \in AllTiers /\ Menu("S") = Core
  BY DEF AllTiers, Menu
<1> QED BY <1>1 DEF Lists

\* Every list of stages is a non-empty sequence of stages.
LEMMA ListsOfStages ==
  ASSUME NEW list \in Lists
  PROVE list \in Seq(Stages) /\ Len(list) \in Pos
<1>1. Core \in Seq(Stages) /\ Len(Core) = 4 /\ Core[1] = "developer"
  BY DEF Core, Stages
<1>2. Hotfix \in Seq(Stages) /\ Len(Hotfix) = 4 /\ Hotfix[1] = "developer-hotfix"
  BY DEF Hotfix, Stages
<1>3. /\ <<"ba", "developer", "tester", "security", "reviewer">> \in Seq(Stages)
      /\ Len(<<"ba", "developer", "tester", "security", "reviewer">>) = 5
  BY DEF Stages
<1>4. /\ <<"ba", "architect", "developer", "tester", "security", "reviewer">> \in Seq(Stages)
      /\ Len(<<"ba", "architect", "developer", "tester", "security", "reviewer">>) = 6
  BY DEF Stages
<1>5. \/ list = Core \/ list = Hotfix
      \/ list = <<"ba", "developer", "tester", "security", "reviewer">>
      \/ list = <<"ba", "architect", "developer", "tester", "security", "reviewer">>
  BY DEF Lists, Menu
<1>6. list \in Seq(Stages) /\ Len(list) \in {4, 5, 6}
  BY <1>1, <1>2, <1>3, <1>4, <1>5
<1> QED BY SMTT(20), <1>6 DEF Pos

LEMMA IdleOK == Idle \in Runner /\ ~Idle.up /\ Idle.pc = "off"
<1>1. "ok" \in Rcs /\ "off" \in Counters /\ "none" \in Reasons /\ "none" \in AllTiers
      /\ "active" \in Buckets /\ "none" \in Endings /\ 1 \in Pos
  BY Words DEF Pos
<1>2. NoBills \in [Stages -> Nat] /\ {} \subseteq Stages
  BY DEF NoBills
<1> QED BY <1>1, <1>2, ListsOK DEF Idle, Runner

\* The three edits of the runner that many actions share.
LEMMA EndsOK ==
  ASSUME RunOK, NEW how \in Endings, Ends(how) PROVE RunOK'
<1>1. run' \in Runner
  BY IdleOK DEF RunOK, Ends, Runner
<1>2. ~run'.up /\ run'.pc = "off"
  BY IdleOK DEF Ends, Runner
<1> QED BY <1>1, <1>2 DEF RunOK

LEMMA GoesOK ==
  ASSUME RunOK, run.up, NEW pc \in Counters \ {"off"}, Goes(pc) PROVE RunOK'
  BY DEF RunOK, Goes, Runner

LEMMA ParksOK ==
  ASSUME RunOK, run.up, NEW dest \in Buckets, Parks(dest) PROVE RunOK'
<1>1. "move" \in Counters
  BY Words
<1> QED BY <1>1 DEF RunOK, Parks, Runner

LEMMA WrittenOK ==
  ASSUME FilesOK, NEW ws \in SUBSET Stages
  PROVE Written(ws) \subseteq Texts
<1>1. \A s \in Stages : Artifact(s) \in Artifacts
  BY DEF Artifact, Artifacts, Stages
<1>2. \A v \in Verdicts : Outdated(v) \in Verdicts
  BY DEF Verdicts, Outdated
<1>3. NewVerdicts \subseteq Verdicts
  BY DEF NewVerdicts
<1>4. files.md \cup {Artifact(s) : s \in ws} \in SUBSET Artifacts
  BY <1>1 DEF FilesOK, Texts
<1> QED BY <1>2, <1>3, <1>4 DEF Written, FilesOK, Texts

----------------------------------------------------------------------------
(* A runner at work on a stage has a stage to work on. *)

Working == {"child", "account", "join", "checks"}
Placed == run.pc \in Working => run.i <= Len(run.list)
TypeInv == TypeOK /\ Placed

\* The first stage of every menu.
LEMMA FirstStage ==
  ASSUME NEW tier \in AllTiers PROVE Menu(tier)[1] \in Recorded
<1>1. Menu(tier) \in Seq(Stages) /\ Len(Menu(tier)) \in Pos
  BY ListsOK, ListsOfStages
<1>2. Menu(tier)[1] \in Stages
  BY <1>1 DEF Pos
<1> QED BY <1>2, Words

\* The stages in hand are stages, one or two of them.
LEMMA NowOK ==
  ASSUME RunOK, run.i <= Len(run.list)
  PROVE /\ At \in Stages /\ Now \subseteq Stages
        /\ IsFiniteSet(Now) /\ Cardinality(Now) \in Nat
<1>1. run.list \in Seq(Stages) /\ run.i \in Pos
  BY ListsOfStages DEF RunOK, Runner
<1>2. At \in Stages
  BY <1>1 DEF At, Pos
<1>3. Now \subseteq Stages
  BY <1>2 DEF Now, Stages
<1>4. IsFiniteSet(Now)
  <2>1. IsFiniteSet({At}) /\ IsFiniteSet({"tester"})
    BY FS_Singleton
  <2>2. IsFiniteSet({"tester"} \cup {"security"})
    BY <2>1, FS_AddElement
  <2>3. {"tester"} \cup {"security"} = {"tester", "security"}
    OBVIOUS
  <2> QED BY <2>1, <2>2, <2>3 DEF Now
<1> QED BY <1>2, <1>3, <1>4, FS_CardinalityType

\* What is left alone, and what only changes the runner or the folder's words, stays typed.
LEMMA MovesOn ==
  ASSUME TypeInv
  PROVE /\ \A how \in Endings : Ends(how) => RunOK' /\ Placed'
        /\ \A pc \in Counters \ {"off"} : run.up /\ pc \notin Working /\ Goes(pc) => RunOK' /\ Placed'
        /\ \A dest \in Buckets : run.up /\ Parks(dest) => RunOK' /\ Placed'
        /\ UNCHANGED run => RunOK' /\ Placed'
        /\ UNCHANGED disk => DiskOK'
        /\ UNCHANGED files => FilesOK'
<1>1. RunOK
  BY DEF TypeInv, TypeOK
<1>2. ASSUME NEW how \in Endings, Ends(how) PROVE RunOK' /\ Placed'
  <2>1. run'.pc = "off"
    BY <1>2, IdleOK DEF Ends, Runner
  <2> QED BY <1>1, <1>2, <2>1, EndsOK DEF Placed, Working
<1>3. ASSUME NEW pc \in Counters \ {"off"}, run.up, pc \notin Working, Goes(pc)
      PROVE RunOK' /\ Placed'
  <2>1. run'.pc = pc
    BY <1>1, <1>3 DEF Goes, RunOK, Runner
  <2> QED BY <1>1, <1>3, <2>1, GoesOK DEF Placed
<1>4. ASSUME NEW dest \in Buckets, run.up, Parks(dest) PROVE RunOK' /\ Placed'
  <2>1. run'.pc = "move"
    BY <1>1, <1>4 DEF Parks, RunOK, Runner
  <2> QED BY <1>1, <1>4, <2>1, ParksOK DEF Placed, Working
<1>5. UNCHANGED run => RunOK' /\ Placed'
  BY <1>1 DEF TypeInv, Placed, RunOK
<1>6. UNCHANGED disk => DiskOK'
  BY DEF TypeInv, TypeOK, DiskOK
<1>7. UNCHANGED files => FilesOK'
  BY DEF TypeInv, TypeOK, FilesOK
<1> QED BY <1>2, <1>3, <1>4, <1>5, <1>6, <1>7

\* The cap of a new runner.
LEMMA CapOK ==
  ASSUME DiskOK
  PROVE (IF disk.rounds > 0 THEN disk.rounds ELSE IterationCap[disk.tier]) \in Pos
BY CapsAssumption DEF DiskOK, Folder, Pos

LEMMA StartTyped == ASSUME TypeInv, RunnerStart PROVE TypeInv'
<1> DEFINE cap == IF disk.rounds > 0 THEN disk.rounds ELSE IterationCap[disk.tier]
           again == run.managed \/ disk.stage # "received"
<1>1. DiskOK /\ RunOK /\ FilesOK
  BY DEF TypeInv, TypeOK
<1>2. cap \in Pos /\ again \in BOOLEAN
  BY <1>1, CapOK
<1>3. disk.tier \in AllTiers /\ disk.cost \in Nat /\ run.starts + 1 \in Nat
  BY <1>1 DEF DiskOK, Folder, RunOK, Runner
<1>4. Menu(disk.tier) \in Lists /\ Menu(disk.tier)[1] \in Recorded
  BY <1>3, ListsOK, FirstStage
<1>5. run' = [Idle EXCEPT !.up = TRUE, !.pc = "scan", !.tier = disk.tier, !.list = Menu(disk.tier),
                          !.cap = cap, !.cost = disk.cost, !.starts = run.starts + 1,
                          !.managed = again]
  BY DEF RunnerStart
<1> HIDE DEF cap, again
<1>6. RunOK' /\ Placed'
  <2>1. run' \in Runner /\ run'.up /\ run'.pc = "scan"
    BY ZenonT(60), <1>2, <1>3, <1>4, <1>5, IdleOK, Words DEF Runner
  <2> QED BY <2>1 DEF RunOK, Placed, Working
<1>7. DiskOK'
  BY <1>1, <1>4 DEF RunnerStart, DiskOK, Folder
<1>8. FilesOK'
  BY <1>1 DEF RunnerStart, FilesOK
<1> QED BY <1>6, <1>7, <1>8 DEF TypeInv, TypeOK

LEMMA DiesTyped == ASSUME TypeInv, RunnerDies PROVE TypeInv'
<1>1. RunOK' /\ Placed' /\ DiskOK'
  BY MovesOn, Words DEF RunnerDies
<1>2. FilesOK'
  <2>1. CASE run.pc = "child"
    <3>1. Now \subseteq Stages
      BY <2>1, NowOK DEF TypeInv, TypeOK, Placed, Working
    <3>2. PICK ws \in SUBSET Now : files' \in Written(ws)
      BY <2>1 DEF RunnerDies
    <3> QED BY <3>1, <3>2, WrittenOK DEF TypeInv, TypeOK, FilesOK
  <2>2. CASE run.pc # "child"
    BY <2>2, MovesOn DEF RunnerDies
  <2> QED BY <2>1, <2>2
<1> QED BY <1>1, <1>2 DEF TypeInv, TypeOK

\* A person, the sweep or [Continue] changes a folder that no runner has in hand.
LEMMA HandsTyped ==
  ASSUME TypeInv, SweptAway \/ Continued \/ \E answers \in BOOLEAN : Requeued(answers)
  PROVE TypeInv'
<1>1. DiskOK /\ RunOK /\ FilesOK /\ Placed
  BY DEF TypeInv, TypeOK
<1>2. CASE SweptAway
  <2>1. DiskOK'
    BY <1>1, <1>2, Words DEF SweptAway, DiskOK, Folder
  <2> QED BY <1>2, <2>1, MovesOn DEF SweptAway, TypeInv, TypeOK
<1>3. CASE Continued
  <2> DEFINE rounds == (IF disk.rounds > 0 THEN disk.rounds ELSE IterationCap["none"]) + 1
  <2>1. rounds \in Nat /\ disk.budget + CostBump \in Nat
    BY <1>1, CapsAssumption, Words DEF DiskOK, Folder
  <2>2. disk' = [disk EXCEPT !.dir = "active", !.stage = "received", !.budget = disk.budget + CostBump,
                             !.rounds = rounds]
    BY <1>1, <1>3 DEF Continued, DiskOK, Folder
  <2> HIDE DEF rounds
  <2>3. DiskOK'
    BY <1>1, <2>1, <2>2, Words DEF DiskOK, Folder
  <2>4. RunOK' /\ Placed'
    BY ZenonT(60), <1>1, <1>3, Words DEF Continued, RunOK, Runner, Placed
  <2> QED BY <1>3, <2>3, <2>4, MovesOn DEF Continued, TypeInv, TypeOK
<1>4. ASSUME NEW answers \in BOOLEAN, Requeued(answers) PROVE TypeInv'
  <2>1. DiskOK'
    BY <1>1, <1>4, Words DEF Requeued, DiskOK, Folder
  <2>2. RunOK' /\ Placed'
    BY ZenonT(60), <1>1, <1>4, Words DEF Requeued, RunOK, Runner, Placed
  <2>3. FilesOK'
    BY <1>1, <1>4 DEF Requeued, FilesOK, Texts
  <2> QED BY <2>1, <2>2, <2>3 DEF TypeInv, TypeOK
<1> QED BY <1>2, <1>3, <1>4

LEMMA WalkTyped ==
  ASSUME TypeInv, StageSkipped \/ StageBegins \/ StageRefused
  PROVE TypeInv'
<1>1. DiskOK /\ RunOK /\ FilesOK /\ Placed
  BY DEF TypeInv, TypeOK
<1>2. CASE StageSkipped
  <2>1. DiskOK'
    BY <1>1, <1>2, NowOK DEF StageSkipped, DiskOK, Folder, FilesOK, Texts
  <2>2. RunOK' /\ Placed'
    <3>1. run.i + 1 \in Pos /\ run' = [run EXCEPT !.i = run.i + 1] /\ run.up /\ run.pc = "scan"
      BY <1>1, <1>2 DEF StageSkipped, Running, RunOK, Runner, Pos
    <3>2. run' \in Runner /\ run'.up /\ run'.pc = "scan"
      BY <1>1, <3>1 DEF RunOK, Runner
    <3> QED BY <3>2 DEF RunOK, Placed, Working
  <2> QED BY <1>2, <2>1, <2>2, MovesOn DEF StageSkipped, TypeInv, TypeOK
<1>3. CASE StageBegins
  <2>1. DiskOK'
    BY <1>1, <1>3, NowOK, Words DEF StageBegins, Due, DiskOK, Folder
  <2>2. RunOK' /\ Placed'
    <3>1. "child" \in Counters /\ "child" # "off" /\ run.i <= Len(run.list) /\ run.up
      BY <1>3, Words DEF StageBegins, Due, Running
    <3>2. Now \in SUBSET Stages
      BY <1>1, <3>1, NowOK
    <3>3. run' = [run EXCEPT !.pc = "child", !.begun = TRUE, !.left = Now]
      BY <1>3 DEF StageBegins
    <3>4. Now \in SUBSET Stages => run' \in Runner
      BY <1>1, <3>1, <3>3 DEF RunOK, Runner
    <3> QED BY <1>1, <3>1, <3>2, <3>3, <3>4 DEF RunOK, Runner, Placed
  <2> QED BY <1>3, <2>1, <2>2, MovesOn DEF StageBegins, TypeInv, TypeOK
<1>4. CASE StageRefused
  <2>1. DiskOK'
    BY <1>1, <1>4, Words DEF StageRefused, DiskOK, Folder
  <2>2. RunOK' /\ Placed'
    BY <1>1, <1>4, Words DEF StageRefused, Running, RunOK, Runner, Placed, Working
  <2> QED BY <1>4, <2>1, <2>2, MovesOn DEF StageRefused, TypeInv, TypeOK
<1> QED BY <1>2, <1>3, <1>4

LEMMA StructuredOK ==
  ASSUME NEW f \in Texts, Now \subseteq Stages PROVE Structured(f) \in Texts
<1>1. \A s \in Stages : Artifact(s) \in Artifacts
  BY DEF Artifact, Artifacts, Stages
<1>2. f.json \cup {Artifact(s) : s \in Now} \in SUBSET Artifacts
  BY <1>1 DEF Texts
<1> QED BY <1>2 DEF Structured, Texts

\* What a bill changes, and what it leaves alone.
LEMMA Billed ==
  ASSUME TypeInv, NEW s \in Stages, NEW c \in Nat, Bill(s, c)
  PROVE /\ disk' \in Folder /\ run' \in Runner
        /\ disk'.cost = run.cost + run.own[s] + c
        /\ UNCHANGED <<disk.dir, disk.stage, disk.iter, disk.tier, disk.lock, disk.budget>>
        /\ run'.own = [run.own EXCEPT ![s] = @ + c] /\ run'.left = run.left \ {s}
        /\ UNCHANGED <<run.up, run.pc, run.tier, run.list, run.i, run.hot, run.cap, run.cost,
                       run.tries, run.rc, run.why, run.dest, run.begun>>
<1> DEFINE sum == run.cost + run.own[s] + c
           own == [run.own EXCEPT ![s] = @ + c]
           left == run.left \ {s}
<1>1. run \in Runner /\ disk \in Folder
  BY DEF TypeInv, TypeOK, DiskOK, RunOK
<1>2. run.own \in [Stages -> Nat] /\ run.cost \in Nat /\ run.left \subseteq Stages
  BY <1>1 DEF Runner
<1>3. sum \in Nat /\ own \in [Stages -> Nat] /\ left \in SUBSET Stages
  BY <1>2
<1>4. disk' = [disk EXCEPT !.cost = sum] /\ run' = [run EXCEPT !.own = own, !.left = left]
  BY <1>1 DEF Bill, Runner
<1> HIDE DEF sum, own, left
<1>5. disk' \in Folder /\ disk'.cost = sum
      /\ UNCHANGED <<disk.dir, disk.stage, disk.iter, disk.tier, disk.lock, disk.budget>>
  BY <1>1, <1>3, <1>4 DEF Folder
<1>6. run' \in Runner /\ run'.own = own /\ run'.left = left
      /\ UNCHANGED <<run.up, run.pc, run.tier, run.list, run.i, run.hot, run.cap, run.cost,
                     run.tries, run.rc, run.why, run.dest, run.begun>>
  BY <1>1, <1>3, <1>4 DEF Runner
<1> QED BY <1>5, <1>6 DEF sum, own, left

\* A stage is counted while it, or its sibling, is in hand.
Counts(s) == FirstCounted(s) \/ StageCounted(s)

LEMMA CountsOne ==
  ASSUME TypeInv, NEW s \in Stages, Counts(s)
  PROVE /\ run.up /\ run.pc \in {"child", "account"} /\ s \in run.left
        /\ run.pc = "child" => FirstCounted(s) /\ At = "tester"
        /\ run.pc = "account" => UNCHANGED files
        /\ \E c \in Nat : Bill(s, c)
<1>1. CASE FirstCounted(s)
  <2>1. run.up /\ run.pc = "child" /\ At = "tester" /\ s \in run.left
    BY <1>1 DEF FirstCounted, Running
  <2>2. \E c \in 0..1 : Bill(s, c)
    BY <1>1 DEF FirstCounted
  <2> QED BY <1>1, <2>1, <2>2
<1>2. CASE StageCounted(s)
  BY <1>2 DEF StageCounted, Running, Charge
<1> QED BY <1>1, <1>2 DEF Counts

\* What a join changes.
LEMMA Joining ==
  ASSUME TypeInv, Joined
  PROVE /\ run.up /\ run.pc \in {"account", "join"} /\ Owed \in Nat /\ UNCHANGED files
        /\ disk' \in Folder /\ disk'.cost = run.cost + Owed
        /\ UNCHANGED <<disk.dir, disk.stage, disk.iter, disk.tier, disk.lock, disk.budget>>
        /\ \/ Ends("exit")
           \/ /\ run' \in Runner /\ run'.pc \in {"checks", "handoff"}
              /\ run'.pc = "checks" => (run.pc = "account" /\ run.rc = "ok") \/ At = "tester"
              /\ run'.cost = run.cost + Owed /\ run'.own = NoBills /\ run'.tries = 0
              /\ UNCHANGED <<run.up, run.tier, run.list, run.i, run.hot, run.cap, run.left, run.why,
                             run.begun>>
<1> DEFINE sum == run.cost + Owed
           pc == IF run.pc = "account" \/ (At = "tester" /\ sum > disk.budget) THEN "checks" ELSE "handoff"
<1>1. run \in Runner /\ disk \in Folder
  BY DEF TypeInv, TypeOK, DiskOK, RunOK
<1>2. run.up /\ run.pc \in {"account", "join"}
  BY DEF Joined, Counted, Running
<1>3. Owed \in Nat
  <2>1. At \in Stages
    BY <1>2, NowOK DEF TypeInv, TypeOK, Placed, Working
  <2>2. run.own \in [Stages -> Nat] /\ "security" \in Stages
    BY <1>1 DEF Runner, Stages
  <2> QED BY <2>1, <2>2 DEF Owed
<1>4. sum \in Nat /\ pc \in Counters /\ pc \in {"checks", "handoff"}
      /\ (pc = "checks" => run.pc = "account" \/ At = "tester")
  BY <1>1, <1>3, Words DEF Runner
<1>5. disk' = [disk EXCEPT !.cost = sum]
  BY DEF Joined
<1>6. Ends("exit") \/ run' = [run EXCEPT !.cost = sum, !.own = NoBills, !.tries = 0, !.rc = "ok", !.pc = pc]
  BY DEF Joined
<1>7. UNCHANGED files /\ (run.pc = "account" => run.rc = "ok")
  BY DEF Joined, Counted, Running
<1> HIDE DEF sum, pc
<1>8. disk' \in Folder /\ disk'.cost = sum
      /\ UNCHANGED <<disk.dir, disk.stage, disk.iter, disk.tier, disk.lock, disk.budget>>
  BY <1>1, <1>4, <1>5 DEF Folder
<1>9. \/ Ends("exit")
      \/ /\ run' \in Runner /\ run'.pc = pc
         /\ run'.cost = sum /\ run'.own = NoBills /\ run'.tries = 0
         /\ UNCHANGED <<run.up, run.tier, run.list, run.i, run.hot, run.cap, run.left, run.why,
                        run.begun>>
  <2>1. CASE run' = [run EXCEPT !.cost = sum, !.own = NoBills, !.tries = 0, !.rc = "ok", !.pc = pc]
    <3>1. NoBills \in [Stages -> Nat] /\ "ok" \in Rcs /\ 0 \in Nat
      BY Words DEF NoBills
    <3> QED BY <1>1, <1>4, <2>1, <3>1 DEF Runner
  <2> QED BY <1>6, <2>1
<1>10. sum = run.cost + Owed
  BY DEF sum
<1> QED BY <1>2, <1>3, <1>4, <1>7, <1>8, <1>9, <1>10

\* Attempts at a stage and what they cost.
LEMMA ReturnTyped == ASSUME TypeInv, StageReturns PROVE TypeInv'
<1>1. DiskOK /\ RunOK /\ FilesOK /\ Placed
  BY DEF TypeInv, TypeOK
<1>2. Now \subseteq Stages /\ IsFiniteSet(Now)
  BY <1>1, NowOK DEF StageReturns, Running, Placed, Working
<1>3. PICK rc \in Rcs, ws \in SUBSET Now, known \in BOOLEAN : \E f \in Written(ws) :
        /\ files' = IF rc \in {"ok", "violation"} THEN Structured(f) ELSE f
        /\ disk' = [disk EXCEPT !.lock = @ \/ (rc = "ok" /\ Coding(Now) /\ known)]
        /\ run' = [run EXCEPT !.pc = "account", !.rc = rc]
  BY ZenonT(60) DEF StageReturns
<1>4. FilesOK'
  BY <1>1, <1>2, <1>3, WrittenOK, StructuredOK DEF FilesOK
<1>5. DiskOK'
  BY <1>1, <1>3 DEF DiskOK, Folder, Coding
<1>6. RunOK' /\ Placed'
  <2>1. "account" \in Counters /\ "account" # "off" /\ run.up
    BY Words DEF StageReturns, Running
  <2>2. run.i <= Len(run.list)
    BY <1>1 DEF StageReturns, Running, Placed, Working
  <2> QED BY <1>1, <1>3, <2>1, <2>2 DEF RunOK, Runner, Placed
<1> QED BY <1>4, <1>5, <1>6 DEF TypeInv, TypeOK

LEMMA CountTyped == ASSUME TypeInv, NEW s \in Stages, Counts(s) PROVE TypeInv'
<1>1. DiskOK /\ RunOK /\ FilesOK /\ Placed
  BY DEF TypeInv, TypeOK
<1>2. PICK c \in Nat : Bill(s, c)
  BY CountsOne
<1>3. /\ disk' \in Folder /\ run' \in Runner
      /\ run'.up = run.up /\ run'.pc = run.pc /\ run'.list = run.list /\ run'.i = run.i
  BY <1>2, Billed
<1>4. DiskOK' /\ RunOK' /\ Placed'
  BY <1>1, <1>3 DEF DiskOK, RunOK, Placed
<1>5. FilesOK'
  <2>1. CASE run.pc = "account"
    BY <2>1, CountsOne, MovesOn
  <2>2. CASE run.pc = "child"
    <3>1. FirstCounted(s)
      BY <2>2, CountsOne
    <3>2. PICK ws \in SUBSET {s} : \E f \in Written(ws) :
            s \in f.md /\ files' = [f EXCEPT !.json = @ \cup {s}]
      BY <3>1 DEF FirstCounted
    <3>3. PICK f \in Texts : s \in f.md /\ files' = [f EXCEPT !.json = @ \cup {s}]
      BY <1>1, <3>2, WrittenOK
    <3> QED BY <3>3 DEF FilesOK, Texts
  <2> QED BY <2>1, <2>2, CountsOne
<1> QED BY <1>4, <1>5 DEF TypeInv, TypeOK

LEMMA JoinTyped == ASSUME TypeInv, Joined PROVE TypeInv'
<1>1. RunOK /\ Placed
  BY DEF TypeInv, TypeOK
<1>2. DiskOK' /\ FilesOK'
  BY Joining, MovesOn DEF DiskOK
<1>3. RunOK' /\ Placed'
  <2>1. CASE Ends("exit")
    BY <2>1, MovesOn, Words
  <2>2. CASE ~Ends("exit")
    BY <1>1, <2>2, Joining DEF RunOK, Placed, Working
  <2> QED BY <2>1, <2>2
<1> QED BY <1>2, <1>3 DEF TypeInv, TypeOK

LEMMA FailureTyped ==
  ASSUME TypeInv, LimitsParked \/ StageRetried \/ StageFailed
  PROVE TypeInv'
<1>1. DiskOK /\ RunOK /\ FilesOK /\ Placed
  BY DEF TypeInv, TypeOK
<1>2. CASE LimitsParked
  <2>1. DiskOK'
    BY <1>1, <1>2, Words DEF LimitsParked, DiskOK, Folder
  <2> QED BY <1>2, <2>1, MovesOn, Words DEF LimitsParked, Running, TypeInv, TypeOK
<1>3. CASE StageRetried
  <2>1. RunOK' /\ Placed'
    <3>1. "child" \in Counters /\ "child" # "off" /\ run.i <= Len(run.list) /\ run.up
      BY <1>1, <1>3, Words DEF StageRetried, Counted, Running, Placed, Working
    <3>2. run.tries + 1 \in Nat
      BY <1>1 DEF RunOK, Runner
    <3>3. PICK again \in SUBSET Now :
            run' = [run EXCEPT !.pc = "child", !.tries = run.tries + 1, !.left = again]
      BY <1>1, <1>3 DEF StageRetried, RunOK, Runner
    <3>4. again \in SUBSET Stages
      BY <1>1, <3>1, <3>3, NowOK
    <3>5. run' \in Runner /\ run'.up /\ run'.pc = "child" /\ run'.i = run.i /\ run'.list = run.list
      BY <1>1, <3>1, <3>2, <3>3, <3>4 DEF RunOK, Runner
    <3> QED BY <3>1, <3>5 DEF RunOK, Placed
  <2> QED BY <1>3, <2>1, MovesOn DEF StageRetried, TypeInv, TypeOK
<1>4. CASE StageFailed
  <2>1. DiskOK'
    BY <1>1, <1>4, Words DEF StageFailed, DiskOK, Folder
  <2>2. "join" \in Counters /\ "join" # "off" /\ run.i <= Len(run.list) /\ run.up
    BY <1>1, <1>4, Words DEF StageFailed, Counted, Running, Placed, Working
  <2>3. run' = [run EXCEPT !.pc = "join"]
    BY <1>4 DEF StageFailed, Goes
  <2>4. RunOK' /\ Placed'
    BY <1>1, <2>2, <2>3 DEF RunOK, Runner, Placed
  <2> QED BY <1>4, <2>1, <2>4, MovesOn DEF StageFailed, TypeInv, TypeOK
<1> QED BY <1>2, <1>3, <1>4

LEMMA ChecksTyped ==
  ASSUME TypeInv, CapStopped \/ ClarifyPaused \/ GateBlocked \/ StagePassed
  PROVE TypeInv'
<1>1. DiskOK /\ RunOK /\ FilesOK /\ Placed
  BY DEF TypeInv, TypeOK
<1>2. FilesOK'
  BY <1>1 DEF CapStopped, ClarifyPaused, GateBlocked, StagePassed, Canonical, FilesOK, Texts
<1>3. CASE CapStopped \/ ClarifyPaused
  <2>1. DiskOK'
    BY <1>1, <1>3, Words DEF CapStopped, ClarifyPaused, DiskOK, Folder
  <2> QED BY <1>2, <1>3, <2>1, MovesOn, Words
          DEF CapStopped, ClarifyPaused, Running, TypeInv, TypeOK
<1>4. CASE GateBlocked
  <2>1. DiskOK'
    BY <1>1, <1>4, Words DEF GateBlocked, DiskOK, Folder
  <2>2. "handoff" \in Counters /\ "handoff" # "off" /\ "handoff" \notin Working
    BY Words DEF Working
  <2> QED BY <1>2, <1>4, <2>1, <2>2, MovesOn DEF GateBlocked, Running, TypeInv, TypeOK
<1>5. CASE StagePassed
  <2>1. Cardinality(Now) \in Nat
    BY <1>1, <1>5, NowOK DEF StagePassed, Running, Placed, Working
  <2>2. run.i + Cardinality(Now) \in Pos
    BY <1>1, <2>1 DEF RunOK, Runner, Pos
  <2>3. RunOK' /\ Placed'
    BY ZenonT(60), <1>1, <1>5, <2>2, Words DEF StagePassed, Running, RunOK, Runner, Placed, Working
  <2> QED BY <1>2, <1>5, <2>3, MovesOn DEF StagePassed, TypeInv, TypeOK
<1> QED BY <1>3, <1>4, <1>5

LEMMA NotedOK ==
  ASSUME NEW trend \in Seq(0..MaxCritical), NEW c \in 0..MaxCritical
  PROVE Noted(trend, c) \in Seq(0..MaxCritical)
<1> DEFINE longer == Append(trend, c)
<1>1. longer \in Seq(0..MaxCritical) /\ Len(longer) \in Nat
  OBVIOUS
<1> HIDE DEF longer
<1>2. Len(longer) > 3 => Tail(longer) \in Seq(0..MaxCritical)
  <2>1. Len(longer) > 3 => longer # << >>
    BY <1>1
  <2> QED BY <1>1, <2>1, HeadTailProperties
<1> QED BY <1>1, <1>2 DEF Noted, longer

LEMMA DecisionTyped == Decision \in Reasons
  BY Words DEF Decision, Judgement

LEMMA NextTierOK ==
  ASSUME NEW tier \in AllTiers
  PROVE NextTier(tier) \in AllTiers /\ IterationCap[tier] \in Pos
  BY CapsAssumption DEF NextTier, AllTiers, Pos

\* How a runner ends, or goes round once more.
LEMMA EndTyped ==
  ASSUME TypeInv, HandedOff \/ Moved \/ Decided \/ HotfixBegins \/ TierUpgraded \/ Approved
                  \/ StoppedForDecision
  PROVE TypeInv'
<1>1. DiskOK /\ RunOK /\ FilesOK /\ Placed
  BY DEF TypeInv, TypeOK
<1>2. CASE HandedOff
  <2>1. PICK work \in BOOLEAN :
          LET bucket == IF disk.lock \/ work THEN "awaiting-input" ELSE "failed" IN
          disk' = [disk EXCEPT !.stage = bucket] /\ Parks(bucket)
    BY <1>2 DEF HandedOff
  <2> DEFINE bucket == IF disk.lock \/ work THEN "awaiting-input" ELSE "failed"
  <2>2. bucket \in Buckets /\ bucket \in Recorded
    BY Words
  <2>3. disk' = [disk EXCEPT !.stage = bucket] /\ Parks(bucket)
    BY <2>1
  <2> HIDE DEF bucket
  <2>4. DiskOK'
    BY <1>1, <2>2, <2>3 DEF DiskOK, Folder
  <2> QED BY <1>2, <2>2, <2>3, <2>4, MovesOn DEF HandedOff, Running, TypeInv, TypeOK
<1>3. CASE Moved
  <2>1. DiskOK'
    BY <1>1, <1>3 DEF Moved, DiskOK, Folder, RunOK, Runner
  <2> QED BY <1>3, <2>1, MovesOn, Words DEF Moved, TypeInv, TypeOK
<1>4. CASE Decided
  <2>1. files.review.critical \in 0..MaxCritical
    BY <1>1 DEF FilesOK, Texts, Verdicts
  <2>2. DiskOK'
    <3>1. Noted(disk.trend, files.review.critical) \in Seq(0..MaxCritical)
      BY <1>1, <2>1, NotedOK DEF DiskOK, Folder
    <3> DEFINE noted == Noted(disk.trend, files.review.critical)
    <3>2. disk' = disk \/ disk' = [disk EXCEPT !.trend = noted, !.trendIter = disk.iter]
      BY <1>4 DEF Decided
    <3>3. noted \in Seq(0..MaxCritical)
      BY <3>1
    <3> HIDE DEF noted
    <3> QED BY <1>1, <3>2, <3>3 DEF DiskOK, Folder
  <2>3. run' = [run EXCEPT !.pc = "decided", !.why = Decision] /\ run.up
    BY <1>4 DEF Decided, Running
  <2>4. RunOK' /\ Placed'
    BY ZenonT(60), <1>1, <2>3, DecisionTyped, Words DEF RunOK, Runner, Placed, Working
  <2> QED BY <1>4, <2>2, <2>4, MovesOn DEF Decided, TypeInv, TypeOK
<1>5. CASE HotfixBegins
  <2>1. DiskOK'
    BY <1>1, <1>5 DEF HotfixBegins, DiskOK, Folder
  <2>2. RunOK' /\ Placed'
    <3>1. run.up /\ "scan" \in Counters /\ 1 \in Pos
      BY <1>5, Words DEF HotfixBegins, Running, Pos
    <3> QED BY <1>1, <1>5, <3>1, ListsOK DEF HotfixBegins, RunOK, Runner, Placed, Working
  <2> QED BY <1>5, <2>1, <2>2, MovesOn DEF HotfixBegins, TypeInv, TypeOK
<1>6. CASE TierUpgraded
  <2> DEFINE tier == NextTier(run.tier)
             cap == IF run.cap < IterationCap[tier] THEN IterationCap[tier] ELSE run.cap
  <2>1. tier \in AllTiers /\ IterationCap[tier] \in Pos
    BY <1>1, NextTierOK DEF RunOK, Runner
  <2>2. cap \in Pos
    BY <1>1, <2>1 DEF RunOK, Runner
  <2>3. run' = [run EXCEPT !.pc = "scan", !.tier = tier, !.cap = cap] /\ run.up
    BY <1>1, <1>6 DEF TierUpgraded, Running, RunOK, Runner
  <2> HIDE DEF tier, cap
  <2>4. RunOK' /\ Placed'
    BY ZenonT(60), <1>1, <2>1, <2>2, <2>3, Words DEF RunOK, Runner, Placed, Working
  <2> QED BY <1>6, <2>4, MovesOn DEF TierUpgraded, TypeInv, TypeOK
<1>7. CASE Approved
  <2>1. DiskOK'
    BY <1>1, <1>7, Words DEF Approved, DiskOK, Folder
  <2> QED BY <1>7, <2>1, MovesOn, Words DEF Approved, TypeInv, TypeOK
<1>8. CASE StoppedForDecision
  <2>1. DiskOK'
    BY <1>1, <1>8, Words DEF StoppedForDecision, DiskOK, Folder
  <2> QED BY <1>8, <2>1, MovesOn, Words DEF StoppedForDecision, Running, TypeInv, TypeOK
<1> QED BY <1>2, <1>3, <1>4, <1>5, <1>6, <1>7, <1>8

LEMMA InitTyped == ASSUME Init PROVE TypeInv
<1>1. PICK tier \in Tiers, brief \in {"clean", "none"} :
        /\ disk = [dir |-> "active", stage |-> "received", iter |-> 0, cost |-> 0, trend |-> <<>>,
                   trendIter |-> 0, tier |-> tier, lock |-> FALSE, budget |-> CostCap, rounds |-> 0,
                   offered |-> FALSE]
        /\ files = [md |-> {}, json |-> {}, brief |-> "none", canon |-> brief, answered |-> FALSE,
                    named |-> FALSE, text |-> NoVerdict, review |-> NoVerdict]
        /\ run = Idle
  BY DEF Init
<1>2. tier \in AllTiers /\ brief \in Briefs /\ "none" \in Briefs
  BY CapsAssumption, Words
<1>3. DiskOK
  <2>1. <<>> \in Seq(0..MaxCritical) /\ 0 \in Nat /\ CostCap \in Nat
    BY CapsAssumption
  <2> QED BY <1>1, <1>2, <2>1, Words DEF DiskOK, Folder
<1>4. FilesOK
  <2>1. NoVerdict \in Verdicts
    BY CapsAssumption DEF NoVerdict, Verdicts
  <2> QED BY <1>1, <1>2, <2>1 DEF FilesOK, Texts
<1>5. RunOK /\ Placed
  BY <1>1, IdleOK DEF RunOK, Placed, Working
<1> QED BY <1>3, <1>4, <1>5 DEF TypeInv, TypeOK

LEMMA NextTyped == ASSUME TypeInv, [Next]_vars PROVE TypeInv'
<1>1. CASE UNCHANGED vars
  BY <1>1, MovesOn DEF vars, TypeInv, TypeOK
<1> QED BY <1>1, StartTyped, DiesTyped, HandsTyped, WalkTyped, ReturnTyped, CountTyped, JoinTyped,
           FailureTyped, ChecksTyped, EndTyped DEF Next, Pipeline, Counts

\* Every folder, artifact and runner is of its type, and a runner with a stage in hand
\* is at a stage of its list.
THEOREM RunnerTypeCorrect == Spec => []TypeOK
<1>1. Init => TypeInv
  BY InitTyped
<1>2. TypeInv /\ [Next]_vars => TypeInv'
  BY NextTyped
<1>3. TypeInv => TypeOK
  BY DEF TypeInv
<1> QED BY <1>1, <1>2, <1>3, PTL DEF Spec

----------------------------------------------------------------------------
(* Rounds *)

\* The rounds so far are within the cap, and below it where another one is decided.
RoundsInv ==
  run.up => /\ disk.iter <= run.cap
            /\ run.pc = "decided" /\ run.why = "request_changes" => disk.iter < run.cap

LEMMA RoundsStep == ASSUME TypeInv, RoundsInv, [Next]_vars PROVE RoundsInv'
<1>1. run \in Runner /\ disk \in Folder
  BY DEF TypeInv, TypeOK, DiskOK, RunOK
<1>2. CASE StageSkipped
  BY <1>1, <1>2 DEF StageSkipped, RoundsInv, Running, Runner, Folder
<1>3. CASE StageBegins
  BY <1>1, <1>3 DEF StageBegins, RoundsInv, Running, Runner, Folder
<1>4. CASE StageRefused
  BY <1>1, <1>4 DEF StageRefused, RoundsInv, Running, Runner, Folder
<1>5. CASE StageReturns
  BY <1>1, <1>5 DEF StageReturns, RoundsInv, Running, Runner, Folder
<1>6. ASSUME NEW s \in Stages, Counts(s) PROVE RoundsInv'
  BY <1>1, <1>6, CountsOne, Billed DEF RoundsInv
<1>7. CASE LimitsParked
  BY <1>1, <1>7 DEF LimitsParked, RoundsInv, Running, Parks, Runner, Folder
<1>8. CASE StageRetried
  BY <1>1, <1>8 DEF StageRetried, RoundsInv, Counted, Running, Runner, Folder
<1>9. CASE StageFailed
  BY <1>1, <1>9 DEF StageFailed, RoundsInv, Counted, Running, Goes, Runner, Folder
<1>27. CASE Joined
  <2>1. CASE Ends("exit")
    BY <2>1, IdleOK DEF RoundsInv, Ends, Runner
  <2>2. CASE ~Ends("exit")
    BY <1>27, <2>2, Joining DEF RoundsInv
  <2> QED BY <2>1, <2>2
<1>10. CASE CapStopped
  BY <1>1, <1>10 DEF CapStopped, RoundsInv, Running, Parks, Runner, Folder
<1>11. CASE ClarifyPaused
  BY <1>1, <1>11 DEF ClarifyPaused, RoundsInv, Running, Parks, Runner, Folder
<1>12. CASE GateBlocked
  BY <1>1, <1>12 DEF GateBlocked, RoundsInv, Running, Goes, Runner, Folder
<1>13. CASE StagePassed
  BY <1>1, <1>13 DEF StagePassed, RoundsInv, Running, Runner, Folder
<1>14. CASE HandedOff
  BY <1>1, <1>14 DEF HandedOff, RoundsInv, Running, Parks, Runner, Folder
<1>15. CASE Moved
  BY <1>1, <1>15 DEF Moved, RoundsInv, Running, Ends, Idle, Runner, Folder
<1>16. CASE Decided
  <2>1. run.up /\ run'.why = Decision /\ run'.cap = run.cap /\ disk'.iter = disk.iter
    BY <1>1, <1>16 DEF Decided, Running, Runner, Folder
  <2>2. Decision = "request_changes" => ~(disk.iter >= run.cap)
    BY DEF Decision, Judgement
  <2>3. disk.iter \in Nat /\ run.cap \in Nat
    BY <1>1 DEF Runner, Folder, Pos
  <2> QED BY <2>1, <2>2, <2>3 DEF RoundsInv
<1>17. CASE HotfixBegins
  <2>1. disk.iter < run.cap /\ disk.iter \in Nat /\ run.cap \in Nat
    BY <1>1, <1>17 DEF HotfixBegins, RoundsInv, Running, Runner, Folder, Pos
  <2>2. disk'.iter = disk.iter + 1 /\ run'.cap = run.cap /\ run'.pc = "scan"
    BY <1>1, <1>17 DEF HotfixBegins, Runner, Folder
  <2> QED BY <2>1, <2>2 DEF RoundsInv
<1>18. CASE TierUpgraded
  <2>1. run.cap \in Nat /\ disk.iter \in Nat /\ IterationCap[NextTier(run.tier)] \in Nat
    BY <1>1, NextTierOK DEF Runner, Folder, Pos
  <2>2. run'.cap >= run.cap /\ run'.pc = "scan" /\ run.up /\ disk'.iter = disk.iter
    BY <1>1, <1>18, <2>1 DEF TierUpgraded, Running, Runner, Folder
  <2>3. run'.cap \in Nat
    BY <1>1, <1>18, <2>1 DEF TierUpgraded, Runner
  <2> QED BY <2>1, <2>2, <2>3 DEF RoundsInv
<1>19. CASE Approved
  BY <1>1, <1>19 DEF Approved, RoundsInv, Running, Ends, Idle, Runner, Folder
<1>20. CASE StoppedForDecision
  BY <1>1, <1>20 DEF StoppedForDecision, RoundsInv, Running, Parks, Runner, Folder
<1>21. CASE RunnerStart
  <2>1. run'.up /\ run'.pc = "scan" /\ run'.cap \in Pos /\ disk'.iter = 1
    BY <1>1, <1>21, CapOK DEF RunnerStart, Idle, DiskOK, Folder
  <2> QED BY <2>1 DEF RoundsInv, Pos
<1>22. CASE RunnerDies
  BY <1>1, <1>22 DEF RunnerDies, RoundsInv, Running, Ends, Idle, Runner, Folder
<1>23. CASE Continued
  BY <1>1, <1>23 DEF Continued, RoundsInv, Runner, Folder
<1>24. CASE SweptAway
  BY <1>1, <1>24 DEF SweptAway, RoundsInv, Runner, Folder
<1>25. ASSUME NEW answers \in BOOLEAN, Requeued(answers) PROVE RoundsInv'
  BY <1>1, <1>25 DEF Requeued, RoundsInv, Runner, Folder
<1>26. CASE UNCHANGED vars
  BY <1>26 DEF vars, RoundsInv
<1> QED BY <1>2, <1>3, <1>4, <1>5, <1>6, <1>7, <1>8, <1>9, <1>10, <1>11, <1>12, <1>13, <1>14,
     <1>15, <1>16, <1>17, <1>18, <1>19, <1>20, <1>21, <1>22, <1>23, <1>24, <1>25,
     <1>26, <1>27 DEF Next, Pipeline, Counts

\* No hotfix round begins beyond the cap of its runner, however often runners die and are
\* started again, tiers are upgraded and caps raised.
THEOREM HotfixRoundsBounded == Spec => []RoundsWithinCap
<1>1. Init => RoundsInv
  BY DEF Init, Idle, RoundsInv
<1>2. TypeInv /\ RoundsInv /\ [Next]_vars => RoundsInv'
  BY RoundsStep
<1>3. Init => TypeInv
  BY InitTyped
<1>4. TypeInv /\ [Next]_vars => TypeInv'
  BY NextTyped
<1>5. RoundsInv => RoundsWithinCap
  BY DEF RoundsInv, RoundsWithinCap
<1> QED BY <1>1, <1>2, <1>3, <1>4, <1>5, PTL DEF Spec

----------------------------------------------------------------------------
(* Cost *)

\* Between the stages a runner's own count is that of state.json, and one that has got
\* through a stage has found it within the cap. With a stage in hand the file has its bill
\* too; with the pair, the bill of one of the two at least in part, and no more than both.
CostInv ==
  run.up =>
    /\ run.pc \in {"scan", "checks", "handoff", "decided"} => run.cost = disk.cost /\ run.own = NoBills
    /\ run.pc \in {"child", "account"} => run.left \subseteq Now
    /\ run.pc \in {"child", "account", "join"}
         => /\ run.cost <= disk.cost /\ disk.cost <= run.cost + Owed
            /\ At # "tester" => disk.cost = run.cost + Owed
    /\ run.begun /\ run.pc \in {"scan", "decided"} => run.cost <= disk.budget

\* The stages in hand, and what is owed for them.
LEMMA SameStage ==
  ASSUME UNCHANGED <<run.list, run.i>>
  PROVE At' = At /\ Now' = Now /\ (UNCHANGED run.own => Owed' = Owed)
  BY DEF At, Now, Owed

\* A bill goes to a stage in hand, and the file takes its sum.
LEMMA CountCosts ==
  ASSUME TypeInv, CostInv, NEW s \in Stages, Counts(s)
  PROVE /\ run'.up /\ run'.pc \in {"child", "account"} /\ run'.left \subseteq Now'
        /\ run'.cost <= disk'.cost /\ disk'.cost <= run'.cost + Owed'
        /\ At' # "tester" => disk'.cost = run'.cost + Owed' /\ disk'.cost >= disk.cost
        /\ disk'.cost >= run.cost /\ At' = At
<1>1. PICK c \in Nat : Bill(s, c)
  BY CountsOne
<1>2. run.up /\ run.pc \in {"child", "account"} /\ s \in run.left /\ run.left \subseteq Now
  BY CountsOne DEF CostInv
<1>3. /\ disk'.cost = run.cost + run.own[s] + c
      /\ run'.own = [run.own EXCEPT ![s] = @ + c] /\ run'.left = run.left \ {s}
      /\ UNCHANGED <<run.up, run.pc, run.list, run.i, run.cost>>
  BY <1>1, Billed
<1>4. At' = At /\ Now' = Now
  BY <1>3, SameStage
<1>5. run.own \in [Stages -> Nat] /\ run.cost \in Nat /\ disk.cost \in Nat
  BY DEF TypeInv, TypeOK, DiskOK, RunOK, Runner, Folder
<1>6. CASE At = "tester"
  <2>1. s \in {"tester", "security"} /\ "tester" \in Stages /\ "security" \in Stages
    BY <1>2, <1>6 DEF Now, Stages
  <2>2. Owed' = run'.own["tester"] + run'.own["security"]
    BY <1>4, <1>6 DEF Owed
  <2>3. run'.own["tester"] \in Nat /\ run'.own["security"] \in Nat /\ run'.own[s] = run.own[s] + c
    BY <1>3, <1>5, <2>1
  <2>4. run'.own[s] <= Owed'
    BY <2>1, <2>2, <2>3
  <2>5. Owed' \in Nat /\ run.own[s] \in Nat
    BY <1>5, <2>2, <2>3
  <2> QED BY <1>2, <1>3, <1>4, <1>5, <1>6, <2>3, <2>4, <2>5
<1>7. CASE At # "tester"
  <2>1. s = At
    BY <1>2, <1>7 DEF Now
  <2>2. Owed = run.own[s] /\ Owed' = run'.own[s] /\ run'.own[s] = run.own[s] + c /\ run.own[s] \in Nat
    BY <1>3, <1>4, <1>5, <1>7, <2>1 DEF Owed
  <2>3. disk.cost = run.cost + Owed
    BY <1>2, <1>7 DEF CostInv
  <2> QED BY <1>2, <1>3, <1>4, <1>5, <1>7, <2>2, <2>3
<1> QED BY <1>6, <1>7

LEMMA CostStep == ASSUME TypeInv, CostInv, [Next]_vars PROVE CostInv'
<1>1. run \in Runner /\ disk \in Folder
  BY DEF TypeInv, TypeOK, DiskOK, RunOK
<1>2. CASE StageSkipped
  BY <1>1, <1>2 DEF StageSkipped, CostInv, Running, Runner, Folder
<1>3. CASE StageBegins
  <2>1. /\ run.up /\ run.pc = "scan" /\ run'.pc = "child" /\ run'.cost = run.cost /\ run'.own = run.own
        /\ run'.left = Now /\ disk'.cost = disk.cost /\ UNCHANGED <<run.list, run.i>>
    BY <1>1, <1>3 DEF StageBegins, Running, Runner, Folder
  <2>2. run.i <= Len(run.list) /\ disk.cost \in Nat
    BY <1>1, <1>3 DEF StageBegins, Due, Folder
  <2>3. At \in Stages /\ "security" \in Stages
    BY <2>2, NowOK DEF TypeInv, TypeOK, Stages
  <2>4. At' = At /\ Now' = Now
    BY <2>1 DEF At, Now
  <2>5. Owed' = 0
    BY <2>1, <2>3, <2>4 DEF CostInv, Owed, NoBills
  <2> QED BY <2>1, <2>2, <2>4, <2>5 DEF CostInv
<1>4. CASE StageRefused
  BY <1>1, <1>4 DEF StageRefused, CostInv, Running, Runner, Folder
<1>5. CASE StageReturns
  BY <1>1, <1>5, SameStage DEF StageReturns, CostInv, Running, Runner, Folder
<1>6. ASSUME NEW s \in Stages, Counts(s) PROVE CostInv'
  BY <1>6, CountCosts DEF CostInv
<1>7. CASE LimitsParked
  BY <1>1, <1>7 DEF LimitsParked, CostInv, Running, Parks, Runner, Folder
<1>8. CASE StageRetried
  <2>1. PICK again \in SUBSET Now : run' = [run EXCEPT !.pc = "child", !.tries = @ + 1, !.left = again]
    BY <1>8 DEF StageRetried
  <2> QED BY <1>1, <1>8, <2>1, SameStage DEF StageRetried, Counted, CostInv, Running, Runner, Folder
<1>9. CASE StageFailed
  BY <1>1, <1>9, SameStage DEF StageFailed, Counted, CostInv, Running, Goes, Runner, Folder
<1>27. CASE Joined
  <2>1. CASE Ends("exit")
    BY <2>1, IdleOK DEF Ends, Runner, CostInv
  <2>2. CASE ~Ends("exit")
    BY <1>27, <2>2, Joining DEF CostInv
  <2> QED BY <2>1, <2>2
<1>10. CASE CapStopped
  BY <1>1, <1>10 DEF CapStopped, CostInv, Running, Parks, Runner, Folder
<1>11. CASE ClarifyPaused
  BY <1>1, <1>11 DEF ClarifyPaused, CostInv, Running, Parks, Runner, Folder
<1>12. CASE GateBlocked
  BY <1>1, <1>12 DEF GateBlocked, CostInv, Running, Goes, Runner, Folder
<1>13. CASE StagePassed
  <2>1. run.cost <= disk.budget
    BY <1>1, <1>13 DEF StagePassed, OverCap, Runner, Folder
  <2>2. /\ run'.cost = run.cost /\ run'.own = run.own /\ disk' = disk /\ run.up
        /\ run.pc = "checks" /\ run'.pc = "scan"
    BY <1>1, <1>13 DEF StagePassed, Running, Runner
  <2> QED BY <2>1, <2>2 DEF CostInv
<1>14. CASE HandedOff
  BY <1>1, <1>14 DEF HandedOff, CostInv, Running, Parks, Runner, Folder
<1>15. CASE Moved
  BY <1>1, <1>15 DEF Moved, CostInv, Running, Ends, Idle, Runner, Folder
<1>16. CASE Decided
  BY <1>1, <1>16 DEF Decided, CostInv, Running, Runner, Folder
<1>17. CASE HotfixBegins
  BY <1>1, <1>17 DEF HotfixBegins, CostInv, Running, Runner, Folder
<1>18. CASE TierUpgraded
  BY <1>1, <1>18 DEF TierUpgraded, CostInv, Running, Runner, Folder
<1>19. CASE Approved
  BY <1>1, <1>19 DEF Approved, CostInv, Running, Ends, Idle, Runner, Folder
<1>20. CASE StoppedForDecision
  BY <1>1, <1>20 DEF StoppedForDecision, CostInv, Running, Parks, Runner, Folder
<1>21. CASE RunnerStart
  BY <1>1, <1>21 DEF RunnerStart, CostInv, Idle, Runner, Folder
<1>22. CASE RunnerDies
  BY <1>1, <1>22 DEF RunnerDies, CostInv, Running, Ends, Idle, Runner, Folder
<1>23. CASE Continued
  BY <1>1, <1>23 DEF Continued, CostInv, Runner, Folder
<1>24. CASE SweptAway
  BY <1>1, <1>24 DEF SweptAway, CostInv, Runner, Folder
<1>25. ASSUME NEW answers \in BOOLEAN, Requeued(answers) PROVE CostInv'
  BY <1>1, <1>25 DEF Requeued, CostInv, Runner, Folder
<1>26. CASE UNCHANGED vars
  BY <1>26, SameStage DEF vars, CostInv
<1> QED BY <1>2, <1>3, <1>4, <1>5, <1>6, <1>7, <1>8, <1>9, <1>10, <1>11, <1>12, <1>13, <1>14,
     <1>15, <1>16, <1>17, <1>18, <1>19, <1>20, <1>21, <1>22, <1>23, <1>24, <1>25,
     <1>26, <1>27 DEF Next, Pipeline, Counts

\* Only a bill or a join changes the cost on disk, and only the pair's bills can lower it.
LEMMA CostGrows ==
  ASSUME TypeInv, CostInv, Next
  PROVE disk'.cost >= IF PairCounts THEN run.cost ELSE disk.cost
<1>1. disk \in Folder /\ disk.cost \in Nat /\ run.cost \in Nat
  BY DEF TypeInv, TypeOK, DiskOK, RunOK, Runner, Folder
<1>2. PairCounts => disk.cost >= run.cost
  BY <1>1 DEF PairCounts, CostInv
<1>3. ASSUME NEW s \in Stages, Counts(s)
      PROVE disk'.cost >= IF PairCounts THEN run.cost ELSE disk.cost
  BY <1>3, CountCosts, CountsOne DEF PairCounts
<1>4. CASE Joined
  <2>1. disk'.cost = run.cost + Owed /\ Owed \in Nat /\ disk.cost <= run.cost + Owed
    BY <1>4, Joining DEF CostInv
  <2> QED BY <1>1, <2>1
<1>5. CASE StageSkipped \/ StageBegins \/ StageRefused \/ StageReturns \/ LimitsParked \/ StageRetried
           \/ StageFailed \/ CapStopped \/ ClarifyPaused \/ GateBlocked \/ StagePassed
  <2>1. disk'.cost = disk.cost
    BY <1>1, <1>5 DEF StageSkipped, StageBegins, StageRefused, StageReturns, LimitsParked,
       StageRetried, StageFailed, CapStopped, ClarifyPaused, GateBlocked, StagePassed, Folder
  <2> QED BY <1>1, <1>2, <2>1
<1>6. CASE HandedOff \/ Moved \/ Decided \/ HotfixBegins \/ TierUpgraded \/ Approved
           \/ StoppedForDecision
  <2>1. disk'.cost = disk.cost
    BY <1>1, <1>6 DEF HandedOff, Moved, Decided, HotfixBegins, TierUpgraded, Approved,
       StoppedForDecision, Folder
  <2> QED BY <1>1, <1>2, <2>1
<1>7. CASE RunnerStart \/ RunnerDies \/ Continued \/ SweptAway
           \/ \E answers \in BOOLEAN : Requeued(answers)
  <2>1. disk'.cost = disk.cost
    BY <1>1, <1>7 DEF RunnerStart, RunnerDies, Continued, SweptAway, Requeued, Folder
  <2> QED BY <1>1, <1>2, <2>1
<1> QED BY <1>3, <1>4, <1>5, <1>6, <1>7 DEF Next, Pipeline, Counts

\* What was spent before the stages in hand is never forgotten, nor what a single stage
\* spends, and spending stops soon after the cap: a runner that has begun a stage begins
\* no other beyond it.
THEOREM SpendingStops == Spec => CapStops
<1>1. Init => TypeInv
  BY InitTyped
<1>2. Init => CostInv
  BY DEF Init, Idle, CostInv
<1>3. TypeInv /\ [Next]_vars => TypeInv'
  BY NextTyped
<1>4. TypeInv /\ CostInv /\ [Next]_vars => CostInv'
  BY CostStep
<1>5. TypeInv /\ CostInv /\ [Next]_vars
        => [/\ disk'.cost >= IF PairCounts THEN run.cost ELSE disk.cost
            /\ Running("scan") /\ run'.pc = "child" /\ disk.cost > disk.budget => ~run.begun]_vars
  <2> SUFFICES ASSUME TypeInv, CostInv, Next
               PROVE /\ disk'.cost >= IF PairCounts THEN run.cost ELSE disk.cost
                     /\ Running("scan") /\ disk.cost > disk.budget => ~run.begun
    OBVIOUS
  <2>1. disk.cost \in Nat /\ disk.budget \in Nat
    BY DEF TypeInv, TypeOK, DiskOK, Folder
  <2> QED BY <2>1, CostGrows DEF CostInv, Running
<1> QED BY <1>1, <1>2, <1>3, <1>4, <1>5, PTL DEF Spec, CapStops

----------------------------------------------------------------------------
(* Custody of the work *)

\* Only a handoff that found no work sends a folder to failed/.
CustodyInv ==
  run.up => /\ disk.dir = "active"
            /\ run.pc = "move" /\ run.dest = "failed" => ~disk.lock

LEMMA CustodyStep == ASSUME TypeInv, CustodyInv, [Next]_vars PROVE CustodyInv'
<1>1. run \in Runner /\ disk \in Folder
  BY DEF TypeInv, TypeOK, DiskOK, RunOK
<1>2. CASE StageSkipped
  BY <1>1, <1>2 DEF StageSkipped, CustodyInv, Running, Runner, Folder
<1>3. CASE StageBegins
  BY <1>1, <1>3 DEF StageBegins, CustodyInv, Running, Runner, Folder
<1>4. CASE StageRefused
  BY <1>1, <1>4 DEF StageRefused, CustodyInv, Running, Runner, Folder
<1>5. CASE StageReturns
  BY <1>1, <1>5 DEF StageReturns, CustodyInv, Running, Runner, Folder
<1>6. ASSUME NEW s \in Stages, Counts(s) PROVE CustodyInv'
  BY <1>1, <1>6, CountsOne, Billed DEF CustodyInv
<1>7. CASE LimitsParked
  BY <1>1, <1>7 DEF LimitsParked, CustodyInv, Running, Parks, Runner, Folder
<1>8. CASE StageRetried
  BY <1>1, <1>8 DEF StageRetried, CustodyInv, Counted, Running, Runner, Folder
<1>9. CASE StageFailed
  BY <1>1, <1>9 DEF StageFailed, CustodyInv, Counted, Running, Goes, Runner, Folder
<1>27. CASE Joined
  <2>1. CASE Ends("exit")
    BY <2>1, IdleOK DEF CustodyInv, Ends, Runner
  <2>2. CASE ~Ends("exit")
    BY <1>27, <2>2, Joining DEF CustodyInv
  <2> QED BY <2>1, <2>2
<1>10. CASE CapStopped
  BY <1>1, <1>10 DEF CapStopped, CustodyInv, Running, Parks, Runner, Folder
<1>11. CASE ClarifyPaused
  BY <1>1, <1>11 DEF ClarifyPaused, CustodyInv, Running, Parks, Runner, Folder
<1>12. CASE GateBlocked
  BY <1>1, <1>12 DEF GateBlocked, CustodyInv, Running, Goes, Runner, Folder
<1>13. CASE StagePassed
  BY <1>1, <1>13 DEF StagePassed, CustodyInv, Running, Runner, Folder
<1>14. CASE HandedOff
  <2>1. PICK work \in BOOLEAN :
          LET bucket == IF disk.lock \/ work THEN "awaiting-input" ELSE "failed" IN
          disk' = [disk EXCEPT !.stage = bucket] /\ Parks(bucket)
    BY <1>14 DEF HandedOff
  <2>2. run.up /\ disk.dir = "active"
    BY <1>14 DEF HandedOff, Running, CustodyInv
  <2>3. disk'.dir = disk.dir /\ disk'.lock = disk.lock
    BY <1>1, <2>1 DEF Folder
  <2>4. run'.dest = "failed" => ~disk.lock
    BY <1>1, <2>1 DEF Parks, Runner
  <2> QED BY <2>2, <2>3, <2>4 DEF CustodyInv
<1>15. CASE Moved
  BY <1>1, <1>15 DEF Moved, CustodyInv, Running, Ends, Idle, Runner, Folder
<1>16. CASE Decided
  BY <1>1, <1>16 DEF Decided, CustodyInv, Running, Runner, Folder
<1>17. CASE HotfixBegins
  BY <1>1, <1>17 DEF HotfixBegins, CustodyInv, Running, Runner, Folder
<1>18. CASE TierUpgraded
  BY <1>1, <1>18 DEF TierUpgraded, CustodyInv, Running, Runner, Folder
<1>19. CASE Approved
  BY <1>1, <1>19 DEF Approved, CustodyInv, Running, Ends, Idle, Runner, Folder
<1>20. CASE StoppedForDecision
  BY <1>1, <1>20 DEF StoppedForDecision, CustodyInv, Running, Parks, Runner, Folder
<1>21. CASE RunnerStart
  BY <1>1, <1>21 DEF RunnerStart, Startable, CustodyInv, Idle, Folder
<1>22. CASE RunnerDies
  BY <1>1, <1>22 DEF RunnerDies, CustodyInv, Running, Ends, Idle, Runner, Folder
<1>23. CASE Continued
  BY <1>1, <1>23 DEF Continued, CustodyInv, Runner, Folder
<1>24. CASE SweptAway
  BY <1>1, <1>24 DEF SweptAway, CustodyInv, Runner, Folder
<1>25. ASSUME NEW answers \in BOOLEAN, Requeued(answers) PROVE CustodyInv'
  BY <1>1, <1>25 DEF Requeued, CustodyInv, Runner, Folder
<1>26. CASE UNCHANGED vars
  BY <1>26 DEF vars, CustodyInv
<1> QED BY <1>2, <1>3, <1>4, <1>5, <1>6, <1>7, <1>8, <1>9, <1>10, <1>11, <1>12, <1>13, <1>14,
     <1>15, <1>16, <1>17, <1>18, <1>19, <1>20, <1>21, <1>22, <1>23, <1>24, <1>25,
     <1>26, <1>27 DEF Next, Pipeline, Counts

\* A running task is in active/, and leaves it by the final move alone.
LEMMA OnlyMoved ==
  ASSUME TypeInv, CustodyInv, Next, run.up, disk'.dir = "failed"
  PROVE ~disk.lock
<1>1. disk \in Folder /\ disk.dir = "active"
  BY DEF TypeInv, TypeOK, DiskOK, CustodyInv
<1>2. CASE Moved
  BY <1>1, <1>2 DEF Moved, Running, CustodyInv, Folder
<1>3. CASE ~Moved
  <2>1. disk'.dir = "active"
    <3>1. CASE StageSkipped \/ StageBegins \/ StageRefused \/ StageReturns \/ LimitsParked \/ StageRetried
               \/ StageFailed \/ CapStopped \/ ClarifyPaused \/ GateBlocked \/ StagePassed
      BY <1>1, <3>1 DEF StageSkipped, StageBegins, StageRefused, StageReturns, LimitsParked,
         StageRetried, StageFailed, CapStopped, ClarifyPaused, GateBlocked, StagePassed, Folder
    <3>2. CASE HandedOff \/ Decided \/ HotfixBegins \/ TierUpgraded \/ Approved \/ StoppedForDecision
      BY <1>1, <3>2 DEF HandedOff, Decided, HotfixBegins, TierUpgraded, Approved,
         StoppedForDecision, Folder
    <3>4. CASE Joined \/ \E s \in Stages : Counts(s)
      BY <1>1, <3>4, Joining, CountsOne, Billed
    <3>3. CASE RunnerStart \/ RunnerDies \/ Continued \/ SweptAway
               \/ \E answers \in BOOLEAN : Requeued(answers)
      BY <1>1, <3>3 DEF RunnerStart, Startable, RunnerDies, Continued, SweptAway, Requeued, Folder
    <3> QED BY <1>3, <3>1, <3>2, <3>3, <3>4 DEF Next, Pipeline, Counts
  <2> QED BY <2>1
<1> QED BY <1>2, <1>3

\* A task with an open PR never goes to failed/ by its runner's hand.
THEOREM OpenWorkKept == Spec => WorkKept
<1>1. Init => TypeInv
  BY InitTyped
<1>2. Init => CustodyInv
  BY DEF Init, Idle, CustodyInv
<1>3. TypeInv /\ [Next]_vars => TypeInv'
  BY NextTyped
<1>4. TypeInv /\ CustodyInv /\ [Next]_vars => CustodyInv'
  BY CustodyStep
<1>5. TypeInv /\ CustodyInv /\ [Next]_vars
        => [run.up /\ disk'.dir = "failed" => ~disk.lock]_vars
  BY OnlyMoved
<1> QED BY <1>1, <1>2, <1>3, <1>4, <1>5, PTL DEF Spec, WorkKept

----------------------------------------------------------------------------
(* How long a runner can last. Fairness says that it takes its steps; that *)
(* they run out is a fact about the steps themselves.                      *)

\* In the order of their weight: upgrades of the tier, rounds below the cap, stages of
\* the list, attempts at a stage, steps of an attempt (bills to count) and of its end.
TiersAbove == CASE run.tier = "S" -> 2 [] run.tier = "M" -> 1 [] OTHER -> 0

RoundsLeft == run.cap - disk.iter

StagesLeft == IF run.i > Len(run.list) THEN 0 ELSE Len(run.list) + 1 - run.i

AttemptsLeft ==
  IF run.pc = "scan" THEN MaxFallbacks + 1
  ELSE IF run.pc \notin {"child", "account", "join"} THEN 0
  ELSE IF run.tries >= MaxFallbacks THEN 0 ELSE MaxFallbacks - run.tries

StepsLeft ==
  CASE run.pc = "child" -> 6 + Cardinality(run.left)
    [] run.pc = "account" -> 5 + Cardinality(run.left)
    [] run.pc = "join" -> 4
    [] run.pc = "checks" -> 3
    [] run.pc = "handoff" -> 2
    [] run.pc = "decided" -> 2
    [] OTHER -> 1

\* The order of the dictionary.
Falls(new, old, rest) == new < old \/ (new = old /\ rest)

Descends ==
  Falls(TiersAbove', TiersAbove,
    Falls(RoundsLeft', RoundsLeft,
      Falls(StagesLeft', StagesLeft,
        Falls(AttemptsLeft', AttemptsLeft, StepsLeft' < StepsLeft))))

Measured == {TiersAbove, RoundsLeft, StagesLeft, AttemptsLeft, StepsLeft} \subseteq Nat

LEMMA StagesFinite == IsFiniteSet(Stages)
<1>1. IsFiniteSet({"ba"})
  BY FS_Singleton
<1>2. IsFiniteSet({"ba"} \cup {"architect"})
  BY <1>1, FS_AddElement
<1>3. IsFiniteSet({"ba"} \cup {"architect"} \cup {"developer"})
  BY <1>2, FS_AddElement
<1>4. IsFiniteSet({"ba"} \cup {"architect"} \cup {"developer"} \cup {"developer-hotfix"})
  BY <1>3, FS_AddElement
<1>5. IsFiniteSet({"ba"} \cup {"architect"} \cup {"developer"} \cup {"developer-hotfix"} \cup {"tester"})
  BY <1>4, FS_AddElement
<1>6. IsFiniteSet({"ba"} \cup {"architect"} \cup {"developer"} \cup {"developer-hotfix"} \cup {"tester"}
                  \cup {"security"})
  BY <1>5, FS_AddElement
<1>7. IsFiniteSet({"ba"} \cup {"architect"} \cup {"developer"} \cup {"developer-hotfix"} \cup {"tester"}
                  \cup {"security"} \cup {"reviewer"})
  BY <1>6, FS_AddElement
<1>8. Stages = {"ba"} \cup {"architect"} \cup {"developer"} \cup {"developer-hotfix"} \cup {"tester"}
                 \cup {"security"} \cup {"reviewer"}
  BY DEF Stages
<1> QED BY <1>7, <1>8

LEMMA BillsFinite ==
  ASSUME TypeInv
  PROVE IsFiniteSet(run.left) /\ Cardinality(run.left) \in Nat
<1>1. run.left \subseteq Stages
  BY DEF TypeInv, TypeOK, RunOK, Runner
<1>2. IsFiniteSet(run.left)
  BY <1>1, StagesFinite, FS_Subset
<1> QED BY <1>2, FS_CardinalityType

LEMMA MeasuredOK == ASSUME TypeInv, RoundsInv, run.up PROVE Measured
<1>1. run \in Runner /\ disk \in Folder /\ MaxFallbacks \in Nat
  BY CapsAssumption DEF TypeInv, TypeOK, DiskOK, RunOK
<1>2. run.cap \in Nat /\ disk.iter \in Nat /\ run.i \in Nat /\ run.tries \in Nat
  BY <1>1 DEF Runner, Folder, Pos
<1>3. Len(run.list) \in Nat
  BY <1>1, ListsOfStages DEF Runner
<1>4. RoundsLeft \in Nat
  BY <1>2 DEF RoundsInv, RoundsLeft
<1>5. StagesLeft \in Nat /\ AttemptsLeft \in Nat
  BY <1>1, <1>2, <1>3 DEF StagesLeft, AttemptsLeft
<1>6. TiersAbove \in Nat /\ StepsLeft \in Nat
  BY BillsFinite DEF TiersAbove, StepsLeft
<1> QED BY <1>4, <1>5, <1>6 DEF Measured

\* A step inside a stage, or of the end, at the same place of the same round.
LEMMA InsideStage ==
  ASSUME TypeInv,
         UNCHANGED <<run.tier, run.cap, run.list, run.i, disk.iter>>,
         Falls(AttemptsLeft', AttemptsLeft, StepsLeft' < StepsLeft)
  PROVE Descends
<1>1. TiersAbove' = TiersAbove /\ RoundsLeft' = RoundsLeft /\ StagesLeft' = StagesLeft
  BY DEF TiersAbove, RoundsLeft, StagesLeft
<1> QED BY <1>1 DEF Descends, Falls

\* The same attempt, a step on.
LEMMA StepOn ==
  ASSUME TypeInv,
         UNCHANGED <<run.tier, run.cap, run.list, run.i, disk.iter>>,
         \/ run.pc = "child" /\ run'.pc = "account" /\ UNCHANGED <<run.tries, run.left>>
         \/ run.pc = "account" /\ run'.pc = "join" /\ UNCHANGED run.tries
         \/ run.pc \in {"account", "join"} /\ run'.pc \in {"checks", "handoff", "move"}
         \/ run.pc \in {"checks", "handoff", "decided"} /\ run'.pc = "move"
         \/ run.pc = "checks" /\ run'.pc = "handoff"
  PROVE Descends
<1>1. run.tries \in Nat /\ MaxFallbacks \in Nat /\ Cardinality(run.left) \in Nat
  BY CapsAssumption, BillsFinite DEF TypeInv, TypeOK, RunOK, Runner
<1>2. AttemptsLeft' < AttemptsLeft \/ AttemptsLeft' = AttemptsLeft
  BY <1>1 DEF AttemptsLeft
<1>3. StepsLeft' < StepsLeft
  BY <1>1 DEF StepsLeft
<1>4. Falls(AttemptsLeft', AttemptsLeft, StepsLeft' < StepsLeft)
  BY <1>2, <1>3 DEF Falls
<1>5. UNCHANGED <<run.tier, run.cap, run.list, run.i, disk.iter>>
  OBVIOUS
<1> QED BY <1>4, <1>5, InsideStage

\* One bill less to count.
LEMMA CountDescends == ASSUME TypeInv, NEW s \in Stages, Counts(s) PROVE Descends
<1>1. PICK c \in Nat : Bill(s, c)
  BY CountsOne
<1>2. /\ run'.left = run.left \ {s}
      /\ UNCHANGED <<run.pc, run.tier, run.list, run.i, run.cap, run.tries, disk.iter>>
  BY <1>1, Billed
<1>3. s \in run.left /\ run.pc \in {"child", "account"}
  BY CountsOne
<1>4. IsFiniteSet(run.left) /\ Cardinality(run.left) \in Nat
  BY BillsFinite
<1>5. Cardinality(run'.left) = Cardinality(run.left) - 1
  BY <1>2, <1>3, <1>4, FS_RemoveElement
<1>6. AttemptsLeft' = AttemptsLeft
  BY <1>2 DEF AttemptsLeft
<1>7. StepsLeft' < StepsLeft
  BY <1>2, <1>3, <1>4, <1>5 DEF StepsLeft
<1>8. Falls(AttemptsLeft', AttemptsLeft, StepsLeft' < StepsLeft)
  BY <1>6, <1>7 DEF Falls
<1> QED BY <1>2, <1>8, InsideStage

\* The moves of the program counter that leave the runner's place alone.
LEMMA SamePlace ==
  ASSUME TypeInv, NEW pc,
         \/ run' = [run EXCEPT !.pc = pc]
         \/ \E rc : run' = [run EXCEPT !.pc = pc, !.rc = rc]
         \/ \E dest : run' = [run EXCEPT !.pc = pc, !.dest = dest]
  PROVE run'.pc = pc /\ UNCHANGED <<run.tier, run.cap, run.list, run.i, run.tries, run.left>>
<1>1. run \in Runner
  BY DEF TypeInv, TypeOK, RunOK
<1> QED BY <1>1 DEF Runner

LEMMA SameRound ==
  ASSUME TypeInv,
         \/ \E stage : disk' = [disk EXCEPT !.stage = stage]
         \/ \E stage : disk' = [disk EXCEPT !.stage = stage, !.offered = TRUE]
         \/ \E lock : disk' = [disk EXCEPT !.lock = lock]
  PROVE disk'.iter = disk.iter
<1>1. disk \in Folder
  BY DEF TypeInv, TypeOK, DiskOK
<1>2. CASE \E stage : disk' = [disk EXCEPT !.stage = stage]
  BY <1>1, <1>2 DEF Folder
<1>3. CASE \E stage : disk' = [disk EXCEPT !.stage = stage, !.offered = TRUE]
  BY <1>1, <1>3 DEF Folder
<1>4. CASE \E lock : disk' = [disk EXCEPT !.lock = lock]
  BY <1>1, <1>4 DEF Folder
<1> QED BY <1>2, <1>3, <1>4

LEMMA WalkDescends ==
  ASSUME TypeInv, StageSkipped \/ StageBegins \/ StageRefused \/ StagePassed \/ Decided
  PROVE Descends
<1>1. /\ run \in Runner /\ run.i \in Nat /\ Len(run.list) \in Nat /\ MaxFallbacks \in Nat
      /\ run.tries \in Nat
  BY CapsAssumption, ListsOfStages DEF TypeInv, TypeOK, RunOK, Runner, Pos
<1>2. CASE StageSkipped
  <2>1. /\ run'.i = run.i + 1 /\ run.i <= Len(run.list) /\ disk'.iter = disk.iter
        /\ UNCHANGED <<run.tier, run.cap, run.list>>
    BY <1>1, <1>2 DEF StageSkipped, Runner, TypeInv, TypeOK, DiskOK, Folder
  <2>2. TiersAbove' = TiersAbove /\ RoundsLeft' = RoundsLeft /\ StagesLeft' < StagesLeft
    BY <1>1, <2>1 DEF TiersAbove, RoundsLeft, StagesLeft
  <2> QED BY <2>2 DEF Descends, Falls
<1>3. CASE StagePassed
  <2>1. run.i <= Len(run.list)
    BY <1>3 DEF TypeInv, Placed, Working, StagePassed, Running
  <2>2. IsFiniteSet(Now) /\ Cardinality(Now) \in Nat
    BY <2>1, NowOK DEF TypeInv, TypeOK
  <2>3. Cardinality(Now) # 0
    BY <2>2, FS_EmptySet DEF Now
  <2>4. /\ run'.i = run.i + Cardinality(Now) /\ disk'.iter = disk.iter
        /\ UNCHANGED <<run.tier, run.cap, run.list>>
    BY <1>1, <1>3 DEF StagePassed, Runner
  <2>5. TiersAbove' = TiersAbove /\ RoundsLeft' = RoundsLeft
    BY <2>4 DEF TiersAbove, RoundsLeft
  <2>6. StagesLeft' < StagesLeft
    BY <1>1, <2>1, <2>2, <2>3, <2>4 DEF StagesLeft
  <2> QED BY <2>5, <2>6 DEF Descends, Falls
<1>4. CASE StageBegins \/ StageRefused \/ Decided
  <2>0. disk \in Folder
    BY DEF TypeInv, TypeOK, DiskOK
  <2>1. /\ run.pc = "scan" /\ run'.pc # "scan" /\ run'.tries \in Nat
        /\ disk'.iter = disk.iter
        /\ UNCHANGED <<run.tier, run.cap, run.list, run.i>>
    <3>1. CASE StageBegins
      BY <1>1, <2>0, <3>1 DEF StageBegins, Running, Runner, Folder
    <3>2. CASE StageRefused
      BY <1>1, <2>0, <3>2 DEF StageRefused, Running, Runner, Folder
    <3>3. CASE Decided
      <4>1. disk'.iter = disk.iter
        <5>1. CASE disk' = disk
          BY <5>1
        <5>2. CASE disk' = [disk EXCEPT !.trend = Noted(@, files.review.critical),
                                        !.trendIter = disk.iter]
          <6> DEFINE noted == Noted(disk.trend, files.review.critical)
          <6>1. disk' = [disk EXCEPT !.trend = noted, !.trendIter = disk.iter]
            BY <5>2
          <6> HIDE DEF noted
          <6> QED BY <2>0, <6>1 DEF Folder
        <5> QED BY <3>3, <5>1, <5>2 DEF Decided
      <4>2. run.pc = "scan" /\ run' = [run EXCEPT !.pc = "decided", !.why = Decision]
        BY <3>3 DEF Decided, Running
      <4> QED BY <1>1, <4>1, <4>2 DEF Runner
    <3> QED BY <1>4, <3>1, <3>2, <3>3
  <2>2. AttemptsLeft' < AttemptsLeft
    BY <1>1, <2>1 DEF AttemptsLeft
  <2> QED BY <2>1, <2>2, InsideStage DEF Falls
<1> QED BY <1>2, <1>3, <1>4

LEMMA StageDescends ==
  ASSUME TypeInv, run'.up,
         \/ StageReturns \/ Joined \/ LimitsParked \/ StageRetried \/ StageFailed
         \/ CapStopped \/ ClarifyPaused \/ GateBlocked \/ HandedOff \/ StoppedForDecision
  PROVE Descends
<1>1. run \in Runner /\ disk \in Folder /\ MaxFallbacks \in Nat /\ run.tries \in Nat
  BY CapsAssumption DEF TypeInv, TypeOK, RunOK, Runner, DiskOK
<1>2. CASE StageReturns
  <2>1. PICK rc : run' = [run EXCEPT !.pc = "account", !.rc = rc]
    BY <1>2 DEF StageReturns
  <2>2. \E lock : disk' = [disk EXCEPT !.lock = lock]
    BY <1>2 DEF StageReturns
  <2>3. run.pc = "child"
    BY <1>2 DEF StageReturns, Running
  <2>4. disk'.iter = disk.iter
    BY Zenon, <2>2, SameRound
  <2>5. run'.pc = "account" /\ UNCHANGED <<run.tier, run.cap, run.list, run.i, run.tries, run.left>>
    BY <2>1, SamePlace
  <2> QED BY <2>3, <2>4, <2>5, StepOn
<1>3. CASE Joined
  <2>1. ~ Ends("exit")
    BY DEF Ends, Idle
  <2> QED BY <1>3, <2>1, Joining, StepOn
<1>4. CASE StageRetried
  <2>1. PICK again \in SUBSET Now : run' = [run EXCEPT !.pc = "child", !.tries = @ + 1, !.left = again]
    BY <1>4 DEF StageRetried
  <2>2. /\ run.pc = "account" /\ run'.pc = "child" /\ run'.tries = run.tries + 1
        /\ run.tries < MaxFallbacks /\ disk' = disk
        /\ UNCHANGED <<run.tier, run.cap, run.list, run.i>>
    BY <1>1, <1>4, <2>1 DEF StageRetried, Counted, Running, Runner
  <2>3. AttemptsLeft' < AttemptsLeft
    BY <1>1, <2>2 DEF AttemptsLeft
  <2> QED BY <2>2, <2>3, InsideStage DEF Falls
<1>5. CASE StageFailed \/ GateBlocked
  <2>1. \/ run.pc = "account" /\ run' = [run EXCEPT !.pc = "join"]
        \/ run.pc = "checks" /\ run' = [run EXCEPT !.pc = "handoff"]
    BY <1>5 DEF StageFailed, GateBlocked, Counted, Running, Goes
  <2>2. disk' = [disk EXCEPT !.stage = "failed"]
    BY <1>5 DEF StageFailed, GateBlocked
  <2>3. disk'.iter = disk.iter
    BY Zenon, <2>2, SameRound
  <2>4. CASE run.pc = "account" /\ run' = [run EXCEPT !.pc = "join"]
    <3>1. run'.pc = "join" /\ UNCHANGED <<run.tier, run.cap, run.list, run.i, run.tries>>
      BY <2>4, SamePlace
    <3> QED BY <2>3, <2>4, <3>1, StepOn
  <2>5. CASE run.pc = "checks" /\ run' = [run EXCEPT !.pc = "handoff"]
    <3>1. run'.pc = "handoff" /\ UNCHANGED <<run.tier, run.cap, run.list, run.i, run.tries>>
      BY <2>5, SamePlace
    <3> QED BY <2>3, <2>5, <3>1, StepOn
  <2> QED BY <2>1, <2>4, <2>5
<1>6. CASE LimitsParked \/ CapStopped \/ ClarifyPaused \/ HandedOff \/ StoppedForDecision
  <2>1. PICK dest : run' = [run EXCEPT !.pc = "move", !.dest = dest]
    BY <1>6 DEF LimitsParked, CapStopped, ClarifyPaused, HandedOff, StoppedForDecision, Parks
  <2>2. run.pc \in {"account", "checks", "handoff", "decided"}
    BY <1>6 DEF LimitsParked, CapStopped, ClarifyPaused, HandedOff, StoppedForDecision, Running
  <2>3. \/ \E stage : disk' = [disk EXCEPT !.stage = stage]
        \/ \E stage : disk' = [disk EXCEPT !.stage = stage, !.offered = TRUE]
    BY <1>6 DEF LimitsParked, CapStopped, ClarifyPaused, HandedOff, StoppedForDecision
  <2>4. disk'.iter = disk.iter
    BY Zenon, <2>3, SameRound
  <2>5. run'.pc = "move" /\ UNCHANGED <<run.tier, run.cap, run.list, run.i, run.tries>>
    BY <2>1, SamePlace
  <2> QED BY <2>2, <2>4, <2>5, StepOn
<1> QED BY <1>2, <1>3, <1>4, <1>5, <1>6

LEMMA RoundDescends ==
  ASSUME TypeInv, RoundsInv, HotfixBegins \/ TierUpgraded
  PROVE Descends
<1>1. run \in Runner /\ disk \in Folder /\ run.cap \in Nat /\ disk.iter \in Nat
  BY DEF TypeInv, TypeOK, RunOK, DiskOK, Runner, Folder, Pos
<1>2. CASE HotfixBegins
  <2>1. disk'.iter = disk.iter + 1 /\ UNCHANGED <<run.tier, run.cap>>
    BY <1>1, <1>2 DEF HotfixBegins, Runner, Folder
  <2>2. TiersAbove' = TiersAbove /\ RoundsLeft' < RoundsLeft
    BY <1>1, <2>1 DEF TiersAbove, RoundsLeft
  <2> QED BY <2>2 DEF Descends, Falls
<1>3. CASE TierUpgraded
  <2>1. NextTier(run.tier) # "none" /\ run'.tier = NextTier(run.tier)
    BY <1>1, <1>3 DEF TierUpgraded, Upgradable, Runner
  <2>2. TiersAbove' < TiersAbove
    BY <2>1 DEF TiersAbove, NextTier
  <2> QED BY <2>2 DEF Descends, Falls
<1> QED BY <1>2, <1>3

\* Whatever its children do, a runner runs out of steps: every one that does not end it
\* takes it down an order on five natural numbers (run_pipeline: the list, the fallbacks,
\* the hotfix rounds below the cap, the two upgrades of the tier).
THEOREM RunnerStepsRunOut ==
  Spec => /\ [](run.up => Measured)
          /\ [][run.up /\ run'.up => Descends]_vars
<1> DEFINE M == run.up => Measured
           D == run.up /\ run'.up => Descends
<1>1. TypeInv /\ RoundsInv => M
  BY MeasuredOK
<1>2. TypeInv /\ RoundsInv /\ [Next]_vars => [D]_vars
  <2> SUFFICES ASSUME TypeInv, RoundsInv, Next, run.up, run'.up PROVE Descends
    OBVIOUS
  <2>1. ~ (Moved \/ Approved \/ RunnerDies)
    BY DEF Moved, Approved, RunnerDies, Ends, Idle
  <2>2. ~ (RunnerStart \/ SweptAway \/ Continued \/ \E answers \in BOOLEAN : Requeued(answers))
    BY DEF RunnerStart, Startable, SweptAway, Continued, Requeued
  <2>3. Pipeline \/ RunnerDies
    BY <2>2 DEF Next
  <2>4. Pipeline /\ ~Moved /\ ~Approved
    BY <2>1, <2>3
  <2>5. CASE StageSkipped \/ StageBegins \/ StageRefused \/ StagePassed \/ Decided
    BY <2>5, WalkDescends
  <2>6. CASE \/ StageReturns \/ Joined \/ LimitsParked \/ StageRetried \/ StageFailed
             \/ CapStopped \/ ClarifyPaused \/ GateBlocked \/ HandedOff \/ StoppedForDecision
    BY <2>6, StageDescends
  <2>7. CASE HotfixBegins \/ TierUpgraded
    BY <2>7, RoundDescends
  <2>8. \/ StageSkipped \/ StageBegins \/ StageRefused \/ StagePassed \/ Decided
        \/ StageReturns \/ Joined \/ LimitsParked \/ StageRetried \/ StageFailed
        \/ CapStopped \/ ClarifyPaused \/ GateBlocked \/ HandedOff \/ StoppedForDecision
        \/ HotfixBegins \/ TierUpgraded \/ (\E s \in Stages : Counts(s))
    BY Zenon, <2>4 DEF Pipeline, Counts
  <2>9. CASE \E s \in Stages : Counts(s)
    BY <2>9, CountDescends
  <2> QED BY Zenon, <2>5, <2>6, <2>7, <2>8, <2>9
<1>3. Spec => [](TypeInv /\ RoundsInv)
  <2>1. Init => TypeInv
    BY InitTyped
  <2>2. Init => RoundsInv
    BY DEF Init, Idle, RoundsInv
  <2>3. TypeInv /\ RoundsInv /\ [Next]_vars => (TypeInv /\ RoundsInv)'
    BY NextTyped, RoundsStep
  <2> QED BY <2>1, <2>2, <2>3, PTL DEF Spec
<1> HIDE DEF M, D
<1>4. Spec => []M /\ [][D]_vars
  BY <1>1, <1>2, <1>3, PTL DEF Spec
<1> QED BY <1>4 DEF M, D
=============================================================================
