---------------------- MODULE StageRunnerReview_proofs ----------------------
(***************************************************************************)
(* What TLAPS proves of StageRunner about the two judgements a task hangs  *)
(* on: the BA's brief, after a person's answers, and the review.           *)
(***************************************************************************)
EXTENDS StageRunner_proofs

----------------------------------------------------------------------------
(* Where the stages stand in the lists *)

LEMMA MenuOrHotfix ==
  ASSUME NEW list \in Lists
  PROVE \/ list = <<"developer", "tester", "security", "reviewer">>
        \/ list = <<"ba", "developer", "tester", "security", "reviewer">>
        \/ list = <<"ba", "architect", "developer", "tester", "security", "reviewer">>
        \/ list = <<"developer-hotfix", "tester", "security", "reviewer">>
  BY DEF Lists, Menu, Core, Hotfix

LEMMA Places ==
  ASSUME NEW list \in Lists, NEW i \in 1..Len(list)
  PROVE /\ list[i] = "ba" => i = 1
        /\ list[i] = "developer-hotfix" => i = 1 /\ list = Hotfix
        /\ list = Hotfix => list[i] \notin {"ba", "developer"}
        /\ list = Hotfix /\ i = 1 => list[i] = "developer-hotfix"
        /\ list = Core => list[i] # "ba"
        /\ list # Hotfix /\ list[i] = "reviewer"
             => \E k \in 1..Len(list) : k < i /\ list[k] = "developer"
        /\ list[i] = "tester" => \A k \in 1..Len(list) : k >= i => list[k] # "developer"
<1>1. CASE list = <<"developer", "tester", "security", "reviewer">>
  <2>1. Len(list) = 4 /\ i \in {1, 2, 3, 4}
    BY <1>1
  <2>2. list[1] = "developer" /\ list[2] = "tester" /\ list[3] = "security"
      /\ list[4] = "reviewer"
    BY <1>1
  <2>3. list # Hotfix
    BY <1>1, <2>2 DEF Hotfix
  <2>4. list = Core
    BY <1>1, <2>2 DEF Core
  <2>5. list[i] = "reviewer" => \E k \in 1..Len(list) : k < i /\ list[k] = "developer"
    <3>1. list[i] = "reviewer" => i = 4
      BY <2>1, <2>2
    <3>2. 1 \in 1..Len(list) /\ 1 < 4
      BY <2>1
    <3> QED BY <2>2, <3>1, <3>2
  <2>6. list[i] = "tester" => \A k \in 1..Len(list) : k >= i => list[k] # "developer"
    <3> SUFFICES ASSUME list[i] = "tester", NEW k \in 1..Len(list), k >= i
                 PROVE list[k] # "developer"
      OBVIOUS
    <3>1. k \in {1, 2, 3, 4}
      BY <2>1
    <3> QED BY <2>1, <2>2, <3>1
  <2> QED BY <2>1, <2>2, <2>3, <2>4, <2>5, <2>6
<1>2. CASE list = <<"ba", "developer", "tester", "security", "reviewer">>
  <2>1. Len(list) = 5 /\ i \in {1, 2, 3, 4, 5}
    BY <1>2
  <2>2. list[1] = "ba" /\ list[2] = "developer" /\ list[3] = "tester" /\ list[4] = "security"
      /\ list[5] = "reviewer"
    BY <1>2
  <2>3. list # Hotfix
    BY <1>2, <2>2 DEF Hotfix
  <2>4. list # Core
    BY <1>2, <2>2 DEF Core
  <2>5. list[i] = "reviewer" => \E k \in 1..Len(list) : k < i /\ list[k] = "developer"
    <3>1. list[i] = "reviewer" => i = 5
      BY <2>1, <2>2
    <3>2. 2 \in 1..Len(list) /\ 2 < 5
      BY <2>1
    <3> QED BY <2>2, <3>1, <3>2
  <2>6. list[i] = "tester" => \A k \in 1..Len(list) : k >= i => list[k] # "developer"
    <3> SUFFICES ASSUME list[i] = "tester", NEW k \in 1..Len(list), k >= i
                 PROVE list[k] # "developer"
      OBVIOUS
    <3>1. k \in {1, 2, 3, 4, 5}
      BY <2>1
    <3> QED BY <2>1, <2>2, <3>1
  <2> QED BY <2>1, <2>2, <2>3, <2>4, <2>5, <2>6
<1>3. CASE list = <<"ba", "architect", "developer", "tester", "security", "reviewer">>
  <2>1. Len(list) = 6 /\ i \in {1, 2, 3, 4, 5, 6}
    BY <1>3
  <2>2. list[1] = "ba" /\ list[2] = "architect" /\ list[3] = "developer" /\ list[4] = "tester"
      /\ list[5] = "security" /\ list[6] = "reviewer"
    BY <1>3
  <2>3. list # Hotfix
    BY <1>3, <2>2 DEF Hotfix
  <2>4. list # Core
    BY <1>3, <2>2 DEF Core
  <2>5. list[i] = "reviewer" => \E k \in 1..Len(list) : k < i /\ list[k] = "developer"
    <3>1. list[i] = "reviewer" => i = 6
      BY <2>1, <2>2
    <3>2. 3 \in 1..Len(list) /\ 3 < 6
      BY <2>1
    <3> QED BY <2>2, <3>1, <3>2
  <2>6. list[i] = "tester" => \A k \in 1..Len(list) : k >= i => list[k] # "developer"
    <3> SUFFICES ASSUME list[i] = "tester", NEW k \in 1..Len(list), k >= i
                 PROVE list[k] # "developer"
      OBVIOUS
    <3>1. k \in {1, 2, 3, 4, 5, 6}
      BY <2>1
    <3> QED BY <2>1, <2>2, <3>1
  <2> QED BY <2>1, <2>2, <2>3, <2>4, <2>5, <2>6
<1>4. CASE list = <<"developer-hotfix", "tester", "security", "reviewer">>
  <2>1. Len(list) = 4 /\ i \in {1, 2, 3, 4}
    BY <1>4
  <2>2. list[1] = "developer-hotfix" /\ list[2] = "tester" /\ list[3] = "security"
      /\ list[4] = "reviewer"
    BY <1>4
  <2>3. list = Hotfix
    BY <1>4, <2>2 DEF Hotfix
  <2>4. list # Core
    BY <1>4, <2>2 DEF Core
  <2>5. list # Hotfix => FALSE
    BY <2>3
  <2>6. list[i] = "tester" => \A k \in 1..Len(list) : k >= i => list[k] # "developer"
    <3> SUFFICES ASSUME list[i] = "tester", NEW k \in 1..Len(list), k >= i
                 PROVE list[k] # "developer"
      OBVIOUS
    <3>1. k \in {1, 2, 3, 4}
      BY <2>1
    <3> QED BY <2>1, <2>2, <3>1
  <2> QED BY <2>1, <2>2, <2>3, <2>4, <2>5, <2>6
<1> QED BY <1>1, <1>2, <1>3, <1>4, MenuOrHotfix

\* What the stages write is neither the canonical brief nor a person's answers.
LEMMA WrittenKeeps ==
  ASSUME NEW ws, NEW f \in Written(ws)
  PROVE f.canon = files.canon /\ f.answered = files.answered
  BY DEF Written

LEMMA StructuredKeeps ==
  ASSUME NEW f \in Texts
  PROVE Structured(f).canon = f.canon /\ Structured(f).answered = f.answered
  BY DEF Structured, Texts

\* The first of the pair to be counted leaves its own artifact behind, and nothing else.
LEMMA FirstWrites ==
  ASSUME FilesOK, NEW s \in Stages, FirstCounted(s)
  PROVE /\ s \in {"tester", "security"}
        /\ files' = [files EXCEPT !.md = @ \cup {s}, !.json = @ \cup {s}]
<1>1. s \in {"tester", "security"}
  BY DEF FirstCounted, Now
<1>2. PICK ws \in SUBSET {s} : \E f \in Written(ws) :
        s \in f.md /\ files' = [f EXCEPT !.json = @ \cup {s}]
  BY DEF FirstCounted
<1>3. PICK f \in Written(ws) : s \in f.md /\ files' = [f EXCEPT !.json = @ \cup {s}]
  BY <1>2
<1>4. ws \subseteq {s} /\ ~Coding(ws) /\ "ba" \notin ws /\ "reviewer" \notin ws
  BY <1>1, <1>2 DEF Coding
<1>5. {Artifact(u) : u \in ws} = ws
  BY <1>1, <1>4 DEF Artifact
<1>6. /\ f \in [md: {files.md \cup ws}, json: {files.json}, canon: {files.canon},
                brief: {files.brief}, answered: {files.answered}, named: {files.named},
                text: {files.text}, review: {files.review}]
  BY <1>3, <1>4, <1>5 DEF Written
<1>7. files.md \cup ws = files.md \cup {s}
  BY <1>3, <1>4, <1>6
<1>8. f = [files EXCEPT !.md = @ \cup {s}]
  BY <1>6, <1>7 DEF FilesOK, Texts
<1> QED BY <1>1, <1>3, <1>8 DEF FilesOK, Texts

LEMMA CountKeeps ==
  ASSUME TypeInv, NEW s \in Stages, Counts(s)
  PROVE /\ files'.canon = files.canon /\ files'.answered = files.answered
        /\ files'.review = files.review /\ files.md \subseteq files'.md
        /\ "reviewer" \in files'.json => "reviewer" \in files.json
<1>1. CASE run.pc = "account"
  BY <1>1, CountsOne
<1>2. CASE run.pc = "child"
  <2>1. /\ s \in {"tester", "security"}
        /\ files' = [files EXCEPT !.md = @ \cup {s}, !.json = @ \cup {s}]
    BY <1>2, CountsOne, FirstWrites DEF TypeInv, TypeOK
  <2> QED BY <2>1 DEF TypeInv, TypeOK, FilesOK, Texts
<1> QED BY <1>1, <1>2, CountsOne

\* The list of a runner at a stage has that stage at that place.
LEMMA InPlace ==
  ASSUME TypeInv, run.pc \in Working \/ run.i <= Len(run.list)
  PROVE run.list \in Lists /\ run.i \in 1..Len(run.list) /\ At = run.list[run.i]
<1>1. run.list \in Lists /\ run.i \in Pos /\ Len(run.list) \in Pos
  BY ListsOfStages DEF TypeInv, TypeOK, RunOK, Runner
<1>2. run.i <= Len(run.list)
  BY DEF TypeInv, Placed
<1> QED BY <1>1, <1>2 DEF At, Pos

----------------------------------------------------------------------------
(* The answers of a person *)

\* A menu with a BA begins with it, and no other list has one.
LEMMA MenuStarts ==
  ASSUME NEW tier \in AllTiers
  PROVE /\ Menu(tier) # Hotfix /\ Menu(tier) \in Lists
        /\ tier = "S" => Menu(tier) = Core
        /\ tier # "S" => Menu(tier)[1] = "ba"
<1>1. tier = "S" => Menu(tier) = Core
  BY DEF Menu
<1>2. tier # "S" => Menu(tier)[1] = "ba"
  BY DEF Menu
<1>3. Core # Hotfix
  <2>1. Core[1] = "developer" /\ Hotfix[1] = "developer-hotfix"
    BY DEF Core, Hotfix
  <2> QED BY <2>1
<1>4. tier # "S" => Menu(tier) # Hotfix
  <2>1. Hotfix[1] = "developer-hotfix"
    BY DEF Hotfix
  <2> QED BY <1>2, <2>1
<1> QED BY <1>1, <1>2, <1>3, <1>4, ListsOK

\* Without a BA the brief is triage's own; with one, a runner that has got past it has a
\* brief without questions, once they are answered.
HeedInv ==
  /\ disk.tier = "S" => files.canon # "markers"
  /\ run.up => run.list \in {Menu(disk.tier), Hotfix}
  /\ run.up /\ files.answered /\ run.list = Menu(disk.tier) /\ disk.tier # "S" /\ run.i > 1
       => files.canon # "markers"

LEMMA HeedStep == ASSUME TypeInv, HeedInv, [Next]_vars PROVE HeedInv'
<1>1. run \in Runner /\ disk \in Folder /\ files \in Texts
  BY DEF TypeInv, TypeOK, DiskOK, FilesOK, RunOK
<1>2. CASE StageSkipped
  <2>1. disk'.tier = disk.tier /\ run'.list = run.list /\ run'.i = run.i + 1 /\ run.up
        /\ files' = files
    BY <1>1, <1>2 DEF StageSkipped, Running, Runner, Folder
  <2>2. run.i <= Len(run.list) /\ ~Reruns(At)
    BY <1>2 DEF StageSkipped
  <2>3. ASSUME files.answered, run.list = Menu(disk.tier), disk.tier # "S"
        PROVE files.canon # "markers"
    <3>1. CASE run.i = 1
      <4>1. At = "ba"
        BY <1>1, <2>3, <3>1, MenuStarts DEF At, Folder
      <4> QED BY <2>2, <2>3, <4>1 DEF Reruns
    <3>2. CASE run.i # 1
      BY <1>1, <2>1, <2>3, <3>2 DEF HeedInv, Runner, Pos
    <3> QED BY <3>1, <3>2
  <2> QED BY <2>1, <2>3 DEF HeedInv
<1>3. CASE StageBegins
  BY <1>1, <1>3 DEF StageBegins, HeedInv, Running, Runner, Folder
<1>4. CASE StageRefused
  BY <1>1, <1>4 DEF StageRefused, HeedInv, Running, Runner, Folder
<1>5. CASE StageReturns
  <2>1. PICK rc \in Rcs, ws \in SUBSET Now, known \in BOOLEAN : \E f \in Written(ws) :
          /\ files' = IF rc \in {"ok", "violation"} THEN Structured(f) ELSE f
          /\ disk' = [disk EXCEPT !.lock = @ \/ (rc = "ok" /\ Coding(Now) /\ known)]
          /\ run' = [run EXCEPT !.pc = "account", !.rc = rc]
    BY ZenonT(20), <1>5 DEF StageReturns
  <2>2. Now \subseteq Stages
    BY <1>5, NowOK DEF StageReturns, Running, TypeInv, TypeOK, Placed, Working
  <2>3. files'.canon = files.canon /\ files'.answered = files.answered
    BY <2>1, <2>2, WrittenOK, WrittenKeeps, StructuredKeeps DEF TypeInv, TypeOK
  <2>4. disk'.tier = disk.tier /\ run'.list = run.list /\ run'.i = run.i /\ run.up
    BY <1>1, <1>5, <2>1 DEF StageReturns, Running, Runner, Folder
  <2> QED BY <2>3, <2>4 DEF HeedInv
<1>6. ASSUME NEW s \in Stages, Counts(s) PROVE HeedInv'
  <2>1. PICK c \in Nat : Bill(s, c)
    BY <1>6, CountsOne
  <2>2. UNCHANGED <<disk.tier, run.list, run.i>> /\ run.up
    BY <1>6, <2>1, Billed, CountsOne
  <2>3. files'.canon = files.canon /\ files'.answered = files.answered
    BY <1>6, CountKeeps
  <2> QED BY <2>2, <2>3 DEF HeedInv
<1>7. CASE LimitsParked
  BY <1>1, <1>7 DEF LimitsParked, HeedInv, Running, Parks, Runner, Folder
<1>8. CASE StageRetried
  BY <1>1, <1>8 DEF StageRetried, HeedInv, Counted, Running, Runner, Folder
<1>9. CASE StageFailed
  BY <1>1, <1>9 DEF StageFailed, HeedInv, Counted, Running, Goes, Runner, Folder
<1>27. CASE Joined
  <2>1. disk'.tier = disk.tier /\ files' = files /\ run.up
    BY <1>27, Joining
  <2>2. CASE Ends("exit")
    BY <2>1, <2>2, IdleOK DEF HeedInv, Ends, Runner
  <2>3. CASE ~Ends("exit")
    <3>1. UNCHANGED <<run.list, run.i>>
      BY <1>27, <2>3, Joining
    <3> QED BY <2>1, <3>1 DEF HeedInv
  <2> QED BY <2>2, <2>3
<1>10. CASE CapStopped
  <2>1. disk'.tier = disk.tier /\ run'.list = run.list /\ run'.i = run.i /\ run.up
    BY <1>1, <1>10 DEF CapStopped, Running, Parks, Runner, Folder
  <2>2. files'.answered = files.answered
    BY <1>1, <1>10 DEF CapStopped, Canonical, Texts
  <2>3. run.list \in Lists /\ run.i \in 1..Len(run.list) /\ At = run.list[run.i]
    BY <1>10, InPlace DEF CapStopped, Running, Working
  <2>4. At # "ba" => files'.canon = files.canon
    BY <1>1, <1>10 DEF CapStopped, Canonical, Texts
  <2>5. At = "ba" => run.i = 1 /\ run.list # Core /\ run.list # Hotfix
    BY <2>3, Places
  <2>6. disk.tier = "S" => At # "ba"
    BY <1>1, <2>1, <2>5, MenuStarts DEF HeedInv, Folder
  <2> QED BY <2>1, <2>2, <2>3, <2>4, <2>5, <2>6 DEF HeedInv
<1>11. CASE ClarifyPaused
  <2>1. disk'.tier = disk.tier /\ run'.list = run.list /\ run'.i = run.i /\ run.up
    BY <1>1, <1>11 DEF ClarifyPaused, Running, Parks, Runner, Folder
  <2>2. files'.answered = files.answered
    BY <1>1, <1>11 DEF ClarifyPaused, Canonical, Texts
  <2>3. run.list \in Lists /\ run.i \in 1..Len(run.list) /\ At = run.list[run.i]
    BY <1>11, InPlace DEF ClarifyPaused, Running, Working
  <2>4. At # "ba" => files'.canon = files.canon
    BY <1>1, <1>11 DEF ClarifyPaused, Canonical, Texts
  <2>5. At = "ba" => run.i = 1 /\ run.list # Core /\ run.list # Hotfix
    BY <2>3, Places
  <2>6. disk.tier = "S" => At # "ba"
    BY <1>1, <2>1, <2>5, MenuStarts DEF HeedInv, Folder
  <2> QED BY <2>1, <2>2, <2>3, <2>4, <2>5, <2>6 DEF HeedInv
<1>12. CASE GateBlocked
  <2>1. disk'.tier = disk.tier /\ run'.list = run.list /\ run'.i = run.i /\ run.up
    BY <1>1, <1>12 DEF GateBlocked, Running, Goes, Runner, Folder
  <2>2. files'.answered = files.answered
    BY <1>1, <1>12 DEF GateBlocked, Canonical, Texts
  <2>3. run.list \in Lists /\ run.i \in 1..Len(run.list) /\ At = run.list[run.i]
    BY <1>12, InPlace DEF GateBlocked, Running, Working
  <2>4. At # "ba" => files'.canon = files.canon
    BY <1>1, <1>12 DEF GateBlocked, Canonical, Texts
  <2>5. At = "ba" => run.i = 1 /\ run.list # Core /\ run.list # Hotfix
    BY <2>3, Places
  <2>6. disk.tier = "S" => At # "ba"
    BY <1>1, <2>1, <2>5, MenuStarts DEF HeedInv, Folder
  <2> QED BY <2>1, <2>2, <2>3, <2>4, <2>5, <2>6 DEF HeedInv
<1>13. CASE StagePassed
  <2>1. /\ disk'.tier = disk.tier /\ run'.list = run.list /\ run'.i = run.i + Cardinality(Now) /\ run.up
        /\ files'.answered = files.answered
        /\ files'.canon = IF At = "ba" THEN files.brief ELSE files.canon
    BY <1>1, <1>13 DEF StagePassed, Running, Canonical, Runner, Folder, Texts
  <2>2. run.list \in Lists /\ run.i \in 1..Len(run.list) /\ At = run.list[run.i]
    BY <1>13, InPlace DEF StagePassed, Running, Working
  <2>3. At = "ba" => files'.canon # "markers"
    BY <1>13, <2>1 DEF StagePassed, Gated
  <2>4. ASSUME files.answered, run.list = Menu(disk.tier), disk.tier # "S"
        PROVE files'.canon # "markers"
    <3>1. CASE run.i = 1
      BY <1>1, <2>2, <2>3, <2>4, <3>1, MenuStarts DEF Folder
    <3>2. CASE run.i # 1
      BY <2>1, <2>2, <2>3, <2>4, <3>2 DEF HeedInv
    <3> QED BY <3>1, <3>2
  <2>5. disk.tier = "S" => files'.canon # "markers"
    BY <2>1, <2>3 DEF HeedInv
  <2> QED BY <2>1, <2>4, <2>5 DEF HeedInv
<1>14. CASE HandedOff
  BY <1>1, <1>14 DEF HandedOff, HeedInv, Running, Parks, Runner, Folder
<1>15. CASE Moved
  BY <1>1, <1>15 DEF Moved, HeedInv, Running, Ends, Idle, Runner, Folder
<1>16. CASE Decided
  BY <1>1, <1>16 DEF Decided, HeedInv, Running, Runner, Folder
<1>17. CASE HotfixBegins
  BY <1>1, <1>17 DEF HotfixBegins, HeedInv, Running, Runner, Folder
<1>18. CASE TierUpgraded
  BY <1>1, <1>18 DEF TierUpgraded, HeedInv, Running, Runner, Folder
<1>19. CASE Approved
  BY <1>1, <1>19 DEF Approved, HeedInv, Running, Ends, Idle, Runner, Folder
<1>20. CASE StoppedForDecision
  BY <1>1, <1>20 DEF StoppedForDecision, HeedInv, Running, Parks, Runner, Folder
<1>21. CASE RunnerStart
  <2>1. disk'.tier = disk.tier /\ run'.list = Menu(disk.tier) /\ run'.i = 1 /\ files' = files
    BY <1>1, <1>21 DEF RunnerStart, Idle, Folder
  <2> QED BY <2>1 DEF HeedInv
<1>22. CASE RunnerDies
  <2>1. files'.canon = files.canon /\ files'.answered = files.answered
    BY <1>22, WrittenKeeps DEF RunnerDies
  <2>2. disk'.tier = disk.tier /\ ~run'.up
    BY <1>1, <1>22 DEF RunnerDies, Ends, Idle, Folder
  <2> QED BY <2>1, <2>2 DEF HeedInv
<1>23. CASE Continued
  BY <1>1, <1>23 DEF Continued, HeedInv, Runner, Folder
<1>24. CASE SweptAway
  BY <1>1, <1>24 DEF SweptAway, HeedInv, Runner, Folder
<1>25. ASSUME NEW answers \in BOOLEAN, Requeued(answers) PROVE HeedInv'
  BY <1>1, <1>25 DEF Requeued, HeedInv, Runner, Folder, Texts
<1>26. CASE UNCHANGED vars
  BY <1>26 DEF vars, HeedInv
<1> QED BY <1>2, <1>3, <1>4, <1>5, <1>6, <1>7, <1>8, <1>9, <1>10, <1>11, <1>12, <1>13, <1>14,
     <1>15, <1>16, <1>17, <1>18, <1>19, <1>20, <1>21, <1>22, <1>23, <1>24, <1>25,
     <1>26, <1>27 DEF Next, Pipeline, Counts

LEMMA Heeded == ASSUME TypeInv, HeedInv PROVE AnswersHeeded
<1> SUFFICES ASSUME Running("child"), At = "developer", files.answered
             PROVE files.canon # "markers"
  BY DEF AnswersHeeded
<1>1. run.list \in Lists /\ run.i \in 1..Len(run.list) /\ At = run.list[run.i]
  BY InPlace DEF Running, Working
<1>2. run.list = Menu(disk.tier)
  BY <1>1, Places DEF HeedInv, Running
<1>3. disk.tier # "S" => run.i > 1
  BY <1>1, <1>2, MenuStarts DEF TypeInv, TypeOK, DiskOK, Folder
<1> QED BY <1>2, <1>3 DEF HeedInv, Running

\* The developer never starts on a brief with open questions once a person has answered.
THEOREM AnswersAreHeeded == Spec => []AnswersHeeded
<1>1. Init => TypeInv
  BY InitTyped
<1>2. Init => HeedInv
  BY DEF Init, Idle, HeedInv
<1>3. TypeInv /\ [Next]_vars => TypeInv'
  BY NextTyped
<1>4. TypeInv /\ HeedInv /\ [Next]_vars => HeedInv'
  BY HeedStep
<1>5. TypeInv /\ HeedInv => AnswersHeeded
  BY Heeded
<1> QED BY <1>1, <1>2, <1>3, <1>4, <1>5, PTL DEF Spec

----------------------------------------------------------------------------
(* The review *)

\* A review that is no longer of the code in the branch is one that asks for changes: only
\* a developer outdates it, in a hotfix round that such a review has begun. That needs to
\* know that no other developer stage runs once there is a review (its artifact is there
\* already), whatever runner comes after whatever crash.
ReviewFirst ==
  /\ "reviewer" \in files.json => "developer" \in files.md
  /\ run.up /\ run.pc \in Working /\ At = "developer" => "reviewer" \notin files.json

DeveloperDone ==
  run.up => /\ (\E k \in 1..Len(run.list) : k < run.i /\ run.list[k] = "developer")
                 => "developer" \in files.md
            /\ (run.pc = "checks" \/ (run.pc = "account" /\ run.rc = "ok")) /\ At = "developer"
                 => "developer" \in files.md
            /\ run.list = Hotfix => "developer" \in files.md

Rounds ==
  run.up => /\ run.hot <=> run.list = Hotfix
            /\ run.hot /\ run.i = 1 => ~Clear

Judged ==
  run.up /\ run.pc = "decided"
    => /\ run.why = "approve" => "reviewer" \in files.json /\ Clear
       /\ run.why = "no_reviewer" => "reviewer" \notin files.json
       /\ run.why = "request_changes" => "reviewer" \in files.json /\ ~Clear

Outdating == Diligent /\ "reviewer" \in files.json => files.review.current \/ ~Clear

Standing ==
  disk.stage = "awaiting-approval" => ~run.up /\ ("reviewer" \in files.json => Clear)

ReviewInv == ReviewFirst /\ DeveloperDone /\ Rounds /\ Judged /\ Outdating /\ Standing

LEMMA ClearSame == ASSUME UNCHANGED files.review PROVE Clear' <=> Clear
  BY DEF Clear

\* A step that leaves the artifacts and the place in the list alone, and decides nothing.
LEMMA Quiet ==
  ASSUME TypeInv, ReviewInv, run.up,
         files'.md = files.md, files'.json = files.json, files'.review = files.review,
         disk'.stage # "awaiting-approval",
         run'.up => /\ run'.list = run.list /\ run'.i = run.i /\ run'.hot = run.hot
                    /\ run'.pc \notin {"decided", "account"}
                    /\ run'.pc = "checks" => (run.pc = "account" /\ run.rc = "ok") \/ At = "tester"
                    /\ run'.pc \in Working /\ run.pc \notin Working
                         => (At = "developer" => "reviewer" \notin files.json)
  PROVE ReviewInv'
<1>1. run'.up => At' = At
  BY DEF At
<1>2. Clear' <=> Clear
  BY ClearSame
<1>3. ReviewFirst'
  BY <1>1 DEF ReviewInv, ReviewFirst
<1>4. DeveloperDone'
  BY <1>1 DEF ReviewInv, DeveloperDone
<1>5. Rounds' /\ Judged' /\ Outdating' /\ Standing'
  BY <1>2 DEF ReviewInv, Rounds, Judged, Outdating, Standing
<1> QED BY <1>3, <1>4, <1>5 DEF ReviewInv

\* A step after which no runner is up, and no task is newly approved.
LEMMA AtRest ==
  ASSUME ReviewInv, ~run'.up,
         files'.md = files.md, files'.json = files.json, files'.review = files.review,
         disk'.stage # "awaiting-approval" \/ disk'.stage = disk.stage
  PROVE ReviewInv'
<1>1. Clear' <=> Clear
  BY ClearSame
<1> QED BY <1>1 DEF ReviewInv, ReviewFirst, DeveloperDone, Rounds, Judged, Outdating, Standing

\* What a developer, and only a developer, does to the review on file.
LEMMA Outdates ==
  ASSUME FilesOK, NEW ws \in SUBSET Stages, NEW f \in Written(ws)
  PROVE /\ files.md \subseteq f.md /\ f.json = files.json
        /\ (f.review.parsed <=> files.review.parsed)
        /\ f.review.critical = files.review.critical
        /\ ~Coding(ws) => f.review = files.review
        /\ "reviewer" \in ws => f.text.current
<1>1. files.review \in Verdicts /\ files.md \subseteq f.md /\ f.json = files.json
  BY DEF FilesOK, Texts, Written
<1>2. f.review = IF Coding(ws) THEN Outdated(files.review) ELSE files.review
  BY DEF Written
<1>3. /\ Outdated(files.review).parsed = files.review.parsed
      /\ Outdated(files.review).critical = files.review.critical
  BY <1>1 DEF Outdated, Verdicts
<1>4. "reviewer" \in ws => f.text.current
  BY DEF Written, NewVerdicts
<1> QED BY <1>1, <1>2, <1>3, <1>4

\* A developer at work means no review, or one that asks for changes.
LEMMA CodingUnclear ==
  ASSUME TypeInv, ReviewInv, run.up, run.pc \in Working, Coding(Now)
  PROVE /\ "reviewer" \in files.json => ~Clear
        /\ At \in {"developer", "developer-hotfix"} /\ Now = {At}
<1>1. At \in {"developer", "developer-hotfix"} /\ Now = {At}
  BY DEF Coding, Now
<1>2. At = "developer-hotfix" => ~Clear
  BY InPlace, Places DEF ReviewInv, Rounds
<1> QED BY <1>1, <1>2 DEF ReviewInv, ReviewFirst

LEMMA SkippedReview == ASSUME TypeInv, ReviewInv, StageSkipped PROVE ReviewInv'
<1>1. run \in Runner /\ disk \in Folder
  BY DEF TypeInv, TypeOK, DiskOK, RunOK
<1>2. /\ run.up /\ run'.up /\ run'.pc = "scan" /\ run'.list = run.list /\ run'.i = run.i + 1
      /\ run'.hot = run.hot /\ ~run.hot /\ files' = files /\ disk'.stage = disk.stage
  BY <1>1 DEF StageSkipped, Running, Runner, Folder
<1>3. At = "developer" => "developer" \in files.md
  BY DEF StageSkipped, Ready
<1>4. Clear' <=> Clear
  BY <1>2, ClearSame
<1>5. DeveloperDone'
  <2>1. ASSUME NEW k \in 1..Len(run.list), k < run'.i, run.list[k] = "developer"
        PROVE "developer" \in files.md
    <3>1. run.i \in Nat /\ k \in Nat /\ run'.i = run.i + 1
      BY <1>1, <1>2, ListsOfStages DEF Runner, Pos
    <3>2. CASE k = run.i
      BY <1>3, <2>1, <3>2 DEF At
    <3>3. CASE k < run.i
      BY <1>2, <2>1, <3>3 DEF ReviewInv, DeveloperDone
    <3> QED BY <2>1, <3>1, <3>2, <3>3
  <2> QED BY <1>2, <2>1 DEF ReviewInv, DeveloperDone
<1>6. ReviewFirst' /\ Rounds' /\ Judged' /\ Outdating' /\ Standing'
  BY <1>2, <1>4 DEF ReviewInv, ReviewFirst, Rounds, Judged, Outdating, Standing, Working
<1> QED BY <1>5, <1>6 DEF ReviewInv

LEMMA PassedReview == ASSUME TypeInv, ReviewInv, StagePassed PROVE ReviewInv'
<1>1. run \in Runner /\ files \in Texts
  BY DEF TypeInv, TypeOK, FilesOK, RunOK
<1>2. /\ run.up /\ run.pc = "checks" /\ run'.up /\ run'.pc = "scan" /\ run'.list = run.list
      /\ run'.i = run.i + Cardinality(Now) /\ run'.hot = run.hot /\ disk' = disk
  BY <1>1 DEF StagePassed, Running, Runner
<1>3. files'.md = files.md /\ files'.json = files.json /\ files'.review = files.review
  BY <1>1 DEF StagePassed, Canonical, Texts
<1>4. Clear' <=> Clear
  BY <1>3, ClearSame
<1>5. run.list \in Lists /\ run.i \in 1..Len(run.list) /\ At = run.list[run.i]
  BY <1>2, InPlace DEF Working
<1>6. Cardinality(Now) \in Nat /\ (At # "tester" => Cardinality(Now) = 1)
  <2>1. Cardinality(Now) \in Nat
    BY <1>5, NowOK DEF TypeInv, TypeOK
  <2>2. At # "tester" => Now = {At}
    BY DEF Now
  <2> QED BY <2>1, <2>2, FS_Singleton
<1>7. run'.i # 1 \/ (run'.i = run.i /\ At = "tester")
  BY <1>2, <1>5, <1>6
<1>8. DeveloperDone'
  <2>1. ASSUME NEW k \in 1..Len(run.list), k < run'.i, run.list[k] = "developer"
        PROVE "developer" \in files.md
    <3>1. CASE k < run.i
      BY <1>2, <1>5, <2>1, <3>1 DEF ReviewInv, DeveloperDone
    <3>2. CASE k = run.i
      BY <1>2, <1>5, <2>1, <3>2 DEF ReviewInv, DeveloperDone
    <3>3. CASE k > run.i
      <4>1. At = "tester"
        BY <1>2, <1>5, <1>6, <2>1, <3>3
      <4>2. \A j \in 1..Len(run.list) : j >= run.i => run.list[j] # "developer"
        <5>1. run.list[run.i] = "tester" /\ run.list \in Lists /\ run.i \in 1..Len(run.list)
          BY <1>5, <4>1
        <5> QED BY <5>1, Places
      <4> QED BY <1>5, <2>1, <3>3, <4>2
    <3> QED BY <1>5, <3>1, <3>2, <3>3
  <2> QED BY <1>2, <1>3, <2>1 DEF ReviewInv, DeveloperDone
<1>9. ReviewFirst' /\ Rounds' /\ Judged' /\ Outdating' /\ Standing'
  BY <1>2, <1>3, <1>4, <1>7 DEF ReviewInv, ReviewFirst, Rounds, Judged, Outdating, Standing, Working
<1> QED BY <1>8, <1>9 DEF ReviewInv

LEMMA ReturnedReview == ASSUME TypeInv, ReviewInv, StageReturns PROVE ReviewInv'
<1>1. run \in Runner /\ disk \in Folder /\ files \in Texts
  BY DEF TypeInv, TypeOK, DiskOK, FilesOK, RunOK
<1>2. run.up /\ run.pc = "child" /\ run.pc \in Working
  BY DEF StageReturns, Running, Working
<1>3. run.list \in Lists /\ run.i \in 1..Len(run.list) /\ At = run.list[run.i] /\ Now \subseteq Stages
  BY <1>2, InPlace, NowOK DEF TypeInv, TypeOK, Placed
<1>4a. PICK rc \in Rcs, ws \in SUBSET Now, known \in BOOLEAN : \E f \in Written(ws) :
        /\ rc \in {"ok", "violation"} => (\A s \in Now : Artifact(s) \in f.md) /\ (Diligent => ws = Now)
        /\ rc = "violation" => Coding(Now) /\ known
        /\ files' = IF rc \in {"ok", "violation"} THEN Structured(f) ELSE f
        /\ disk' = [disk EXCEPT !.lock = @ \/ (rc = "ok" /\ Coding(Now) /\ known)]
        /\ run' = [run EXCEPT !.pc = "account", !.rc = rc]
  BY ZenonT(20) DEF StageReturns
<1>4. PICK f \in Written(ws) :
        /\ rc \in {"ok", "violation"} => (\A s \in Now : Artifact(s) \in f.md) /\ (Diligent => ws = Now)
        /\ rc = "violation" => Coding(Now) /\ known
        /\ files' = IF rc \in {"ok", "violation"} THEN Structured(f) ELSE f
        /\ disk' = [disk EXCEPT !.lock = @ \/ (rc = "ok" /\ Coding(Now) /\ known)]
        /\ run' = [run EXCEPT !.pc = "account", !.rc = rc]
  BY <1>4a
<1>5. /\ run'.up /\ run'.pc = "account" /\ run'.rc = rc /\ run'.list = run.list /\ run'.i = run.i
      /\ run'.hot = run.hot /\ disk'.stage = disk.stage
  BY <1>1, <1>2, <1>4 DEF Runner, Folder
<1>6. At' = At
  BY <1>5 DEF At
<1>7. f \in Texts /\ FilesOK
  BY <1>1, <1>3, <1>4, WrittenOK DEF FilesOK
<1>8. /\ files.md \subseteq f.md /\ f.json = files.json
      /\ (f.review.parsed <=> files.review.parsed) /\ f.review.critical = files.review.critical
      /\ ~Coding(ws) => f.review = files.review
      /\ "reviewer" \in ws => f.text.current
  BY <1>3, <1>4, <1>7, Outdates
<1>9. /\ files'.md = f.md
      /\ files.json \subseteq files'.json
      /\ files'.json \subseteq files.json \cup {Artifact(s) : s \in Now}
      /\ files'.review = IF rc \in {"ok", "violation"} /\ At = "reviewer" THEN f.text ELSE f.review
  BY <1>4, <1>7, <1>8 DEF Structured, Texts
<1>10. "developer" \in files.md => "developer" \in files'.md
  BY <1>8, <1>9
<1>11. "reviewer" \in files'.json => "reviewer" \in files.json \/ At = "reviewer"
  BY <1>9 DEF Artifact, Now
<1>12. At = "reviewer" => "developer" \in files.md
  <2>1. CASE run.list = Hotfix
    BY <1>2, <2>1 DEF ReviewInv, DeveloperDone
  <2>2. CASE run.list # Hotfix
    BY <1>2, <1>3, <2>2, Places DEF ReviewInv, DeveloperDone
  <2> QED BY <2>1, <2>2
<1>13. At # "reviewer" => (Clear' <=> Clear)
  BY <1>8, <1>9 DEF Clear
<1>14. ReviewFirst'
  <2>1. "reviewer" \in files'.json => "developer" \in files'.md
    BY <1>10, <1>11, <1>12 DEF ReviewInv, ReviewFirst
  <2>2. At = "developer" => "reviewer" \notin files'.json
    BY <1>2, <1>11 DEF ReviewInv, ReviewFirst
  <2> QED BY <1>6, <2>1, <2>2 DEF ReviewFirst
<1>15. DeveloperDone'
  <2>1. rc = "ok" /\ At = "developer" => "developer" \in files'.md
    <3>1. At = "developer" => At \in Now /\ Artifact(At) = "developer"
      BY DEF Now, Artifact
    <3> QED BY <1>4, <1>9, <3>1
  <2> QED BY <1>2, <1>5, <1>6, <1>10, <2>1 DEF ReviewInv, DeveloperDone
<1>16. Rounds'
  <2>1. run.hot /\ run.i = 1 => At = "developer-hotfix"
    BY <1>2, <1>3, Places DEF ReviewInv, Rounds
  <2> QED BY <1>2, <1>5, <1>13, <2>1 DEF ReviewInv, Rounds
<1>17. Outdating'
  <2> SUFFICES ASSUME Diligent, "reviewer" \in files'.json PROVE files'.review.current \/ ~Clear'
    BY DEF Outdating
  <2>1. CASE Coding(Now)
    <3>1. /\ "reviewer" \in files.json => ~Clear
          /\ At \in {"developer", "developer-hotfix"}
      BY <1>2, <2>1, CodingUnclear
    <3> QED BY <1>11, <1>13, <3>1
  <2>2. CASE ~Coding(Now)
    <3>1. ~Coding(ws)
      BY <1>4, <2>2 DEF Coding
    <3>2. CASE rc = "ok" /\ At = "reviewer"
      <4>1. ws = Now /\ "reviewer" \in Now
        BY <1>4, <3>2 DEF Now
      <4> QED BY <1>8, <1>9, <3>2, <4>1
    <3>3. CASE At = "reviewer" /\ rc # "ok"
      <4>1. files' = f
        BY <1>4, <2>2, <3>3
      <4>2. files'.review = files.review /\ files'.json = files.json
        BY <1>8, <3>1, <4>1
      <4> QED BY <4>2, ClearSame DEF ReviewInv, Outdating
    <3>4. CASE At # "reviewer"
      BY <1>8, <1>9, <1>11, <1>13, <3>1, <3>4 DEF ReviewInv, Outdating
    <3> QED BY <3>2, <3>3, <3>4
  <2> QED BY <2>1, <2>2
<1>18. Judged' /\ Standing'
  BY <1>2, <1>5 DEF ReviewInv, Judged, Standing
<1> QED BY <1>14, <1>15, <1>16, <1>17, <1>18 DEF ReviewInv

LEMMA DiedReview == ASSUME TypeInv, ReviewInv, RunnerDies PROVE ReviewInv'
<1>1. run.up /\ ~run'.up /\ disk' = disk
  BY DEF RunnerDies, Ends, Idle
<1>2. CASE run.pc # "child"
  BY <1>1, <1>2, AtRest DEF RunnerDies
<1>3. CASE run.pc = "child"
  <2>1. PICK ws \in SUBSET Now : files' \in Written(ws)
    BY <1>3 DEF RunnerDies
  <2>2. Now \subseteq Stages /\ FilesOK
    BY <1>3, NowOK DEF TypeInv, TypeOK, Placed, Working
  <2>3. /\ files.md \subseteq files'.md /\ files'.json = files.json
        /\ (files'.review.parsed <=> files.review.parsed)
        /\ files'.review.critical = files.review.critical
        /\ ~Coding(ws) => files'.review = files.review
    BY <2>1, <2>2, Outdates
  <2>4. Clear' <=> Clear
    BY <2>3 DEF Clear
  <2>5. Outdating'
    <3>1. CASE Coding(ws)
      <4>1. Coding(Now)
        BY <3>1 DEF Coding
      <4>2. "reviewer" \in files.json => ~Clear
        BY <1>1, <1>3, <4>1, CodingUnclear DEF Working
      <4> QED BY <2>3, <2>4, <4>2 DEF Outdating
    <3>2. CASE ~Coding(ws)
      BY <2>3, <2>4, <3>2 DEF ReviewInv, Outdating
    <3> QED BY <3>1, <3>2
  <2> QED BY <1>1, <2>3, <2>4, <2>5
          DEF ReviewInv, ReviewFirst, DeveloperDone, Rounds, Judged, Standing
<1> QED BY <1>2, <1>3

\* The judgement after the last stage, and what follows from it.
LEMMA DecidedReview ==
  ASSUME TypeInv, ReviewInv, Decided \/ HotfixBegins \/ Approved
  PROVE ReviewInv'
<1>1. run \in Runner /\ disk \in Folder /\ run.up
  BY DEF TypeInv, TypeOK, DiskOK, RunOK, Decided, HotfixBegins, Approved, Running
<1>2. files' = files /\ (Clear' <=> Clear)
  BY ClearSame DEF Decided, HotfixBegins, Approved
<1>3. CASE Decided
  <2>1. /\ run'.pc = "decided" /\ run'.list = run.list /\ run'.i = run.i /\ run'.hot = run.hot
        /\ run'.why = Decision /\ disk'.stage = disk.stage
    BY <1>1, <1>3 DEF Decided, Runner, Folder
  <2>2. Judged'
    BY <1>2, <2>1 DEF Decision, Judgement, Judged
  <2> QED BY <1>1, <1>2, <2>1, <2>2
          DEF ReviewInv, ReviewFirst, DeveloperDone, Rounds, Outdating, Standing, Working
<1>4. CASE HotfixBegins
  <2>1. "reviewer" \in files.json /\ ~Clear
    BY <1>4 DEF HotfixBegins, Running, ReviewInv, Judged
  <2>2. /\ run'.pc = "scan" /\ run'.list = Hotfix /\ run'.i = 1 /\ run'.hot /\ disk'.stage = disk.stage
    BY <1>1, <1>4 DEF HotfixBegins, Runner, Folder
  <2>3. "developer" \in files.md
    BY <2>1 DEF ReviewInv, ReviewFirst
  <2> QED BY <1>1, <1>2, <2>1, <2>2, <2>3
          DEF ReviewInv, ReviewFirst, DeveloperDone, Rounds, Judged, Outdating, Standing, Working
<1>5. CASE Approved
  <2>1. ~run'.up
    BY <1>5 DEF Approved, Ends, Idle
  <2>2. "reviewer" \in files.json => Clear
    BY <1>5 DEF Approved, Running, ReviewInv, Judged
  <2> QED BY <1>2, <2>1, <2>2
          DEF ReviewInv, ReviewFirst, DeveloperDone, Rounds, Judged, Outdating, Standing
<1> QED BY <1>3, <1>4, <1>5

LEMMA StartedReview == ASSUME TypeInv, ReviewInv, RunnerStart PROVE ReviewInv'
<1>1. disk \in Folder /\ disk.tier \in AllTiers
  BY DEF TypeInv, TypeOK, DiskOK, Folder
<1>2. /\ run'.pc = "scan" /\ run'.list = Menu(disk.tier) /\ run'.i = 1 /\ ~run'.hot /\ files' = files
      /\ disk'.stage = Menu(disk.tier)[1]
  BY <1>1 DEF RunnerStart, Idle, Folder
<1>3. Menu(disk.tier) # Hotfix
  BY <1>1, MenuStarts
<1>4. Menu(disk.tier)[1] # "awaiting-approval"
  <2>1. Menu(disk.tier)[1] \in Stages
    BY <1>1, ListsOK, ListsOfStages DEF Pos
  <2> QED BY <2>1 DEF Stages
<1>5. Clear' <=> Clear
  BY <1>2, ClearSame
<1>6. DeveloperDone'
  <2>1. \A k \in 1..Len(run'.list) : ~(k < run'.i)
    BY <1>2
  <2> QED BY <1>2, <1>3, <2>1 DEF DeveloperDone
<1> QED BY <1>2, <1>3, <1>4, <1>5, <1>6
        DEF ReviewInv, ReviewFirst, Rounds, Judged, Outdating, Standing, Working

\* A task at work is not approved yet.
LEMMA NotYet == ASSUME ReviewInv, run.up PROVE disk.stage # "awaiting-approval"
  BY DEF ReviewInv, Standing

\* The steps that leave the review and its course alone.
LEMMA QuietReview ==
  ASSUME TypeInv, ReviewInv,
         \/ StageBegins \/ StageRefused \/ LimitsParked \/ StageRetried \/ StageFailed \/ Joined
         \/ CapStopped \/ ClarifyPaused \/ GateBlocked \/ HandedOff \/ Moved \/ TierUpgraded
         \/ StoppedForDecision
  PROVE ReviewInv'
<1>1. run \in Runner /\ disk \in Folder /\ files \in Texts
  BY DEF TypeInv, TypeOK, DiskOK, FilesOK, RunOK
<1>2. CASE StageBegins
  <2>1. /\ run.up /\ run'.up /\ run'.pc = "child" /\ run'.list = run.list /\ run'.i = run.i
        /\ run'.hot = run.hot /\ files' = files /\ disk'.stage = At /\ run.i <= Len(run.list)
    BY <1>1, <1>2 DEF StageBegins, Due, Running, Runner, Folder
  <2>2. At = "developer" => "reviewer" \notin files.json
    <3>1. At = "developer" => run.list # Hotfix
      BY <2>1, InPlace, Places
    <3>2. At = "developer" => ~Ready(At)
      BY <1>2, <2>1, <3>1 DEF StageBegins, Due, Reruns, ReviewInv, Rounds
    <3> QED BY <3>2 DEF Ready, ReviewInv, ReviewFirst
  <2>3. At # "awaiting-approval"
    <3>1. At \in Stages
      BY <2>1, NowOK DEF TypeInv, TypeOK
    <3> QED BY <3>1 DEF Stages
  <2> QED BY <2>1, <2>2, <2>3, Quiet
<1>3. CASE StageRefused
  BY <1>1, <1>3, NotYet, Quiet DEF StageRefused, Running, Working, Runner, Folder
<1>4. CASE Joined
  <2>1. /\ run.up /\ run.pc \in {"account", "join"} /\ files' = files
        /\ disk'.stage = disk.stage /\ disk.stage # "awaiting-approval"
    BY <1>4, Joining, NotYet
  <2>2. CASE Ends("exit")
    BY <2>1, <2>2, IdleOK, AtRest DEF Ends, Runner
  <2>3. CASE ~Ends("exit")
    <3>1. /\ run'.list = run.list /\ run'.i = run.i /\ run'.hot = run.hot
          /\ run'.pc \in {"checks", "handoff"}
      BY <1>4, <2>3, Joining
    <3>2. run'.pc = "checks" => (run.pc = "account" /\ run.rc = "ok") \/ At = "tester"
      BY <1>4, <2>3, Joining
    <3>3. run.pc \in Working
      BY <2>1 DEF Working
    <3> QED BY <2>1, <3>1, <3>2, <3>3, Quiet
  <2> QED BY <2>2, <2>3
<1>5. CASE LimitsParked
  BY <1>1, <1>5, NotYet, Quiet DEF LimitsParked, Running, Parks, Working, Runner, Folder
<1>6. CASE StageRetried
  <2>1. PICK again \in SUBSET Now : run' = [run EXCEPT !.pc = "child", !.tries = @ + 1, !.left = again]
    BY <1>6 DEF StageRetried
  <2> QED BY <1>1, <1>6, <2>1, NotYet, Quiet DEF StageRetried, Counted, Running, Working, Runner
<1>7. CASE StageFailed
  BY <1>1, <1>7, NotYet, Quiet DEF StageFailed, Counted, Running, Goes, Working, Runner, Folder
<1>8. CASE CapStopped
  BY <1>1, <1>8, NotYet, Quiet DEF CapStopped, Running, Parks, Working, Runner, Folder,
     Canonical, Texts
<1>9. CASE ClarifyPaused
  BY <1>1, <1>9, NotYet, Quiet DEF ClarifyPaused, Running, Parks, Working, Runner, Folder,
     Canonical, Texts
<1>10. CASE GateBlocked
  BY <1>1, <1>10, NotYet, Quiet DEF GateBlocked, Running, Goes, Working, Runner, Folder,
     Canonical, Texts
<1>11. CASE HandedOff
  BY ZenonT(20), <1>1, <1>11, NotYet, Quiet DEF HandedOff, Running, Parks, Working, Runner, Folder
<1>12. CASE StoppedForDecision
  BY <1>1, <1>12, NotYet, Quiet DEF StoppedForDecision, Running, Parks, Working, Runner, Folder
<1>13. CASE TierUpgraded
  BY <1>1, <1>13, NotYet, Quiet DEF TierUpgraded, Running, Working, Runner, Folder
<1>14. CASE Moved
  BY <1>1, <1>14, NotYet, AtRest DEF Moved, Running, Ends, Idle, Folder
<1> QED BY <1>2, <1>3, <1>4, <1>5, <1>6, <1>7, <1>8, <1>9, <1>10, <1>11, <1>12, <1>13, <1>14

\* The first of the pair to be through writes no review and no code.
LEMMA CountedReview == ASSUME TypeInv, ReviewInv, NEW s \in Stages, Counts(s) PROVE ReviewInv'
<1>1. PICK c \in Nat : Bill(s, c)
  BY CountsOne
<1>2. /\ UNCHANGED <<run.up, run.pc, run.list, run.i, run.hot, run.rc, run.why, disk.stage>>
      /\ run.up /\ run.pc \in {"child", "account"}
  BY <1>1, Billed, CountsOne
<1>3. /\ files'.review = files.review /\ files.md \subseteq files'.md
      /\ "reviewer" \in files'.json => "reviewer" \in files.json
  BY CountKeeps
<1>4. At' = At
  BY <1>2 DEF At
<1>5. Clear' <=> Clear
  BY <1>3, ClearSame
<1>6. disk.stage # "awaiting-approval"
  BY <1>2, NotYet
<1>7. ReviewFirst' /\ DeveloperDone'
  BY <1>2, <1>3, <1>4 DEF ReviewInv, ReviewFirst, DeveloperDone
<1>8. Rounds' /\ Judged' /\ Outdating' /\ Standing'
  BY <1>2, <1>3, <1>5, <1>6 DEF ReviewInv, Rounds, Judged, Outdating, Standing
<1> QED BY <1>7, <1>8 DEF ReviewInv

LEMMA HandsReview ==
  ASSUME TypeInv, ReviewInv, SweptAway \/ Continued \/ \E answers \in BOOLEAN : Requeued(answers)
  PROVE ReviewInv'
<1>1. run \in Runner /\ disk \in Folder /\ files \in Texts
  BY DEF TypeInv, TypeOK, DiskOK, FilesOK, RunOK
<1>2. ~run'.up
  BY <1>1 DEF SweptAway, Continued, Requeued, Runner
<1>3. files'.md = files.md /\ files'.json = files.json /\ files'.review = files.review
  BY <1>1 DEF SweptAway, Continued, Requeued, Texts
<1>4. disk'.stage # "awaiting-approval" \/ disk'.stage = disk.stage
  BY <1>1 DEF SweptAway, Continued, Requeued, Folder
<1> QED BY <1>2, <1>3, <1>4, AtRest

LEMMA ReviewStep == ASSUME TypeInv, ReviewInv, [Next]_vars PROVE ReviewInv'
<1>1. CASE UNCHANGED vars
  BY <1>1 DEF vars, ReviewInv, ReviewFirst, DeveloperDone, Rounds, Judged, Outdating, Standing, Clear, At
<1> QED BY <1>1, SkippedReview, PassedReview, ReturnedReview, DiedReview, DecidedReview, StartedReview,
           QuietReview, CountedReview, HandsReview DEF Next, Pipeline, Counts

\* A task with a review on file is approved on a review without critical findings, and of
\* the code that is in the branch, for every cap, crash, requeue and backend.
THEOREM ApprovedOnReview == Spec => []ApprovalCurrent
<1>1. Init => TypeInv
  BY InitTyped
<1>2. Init => ReviewInv
  BY DEF Init, Idle, ReviewInv, ReviewFirst, DeveloperDone, Rounds, Judged, Outdating, Standing
<1>3. TypeInv /\ [Next]_vars => TypeInv'
  BY NextTyped
<1>4. TypeInv /\ ReviewInv /\ [Next]_vars => ReviewInv'
  BY ReviewStep
<1>5. ReviewInv => ApprovalCurrent
  BY DEF ReviewInv, Standing, Outdating, Clear, ApprovalCurrent
<1> QED BY <1>1, <1>2, <1>3, <1>4, <1>5, PTL DEF Spec
=============================================================================
