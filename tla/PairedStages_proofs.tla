------------------------ MODULE PairedStages_proofs ------------------------
(***************************************************************************)
(* What TLAPS proves of PairedStages for every number of retries, every    *)
(* set of bills and every cap.                                             *)
(***************************************************************************)
EXTENDS PairedStages, TLAPS

----------------------------------------------------------------------------
(* One thread. *)

Thread == [at : Steps, rc : Outcomes, tries : 0..Retries, left : 0..Retries, bill : Nat]

\* How far a thread is tells how its last attempt ended, and what it may still cost.
Fits(at, rc, tries, left, bill) ==
  /\ tries + left <= Retries
  /\ at = "retry" => left > 0
  /\ at \in {"begin", "persist", "spawn", "born", "running", "retry", "failing"} => rc \notin {"ok", "cap"}
  /\ at \in {"clear", "finish", "tokens", "reload", "capped"} => rc = "ok"
  /\ at \in {"reap", "mark", "park"} => rc = "stall"
  /\ at \in {"back", "failing", "done"} => rc # "none"
  /\ rc = "cap" => at \in Over
  /\ rc \notin {"ok", "cap"} => bill = 0

ThreadOK(x) == Fits(x.at, x.rc, x.tries, x.left, x.bill)

\* A stage whose tokens are in the sum of state.json, and its part of the sum.
Counted(x) == x.at \in {"reload", "capped"} \/ (x.at = "done" /\ x.rc \in {"ok", "cap"})

Share(x) == IF Counted(x) THEN x.bill ELSE 0

Capped(x) == x.at = "capped" \/ x.rc = "cap"

Threads == th \in [Pair -> Thread] /\ \A s \in Pair : ThreadOK(th[s])

LEMMA Words ==
  /\ Steps = {"begin", "persist", "spawn", "born", "running", "clear", "back", "retry", "failing",
              "finish", "tokens", "capped", "reload", "reap", "mark", "park", "done", "raised", "gone"}
  /\ Outcomes = {"none", "ok", "fail", "timeout", "stall", "cap"}
  /\ Over = {"done", "raised", "gone"}
  /\ Pair = {"tester", "security"}
  BY DEF Steps, Outcomes, Over, Pair

----------------------------------------------------------------------------
(* Type correctness. *)

Json == [stage : {"running", "failed", "waiting-limits"}, cost : Nat, tokens : Nat, sessions : SUBSET Pair]

Others ==
  /\ known \subseteq Pair
  /\ json \in Json
  /\ torn \in Pair \cup {Nobody}
  /\ folder \in {"active", "failed", "deleted"} \cup Parked
  /\ ghost \in BOOLEAN
  /\ alive \subseteq Pair /\ tracked \subseteq Pair
  /\ main \in {"waiting", "stopping", "handing", "reviewer", "ended", "crashed", "killed"}
  /\ told \in [limit : Nat, budget : Nat, handoff : Nat]

LEMMA TypeParts == Others /\ Threads => TypeOK
  BY DEF Others, Threads, Thread, TypeOK, Json

\* The rewrites of state.json.
LEMMA JsonEdits ==
  ASSUME NEW j \in Json, NEW n \in Nat, NEW S \in SUBSET Pair,
         NEW w \in {"running", "failed", "waiting-limits"}
  PROVE /\ [j EXCEPT !.stage = w] \in Json /\ [j EXCEPT !.stage = w].tokens = j.tokens
        /\ [j EXCEPT !.cost = n] \in Json /\ [j EXCEPT !.cost = n].tokens = j.tokens
        /\ [j EXCEPT !.cost = n].cost = n
        /\ [j EXCEPT !.sessions = S] \in Json /\ [j EXCEPT !.sessions = S].tokens = j.tokens
        /\ [j EXCEPT !.tokens = n] \in Json /\ [j EXCEPT !.tokens = n].tokens = n
  BY DEF Json

\* A write reaches the file or is dropped.
LEMMA WrittenOK ==
  ASSUME Others, NEW s \in Pair, NEW new \in Json, new.tokens = json.tokens, Written(s, new)
  PROVE json' \in Json /\ json'.tokens = json.tokens /\ torn' \in Pair \cup {Nobody}
  BY DEF Written, Others

(* What all steps of a thread have in common: the thread s goes on, the other *)
(* stays where it is.                                                         *)
Goes1(s) ==
  /\ main = "waiting" /\ main' = main
  /\ th[s].at \notin Over
  /\ th' \in [Pair -> Thread] /\ ThreadOK(th'[s])
  /\ \A u \in Pair : u # s => th'[u] = th[u]
  /\ Others'

\* ... and what the sums, the folder and the children owe to it.
Quiet(s) ==
  /\ folder' = folder /\ told' = told
  /\ json'.tokens = json.tokens
  /\ \/ th'[s].at = "raised"
     \/ /\ Counted(th'[s]) <=> Counted(th[s])
        /\ Counted(th[s]) => th'[s].bill = th[s].bill
        /\ Capped(th[s]) => Capped(th'[s])
  /\ \A u \in alive' : u \in alive \/ u = s
  /\ s \in alive' => th'[s].at \in {"born", "running"}

\* No child of a thread runs outside _run_claude_stage.
Minded == main # "killed" => \A s \in alive : th[s].at \in {"born", "running"}

LEMMA Moved ==
  ASSUME Threads, NEW s \in Pair, NEW y \in Thread
  PROVE /\ [th EXCEPT ![s] = y] \in [Pair -> Thread]
        /\ [th EXCEPT ![s] = y][s] = y
        /\ \A u \in Pair : u # s => [th EXCEPT ![s] = y][u] = th[u]
  BY DEF Threads

LEMMA AtOnly ==
  ASSUME Threads, NEW s \in Pair, NEW pc \in Steps
  PROVE LET y == [th[s] EXCEPT !.at = pc]
        IN  /\ y \in Thread /\ y.at = pc /\ y.rc = th[s].rc /\ y.bill = th[s].bill
            /\ y.tries = th[s].tries /\ y.left = th[s].left
            /\ [th EXCEPT ![s].at = pc] = [th EXCEPT ![s] = y]
  BY DEF Threads, Thread

----------------------------------------------------------------------------
(* The steps of a thread, one by one. *)

PairInv0 == Threads /\ Others /\ Minded

\* A step that only moves the thread on.
LEMMA StepOnly ==
  ASSUME PairInv0, NEW s \in Pair, NEW pc \in Steps, main = "waiting", main' = main,
         th[s].at \notin Over, Goes(s, pc), Others',
         Fits(pc, th[s].rc, th[s].tries, th[s].left, th[s].bill)
  PROVE /\ Goes1(s)
        /\ th'[s].at = pc /\ th'[s].rc = th[s].rc /\ th'[s].bill = th[s].bill
<1> DEFINE y == [th[s] EXCEPT !.at = pc]
<1>1. /\ y \in Thread /\ y.at = pc /\ y.rc = th[s].rc /\ y.bill = th[s].bill
      /\ y.tries = th[s].tries /\ y.left = th[s].left
      /\ th' = [th EXCEPT ![s] = y]
  BY AtOnly DEF PairInv0, Goes
<1> HIDE DEF y
<1>2. ThreadOK(y)
  BY <1>1 DEF ThreadOK
<1> QED BY <1>1, <1>2, Moved DEF PairInv0, Goes1

\* What is known of a thread at a step.
LEMMA Place ==
  ASSUME PairInv0, NEW s \in Pair, NEW pc \in Steps, At(s, pc)
  PROVE /\ main = "waiting" /\ th[s].at = pc /\ th[s] \in Thread
        /\ Fits(pc, th[s].rc, th[s].tries, th[s].left, th[s].bill)
        /\ th[s].tries \in 0..Retries /\ th[s].left \in 0..Retries /\ th[s].bill \in Nat
        /\ th[s].rc \in Outcomes
  BY DEF PairInv0, Threads, At, ThreadOK, Thread

\* A step that changes nothing but its place and state.json, outside the child's life.
LEMMA Simple ==
  ASSUME PairInv0, NEW s \in Pair, NEW from \in Steps \ Over, NEW to \in Steps, At(s, from), Goes(s, to),
         UNCHANGED <<known, folder, ghost, alive, tracked, main, told>>,
         json' \in Json, json'.tokens = json.tokens, torn' \in Pair \cup {Nobody},
         Fits(to, th[s].rc, th[s].tries, th[s].left, th[s].bill),
         from \notin {"born", "running"},
         \/ to = "raised"
         \/ /\ from # "capped" /\ to # "capped"
            /\ from = "reload" <=> to = "reload" \/ (to = "done" /\ th[s].rc \in {"ok", "cap"})
  PROVE Goes1(s) /\ Quiet(s)
<1>1. main = "waiting" /\ th[s].at = from /\ th[s].at \notin Over /\ from \in Steps
  BY Place
<1>2. Others'
  BY DEF PairInv0, Others
<1>3. Goes1(s) /\ th'[s].at = to /\ th'[s].rc = th[s].rc /\ th'[s].bill = th[s].bill
  BY <1>1, <1>2, StepOnly
<1>4. s \notin alive
  BY <1>1 DEF PairInv0, Minded
<1>5. from \notin Over
  OBVIOUS
<1> QED BY <1>1, <1>3, <1>4, <1>5, Words DEF Quiet, Counted, Capped

LEMMA SimpleOK ==
  ASSUME PairInv0, NEW s \in Pair,
         \/ Raised(s) \/ StageBegun(s) \/ SessionStored(s) \/ SessionCleared(s) \/ StageFailed(s)
         \/ StageFinished(s) \/ Reloaded(s) \/ ParkSkipped(s) \/ ParkMarked(s)
  PROVE Goes1(s) /\ Quiet(s)
<1> DEFINE Same == json' \in Json /\ json'.tokens = json.tokens /\ torn' \in Pair \cup {Nobody}
           Still == UNCHANGED <<known, folder, ghost, alive, tracked, main, told>>
<1>0. /\ json \in Json /\ torn \in Pair \cup {Nobody} /\ known \subseteq Pair
      /\ \A w \in {"running", "failed", "waiting-limits"} :
           [json EXCEPT !.stage = w] \in Json /\ [json EXCEPT !.stage = w].tokens = json.tokens
      /\ \A S \in SUBSET Pair :
           [json EXCEPT !.sessions = S] \in Json /\ [json EXCEPT !.sessions = S].tokens = json.tokens
  BY JsonEdits DEF PairInv0, Others
<1>1. \A new \in Json : new.tokens = json.tokens /\ Written(s, new) => Same
  BY WrittenOK DEF PairInv0
<1>2. UNCHANGED <<json, torn>> => Same
  BY <1>0
<1> HIDE DEF Same
<1>3. CASE Raised(s)
  <2>1. PICK pc \in {"begin", "back", "retry", "failing", "finish", "capped", "tokens", "reload"} :
           At(s, pc) /\ Goes(s, "raised")
    BY <1>3 DEF Raised
  <2>2. Still /\ Same
    BY <1>2, <1>3 DEF Raised, OnlyThread
  <2>3. pc \in Steps \ Over /\ "raised" \in Steps /\ pc \notin {"born", "running"}
    BY <2>1, Words
  <2>4. Fits(pc, th[s].rc, th[s].tries, th[s].left, th[s].bill)
    BY <2>1, <2>3, Place
  <2>5. Fits("raised", th[s].rc, th[s].tries, th[s].left, th[s].bill)
    BY <2>4, Words DEF Fits
  <2> QED BY <2>1, <2>2, <2>3, <2>5, Simple DEF Same
<1>4. CASE StageBegun(s)
  <2>1. At(s, "begin") /\ Goes(s, "persist") /\ Still /\ Same
    BY <1>0, <1>1, <1>4 DEF StageBegun
  <2>2. "begin" \in Steps \ Over /\ "persist" \in Steps
    BY Words
  <2>3. Fits("persist", th[s].rc, th[s].tries, th[s].left, th[s].bill)
    BY <2>1, <2>2, Place, Words DEF Fits
  <2> QED BY <2>1, <2>2, <2>3, Simple DEF Same
<1>5. CASE SessionStored(s)
  <2>1. At(s, "persist") /\ Goes(s, "spawn") /\ Still /\ Same
    BY <1>0, <1>1, <1>2, <1>5 DEF SessionStored
  <2>2. "persist" \in Steps \ Over /\ "spawn" \in Steps
    BY Words
  <2>3. Fits("spawn", th[s].rc, th[s].tries, th[s].left, th[s].bill)
    BY <2>1, <2>2, Place, Words DEF Fits
  <2> QED BY <2>1, <2>2, <2>3, Simple DEF Same
<1>6. CASE SessionCleared(s)
  <2>1. At(s, "clear") /\ Goes(s, "back") /\ Still /\ Same
    BY <1>0, <1>1, <1>2, <1>6 DEF SessionCleared
  <2>2. "clear" \in Steps \ Over /\ "back" \in Steps
    BY Words
  <2>3. Fits("back", th[s].rc, th[s].tries, th[s].left, th[s].bill)
    BY <2>1, <2>2, Place, Words DEF Fits
  <2> QED BY <2>1, <2>2, <2>3, Simple DEF Same
<1>7. CASE StageFailed(s)
  <2>1. At(s, "failing") /\ Goes(s, "done") /\ Still /\ Same
    BY <1>0, <1>1, <1>7 DEF StageFailed
  <2>2. "failing" \in Steps \ Over /\ "done" \in Steps
    BY Words
  <2>3. Fits("failing", th[s].rc, th[s].tries, th[s].left, th[s].bill)
    BY <2>1, <2>2, Place
  <2>4. Fits("done", th[s].rc, th[s].tries, th[s].left, th[s].bill) /\ th[s].rc \notin {"ok", "cap"}
    BY <2>3, Words DEF Fits
  <2> QED BY <2>1, <2>2, <2>4, Simple DEF Same
<1>8. CASE StageFinished(s)
  <2>1. At(s, "finish") /\ Goes(s, "tokens") /\ Still /\ Same
    BY <1>0, <1>1, <1>8 DEF StageFinished
  <2>2. "finish" \in Steps \ Over /\ "tokens" \in Steps
    BY Words
  <2>3. Fits("tokens", th[s].rc, th[s].tries, th[s].left, th[s].bill)
    BY <2>1, <2>2, Place, Words DEF Fits
  <2> QED BY <2>1, <2>2, <2>3, Simple DEF Same
<1>9. CASE Reloaded(s)
  <2>1. At(s, "reload") /\ Goes(s, "done") /\ Still /\ Same
    BY <1>2, <1>9 DEF Reloaded, OnlyThread
  <2>2. "reload" \in Steps \ Over /\ "done" \in Steps
    BY Words
  <2>3. Fits("reload", th[s].rc, th[s].tries, th[s].left, th[s].bill)
    BY <2>1, <2>2, Place
  <2>4. Fits("done", th[s].rc, th[s].tries, th[s].left, th[s].bill) /\ th[s].rc = "ok"
    BY <2>3, Words DEF Fits
  <2> QED BY <2>1, <2>2, <2>4, Simple DEF Same
<1>10. CASE ParkSkipped(s)
  <2>1. At(s, "mark") /\ Goes(s, "done") /\ Still /\ Same
    BY <1>2, <1>10 DEF ParkSkipped, OnlyThread
  <2>2. "mark" \in Steps \ Over /\ "done" \in Steps
    BY Words
  <2>3. Fits("mark", th[s].rc, th[s].tries, th[s].left, th[s].bill)
    BY <2>1, <2>2, Place
  <2>4. Fits("done", th[s].rc, th[s].tries, th[s].left, th[s].bill) /\ th[s].rc = "stall"
    BY <2>3, Words DEF Fits
  <2> QED BY <2>1, <2>2, <2>4, Simple DEF Same
<1>11. CASE ParkMarked(s)
  <2>1. At(s, "mark") /\ Goes(s, "park") /\ Still /\ Same
    BY <1>0, <1>1, <1>2, <1>11 DEF ParkMarked
  <2>2. "mark" \in Steps \ Over /\ "park" \in Steps
    BY Words
  <2>3. Fits("park", th[s].rc, th[s].tries, th[s].left, th[s].bill)
    BY <2>1, <2>2, Place, Words DEF Fits
  <2> QED BY <2>1, <2>2, <2>3, Simple DEF Same
<1> QED BY <1>3, <1>4, <1>5, <1>6, <1>7, <1>8, <1>9, <1>10, <1>11

\* A step that changes more of its thread.
LEMMA StepTo ==
  ASSUME PairInv0, NEW s \in Pair, NEW y \in Thread, main = "waiting", main' = main,
         th[s].at \notin Over, th' = [th EXCEPT ![s] = y], ThreadOK(y), Others'
  PROVE Goes1(s) /\ th'[s] = y
  BY Moved DEF PairInv0, Goes1

LEMMA SpawnOK ==
  ASSUME PairInv0, NEW s \in Pair, Spawned(s) \/ Tracked(s) \/ ChildrenReaped(s)
  PROVE Goes1(s) /\ Quiet(s)
<1>1. CASE Spawned(s)
  <2>1. /\ At(s, "spawn") /\ Goes(s, "born") /\ alive' = alive \cup {s}
        /\ UNCHANGED <<known, json, torn, folder, ghost, tracked, main, told>>
    BY <1>1 DEF Spawned
  <2>2. "spawn" \in Steps /\ "born" \in Steps /\ "spawn" \notin Over
    BY Words
  <2>3. main = "waiting" /\ th[s].at = "spawn"
        /\ Fits("spawn", th[s].rc, th[s].tries, th[s].left, th[s].bill)
    BY <2>1, <2>2, Place
  <2>4. Others'
    BY <2>1 DEF PairInv0, Others
  <2>5. Fits("born", th[s].rc, th[s].tries, th[s].left, th[s].bill) /\ th[s].rc # "cap"
    BY <2>3 DEF Fits
  <2>6. Goes1(s) /\ th'[s].at = "born" /\ th'[s].rc = th[s].rc
    BY <2>1, <2>2, <2>3, <2>4, <2>5, StepOnly
  <2> QED BY <2>1, <2>3, <2>5, <2>6 DEF Quiet, Counted, Capped
<1>2. CASE Tracked(s)
  <2>1. /\ At(s, "born") /\ Goes(s, "running") /\ tracked' = tracked \cup {s}
        /\ UNCHANGED <<known, json, torn, folder, ghost, alive, main, told>>
    BY <1>2 DEF Tracked
  <2>2. "born" \in Steps /\ "running" \in Steps /\ "born" \notin Over
    BY Words
  <2>3. main = "waiting" /\ th[s].at = "born"
        /\ Fits("born", th[s].rc, th[s].tries, th[s].left, th[s].bill)
    BY <2>1, <2>2, Place
  <2>4. Others'
    BY <2>1 DEF PairInv0, Others
  <2>5. Fits("running", th[s].rc, th[s].tries, th[s].left, th[s].bill) /\ th[s].rc # "cap"
    BY <2>3 DEF Fits
  <2>6. Goes1(s) /\ th'[s].at = "running" /\ th'[s].rc = th[s].rc
    BY <2>1, <2>2, <2>3, <2>4, <2>5, StepOnly
  <2> QED BY <2>1, <2>3, <2>5, <2>6 DEF Quiet, Counted, Capped
<1>3. CASE ChildrenReaped(s)
  <2>1. /\ At(s, "reap") /\ Goes(s, "mark") /\ alive' = alive \ tracked /\ tracked' = {}
        /\ UNCHANGED <<known, json, torn, folder, ghost, main, told>>
    BY <1>3 DEF ChildrenReaped
  <2>2. "reap" \in Steps /\ "mark" \in Steps /\ "reap" \notin Over
    BY Words
  <2>3. main = "waiting" /\ th[s].at = "reap"
        /\ Fits("reap", th[s].rc, th[s].tries, th[s].left, th[s].bill)
    BY <2>1, <2>2, Place
  <2>4. Others'
    BY <2>1 DEF PairInv0, Others
  <2>5. Fits("mark", th[s].rc, th[s].tries, th[s].left, th[s].bill) /\ th[s].rc # "cap"
    BY <2>3 DEF Fits
  <2>6. Goes1(s) /\ th'[s].at = "mark" /\ th'[s].rc = th[s].rc
    BY <2>1, <2>2, <2>3, <2>4, <2>5, StepOnly
  <2>7. s \notin alive
    BY <2>3 DEF PairInv0, Minded
  <2> QED BY <2>1, <2>3, <2>5, <2>6, <2>7 DEF Quiet, Counted, Capped
<1> QED BY <1>1, <1>2, <1>3

LEMMA SpawnFailedOK == ASSUME PairInv0, NEW s \in Pair, SpawnFailed(s) PROVE Goes1(s) /\ Quiet(s)
<1> DEFINE y == [th[s] EXCEPT !.at = "back", !.rc = "fail"]
<1>1. /\ At(s, "spawn") /\ th' = [th EXCEPT ![s].at = "back", ![s].rc = "fail"]
      /\ UNCHANGED <<known, json, torn, folder, ghost, alive, tracked, main, told>>
  BY DEF SpawnFailed, OnlyThread
<1>2. "spawn" \in Steps /\ "back" \in Steps /\ "fail" \in Outcomes /\ "spawn" \notin Over
  BY Words
<1>3. /\ main = "waiting" /\ th[s].at = "spawn" /\ th[s] \in Thread
      /\ Fits("spawn", th[s].rc, th[s].tries, th[s].left, th[s].bill)
  BY <1>1, <1>2, Place
<1>4. /\ y \in Thread /\ y.at = "back" /\ y.rc = "fail" /\ y.bill = th[s].bill
      /\ y.tries = th[s].tries /\ y.left = th[s].left /\ th' = [th EXCEPT ![s] = y]
  BY <1>1, <1>2, <1>3 DEF Thread, PairInv0, Threads
<1> HIDE DEF y
<1>5. ThreadOK(y) /\ th[s].rc # "cap"
  BY <1>3, <1>4 DEF ThreadOK, Fits
<1>6. Others'
  BY <1>1 DEF PairInv0, Others
<1>7. Goes1(s) /\ th'[s] = y
  BY <1>1, <1>2, <1>3, <1>4, <1>5, <1>6, StepTo
<1>8. s \notin alive
  BY <1>3 DEF PairInv0, Minded
<1> QED BY <1>1, <1>3, <1>4, <1>5, <1>7, <1>8 DEF Quiet, Counted, Capped

LEMMA ReturnedOK ==
  ASSUME PairInv0, NEW s \in Pair, NEW rc \in {"ok", "fail", "stall", "timeout"}, NEW bill \in Bills,
         Returned(s, rc, bill)
  PROVE Goes1(s) /\ Quiet(s)
<1> DEFINE pc == AfterReturn(s, rc)
           b == IF rc = "ok" THEN bill ELSE 0
           y == [th[s] EXCEPT !.at = pc, !.rc = rc, !.bill = b]
<1>1. /\ At(s, "running") /\ th' = [th EXCEPT ![s].at = pc, ![s].rc = rc, ![s].bill = b]
      /\ alive' = alive \ {s} /\ tracked' = tracked \ {s}
      /\ UNCHANGED <<known, json, torn, folder, ghost, main, told>>
  BY DEF Returned
<1>2. /\ "running" \in Steps /\ "running" \notin Over /\ rc \in Outcomes /\ pc \in Steps
      /\ pc \in {"clear", "back"} /\ (pc = "clear" => rc = "ok")
  BY Words DEF AfterReturn
<1>3. b \in Nat /\ (rc # "ok" => b = 0)
  BY PairAssumption
<1> HIDE DEF pc, b
<1>4. /\ main = "waiting" /\ th[s].at = "running" /\ th[s] \in Thread
      /\ Fits("running", th[s].rc, th[s].tries, th[s].left, th[s].bill)
  BY <1>1, <1>2, Place
<1>5. /\ y \in Thread /\ y.at = pc /\ y.rc = rc /\ y.bill = b
      /\ y.tries = th[s].tries /\ y.left = th[s].left /\ th' = [th EXCEPT ![s] = y]
  BY <1>1, <1>2, <1>3, <1>4 DEF Thread, PairInv0, Threads
<1> HIDE DEF y
<1>6. ThreadOK(y) /\ th[s].rc # "cap"
  BY <1>2, <1>3, <1>4, <1>5 DEF ThreadOK, Fits
<1>7. Others'
  BY <1>1 DEF PairInv0, Others
<1>8. Goes1(s) /\ th'[s] = y
  BY ZenonT(20), <1>1, <1>2, <1>4, <1>5, <1>6, <1>7, StepTo
<1> QED BY <1>1, <1>2, <1>4, <1>5, <1>6, <1>8 DEF Quiet, Counted, Capped

LEMMA AccountedOK ==
  ASSUME PairInv0, NEW s \in Pair, NEW plan \in 0..Retries, Accounted(s, plan)
  PROVE Goes1(s) /\ Quiet(s)
<1> DEFINE x == th[s]
           left == IF x.tries = 0 THEN plan ELSE x.left
           bill == IF Here THEN x.bill ELSE 0
           pc == IF x.rc = "ok" THEN "finish"
                 ELSE IF x.rc = "stall" /\ x.tries = 0 THEN "reap"
                 ELSE IF x.rc = "timeout" /\ x.tries = 0 THEN "failing"
                 ELSE IF left > 0 THEN "retry" ELSE "failing"
           y == [x EXCEPT !.at = pc, !.left = left, !.bill = bill]
<1>1. /\ At(s, "back") /\ Written(s, [json EXCEPT !.cost = bill])
      /\ th' = [th EXCEPT ![s].at = pc, ![s].left = left, ![s].bill = bill]
      /\ UNCHANGED <<known, folder, ghost, alive, tracked, main, told>>
  BY DEF Accounted
<1>2. "back" \in Steps /\ "back" \notin Over
  BY Words
<1>3. /\ main = "waiting" /\ x.at = "back" /\ x \in Thread
      /\ Fits("back", x.rc, x.tries, x.left, x.bill)
      /\ x.tries \in 0..Retries /\ x.left \in 0..Retries /\ x.bill \in Nat /\ x.rc \in Outcomes
  BY <1>1, <1>2, Place
<1> HIDE DEF x
<1>4. /\ left \in 0..Retries /\ x.tries + left <= Retries /\ bill \in Nat
      /\ (x.bill = 0 => bill = 0)
  BY <1>3, PairAssumption DEF Fits
<1> HIDE DEF left, bill
<1>5. /\ pc \in {"finish", "reap", "failing", "retry"} /\ pc \in Steps
      /\ pc = "finish" <=> x.rc = "ok"
      /\ pc = "reap" => x.rc = "stall"
      /\ pc = "retry" => left > 0
      /\ x.rc \notin {"none", "cap"}
  <2>1. x.rc \notin {"none", "cap"}
    BY <1>2, <1>3 DEF Fits
  <2> QED BY <2>1, Words
<1> HIDE DEF pc
<1>6. /\ y \in Thread /\ y.at = pc /\ y.rc = x.rc /\ y.bill = bill
      /\ y.tries = x.tries /\ y.left = left /\ th' = [th EXCEPT ![s] = y]
  BY <1>1, <1>3, <1>4, <1>5 DEF Thread, PairInv0, Threads, x
<1> HIDE DEF y
<1>7. ThreadOK(y)
  BY <1>3, <1>4, <1>5, <1>6 DEF ThreadOK, Fits
<1>8. json' \in Json /\ json'.tokens = json.tokens /\ torn' \in Pair \cup {Nobody}
  <2>1. [json EXCEPT !.cost = bill] \in Json /\ [json EXCEPT !.cost = bill].tokens = json.tokens
    BY <1>4, JsonEdits DEF PairInv0, Others
  <2> QED BY <1>1, <2>1, WrittenOK DEF PairInv0
<1>9. Others'
  BY <1>1, <1>8 DEF PairInv0, Others
<1>10. Goes1(s) /\ th'[s] = y
  <2>1. main' = main /\ main = "waiting" /\ th[s].at \notin Over /\ th' = [th EXCEPT ![s] = y]
    BY <1>1, <1>2, <1>3, <1>6 DEF x
  <2> QED BY <2>1, <1>6, <1>7, <1>9, StepTo
<1>11. s \notin alive
  BY <1>3 DEF PairInv0, Minded, x
<1> QED BY <1>1, <1>3, <1>5, <1>6, <1>8, <1>10, <1>11 DEF Quiet, Counted, Capped, x

LEMMA RetriedOK == ASSUME PairInv0, NEW s \in Pair, Retried(s) PROVE Goes1(s) /\ Quiet(s)
<1> DEFINE x == th[s]
           y == [x EXCEPT !.at = "persist", !.tries = x.tries + 1, !.left = x.left - 1]
<1>1. /\ At(s, "retry") /\ Written(s, json)
      /\ th' = [th EXCEPT ![s].at = "persist", ![s].tries = @ + 1, ![s].left = @ - 1]
      /\ UNCHANGED <<known, folder, ghost, alive, tracked, main, told>>
  BY DEF Retried
<1>2. "retry" \in Steps /\ "retry" \notin Over /\ "persist" \in Steps
  BY Words
<1>3. /\ main = "waiting" /\ x.at = "retry" /\ x \in Thread
      /\ Fits("retry", x.rc, x.tries, x.left, x.bill)
      /\ x.tries \in 0..Retries /\ x.left \in 0..Retries
  BY <1>1, <1>2, Place
<1>4. /\ x.tries + 1 \in 0..Retries /\ x.left - 1 \in 0..Retries
      /\ (x.tries + 1) + (x.left - 1) <= Retries /\ x.rc \notin {"ok", "cap"}
  BY <1>3, PairAssumption DEF Fits
<1>5. th' = [th EXCEPT ![s] = y]
  BY <1>1, <1>3 DEF PairInv0, Threads, Thread
<1> HIDE DEF x
<1>6. /\ y \in Thread /\ y.at = "persist" /\ y.rc = x.rc /\ y.bill = x.bill
      /\ y.tries = x.tries + 1 /\ y.left = x.left - 1
  BY <1>2, <1>3, <1>4 DEF Thread
<1> HIDE DEF y
<1>7. ThreadOK(y)
  BY <1>3, <1>4, <1>6 DEF ThreadOK, Fits
<1>8. json' \in Json /\ json'.tokens = json.tokens /\ torn' \in Pair \cup {Nobody}
  BY <1>1, WrittenOK DEF PairInv0, Others
<1>9. Others'
  BY <1>1, <1>8 DEF PairInv0, Others
<1>10. Goes1(s) /\ th'[s] = y
  <2>1. main' = main /\ main = "waiting" /\ th[s].at \notin Over
    BY <1>1, <1>2, <1>3 DEF x
  <2> QED BY <2>1, <1>5, <1>6, <1>7, <1>9, StepTo
<1>11. s \notin alive
  BY <1>3 DEF PairInv0, Minded, x
<1> QED BY <1>1, <1>3, <1>4, <1>6, <1>8, <1>10, <1>11 DEF Quiet, Counted, Capped, x

LEMMA StopOK == ASSUME PairInv0, NEW s \in Pair, StopDeferred(s) PROVE Goes1(s) /\ Quiet(s)
<1> DEFINE x == th[s]
           y == [x EXCEPT !.at = "done", !.rc = "cap"]
<1>1. /\ At(s, "capped") /\ Written(s, json)
      /\ th' = [th EXCEPT ![s].at = "done", ![s].rc = "cap"]
      /\ UNCHANGED <<known, folder, ghost, alive, tracked, main, told>>
  BY DEF StopDeferred
<1>2. "capped" \in Steps /\ "capped" \notin Over /\ "done" \in Steps /\ "done" \in Over /\ "cap" \in Outcomes
  BY Words
<1>3. /\ main = "waiting" /\ x.at = "capped" /\ x \in Thread
      /\ Fits("capped", x.rc, x.tries, x.left, x.bill)
  BY <1>1, <1>2, Place
<1>4. th' = [th EXCEPT ![s] = y]
  BY <1>1, <1>3 DEF PairInv0, Threads, Thread
<1> HIDE DEF x
<1>5. /\ y \in Thread /\ y.at = "done" /\ y.rc = "cap" /\ y.bill = x.bill
      /\ y.tries = x.tries /\ y.left = x.left
  BY <1>2, <1>3 DEF Thread
<1> HIDE DEF y
<1>6. ThreadOK(y)
  BY <1>2, <1>3, <1>5 DEF ThreadOK, Fits
<1>7. json' \in Json /\ json'.tokens = json.tokens /\ torn' \in Pair \cup {Nobody}
  BY <1>1, WrittenOK DEF PairInv0, Others
<1>8. Others'
  BY <1>1, <1>7 DEF PairInv0, Others
<1>9. Goes1(s) /\ th'[s] = y
  <2>1. main' = main /\ main = "waiting" /\ th[s].at \notin Over
    BY <1>1, <1>2, <1>3 DEF x
  <2> QED BY <2>1, <1>4, <1>5, <1>6, <1>8, StepTo
<1>10. s \notin alive
  BY <1>3 DEF PairInv0, Minded, x
<1> QED BY <1>1, <1>3, <1>5, <1>7, <1>9, <1>10 DEF Quiet, Counted, Capped, x

(* The folder moves under a thread that ran into the limits.                  *)
LEMMA ParkOK ==
  ASSUME PairInv0, NEW s \in Pair, ParkMoved(s)
  PROVE /\ Goes1(s) /\ th'[s].at = "done" /\ th'[s].rc = "stall"
        /\ folder' # "active" /\ (folder' = folder \/ folder' \in {"parked", "deleted"})
        /\ told'.budget = told.budget /\ told'.handoff = told.handoff
        /\ alive' = alive /\ s \notin alive
<1>1. /\ At(s, "park") /\ Goes(s, "done")
      /\ folder' = (IF Here THEN "parked" ELSE IF ghost THEN "deleted" ELSE folder)
      /\ ghost' = FALSE /\ told' = [told EXCEPT !.limit = @ + 1]
      /\ UNCHANGED <<known, json, torn, alive, tracked, main>>
  BY DEF ParkMoved
<1>2. "park" \in Steps /\ "park" \notin Over /\ "done" \in Steps
  BY Words
<1>3. /\ main = "waiting" /\ th[s].at = "park" /\ th[s].at \notin Over
      /\ Fits("park", th[s].rc, th[s].tries, th[s].left, th[s].bill)
  BY <1>1, <1>2, Place
<1>4. Fits("done", th[s].rc, th[s].tries, th[s].left, th[s].bill) /\ th[s].rc = "stall"
  BY <1>3 DEF Fits
<1>5. /\ told' \in [limit : Nat, budget : Nat, handoff : Nat]
      /\ told'.budget = told.budget /\ told'.handoff = told.handoff
  BY <1>1 DEF PairInv0, Others
<1>6. folder' # "active" /\ (folder' = folder \/ folder' \in {"parked", "deleted"})
  BY <1>1 DEF Here
<1>7. Others'
  BY <1>1, <1>5, <1>6 DEF PairInv0, Others, Parked
<1>8. Goes1(s) /\ th'[s].at = "done" /\ th'[s].rc = "stall"
  BY <1>1, <1>2, <1>3, <1>4, <1>7, StepOnly
<1>9. s \notin alive
  BY <1>3 DEF PairInv0, Minded
<1> QED BY <1>1, <1>5, <1>6, <1>8, <1>9

(* A stage adds its tokens to the sum.                                        *)
LEMMA TokensOK ==
  ASSUME PairInv0, NEW s \in Pair, TokensCounted(s)
  PROVE /\ Goes1(s) /\ ~ Counted(th[s]) /\ Counted(th'[s])
        /\ th'[s].bill = th[s].bill /\ th[s].bill \in Nat
        /\ folder' = folder /\ told' = told
        /\ folder = "active" => json'.tokens = json.tokens + th[s].bill
        /\ json'.tokens > TokenCap => Capped(th'[s]) \/ folder # "active"
        /\ alive' = alive /\ s \notin alive
<1> DEFINE pc == IF TokenSum(s) > TokenCap \/ th[s].bill > CostCap THEN "capped" ELSE "reload"
<1>1. /\ At(s, "tokens") /\ Goes(s, pc)
      /\ Written(s, [json EXCEPT !.tokens = TokenSum(s)])
      /\ UNCHANGED <<known, folder, ghost, alive, tracked, main, told>>
  BY DEF TokensCounted
<1>2. "tokens" \in Steps /\ "tokens" \notin Over /\ pc \in Steps /\ pc \in {"capped", "reload"}
  BY Words
<1>3. /\ main = "waiting" /\ th[s].at = "tokens" /\ th[s].at \notin Over /\ th[s].bill \in Nat
      /\ Fits("tokens", th[s].rc, th[s].tries, th[s].left, th[s].bill)
  BY <1>1, <1>2, Place
<1>4. TokenSum(s) \in Nat
  BY <1>3 DEF TokenSum, PairInv0, Others, Json
<1>5. [json EXCEPT !.tokens = TokenSum(s)] \in Json /\ [json EXCEPT !.tokens = TokenSum(s)].tokens = TokenSum(s)
  BY <1>4, JsonEdits DEF PairInv0, Others
<1>6. json' \in Json /\ torn' \in Pair \cup {Nobody} /\ (Here => json'.tokens = TokenSum(s))
  BY <1>1, <1>5 DEF Written, PairInv0, Others
<1>7. TokenSum(s) > TokenCap => pc = "capped"
  OBVIOUS
<1> HIDE DEF pc
<1>8. Others'
  BY <1>1, <1>6 DEF PairInv0, Others
<1>9. Fits(pc, th[s].rc, th[s].tries, th[s].left, th[s].bill)
  BY <1>2, <1>3, Words DEF Fits
<1>10. Goes1(s) /\ th'[s].at = pc /\ th'[s].rc = th[s].rc /\ th'[s].bill = th[s].bill
  BY <1>1, <1>2, <1>3, <1>8, <1>9, StepOnly
<1>11. s \notin alive
  BY <1>3 DEF PairInv0, Minded
<1>12. folder = "active" => json'.tokens = json.tokens + th[s].bill /\ json'.tokens = TokenSum(s)
  BY <1>6 DEF Here, TokenSum
<1> QED BY <1>1, <1>2, <1>3, <1>7, <1>10, <1>11, <1>12 DEF Counted, Capped

----------------------------------------------------------------------------
(* The inductive invariant. *)

\* The runner goes on when both are done; an exception ends it, too.
Settled ==
  /\ main \in {"stopping", "handing", "reviewer", "ended"} => \A s \in Pair : th[s].at = "done"
  /\ main = "crashed" => \A s \in Pair : th[s].at \in Over

\* Only a thread that ran into the limits moves the folder under the other.
Away ==
  main = "waiting" =>
    /\ folder \in {"active", "parked", "deleted"}
    /\ folder # "active" => \E s \in Pair : th[s].at = "done" /\ th[s].rc = "stall"

\* The pair itself announces nothing; the runner does, at its end.
Said ==
  main # "ended" => /\ told.budget = 0 /\ told.handoff = 0
                    /\ folder \notin {"stopped", "handed", "failed"}

\* state.json sums what was counted, and whoever counted last saw the sum.
Sums ==
  main = "waiting" /\ folder = "active" /\ (\A s \in Pair : th[s].at # "raised") =>
    /\ json.tokens = Share(th["tester"]) + Share(th["security"])
    /\ (\A s \in Pair : Counted(th[s])) => json.tokens <= TokenCap \/ \E s \in Pair : Capped(th[s])

\* TotalsAgree, from the join on.
Totals ==
  main \in {"stopping", "handing", "reviewer", "ended"}
    /\ folder \in {"active", "stopped", "handed", "failed"} =>
    json.cost = Combined /\ json.tokens = Combined

PairInv == PairInv0 /\ Settled /\ Away /\ Said /\ Sums /\ Totals /\ CapsHold /\ ToldOnce

LEMMA InitInv == ASSUME Init PROVE PairInv
<1>1. Fresh \in Thread /\ ThreadOK(Fresh) /\ ~ Counted(Fresh) /\ Fresh.at = "begin" /\ Fresh.bill = 0
  BY Words, PairAssumption DEF Fresh, Thread, ThreadOK, Fits, Counted
<1>2. \A s \in Pair : th[s] = Fresh
  BY DEF Init
<1>3. Threads
  BY <1>1, <1>2 DEF Init, Threads
<1>4. Others /\ json.tokens = 0
  BY DEF Init, Others, Json, Parked
<1>5. Minded
  BY DEF Init, Minded
<1>6. Sums
  <2>1. Share(th["tester"]) = 0 /\ Share(th["security"]) = 0 /\ ~ Counted(th["tester"])
    BY <1>1, <1>2, Words DEF Share
  <2> QED BY <1>4, <2>1, Words DEF Sums
<1> QED
  BY <1>3, <1>4, <1>5, <1>6 DEF Init, PairInv, PairInv0, Settled, Away, Said, Totals, CapsHold, ToldOnce

\* A step of a thread leaves what is asked of the runner's end alone.
LEMMA StillWaiting ==
  ASSUME PairInv, NEW s \in Pair, Goes1(s), Said'
  PROVE Threads' /\ Others' /\ Settled' /\ Totals' /\ CapsHold' /\ ToldOnce'
<1>1. main' = "waiting"
  BY DEF Goes1
<1>2. Threads' /\ Others'
  BY DEF PairInv, PairInv0, Threads, Goes1
<1> QED BY <1>1, <1>2 DEF Settled, Totals, CapsHold, ToldOnce, Said

LEMMA SharesOK ==
  ASSUME Threads
  PROVE \A s \in Pair : /\ Share(th[s]) \in Nat /\ th[s].bill \in Nat
                        /\ Counted(th[s]) => Share(th[s]) = th[s].bill
                        /\ ~ Counted(th[s]) => Share(th[s]) = 0
  BY DEF Threads, Thread, Share

LEMMA QuietInv == ASSUME PairInv, NEW s \in Pair, Goes1(s), Quiet(s) PROVE PairInv'
<1>1. /\ main = "waiting" /\ main' = "waiting" /\ folder' = folder /\ told' = told
      /\ th[s].at \notin Over /\ \A u \in Pair : u # s => th'[u] = th[u]
      /\ json'.tokens = json.tokens
  BY DEF Goes1, Quiet
<1>2. Said' /\ Away'
  BY <1>1, Words DEF PairInv, Said, Away
<1>3. Threads' /\ Others' /\ Settled' /\ Totals' /\ CapsHold' /\ ToldOnce'
  BY <1>2, StillWaiting
<1>4. Minded'
  BY <1>1 DEF PairInv, PairInv0, Minded, Quiet, Others
<1>5. Sums'
  <2> SUFFICES ASSUME folder' = "active", \A u \in Pair : th'[u].at # "raised" PROVE
        /\ json'.tokens = Share(th'["tester"]) + Share(th'["security"])
        /\ (\A u \in Pair : Counted(th'[u])) => json'.tokens <= TokenCap \/ \E u \in Pair : Capped(th'[u])
    BY DEF Sums
  <2>1. \A u \in Pair : th[u].at # "raised"
    BY <1>1, Words
  <2>2. /\ Counted(th'[s]) <=> Counted(th[s])
        /\ Counted(th[s]) => th'[s].bill = th[s].bill
        /\ Capped(th[s]) => Capped(th'[s])
    BY DEF Quiet
  <2>3. \A u \in Pair : Share(th'[u]) = Share(th[u]) /\ (Counted(th'[u]) <=> Counted(th[u]))
                        /\ (Capped(th[u]) => Capped(th'[u]))
    BY <1>1, <2>2 DEF Share
  <2> QED BY <1>1, <2>1, <2>3, Words DEF PairInv, Sums
<1> QED BY <1>2, <1>3, <1>4, <1>5 DEF PairInv, PairInv0

LEMMA ParkInv == ASSUME PairInv, NEW s \in Pair, ParkMoved(s) PROVE PairInv'
<1>1. /\ Goes1(s) /\ th'[s].at = "done" /\ th'[s].rc = "stall"
      /\ folder' # "active" /\ (folder' = folder \/ folder' \in {"parked", "deleted"})
      /\ told'.budget = told.budget /\ told'.handoff = told.handoff
      /\ alive' = alive /\ s \notin alive
  BY ParkOK DEF PairInv
<1>2. main = "waiting" /\ main' = "waiting" /\ \A u \in Pair : u # s => th'[u] = th[u]
  BY <1>1 DEF Goes1
<1>3. Said' /\ Away'
  BY <1>1, <1>2 DEF PairInv, Said, Away
<1>4. Threads' /\ Others' /\ Settled' /\ Totals' /\ CapsHold' /\ ToldOnce'
  BY <1>1, <1>3, StillWaiting
<1>5. Minded'
  BY <1>1, <1>2 DEF PairInv, PairInv0, Minded, Others
<1>6. Sums'
  BY <1>1 DEF Sums
<1> QED BY <1>3, <1>4, <1>5, <1>6 DEF PairInv, PairInv0

LEMMA TokensInv == ASSUME PairInv, NEW s \in Pair, TokensCounted(s) PROVE PairInv'
<1>1. /\ Goes1(s) /\ ~ Counted(th[s]) /\ Counted(th'[s])
      /\ th'[s].bill = th[s].bill /\ th[s].bill \in Nat
      /\ folder' = folder /\ told' = told
      /\ folder = "active" => json'.tokens = json.tokens + th[s].bill
      /\ json'.tokens > TokenCap => Capped(th'[s]) \/ folder # "active"
      /\ alive' = alive /\ s \notin alive
  BY TokensOK DEF PairInv
<1>2. /\ main = "waiting" /\ main' = "waiting" /\ \A u \in Pair : u # s => th'[u] = th[u]
      /\ th[s].at \notin Over
  BY <1>1 DEF Goes1
<1>3. Said' /\ Away'
  BY <1>1, <1>2, Words DEF PairInv, Said, Away
<1>4. Threads' /\ Others' /\ Settled' /\ Totals' /\ CapsHold' /\ ToldOnce'
  BY <1>1, <1>3, StillWaiting
<1>5. Minded'
  BY <1>1, <1>2 DEF PairInv, PairInv0, Minded, Others
<1>6. Sums'
  <2> SUFFICES ASSUME folder' = "active", \A u \in Pair : th'[u].at # "raised" PROVE
        /\ json'.tokens = Share(th'["tester"]) + Share(th'["security"])
        /\ (\A u \in Pair : Counted(th'[u])) => json'.tokens <= TokenCap \/ \E u \in Pair : Capped(th'[u])
    BY DEF Sums
  <2>1. \A u \in Pair : th[u].at # "raised"
    BY <1>2, Words
  <2>2. json.tokens = Share(th["tester"]) + Share(th["security"])
    BY <1>1, <1>2, <2>1 DEF PairInv, Sums
  <2>3. /\ Share(th[s]) = 0 /\ Share(th'[s]) = th[s].bill
        /\ \A u \in Pair : u # s => Share(th'[u]) = Share(th[u])
        /\ \A u \in Pair : Share(th[u]) \in Nat
    BY <1>1, <1>2, SharesOK DEF Share, PairInv, PairInv0
  <2>4. json'.tokens = Share(th'["tester"]) + Share(th'["security"])
    <3>1. CASE s = "tester"
      BY <1>1, <2>2, <2>3, <3>1, Words
    <3>2. CASE s = "security"
      BY <1>1, <2>2, <2>3, <3>2, Words
    <3> QED BY <3>1, <3>2, Words
  <2>5. json'.tokens <= TokenCap \/ Capped(th'[s])
    <3>1. json'.tokens \in Nat
      BY <1>4 DEF Others, Json
    <3> QED BY <1>1, <3>1, PairAssumption
  <2> QED BY <2>4, <2>5
<1> QED BY <1>3, <1>4, <1>5, <1>6 DEF PairInv, PairInv0

\* Steps that leave the threads and the announcements alone.
LEMMA BesideInv ==
  ASSUME PairInv, \/ \E s \in Pair : Flushed(s) \/ GhostWritten(s) \/ Swept(s)
                  \/ Signalled
  PROVE PairInv'
<1>1. /\ UNCHANGED <<th, json, folder, main, told, known>> /\ alive' \subseteq alive
      /\ Others'
  BY DEF PairInv, PairInv0, Others, Flushed, GhostWritten, Swept, Signalled
<1> QED
  BY <1>1 DEF PairInv, PairInv0, Threads, Minded, Settled, Away, Said, Sums, Totals, CapsHold, ToldOnce, Combined

LEMMA KilledInv == ASSUME PairInv, RunnerKilled PROVE PairInv'
<1>1. /\ main = "waiting" /\ main' = "killed" /\ UNCHANGED <<known, json, torn, folder, ghost, alive, tracked, told>>
      /\ th' = [s \in Pair |-> [th[s] EXCEPT !.at = "gone"]]
  BY DEF RunnerKilled
<1>2. Others'
  BY <1>1 DEF PairInv, PairInv0, Others
<1>3. Threads'
  <2>1. "gone" \in Steps /\ "gone" \in Over
    BY Words
  <2>2. ASSUME NEW s \in Pair PROVE th'[s] \in Thread /\ ThreadOK(th'[s])
    <3> DEFINE x == th[s]
               y == [x EXCEPT !.at = "gone"]
    <3>1. x \in Thread /\ Fits(x.at, x.rc, x.tries, x.left, x.bill)
      BY DEF PairInv, PairInv0, Threads, ThreadOK
    <3>2. th'[s] = y
      BY <1>1
    <3> HIDE DEF x
    <3>3. /\ y \in Thread /\ y.at = "gone" /\ y.rc = x.rc /\ y.tries = x.tries /\ y.left = x.left
          /\ y.bill = x.bill
      BY <2>1, <3>1 DEF Thread
    <3> HIDE DEF y
    <3>4. ThreadOK(y)
      BY <2>1, <3>1, <3>3 DEF ThreadOK, Fits
    <3> QED BY <3>2, <3>3, <3>4
  <2>3. th' = [s \in Pair |-> th'[s]]
    BY <1>1
  <2> QED BY <2>2, <2>3 DEF Threads
<1>4. Minded' /\ Settled' /\ Away' /\ Sums' /\ Totals' /\ CapsHold'
  BY <1>1 DEF Minded, Settled, Away, Sums, Totals, CapsHold
<1>5. Said' /\ ToldOnce'
  BY <1>1 DEF PairInv, Said, ToldOnce
<1> QED BY <1>2, <1>3, <1>4, <1>5 DEF PairInv, PairInv0

LEMMA CrashedInv == ASSUME PairInv, Crashed PROVE PairInv'
<1>1. /\ main \in {"waiting", "stopping", "handing"} /\ main' = "crashed"
      /\ main = "waiting" => \A s \in Pair : th[s].at \in Over
      /\ UNCHANGED <<th, known, json, torn, folder, ghost, alive, tracked, told>>
  BY DEF Crashed, Joining
<1>2. Others' /\ Threads' /\ Minded'
  BY <1>1 DEF PairInv, PairInv0, Others, Threads, Minded
<1>3. Settled'
  BY <1>1, Words DEF PairInv, Settled
<1>4. Away' /\ Sums' /\ Totals' /\ CapsHold'
  BY <1>1 DEF Away, Sums, Totals, CapsHold
<1>5. Said' /\ ToldOnce'
  BY <1>1 DEF PairInv, Said, ToldOnce
<1> QED BY <1>2, <1>3, <1>4, <1>5 DEF PairInv, PairInv0

\* When both are done, the sum is theirs.
LEMMA AtTheJoin ==
  ASSUME PairInv, main = "waiting", \A s \in Pair : th[s].at = "done"
  PROVE /\ folder = "active" => json.tokens = Combined
        /\ folder = "active" /\ (\A s \in Pair : th[s].rc = "ok") => json.tokens <= TokenCap
        /\ folder # "active" => \E s \in Pair : th[s].rc = "stall"
        /\ \A s \in Pair : th[s].rc \in {"ok", "cap", "fail", "timeout", "stall"}
        /\ Combined \in Nat
<1>1. \A s \in Pair : /\ th[s].at = "done" /\ ThreadOK(th[s]) /\ th[s].rc \in Outcomes /\ th[s].bill \in Nat
  BY DEF PairInv, PairInv0, Threads, Thread
<1>2. \A s \in Pair : /\ th[s].rc # "none" /\ (th[s].rc \notin {"ok", "cap"} => th[s].bill = 0)
                      /\ (th[s].rc \in {"ok", "cap"} <=> Counted(th[s]))
  BY <1>1 DEF ThreadOK, Fits, Counted
<1>3. \A s \in Pair : Share(th[s]) = th[s].bill
  BY <1>2 DEF Share
<1>4. folder = "active" => json.tokens = Combined
  BY <1>1, <1>3, Words DEF PairInv, Sums, Combined
<1>5. folder = "active" /\ (\A s \in Pair : th[s].rc = "ok") => json.tokens <= TokenCap
  BY <1>1, <1>2, Words DEF PairInv, Sums, Capped
<1>6. folder # "active" => \E s \in Pair : th[s].rc = "stall"
  BY DEF PairInv, Away
<1> QED BY <1>1, <1>2, <1>4, <1>5, <1>6, Words DEF Combined

LEMMA JoinedInv == ASSUME PairInv, Joined PROVE PairInv'
<1>1. /\ main = "waiting" /\ \A s \in Pair : th[s].at = "done"
      /\ main' = Verdict /\ json' = IF Here THEN [json EXCEPT !.cost = Combined] ELSE json
      /\ UNCHANGED <<th, known, torn, folder, ghost, alive, tracked, told>>
  BY DEF Joined, Joining
<1>2. /\ folder = "active" => json.tokens = Combined
      /\ folder = "active" /\ (\A s \in Pair : th[s].rc = "ok") => json.tokens <= TokenCap
      /\ folder # "active" => \E s \in Pair : th[s].rc = "stall"
      /\ \A s \in Pair : th[s].rc \in {"ok", "cap", "fail", "timeout", "stall"}
      /\ Combined \in Nat
  BY <1>1, AtTheJoin
<1>3. /\ main' \in {"stopping", "handing", "reviewer", "ended"}
      /\ main' = "reviewer" => Combined <= CostCap /\ \A s \in Pair : th[s].rc = "ok"
  <2> DEFINE tester == th["tester"].rc
             security == th["security"].rc
             rc == IF tester # "ok" THEN tester ELSE security
  <2>1. /\ main' = IF Combined > CostCap \/ \E s \in Pair : th[s].rc = "cap" THEN "stopping"
                   ELSE CASE rc \in {"fail", "timeout"} -> "handing"
                          [] rc = "stall" -> "ended"
                          [] rc = "ok" -> "reviewer"
    BY <1>1 DEF Verdict
  <2>2. /\ tester \in {"ok", "cap", "fail", "timeout", "stall"}
        /\ security \in {"ok", "cap", "fail", "timeout", "stall"}
        /\ \A s \in Pair : th[s].rc = tester \/ th[s].rc = security
        /\ (tester = "cap" \/ security = "cap") => \E s \in Pair : th[s].rc = "cap"
    BY <1>2, Words
  <2> HIDE DEF tester, security
  <2>3. rc \in {"ok", "cap", "fail", "timeout", "stall"}
    BY <2>2
  <2>4. rc = "ok" => \A s \in Pair : th[s].rc = "ok"
    BY <2>2
  <2>5. rc = "cap" => \E s \in Pair : th[s].rc = "cap"
    BY <2>2
  <2> HIDE DEF rc
  <2>6. CASE Combined > CostCap \/ \E s \in Pair : th[s].rc = "cap"
    BY <2>1, <2>6
  <2>7. CASE ~(Combined > CostCap \/ \E s \in Pair : th[s].rc = "cap")
    <3>1. Combined <= CostCap
      BY <1>2, <2>7, PairAssumption
    <3> QED BY <2>1, <2>3, <2>4, <2>5, <2>7, <3>1
  <2> QED BY <2>6, <2>7
<1>4. /\ json' \in Json /\ json'.tokens = json.tokens
      /\ folder = "active" => json'.cost = Combined
  BY <1>1, <1>2, JsonEdits DEF PairInv, PairInv0, Others, Here
<1>5. Others'
  BY <1>1, <1>3, <1>4 DEF PairInv, PairInv0, Others
<1>6. Threads' /\ Minded'
  BY <1>1, <1>3 DEF PairInv, PairInv0, Threads, Minded
<1>7. Settled' /\ Away' /\ Sums'
  BY <1>1, <1>3 DEF Settled, Away, Sums
<1>8. Said' /\ folder \notin {"stopped", "handed", "failed"} /\ told.budget = 0 /\ told.handoff = 0
  BY <1>1 DEF PairInv, Said
<1>9. ToldOnce'
  BY <1>1, <1>8 DEF ToldOnce
<1>10. Combined' = Combined
  BY <1>1 DEF Combined
<1>11. Totals'
  BY <1>1, <1>2, <1>4, <1>8, <1>10 DEF Totals
<1>12. CapsHold'
  <2> SUFFICES ASSUME main' = "reviewer"
               PROVE /\ Combined <= TokenCap /\ Combined <= CostCap
                     /\ folder = "active" /\ \A s \in Pair : th[s].rc = "ok"
    BY <1>1, <1>10 DEF CapsHold
  <2>1. Combined <= CostCap /\ (\A s \in Pair : th[s].rc = "ok") /\ folder = "active"
    BY <1>2, <1>3
  <2> QED BY <1>2, <2>1
<1> QED BY <1>5, <1>6, <1>7, <1>8, <1>9, <1>11, <1>12 DEF PairInv, PairInv0

\* The two announcements end the runner.
LEMMA EndInv == ASSUME PairInv, BudgetStopped \/ \E work \in BOOLEAN : HandedOff(work) PROVE PairInv'
<1>1. /\ main \in {"stopping", "handing"} /\ main' = "ended"
      /\ UNCHANGED <<th, known, json, torn, ghost, alive, tracked>>
  BY DEF BudgetStopped, HandedOff
<1>2. /\ told.budget = 0 /\ told.handoff = 0 /\ folder \notin {"stopped", "handed", "failed"}
  BY <1>1 DEF PairInv, Said
<1>3. /\ told \in [limit : Nat, budget : Nat, handoff : Nat]
      /\ folder \in {"active", "failed", "deleted"} \cup Parked
  BY DEF PairInv, PairInv0, Others
<1>4. /\ told' \in [limit : Nat, budget : Nat, handoff : Nat]
      /\ folder' \in {"active", "failed", "deleted"} \cup Parked
      /\ told'.budget + told'.handoff = 1
      /\ folder' = "stopped" => told'.budget = 1
      /\ folder' \in {"handed", "failed"} => told'.handoff = 1
      /\ folder' \in {"active", "stopped", "handed", "failed"} => folder = "active"
  <2>1. CASE BudgetStopped
    <3>1. folder' = IF folder = "active" THEN "stopped" ELSE folder
      BY <2>1 DEF BudgetStopped, Here
    <3>2. told' = [told EXCEPT !.budget = @ + 1]
      BY <2>1 DEF BudgetStopped
    <3>3. /\ told' \in [limit : Nat, budget : Nat, handoff : Nat]
          /\ told'.budget = 1 /\ told'.handoff = 0
      BY <1>2, <1>3, <3>2
    <3> QED BY <1>2, <1>3, <3>1, <3>3 DEF Parked
  <2>2. CASE \E work \in BOOLEAN : HandedOff(work)
    <3>0. PICK work \in BOOLEAN : HandedOff(work)
      BY <2>2
    <3>1. folder' = CASE folder = "active" /\ work -> "handed"
                      [] folder = "active" /\ ~ work -> "failed"
                      [] folder \in Parked /\ work -> "deleted"
                      [] OTHER -> folder
      BY <3>0 DEF HandedOff, Here
    <3>2. told' = [told EXCEPT !.handoff = @ + 1]
      BY <3>0 DEF HandedOff
    <3>3. /\ told' \in [limit : Nat, budget : Nat, handoff : Nat]
          /\ told'.budget = 0 /\ told'.handoff = 1
      BY <1>2, <1>3, <3>2
    <3>4. CASE folder = "active"
      <4>1. folder' \in {"handed", "failed"}
        BY <3>1, <3>4 DEF Parked
      <4> QED BY <3>3, <3>4, <4>1 DEF Parked
    <3>5. CASE folder # "active"
      <4>1. folder' \in {"deleted", folder}
        BY <3>1, <3>5
      <4> QED BY <1>2, <1>3, <3>3, <3>5, <4>1 DEF Parked
    <3> QED BY <3>4, <3>5
  <2> QED BY <1>1, <2>1, <2>2 DEF BudgetStopped
<1>5. Others'
  BY <1>1, <1>4 DEF PairInv, PairInv0, Others
<1>6. Threads' /\ Minded' /\ Settled'
  BY <1>1 DEF PairInv, PairInv0, Threads, Minded, Settled
<1>7. Away' /\ Said' /\ Sums' /\ CapsHold'
  BY <1>1 DEF Away, Said, Sums, CapsHold
<1>8. Totals'
  BY <1>1, <1>4 DEF PairInv, Totals, Combined
<1>9. ToldOnce'
  BY <1>4 DEF ToldOnce
<1> QED BY <1>5, <1>6, <1>7, <1>8, <1>9 DEF PairInv, PairInv0

LEMMA NextInv == ASSUME PairInv, [Next]_vars PROVE PairInv'
<1>1. CASE UNCHANGED vars
  BY <1>1 DEF vars, PairInv, PairInv0, Threads, Others, Minded, Settled, Away, Said, Sums, Totals,
              CapsHold, ToldOnce, Combined
<1>2. CASE \E s \in Pair : ThreadStep(s) \/ SpawnFailed(s)
  <2>1. PICK s \in Pair : ThreadStep(s) \/ SpawnFailed(s)
    BY <1>2
  <2>2. PairInv0
    BY DEF PairInv
  <2>3. \/ Goes1(s) /\ Quiet(s)
        \/ ParkMoved(s) \/ TokensCounted(s)
    BY <2>1, <2>2, SimpleOK, SpawnOK, SpawnFailedOK, ReturnedOK, AccountedOK, RetriedOK, StopOK DEF ThreadStep
  <2> QED BY <2>1, <2>3, QuietInv, ParkInv, TokensInv
<1>3. CASE \/ \E s \in Pair : Flushed(s) \/ GhostWritten(s) \/ Swept(s)
           \/ Signalled
  BY <1>3, BesideInv
<1>4. CASE MainStep
  BY <1>4, CrashedInv, JoinedInv, EndInv DEF MainStep
<1>5. CASE RunnerKilled
  BY <1>5, KilledInv
<1> QED BY <1>1, <1>2, <1>3, <1>4, <1>5 DEF Next

LEMMA PairInvariant == Spec => []PairInv
  BY InitInv, NextInv, PTL DEF Spec

\* Types of the variables, for any retries, bills and caps.
THEOREM PairTypeCorrect == Spec => []TypeOK
<1>1. PairInv => TypeOK
  BY TypeParts DEF PairInv, PairInv0
<1> QED BY <1>1, PairInvariant, PTL

(* A runner that ends by itself, even by an exception in one of the threads,  *)
(* leaves no child: each thread waits for its own, through parks, retries and *)
(* the kills of the other (_run_claude_stage).                                *)
THEOREM NoChildIsLeft == Spec => []NoChildLeft
<1>1. PairInv => NoChildLeft
  BY Words DEF PairInv, PairInv0, Minded, Settled, NoChildLeft, Others
<1> QED BY <1>1, PairInvariant, PTL

(* However the writes of the two fell, the cost that survives the join is the *)
(* sum of both, and the tokens too, unless a thread raised or the folder had  *)
(* been parked by then (_run_two_stages_parallel, _add_tokens_used).          *)
THEOREM BothAreCounted == Spec => []TotalsAgree
<1>1. PairInv => TotalsAgree
  BY DEF PairInv, Totals, TotalsAgree
<1> QED BY <1>1, PairInvariant, PTL

(* Over a cap the pair never goes on to the reviewer: whichever stage counts  *)
(* its tokens last sees the sum, and the cost is looked at after the join.    *)
THEOREM CapsAreKept == Spec => []CapsHold
<1>1. PairInv => CapsHold
  BY DEF PairInv
<1> QED BY <1>1, PairInvariant, PTL

(* One budget stop or one handoff, and it is the last word of the runner; a   *)
(* stopped folder was announced as stopped (_cap_stop, issue 19).             *)
THEOREM SaidOnce == Spec => []ToldOnce
<1>1. PairInv => ToldOnce
  BY DEF PairInv
<1> QED BY <1>1, PairInvariant, PTL

----------------------------------------------------------------------------
(* How long the pair can last. *)

\* Steps an attempt has left, from where its thread is.
PlaceOf(at) ==
  CASE at = "begin" -> 10 [] at = "persist" -> 9 [] at = "spawn" -> 8 [] at = "born" -> 7
    [] at = "running" -> 6 [] at = "clear" -> 5 [] at = "back" -> 4
    [] at \in {"finish", "reap"} -> 3
    [] at \in {"tokens", "mark"} -> 2
    [] at \in Over -> 0
    [] OTHER -> 1

\* Before its first attempt is accounted for, a thread does not know how many retries it has.
Attempting == {"begin", "persist", "spawn", "born", "running", "clear", "back"}

TriesLeft(x) == IF x.tries = 0 /\ x.at \in Attempting THEN Retries ELSE x.left

ThreadWork(x) == 11 * TriesLeft(x) + PlaceOf(x.at)

MainWork == CASE main = "waiting" -> 2 [] main \in {"stopping", "handing"} -> 1 [] OTHER -> 0

Mark(holds) == IF holds THEN 1 ELSE 0

\* What comes and goes beside the threads: a write in flight, the folder that came back,
\* the children and their places in the registry.
Beside ==
  Mark(torn # Nobody) + Mark(~ ghost)
    + (Mark("tester" \in alive) + Mark("security" \in alive))
    + (Mark("tester" \in tracked) + Mark("security" \in tracked))

Work == 7 * (ThreadWork(th["tester"]) + ThreadWork(th["security"]) + MainWork) + Beside

LEMMA Places ==
  /\ PlaceOf("begin") = 10 /\ PlaceOf("persist") = 9 /\ PlaceOf("spawn") = 8 /\ PlaceOf("born") = 7
  /\ PlaceOf("running") = 6 /\ PlaceOf("clear") = 5 /\ PlaceOf("back") = 4
  /\ PlaceOf("finish") = 3 /\ PlaceOf("reap") = 3 /\ PlaceOf("tokens") = 2 /\ PlaceOf("mark") = 2
  /\ PlaceOf("retry") = 1 /\ PlaceOf("failing") = 1 /\ PlaceOf("capped") = 1
  /\ PlaceOf("reload") = 1 /\ PlaceOf("park") = 1
  /\ PlaceOf("done") = 0 /\ PlaceOf("raised") = 0 /\ PlaceOf("gone") = 0
  BY Words DEF PlaceOf

LEMMA PlaceOK ==
  /\ \A at : PlaceOf(at) \in 0..10
  /\ \A at \in Steps \ Over : PlaceOf(at) > 0
<1>1. \A at : PlaceOf(at) \in 0..10
  BY DEF PlaceOf
<1>2. \A at \in Steps \ Over : PlaceOf(at) > 0
  BY Places, Words
<1> QED BY <1>1, <1>2

\* What the parts of the number range over.
WorkTyped ==
  /\ ThreadWork(th["tester"]) \in 0..(11 * Retries + 10)
  /\ ThreadWork(th["security"]) \in 0..(11 * Retries + 10)
  /\ MainWork \in 0..2
  /\ Beside \in 0..6

LEMMA WorkOK == ASSUME PairInv0 PROVE WorkTyped
<1>1. ASSUME NEW s \in Pair PROVE ThreadWork(th[s]) \in 0..(11 * Retries + 10)
  <2>1. th[s].left \in 0..Retries /\ Retries \in Nat
    BY PairAssumption DEF PairInv0, Threads, Thread
  <2>2. TriesLeft(th[s]) \in 0..Retries
    BY <2>1 DEF TriesLeft
  <2>3. PlaceOf(th[s].at) \in 0..10
    BY PlaceOK
  <2> QED BY <2>1, <2>2, <2>3 DEF ThreadWork
<1>2. MainWork \in 0..2
  BY DEF MainWork
<1>3. Beside \in 0..6
  BY DEF Beside, Mark
<1> QED BY <1>1, <1>2, <1>3, Words DEF WorkTyped

LEMMA WorkBound == ASSUME WorkTyped PROVE Work \in 0..(154 * Retries + 160)
<1>1. Retries \in Nat
  BY PairAssumption
<1> QED BY <1>1 DEF Work, WorkTyped

\* A thread that goes on without a new attempt.
LEMMA PlaceFalls ==
  ASSUME PairInv0, NEW s \in Pair, NEW y, NEW from \in Steps, NEW to \in Steps,
         th[s].at = from, y.at = to, y.tries = th[s].tries, y.left = th[s].left,
         to \in Attempting => from \in Attempting, PlaceOf(to) < PlaceOf(from)
  PROVE ThreadWork(y) < ThreadWork(th[s])
<1>1. th[s].left \in 0..Retries /\ Retries \in Nat
  BY PairAssumption DEF PairInv0, Threads, Thread
<1>2. /\ TriesLeft(y) <= TriesLeft(th[s])
      /\ TriesLeft(y) \in Nat /\ TriesLeft(th[s]) \in Nat
  BY <1>1 DEF TriesLeft
<1>3. PlaceOf(y.at) \in Nat /\ PlaceOf(th[s].at) \in Nat
  BY PlaceOK
<1>4. PlaceOf(y.at) < PlaceOf(th[s].at)
  OBVIOUS
<1> QED BY <1>2, <1>3, <1>4 DEF ThreadWork

LEMMA GoesFalls ==
  ASSUME PairInv0, NEW s \in Pair, NEW from \in Steps, NEW to \in Steps, At(s, from), Goes(s, to),
         to \in Attempting => from \in Attempting, PlaceOf(to) < PlaceOf(from)
  PROVE ThreadWork(th'[s]) < ThreadWork(th[s])
<1> DEFINE y == [th[s] EXCEPT !.at = to]
<1>1. /\ y.at = to /\ y.tries = th[s].tries /\ y.left = th[s].left /\ y \in Thread
      /\ th' = [th EXCEPT ![s] = y]
  BY AtOnly DEF PairInv0, Goes
<1> HIDE DEF y
<1>2. th'[s] = y
  BY <1>1, Moved DEF PairInv0
<1>3. th[s].at = from
  BY DEF At
<1>4. ThreadWork(y) < ThreadWork(th[s])
  BY <1>1, <1>3, PlaceFalls
<1> QED BY <1>2, <1>4

LEMMA SimpleFalls ==
  ASSUME PairInv0, NEW s \in Pair,
         \/ Raised(s) \/ StageBegun(s) \/ SessionStored(s) \/ Spawned(s) \/ Tracked(s)
         \/ SessionCleared(s) \/ StageFailed(s) \/ StageFinished(s) \/ TokensCounted(s) \/ Reloaded(s)
         \/ ChildrenReaped(s) \/ ParkSkipped(s) \/ ParkMarked(s) \/ ParkMoved(s)
  PROVE ThreadWork(th'[s]) < ThreadWork(th[s])
<1> DEFINE Hop(from, to) == At(s, from) /\ Goes(s, to)
<1>1. ASSUME NEW from \in Steps, NEW to \in Steps, Hop(from, to), PlaceOf(to) < PlaceOf(from),
             to \in Attempting => from \in Attempting
      PROVE ThreadWork(th'[s]) < ThreadWork(th[s])
  BY <1>1, GoesFalls
<1>2. CASE Raised(s)
  <2>1. PICK from \in {"begin", "back", "retry", "failing", "finish", "capped", "tokens", "reload"} :
           Hop(from, "raised")
    BY <1>2 DEF Raised
  <2>2. from \in Steps \ Over /\ "raised" \in Steps /\ "raised" \notin Attempting
    BY Words DEF Attempting
  <2>3. PlaceOf("raised") < PlaceOf(from)
    BY <2>2, Places, PlaceOK
  <2> HIDE DEF Hop
  <2> QED BY <1>1, <2>1, <2>2, <2>3
<1>3. CASE ~ Raised(s)
  <2>1. \/ Hop("begin", "persist") \/ Hop("persist", "spawn") \/ Hop("spawn", "born")
        \/ Hop("born", "running") \/ Hop("clear", "back") \/ Hop("failing", "done")
        \/ Hop("finish", "tokens") \/ Hop("tokens", "capped") \/ Hop("tokens", "reload")
        \/ Hop("reload", "done") \/ Hop("reap", "mark") \/ Hop("mark", "done")
        \/ Hop("mark", "park") \/ Hop("park", "done")
    <3>1. CASE TokensCounted(s)
      BY <3>1 DEF TokensCounted
    <3>2. CASE \/ StageBegun(s) \/ SessionStored(s) \/ Spawned(s) \/ Tracked(s)
               \/ SessionCleared(s) \/ StageFailed(s) \/ StageFinished(s) \/ Reloaded(s)
               \/ ChildrenReaped(s) \/ ParkSkipped(s) \/ ParkMarked(s) \/ ParkMoved(s)
      BY <3>2 DEF StageBegun, SessionStored, Spawned, Tracked, SessionCleared, StageFailed,
                  StageFinished, Reloaded, ChildrenReaped, ParkSkipped, ParkMarked, ParkMoved
    <3> QED BY <1>3, <3>1, <3>2
  <2> HIDE DEF Hop
  <2>2. ASSUME NEW from \in Steps, NEW to \in Steps, PlaceOf(to) < PlaceOf(from),
               to \in Attempting => from \in Attempting
        PROVE Hop(from, to) => ThreadWork(th'[s]) < ThreadWork(th[s])
    BY <1>1, <2>2
  <2>3. /\ "persist" \in Attempting /\ "spawn" \in Attempting /\ "born" \in Attempting
        /\ "begin" \in Attempting /\ "running" \in Attempting /\ "clear" \in Attempting
        /\ {"done", "tokens", "capped", "reload", "mark", "park"} \cap Attempting = {}
    BY DEF Attempting
  <2>4. CASE Hop("begin", "persist") \/ Hop("persist", "spawn") \/ Hop("spawn", "born")
    BY <2>2, <2>3, <2>4, Places, Words
  <2>5. CASE Hop("born", "running") \/ Hop("clear", "back")
    BY <2>2, <2>3, <2>5, Places, Words
  <2>6. CASE Hop("failing", "done") \/ Hop("finish", "tokens")
    BY <2>2, <2>3, <2>6, Places, Words
  <2>7. CASE Hop("tokens", "capped") \/ Hop("tokens", "reload")
    BY <2>2, <2>3, <2>7, Places, Words
  <2>8. CASE Hop("reload", "done") \/ Hop("reap", "mark")
    BY <2>2, <2>3, <2>8, Places, Words
  <2>9. CASE Hop("mark", "done") \/ Hop("mark", "park") \/ Hop("park", "done")
    BY <2>2, <2>3, <2>9, Places, Words
  <2> QED BY <2>1, <2>4, <2>5, <2>6, <2>7, <2>8, <2>9
<1> QED BY <1>2, <1>3

LEMMA EditFalls ==
  ASSUME PairInv0, NEW s \in Pair, SpawnFailed(s) \/ StopDeferred(s)
  PROVE ThreadWork(th'[s]) < ThreadWork(th[s])
<1>1. th[s] \in Thread /\ th \in [Pair -> Thread]
  BY DEF PairInv0, Threads
<1>2. CASE SpawnFailed(s)
  <2>1. /\ th[s].at = "spawn" /\ th'[s].at = "back"
        /\ th'[s].tries = th[s].tries /\ th'[s].left = th[s].left
    BY <1>1, <1>2 DEF SpawnFailed, At, Thread
  <2>2. "spawn" \in Steps /\ "back" \in Steps /\ "spawn" \in Attempting
    BY Words DEF Attempting
  <2>3. PlaceOf("back") < PlaceOf("spawn")
    BY Places
  <2> QED BY <2>1, <2>2, <2>3, PlaceFalls
<1>3. CASE StopDeferred(s)
  <2>1. /\ th[s].at = "capped" /\ th'[s].at = "done"
        /\ th'[s].tries = th[s].tries /\ th'[s].left = th[s].left
    BY <1>1, <1>3 DEF StopDeferred, At, Thread
  <2>2. "capped" \in Steps /\ "done" \in Steps /\ "done" \notin Attempting
    BY Words DEF Attempting
  <2>3. PlaceOf("done") < PlaceOf("capped")
    BY Places
  <2> QED BY <2>1, <2>2, <2>3, PlaceFalls
<1> QED BY <1>2, <1>3

LEMMA ReturnedFalls ==
  ASSUME PairInv0, NEW s \in Pair, NEW rc, NEW bill, Returned(s, rc, bill)
  PROVE ThreadWork(th'[s]) < ThreadWork(th[s])
<1> DEFINE pc == AfterReturn(s, rc)
           b == IF rc = "ok" THEN bill ELSE 0
<1>1. /\ th[s].at = "running"
      /\ th' = [th EXCEPT ![s].at = pc, ![s].rc = rc, ![s].bill = b]
  BY DEF Returned, At
<1>2. pc \in {"clear", "back"}
  BY DEF AfterReturn
<1> HIDE DEF pc, b
<1>3. th'[s].at = pc /\ th'[s].tries = th[s].tries /\ th'[s].left = th[s].left
  BY <1>1 DEF PairInv0, Threads, Thread
<1>4. "running" \in Steps /\ pc \in Steps /\ "running" \in Attempting
  BY <1>2, Words DEF Attempting
<1>5. PlaceOf(pc) < PlaceOf("running")
  BY <1>2, Places
<1> QED BY <1>1, <1>3, <1>4, <1>5, PlaceFalls

LEMMA AccountedFalls ==
  ASSUME PairInv0, NEW s \in Pair, NEW plan \in 0..Retries, Accounted(s, plan)
  PROVE ThreadWork(th'[s]) < ThreadWork(th[s])
<1> DEFINE x == th[s]
           left == IF x.tries = 0 THEN plan ELSE x.left
           bill == IF Here THEN x.bill ELSE 0
           pc == IF x.rc = "ok" THEN "finish"
                 ELSE IF x.rc = "stall" /\ x.tries = 0 THEN "reap"
                 ELSE IF x.rc = "timeout" /\ x.tries = 0 THEN "failing"
                 ELSE IF left > 0 THEN "retry" ELSE "failing"
<1>1. /\ x.at = "back"
      /\ th' = [th EXCEPT ![s].at = pc, ![s].left = left, ![s].bill = bill]
  BY DEF Accounted, At
<1>2. pc \in {"finish", "reap", "failing", "retry"}
  OBVIOUS
<1> HIDE DEF pc, bill
<1>3. th'[s].at = pc /\ th'[s].tries = x.tries /\ th'[s].left = left
  BY <1>1 DEF PairInv0, Threads, Thread
<1>4. x.tries \in 0..Retries /\ x.left \in 0..Retries /\ Retries \in Nat
  BY PairAssumption DEF PairInv0, Threads, Thread
<1>5. TriesLeft(x) = IF x.tries = 0 THEN Retries ELSE x.left
  BY <1>1 DEF TriesLeft, Attempting
<1>6. TriesLeft(th'[s]) = left
  BY <1>2, <1>3 DEF TriesLeft, Attempting
<1>7. left <= TriesLeft(x) /\ left \in Nat /\ TriesLeft(x) \in Nat
  BY <1>4, <1>5
<1>8. PlaceOf(th'[s].at) \in 0..3 /\ PlaceOf(x.at) = 4
  BY <1>1, <1>2, <1>3, Places
<1> HIDE DEF x, left
<1>9. 11 * left + PlaceOf(th'[s].at) < 11 * TriesLeft(x) + PlaceOf(x.at)
  BY <1>7, <1>8
<1> QED BY <1>6, <1>9 DEF ThreadWork, x

LEMMA RetriedFalls ==
  ASSUME PairInv0, NEW s \in Pair, Retried(s)
  PROVE ThreadWork(th'[s]) < ThreadWork(th[s])
<1>1. th[s] \in Thread /\ th \in [Pair -> Thread] /\ Retries \in Nat
  BY PairAssumption DEF PairInv0, Threads
<1>2. th[s].tries \in Nat /\ th[s].left \in Nat /\ th[s].at = "retry"
  BY <1>1 DEF Thread, Retried, At
<1>3. /\ th'[s].at = "persist"
      /\ th'[s].tries = th[s].tries + 1 /\ th'[s].left = th[s].left - 1
  BY <1>1 DEF Retried, Thread
<1>4. TriesLeft(th[s]) = th[s].left
  BY <1>2 DEF TriesLeft, Attempting
<1>5. TriesLeft(th'[s]) = th[s].left - 1
  BY <1>2, <1>3 DEF TriesLeft
<1>6. PlaceOf(th'[s].at) = 9 /\ PlaceOf(th[s].at) = 1
  BY <1>2, <1>3, Places
<1> QED BY <1>2, <1>4, <1>5, <1>6 DEF ThreadWork

LEMMA ThreadFalls ==
  ASSUME PairInv, NEW s \in Pair, ThreadStep(s) \/ SpawnFailed(s)
  PROVE /\ ThreadWork(th'[s]) < ThreadWork(th[s])
        /\ Goes1(s)
<1>1. PairInv0
  BY DEF PairInv
<1>2. Goes1(s)
  BY <1>1, SimpleOK, SpawnOK, SpawnFailedOK, ReturnedOK, AccountedOK, RetriedOK, StopOK, ParkOK,
     TokensOK DEF ThreadStep
<1>3. CASE \/ \E rc \in {"ok", "fail", "stall", "timeout"}, bill \in Bills : Returned(s, rc, bill)
           \/ \E plan \in 0..Retries : Accounted(s, plan)
           \/ Retried(s) \/ StopDeferred(s) \/ SpawnFailed(s)
  <2>1. CASE \E rc \in {"ok", "fail", "stall", "timeout"}, bill \in Bills : Returned(s, rc, bill)
    BY <1>1, <1>2, <2>1, ReturnedFalls
  <2>2. CASE \E plan \in 0..Retries : Accounted(s, plan)
    BY <1>1, <1>2, <2>2, AccountedFalls
  <2>3. CASE Retried(s)
    BY <1>1, <1>2, <2>3, RetriedFalls
  <2>4. CASE StopDeferred(s) \/ SpawnFailed(s)
    BY <1>1, <1>2, <2>4, EditFalls
  <2> QED BY <1>3, <2>1, <2>2, <2>3, <2>4
<1>4. CASE \/ Raised(s) \/ StageBegun(s) \/ SessionStored(s) \/ Spawned(s) \/ Tracked(s)
           \/ SessionCleared(s) \/ StageFailed(s) \/ StageFinished(s) \/ TokensCounted(s) \/ Reloaded(s)
           \/ ChildrenReaped(s) \/ ParkSkipped(s) \/ ParkMarked(s) \/ ParkMoved(s)
  BY <1>1, <1>2, <1>4, SimpleFalls
<1> QED BY <1>2, <1>3, <1>4 DEF ThreadStep

\* The sum falls when the part of greater weight does.
LEMMA Weighed ==
  ASSUME NEW a \in Nat, NEW b \in Nat, NEW m \in Nat, NEW c \in 0..6,
         NEW a1 \in Nat, NEW b1 \in Nat, NEW m1 \in Nat, NEW c1 \in 0..6,
         a1 + b1 + m1 < a + b + m
  PROVE 7 * (a1 + b1 + m1) + c1 < 7 * (a + b + m) + c
  OBVIOUS

LEMMA HeavyFalls ==
  ASSUME WorkTyped, WorkTyped',
         \/ /\ \E s \in Pair : /\ ThreadWork(th'[s]) < ThreadWork(th[s])
                               /\ \A u \in Pair : u # s => th'[u] = th[u]
            /\ main' = main
         \/ MainWork' < MainWork /\ \A s \in Pair : ThreadWork(th'[s]) <= ThreadWork(th[s])
  PROVE Work' < Work
<1>1. Retries \in Nat
  BY PairAssumption
<1>2. /\ ThreadWork(th["tester"]) \in Nat /\ ThreadWork(th'["tester"]) \in Nat
      /\ ThreadWork(th["security"]) \in Nat /\ ThreadWork(th'["security"]) \in Nat
      /\ MainWork \in Nat /\ MainWork' \in Nat
      /\ Beside \in 0..6 /\ Beside' \in 0..6
  BY <1>1 DEF WorkTyped
<1>3. ThreadWork(th'["tester"]) + ThreadWork(th'["security"]) + MainWork'
        < ThreadWork(th["tester"]) + ThreadWork(th["security"]) + MainWork
  <2>1. CASE /\ \E s \in Pair : /\ ThreadWork(th'[s]) < ThreadWork(th[s])
                                /\ \A u \in Pair : u # s => th'[u] = th[u]
             /\ main' = main
    <3>1. MainWork' = MainWork
      BY <2>1 DEF MainWork
    <3>2. \/ /\ ThreadWork(th'["tester"]) < ThreadWork(th["tester"])
             /\ th'["security"] = th["security"]
          \/ /\ ThreadWork(th'["security"]) < ThreadWork(th["security"])
             /\ th'["tester"] = th["tester"]
      BY <2>1, Words
    <3> QED BY <1>2, <3>1, <3>2
  <2>2. CASE MainWork' < MainWork /\ \A s \in Pair : ThreadWork(th'[s]) <= ThreadWork(th[s])
    <3>1. /\ ThreadWork(th'["tester"]) <= ThreadWork(th["tester"])
          /\ ThreadWork(th'["security"]) <= ThreadWork(th["security"])
      BY <2>2, Words
    <3> QED BY <1>2, <2>2, <3>1
  <2> QED BY <2>1, <2>2
<1> QED BY <1>2, <1>3, Weighed DEF Work

LEMMA MainFalls ==
  ASSUME PairInv, MainStep \/ RunnerKilled
  PROVE MainWork' < MainWork /\ \A s \in Pair : ThreadWork(th'[s]) <= ThreadWork(th[s])
<1>1. th \in [Pair -> Thread] /\ PairInv0
  BY DEF PairInv, PairInv0, Threads
<1>2. \A s \in Pair : ThreadWork(th[s]) \in Nat
  BY <1>1, WorkOK, PairAssumption, Words DEF WorkTyped
<1>3. CASE MainStep
  <2>1. th' = th
    BY <1>3 DEF MainStep, Crashed, Joined, BudgetStopped, HandedOff
  <2>2. \/ main = "waiting" /\ main' # "waiting"
        \/ main \in {"stopping", "handing"} /\ main' \in {"crashed", "ended"}
    <3>1. CASE Joined
      <4>1. main' \in {"stopping", "handing", "ended", "reviewer"}
        <5>1. /\ main' = Verdict
              /\ \A s \in Pair : th[s].rc \in {"ok", "cap", "fail", "timeout", "stall"}
          BY <3>1, AtTheJoin DEF Joined, Joining
        <5> QED BY <5>1, Words DEF Verdict
      <4> QED BY <3>1, <4>1 DEF Joined, Joining
    <3>2. CASE Crashed
      BY <3>2 DEF Crashed, Joining
    <3>3. CASE BudgetStopped \/ \E work \in BOOLEAN : HandedOff(work)
      BY <3>3 DEF BudgetStopped, HandedOff
    <3> QED BY <1>3, <3>1, <3>2, <3>3 DEF MainStep
  <2>3. MainWork' < MainWork
    BY <2>2 DEF MainWork
  <2> QED BY <1>2, <2>1, <2>3
<1>4. CASE RunnerKilled
  <2>1. MainWork' < MainWork
    BY <1>4 DEF RunnerKilled, MainWork
  <2>2. ASSUME NEW s \in Pair PROVE ThreadWork(th'[s]) <= ThreadWork(th[s])
    <3> DEFINE y == [th[s] EXCEPT !.at = "gone"]
    <3>1. th'[s] = y
      BY <1>4 DEF RunnerKilled
    <3>2. /\ y.at = "gone" /\ y.left = th[s].left
          /\ th[s].left \in 0..Retries /\ Retries \in Nat
      BY <1>1, PairAssumption DEF Thread
    <3> HIDE DEF y
    <3>3. /\ TriesLeft(y) <= TriesLeft(th[s])
          /\ TriesLeft(y) \in Nat /\ TriesLeft(th[s]) \in Nat
      BY <3>2 DEF TriesLeft, Attempting
    <3>4. PlaceOf(y.at) = 0 /\ PlaceOf(th[s].at) \in Nat
      BY <3>2, Places, PlaceOK
    <3> QED BY <3>1, <3>3, <3>4 DEF ThreadWork
  <2> QED BY <2>1, <2>2
<1> QED BY <1>3, <1>4

LEMMA LightFalls ==
  ASSUME PairInv, ~ UNCHANGED vars,
         \/ \E s \in Pair : Flushed(s) \/ GhostWritten(s) \/ Swept(s)
         \/ Signalled
  PROVE Work' < Work
<1>1. UNCHANGED <<th, main>>
  BY DEF Flushed, GhostWritten, Swept, Signalled
<1>2. MainWork' = MainWork
  BY <1>1 DEF MainWork
<1>3. Beside' < Beside
  <2>1. alive \subseteq Pair /\ tracked \subseteq Pair /\ ghost \in BOOLEAN
    BY DEF PairInv, PairInv0, Others
  <2>2. CASE \E s \in Pair : Flushed(s)
    <3>1. torn # Nobody /\ torn' = Nobody /\ UNCHANGED <<ghost, alive, tracked>>
      BY <2>2 DEF Flushed, vars
    <3> QED BY <3>1 DEF Beside, Mark
  <2>3. CASE \E s \in Pair : GhostWritten(s)
    <3>1. ~ ghost /\ ghost' /\ UNCHANGED <<torn, alive, tracked>>
      BY <2>1, <2>3 DEF GhostWritten, vars
    <3> QED BY <3>1 DEF Beside, Mark
  <2>4. CASE \E s \in Pair : Swept(s)
    <3>1. PICK s \in Pair : s \in alive /\ alive' = alive \ {s} /\ UNCHANGED <<torn, ghost, tracked>>
      BY <2>4 DEF Swept
    <3> QED BY <3>1, Words DEF Beside, Mark
  <2>5. CASE Signalled
    <3>1. alive' = alive \ tracked /\ tracked' = {} /\ UNCHANGED <<torn, ghost>> /\ tracked # {}
      BY <2>5 DEF Signalled, vars
    <3>2. /\ \A s \in Pair : (s \in alive' => s \in alive) /\ s \notin tracked'
          /\ "tester" \in tracked \/ "security" \in tracked
      BY <2>1, <3>1, Words
    <3>3. /\ Mark("tester" \in alive') <= Mark("tester" \in alive)
          /\ Mark("security" \in alive') <= Mark("security" \in alive)
      BY <3>2, Words DEF Mark
    <3>4. /\ Mark("tester" \in tracked') = 0 /\ Mark("security" \in tracked') = 0
          /\ Mark("tester" \in tracked) + Mark("security" \in tracked) > 0
      BY <3>2, Words DEF Mark
    <3>5. \A b : Mark(b) \in Nat
      BY DEF Mark
    <3> QED BY <3>1, <3>3, <3>4, <3>5 DEF Beside
  <2> QED BY <2>2, <2>3, <2>4, <2>5
<1>4. Beside \in 0..6 /\ Beside' \in Int
  BY DEF Beside, Mark
<1>5. /\ ThreadWork(th["tester"]) \in Nat /\ ThreadWork(th["security"]) \in Nat
      /\ MainWork \in Nat
  BY WorkOK, PairAssumption DEF PairInv, WorkTyped
<1> QED BY <1>1, <1>2, <1>3, <1>4, <1>5 DEF Work

\* Whatever the two threads do to each other, whatever their children write and whenever
\* the runner is signalled or killed, the pair takes a bounded number of steps: each one
\* lowers a number that begins at 154 * Retries + 155 at the most.
THEOREM PairStepsRunOut ==
  Spec => /\ Work = 154 * Retries + 155
          /\ [](Work \in 0..(154 * Retries + 160))
          /\ [][Work' < Work]_vars
<1>1. Init => Work = 154 * Retries + 155
  <2> SUFFICES ASSUME Init PROVE Work = 154 * Retries + 155
    OBVIOUS
  <2>1. ThreadWork(Fresh) = 11 * Retries + 10
    BY Places DEF ThreadWork, TriesLeft, Attempting, Fresh
  <2>2. th["tester"] = Fresh /\ th["security"] = Fresh
    BY Words DEF Init
  <2>3. MainWork = 2 /\ Beside = 1
    BY DEF Init, MainWork, Beside, Mark
  <2> QED BY <2>1, <2>2, <2>3, PairAssumption DEF Work
<1>2. PairInv => WorkTyped
  BY WorkOK DEF PairInv
<1>3. WorkTyped => Work \in 0..(154 * Retries + 160)
  BY WorkBound
<1>4. PairInv /\ WorkTyped /\ WorkTyped' /\ [Next]_vars => [Work' < Work]_vars
  <2> SUFFICES ASSUME PairInv, WorkTyped, WorkTyped', Next, ~ UNCHANGED vars PROVE Work' < Work
    OBVIOUS
  <2>1. CASE \E s \in Pair : ThreadStep(s) \/ SpawnFailed(s)
    <3>1. PICK s \in Pair : ThreadStep(s) \/ SpawnFailed(s)
      BY <2>1
    <3>2. /\ ThreadWork(th'[s]) < ThreadWork(th[s])
          /\ \A u \in Pair : u # s => th'[u] = th[u]
          /\ main' = main
      BY <3>1, ThreadFalls DEF Goes1
    <3> QED BY <3>2, HeavyFalls
  <2>2. CASE MainStep \/ RunnerKilled
    BY <2>2, MainFalls, HeavyFalls
  <2>3. CASE \/ \E s \in Pair : Flushed(s) \/ GhostWritten(s) \/ Swept(s)
             \/ Signalled
    BY <2>3, LightFalls
  <2> QED BY <2>1, <2>2, <2>3 DEF Next
<1> QED BY <1>1, <1>2, <1>3, <1>4, PairInvariant, PTL DEF Spec
=============================================================================
