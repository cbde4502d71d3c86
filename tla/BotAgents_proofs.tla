--------------------------- MODULE BotAgents_proofs ---------------------------
(***************************************************************************)
(* What TLAPS proves of BotAgents and Watchdog for every limit of the      *)
(* watchdog and any number of tasks, messages, projects and killed bots.   *)
(***************************************************************************)
EXTENDS BotAgents, FiniteSetTheorems, TLAPS

----------------------------------------------------------------------------
(* Children are named by their owner and their part. *)

LEMMA Names ==
  /\ \A t \in Tasks : Sub(t) \in Kids /\ Sub(t) \notin MetaKids
  /\ \A c \in Callers : Meta(c) \in MetaKids /\ Again(c) \in MetaKids
  /\ MetaKids \subseteq Kids
  /\ \A t, u \in Tasks : Sub(t) = Sub(u) => t = u
  /\ \A c, d \in Callers : Meta(c) # Again(d)
  /\ \A c, d \in Callers : Meta(c) = Meta(d) \/ Again(c) = Again(d) => c = d
  /\ \A k \in MetaKids : \E c \in Callers : k = Meta(c) \/ k = Again(c)
  /\ \A k \in Kids \ MetaKids : \E t \in Tasks : k = Sub(t)
  BY DEF Sub, Meta, Again, Kids, MetaKids

Wheres == {"none", "starting", "born", "over"} \cup Running

LEMMA WheresOK ==
  /\ Wheres = {"none", "starting", "born", "over", "running", "talking"}
  /\ Running = {"running", "talking"}
  BY DEF Wheres, Running

----------------------------------------------------------------------------
(* Type correctness. *)

\* A sub-agent in flight has its entry; a bot that is down has none in flight.
Linked == DOMAIN active \subseteq DOMAIN dog /\ (bot = "down" => DOMAIN active = {})

TypeInv == TypeOK /\ Linked

LEMMA SavedOK ==
  /\ Saved = [selection : Selections, session : Sessions]
  /\ NoRun \in [stopped : BOOLEAN, resumed : BOOLEAN, copy : Saved]
  BY DEF Saved, NoRun, Selections, Sessions

LEMMA InitTyped == ASSUME Init PROVE TypeInv
<1>1. /\ DOMAIN dog = {} /\ DOMAIN active = {}
  BY DEF Init
<1>2. disk \in Saved /\ chosen \in Selections
  BY DEF Init, Saved, Selections, Sessions
<1>3. co \in [Kids -> Wheres] /\ call \in [Callers -> {"none", "queued", "holding", "ended"}]
  BY WheresOK DEF Init
<1>4. picks \in 0..MaxPicks /\ kills \in 0..MaxKills
      /\ asked \in [Tasks -> {"no", "reading", "early", "late"}]
  BY BotAssumption DEF Init
<1> QED BY <1>1, <1>2, <1>3, <1>4, SavedOK DEF Init, TypeInv, TypeOK, Linked, Wheres

\* The accounts after a dispatch, a completion, a shutdown and a restart.
LEMMA RecordedOK ==
  ASSUME TypeInv, NEW t \in Tasks, NEW e \in Entry
  PROVE /\ DOMAIN Recorded(t, e) = DOMAIN dog \cup {t}
        /\ Recorded(t, e)[t] = e
        /\ \A u \in DOMAIN dog \ {t} : Recorded(t, e)[u] = dog[u]
        /\ \A u \in DOMAIN Recorded(t, e) : Recorded(t, e)[u] \in Entry
  BY DEF Recorded, TypeInv, TypeOK

\* A change of status.
Restated(new) ==
  /\ DOMAIN new = DOMAIN dog
  /\ \A u \in DOMAIN dog :
       /\ new[u] \in Entry
       /\ new[u].root = dog[u].root /\ new[u].role = dog[u].role
       /\ new[u].prompt = dog[u].prompt /\ new[u].hops = dog[u].hops
       /\ new[u].parent = dog[u].parent
       /\ dog[u].status = "terminated" => new[u].status = "terminated"

LEMMA RestatedEntry ==
  ASSUME NEW e \in Entry, NEW s \in Statuses
  PROVE LET f == [e EXCEPT !.status = s]
        IN  /\ f \in Entry /\ f.root = e.root /\ f.role = e.role /\ f.prompt = e.prompt
            /\ f.hops = e.hops /\ f.parent = e.parent /\ f.status = s
  BY DEF Entry

LEMMA CompletedOK ==
  ASSUME TypeInv, NEW t \in Tasks, NEW ok \in BOOLEAN
  PROVE /\ Restated(Completed(t, ok))
        /\ t \in DOMAIN dog => Completed(t, ok)[t].status # "pending"
        /\ \A u \in DOMAIN dog \ {t} : Completed(t, ok)[u] = dog[u]
<1> DEFINE s == IF ok THEN "completed" ELSE "failed"
<1>1. s \in Statuses \ {"pending"}
  BY DEF Statuses
<1>2. CASE t \in DOMAIN dog /\ dog[t].status # "terminated"
  <2> DEFINE f == [dog[t] EXCEPT !.status = s]
  <2>1. Completed(t, ok) = [dog EXCEPT ![t].status = s]
    BY <1>2 DEF Completed
  <2>2. dog[t] \in Entry
    BY <1>2 DEF TypeInv, TypeOK
  <2> HIDE DEF s
  <2>3. f \in Entry /\ f.root = dog[t].root /\ f.role = dog[t].role /\ f.prompt = dog[t].prompt
        /\ f.hops = dog[t].hops /\ f.parent = dog[t].parent /\ f.status = s
    BY <1>1, <2>2, RestatedEntry
  <2>4. /\ DOMAIN Completed(t, ok) = DOMAIN dog
        /\ \A u \in DOMAIN dog : Completed(t, ok)[u] = IF u = t THEN f ELSE dog[u]
    BY <2>1
  <2> HIDE DEF f
  <2>5. \A u \in DOMAIN dog : dog[u] \in Entry
    BY DEF TypeInv, TypeOK
  <2> QED BY <1>1, <1>2, <2>3, <2>4, <2>5 DEF Restated
<1>3. CASE ~(t \in DOMAIN dog /\ dog[t].status # "terminated")
  <2>1. Completed(t, ok) = dog
    BY <1>3 DEF Completed
  <2> QED BY <1>3, <2>1 DEF Restated, TypeInv, TypeOK
<1> QED BY <1>2, <1>3

LEMMA TerminatedOK ==
  ASSUME TypeInv, NEW S \in SUBSET Tasks
  PROVE /\ Restated(Terminated(S))
        /\ \A u \in DOMAIN dog \cap S : Terminated(S)[u].status = "terminated"
        /\ \A u \in DOMAIN dog \ S : Terminated(S)[u] = dog[u]
<1>1. "terminated" \in Statuses
  BY DEF Statuses
<1>2. /\ DOMAIN Terminated(S) = DOMAIN dog
      /\ \A u \in DOMAIN dog : Terminated(S)[u] = IF u \in S THEN [dog[u] EXCEPT !.status = "terminated"]
                                                  ELSE dog[u]
  BY DEF Terminated
<1>3. \A u \in DOMAIN dog : dog[u] \in Entry
  BY DEF TypeInv, TypeOK
<1>4. ASSUME NEW u \in DOMAIN dog \cap S
      PROVE /\ Terminated(S)[u] \in Entry
            /\ Terminated(S)[u].root = dog[u].root /\ Terminated(S)[u].role = dog[u].role
            /\ Terminated(S)[u].prompt = dog[u].prompt /\ Terminated(S)[u].hops = dog[u].hops
            /\ Terminated(S)[u].parent = dog[u].parent
            /\ Terminated(S)[u].status = "terminated"
  <2> DEFINE f == [dog[u] EXCEPT !.status = "terminated"]
  <2>1. f \in Entry /\ f.root = dog[u].root /\ f.role = dog[u].role /\ f.prompt = dog[u].prompt
        /\ f.hops = dog[u].hops /\ f.parent = dog[u].parent /\ f.status = "terminated"
    BY <1>1, <1>3, RestatedEntry
  <2>2. Terminated(S)[u] = f
    BY <1>2
  <2> QED BY <2>1, <2>2
<1>5. \A u \in DOMAIN dog \ S : Terminated(S)[u] = dog[u]
  BY <1>2
<1> QED BY <1>2, <1>3, <1>4, <1>5 DEF Restated

LEMMA CancelledOK ==
  ASSUME TypeInv, NEW S \in SUBSET Tasks
  PROVE /\ Restated(Cancelled(S))
        /\ \A u \in DOMAIN dog \cap S : Cancelled(S)[u].status # "pending"
        /\ \A u \in DOMAIN dog \ S : Cancelled(S)[u] = dog[u]
<1>1. "failed" \in Statuses
  BY DEF Statuses
<1>2. /\ DOMAIN Cancelled(S) = DOMAIN dog
      /\ \A u \in DOMAIN dog : Cancelled(S)[u] = IF u \in S /\ dog[u].status # "terminated"
                                                THEN [dog[u] EXCEPT !.status = "failed"] ELSE dog[u]
  BY DEF Cancelled
<1>3. \A u \in DOMAIN dog : dog[u] \in Entry
  BY DEF TypeInv, TypeOK
<1>4. ASSUME NEW u \in DOMAIN dog \cap S, dog[u].status # "terminated"
      PROVE /\ Cancelled(S)[u] \in Entry
            /\ Cancelled(S)[u].root = dog[u].root /\ Cancelled(S)[u].role = dog[u].role
            /\ Cancelled(S)[u].prompt = dog[u].prompt /\ Cancelled(S)[u].hops = dog[u].hops
            /\ Cancelled(S)[u].parent = dog[u].parent
            /\ Cancelled(S)[u].status = "failed"
  <2> DEFINE f == [dog[u] EXCEPT !.status = "failed"]
  <2>1. f \in Entry /\ f.root = dog[u].root /\ f.role = dog[u].role /\ f.prompt = dog[u].prompt
        /\ f.hops = dog[u].hops /\ f.parent = dog[u].parent /\ f.status = "failed"
    BY <1>1, <1>3, RestatedEntry
  <2>2. Cancelled(S)[u] = f
    BY <1>2, <1>4
  <2> QED BY <2>1, <2>2
<1>5. \A u \in DOMAIN dog : u \notin S \/ dog[u].status = "terminated" => Cancelled(S)[u] = dog[u]
  BY <1>2
<1> QED BY <1>2, <1>3, <1>4, <1>5 DEF Restated

LEMMA PrunedOK ==
  ASSUME TypeInv, NEW stale \in SUBSET Tasks
  PROVE /\ DOMAIN Pruned(stale) \subseteq DOMAIN dog
        /\ \A u \in DOMAIN Pruned(stale) : Pruned(stale)[u] = dog[u]
  BY DEF Pruned

LEMMA NewEntryOK ==
  ASSUME TypeInv, NEW t \in Tasks, NEW parent \in DOMAIN dog \cup {None},
         NEW project \in Projects, NEW prompt \in Prompts
  PROVE /\ RootFor(t, parent) \in Tasks
        /\ HopDepth(RootFor(t, parent), parent) \in Nat
        /\ NewEntry(RootFor(t, parent), parent, RoleOf[project], prompt) \in Entry
<1>1. \A u \in DOMAIN dog : dog[u] \in Entry
  BY DEF TypeInv, TypeOK
<1>2. RootFor(t, parent) \in Tasks
  BY <1>1 DEF RootFor, TypeInv, Linked, Entry
<1>3. HopDepth(RootFor(t, parent), parent) \in Nat
  BY <1>1 DEF HopDepth, Dispatches, Entry
<1>4. RoleOf[project] \in Roles /\ parent \in Tasks \cup {None} /\ "pending" \in Statuses
  BY BotAssumption DEF TypeInv, TypeOK, Statuses
<1> QED BY <1>2, <1>3, <1>4 DEF NewEntry, Entry


LEMMA KidTyped ==
  ASSUME TypeInv, NEW k \in Kids, Born(k) \/ Registered(k) \/ Dies(k) \/ Swept(k)
  PROVE TypeInv'
<1>1. co' \in [Kids -> Wheres]
  BY WheresOK DEF TypeInv, TypeOK, Born, Registered, Dies, Swept, Wheres
<1>2. alive' \subseteq Kids /\ tracked' \subseteq Kids
  BY DEF TypeInv, TypeOK, Born, Registered, Dies, Swept
<1> QED BY <1>1, <1>2 DEF TypeInv, TypeOK, Linked, Entry, Born, Registered, Dies, Swept, Meanwhile, Wheres

LEMMA DispatchTyped ==
  ASSUME TypeInv, NEW t \in Tasks, NEW parent \in DOMAIN dog \cup {None},
         NEW project \in Projects, NEW prompt \in Prompts, Dispatched(t, parent, project, prompt)
  PROVE TypeInv'
<1> DEFINE e == NewEntry(RootFor(t, parent), parent, RoleOf[project], prompt)
<1>1. e \in Entry /\ dog' = Recorded(t, e)
  BY NewEntryOK DEF Dispatched
<1> HIDE DEF e
<1>2. /\ DOMAIN dog' = DOMAIN dog \cup {t} /\ \A u \in DOMAIN dog' : dog'[u] \in Entry
  BY <1>1, RecordedOK
<1>3. /\ DOMAIN active' = DOMAIN active \cup {t}
      /\ \A u \in DOMAIN active' : active'[u] \in Projects
  BY DEF Dispatched, TypeInv, TypeOK
<1>4. co' \in [Kids -> Wheres]
  BY WheresOK, Names DEF Dispatched, TypeInv, TypeOK, Wheres
<1>5. /\ UNCHANGED <<bot, alive, tracked, doomed, call, run, disk, chosen, picks, kills>>
      /\ bot # "down"
      /\ asked' \in [Tasks -> {"no", "reading", "early", "late"}]
  BY DEF Dispatched, TypeInv, TypeOK
<1> QED BY <1>2, <1>3, <1>4, <1>5 DEF TypeInv, TypeOK, Linked, Entry, Wheres

LEMMA SubTyped ==
  ASSUME TypeInv, NEW t \in Tasks, NEW ok \in BOOLEAN, SubFinished(t, ok)
  PROVE TypeInv'
<1>1. dog' \in {dog, Completed(t, ok)}
  BY DEF SubFinished
<1>2. DOMAIN dog' = DOMAIN dog /\ \A u \in DOMAIN dog' : dog'[u] \in Entry
  BY <1>1, CompletedOK DEF Restated, TypeInv, TypeOK
<1>3. /\ DOMAIN active' \subseteq DOMAIN active
      /\ \A u \in DOMAIN active' : active'[u] \in Projects
  BY DEF SubFinished, TypeInv, TypeOK
<1>4. co' \in [Kids -> Wheres]
  BY WheresOK, Names DEF SubFinished, TypeInv, TypeOK, Wheres
<1>5. call' \in [Callers -> {"none", "queued", "holding", "ended"}]
  BY DEF SubFinished, TypeInv, TypeOK, Callers
<1>6. /\ UNCHANGED <<bot, asked, alive, doomed, run, disk, chosen, picks, kills>>
      /\ tracked' \subseteq tracked
  BY DEF SubFinished, Meanwhile
<1> QED BY <1>2, <1>3, <1>4, <1>5, <1>6 DEF TypeInv, TypeOK, Linked, Entry, Wheres

LEMMA CallTyped ==
  ASSUME TypeInv, NEW c \in Callers,
         \/ MessageReceived(c) \/ MetaStopped(c) \/ MetaSteps(c)
  PROVE TypeInv'
<1> DEFINE States == {"none", "queued", "holding", "ended"}
           RunType == [stopped : BOOLEAN, resumed : BOOLEAN, copy : Saved]
<1>0. /\ run \in RunType /\ disk \in Saved /\ call \in [Callers -> States] /\ co \in [Kids -> Wheres]
      /\ "queued" \in States /\ "holding" \in States /\ "ended" \in States
  BY DEF TypeInv, TypeOK, Wheres
<1> HIDE DEF States
<1>1. call' \in [Callers -> States]
  BY <1>0 DEF MessageReceived, MetaStopped, MetaSteps, MetaEntered, SessionCaptured, MetaRetried, MetaEnded
<1>2. co' \in [Kids -> Wheres]
  BY <1>0, WheresOK, Names DEF MessageReceived, MetaStopped, MetaSteps, MetaEntered, SessionCaptured,
                               MetaRetried, MetaEnded
<1>3. run' \in RunType /\ disk' \in Saved
  <2>1. CASE MessageReceived(c)
    BY <1>0, <2>1 DEF MessageReceived
  <2>2. CASE MetaStopped(c)
    BY <1>0, <2>2 DEF MetaStopped
  <2>3. CASE MetaEntered(c)
    BY <1>0, <2>3 DEF MetaEntered
  <2>4. CASE MetaEnded(c)
    BY <1>0, <2>4, SavedOK DEF MetaEnded
  <2>5. CASE SessionCaptured(c)
    <3>1. run' = [run EXCEPT !.copy.session = "new"] /\ disk' = run'.copy
      BY <2>5 DEF SessionCaptured
    <3>2. [run.copy EXCEPT !.session = "new"] \in Saved
      BY <1>0 DEF Saved, Sessions
    <3> QED BY <1>0, <3>1, <3>2
  <2>6. CASE MetaRetried(c)
    <3>1. run' = [run EXCEPT !.resumed = FALSE, !.copy.session = "none"] /\ disk' = run'.copy
      BY <2>6 DEF MetaRetried
    <3>2. [run.copy EXCEPT !.session = "none"] \in Saved
      BY <1>0 DEF Saved, Sessions
    <3> QED BY <1>0, <3>1, <3>2
  <2> QED BY <2>1, <2>2, <2>3, <2>4, <2>5, <2>6 DEF MetaSteps
<1>4. /\ UNCHANGED <<dog, active, bot, asked, doomed, chosen, picks, kills>>
      /\ alive' \subseteq alive /\ tracked' \subseteq tracked
  BY DEF MessageReceived, MetaStopped, MetaSteps, MetaEntered, SessionCaptured, MetaRetried, MetaEnded, Meanwhile
<1> QED BY <1>1, <1>2, <1>3, <1>4 DEF TypeInv, TypeOK, Linked, Entry, Wheres, States

LEMMA BotTyped ==
  ASSUME TypeInv,
         \/ \E s \in Selections : BackendChosen(s)
         \/ \E t \in Tasks : RoomChildAsked(t)
         \/ Drained
  PROVE TypeInv'
<1>1. co' \in [Kids -> Wheres]
  BY WheresOK, Names DEF BackendChosen, RoomChildAsked, Drained, TypeInv, TypeOK, Wheres
<1>2. disk' \in Saved /\ chosen' \in Selections /\ picks' \in 0..MaxPicks
  BY BotAssumption DEF BackendChosen, RoomChildAsked, Drained, TypeInv, TypeOK, Saved, Meanwhile
<1>3. /\ UNCHANGED <<dog, asked, active, call, run, kills>> /\ bot' \in {bot, "stopping"}
      /\ alive' \subseteq alive /\ tracked' \subseteq tracked /\ doomed' \subseteq doomed
  BY DEF BackendChosen, RoomChildAsked, Drained, Meanwhile
<1> QED BY <1>1, <1>2, <1>3 DEF TypeInv, TypeOK, Linked, Entry, Wheres

LEMMA ShutdownTyped == ASSUME TypeInv, ShutdownBegins PROVE TypeInv'
<1>1. DOMAIN active \in SUBSET Tasks
  BY DEF TypeInv, TypeOK
<1>2. dog' = Terminated(DOMAIN active) /\ bot' = "draining"
      /\ UNCHANGED <<asked, active, co, alive, call, run, disk, chosen, picks, kills>>
      /\ doomed' \subseteq alive /\ tracked' \subseteq tracked
  BY DEF ShutdownBegins, Meanwhile
<1>3. DOMAIN dog' = DOMAIN dog /\ \A u \in DOMAIN dog' : dog'[u] \in Entry
  BY <1>1, <1>2, TerminatedOK DEF Restated
<1> QED BY <1>2, <1>3 DEF TypeInv, TypeOK, Linked, Entry, Wheres

LEMMA AskTyped ==
  ASSUME TypeInv, NEW t \in Tasks, DispatchAsked(t)
  PROVE TypeInv'
<1>1. asked' \in [Tasks -> {"no", "reading", "early", "late"}]
  BY DEF DispatchAsked, TypeInv, TypeOK
<1>2. UNCHANGED <<dog, bot, active, co, alive, tracked, doomed, call, run, disk, chosen, picks, kills>>
  BY DEF DispatchAsked
<1> QED BY <1>1, <1>2 DEF TypeInv, TypeOK, Linked, Entry, Wheres

LEMMA EndTyped == ASSUME TypeInv, LoopClosed \/ BotKilled PROVE TypeInv'
<1>1. co' \in [Kids -> Wheres]
  BY WheresOK DEF LoopClosed, BotKilled, Ended
<1>2. call' \in [Callers -> {"none", "queued", "holding", "ended"}]
  BY DEF LoopClosed, BotKilled
<1>3. run' = NoRun /\ DOMAIN active' = {} /\ tracked' = {} /\ bot' = "down"
  BY DEF LoopClosed, BotKilled
<1>4. kills' \in 0..MaxKills
  BY BotAssumption DEF LoopClosed, BotKilled, TypeInv, TypeOK
<1>5. UNCHANGED <<disk, chosen, picks>> /\ alive' \subseteq alive /\ doomed' \subseteq doomed
  BY DEF LoopClosed, BotKilled
<1>6. asked' \in [Tasks -> {"no", "reading", "early", "late"}]
  BY DEF LoopClosed, BotKilled, Unread, TypeInv, TypeOK
<1>7. DOMAIN dog' = DOMAIN dog /\ \A u \in DOMAIN dog' : dog'[u] \in Entry
  <2>1. DOMAIN active \in SUBSET Tasks /\ \A u \in DOMAIN dog : dog[u] \in Entry
    BY DEF TypeInv, TypeOK
  <2>2. dog' = dog \/ dog' = Cancelled(DOMAIN active)
    BY DEF LoopClosed, BotKilled
  <2> QED BY <2>1, <2>2, CancelledOK DEF Restated
<1> QED BY <1>1, <1>2, <1>3, <1>4, <1>5, <1>6, <1>7, SavedOK DEF TypeInv, TypeOK, Linked, Entry, Wheres

LEMMA StartTyped == ASSUME TypeInv, NEW stale \in SUBSET Tasks, BotStarts(stale) PROVE TypeInv'
<1>1. DOMAIN dog' \subseteq DOMAIN dog /\ \A u \in DOMAIN dog' : dog'[u] \in Entry
  BY PrunedOK DEF BotStarts, TypeInv, TypeOK
<1>2. UNCHANGED <<asked, active, co, alive, tracked, doomed, call, run, disk, chosen, picks, kills>>
      /\ bot' = "up" /\ DOMAIN active = {}
  BY DEF BotStarts, Meanwhile, TypeInv, Linked
<1> QED BY <1>1, <1>2 DEF TypeInv, TypeOK, Linked, Entry, Wheres

LEMMA NextTyped == ASSUME TypeInv, [Next]_vars PROVE TypeInv'
<1>1. CASE UNCHANGED vars
  BY <1>1 DEF vars, TypeInv, TypeOK, Linked, Entry, Wheres
<1>2. CASE Dispatching
  BY <1>2, DispatchTyped DEF Dispatching
<1>3. CASE ShutdownBegins \/ Drained \/ LoopClosed \/ BotKilled
  BY <1>3, ShutdownTyped, BotTyped, EndTyped
<1>4. CASE \E stale \in SUBSET Tasks : BotStarts(stale)
  BY <1>4, StartTyped
<1> QED BY <1>1, <1>2, <1>3, <1>4, BotTyped, AskTyped, SubTyped, KidTyped, CallTyped DEF Next

\* Types of the variables, for any limits, tasks, messages and projects.
THEOREM BotTypeCorrect == Spec => []TypeOK
<1>1. Init => TypeInv
  BY InitTyped
<1>2. TypeInv /\ [Next]_vars => TypeInv'
  BY NextTyped
<1>3. TypeInv => TypeOK
  BY DEF TypeInv
<1> QED BY <1>1, <1>2, <1>3, PTL DEF Spec

----------------------------------------------------------------------------
(* What a step may do to the accounts: change the status of dispatches,    *)
(* drop accounts, or record an allowed dispatch.                           *)

Dropped(new) == DOMAIN new \subseteq DOMAIN dog /\ \A u \in DOMAIN new : new[u] = dog[u]

LEMMA DogSteps ==
  ASSUME TypeInv, [Next]_vars
  PROVE Restated(dog') \/ Dropped(dog') \/ Dispatching
<1>1. CASE dog' = dog
  BY <1>1 DEF Dropped
<1>2. CASE \E t \in Tasks, ok \in BOOLEAN : SubFinished(t, ok)
  <2>1. PICK t \in Tasks, ok \in BOOLEAN : SubFinished(t, ok)
    BY <1>2
  <2>2. dog' = dog \/ dog' = Completed(t, ok)
    BY <2>1 DEF SubFinished
  <2>3. Restated(Completed(t, ok))
    BY CompletedOK
  <2> QED BY <1>1, <2>2, <2>3
<1>3. CASE ShutdownBegins
  <2>1. dog' = Terminated(DOMAIN active) /\ DOMAIN active \in SUBSET Tasks
    BY <1>3 DEF ShutdownBegins, TypeInv, TypeOK
  <2>2. Restated(Terminated(DOMAIN active))
    BY <2>1, TerminatedOK
  <2> QED BY <2>1, <2>2
<1>4. CASE \E stale \in SUBSET Tasks : BotStarts(stale)
  <2>1. PICK stale \in SUBSET Tasks : BotStarts(stale)
    BY <1>4
  <2>2. dog' = Pruned(stale)
    BY <2>1 DEF BotStarts
  <2> QED BY <2>2, PrunedOK DEF Dropped
<1>5. CASE UNCHANGED vars
  BY <1>1, <1>5 DEF vars
<1>6. CASE \E t \in Tasks : DispatchAsked(t) \/ RoomChildAsked(t)
  BY <1>1, <1>6 DEF DispatchAsked, RoomChildAsked
<1>7. CASE \E k \in Kids : Born(k) \/ Registered(k) \/ Dies(k) \/ Swept(k)
  BY <1>1, <1>7 DEF Born, Registered, Dies, Swept
<1>8. CASE \E c \in Callers : MessageReceived(c) \/ MetaStopped(c) \/ MetaSteps(c)
  BY <1>1, <1>8 DEF MessageReceived, MetaStopped, MetaSteps, MetaEntered, SessionCaptured, MetaRetried, MetaEnded
<1>9. CASE (\E s \in Selections : BackendChosen(s)) \/ Drained \/ BotKilled
  BY <1>1, <1>9 DEF BackendChosen, Drained, BotKilled
<1>10. CASE LoopClosed
  <2>1. dog' = Cancelled(DOMAIN active) /\ DOMAIN active \in SUBSET Tasks
    BY <1>10 DEF LoopClosed, TypeInv, TypeOK
  <2>2. Restated(Cancelled(DOMAIN active))
    BY <2>1, CancelledOK
  <2> QED BY <2>1, <2>2
<1> QED BY <1>2, <1>3, <1>4, <1>5, <1>6, <1>7, <1>8, <1>9, <1>10 DEF Next

(* A terminated dispatch is never booked as completed or failed when its      *)
(* child's exit is seen later (record_completion).                            *)
THEOREM TerminatedForGood == Spec => TerminatedStays
<1> DEFINE Stays == \A t \in DOMAIN dog \cap DOMAIN dog' :
                       dog[t].status = "terminated" => dog'[t].status = "terminated"
<1>1. ASSUME TypeInv, [Next]_vars PROVE Stays
  <2>1. CASE Restated(dog')
    BY <2>1 DEF Restated
  <2>2. CASE Dropped(dog')
    BY <2>2 DEF Dropped
  <2>3. CASE Dispatching
    <3>1. PICK t \in Tasks, parent \in DOMAIN dog \cup {None}, project \in Projects, prompt \in Prompts :
             Dispatched(t, parent, project, prompt)
      BY <2>3 DEF Dispatching
    <3> DEFINE e == NewEntry(RootFor(t, parent), parent, RoleOf[project], prompt)
    <3>2. e \in Entry /\ dog' = Recorded(t, e) /\ t \notin DOMAIN dog
      BY <1>1, <3>1, NewEntryOK DEF Dispatched
    <3> HIDE DEF e
    <3>3. t \in Tasks /\ \A u \in DOMAIN dog \ {t} : Recorded(t, e)[u] = dog[u]
      BY <1>1, <3>1, <3>2, RecordedOK
    <3>4. \A u \in DOMAIN dog : dog'[u] = dog[u]
      BY <3>2, <3>3
    <3> QED BY <3>4
  <2> QED BY <1>1, <2>1, <2>2, <2>3, DogSteps
<1>2. Init => TypeInv
  BY InitTyped
<1>3. TypeInv /\ [Next]_vars => TypeInv'
  BY NextTyped
<1>4. TypeInv /\ [Next]_vars => [Stays]_vars
  BY <1>1
<1> QED BY <1>2, <1>3, <1>4, PTL DEF Spec, TerminatedStays

----------------------------------------------------------------------------
(* The rules of the watchdog. *)

LEMMA DogFinite == ASSUME TypeInv, NEW S \in SUBSET DOMAIN dog
                   PROVE IsFiniteSet(S) /\ Cardinality(S) \in Nat
<1>1. S \subseteq Tasks /\ IsFiniteSet(Tasks)
  BY WatchdogAssumption DEF TypeInv, TypeOK
<1> QED BY <1>1, FS_Subset, FS_CardinalityType

\* A set that loses members stays within its limit; one member more costs one.
LEMMA Shrinks ==
  ASSUME NEW S, IsFiniteSet(S), NEW T \in SUBSET S, NEW n \in Nat, Cardinality(S) <= n
  PROVE Cardinality(T) <= n
<1>1. Cardinality(T) <= Cardinality(S) /\ Cardinality(T) \in Nat /\ Cardinality(S) \in Nat
  BY FS_Subset, FS_CardinalityType
<1> QED BY <1>1

LEMMA Grows ==
  ASSUME NEW S, IsFiniteSet(S), NEW t, NEW T \in SUBSET (S \cup {t}), NEW n \in Nat,
         Cardinality(S) + 1 <= n
  PROVE Cardinality(T) <= n
<1>1. IsFiniteSet(S \cup {t}) /\ Cardinality(S) \in Nat
      /\ (Cardinality(S \cup {t}) = Cardinality(S) \/ Cardinality(S \cup {t}) = Cardinality(S) + 1)
  BY FS_AddElement, FS_CardinalityType
<1>2. Cardinality(S \cup {t}) <= n
  BY <1>1
<1> QED BY <1>1, <1>2, Shrinks

\* The limits of one account.
Bounded(root) ==
  /\ Cardinality(Dispatches(root)) <= MaxTotal
  /\ \A role \in Roles :
       /\ Cardinality(OfRole(root, role)) <= MaxPerRole
       /\ \A prompt \in Prompts : Cardinality(SamePrompt(root, role, prompt)) <= MaxRepeat
  /\ \A t \in Dispatches(root) : dog[t].hops <= MaxHops

LEMMA Inside ==
  ASSUME NEW root, NEW role, NEW prompt
  PROVE /\ Dispatches(root) \in SUBSET DOMAIN dog
        /\ OfRole(root, role) \in SUBSET DOMAIN dog
        /\ SamePrompt(root, role, prompt) \in SUBSET DOMAIN dog
  BY DEF Dispatches, OfRole, SamePrompt

LEMMA FewerBounded ==
  ASSUME TypeInv, NEW root \in Tasks, Bounded(root), Restated(dog') \/ Dropped(dog')
  PROVE Bounded(root)'
<1>1. /\ DOMAIN dog' \subseteq DOMAIN dog
      /\ \A u \in DOMAIN dog' : /\ dog'[u].root = dog[u].root /\ dog'[u].role = dog[u].role
                                /\ dog'[u].prompt = dog[u].prompt /\ dog'[u].hops = dog[u].hops
  BY DEF Restated, Dropped
<1>2. Dispatches(root)' \subseteq Dispatches(root)
  BY <1>1 DEF Dispatches
<1>3. ASSUME NEW role PROVE OfRole(root, role)' \subseteq OfRole(root, role)
  BY <1>1, <1>2 DEF OfRole, Dispatches
<1>4. ASSUME NEW role, NEW prompt PROVE SamePrompt(root, role, prompt)' \subseteq SamePrompt(root, role, prompt)
  BY <1>1, <1>3 DEF SamePrompt, OfRole, Dispatches
<1>5. Cardinality(Dispatches(root)') <= MaxTotal
  BY <1>2, Inside, DogFinite, Shrinks, WatchdogAssumption DEF Bounded
<1>6. ASSUME NEW role \in Roles PROVE Cardinality(OfRole(root, role)') <= MaxPerRole
  BY <1>3, Inside, DogFinite, Shrinks, WatchdogAssumption DEF Bounded
<1>7. ASSUME NEW role \in Roles, NEW prompt \in Prompts
      PROVE Cardinality(SamePrompt(root, role, prompt)') <= MaxRepeat
  BY <1>4, Inside, DogFinite, Shrinks, WatchdogAssumption DEF Bounded
<1>8. \A t \in Dispatches(root)' : dog'[t].hops <= MaxHops
  BY <1>1, <1>2 DEF Bounded, Dispatches
<1> QED BY <1>5, <1>6, <1>7, <1>8 DEF Bounded

LEMMA OneMoreBounded ==
  ASSUME TypeInv, NEW root \in Tasks, Bounded(root),
         NEW t \in Tasks, NEW parent \in DOMAIN dog \cup {None},
         NEW project \in Projects, NEW prompt \in Prompts, Dispatched(t, parent, project, prompt)
  PROVE Bounded(root)'
<1> DEFINE mine == RootFor(t, parent)
           role0 == RoleOf[project]
           e == NewEntry(mine, parent, role0, prompt)
<1>1. /\ e \in Entry /\ dog' = Recorded(t, e) /\ t \notin DOMAIN dog
      /\ Allowed(mine, parent, role0, prompt) /\ HopDepth(mine, parent) \in Nat
      /\ e.root = mine /\ e.role = role0 /\ e.prompt = prompt /\ e.hops = HopDepth(mine, parent) + 1
  BY NewEntryOK DEF Dispatched, NewEntry
<1> HIDE DEF mine, role0, e
<1>2. DOMAIN dog' = DOMAIN dog \cup {t} /\ dog'[t] = e /\ \A u \in DOMAIN dog : dog'[u] = dog[u]
  <2>1. /\ DOMAIN Recorded(t, e) = DOMAIN dog \cup {t} /\ Recorded(t, e)[t] = e
        /\ \A u \in DOMAIN dog \ {t} : Recorded(t, e)[u] = dog[u]
    BY <1>1, RecordedOK
  <2> QED BY <1>1, <2>1
<1>3. CASE root # mine
  <2>1. Dispatches(root)' = Dispatches(root)
    BY <1>1, <1>2, <1>3 DEF Dispatches
  <2>2. \A u \in Dispatches(root) : dog'[u] = dog[u]
    BY <1>2 DEF Dispatches
  <2>3. \A role : OfRole(root, role)' = OfRole(root, role)
    BY <2>1, <2>2 DEF OfRole
  <2>4. \A role, p : SamePrompt(root, role, p)' = SamePrompt(root, role, p)
    <3>1. ASSUME NEW role, NEW p PROVE SamePrompt(root, role, p)' = SamePrompt(root, role, p)
      <4>1. OfRole(root, role)' = OfRole(root, role)
        BY <2>3
      <4>2. \A u \in OfRole(root, role) : dog'[u] = dog[u]
        BY <2>2 DEF OfRole
      <4> QED BY <4>1, <4>2 DEF SamePrompt
    <3> QED BY <3>1
  <2> QED BY <2>1, <2>2, <2>3, <2>4 DEF Bounded
<1>4. CASE root = mine
  <2>1. /\ HopDepth(root, parent) + 1 <= MaxHops
        /\ Cardinality(OfRole(root, role0)) + 1 <= MaxPerRole
        /\ Cardinality(Dispatches(root)) + 1 <= MaxTotal
        /\ Cardinality(SamePrompt(root, role0, prompt)) + 1 <= MaxRepeat
    BY <1>1, <1>4 DEF Allowed
  <2>2. Dispatches(root)' \subseteq Dispatches(root) \cup {t}
    BY <1>2 DEF Dispatches
  <2>3. ASSUME NEW role
        PROVE OfRole(root, role)' \subseteq OfRole(root, role) \cup (IF role = role0 THEN {t} ELSE {})
    BY <1>1, <1>2 DEF OfRole, Dispatches
  <2>4. ASSUME NEW role, NEW p
        PROVE SamePrompt(root, role, p)' \subseteq
                 SamePrompt(root, role, p) \cup (IF role = role0 /\ p = prompt THEN {t} ELSE {})
    BY <1>1, <1>2 DEF SamePrompt, OfRole, Dispatches
  <2>5. Cardinality(Dispatches(root)') <= MaxTotal
    BY <2>1, <2>2, Inside, DogFinite, Grows, WatchdogAssumption
  <2>6. ASSUME NEW role \in Roles PROVE Cardinality(OfRole(root, role)') <= MaxPerRole
    <3>1. CASE role = role0
      <4>1. OfRole(root, role)' \subseteq OfRole(root, role) \cup {t}
        BY <3>1, <2>3
      <4> QED BY <3>1, <4>1, <2>1, Inside, DogFinite, Grows, WatchdogAssumption
    <3>2. CASE role # role0
      <4>1. OfRole(root, role)' \subseteq OfRole(root, role)
        BY <3>2, <2>3
      <4> QED BY <4>1, Inside, DogFinite, Shrinks, WatchdogAssumption DEF Bounded
    <3> QED BY <3>1, <3>2
  <2>7. ASSUME NEW role \in Roles, NEW p \in Prompts
        PROVE Cardinality(SamePrompt(root, role, p)') <= MaxRepeat
    <3>1. CASE role = role0 /\ p = prompt
      <4>1. SamePrompt(root, role, p)' \subseteq SamePrompt(root, role, p) \cup {t}
        BY <3>1, <2>4
      <4> QED BY <3>1, <4>1, <2>1, Inside, DogFinite, Grows, WatchdogAssumption
    <3>2. CASE ~(role = role0 /\ p = prompt)
      <4>1. SamePrompt(root, role, p)' \subseteq SamePrompt(root, role, p)
        BY <3>2, <2>4
      <4> QED BY <4>1, Inside, DogFinite, Shrinks, WatchdogAssumption DEF Bounded
    <3> QED BY <3>1, <3>2
  <2>8. \A u \in Dispatches(root)' : dog'[u].hops <= MaxHops
    BY <1>1, <1>2, <1>4, <2>1, <2>2 DEF Bounded, Dispatches
  <2> QED BY <2>5, <2>6, <2>7, <2>8 DEF Bounded
<1> QED BY <1>3, <1>4

(* The rules of the watchdog hold of every account at every moment, whatever  *)
(* order dispatches are asked, ended and terminated in, across restarts       *)
(* (check_dispatch and record_dispatch in _handle_run_in_project).            *)
THEOREM WatchdogRules == Spec => []RootsBounded
<1>1. RootsBounded <=> \A root \in Tasks : Bounded(root)
  BY DEF RootsBounded, Bounded
<1>2. Init => RootsBounded
  <2> SUFFICES ASSUME Init, NEW root \in Tasks PROVE Bounded(root)
    BY <1>1
  <2>1. \A role, prompt : /\ Dispatches(root) = {} /\ OfRole(root, role) = {}
                          /\ SamePrompt(root, role, prompt) = {}
    BY DEF Init, Dispatches, OfRole, SamePrompt
  <2>2. Cardinality({}) = 0
    BY FS_EmptySet
  <2> QED BY <2>1, <2>2, WatchdogAssumption DEF Bounded
<1>3. TypeInv /\ RootsBounded /\ [Next]_vars => RootsBounded'
  <2> SUFFICES ASSUME TypeInv, \A root \in Tasks : Bounded(root), [Next]_vars, NEW root \in Tasks
               PROVE Bounded(root)'
    BY <1>1 DEF RootsBounded, Bounded
  <2>1. CASE Restated(dog') \/ Dropped(dog')
    BY <2>1, FewerBounded
  <2>2. CASE Dispatching
    BY <2>2, OneMoreBounded DEF Dispatching
  <2> QED BY <2>1, <2>2, DogSteps
<1>4. Init => TypeInv
  BY InitTyped
<1>5. TypeInv /\ [Next]_vars => TypeInv'
  BY NextTyped
<1> QED BY <1>2, <1>3, <1>4, <1>5, PTL DEF Spec

----------------------------------------------------------------------------
(* The children and who waits for them. *)

\* A bot that is down waits for no child.
Idle == bot = "down" => \A k \in Kids : co[k] \in {"none", "over"}

\* A sub-agent calls the meta-agent when it is over.
Reported == \A t \in Tasks : call[t] # "none" => co[Sub(t)] = "over"

\* Who holds meta_lock holds it alone, and owns the one meta child there is.
Locked ==
  /\ \A c \in Callers : call[c] # "holding" => co[Meta(c)] = "none" /\ co[Again(c)] = "none"
  /\ \A c, d \in Callers : call[c] = "holding" /\ call[d] = "holding" => c = d
  /\ \A c \in Callers : co[Meta(c)] = "none" \/ co[Again(c)] = "none"

\* Unless a bot was killed, a coroutine waits for every child that runs.
Owned == kills = 0 => \A k \in alive : co[k] \in {"born", "running", "talking"}

\* A dispatch recorded during a shutdown is not seen by the bot that comes after.
LateOver == bot = "up" => \A t \in DOMAIN active : asked[t] # "late"

BotInv == TypeInv /\ Idle /\ LateOver /\ ProjectAlone /\ AccountsTrue /\ Reported /\ Locked /\ Owned

LEMMA Shapes ==
  ASSUME TypeInv
  PROVE /\ co \in [Kids -> {"none", "starting", "born", "over", "running", "talking"}]
        /\ call \in [Callers -> {"none", "queued", "holding", "ended"}]
        /\ kills \in Nat /\ alive \subseteq Kids
        /\ DOMAIN dog \subseteq Tasks /\ DOMAIN active \subseteq DOMAIN dog
        /\ Tasks \subseteq Callers /\ Messages \subseteq Callers
        /\ \A t \in Tasks : t \notin Messages
        /\ Live = {k \in Kids : co[k] \in {"starting", "born", "running", "talking"}}
  BY BotAssumption, WheresOK DEF TypeInv, TypeOK, Linked, Wheres, Running, Live, Callers

LEMMA InitKept == ASSUME Init PROVE BotInv
<1>1. TypeInv
  BY InitTyped
<1>2. /\ \A k \in Kids : co[k] = "none"
      /\ \A c \in Callers : call[c] = "none"
      /\ DOMAIN dog = {} /\ DOMAIN active = {} /\ alive = {} /\ bot = "up"
  BY DEF Init
<1> QED
  BY <1>1, <1>2, Names, Shapes DEF BotInv, Idle, LateOver, ProjectAlone, AccountsTrue, Reported, Locked, Owned, MetaKids

\* What the accounts and active_tasks say survives a step that leaves both alone.
LEMMA BooksKept ==
  ASSUME BotInv, TypeInv', UNCHANGED <<dog, asked, active, kills>>,
         bot' = bot \/ (bot # "up" /\ bot' # "up"),
         \A t \in DOMAIN dog : co'[Sub(t)] \in {"starting", "born", "running", "talking"}
                                  => co[Sub(t)] \in {"starting", "born", "running", "talking"}
  PROVE ProjectAlone' /\ AccountsTrue' /\ LateOver'
<1>1. AccountsTrue' /\ LateOver'
  BY DEF BotInv, AccountsTrue, LateOver
<1>2. \A t \in DOMAIN dog : Sub(t) \in Live' => Sub(t) \in Live
  BY Shapes, Names DEF BotInv, Live, Running
<1> QED BY <1>1, <1>2 DEF BotInv, ProjectAlone

LEMMA DispatchKept ==
  ASSUME BotInv, NEW t \in Tasks, NEW parent \in DOMAIN dog \cup {None},
         NEW project \in Projects, NEW prompt \in Prompts, Dispatched(t, parent, project, prompt)
  PROVE BotInv'
<1> DEFINE e == NewEntry(RootFor(t, parent), parent, RoleOf[project], prompt)
<1>1. TypeInv /\ TypeInv'
  BY DispatchTyped DEF BotInv
<1>2. e \in Entry /\ dog' = Recorded(t, e) /\ e.status = "pending"
  BY <1>1, NewEntryOK DEF Dispatched, NewEntry
<1> HIDE DEF e
<1>3. /\ DOMAIN Recorded(t, e) = DOMAIN dog \cup {t} /\ Recorded(t, e)[t] = e
      /\ \A u \in DOMAIN dog \ {t} : Recorded(t, e)[u] = dog[u]
  BY <1>1, <1>2, RecordedOK
<1>4. /\ DOMAIN active' = DOMAIN active \cup {t} /\ active'[t] = project
      /\ \A u \in DOMAIN active \ {t} : active'[u] = active[u]
      /\ \A u \in DOMAIN active : active[u] # project
  BY DEF Dispatched
<1>5. /\ co' = [co EXCEPT ![Sub(t)] = "starting"] /\ co[Sub(t)] = "none" /\ t \notin DOMAIN dog
      /\ bot # "down" /\ UNCHANGED <<bot, alive, call, kills>>
      /\ asked' = [asked EXCEPT ![t] = IF bot = "up" THEN "early" ELSE "late"]
  BY DEF Dispatched
<1>6. \A u \in Tasks : u # t => co'[Sub(u)] = co[Sub(u)]
  BY <1>1, <1>5, Names, Shapes
<1>7. ProjectAlone'
  <2>1. \A u, v \in DOMAIN active' : active'[u] = active'[v] => u = v
    BY <1>4 DEF BotInv, ProjectAlone
  <2>2. \A u \in DOMAIN dog' : Sub(u) \in Live' => u \in DOMAIN active'
    BY <1>1, <1>2, <1>3, <1>4, <1>6, Shapes, Names DEF BotInv, ProjectAlone, Live, Running
  <2> QED BY <2>1, <2>2 DEF ProjectAlone
<1>8. AccountsTrue' /\ LateOver'
  <2>1. /\ asked'[t] = (IF bot = "up" THEN "early" ELSE "late")
        /\ \A u \in Tasks \ {t} : asked'[u] = asked[u]
    BY <1>1, <1>5 DEF TypeInv, TypeOK
  <2> QED BY <1>1, <1>2, <1>3, <1>4, <1>5, <2>1, Shapes DEF BotInv, AccountsTrue, LateOver
<1>9. Idle' /\ Reported' /\ Owned'
  BY <1>1, <1>5, Names, Shapes DEF BotInv, Idle, Reported, Owned
<1>10. Locked'
  <2>1. \A k \in MetaKids : co'[k] = co[k]
    BY <1>1, <1>5, Names, Shapes
  <2> QED BY <1>5, <2>1, Names DEF BotInv, Locked
<1> QED BY <1>1, <1>7, <1>8, <1>9, <1>10 DEF BotInv

LEMMA RoomKept == ASSUME BotInv, NEW t \in Tasks, RoomChildAsked(t) PROVE BotInv'
<1>1. TypeInv /\ TypeInv'
  BY BotTyped DEF BotInv
<1>2. /\ co' = [co EXCEPT ![Sub(t)] = "starting"] /\ co[Sub(t)] = "none" /\ t \notin DOMAIN dog
      /\ bot # "down" /\ UNCHANGED <<dog, asked, active, bot, alive, call, kills>>
  BY DEF RoomChildAsked, Meanwhile
<1>3. ProjectAlone' /\ AccountsTrue' /\ LateOver'
  BY <1>1, <1>2, BooksKept, Names, Shapes
<1>4. Idle' /\ Reported' /\ Owned'
  BY <1>1, <1>2, Names, Shapes DEF BotInv, Idle, Reported, Owned
<1>5. Locked'
  <2>1. \A k \in MetaKids : co'[k] = co[k]
    BY <1>1, <1>2, Names, Shapes
  <2> QED BY <1>2, <2>1, Names DEF BotInv, Locked
<1> QED BY <1>1, <1>3, <1>4, <1>5 DEF BotInv

LEMMA AskKept == ASSUME BotInv, NEW t \in Tasks, DispatchAsked(t) PROVE BotInv'
<1>1. TypeInv /\ TypeInv'
  BY AskTyped DEF BotInv
<1>2. /\ asked' = [asked EXCEPT ![t] = "reading"] /\ asked[t] = "no" /\ t \notin DOMAIN dog
      /\ UNCHANGED <<dog, active, bot, co, alive, call, kills>>
  BY DEF DispatchAsked
<1>3. \A u \in Tasks : u # t => asked'[u] = asked[u]
  BY <1>1, <1>2 DEF TypeInv, TypeOK
<1>4. ProjectAlone' /\ AccountsTrue' /\ LateOver'
  BY <1>1, <1>2, <1>3, Shapes DEF BotInv, ProjectAlone, AccountsTrue, LateOver, Live
<1> QED BY <1>1, <1>2, <1>4 DEF BotInv, Idle, Reported, Owned, Locked

LEMMA KidKept ==
  ASSUME BotInv, NEW k \in Kids, Born(k) \/ Registered(k) \/ Dies(k) \/ Swept(k)
  PROVE BotInv'
<1>1. TypeInv /\ TypeInv'
  BY KidTyped DEF BotInv
<1>2. /\ UNCHANGED <<dog, asked, active, bot, call, kills>>
      /\ \A j \in Kids : j # k => co'[j] = co[j]
      /\ \/ co'[k] = co[k] /\ alive' \subseteq alive
         \/ co[k] \in {"starting", "born"} /\ co'[k] \in {"born", "running"} /\ bot # "down"
            /\ alive' \subseteq alive \cup {k}
  BY <1>1, Shapes DEF Born, Registered, Dies, Swept, Meanwhile
<1>3. ProjectAlone' /\ AccountsTrue' /\ LateOver'
  <2>1. \A t \in DOMAIN dog : co'[Sub(t)] \in {"starting", "born", "running", "talking"}
                                => co[Sub(t)] \in {"starting", "born", "running", "talking"}
    BY <1>1, <1>2, Names, Shapes
  <2> QED BY <1>1, <1>2, <2>1, BooksKept
<1>4. Idle' /\ Reported' /\ Owned'
  BY <1>1, <1>2, Names, Shapes DEF BotInv, Idle, Reported, Owned
<1>5. Locked'
  <2>1. \A j \in Kids : co'[j] = "none" <=> co[j] = "none"
    BY <1>1, <1>2, Shapes
  <2> QED BY <1>2, <2>1, Names DEF BotInv, Locked
<1> QED BY <1>1, <1>3, <1>4, <1>5 DEF BotInv

LEMMA SubKept == ASSUME BotInv, NEW t \in Tasks, NEW ok \in BOOLEAN, SubFinished(t, ok) PROVE BotInv'
<1>1. TypeInv /\ TypeInv'
  BY SubTyped DEF BotInv
<1>2. /\ co[Sub(t)] \in {"starting", "running"} /\ bot # "down"
      /\ co[Sub(t)] = "running" => Sub(t) \notin alive
      /\ co' = [co EXCEPT ![Sub(t)] = "over"]
      /\ UNCHANGED <<bot, asked, alive, kills>>
      /\ DOMAIN active' = DOMAIN active \ {t}
      /\ \A u \in DOMAIN active' : active'[u] = active[u]
      /\ call' = call \/ (t \in DOMAIN active /\ call' = [call EXCEPT ![t] = "queued"])
      /\ dog' = IF t \in DOMAIN active THEN Completed(t, ok) ELSE dog
  BY DEF SubFinished, Meanwhile
<1>3. /\ co'[Sub(t)] = "over" /\ \A k \in Kids : k # Sub(t) => co'[k] = co[k]
      /\ call[t] = "none"
  BY <1>1, <1>2, Names, Shapes DEF BotInv, Reported
<1>4. ProjectAlone'
  <2>1. \A u, v \in DOMAIN active' : active'[u] = active'[v] => u = v
    BY <1>2 DEF BotInv, ProjectAlone
  <2>2. DOMAIN dog' = DOMAIN dog
    BY <1>1, <1>2, CompletedOK DEF Restated
  <2>3. \A u \in DOMAIN dog' : Sub(u) \in Live' => u \in DOMAIN active'
    BY <1>1, <1>2, <1>3, <2>2, Shapes, Names DEF BotInv, ProjectAlone, Live, Running
  <2> QED BY <2>1, <2>3 DEF ProjectAlone
<1>5. AccountsTrue'
  <2>1. CASE t \in DOMAIN active
    <3>1. /\ DOMAIN dog' = DOMAIN dog /\ dog'[t].status # "pending"
          /\ \A u \in DOMAIN dog \ {t} : dog'[u] = dog[u]
      BY <1>1, <1>2, <2>1, CompletedOK, Shapes DEF Restated
    <3> QED BY <1>2, <3>1 DEF BotInv, AccountsTrue
  <2>2. CASE t \notin DOMAIN active
    BY <1>2, <2>2 DEF BotInv, AccountsTrue
  <2> QED BY <2>1, <2>2
<1>8. LateOver'
  BY <1>2 DEF BotInv, LateOver
<1>6. Idle' /\ Reported' /\ Owned'
  BY <1>1, <1>2, <1>3, Names, Shapes DEF BotInv, Idle, Reported, Owned
<1>7. Locked'
  <2>1. \A k \in MetaKids : co'[k] = co[k]
    BY <1>3, Names
  <2>2. \A c \in Callers : call'[c] = "holding" <=> call[c] = "holding"
    BY <1>1, <1>2, <1>3, Shapes
  <2> QED BY <2>1, <2>2, Names DEF BotInv, Locked
<1> QED BY <1>1, <1>4, <1>5, <1>6, <1>7, <1>8 DEF BotInv

\* A step of the meta-agent touches no sub-agent and no account.
LEMMA MetaAside ==
  ASSUME BotInv, NEW c \in Callers, MessageReceived(c) \/ MetaStopped(c) \/ MetaSteps(c)
  PROVE /\ TypeInv /\ TypeInv'
        /\ UNCHANGED <<dog, asked, active, bot, kills>> /\ bot # "down"
        /\ \A t \in Tasks : co'[Sub(t)] = co[Sub(t)]
        /\ \A d \in Callers : call'[d] # "none" => d = c \/ call[d] # "none"
        /\ c \in Tasks => call[c] # "none"
        /\ ProjectAlone' /\ AccountsTrue' /\ LateOver' /\ Idle' /\ Reported'
<1>1. TypeInv /\ TypeInv'
  BY CallTyped DEF BotInv
<1>2. UNCHANGED <<dog, asked, active, bot, kills>> /\ bot # "down"
  BY DEF MessageReceived, MetaStopped, MetaSteps, MetaEntered, SessionCaptured, MetaRetried, MetaEnded, Meanwhile
<1>3. \A t \in Tasks : co'[Sub(t)] = co[Sub(t)]
  BY <1>1, Names, Shapes DEF MessageReceived, MetaStopped, MetaSteps, MetaEntered, SessionCaptured,
                             MetaRetried, MetaEnded
<1>4. \A d \in Callers : call'[d] # "none" => d = c \/ call[d] # "none"
  BY <1>1, Shapes DEF MessageReceived, MetaStopped, MetaSteps, MetaEntered, SessionCaptured, MetaRetried, MetaEnded
<1>5. c \in Tasks => call[c] # "none"
  BY <1>1, Shapes DEF MessageReceived, MetaStopped, MetaSteps, MetaEntered, SessionCaptured, MetaRetried, MetaEnded
<1>6. ProjectAlone' /\ AccountsTrue' /\ LateOver'
  BY <1>1, <1>2, <1>3, BooksKept, Shapes
<1>7. Idle' /\ Reported'
  BY <1>1, <1>2, <1>3, <1>4, <1>5, Shapes DEF BotInv, Idle, Reported
<1> QED BY <1>1, <1>2, <1>3, <1>4, <1>5, <1>6, <1>7

LEMMA CallKept ==
  ASSUME BotInv, NEW c \in Callers, MessageReceived(c) \/ MetaStopped(c) \/ MetaSteps(c)
  PROVE BotInv'
<1> DEFINE m == Meta(c)
           g == Again(c)
<1>1. TypeInv /\ TypeInv' /\ UNCHANGED kills
  BY MetaAside
<1>2. m \in MetaKids /\ g \in MetaKids /\ m # g /\ m \in Kids /\ g \in Kids
  BY Names
<1>3. \A d \in Callers : d # c => /\ Meta(d) # m /\ Meta(d) # g /\ Again(d) # m /\ Again(d) # g
                                  /\ Meta(d) \in Kids /\ Again(d) \in Kids
  BY Names
<1> HIDE DEF m, g
<1>4. /\ call[c] # "holding" => co[m] = "none" /\ co[g] = "none"
      /\ co[m] = "none" \/ co[g] = "none"
  BY DEF BotInv, Locked, m, g
<1>5. \A k \in Kids : k # m /\ k # g => co'[k] = co[k]
  BY <1>1, <1>2, Shapes DEF MessageReceived, MetaStopped, MetaSteps, MetaEntered, SessionCaptured,
                            MetaRetried, MetaEnded, m, g
<1>6. \A d \in Callers : d # c => call'[d] = call[d]
  BY <1>1, Shapes DEF MessageReceived, MetaStopped, MetaSteps, MetaEntered, SessionCaptured,
                      MetaRetried, MetaEnded
<1>7. /\ call'[c] # "holding" => co'[m] = "none" /\ co'[g] = "none"
      /\ co'[m] = "none" \/ co'[g] = "none"
      /\ call'[c] = "holding" => call[c] = "holding" \/ Holding = {}
      /\ alive' \subseteq alive
      /\ Owned => Owned'
  <2>1. CASE MessageReceived(c)
    BY <1>1, <1>4, <2>1, Shapes DEF MessageReceived, Owned
  <2>2. CASE MetaStopped(c)
    BY <1>1, <1>4, <2>2, Shapes DEF MetaStopped, Owned
  <2>3. CASE MetaEntered(c)
    <3>1. /\ co' = [co EXCEPT ![m] = "starting"] /\ call' = [call EXCEPT ![c] = "holding"]
          /\ call[c] = "queued" /\ Holding = {} /\ UNCHANGED <<alive, kills>>
      BY <1>1, <2>3 DEF MetaEntered, m
    <3> QED BY <1>1, <1>2, <1>4, <3>1, Shapes DEF Owned
  <2>4. CASE SessionCaptured(c)
    <3>1. PICK k \in {m, g} : co[k] = "running" /\ co' = [co EXCEPT ![k] = "talking"]
      BY <2>4 DEF SessionCaptured, m, g
    <3>2. call[c] = "holding" /\ UNCHANGED <<alive, call, kills>>
      BY <1>1, <2>4 DEF SessionCaptured
    <3> QED BY <1>1, <1>2, <1>4, <3>1, <3>2, Shapes DEF Owned
  <2>5. CASE MetaRetried(c)
    <3>1. /\ co' = [co EXCEPT ![m] = "none", ![g] = "starting"] /\ call[c] = "holding"
          /\ co[m] \in {"running", "talking"} /\ m \notin alive /\ UNCHANGED <<alive, call, kills>>
      BY <1>1, <2>5, WheresOK DEF MetaRetried, MetaKidGone, m, g
    <3> QED BY <1>1, <1>2, <1>4, <3>1, Shapes DEF Owned
  <2>6. CASE MetaEnded(c)
    <3>1. PICK k \in {m, g} : /\ co[k] = "starting" \/ (co[k] \in {"running", "talking"} /\ k \notin alive)
                              /\ co' = [co EXCEPT ![k] = "none"]
      BY <2>6, WheresOK DEF MetaEnded, MetaKidGone, m, g
    <3>2. call[c] = "holding" /\ call' = [call EXCEPT ![c] = "ended"] /\ UNCHANGED <<alive, kills>>
      BY <1>1, <2>6 DEF MetaEnded
    <3> QED BY <1>1, <1>2, <1>4, <3>1, <3>2, Shapes DEF Owned
  <2> QED BY <2>1, <2>2, <2>3, <2>4, <2>5, <2>6 DEF MetaSteps
<1>8. Locked'
  <2>1. \A d \in Callers : call'[d] # "holding" => co'[Meta(d)] = "none" /\ co'[Again(d)] = "none"
    BY <1>3, <1>5, <1>6, <1>7 DEF BotInv, Locked, m, g
  <2>2. \A d, b \in Callers : call'[d] = "holding" /\ call'[b] = "holding" => d = b
    BY <1>6, <1>7 DEF BotInv, Locked, Holding
  <2>3. \A d \in Callers : co'[Meta(d)] = "none" \/ co'[Again(d)] = "none"
    BY <1>3, <1>5, <1>7 DEF BotInv, Locked, m, g
  <2> QED BY <2>1, <2>2, <2>3 DEF Locked
<1> QED BY <1>7, <1>8, MetaAside DEF BotInv

LEMMA BotKept ==
  ASSUME BotInv, (\E s \in Selections : BackendChosen(s)) \/ Drained
  PROVE BotInv'
<1>1. TypeInv /\ TypeInv'
  BY BotTyped DEF BotInv
<1>2. /\ UNCHANGED <<dog, asked, active, co, call, kills>> /\ alive' \subseteq alive
      /\ bot' = bot \/ (bot = "draining" /\ bot' = "stopping")
  BY DEF BackendChosen, Drained, Meanwhile
<1>3. ProjectAlone' /\ AccountsTrue' /\ LateOver'
  BY <1>1, <1>2, BooksKept
<1> QED BY <1>1, <1>2, <1>3, Names DEF BotInv, Idle, Reported, Owned, Locked

LEMMA ShutdownKept == ASSUME BotInv, ShutdownBegins PROVE BotInv'
<1>1. TypeInv /\ TypeInv' /\ DOMAIN active \in SUBSET Tasks
  BY ShutdownTyped DEF BotInv, TypeInv, TypeOK
<1>2. /\ UNCHANGED <<asked, active, co, call, kills, alive>> /\ bot = "up" /\ bot' = "draining"
      /\ dog' = Terminated(DOMAIN active)
  BY DEF ShutdownBegins, Meanwhile
<1>3. /\ DOMAIN dog' = DOMAIN dog
      /\ \A u \in DOMAIN dog \cap DOMAIN active : dog'[u].status = "terminated"
      /\ \A u \in DOMAIN dog \ DOMAIN active : dog'[u] = dog[u]
  BY <1>1, <1>2, TerminatedOK DEF Restated
<1>4. AccountsTrue' /\ LateOver'
  BY <1>1, <1>2, <1>3, Shapes DEF BotInv, AccountsTrue, LateOver
<1>5. ProjectAlone'
  BY <1>2, <1>3 DEF BotInv, ProjectAlone, Live
<1> QED BY <1>1, <1>2, <1>4, <1>5, Names DEF BotInv, Idle, Reported, Owned, Locked

LEMMA EndKept == ASSUME BotInv, LoopClosed \/ BotKilled PROVE BotInv'
<1>1. TypeInv /\ TypeInv'
  BY EndTyped DEF BotInv
<1>2. /\ bot' = "down" /\ co' = Ended /\ DOMAIN active' = {} /\ bot # "down"
      /\ dog' = dog \/ dog' = Cancelled(DOMAIN active)
      /\ call' = [c \in Callers |-> IF call[c] = "none" THEN "none" ELSE "ended"]
  BY DEF LoopClosed, BotKilled
<1>3. /\ \A k \in MetaKids : co'[k] = "none"
      /\ \A k \in Kids : co'[k] \in {"none", "over"} /\ (co[k] = "over" => k \in MetaKids \/ co'[k] = "over")
  BY <1>2, Names DEF Ended
<1>4. Idle' /\ Reported' /\ Locked'
  BY <1>1, <1>2, <1>3, Names, Shapes DEF BotInv, Idle, Reported, Locked
<1>5. ProjectAlone' /\ LateOver'
  <2>1. Live' = {}
    BY <1>3 DEF Live, Running
  <2> QED BY <1>2, <2>1 DEF ProjectAlone, LateOver
<1>6. AccountsTrue' /\ Owned'
  <2>1. CASE BotKilled
    <3>1. kills' # 0
      BY <1>1, <2>1, Shapes DEF BotKilled
    <3> QED BY <3>1 DEF AccountsTrue, Owned
  <2>2. CASE LoopClosed
    <3>1. /\ bot = "stopping" /\ UNCHANGED kills /\ alive' = alive \ (Live \cup tracked)
          /\ dog' = Cancelled(DOMAIN active) /\ DOMAIN active \in SUBSET Tasks
      BY <1>1, <2>2 DEF LoopClosed, TypeInv, TypeOK
    <3>2. kills = 0 => alive' = {}
      BY <1>1, <3>1, Shapes DEF BotInv, Owned
    <3>3. /\ DOMAIN dog' = DOMAIN dog
          /\ \A u \in DOMAIN dog \cap DOMAIN active : dog'[u].status # "pending"
          /\ \A u \in DOMAIN dog \ DOMAIN active : dog'[u] = dog[u]
      BY <1>1, <3>1, CancelledOK DEF Restated
    <3> QED BY <1>2, <3>1, <3>2, <3>3 DEF BotInv, AccountsTrue, Owned
  <2> QED BY <2>1, <2>2
<1> QED BY <1>1, <1>4, <1>5, <1>6 DEF BotInv

LEMMA StartKept == ASSUME BotInv, NEW stale \in SUBSET Tasks, BotStarts(stale) PROVE BotInv'
<1>1. TypeInv /\ TypeInv'
  BY StartTyped DEF BotInv
<1>2. /\ bot = "down" /\ bot' = "up" /\ UNCHANGED <<active, co, alive, call, kills>>
      /\ DOMAIN active = {} /\ dog' = Pruned(stale)
  BY <1>1 DEF BotStarts, Meanwhile, TypeInv, Linked
<1>3. DOMAIN dog' \subseteq DOMAIN dog /\ \A u \in DOMAIN dog' : dog'[u] = dog[u]
  BY <1>1, <1>2, PrunedOK
<1>4. ProjectAlone' /\ AccountsTrue' /\ LateOver'
  BY <1>2, <1>3 DEF BotInv, ProjectAlone, AccountsTrue, LateOver, Live
<1> QED BY <1>1, <1>2, <1>4, Names DEF BotInv, Idle, Reported, Owned, Locked

LEMMA NextKept == ASSUME BotInv, [Next]_vars PROVE BotInv'
<1>1. CASE UNCHANGED vars
  <2>1. TypeInv'
    BY <1>1, NextTyped DEF BotInv
  <2> QED
    BY <1>1, <2>1 DEF vars, BotInv, Idle, LateOver, ProjectAlone, AccountsTrue, Reported, Locked, Owned, Live
<1>2. CASE Dispatching
  BY <1>2, DispatchKept DEF Dispatching
<1>3. CASE ShutdownBegins \/ Drained \/ LoopClosed \/ BotKilled
  BY <1>3, ShutdownKept, BotKept, EndKept
<1>4. CASE \E stale \in SUBSET Tasks : BotStarts(stale)
  BY <1>4, StartKept
<1> QED BY <1>1, <1>2, <1>3, <1>4, BotKept, AskKept, RoomKept, SubKept, KidKept, CallKept DEF Next

LEMMA BotInvariant == Spec => []BotInv
  BY InitKept, NextKept, PTL DEF Spec

(* Two sub-agents of one bot never work in one project at once, from the      *)
(* moment the dispatch is accepted until its finally clause ran ("project     *)
(* busy" in _handle_run_in_project, active_tasks.pop in on_subtask_done).     *)
THEOREM ProjectsAreAlone == Spec => []ProjectAlone
<1>1. BotInv => ProjectAlone
  BY DEF BotInv
<1> QED BY <1>1, BotInvariant, PTL

(* The accounts tell what is in flight: while no bot was killed, a dispatch   *)
(* is pending exactly as long as it is in active_tasks, unless the shutdown   *)
(* began after it was recorded (record_termination, record_completion).       *)
THEOREM AccountsAreTrue == Spec => []AccountsTrue
<1>1. BotInv => AccountsTrue
  BY DEF BotInv
<1> QED BY <1>1, BotInvariant, PTL

(* meta_lock: at most one meta-agent of this bot runs, a retry on a fresh     *)
(* session included (run_meta_claude).                                        *)
THEOREM OneMetaRuns == Spec => []OneMeta
<1>1. BotInv => OneMeta
  <2> SUFFICES ASSUME BotInv PROVE OneMeta
    OBVIOUS
  <2> DEFINE S == (alive \ Orphans) \cap MetaKids
  <2>1. TypeInv
    BY DEF BotInv
  <2>2. \A k \in S : co[k] # "none" /\ \E c \in Callers : call[c] = "holding" /\ k \in {Meta(c), Again(c)}
    BY <2>1, Names, Shapes DEF BotInv, Locked, Orphans
  <2>3. \A j, k \in S : j = k
    BY <2>2, Names DEF BotInv, Locked
  <2> HIDE DEF S
  <2>4. Cardinality(S) <= 1
    <3>1. CASE S = {}
      BY <3>1, FS_EmptySet
    <3>2. CASE \E k \in S : S = {k}
      BY <3>2, FS_Singleton
    <3> QED BY <2>3, <3>1, <3>2
  <2> QED BY <2>4 DEF OneMeta, S
<1> QED BY <1>1, BotInvariant, PTL

(* What must not run twice: a sub-agent in a project, and the meta-agent.     *)
THEOREM ExclusiveHolds == Spec => []Exclusive
<1>1. ProjectAlone /\ OneMeta => Exclusive
  BY DEF Exclusive
<1> QED BY <1>1, ProjectsAreAlone, OneMetaRuns, PTL

(* A bot that ended through its shutdown leaves no child behind, the children *)
(* born after the snapshot included (_shutdown_children, the finally clauses  *)
(* of run_subtask and _spawn_meta_claude, the atexit belt).                   *)
THEOREM NothingSurvives == Spec => []NoSurvivors
<1>1. BotInv => NoSurvivors
  <2> SUFFICES ASSUME BotInv, bot = "down", kills = 0 PROVE alive = {}
    BY DEF NoSurvivors
  <2> QED BY Shapes DEF BotInv, Idle, Owned
<1> QED BY <1>1, BotInvariant, PTL
=============================================================================
