------------------------------ MODULE BotAgents ------------------------------
(* The claude children of the Telegram bot (bot/bot.py): sub-agents that      *)
(* /run-in-project dispatches under the watchdog, the children of rooms,      *)
(* and the meta-agent, which runs one at a time under meta_lock for a message *)
(* or for a sub-agent that ended; the bot's own state.json that meta runs and *)
(* commands read and write back; the shutdown that ends all of it. A step     *)
(* ends where a coroutine awaits.                                             *)
EXTENDS Watchdog

CONSTANTS
  Messages,         \* Telegram updates that start a meta run
  Projects,         \* paths a dispatch may name
  RoleOf,           \* [Projects -> Roles]: by the folder's name
  MaxPicks,         \* /backend commands
  MaxKills          \* the bot dies without its shutdown

ASSUME BotAssumption ==
  /\ Messages \cap Tasks = {}
  /\ RoleOf \in [Projects -> Roles]
  /\ MaxPicks \in Nat /\ MaxKills \in Nat

VARIABLES
  bot,              \* "up", "draining", "stopping", "down"
  asked,            \* requests of /run-in-project: "reading" while the body is awaited,
                    \* then "early" or "late": recorded by a bot that was up, or that
                    \* had begun its shutdown (history)
  active,           \* active_tasks: [ids -> project]
  co,               \* where the coroutine that owns a child is
  alive,            \* children that run, orphans of a killed bot included
  tracked,          \* the registry of proc_reaper
  doomed,           \* the snapshot _shutdown_children signals and waits for
  call,             \* calls of run_meta_claude: by a message or an ended sub-agent
  run,              \* of the call that holds meta_lock: was it cancelled or timed out,
                    \* does it pass --resume, and what it loaded from state.json
  disk,             \* the bot's state.json: the /backend selection, the session id
  chosen,           \* what the operator chose last
  picks, kills

vars == <<dog, bot, asked, active, co, alive, tracked, doomed, call, run, disk, chosen, picks, kills>>

Callers == Tasks \cup Messages

(* A child belongs to a sub-agent, or to the first or the second attempt of a *)
(* meta run.                                                                  *)
Sub(t) == <<t, "sub">>
Meta(c) == <<c, "meta">>
Again(c) == <<c, "again">>
Kids == {Sub(t) : t \in Tasks} \cup {Meta(c) : c \in Callers} \cup {Again(c) : c \in Callers}
MetaKids == {Meta(c) : c \in Callers} \cup {Again(c) : c \in Callers}

Selections == {"global", "profile"}
Sessions == {"none", "old", "new"}
Saved == [selection : Selections, session : Sessions]

NoRun == [stopped |-> FALSE, resumed |-> FALSE,
          copy |-> [selection |-> "global", session |-> "none"]]

(* meta_lock                                                                  *)
Holding == {c \in Callers : call[c] = "holding"}

(* Of a coroutine that owns a child: "talking" once it saw a session id.      *)
Running == {"running", "talking"}

\* A bug: a child the coroutine has not registered yet is forgotten.
LiveRegistered == {k \in Kids : co[k] \in Running}

Live == {k \in Kids : co[k] \in {"starting", "born"} \cup Running}

Meanwhile == UNCHANGED <<asked, chosen, picks, kills>>

Init ==
  /\ dog = [t \in {} |-> t]
  /\ bot = "up"
  /\ asked = [t \in Tasks |-> "no"]
  /\ active = [t \in {} |-> t]
  /\ co = [k \in Kids |-> "none"]
  /\ alive = {} /\ tracked = {} /\ doomed = {}
  /\ call = [c \in Callers |-> "none"]
  /\ run = NoRun
  /\ disk = [selection |-> "global", session |-> "old"]
  /\ chosen = "global"
  /\ picks = 0 /\ kills = 0

-----------------------------------------------------------------------------
(* Dispatch.                                                                  *)

(* _handle_run_in_project counts a dispatch to its parent's root only while   *)
(* the parent is in active_tasks; otherwise it is a root of its own.          *)
RootFor(t, parent) == IF parent \in DOMAIN active THEN dog[parent].root ELSE t

(* The latch of the shutdown is looked at before the body is awaited ...      *)
DispatchAsked(t) ==
  /\ bot = "up"
  /\ asked[t] = "no" /\ co[Sub(t)] = "none" /\ t \notin DOMAIN dog
  /\ asked' = [asked EXCEPT ![t] = "reading"]
  /\ UNCHANGED <<dog, bot, active, co, alive, tracked, doomed, call, run, disk, chosen, picks,
                 kills>>

(* ... and not again: the HTTP server answers until the loop ends. Nothing is *)
(* awaited between the other checks and the records. A request that fails one *)
(* changes nothing.                                                           *)
Dispatched(t, parent, project, prompt) ==
  LET root == RootFor(t, parent)
      role == RoleOf[project]
  IN  /\ bot # "down"
      /\ asked[t] = "reading" /\ co[Sub(t)] = "none" /\ t \notin DOMAIN dog
      /\ \A u \in DOMAIN active : active[u] # project
      /\ Allowed(root, parent, role, prompt)
      /\ dog' = Recorded(t, NewEntry(root, parent, role, prompt))
      /\ active' = [u \in DOMAIN active \cup {t} |-> IF u = t THEN project ELSE active[u]]
      /\ co' = [co EXCEPT ![Sub(t)] = "starting"]
      /\ asked' = [asked EXCEPT ![t] = IF bot = "up" THEN "early" ELSE "late"]
      /\ UNCHANGED <<bot, alive, tracked, doomed, call, run, disk, chosen, picks, kills>>

(* A room's loop awaits run_subtask for its next child; no one asks whether   *)
(* the bot is shutting down. A loop goes on until it is cancelled.            *)
RoomChildAsked(t) ==
  /\ bot # "down"
  /\ asked[t] = "no" /\ co[Sub(t)] = "none" /\ t \notin DOMAIN dog
  /\ co' = [co EXCEPT ![Sub(t)] = "starting"]
  /\ UNCHANGED <<dog, bot, active, alive, tracked, doomed, call, run, disk>>
  /\ Meanwhile

(* create_subprocess_exec awaits: the child runs before the coroutine gets to *)
(* register it.                                                               *)
Born(k) ==
  /\ bot # "down"
  /\ co[k] = "starting"
  /\ co' = [co EXCEPT ![k] = "born"]
  /\ alive' = alive \cup {k}
  /\ UNCHANGED <<dog, bot, active, tracked, doomed, call, run, disk>>
  /\ Meanwhile

Registered(k) ==
  /\ bot # "down"
  /\ co[k] = "born"
  /\ co' = [co EXCEPT ![k] = "running"]
  /\ tracked' = tracked \cup {k}
  /\ UNCHANGED <<dog, bot, active, alive, doomed, call, run, disk>>
  /\ Meanwhile

(* A child ends by itself, or of a signal it was sent.                        *)
Dies(k) ==
  /\ k \in alive
  /\ alive' = alive \ {k}
  /\ UNCHANGED <<dog, bot, active, co, tracked, doomed, call, run, disk>>
  /\ Meanwhile

-----------------------------------------------------------------------------
(* run_subtask ends: the finally clause and on_subtask_done, up to its wait   *)
(* for meta_lock. A spawn that fails gets here without a child.               *)

\* A bug: the entry of active_tasks goes before the child does.
SubFinishedEarly(t, ok) ==
  /\ bot # "down"
  /\ co[Sub(t)] = "running"
  /\ active' = [u \in DOMAIN active \ {t} |-> active[u]]
  /\ UNCHANGED <<dog, bot, co, alive, tracked, doomed, call, run, disk>>
  /\ Meanwhile

SubFinished(t, ok) ==
  /\ bot # "down"
  /\ \/ co[Sub(t)] = "running" /\ Sub(t) \notin alive
     \/ co[Sub(t)] = "starting" /\ ~ok
  /\ co' = [co EXCEPT ![Sub(t)] = "over"]
  /\ tracked' = tracked \ {Sub(t)}
  /\ dog' = IF t \in DOMAIN active THEN Completed(t, ok) ELSE dog
  /\ active' = [u \in DOMAIN active \ {t} |-> active[u]]
  /\ call' = IF t \in DOMAIN active /\ bot = "up" THEN [call EXCEPT ![t] = "queued"] ELSE call
  /\ UNCHANGED <<bot, alive, doomed, run, disk>>
  /\ Meanwhile

-----------------------------------------------------------------------------
(* The meta-agent.                                                            *)

(* The updater still polls while the children drain.                          *)
MessageReceived(c) ==
  /\ bot \in {"up", "draining"}
  /\ c \in Messages
  /\ call[c] = "none"
  /\ call' = [call EXCEPT ![c] = "queued"]
  /\ UNCHANGED <<dog, bot, active, co, alive, tracked, doomed, run, disk>>
  /\ Meanwhile

(* run_meta_claude under meta_lock: the whole state is loaded here and        *)
(* written back later.                                                        *)
MetaEntered(c) ==
  /\ bot # "down"
  /\ call[c] = "queued"
  /\ Holding = {}
  /\ call' = [call EXCEPT ![c] = "holding"]
  /\ run' = [stopped |-> FALSE, resumed |-> disk.session # "none", copy |-> disk]
  /\ co' = [co EXCEPT ![Meta(c)] = "starting"]
  /\ UNCHANGED <<dog, bot, active, alive, tracked, doomed, disk>>
  /\ Meanwhile

(* The first event of an attempt that names the session.                      *)
SessionCaptured(c) ==
  /\ bot # "down"
  /\ call[c] = "holding"
  /\ \E k \in {Meta(c), Again(c)} :
        /\ co[k] = "running"
        /\ co' = [co EXCEPT ![k] = "talking"]
  /\ run' = [run EXCEPT !.copy.session = "new"]
  /\ disk' = run'.copy
  /\ UNCHANGED <<dog, bot, active, alive, tracked, doomed, call>>
  /\ Meanwhile

(* /cancel, or the supervisor at META_TIMEOUT_SEC: TERM, then KILL.           *)
MetaStopped(c) ==
  /\ bot # "down"
  /\ call[c] = "holding"
  /\ ~ run.stopped
  /\ \E k \in {Meta(c), Again(c)} :
        /\ co[k] \in Running /\ k \in alive
        /\ alive' = alive \ {k}
  /\ run' = [run EXCEPT !.stopped = TRUE]
  /\ UNCHANGED <<dog, bot, active, co, tracked, doomed, call, disk>>
  /\ Meanwhile

MetaKidGone(k) == co[k] \in Running /\ k \notin alive

(* A first attempt that failed on a stored session, and was not stopped, is   *)
(* repeated without one; the stale id is dropped from the loaded state, which *)
(* is saved.                                                                  *)
MetaRetried(c) ==
  /\ bot # "down"
  /\ call[c] = "holding"
  /\ MetaKidGone(Meta(c))
  /\ ~ run.stopped /\ run.resumed
  /\ run' = [run EXCEPT !.resumed = FALSE, !.copy.session = "none"]
  /\ disk' = run'.copy
  /\ tracked' = tracked \ {Meta(c)}
  /\ co' = [co EXCEPT ![Meta(c)] = "none", ![Again(c)] = "starting"]
  /\ UNCHANGED <<dog, bot, active, alive, doomed, call>>
  /\ Meanwhile

\* A bug: a stopped run keeps the lock.
MetaEndedUnstopped(c) ==
  /\ bot # "down"
  /\ call[c] = "holding"
  /\ ~ run.stopped
  /\ \E k \in {Meta(c), Again(c)} :
        /\ co[k] = "starting" \/ MetaKidGone(k)
        /\ co' = [co EXCEPT ![k] = "none"]
        /\ tracked' = tracked \ {k}
  /\ call' = [call EXCEPT ![c] = "ended"]
  /\ run' = NoRun
  /\ UNCHANGED <<dog, bot, active, alive, doomed, disk>>
  /\ Meanwhile

(* The run ends, well or badly, or its child could not be spawned.            *)
MetaEnded(c) ==
  /\ bot # "down"
  /\ call[c] = "holding"
  /\ \E k \in {Meta(c), Again(c)} :
        /\ co[k] = "starting" \/ MetaKidGone(k)
        /\ co' = [co EXCEPT ![k] = "none"]
        /\ tracked' = tracked \ {k}
  /\ call' = [call EXCEPT ![c] = "ended"]
  /\ run' = NoRun
  /\ UNCHANGED <<dog, bot, active, alive, doomed, disk>>
  /\ Meanwhile

(* /backend: read, change, write, without an await.                           *)
BackendChosen(s) ==
  /\ bot = "up"
  /\ picks < MaxPicks
  /\ s # disk.selection
  /\ disk' = [disk EXCEPT !.selection = s]
  /\ chosen' = s
  /\ picks' = picks + 1
  /\ UNCHANGED <<dog, bot, active, co, alive, tracked, doomed, call, run, asked, kills>>

-----------------------------------------------------------------------------
(* The end of the bot.                                                        *)

Ended == [k \in Kids |-> IF k \in MetaKids \/ co[k] = "none" THEN "none" ELSE "over"]

(* A request whose body never came is gone with the bot.                      *)
Unread == [t \in Tasks |-> IF asked[t] = "reading" THEN "no" ELSE asked[t]]

(* SIGTERM: _shutdown_children closes the admission, marks the dispatches and *)
(* signals the registered children.                                           *)
ShutdownBegins ==
  /\ bot = "up"
  /\ bot' = "draining"
  /\ dog' = Terminated(DOMAIN active)
  /\ doomed' = tracked \cap alive
  /\ tracked' = tracked \ {k \in tracked : k \notin alive}
  /\ UNCHANGED <<active, co, alive, call, run, disk>>
  /\ Meanwhile

(* All of them are gone, or the grace is over and the rest is killed.         *)
Drained ==
  /\ bot = "draining"
  /\ bot' = "stopping"
  /\ alive' = alive \ doomed
  /\ tracked' = tracked \ doomed
  /\ doomed' = {}
  /\ UNCHANGED <<dog, active, co, call, run, disk>>
  /\ Meanwhile

(* app.stop waits for the handlers of messages; asyncio.run then cancels the  *)
(* other coroutines, whose finally clauses kill the groups of their children  *)
(* (a child still in create_subprocess_exec is killed by its transport) and   *)
(* book what they were dispatched for as failed, and atexit kills what is     *)
(* registered.                                                                *)
LoopClosed ==
  /\ bot = "stopping"
  /\ \A c \in Messages : call[c] \in {"none", "ended"}
  /\ bot' = "down"
  /\ alive' = alive \ (Live \cup tracked)
  /\ co' = Ended
  /\ tracked' = {}
  /\ call' = [c \in Callers |-> IF call[c] = "none" THEN "none" ELSE "ended"]
  /\ dog' = Cancelled(DOMAIN active)
  /\ active' = [t \in {} |-> t]
  /\ asked' = Unread
  /\ run' = NoRun
  /\ UNCHANGED <<doomed, disk, chosen, picks, kills>>

(* SIGKILL or a power cut of the process: its children are orphans.           *)
BotKilled ==
  /\ bot # "down"
  /\ kills < MaxKills
  /\ kills' = kills + 1
  /\ bot' = "down"
  /\ co' = Ended
  /\ tracked' = {}
  /\ call' = [c \in Callers |-> IF call[c] = "none" THEN "none" ELSE "ended"]
  /\ active' = [t \in {} |-> t]
  /\ run' = NoRun
  /\ doomed' = {}
  /\ asked' = Unread
  /\ UNCHANGED <<dog, alive, disk, chosen, picks>>

(* A new bot: active_tasks is empty, the accounts are loaded and pruned.      *)
BotStarts(stale) ==
  /\ bot = "down"
  /\ bot' = "up"
  /\ dog' = Pruned(stale)
  /\ UNCHANGED <<active, co, alive, tracked, doomed, call, run, disk>>
  /\ Meanwhile

(* The watcher's sweep (proc_reaper.sweep): a child without a live parent.    *)
Orphans == alive \ Live

Swept(k) ==
  /\ k \in Orphans
  /\ alive' = alive \ {k}
  /\ UNCHANGED <<dog, bot, active, co, tracked, doomed, call, run, disk>>
  /\ Meanwhile

-----------------------------------------------------------------------------
Dispatching ==
  \E t \in Tasks, parent \in DOMAIN dog \cup {None}, project \in Projects, prompt \in Prompts :
     Dispatched(t, parent, project, prompt)

MetaSteps(c) == MetaEntered(c) \/ SessionCaptured(c) \/ MetaRetried(c) \/ MetaEnded(c)

Next ==
  \/ Dispatching
  \/ \E t \in Tasks : \/ DispatchAsked(t) \/ RoomChildAsked(t)
                      \/ \E ok \in BOOLEAN : SubFinished(t, ok)
  \/ \E k \in Kids : Born(k) \/ Registered(k) \/ Dies(k) \/ Swept(k)
  \/ \E c \in Callers : MessageReceived(c) \/ MetaStopped(c) \/ MetaSteps(c)
  \/ \E s \in Selections : BackendChosen(s)
  \/ ShutdownBegins \/ Drained \/ LoopClosed \/ BotKilled
  \/ \E stale \in SUBSET Tasks : BotStarts(stale)

Spec == Init /\ [][Next]_vars

MetaProgress ==
  \/ \E k \in MetaKids : Born(k) \/ Registered(k)
  \/ \E c \in Callers : MetaEntered(c) \/ MetaStopped(c) \/ MetaRetried(c) \/ MetaEnded(c)

(* The event loop runs what is ready, and a meta run ends by itself, by       *)
(* /cancel or at META_TIMEOUT_SEC. Nothing ends a silent sub-agent.           *)
FairSpec == Spec /\ WF_vars(MetaProgress)

-----------------------------------------------------------------------------
(* Types of the variables.                                                    *)
TypeOK ==
  /\ DOMAIN dog \subseteq Tasks
  /\ \A t \in DOMAIN dog : dog[t] \in Entry
  /\ bot \in {"up", "draining", "stopping", "down"}
  /\ asked \in [Tasks -> {"no", "reading", "early", "late"}]
  /\ DOMAIN active \subseteq Tasks
  /\ \A t \in DOMAIN active : active[t] \in Projects
  /\ co \in [Kids -> {"none", "starting", "born", "over"} \cup Running]
  /\ alive \subseteq Kids /\ tracked \subseteq Kids /\ doomed \subseteq Kids
  /\ call \in [Callers -> {"none", "queued", "holding", "ended"}]
  /\ run \in [stopped : BOOLEAN, resumed : BOOLEAN, copy : Saved]
  /\ disk \in Saved
  /\ chosen \in Selections
  /\ picks \in 0..MaxPicks /\ kills \in 0..MaxKills

(* The rules of the watchdog hold of every account at every moment, whatever  *)
(* order dispatches are asked, ended and terminated in, across restarts       *)
(* (check_dispatch and record_dispatch in _handle_run_in_project).            *)
RootsBounded ==
  \A root \in Tasks :
     /\ Cardinality(Dispatches(root)) <= MaxTotal
     /\ \A role \in Roles :
          /\ Cardinality(OfRole(root, role)) <= MaxPerRole
          /\ \A prompt \in Prompts : Cardinality(SamePrompt(root, role, prompt)) <= MaxRepeat
     /\ \A t \in Dispatches(root) : dog[t].hops <= MaxHops

(* Two sub-agents of one bot never work in one project at once, from the      *)
(* moment the dispatch is accepted until its finally clause ran ("project     *)
(* busy" in _handle_run_in_project, active_tasks.pop in on_subtask_done).     *)
ProjectAlone ==
  /\ \A t, u \in DOMAIN active : active[t] = active[u] => t = u
  /\ \A t \in DOMAIN dog : Sub(t) \in Live => t \in DOMAIN active

(* meta_lock: at most one meta-agent of this bot runs, a retry on a fresh     *)
(* session included (run_meta_claude).                                        *)
OneMeta == Cardinality((alive \ Orphans) \cap MetaKids) <= 1

(* What must not run twice: a sub-agent in a project, and the meta-agent.     *)
Exclusive == ProjectAlone /\ OneMeta

(* A bot that ended through its shutdown leaves no child behind, the children *)
(* born after the snapshot included (_shutdown_children, the finally clauses  *)
(* of run_subtask and _spawn_meta_claude, the atexit belt).                   *)
NoSurvivors == bot = "down" /\ kills = 0 => alive = {}

(* The accounts tell what is in flight: while no bot was killed, a dispatch   *)
(* is pending exactly as long as it is in active_tasks, unless the shutdown   *)
(* began after it was recorded: then the account says so at once              *)
(* (record_termination), and a dispatch whose body arrived only later is      *)
(* pending, like any other, until its coroutine is over.                      *)
AccountsTrue ==
  kills = 0 => \A t \in DOMAIN dog :
     dog[t].status = "pending" <=>
        t \in DOMAIN active /\ (bot = "up" \/ asked[t] = "late")

(* A terminated dispatch is never booked as completed or failed when its      *)
(* child's exit is seen later (record_completion).                            *)
TerminatedStays ==
  [][\A t \in DOMAIN dog \cap DOMAIN dog' :
        dog[t].status = "terminated" => dog'[t].status = "terminated"]_vars

(* The end of a sub-agent and a message reach the meta-agent: who waits for   *)
(* meta_lock gets it and is done with it, however long the runs before it,    *)
(* unless the bot goes down (on_subtask_done, _meta_supervisor).              *)
QueueDrains ==
  (\E c \in Callers : call[c] = "queued")
    ~> (bot # "up" \/ \A c \in Callers : call[c] \in {"none", "ended"})

(* backend_command: "The selection is stored in the bot's durable state ...   *)
(* the operator set it once".                                                 *)
SelectionKept == disk.selection = chosen
=============================================================================
