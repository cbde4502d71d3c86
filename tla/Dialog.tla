------------------------------- MODULE Dialog -------------------------------
(* What a parked task and its operator say to each other: the questions of    *)
(* the analyst (dispatcher/clarify.py, _maybe_pause_for_clarifications), the  *)
(* budget stop (dispatcher/budget_gate.py, bot/budget_buttons.py), the        *)
(* /notify handlers of the bot that send both, the replies and taps that      *)
(* come back, and the dead man of the watcher who answers for a silent        *)
(* operator.                                                                  *)
(*                                                                            *)
(* A list of questions is the number of the pause that asked it. A stage      *)
(* takes minutes and the dead man waits for hours, a send to Telegram times   *)
(* out in seconds: neither is at work on a task a handler still sends for.    *)
EXTENDS Naturals, Sequences, FiniteSets

CONSTANTS
  Tasks,
  AutoResumes,      \* AUTO_RESUME_LIMIT
  Bound,            \* how often what is not bounded by itself happens
  MaxEvents,        \* and how often in all
  None

Counted == {"pause", "stop", "requeue", "kill", "slip"}

ASSUME DialogAssumption ==
  /\ AutoResumes \in Nat \ {0} /\ MaxEvents \in Nat /\ Bound \in [Counted -> Nat]
  /\ None \notin Nat

VARIABLES
  folder,           \* the folder of each task: bucket, state.json, files
  post,             \* what the runner that parked it has yet to tell the bot
  send,             \* the /notify handler at work on it
  chat,             \* the prompts in the chat, by message id
  bot,
  used              \* of Bound

vars == <<folder, post, send, chat, bot, used>>

Buckets == {"inbox", "active", "awaiting-input", "failed", "done"}

Parked(t) == folder[t].bucket = "awaiting-input"

(* An answer that came by no reply to a prompt, and what no list asked for.   *)
Nobody == 0

Guidance == 0

Within(k) ==
  /\ used[k] < Bound[k]
  /\ used["pause"] + used["stop"] + used["requeue"] + used["kill"] + used["slip"] < MaxEvents
  /\ used' = [used EXCEPT ![k] = @ + 1]

Becomes(t, f) == folder' = [folder EXCEPT ![t] = f]

Quiet(t) == post[t] = None /\ send[t] = None

Prompts(kind) == {m \in DOMAIN chat : chat[m].kind = kind}

Init ==
  /\ folder = [t \in Tasks |->
       [bucket |-> "inbox", stage |-> "inbox", pending |-> None, payload |-> 0, answers |-> {},
        resumes |-> 0, brief |-> "none", asked |-> 0, parks |-> 0, caps |-> 0]]
  /\ post = [t \in Tasks |-> None]
  /\ send = [t \in Tasks |-> None]
  /\ chat = << >>
  /\ bot = "up"
  /\ used = [k \in Counted |-> 0]

-----------------------------------------------------------------------------
(* The runner.                                                                *)

\* A bug: the counter of the dead man is not carried.
IngestedAfresh(t) ==
  /\ folder[t].bucket = "inbox"
  /\ Becomes(t, [folder[t] EXCEPT
       !.bucket = "active", !.stage = "received", !.pending = None, !.resumes = 0])
  /\ UNCHANGED <<post, send, chat, bot, used>>

(* state.json is written anew: the questions are dropped, the counter of the  *)
(* dead man is carried.                                                       *)
Ingested(t) ==
  /\ folder[t].bucket = "inbox"
  /\ Becomes(t, [folder[t] EXCEPT !.bucket = "active", !.stage = "received", !.pending = None])
  /\ UNCHANGED <<post, send, chat, bot, used>>

(* A brief is there once the analyst ran; one with open markers is run again  *)
(* only when there are clarifications to read.                                *)
BriefDue(t) ==
  \/ folder[t].brief = "none"
  \/ folder[t].brief = "open" /\ folder[t].answers # {}

Working(t) == folder[t].bucket = "active" /\ Quiet(t)

(* The folder is in awaiting-input/ before the bot is told.                   *)
ParkedBy(f, stage) ==
  [f EXCEPT !.stage = stage, !.bucket = "awaiting-input", !.parks = f.parks + 1]

BriefAsks(t) ==
  /\ Working(t) /\ BriefDue(t) /\ Within("pause")
  /\ LET n == folder[t].asked + 1 IN
     /\ Becomes(t, ParkedBy(
          [folder[t] EXCEPT !.brief = "open", !.asked = n, !.payload = n,
                            !.pending = [round |-> n, msg |-> None]],
          "awaiting_clarify"))
     /\ post' = [post EXCEPT ![t] = [kind |-> "clarify", round |-> n]]
  /\ UNCHANGED <<send, chat, bot>>

BriefResolves(t) ==
  /\ Working(t) /\ BriefDue(t)
  /\ Becomes(t, [folder[t] EXCEPT !.brief = "clear"])
  /\ UNCHANGED <<post, send, chat, bot, used>>

(* The caps and the INVEST check are looked at before the markers: a brief    *)
(* that is stopped there may keep them, and nobody is asked.                  *)
BriefAfter(t) == IF BriefDue(t) THEN {"open", "clear"} ELSE {folder[t].brief}

BudgetParked(t) ==
  /\ Working(t) /\ Within("stop")
  /\ \E b \in BriefAfter(t) :
       Becomes(t, ParkedBy([folder[t] EXCEPT !.brief = b], "awaiting-input"))
  /\ post' = [post EXCEPT ![t] = [kind |-> "budget", round |-> folder[t].parks + 1]]
  /\ UNCHANGED <<send, chat, bot>>

(* A stage fails: the folder is handed off, to the operator when a PR is open.*)
HandedOff(t) ==
  /\ Working(t)
  /\ \E b \in BriefAfter(t) \cup {folder[t].brief} :
       LET f == [folder[t] EXCEPT !.brief = b] IN
       \/ Becomes(t, [f EXCEPT !.bucket = "failed", !.stage = "failed"])
       \/ Becomes(t, ParkedBy(f, "awaiting-input"))
  /\ UNCHANGED <<post, send, chat, bot, used>>

(* The pipeline ends: the folder waits for its PR and talks no more.          *)
Finished(t) ==
  /\ Working(t) /\ ~ BriefDue(t)
  /\ Becomes(t, [folder[t] EXCEPT !.bucket = "done", !.stage = "done"])
  /\ UNCHANGED <<post, send, chat, bot, used>>

-----------------------------------------------------------------------------
(* POST /notify. The runner asks once: a bot that is down never hears of it.  *)

StateOf(f) == [stage |-> f.stage, pending |-> f.pending, resumes |-> f.resumes]

(* The handler reads state.json before it awaits Telegram; a folder that has  *)
(* gone on is a 404.                                                          *)
Notified(t) ==
  /\ post[t] # None
  /\ post' = [post EXCEPT ![t] = None]
  /\ IF bot = "up" /\ Parked(t)
     THEN send' = [send EXCEPT ![t] =
            [kind |-> post[t].kind, round |-> post[t].round, snap |-> StateOf(folder[t]), msg |-> 0]]
     ELSE send' = send
  /\ UNCHANGED <<folder, chat, bot, used>>

Shown(t) ==
  /\ send[t] # None /\ send[t].msg = 0
  /\ chat' = Append(chat, [task |-> t, kind |-> send[t].kind, round |-> send[t].round,
                           buttons |-> send[t].kind = "budget"])
  /\ send' = [send EXCEPT ![t].msg = Len(chat) + 1]
  /\ UNCHANGED <<folder, post, bot, used>>

(* Telegram refuses the message, or its answer is lost after the message was  *)
(* shown: the handler ends with an exception and files nothing.               *)
SendFails(t) ==
  /\ send[t] # None
  /\ send' = [send EXCEPT ![t] = None]
  /\ UNCHANGED <<folder, post, chat, bot, used>>

(* The id of the prompt goes into the state as it was before the send. When   *)
(* the folder has moved in between there is no directory to write to.         *)
SendReturns(t) ==
  /\ send[t] # None /\ send[t].msg # 0
  /\ IF send[t].kind = "clarify" /\ Parked(t)
     THEN Becomes(t, [folder[t] EXCEPT
            !.stage = send[t].snap.stage, !.resumes = send[t].snap.resumes,
            !.pending = [round |-> send[t].round, msg |-> send[t].msg]])
     ELSE folder' = folder
  /\ send' = [send EXCEPT ![t] = None]
  /\ UNCHANGED <<post, chat, bot, used>>

BotStops ==
  /\ bot = "up" /\ bot' = "down"
  /\ send' = [t \in Tasks |-> None]
  /\ UNCHANGED <<folder, post, chat, used>>

BotStarts ==
  /\ bot = "down" /\ bot' = "up"
  /\ UNCHANGED <<folder, post, send, chat, used>>

-----------------------------------------------------------------------------
(* The operator. A handler runs to its first await after the folder moved, so *)
(* it is one step.                                                            *)

\* A bug: any task with a prompt out takes the reply.
OwnersAwaiting(m) == {t \in Tasks : folder[t].pending # None /\ folder[t].pending.msg # None}

(* The task whose state.json, in whatever bucket, names the message.          *)
Owners(m) == {t \in Tasks : folder[t].pending # None /\ folder[t].pending.msg = m}

ReplyAccepted(m) ==
  /\ bot = "up" /\ m \in Prompts("clarify")
  /\ \E t \in Owners(m) :
       /\ Parked(t)
       /\ Becomes(t, [folder[t] EXCEPT
            !.answers = folder[t].answers \cup {[round |-> folder[t].pending.round, by |-> m]},
            !.pending = None, !.payload = 0, !.stage = "inbox", !.bucket = "inbox"])
  /\ UNCHANGED <<post, send, chat, bot, used>>

(* Whatever a reply to a prompt that is not waited for says, it changes no    *)
(* task and never becomes a question to the meta-agent.                       *)
ReplyRefused(m) ==
  /\ bot = "up" /\ m \in Prompts("clarify")
  /\ \A t \in Owners(m) : ~ Parked(t)
  /\ UNCHANGED vars

Tapped(m) == bot = "up" /\ m \in Prompts("budget") /\ chat[m].buttons

(* The text of the prompt is edited last, which takes its buttons away,       *)
(* unless Telegram refuses the edit.                                          *)
Edited(m) ==
  \/ chat' = [chat EXCEPT ![m].buttons = FALSE] /\ used' = used
  \/ Within("slip") /\ chat' = chat

Continued(m) ==
  /\ Tapped(m)
  /\ LET t == chat[m].task IN
     /\ Parked(t)
     /\ Becomes(t, [folder[t] EXCEPT
          !.caps = folder[t].caps + 1, !.stage = "inbox", !.bucket = "inbox"])
  /\ Edited(m)
  /\ UNCHANGED <<post, send, bot>>

(* The bot dies after the caps are in spec.json and before the move.          *)
ContinueCut(m) ==
  /\ Tapped(m) /\ Within("kill")
  /\ LET t == chat[m].task IN
     Parked(t) /\ Becomes(t, [folder[t] EXCEPT !.caps = folder[t].caps + 1])
  /\ bot' = "down"
  /\ send' = [t \in Tasks |-> None]
  /\ UNCHANGED <<post, chat>>

Discarded(m) ==
  /\ Tapped(m)
  /\ LET t == chat[m].task IN
     Parked(t) /\ Becomes(t, [folder[t] EXCEPT !.bucket = "failed"])
  /\ Edited(m)
  /\ UNCHANGED <<post, send, bot>>

TappedLate(m) ==
  /\ Tapped(m)
  /\ ~ Parked(chat[m].task)
  /\ chat' = [chat EXCEPT ![m].buttons = FALSE]
  /\ UNCHANGED <<folder, post, send, bot, used>>

(* /requeue moves the folder as it is; guidance goes to clarifications.md.    *)
Requeued(t) ==
  /\ bot = "up"
  /\ folder[t].bucket \in {"awaiting-input", "failed"} /\ Within("requeue")
  /\ \E guided \in BOOLEAN :
       Becomes(t, [folder[t] EXCEPT
         !.bucket = "inbox",
         !.answers = IF guided THEN folder[t].answers \cup {[round |-> Guidance, by |-> Nobody]}
                     ELSE folder[t].answers])
  /\ UNCHANGED <<post, send, chat, bot>>

-----------------------------------------------------------------------------
(* The watcher, with the dead man armed.                                      *)

(* state.clarify_pending first, the payload file as the fallback.             *)
Questions(t) ==
  IF folder[t].pending # None THEN folder[t].pending.round ELSE folder[t].payload

\* A bug: he answers only prompts that were sent.
DeadManDueIfAsked(t) ==
  /\ Parked(t) /\ Quiet(t)
  /\ folder[t].stage = "awaiting_clarify"
  /\ folder[t].resumes < AutoResumes
  /\ folder[t].pending # None /\ folder[t].pending.msg # None

DeadManDue(t) ==
  /\ Parked(t) /\ Quiet(t)
  /\ folder[t].stage = "awaiting_clarify"
  /\ folder[t].resumes < AutoResumes
  /\ Questions(t) # 0

Defaulted(t) == folder[t].answers \cup {[round |-> Questions(t), by |-> Nobody]}

(* What _requeue_to_inbox leaves in state.json before it moves the folder.    *)
Booked(f) ==
  [f EXCEPT !.pending = None, !.payload = 0, !.stage = "inbox",
            !.resumes = f.resumes + 1]

DeadManResumes(t) ==
  /\ DeadManDue(t)
  /\ Becomes(t, [Booked([folder[t] EXCEPT !.answers = Defaulted(t)]) EXCEPT !.bucket = "inbox"])
  /\ UNCHANGED <<post, send, chat, bot, used>>

(* The watcher dies in the sweep: after the answers, after the payload, or    *)
(* after the state and before the move.                                       *)
DeadManCut(t) ==
  /\ DeadManDue(t) /\ Within("kill")
  /\ LET answered == [folder[t] EXCEPT !.answers = Defaulted(t)] IN
     \E f \in {answered, [answered EXCEPT !.payload = 0], Booked(answered)} : Becomes(t, f)
  /\ UNCHANGED <<post, send, chat, bot>>

-----------------------------------------------------------------------------
TaskSteps(t) ==
  \/ Ingested(t) \/ BriefAsks(t) \/ BriefResolves(t) \/ BudgetParked(t) \/ HandedOff(t)
  \/ Finished(t) \/ Notified(t) \/ Shown(t) \/ SendFails(t) \/ SendReturns(t)
  \/ Requeued(t) \/ DeadManResumes(t) \/ DeadManCut(t)

MessageSteps(m) ==
  \/ ReplyAccepted(m) \/ ReplyRefused(m)
  \/ Continued(m) \/ ContinueCut(m) \/ Discarded(m) \/ TappedLate(m)

Next ==
  \/ \E t \in Tasks : TaskSteps(t)
  \/ \E m \in DOMAIN chat : MessageSteps(m)
  \/ BotStops \/ BotStarts

Spec == Init /\ [][Next]_vars

(* A POST and a send end by their timeouts, the sweep of the watcher comes    *)
(* round every half minute. Nobody owes an answer or a tap, and no bot need   *)
(* come back.                                                                 *)
FairSpec ==
  /\ Spec
  /\ \A t \in Tasks :
       WF_vars(Notified(t)) /\ WF_vars(SendFails(t) \/ SendReturns(t)) /\ WF_vars(DeadManResumes(t))

-----------------------------------------------------------------------------
Signals == {"clarify", "budget"}

Stages == {"inbox", "received", "awaiting_clarify", "awaiting-input", "failed", "done"}

Rounds == Nat \ {0}

(* With n messages in the chat.                                               *)
Pendings(n) == {None} \cup [round : Rounds, msg : {None} \cup 1..n]

Folders(n) ==
  [bucket : Buckets, stage : Stages, pending : Pendings(n), payload : Nat,
   answers : SUBSET [round : Nat, by : 0..n], resumes : 0..AutoResumes,
   brief : {"none", "open", "clear"}, asked : Nat, parks : Nat, caps : Nat]

Sends(n) ==
  [kind : Signals, round : Rounds, msg : 0..n,
   snap : [stage : Stages, pending : Pendings(n), resumes : 0..AutoResumes]]

TypeOK ==
  /\ folder \in [Tasks -> Folders(Len(chat))]
  /\ \A t \in Tasks : folder[t].bucket = "active" => folder[t].pending = None
  /\ post \in [Tasks -> {None} \cup [kind : Signals, round : Rounds]]
  /\ send \in [Tasks -> {None} \cup Sends(Len(chat))]
  /\ chat \in Seq([task : Tasks, kind : Signals, round : Rounds, buttons : BOOLEAN])
  /\ bot \in {"up", "down"}
  /\ used \in [Counted -> Nat] /\ \A k \in Counted : used[k] <= Bound[k]

(* An answer of the operator lands in the folder of the task he was asked     *)
(* about, next to the very questions the prompt he replied to had shown, with *)
(* the prompts of several tasks and of several pauses in flight and in the    *)
(* chat at once (_handle_notify, _find_clarify_task).                         *)
AnswersMatch ==
  \A t \in Tasks : \A a \in folder[t].answers :
     a.by \in DOMAIN chat => chat[a.by].task = t /\ chat[a.by].round = a.round

(* The dead man answers for the operator once in the life of a task, however  *)
(* often it is ingested again, but for a sweep that was cut before it booked  *)
(* (AUTO_RESUME_LIMIT, _write_state_json).                                    *)
DefaultsOnce ==
  \A t \in Tasks :
     Cardinality({a \in folder[t].answers : a.by = Nobody /\ a.round # Guidance}) <= AutoResumes + used["kill"]

(* A tap on Continue is good for one park: buttons that survive a refused     *)
(* edit never raise the caps twice for it, but for a bot that died in the tap *)
(* (budget_callback).                                                         *)
RaisesPaid == \A t \in Tasks : folder[t].caps <= folder[t].parks + used["kill"]

ResumesPaid == DefaultsOnce /\ RaisesPaid

(* Nobody is obliged to answer: the first clarify pause of a task ends, also  *)
(* when its prompt was never sent, and through one death of the watcher       *)
(* (scan_clarify_deadman).                                                    *)
PauseEnds ==
  \A t \in Tasks :
     (Parked(t) /\ folder[t].stage = "awaiting_clarify" /\ folder[t].resumes < AutoResumes)
       ~> ~ (Parked(t) /\ folder[t].stage = "awaiting_clarify")
=============================================================================
