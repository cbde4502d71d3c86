----------------------------- MODULE RoomDriver -----------------------------
(* /room: a conductor model that hires one specialist at a time until it      *)
(* finishes, the money runs out or the turns do (dispatcher/room_driver.py    *)
(* run_room, dispatcher/room_conductor.py interpret, bot/bot.py               *)
(* room_command). A step ends where the code awaits: a child that runs, or a  *)
(* message the chat may refuse. Rooms run side by side as asyncio tasks and   *)
(* share one registry of slots.                                               *)
EXTENDS Integers, FiniteSets

CONSTANTS
  Rooms,          \* /room requests
  Budget,         \* ROOM_BUDGET_USD, in cents
  TurnsAllowed,   \* ROOM_MAX_DELEGATIONS
  Limit,          \* ROOM_MAX_CONCURRENT
  MaxParseRetries,\* reprompts after a reply the driver cannot use
  Models,         \* masked names of MODEL_CATALOGUE
  Backend,        \* [Models -> {"anthropic", "deepseek"}]
  Floor,          \* min_spend_usd of each model, in cents
  Bills,          \* what the provider charges for one child, in cents
  Markup,         \* the CLI's figure for a deepseek child, per cent really charged
  FilesLeft,      \* how many files a specialist may leave in the scratch directory
  FilesSent,      \* limit of collect_deliverables
  Nobody          \* no specialist hired

ASSUME RoomAssumption ==
  /\ Budget \in Nat /\ TurnsAllowed \in Nat /\ MaxParseRetries \in Nat
  /\ Limit \in Nat \ {0}
  /\ IsFiniteSet(Rooms)
  /\ Bills \subseteq Nat
  /\ Markup \in Nat \ {0}
  /\ FilesLeft \subseteq Nat /\ FilesSent \in Nat
  /\ Backend \in [Models -> {"anthropic", "deepseek"}]
  /\ Floor \in [Models -> Nat \ {0}]

VARIABLES
  room,           \* the local variables of each run_room and what its chat heard
  active          \* RoomRegistry.active

vars == <<room, active>>

-----------------------------------------------------------------------------
(* The quad a conductor proposes, and what a child prints about its cost.     *)

Profiles == {"web-research", "documents"}

Jobs == [model : Models, profile : Profiles]

(* Server-side web search is a tool of one provider.                          *)
Capable(job) == job.profile = "web-research" => Backend[job.model] = "anthropic"

(* Every job from_params accepts; the others (an unknown model or profile, an *)
(* empty instruction) are refused like an incapable one.                      *)
LegalJobs == {job \in Jobs : Capable(job)}

Price == [job \in Jobs |-> Floor[job.model]]

(* A result event with cost and tokens, one without tokens, a cost on some    *)
(* other line, nothing readable.                                              *)
Reports == {"full", "bare", "scraped", "silent"}

CliFigure(backend, bill) == IF backend = "anthropic" THEN bill ELSE Markup * bill

\* A bug: without tokens the recomputed cost is zero.
ParseCostFromTokens(backend, bill, report) ==
  IF report = "full" \/ (backend = "anthropic" /\ report = "bare") THEN bill ELSE 0

(* Tokens times the provider's prices are the bill itself; a figure that      *)
(* cannot be recomputed stays the CLI's.                                      *)
ParseCost(backend, bill, report) ==
  CASE report = "silent" -> 0
    [] report = "full" -> bill
    [] OTHER -> CliFigure(backend, bill)

-----------------------------------------------------------------------------
(* Messages. The last four end the room.                                      *)

Terminal == {"budget", "turns", "unparseable", "finished"}
Messages == Terminal \cup {"hired", "rejected", "fell"}
Nothing == [kind |-> "hired", files |-> {}, quote |-> FALSE]

(* What arrived in the chat with the verdict: documents, the specialist's     *)
(* words, and the documents the bot could not open.                           *)
NoneYet == [docs |-> {}, unread |-> {}, quote |-> FALSE]

(* The files of the scratch directory, newest first: the rest is never sent.  *)
CollectDeliverables(files) == {n \in 1..files : n <= FilesSent}

Running == {"top", "conductor", "telling", "specialist", "closing", "crashed"}

Fresh == [at |-> "asked", turn |-> 1, spent |-> 0, misparsed |-> 0, job |-> Nobody,
          files |-> 0, result |-> FALSE, msg |-> Nothing,
          heard |-> {}, got |-> NoneYet, owed |-> 0, deaf |-> 0]

Init ==
  /\ room = [r \in Rooms |-> Fresh]
  /\ active = {}

\* A bug: files go out with a finish only.
SayPlain(x, kind) ==
  [x EXCEPT !.at = "telling",
            !.msg = [kind |-> kind,
                     files |-> IF kind = "finished" THEN CollectDeliverables(x.files) ELSE {},
                     quote |-> kind \in {"budget", "turns"} /\ x.result]]

Say(x, kind) ==
  [x EXCEPT !.at = "telling",
            !.msg = [kind |-> kind,
                     files |-> IF kind \in {"budget", "turns", "finished"}
                               THEN CollectDeliverables(x.files) ELSE {},
                     quote |-> kind \in {"budget", "turns"} /\ x.result]]

\* A bug: the sum counts what is left of nothing.
DebitedDown(x, backend, bill, report) ==
  [x EXCEPT !.spent = @ - ParseCost(backend, bill, report)]

Debited(x, backend, bill, report) ==
  [x EXCEPT !.spent = @ + ParseCost(backend, bill, report),
            !.owed = @ + (IF report = "silent" THEN 0 ELSE bill)]

\* A bug: a turn that hired nobody is free.
NextTurnFree(x) ==
  [x EXCEPT !.at = "top", !.turn = @ + (IF x.job = Nobody THEN 0 ELSE 1), !.job = Nobody,
            !.msg = Nothing]

NextTurn(x) ==
  [x EXCEPT !.at = "top", !.turn = @ + 1, !.job = Nobody, !.msg = Nothing]

Becomes(r, x) ==
  /\ room' = [room EXCEPT ![r] = x]
  /\ UNCHANGED active

-----------------------------------------------------------------------------
(* room_command: a slot, or the message that there is none.                   *)

RoomOpened(r) ==
  /\ room[r].at = "asked"
  /\ Cardinality(active) < Limit
  /\ active' = active \cup {r}
  /\ room' = [room EXCEPT ![r].at = "top"]

RoomDeclined(r) ==
  /\ room[r].at = "asked"
  /\ Cardinality(active) >= Limit
  /\ Becomes(r, [room[r] EXCEPT !.at = "declined"])

(* The top of the loop.                                                       *)
BudgetExhausted(r) ==
  /\ room[r].at = "top"
  /\ room[r].spent >= Budget
  /\ Becomes(r, Say(room[r], "budget"))

\* A bug: the room stops at the limit without a word.
TurnsExhaustedMutely(r) ==
  /\ room[r].at = "top"
  /\ room[r].spent < Budget
  /\ room[r].turn > TurnsAllowed
  /\ Becomes(r, [room[r] EXCEPT !.at = "closing"])

TurnsExhausted(r) ==
  /\ room[r].at = "top"
  /\ room[r].spent < Budget
  /\ room[r].turn > TurnsAllowed
  /\ Becomes(r, Say(room[r], "turns"))

ConductorSpawned(r) ==
  /\ room[r].at = "top"
  /\ room[r].spent < Budget
  /\ room[r].turn <= TurnsAllowed
  /\ Becomes(r, [room[r] EXCEPT !.at = "conductor"])

-----------------------------------------------------------------------------
(* interpret: the reply of the conductor, whose own turn is debited first.    *)

(* Neither JSON with a known action nor a job from_params accepts: the        *)
(* history carries the reason, and one such turn too many ends the room.      *)
ReplyUnusable(r, bill, report) ==
  LET x == Debited(room[r], "deepseek", bill, report)
      y == [x EXCEPT !.misparsed = @ + 1]
  IN  /\ room[r].at = "conductor"
      /\ Becomes(r, IF y.misparsed > MaxParseRetries
                    THEN Say(y, "unparseable")
                    ELSE NextTurn(y))

ReplyFinish(r, bill, report) ==
  LET x == Debited(room[r], "deepseek", bill, report)
  IN  /\ room[r].at = "conductor"
      /\ Becomes(r, Say([x EXCEPT !.misparsed = 0], "finished"))

\* A bug: the cap is looked at between turns only.
ReplyDelegateUnchecked(r, bill, report, job) ==
  LET x == Debited([room[r] EXCEPT !.misparsed = 0], "deepseek", bill, report)
  IN  /\ room[r].at = "conductor"
      /\ job \in LegalJobs
      /\ Becomes(r, Say([x EXCEPT !.job = job], "hired"))

(* Pre-authorisation: the room must hold the model's floor.                   *)
ReplyDelegate(r, bill, report, job) ==
  LET x == Debited([room[r] EXCEPT !.misparsed = 0], "deepseek", bill, report)
  IN  /\ room[r].at = "conductor"
      /\ job \in LegalJobs
      /\ Becomes(r, IF Budget - x.spent < Price[job]
                    THEN Say(x, "rejected")
                    ELSE Say([x EXCEPT !.job = job], "hired"))

(* The specialist is back: rc, the bill, and the files the scratch directory  *)
(* now holds, which a failed one may have written too.                        *)
SpecialistReturned(r, ok, bill, report, files) ==
  LET x == Debited(room[r], Backend[room[r].job.model], bill, report)
      y == [x EXCEPT !.files = files, !.result = @ \/ ok, !.job = Nobody]
  IN  /\ room[r].at = "specialist"
      /\ Becomes(r, IF ok THEN NextTurn(y) ELSE Say(y, "fell"))

-----------------------------------------------------------------------------
(* _notify: the text, then one document per file, newest first. A file that   *)
(* cannot be opened is logged and skipped; Telegram may refuse the text, or a *)
(* document after the text went out, and that raises into the room.           *)

MessageDelivered(r, unread) ==
  LET x == room[r]
      k == x.msg.kind
  IN  /\ x.at = "telling"
      /\ unread \subseteq x.msg.files
      /\ Becomes(r,
           CASE k = "hired" -> [x EXCEPT !.at = "specialist", !.msg = Nothing]
             [] k \in {"rejected", "fell"} -> NextTurn(x)
             [] OTHER -> [x EXCEPT !.at = "closing", !.msg = Nothing,
                                   !.heard = @ \cup {k},
                                   !.got = [docs |-> x.msg.files \ unread,
                                            unread |-> unread,
                                            quote |-> x.msg.quote]])

(* The exception leaves run_room: _run_and_report catches it.                 *)
MessageRefused(r) ==
  /\ room[r].at = "telling"
  /\ Becomes(r, [room[r] EXCEPT !.at = "crashed", !.job = Nobody,
                                     !.msg = Nothing, !.deaf = 1])

(* Document n is refused; those before it went out or could not be opened.    *)
DocumentRefused(r, n, unread) ==
  LET x == room[r]
      before == {d \in x.msg.files : d < n}
  IN  /\ x.at = "telling"
      /\ n \in x.msg.files
      /\ unread \subseteq before
      /\ Becomes(r, [x EXCEPT !.at = "crashed", !.heard = @ \cup {x.msg.kind},
                              !.msg = Nothing, !.deaf = 1,
                              !.got = [docs |-> before \ unread, unread |-> unread,
                                       quote |-> x.msg.quote]])

\* A bug: only a room that concludes gives its slot back.
CrashReportedHeld(r, delivered) ==
  /\ room[r].at = "crashed"
  /\ Becomes(r, [room[r] EXCEPT !.at = "over"])

(* The crash is reported once, best effort; the slot is released either way.  *)
CrashReported(r, delivered) ==
  /\ room[r].at = "crashed"
  /\ room' = [room EXCEPT ![r] =
                [room[r] EXCEPT !.at = "over",
                                !.heard = @ \cup (IF delivered THEN {"crash"} ELSE {}),
                                !.deaf = @ + (IF delivered THEN 0 ELSE 1)]]
  /\ active' = active \ {r}

(* conclude: memorize runs one cheap child after the answer went out; what it *)
(* costs goes to the ledger and not to the room, and it cannot raise.         *)
RoomReleased(r) ==
  /\ room[r].at = "closing"
  /\ room' = [room EXCEPT ![r].at = "over"]
  /\ active' = active \ {r}

-----------------------------------------------------------------------------
ConductorReplied(r) ==
  \E bill \in Bills, report \in Reports :
     \/ ReplyUnusable(r, bill, report)
     \/ ReplyFinish(r, bill, report)
     \/ \E job \in Jobs : ReplyDelegate(r, bill, report, job)

SpecialistBack(r) ==
  \E ok \in BOOLEAN, files \in FilesLeft, bill \in Bills, report \in Reports :
     SpecialistReturned(r, ok, bill, report, files)

Told(r) ==
  \E unread \in SUBSET room[r].msg.files :
     \/ MessageDelivered(r, unread)
     \/ \E n \in room[r].msg.files : DocumentRefused(r, n, unread)

Step(r) ==
  \/ BudgetExhausted(r) \/ TurnsExhausted(r) \/ ConductorSpawned(r)
  \/ ConductorReplied(r)
  \/ SpecialistBack(r)
  \/ Told(r) \/ MessageRefused(r)
  \/ \E delivered \in BOOLEAN : CrashReported(r, delivered)
  \/ RoomReleased(r)

Next == \E r \in Rooms : RoomOpened(r) \/ RoomDeclined(r) \/ Step(r)

Spec == Init /\ [][Next]_vars

(* The event loop runs every ready task, run_subtask awaits a child until it  *)
(* exits, and a call to Telegram returns or raises.                           *)
FairSpec == Spec /\ \A r \in Rooms : WF_vars(Step(r))

-----------------------------------------------------------------------------
(* Types of the two variables.                                                *)
TypeOK ==
  /\ active \subseteq Rooms
  /\ room \in [Rooms ->
       [at : Running \cup {"asked", "declined", "over"}, turn : Nat, spent : Nat,
        misparsed : Nat, job : Jobs \cup {Nobody}, files : Nat,
        result : BOOLEAN,
        msg : [kind : Messages, files : SUBSET Nat, quote : BOOLEAN],
        heard : SUBSET (Terminal \cup {"crash"}),
        got : [docs : SUBSET Nat, unread : SUBSET Nat, quote : BOOLEAN],
        owed : Nat, deaf : 0..2]]

(* A slot is held exactly by a room whose task still runs, through every way  *)
(* run_room can end, an exception out of the chat included, and there are     *)
(* never more such rooms than ROOM_MAX_CONCURRENT (RoomRegistry).             *)
SlotsAccounted ==
  /\ active = {r \in Rooms : room[r].at \in Running}
  /\ Cardinality(active) <= Limit

(* "Silence is never an outcome": a room that is over told its owner exactly  *)
(* one of the four verdicts, or that it crashed, or Telegram refused both the *)
(* message and the report of the crash.                                       *)
AnsweredOrDeaf ==
  \A r \in Rooms : room[r].at = "over" =>
     /\ Cardinality(room[r].heard \cap Terminal) <= 1
     /\ room[r].heard = {} => room[r].deaf = 2
     /\ room[r].deaf = 0 => room[r].heard \in {{kind} : kind \in Terminal}

(* The cap is in the provider's money: whatever mix of reports the children   *)
(* print, the debits of the conductor's turns and of the specialists cover    *)
(* what the provider charges, but for the bills of children that printed no   *)
(* figure at all (parse_cost).                                                *)
BillsCovered ==
  \A r \in Rooms : room[r].spent >= room[r].owed

(* Work that was paid for reaches the chat when money or turns cut the room   *)
(* short: the last specialist's own words, and of the files in the scratch    *)
(* directory the newest FilesSent, each but for one the bot could not open,   *)
(* which is only logged (partial_delivery, collect_deliverables, _notify).    *)
(* An unparseable conductor delivers neither.                                 *)
PaidWorkDelivered ==
  \A r \in Rooms : room[r].at = "over" /\ room[r].deaf = 0 =>
     /\ room[r].heard \cap {"budget", "turns"} # {} /\ room[r].result
          => room[r].got.quote
     /\ room[r].heard \cap {"budget", "turns", "finished"} # {}
          => \A n \in 1..room[r].files :
               n <= FilesSent => n \in room[r].got.docs \cup room[r].got.unread

(* Every room that was opened ends: the turns are bounded whatever the        *)
(* conductor replies, garbled replies, rejected hires and free children       *)
(* included (run_room).                                                       *)
RoomConcludes ==
  \A r \in Rooms : room[r].at \in Running ~> room[r].at = "over"

-----------------------------------------------------------------------------
(* Seen from the owner, a room is the contract: message, reply and turn are   *)
(* steps inside an open room.                                                 *)
PhaseOf(x) ==
  CASE x.at = "asked" -> "asked"
    [] x.at = "declined" -> "declined"
    [] x.at = "over" -> "closed"
    [] OTHER -> "open"

phase == [r \in Rooms |-> PhaseOf(room[r])]
paid == [r \in Rooms |-> room[r].spent]
hired == [r \in Rooms |-> IF room[r].at = "specialist" THEN room[r].job ELSE Nobody]

Debits == {ParseCost(backend, bill, report) :
             backend \in {"anthropic", "deepseek"}, bill \in Bills, report \in Reports}

Contract == INSTANCE RoomContract WITH Jobs <- LegalJobs, Costs <- Debits

(* run_room keeps the room's contract: no turn is paid for by a room that     *)
(* holds nothing, no specialist runs for a job its model cannot do or on      *)
(* money the room does not hold, no room runs beyond the registry's limit.    *)
KeepsContract == Contract!Spec
=============================================================================
