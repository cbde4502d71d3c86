------------------------------ MODULE Watchdog ------------------------------
(* The circuit breaker of delegation chains (bot/watchdog.py): the accounts   *)
(* of root tasks and the rules a dispatch is checked against. Its callers are *)
(* the actions of BotAgents.                                                  *)
EXTENDS Integers, FiniteSets

CONSTANTS
  Tasks,            \* task ids: each names at most one dispatch, and its root
  Roles,            \* "subagent:<project folder>"
  Prompts,          \* hashes of normalised prompts
  None,             \* no parent
  MaxHops, MaxTotal, MaxPerRole, MaxRepeat

ASSUME WatchdogAssumption ==
  /\ IsFiniteSet(Tasks)
  /\ None \notin Tasks
  /\ MaxHops \in Nat /\ MaxTotal \in Nat /\ MaxPerRole \in Nat /\ MaxRepeat \in Nat

VARIABLE
  dog               \* the dispatches of every root: a function on dispatched ids

Statuses == {"pending", "completed", "failed", "terminated"}

(* hops is the depth check_dispatch computed for the entry.                   *)
Entry == [root : Tasks, parent : Tasks \cup {None}, role : Roles, prompt : Prompts,
          hops : Nat, status : Statuses]

Dispatches(root) == {t \in DOMAIN dog : dog[t].root = root}

OfRole(root, role) == {t \in Dispatches(root) : dog[t].role = role}

SamePrompt(root, role, prompt) == {t \in OfRole(root, role) : dog[t].prompt = prompt}

(* hop_depth walks up the parents recorded in the root; an unknown parent     *)
(* counts one.                                                                *)
HopDepth(root, parent) ==
  CASE parent = None -> 0
    [] parent \in Dispatches(root) -> dog[parent].hops
    [] OTHER -> 1

\* A bug: a repeated prompt is not counted.
AllowedRepeat(root, parent, role, prompt) ==
  /\ HopDepth(root, parent) + 1 <= MaxHops
  /\ Cardinality(OfRole(root, role)) + 1 <= MaxPerRole
  /\ Cardinality(Dispatches(root)) + 1 <= MaxTotal

(* check_dispatch: the rules that count. The two that look at the clock (the  *)
(* age of the root, the silence of a pending dispatch) can refuse at any      *)
(* moment, and a refusal changes nothing.                                     *)
Allowed(root, parent, role, prompt) ==
  /\ HopDepth(root, parent) + 1 <= MaxHops
  /\ Cardinality(OfRole(root, role)) + 1 <= MaxPerRole
  /\ Cardinality(Dispatches(root)) + 1 <= MaxTotal
  /\ Cardinality(SamePrompt(root, role, prompt)) + 1 <= MaxRepeat

NewEntry(root, parent, role, prompt) ==
  [root |-> root, parent |-> parent, role |-> role, prompt |-> prompt,
   hops |-> HopDepth(root, parent) + 1, status |-> "pending"]

(* record_dispatch                                                            *)
Recorded(t, entry) == [u \in DOMAIN dog \cup {t} |-> IF u = t THEN entry ELSE dog[u]]

(* record_completion leaves a terminated dispatch alone.                      *)
Completed(t, ok) ==
  IF t \in DOMAIN dog /\ dog[t].status # "terminated"
  THEN [dog EXCEPT ![t].status = IF ok THEN "completed" ELSE "failed"]
  ELSE dog

\* A bug: a status no reader of the accounts knows.
TerminatedOddly(S) ==
  [t \in DOMAIN dog |-> IF t \in S THEN [dog[t] EXCEPT !.status = "killed"] ELSE dog[t]]

\* A bug: the dispatches stay pending.
TerminatedNot(S) == dog

(* record_termination, for every dispatch in flight.                          *)
Terminated(S) ==
  [t \in DOMAIN dog |-> IF t \in S THEN [dog[t] EXCEPT !.status = "terminated"] ELSE dog[t]]

(* record_completion without success, for every dispatch in flight.           *)
Cancelled(S) ==
  [t \in DOMAIN dog |-> IF t \in S /\ dog[t].status # "terminated"
                        THEN [dog[t] EXCEPT !.status = "failed"] ELSE dog[t]]

(* _load and _prune_stale at start: the accounts past their TTL go.           *)
Pruned(stale) == [t \in {u \in DOMAIN dog : dog[u].root \notin stale} |-> dog[t]]
=============================================================================
