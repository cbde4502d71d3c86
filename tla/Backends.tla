------------------------------ MODULE Backends ------------------------------
(* Which provider runs a stage, with which key, and what is tried when it     *)
(* refuses: dispatcher/backend_routing.py, dispatcher/provider_profiles.py,   *)
(* dispatcher/child_env.py and the retries of                                 *)
(* _run_pipeline_stage_with_breadcrumbs, over the rounds of one task.         *)
(*                                                                            *)
(* What an attempt ends with is not the routing's choice; what the operator   *)
(* configured stays the same through the task.                                *)
EXTENDS Naturals, Sequences, FiniteSets

CONSTANTS
  Confs,            \* what the operator configured
  MaxRounds,        \* rounds of rework, the first pass counted
  None              \* no profile, no label

ASSUME BackendsAssumption == MaxRounds \in Nat \ {0}

Providers == {"anthropic", "deepseek", "glm"}

(* Some providers, in the order of SUPPORTED_BACKENDS.                        *)
Supported(some) ==
  LET Kept(b) == IF b \in some THEN <<b>> ELSE <<>>
  IN  Kept("anthropic") \o Kept("deepseek") \o Kept("glm")

(* A label of a spec or of /backend: deepseek, or deepseek:alt.               *)
Label(b, p) == [backend |-> b, profile |-> p]

Plain(b) == Label(b, None)

Anthropic == Plain("anthropic")

StagesOf(n) == IF n = 1 THEN <<"developer", "tester">> ELSE <<"developer-hotfix", "tester">>

EscalateAt == 2

HeavyStages == {"developer", "developer-hotfix", "tester"}

VARIABLES
  conf,
  round,            \* the runner's iteration
  seen,             \* the iteration in the state.json the runner read last
  idx,              \* the stage of the round
  at,
  tries,            \* the attempts of the stage
  chain,            \* backends left to try
  limited,          \* rate_limited
  logs,             \* stages whose claude-error.log shows a refusal
  ledger,           \* rows of the cost ledger
  written,          \* artifacts there are, of this round or an earlier
  cost,             \* cost_usd; an artifact tells of a bill of one
  violated,         \* some attempt ended in a safety violation, a history variable
  verdict

vars == <<conf, round, seen, idx, at, tries, chain, limited, logs, ledger, written, cost,
          violated, verdict>>

stage == StagesOf(round)[idx]

-----------------------------------------------------------------------------
(* parse_selection: a profile must be in the registry and belong to the       *)
(* backend it is asked for.                                                   *)
Accepted(label, registry) ==
  label # None /\ label.profile # None =>
     /\ label.profile \in DOMAIN registry.profiles
     /\ registry.profiles[label.profile].backend = label.backend

(* spec_field: only a profile is written into the spec, under its backend.    *)
SpecProfile(b) ==
  IF conf.selection # None /\ conf.selection.backend = b THEN conf.selection.profile ELSE None

(* BACKEND after DEEPSEEK_STAGES, which count only beside a key.              *)
Default(s) ==
  IF s \in conf.cheap /\ "deepseek" \in conf.keys THEN Plain("deepseek") ELSE Anthropic

Routed(s) == IF s \in DOMAIN conf.routing THEN conf.routing[s] ELSE None

Base(s) == IF Routed(s) # None THEN Routed(s) ELSE Default(s)

Guarded(s) ==
  conf.guard /\ conf.tier = "L" /\ s \in HeavyStages /\ Routed(s) = None

(* The label of a spec is looked up whole: deepseek:alt is no backend.        *)
Resolved(s, n) == IF Guarded(s) \/ n >= EscalateAt THEN Anthropic ELSE Base(s)

(* for_stage: a profile only goes with the backend it was named for.          *)
ProfileFor(s, label) ==
  IF label.profile # None THEN None
  ELSE IF Routed(s) # None /\ Routed(s).profile # None /\ Routed(s).backend = label.backend
       THEN Routed(s).profile
       ELSE SpecProfile(label.backend)

(* The profile that counts: the one named, or the default of the backend, as  *)
(* long as the registry has it under this backend.                            *)
ProfileUsed(b, name) ==
  LET r == conf.registry
      wanted == IF name # None THEN name
                ELSE IF b \in DOMAIN r.defaults THEN r.defaults[b] ELSE None
  IN  IF wanted \in DOMAIN r.profiles /\ r.profiles[wanted].backend = b THEN wanted ELSE None

(* _subagent_env: who answers, whose token authenticates, and which provider  *)
(* keys the child sees beside it. Without a key, and with a backend nobody    *)
(* knows, the stage runs on anthropic.                                        *)
OnAnthropic == [provider |-> "anthropic", token |-> "own", profile |-> None, raw |-> {}]

Paid(s, label) ==
  LET b == label.backend
      p == ProfileUsed(b, ProfileFor(s, label))
      entry == conf.registry.profiles[p]
      keyed == IF p # None THEN entry.keyed ELSE b \in conf.keys
  IN  IF label.profile # None \/ b \notin {"deepseek", "glm"} \/ ~ keyed
      THEN OnAnthropic
      ELSE [provider |-> b,
            token |-> IF p # None /\ entry.url THEN "profile"
                      ELSE IF conf.proxy THEN "proxy"
                      ELSE IF p # None THEN "profile" ELSE "global",
            profile |-> p,
            raw |-> IF p # None THEN {} ELSE {b}]

Available(b) == b = "anthropic" \/ b \in conf.keys

\* A bug: the backend that refused stays in the chain.
FallbackChainAll(used) == Supported({b \in Providers : Available(b)})

FallbackChain(used) == Supported({b \in Providers : Plain(b) # used /\ Available(b)})

-----------------------------------------------------------------------------
Init ==
  /\ conf \in Confs
  /\ Accepted(conf.selection, conf.then)
  /\ round = 1 /\ seen = 1 /\ idx = 1
  /\ at = "start"
  /\ tries = <<>> /\ chain = <<>>
  /\ limited = FALSE
  /\ logs = {}
  /\ ledger = 0 /\ written = {} /\ cost = 0
  /\ violated = FALSE
  /\ verdict = "none"

Outcomes == {"ok", "unsafe", "fail", "limited", "crash", "timeout", "stall"}

(* A developer who left the branch or the pull request of the task (unsafe)   *)
(* fails only after the artifact and the ledger row are written.              *)
Wrote(rc) == rc \in {"ok", "unsafe"}

(* A failed attempt replaces the log, an exception and a success leave it.    *)
Logged(rc) ==
  logs' = CASE rc \in {"ok", "crash"} -> logs
            [] rc \in {"limited", "stall"} -> logs \cup {stage}
            [] OTHER -> logs \ {stage}

(* developer-hotfix overwrites the artifact of developer.                     *)
Artifact(s) == IF s = "developer-hotfix" THEN "developer" ELSE s

(* cost_ledger.record: an error of SQLite is only logged.                     *)
Recorded == ledger' \in {ledger, ledger + 1}

Booked(rc) ==
  IF Wrote(rc) THEN Recorded /\ written' = written \cup {Artifact(stage)}
  ELSE UNCHANGED <<ledger, written>>

\* A bug: what a retry cost is never read.
ChargedOnce(rc) ==
  cost' = IF tries = <<>> /\ (Wrote(rc) \/ Artifact(stage) \in written) THEN cost + 1 ELSE cost

(* The runner reads the artifact that is there, also one of an earlier round  *)
(* or of the attempt before.                                                  *)
Charged(rc) == cost' = IF Wrote(rc) \/ Artifact(stage) \in written THEN cost + 1 ELSE cost

Attempt(label, rc) ==
  /\ rc = "unsafe" => stage # "tester"
  /\ Booked(rc)
  /\ Charged(rc)
  /\ tries' = Append(tries, [label |-> label, paid |-> Paid(stage, label), rc |-> rc])
  /\ Logged(rc)
  /\ violated' = (violated \/ rc = "unsafe")
  /\ UNCHANGED <<conf, round, seen, idx, verdict>>

FirstAttempt(rc) ==
  /\ at = "start"
  /\ Attempt(Resolved(stage, seen), rc)
  /\ at' = IF rc \in {"ok", "timeout", "stall"} THEN "end" ELSE "plan"
  /\ UNCHANGED <<chain, limited>>

(* A refusal leads through every other provider that has a key, anything else *)
(* once to anthropic.                                                         *)
FallbackPlanned ==
  /\ at = "plan"
  /\ limited' = (stage \in logs)
  /\ chain' = IF limited' /\ conf.cross THEN FallbackChain(tries[1].label)
              ELSE IF tries[1].label # Anthropic THEN <<"anthropic">> ELSE <<>>
  /\ at' = IF chain' = <<>> THEN "end" ELSE "chain"
  /\ UNCHANGED <<conf, round, seen, idx, tries, logs, ledger, written, cost, violated,
                 verdict>>

\* A bug: only a success forgets the first refusal.
LimitedOnce(rc) == limited /\ rc # "ok"

(* In the chain the log says again whether this provider refused, too.        *)
StillLimited(rc) == IF limited /\ conf.cross THEN rc # "ok" /\ stage \in logs' ELSE limited

\* A bug: the backend that was tried stays at the head of the chain.
NextAttemptAgain(rc) ==
  /\ at = "chain"
  /\ Attempt(Plain(Head(chain)), rc)
  /\ chain' = IF rc = "ok" THEN <<>> ELSE chain
  /\ limited' = StillLimited(rc)
  /\ at' = IF chain' = <<>> THEN "end" ELSE "chain"

NextAttempt(rc) ==
  /\ at = "chain"
  /\ Attempt(Plain(Head(chain)), rc)
  /\ chain' = IF rc = "ok" THEN <<>> ELSE Tail(chain)
  /\ limited' = StillLimited(rc)
  /\ at' = IF chain' = <<>> THEN "end" ELSE "chain"

Last == tries[Len(tries)]

\* A bug: the runner keeps the state it began with.
StageDoneUnread ==
  /\ at = "end" /\ Last.rc = "ok"
  /\ tries' = <<>> /\ limited' = FALSE
  /\ IF idx < 2 THEN idx' = idx + 1 /\ at' = "start" ELSE idx' = idx /\ at' = "review"
  /\ UNCHANGED <<conf, round, seen, chain, logs, ledger, written, cost, violated,
                 verdict>>

(* The runner reads state.json again after a stage.                           *)
StageDone ==
  /\ at = "end" /\ Last.rc = "ok"
  /\ seen' = round
  /\ tries' = <<>> /\ limited' = FALSE
  /\ IF idx < 2 THEN idx' = idx + 1 /\ at' = "start" ELSE idx' = idx /\ at' = "review"
  /\ UNCHANGED <<conf, round, chain, logs, ledger, written, cost, violated,
                 verdict>>

StageLost ==
  /\ at = "end" /\ Last.rc # "ok"
  /\ verdict' = CASE Last.rc = "stall" /\ Len(tries) = 1 -> "parked"
                  [] limited -> "rate-limited"
                  [] OTHER -> "failed"
  /\ at' = "over"
  /\ UNCHANGED <<conf, round, seen, idx, tries, chain, limited, logs, ledger, written,
                 cost, violated>>

Approved ==
  /\ at = "review"
  /\ verdict' = "reviewed"
  /\ at' = "over"
  /\ UNCHANGED <<conf, round, seen, idx, tries, chain, limited, logs, ledger, written,
                 cost, violated>>

(* The next round starts from the state read before it.                       *)
ChangesRequested ==
  /\ at = "review" /\ round < MaxRounds
  /\ round' = round + 1
  /\ idx' = 1
  /\ at' = "start"
  /\ UNCHANGED <<conf, seen, tries, chain, limited, logs, ledger, written, cost, violated,
                 verdict>>

Next ==
  \/ \E rc \in Outcomes : FirstAttempt(rc) \/ NextAttempt(rc)
  \/ FallbackPlanned \/ StageDone \/ StageLost \/ Approved \/ ChangesRequested

Spec == Init /\ [][Next]_vars

-----------------------------------------------------------------------------
Verdicts == {"none", "reviewed", "parked", "rate-limited", "failed"}

(* Types of the variables; a stage is tried once and then at most once on     *)
(* each supported backend.                                                    *)
TypeOK ==
  /\ round \in 1..MaxRounds /\ seen \in 1..round /\ idx \in 1..2
  /\ at \in {"start", "plan", "chain", "end", "review", "over"}
  /\ Len(tries) + Len(chain) <= 1 + Cardinality(Providers)
  /\ \A i \in DOMAIN tries : tries[i].rc \in Outcomes /\ tries[i].paid.provider \in Providers
  /\ \A i \in DOMAIN chain : chain[i] \in Providers
  /\ limited \in BOOLEAN /\ violated \in BOOLEAN
  /\ logs \subseteq HeavyStages /\ written \subseteq HeavyStages
  /\ cost \in Nat /\ ledger \in Nat
  /\ verdict \in Verdicts

(* Once the reviewer sent a task back, no later stage of this runner begins   *)
(* on a cheaper provider, whatever the spec asks for; developer-hotfix, which *)
(* runs on the state read before the round, is one round late                 *)
(* (_resolve_stage_backend).                                                  *)
Escalated ==
  round >= EscalateAt /\ tries # <<>> /\ (stage = "developer-hotfix" => round > EscalateAt)
     => tries[1].label = Anthropic

FellBack(t) == t.label # Plain(t.paid.provider)

(* The provider whose quota a key draws on.                                   *)
Quota(t) ==
  IF t.paid.token = "profile" THEN conf.registry.profiles[t.paid.profile].backend
  ELSE t.paid.provider

(* As long as every backend asked for has its key, no quota is drawn on twice *)
(* for one stage, also when the registry was edited after /backend: nothing   *)
(* is spent on a window known to be closed (_rate_limit_fallback_chain, the   *)
(* retry on anthropic, provider_profiles.resolve).                            *)
QuotaSpared ==
  (\A i \in DOMAIN tries : ~ FellBack(tries[i])) =>
     \A i, j \in DOMAIN tries : i # j => Quota(tries[i]) # Quota(tries[j])

(* The cost a cap is compared with never falls behind the ledger nor the      *)
(* artifacts, whatever was retried where; and in the first round it counts    *)
(* every artifact once, unless a safety violation left one that its retries   *)
(* are charged with again (_read_stage_cost_usd, cost_ledger.record).         *)
LedgerCovered ==
  /\ cost >= ledger /\ cost >= Cardinality(written)
  /\ round = 1 /\ ~ violated => cost = Cardinality(written)

(* A stage is put down to the limits only after every provider with a key was *)
(* tried and the last one refused, too - unless an attempt died without       *)
(* leaving a log (_stage_hit_rate_limit, RC_RATE_LIMITED).                    *)
LimitsReported ==
  verdict = "rate-limited" /\ conf.cross /\ (\A i \in DOMAIN tries : tries[i].rc # "crash") =>
     /\ Last.rc \in {"limited", "stall"}
     /\ \A b \in Providers :
           Available(b) => \E i \in DOMAIN tries : tries[i].label = Plain(b)
=============================================================================
