-------------------------- MODULE Backends_proofs --------------------------
(***************************************************************************)
(* What TLAPS proves of Backends for every configuration of the operator   *)
(* and every number of rounds. Inv is about where the runner is and what   *)
(* it booked; Retried, about the attempts of one stage, the chain of       *)
(* providers left to try and what the log says of the last refusal.        *)
(***************************************************************************)
EXTENDS Backends, FiniteSetTheorems, SequenceTheorems, TLAPS

----------------------------------------------------------------------------
(* One more attempt. *)

LEMMA Appended ==
  ASSUME NEW S, NEW q \in Seq(S), NEW e
  PROVE /\ Append(q, e) \in Seq(S \cup {e})
        /\ Append(q, e) # <<>>
        /\ Append(q, e)[Len(Append(q, e))] = e
        /\ q = <<>> => Append(q, e)[1] = e
        /\ q # <<>> => Append(q, e)[1] = q[1]
<1> DEFINE T == S \cup {e}
<1>1. q \in Seq(T) /\ e \in T
  BY SeqMonotonic
<1> HIDE DEF T
<1>2. Len(q) \in Nat /\ (q = <<>> <=> Len(q) = 0)
  BY EmptySeq
<1>3. /\ Append(q, e) \in Seq(T) /\ Len(Append(q, e)) = Len(q) + 1
      /\ \A i \in 1..Len(q) : Append(q, e)[i] = q[i]
      /\ Append(q, e)[Len(q) + 1] = e
  BY <1>1
<1>4. Append(q, e) # <<>>
  BY <1>2, <1>3
<1>5. q # <<>> => 1 \in 1..Len(q)
  BY <1>2
<1>6. q = <<>> => Len(q) + 1 = 1
  BY <1>2
<1> QED BY <1>3, <1>4, <1>5, <1>6 DEF T

Sequence == \E S : tries \in Seq(S)

\* Where a stage is tells whether it was tried, and how that ended.
Tried ==
  /\ Sequence
  /\ at \in {"start", "plan", "chain", "end", "review", "over"}
  /\ at \in {"start", "review"} => tries = <<>>
  /\ at \in {"plan", "chain", "end"} => tries # <<>>
  /\ at \in {"plan", "chain"} => Last.rc # "ok"

\* The runner is at most one round behind what it read, and only at its first stage.
Rounds ==
  /\ round \in Nat \ {0} /\ seen \in Nat /\ idx \in {1, 2}
  /\ round <= seen + 1
  /\ idx = 2 => seen = round
  /\ at = "review" => seen = round

\* A stage of a late round that was tried was tried on anthropic first.
FirstOnAnthropic ==
  round >= EscalateAt /\ tries # <<>> /\ (idx = 1 => round > EscalateAt)
    => tries[1].label = Anthropic

\* The artifacts there are, in a first round without a safety violation.
Ended == at = "review" \/ (at = "end" /\ Last.rc = "ok")

Passed ==
  round = 1 /\ ~ violated /\ at # "over" =>
     written = CASE idx = 1 /\ ~ Ended -> {}
                 [] idx = 1 /\ Ended -> {"developer"}
                 [] idx = 2 /\ ~ Ended -> {"developer"}
                 [] idx = 2 /\ Ended -> {"developer", "tester"}

Charges ==
  /\ cost \in Nat /\ ledger \in Nat /\ violated \in BOOLEAN
  /\ IsFiniteSet(written)
  /\ LedgerCovered

Inv == Tried /\ Rounds /\ FirstOnAnthropic /\ Passed /\ Charges

LEMMA StageNames ==
  ASSUME Rounds
  PROVE /\ round = 1 /\ idx = 1 => stage = "developer" /\ Artifact(stage) = "developer"
        /\ idx = 2 => stage = "tester" /\ Artifact(stage) = "tester"
        /\ round # 1 /\ idx = 1 => stage = "developer-hotfix"
  BY DEF Rounds, stage, StagesOf, Artifact

LEMMA Cards ==
  /\ Cardinality({}) = 0 /\ Cardinality({"developer"}) = 1
  /\ Cardinality({"developer", "tester"}) = 2
<1>1. Cardinality({}) = 0 /\ IsFiniteSet({})
  BY FS_EmptySet
<1>2. Cardinality({"developer"}) = 1 /\ IsFiniteSet({"developer"})
  BY FS_Singleton
<1>3. Cardinality({"developer"} \cup {"tester"}) = Cardinality({"developer"}) + 1
  BY <1>2, FS_AddElement
<1>4. {"developer"} \cup {"tester"} = {"developer", "tester"}
  OBVIOUS
<1> QED BY <1>1, <1>2, <1>3, <1>4

LEMMA InitInv == ASSUME Init PROVE Inv
<1>1. Tried
  <2>1. tries \in Seq({})
    BY EmptySeq DEF Init
  <2> QED BY <2>1 DEF Init, Tried, Sequence
<1>2. Rounds /\ FirstOnAnthropic
  BY DEF Init, Rounds, FirstOnAnthropic
<1>3. Passed
  BY DEF Init, Passed, Ended
<1>4. Charges
  <2>1. /\ cost = 0 /\ ledger = 0 /\ written = {} /\ violated = FALSE
        /\ IsFiniteSet({}) /\ Cardinality({}) = 0
    BY FS_EmptySet DEF Init
  <2>2. violated \in BOOLEAN
    BY <2>1
  <2>3. cost \in Nat /\ ledger \in Nat /\ LedgerCovered
    BY <2>1 DEF LedgerCovered
  <2> QED BY <2>1, <2>2, <2>3 DEF Charges
<1> QED BY <1>1, <1>2, <1>3, <1>4 DEF Inv

\* What any attempt does to the accounts.
LEMMA AttemptInv ==
  ASSUME Inv, NEW label, NEW rc \in Outcomes, Attempt(label, rc), at \in {"start", "chain"},
         at' \in {"plan", "chain", "end"}, at' \in {"plan", "chain"} => rc # "ok",
         at = "start" => label = Resolved(stage, seen)
  PROVE Inv'
<1> DEFINE e == [label |-> label, paid |-> Paid(stage, label), rc |-> rc]
<1>1. /\ tries' = Append(tries, e) /\ e.rc = rc /\ e.label = label
      /\ UNCHANGED <<round, seen, idx>>
      /\ Booked(rc) /\ Charged(rc) /\ violated' = (violated \/ rc = "unsafe")
  BY DEF Attempt
<1> HIDE DEF e
<1>2. PICK S : tries \in Seq(S)
  BY DEF Inv, Tried, Sequence
<1>3. /\ tries' \in Seq(S \cup {e}) /\ tries' # <<>> /\ Last' = e
      /\ (tries = <<>> => tries'[1] = e) /\ (tries # <<>> => tries'[1] = tries[1])
  BY <1>1, <1>2, Appended DEF Last
<1>4. Tried'
  BY <1>1, <1>3 DEF Tried, Sequence
<1>5. Rounds'
  BY <1>1 DEF Inv, Rounds
<1>6. FirstOnAnthropic'
  <2> SUFFICES ASSUME round >= EscalateAt, idx = 1 => round > EscalateAt
               PROVE tries'[1].label = Anthropic
    BY <1>1 DEF FirstOnAnthropic
  <2>1. CASE tries # <<>>
    BY <1>3, <2>1 DEF Inv, FirstOnAnthropic
  <2>2. CASE tries = <<>>
    <3>1. at = "start" /\ label = Resolved(stage, seen)
      BY <2>2 DEF Inv, Tried
    <3>2. seen >= EscalateAt
      BY DEF Inv, Rounds, EscalateAt
    <3> QED BY <1>1, <1>3, <2>2, <3>1, <3>2 DEF Resolved
  <2> QED BY <2>1, <2>2
<1>7. /\ round = 1 /\ ~ violated =>
            /\ written = (IF idx = 1 THEN {} ELSE {"developer"})
            /\ Artifact(stage) = (IF idx = 1 THEN "developer" ELSE "tester")
      /\ written' = IF Wrote(rc) THEN written \cup {Artifact(stage)} ELSE written
      /\ ~ violated' => ~ violated /\ (Wrote(rc) <=> rc = "ok")
  <2>1. ~ Ended
    BY DEF Inv, Tried, Ended
  <2>2. written' = IF Wrote(rc) THEN written \cup {Artifact(stage)} ELSE written
    BY <1>1 DEF Booked
  <2>3. ~ violated' => ~ violated /\ (Wrote(rc) <=> rc = "ok")
    BY <1>1 DEF Wrote
  <2> QED BY <2>1, <2>2, <2>3, StageNames DEF Inv, Rounds, Passed
<1>8. Passed'
  <2>1. Ended' <=> rc = "ok"
    BY <1>1, <1>3 DEF Ended
  <2> SUFFICES ASSUME round = 1, ~ violated'
               PROVE written' = CASE idx = 1 /\ ~ Ended' -> {}
                                  [] idx = 1 /\ Ended' -> {"developer"}
                                  [] idx = 2 /\ ~ Ended' -> {"developer"}
                                  [] idx = 2 /\ Ended' -> {"developer", "tester"}
    BY <1>1 DEF Passed
  <2>2. idx \in {1, 2}
    BY DEF Inv, Rounds
  <2> QED BY <1>7, <2>1, <2>2
<1>9. Charges'
  <2>1. /\ cost' = IF Wrote(rc) \/ Artifact(stage) \in written THEN cost + 1 ELSE cost
        /\ ledger' \in {ledger, ledger + 1} /\ (~ Wrote(rc) => ledger' = ledger)
    BY <1>1 DEF Charged, Booked, Recorded
  <2>2. /\ cost \in Nat /\ ledger \in Nat /\ cost >= ledger /\ cost >= Cardinality(written)
        /\ IsFiniteSet(written) /\ (round = 1 /\ ~ violated => cost = Cardinality(written))
    BY DEF Inv, Charges, LedgerCovered
  <2>3. cost' \in Nat /\ ledger' \in Nat /\ cost' >= ledger'
    BY <2>1, <2>2
  <2>4. /\ IsFiniteSet(written')
        /\ cost' >= Cardinality(written')
    <3>1. CASE ~ Wrote(rc)
      <4>1. Cardinality(written) \in Nat
        BY <2>2, FS_CardinalityType
      <4> QED BY <1>7, <2>1, <2>2, <3>1, <4>1
    <3>2. CASE Wrote(rc)
      <4> DEFINE a == Artifact(stage)
      <4>1. /\ Cardinality(written) \in Nat
            /\ IsFiniteSet(written \cup {a})
            /\ Cardinality(written \cup {a})
                 = IF a \in written THEN Cardinality(written) ELSE Cardinality(written) + 1
        BY <2>2, FS_CardinalityType, FS_AddElement
      <4>2. written' = written \cup {a} /\ cost' = cost + 1
        BY <1>7, <2>1, <3>2
      <4> HIDE DEF a
      <4> QED BY <2>2, <4>1, <4>2
    <3> QED BY <3>1, <3>2
  <2>5. round = 1 /\ ~ violated' => cost' = Cardinality(written')
    <3> SUFFICES ASSUME round = 1, ~ violated' PROVE cost' = Cardinality(written')
      OBVIOUS
    <3>1. idx \in {1, 2} /\ ~ violated /\ (Wrote(rc) <=> rc = "ok")
      BY <1>7 DEF Inv, Rounds
    <3>2. CASE idx = 1
      <4>1. {} \cup {"developer"} = {"developer"} /\ "developer" \notin {}
        OBVIOUS
      <4>2. written = {} /\ Artifact(stage) = "developer" /\ cost = 0
        BY <1>7, <2>2, <3>1, <3>2, Cards
      <4>3. CASE rc = "ok"
        <5>1. written' = {"developer"} /\ cost' = 1
          BY <1>7, <2>1, <3>1, <4>1, <4>2, <4>3
        <5> QED BY <5>1, Cards
      <4>4. CASE rc # "ok"
        <5>1. written' = {} /\ cost' = 0
          BY <1>7, <2>1, <3>1, <4>1, <4>2, <4>4
        <5> QED BY <5>1, Cards
      <4> QED BY <4>3, <4>4
    <3>3. CASE idx = 2
      <4>1. {"developer"} \cup {"tester"} = {"developer", "tester"}
        OBVIOUS
      <4> QED BY <1>7, <2>1, <2>2, <3>1, <3>3, <4>1, Cards
    <3> QED BY <3>1, <3>2, <3>3
  <2>6. violated' \in BOOLEAN
    BY <1>1
  <2> QED BY <1>1, <2>3, <2>4, <2>5, <2>6 DEF Charges, LedgerCovered
<1> QED BY <1>4, <1>5, <1>6, <1>8, <1>9 DEF Inv

LEMMA FirstInv == ASSUME Inv, NEW rc \in Outcomes, FirstAttempt(rc) PROVE Inv'
<1>1. /\ at = "start" /\ Attempt(Resolved(stage, seen), rc)
      /\ at' \in {"plan", "end"} /\ (at' = "plan" => rc # "ok")
  BY DEF FirstAttempt
<1> QED BY <1>1, AttemptInv

LEMMA ChainInv == ASSUME Inv, NEW rc \in Outcomes, NextAttempt(rc) PROVE Inv'
<1>1. /\ at = "chain" /\ Attempt(Plain(Head(chain)), rc)
      /\ at' \in {"chain", "end"} /\ (at' = "chain" => rc # "ok")
  BY DEF NextAttempt
<1> QED BY <1>1, AttemptInv

LEMMA PlanInv == ASSUME Inv, FallbackPlanned PROVE Inv'
<1>1. /\ at = "plan" /\ at' \in {"end", "chain"}
      /\ UNCHANGED <<conf, round, seen, idx, tries, logs, ledger, written, cost, violated,
                     verdict>>
  BY DEF FallbackPlanned
<1>2. ~ Ended /\ ~ Ended' /\ Last' = Last
  BY <1>1 DEF Inv, Tried, Ended, Last
<1>3. Tried' /\ Rounds' /\ FirstOnAnthropic' /\ Charges'
  BY <1>1, <1>2 DEF Inv, Tried, Sequence, Rounds, FirstOnAnthropic, Charges, LedgerCovered
<1>4. Passed'
  BY <1>1, <1>2 DEF Inv, Passed
<1> QED BY <1>3, <1>4 DEF Inv

LEMMA DoneInv == ASSUME Inv, StageDone PROVE Inv'
<1>1. /\ at = "end" /\ Last.rc = "ok" /\ seen' = round /\ tries' = <<>>
      /\ \/ idx = 1 /\ idx' = 2 /\ at' = "start"
         \/ idx = 2 /\ idx' = 2 /\ at' = "review"
      /\ UNCHANGED <<conf, round, logs, ledger, written, cost, violated>>
  BY DEF StageDone, Inv, Rounds
<1>2. Tried'
  <2>1. tries' \in Seq({})
    BY <1>1, EmptySeq
  <2> QED BY <1>1, <2>1 DEF Tried, Sequence
<1>3. Rounds' /\ FirstOnAnthropic' /\ Charges'
  BY <1>1 DEF Inv, Rounds, FirstOnAnthropic, Charges, LedgerCovered
<1>4. Passed'
  <2>1. Ended /\ (idx = 1 => ~ Ended') /\ (idx = 2 => Ended')
    BY <1>1 DEF Ended
  <2> QED BY <1>1, <2>1 DEF Inv, Passed
<1> QED BY <1>2, <1>3, <1>4 DEF Inv

LEMMA OverInv == ASSUME Inv, StageLost \/ Approved PROVE Inv'
<1>1. /\ at' = "over"
      /\ UNCHANGED <<round, seen, idx, tries, ledger, written, cost, violated>>
  BY DEF StageLost, Approved
<1> QED
  BY <1>1 DEF Inv, Tried, Sequence, Rounds, FirstOnAnthropic, Passed, Charges, LedgerCovered

LEMMA AgainInv == ASSUME Inv, ChangesRequested PROVE Inv'
<1>1. /\ at = "review" /\ at' = "start" /\ round' = round + 1 /\ idx' = 1
      /\ UNCHANGED <<seen, tries, ledger, written, cost, violated>>
  BY DEF ChangesRequested
<1>2. Tried' /\ Rounds' /\ Charges'
  BY <1>1 DEF Inv, Tried, Sequence, Rounds, Charges, LedgerCovered
<1>3. FirstOnAnthropic' /\ Passed'
  BY <1>1 DEF Inv, Tried, Rounds, FirstOnAnthropic, Passed
<1> QED BY <1>2, <1>3 DEF Inv

LEMMA NextInv == ASSUME Inv, [Next]_vars PROVE Inv'
<1>1. CASE UNCHANGED vars
  BY <1>1 DEF vars, Inv, Tried, Sequence, Rounds, FirstOnAnthropic, Passed, Ended, Last, Charges, LedgerCovered
<1> QED BY <1>1, FirstInv, ChainInv, PlanInv, DoneInv, OverInv, AgainInv DEF Next

LEMMA RoutingInvariant == Spec => []Inv
  BY InitInv, NextInv, PTL DEF Spec

(* Once the reviewer sent a task back, no later stage of this runner begins   *)
(* on a cheaper provider, whatever the spec asks for; developer-hotfix, which *)
(* runs on the state read before the round, is one round late                 *)
(* (_resolve_stage_backend).                                                  *)
THEOREM EscalationHolds == Spec => []Escalated
<1>1. Inv => Escalated
  BY StageNames DEF Inv, Rounds, FirstOnAnthropic, Escalated, EscalateAt
<1> QED BY <1>1, RoutingInvariant, PTL

(* The cost a cap is compared with never falls behind the ledger nor the      *)
(* artifacts, whatever was retried where; and in the first round it counts    *)
(* every artifact once, unless a safety violation left one that its retries   *)
(* are charged with again (_read_stage_cost_usd, cost_ledger.record).         *)
THEOREM LedgerIsCovered == Spec => []LedgerCovered
<1>1. Inv => LedgerCovered
  BY DEF Inv, Charges
<1> QED BY <1>1, RoutingInvariant, PTL

----------------------------------------------------------------------------
(* What is tried where, and what the log says of it. *)

LEMMA OneOrNone ==
  ASSUME NEW S, NEW b \in S, NEW P \in BOOLEAN
  PROVE LET k == IF P THEN <<b>> ELSE <<>>
        IN  /\ k \in Seq(S) /\ Len(k) = (IF P THEN 1 ELSE 0)
            /\ P => k[1] = b
<1>1. /\ <<b>> \in Seq(S) /\ Len(<<b>>) = 1 /\ <<b>>[1] = b
      /\ <<>> \in Seq(S) /\ Len(<<>>) = 0
  BY EmptySeq
<1> QED BY <1>1

LEMMA Joined ==
  ASSUME NEW S, NEW k1 \in Seq(S), NEW k2 \in Seq(S), NEW k3 \in Seq(S),
         NEW c, c = k1 \o k2 \o k3
  PROVE /\ c \in Seq(S) /\ Len(c) = Len(k1) + Len(k2) + Len(k3)
        /\ \A i \in 1..Len(c) :
              c[i] = IF i <= Len(k1) THEN k1[i]
                     ELSE IF i <= Len(k1) + Len(k2) THEN k2[i - Len(k1)]
                     ELSE k3[i - (Len(k1) + Len(k2))]
<1> DEFINE d == k1 \o k2
<1>1. /\ d \in Seq(S) /\ Len(d) = Len(k1) + Len(k2)
      /\ \A i \in 1..Len(d) : d[i] = IF i <= Len(k1) THEN k1[i] ELSE k2[i - Len(k1)]
  BY ConcatProperties
<1>2. d \in Seq(S) /\ Len(k1) \in Nat /\ Len(k2) \in Nat /\ Len(k3) \in Nat
  BY <1>1
<1> HIDE DEF d
<1>3. /\ d \o k3 \in Seq(S) /\ Len(d \o k3) = Len(d) + Len(k3)
      /\ \A i \in 1..Len(d) + Len(k3) :
            (d \o k3)[i] = IF i <= Len(d) THEN d[i] ELSE k3[i - Len(d)]
  BY <1>2, ConcatProperties
<1>4. \A i \in 1..Len(d) + Len(k3) : /\ i <= Len(d) => i \in 1..Len(d)
                                     /\ i <= Len(k1) => i <= Len(d)
  BY <1>1, <1>2
<1>5. c = d \o k3
  BY DEF d
<1> QED BY <1>1, <1>2, <1>3, <1>4, <1>5

\* The chain names every provider that has a key once, the refusing one left out.
LEMMA ChainBuilt ==
  ASSUME NEW used
  PROVE LET c == FallbackChain(used)
        IN  /\ c \in Seq(Providers) /\ Len(c) <= 3
            /\ \A i, j \in 1..Len(c) : i # j => c[i] # c[j]
            /\ \A j \in 1..Len(c) : Plain(c[j]) # used
            /\ \A b \in Providers :
                  Available(b) /\ Plain(b) # used => \E j \in 1..Len(c) : c[j] = b
<1> DEFINE P(b) == Plain(b) # used /\ Available(b)
           Kept(b) == IF P(b) THEN <<b>> ELSE <<>>
           k1 == Kept("anthropic")
           k2 == Kept("deepseek")
           k3 == Kept("glm")
           c == FallbackChain(used)
<1>1. c = k1 \o k2 \o k3
  BY DEF FallbackChain, Supported, Providers
<1>2. \A b \in Providers : /\ P(b) \in BOOLEAN
                           /\ Kept(b) \in Seq(Providers)
                           /\ Len(Kept(b)) = (IF P(b) THEN 1 ELSE 0)
                           /\ P(b) => Kept(b)[1] = b
  BY OneOrNone
<1>3. /\ k1 \in Seq(Providers) /\ k2 \in Seq(Providers) /\ k3 \in Seq(Providers)
      /\ Len(k1) = (IF P("anthropic") THEN 1 ELSE 0)
      /\ Len(k2) = (IF P("deepseek") THEN 1 ELSE 0)
      /\ Len(k3) = (IF P("glm") THEN 1 ELSE 0)
      /\ P("anthropic") => k1[1] = "anthropic"
      /\ P("deepseek") => k2[1] = "deepseek"
      /\ P("glm") => k3[1] = "glm"
  BY <1>2 DEF Providers
<1> HIDE DEF P, k1, k2, k3, c
<1>4. /\ c \in Seq(Providers) /\ Len(c) = Len(k1) + Len(k2) + Len(k3)
      /\ \A i \in 1..Len(c) :
            c[i] = IF i <= Len(k1) THEN k1[i]
                   ELSE IF i <= Len(k1) + Len(k2) THEN k2[i - Len(k1)]
                   ELSE k3[i - (Len(k1) + Len(k2))]
  <2>1. k1 \in Seq(Providers) /\ k2 \in Seq(Providers) /\ k3 \in Seq(Providers)
    BY <1>3
  <2> QED BY <1>1, <2>1, Joined
<1>5. /\ \A j \in 1..Len(c) : P(c[j])
      /\ \A i, j \in 1..Len(c) : i # j => c[i] # c[j]
  <2>1. \A j \in 1..Len(c) :
           \/ P("anthropic") /\ j = 1 /\ c[j] = "anthropic"
           \/ P("deepseek") /\ j = Len(k1) + 1 /\ c[j] = "deepseek"
           \/ P("glm") /\ j = Len(k1) + Len(k2) + 1 /\ c[j] = "glm"
    BY <1>3, <1>4
  <2> QED BY <2>1
<1>6. \A b \in Providers : P(b) => \E j \in 1..Len(c) : c[j] = b
  <2>1. P("anthropic") => c[1] = "anthropic" /\ 1 \in 1..Len(c)
    BY <1>3, <1>4
  <2>2. P("deepseek") => c[Len(k1) + 1] = "deepseek" /\ Len(k1) + 1 \in 1..Len(c)
    BY <1>3, <1>4
  <2>3. P("glm") => /\ c[Len(k1) + Len(k2) + 1] = "glm"
                    /\ Len(k1) + Len(k2) + 1 \in 1..Len(c)
    BY <1>3, <1>4
  <2> QED BY <2>1, <2>2, <2>3 DEF Providers
<1> QED BY <1>3, <1>4, <1>5, <1>6 DEF P, c

\* A key of a profile belongs to the provider that answers.
OwnKey(t) ==
  t.paid.token = "profile" =>
     conf.registry.profiles[t.paid.profile].backend = t.paid.provider

LEMMA PaidByItsKey ==
  ASSUME NEW s, NEW label
  PROVE /\ Paid(s, label).provider \in Providers
        /\ Paid(s, label).token = "profile" =>
              conf.registry.profiles[Paid(s, label).profile].backend = Paid(s, label).provider
<1> DEFINE b == label.backend
           p == ProfileUsed(b, ProfileFor(s, label))
<1>1. p # None => conf.registry.profiles[p].backend = b
  BY DEF ProfileUsed
<1> HIDE DEF p
<1>2. CASE Paid(s, label) = OnAnthropic
  BY <1>2 DEF OnAnthropic, Providers
<1>3. CASE Paid(s, label) # OnAnthropic
  <2>1. /\ Paid(s, label).provider = b /\ Paid(s, label).profile = p /\ b \in {"deepseek", "glm"}
        /\ Paid(s, label).token = "profile" => p # None
    BY <1>3 DEF Paid, p
  <2> QED BY <1>1, <2>1 DEF Providers
<1> QED BY <1>2, <1>3

\* No label is tried twice.
Attempts ==
  /\ \A i \in 1..Len(tries) :
        /\ tries[i].rc \in Outcomes /\ tries[i].paid.provider \in Providers
        /\ OwnKey(tries[i])
  /\ \A i, j \in 1..Len(tries) : i # j => tries[i].label # tries[j].label

\* What is left to try is neither there twice nor tried already.
Chained ==
  /\ chain \in Seq(Providers)
  /\ \A i, j \in 1..Len(chain) : i # j => chain[i] # chain[j]
  /\ \A i \in 1..Len(tries), j \in 1..Len(chain) : tries[i].label # Plain(chain[j])
  /\ at = "chain" <=> chain # <<>>
  /\ at = "plan" => Len(tries) = 1
  /\ Len(tries) + Len(chain) <= 4

InChain == at \in {"chain", "end", "over"} /\ conf.cross /\ limited

\* As long as everyone refuses, who has a key was tried or will be.
Reach ==
  InChain => \A b \in Providers : Available(b) =>
                \/ \E i \in 1..Len(tries) : tries[i].label = Plain(b)
                \/ \E j \in 1..Len(chain) : chain[j] = b

\* The log of a stage tells of its last attempt, unless that left none.
LogTrue ==
  /\ tries # <<>> /\ Last.rc \notin {"ok", "crash"} =>
        (stage \in logs <=> Last.rc \in {"limited", "stall"})
  /\ InChain /\ tries # <<>> /\ Last.rc # "ok" => stage \in logs
  /\ at \in {"start", "plan", "review"} => ~ limited

Judged ==
  /\ at # "over" => verdict = "none"
  /\ verdict = "rate-limited" => /\ at = "over" /\ limited /\ chain = <<>>
                                 /\ tries # <<>> /\ Last.rc # "ok"

Values ==
  /\ round \in 1..MaxRounds /\ seen \in 1..round
  /\ logs \subseteq HeavyStages /\ written \subseteq HeavyStages
  /\ limited \in BOOLEAN /\ verdict \in Verdicts

Retried == Attempts /\ Chained /\ Reach /\ LogTrue /\ Judged /\ Values

\* What an attempt with a label not tried yet adds.
LEMMA AttemptMade ==
  ASSUME Inv, Attempts, Values, NEW label, NEW rc \in Outcomes, Attempt(label, rc),
         \A i \in 1..Len(tries) : tries[i].label # label
  PROVE /\ Attempts' /\ tries' # <<>>
        /\ Len(tries) \in Nat /\ Len(tries') = Len(tries) + 1
        /\ \A i \in 1..Len(tries) : tries'[i] = tries[i]
        /\ tries'[Len(tries')].label = label /\ Last'.rc = rc
        /\ stage' = stage
        /\ rc \notin {"ok", "crash"} => (stage \in logs' <=> rc \in {"limited", "stall"})
        /\ logs' \subseteq HeavyStages /\ written' \subseteq HeavyStages
<1> DEFINE e == [label |-> label, paid |-> Paid(stage, label), rc |-> rc]
<1>1. /\ tries' = Append(tries, e) /\ UNCHANGED <<conf, round, seen, idx, verdict>>
      /\ Booked(rc) /\ Logged(rc)
  BY DEF Attempt
<1>2. /\ e.label = label /\ e.rc = rc /\ e.paid.provider \in Providers
      /\ OwnKey(e)
  BY PaidByItsKey DEF OwnKey
<1> HIDE DEF e
<1>3. PICK S : tries \in Seq(S)
  BY DEF Inv, Tried, Sequence
<1>4. /\ Len(tries) \in Nat /\ Len(tries') = Len(tries) + 1
      /\ \A i \in 1..Len(tries) : tries'[i] = tries[i]
      /\ tries'[Len(tries) + 1] = e
      /\ tries' # <<>>
  <2>1. tries \in Seq(S \cup {e}) /\ e \in S \cup {e}
    BY <1>3, SeqMonotonic
  <2> QED BY <1>1, <2>1, <1>3, Appended
<1>5. Attempts'
  <2>1. \A i \in 1..Len(tries') : i \in 1..Len(tries) \/ i = Len(tries')
    BY <1>4
  <2>3. \A i \in 1..Len(tries') :
           /\ tries'[i].rc \in Outcomes /\ tries'[i].paid.provider \in Providers
           /\ OwnKey(tries'[i])
    BY <1>2, <1>4, <2>1 DEF Attempts
  <2>4. \A i, j \in 1..Len(tries') : i # j => tries'[i].label # tries'[j].label
    BY <1>2, <1>4, <2>1 DEF Attempts
  <2> QED BY <1>1, <2>3, <2>4 DEF Attempts, OwnKey
<1>6. stage \in HeavyStages /\ Artifact(stage) \in HeavyStages /\ stage' = stage
  BY <1>1 DEF Inv, Rounds, stage, StagesOf, Artifact, HeavyStages
<1>7. /\ logs' \subseteq HeavyStages /\ written' \subseteq HeavyStages
      /\ rc \notin {"ok", "crash"} => (stage \in logs' <=> rc \in {"limited", "stall"})
  BY <1>1, <1>6 DEF Values, Logged, Booked, Wrote
<1>8. Last' = e
  BY <1>4 DEF Last
<1> QED BY <1>2, <1>4, <1>5, <1>6, <1>7, <1>8

LEMMA InitRetried == ASSUME Init PROVE Retried
<1>1. Len(tries) = 0 /\ Len(chain) = 0 /\ chain \in Seq(Providers)
  BY EmptySeq DEF Init
<1>2. at = "start" /\ tries = <<>> /\ chain = <<>> /\ limited = FALSE /\ verdict = "none"
  BY DEF Init
<1>3. Attempts /\ Chained
  BY <1>1, <1>2 DEF Attempts, Chained
<1>4. Reach /\ LogTrue /\ Judged
  BY <1>2 DEF Reach, InChain, LogTrue, Judged
<1>5. Values
  <2>1. round \in 1..MaxRounds /\ seen \in 1..round
    BY BackendsAssumption DEF Init
  <2> QED BY <1>2, <2>1 DEF Init, Values, Verdicts
<1> QED BY <1>3, <1>4, <1>5 DEF Retried

LEMMA FirstRetried == ASSUME Inv, Retried, NEW rc \in Outcomes, FirstAttempt(rc) PROVE Retried'
<1>1. /\ at = "start" /\ Attempt(Resolved(stage, seen), rc)
      /\ at' \in {"plan", "end"} /\ UNCHANGED <<conf, chain, limited, verdict, round, seen>>
      /\ tries = <<>> /\ chain = <<>> /\ ~ limited
  BY DEF FirstAttempt, Attempt, Inv, Tried, Retried, Chained, LogTrue
<1>2. Len(tries) = 0 /\ Len(chain) = 0 /\ chain \in Seq(Providers)
  BY <1>1, EmptySeq
<1>3. /\ Attempts' /\ tries' # <<>> /\ Len(tries') = 1
      /\ Last'.rc = rc /\ stage' = stage
      /\ rc \notin {"ok", "crash"} => (stage \in logs' <=> rc \in {"limited", "stall"})
      /\ logs' \subseteq HeavyStages /\ written' \subseteq HeavyStages
  BY <1>1, <1>2, AttemptMade DEF Retried
<1>4. Chained'
  BY <1>1, <1>2, <1>3 DEF Chained
<1>5. Reach' /\ LogTrue' /\ Judged' /\ Values'
  BY <1>1, <1>3 DEF Reach, InChain, LogTrue, Judged, Values, Retried
<1> QED BY <1>3, <1>4, <1>5 DEF Retried

LEMMA PlanRetried == ASSUME Inv, Retried, FallbackPlanned PROVE Retried'
<1>1. /\ at = "plan" /\ chain = <<>> /\ Len(tries) = 1 /\ tries # <<>> /\ Last.rc # "ok"
      /\ limited' = (stage \in logs)
      /\ chain' = IF limited' /\ conf.cross THEN FallbackChain(tries[1].label)
                  ELSE IF tries[1].label # Anthropic THEN <<"anthropic">> ELSE <<>>
      /\ at' = IF chain' = <<>> THEN "end" ELSE "chain"
      /\ UNCHANGED <<conf, round, seen, idx, tries, logs, ledger, written, cost, violated,
                     verdict>>
  BY DEF FallbackPlanned, Inv, Tried, Retried, Chained
<1>2. /\ chain' \in Seq(Providers) /\ Len(chain') <= 3
      /\ \A i, j \in 1..Len(chain') : i # j => chain'[i] # chain'[j]
      /\ \A j \in 1..Len(chain') : Plain(chain'[j]) # tries[1].label
  <2>1. CASE limited' /\ conf.cross
    BY <1>1, <2>1, ChainBuilt
  <2>2. CASE ~ (limited' /\ conf.cross) /\ tries[1].label # Anthropic
    <3>1. /\ <<"anthropic">> \in Seq(Providers) /\ Len(<<"anthropic">>) = 1
          /\ <<"anthropic">>[1] = "anthropic"
      BY DEF Providers
    <3> QED BY <1>1, <2>2, <3>1 DEF Anthropic
  <2>3. CASE ~ (limited' /\ conf.cross) /\ tries[1].label = Anthropic
    BY <1>1, <2>3, EmptySeq
  <2> QED BY <2>1, <2>2, <2>3
<1>3. Len(chain') \in Nat
  BY <1>2
<1>4. Chained'
  <2>1. \A i \in 1..Len(tries), j \in 1..Len(chain') : tries[i].label # Plain(chain'[j])
    BY <1>1, <1>2
  <2>2. Len(tries) + Len(chain') <= 4
    BY <1>1, <1>2, <1>3
  <2> QED BY <1>1, <1>2, <2>1, <2>2 DEF Chained
<1>5. Reach'
  <2> SUFFICES ASSUME conf.cross, limited', NEW b \in Providers, Available(b)
               PROVE \/ \E i \in 1..Len(tries) : tries[i].label = Plain(b)
                     \/ \E j \in 1..Len(chain') : chain'[j] = b
    BY <1>1 DEF Reach, InChain, Available
  <2>1. 1 \in 1..Len(tries)
    BY <1>1
  <2> QED BY <1>1, <2>1, ChainBuilt
<1>6. Attempts' /\ Judged' /\ Values'
  <2>1. limited' \in BOOLEAN
    BY <1>1
  <2> QED BY <1>1, <2>1 DEF Retried, Attempts, OwnKey, Judged, Values
<1>7. LogTrue'
  <2>1. stage' = stage /\ Last' = Last
    BY <1>1 DEF stage, Last
  <2> QED BY <1>1, <2>1 DEF Retried, LogTrue, InChain
<1> QED BY <1>4, <1>5, <1>6, <1>7 DEF Retried

LEMMA NextRetried == ASSUME Inv, Retried, NEW rc \in Outcomes, NextAttempt(rc) PROVE Retried'
<1>1. /\ at = "chain" /\ Attempt(Plain(Head(chain)), rc)
      /\ chain' = IF rc = "ok" THEN <<>> ELSE Tail(chain)
      /\ limited' = StillLimited(rc)
      /\ at' = IF chain' = <<>> THEN "end" ELSE "chain"
      /\ UNCHANGED <<conf, round, seen, idx, verdict>>
      /\ chain \in Seq(Providers) /\ chain # <<>>
  BY DEF NextAttempt, Attempt, Retried, Chained
<1>2. /\ Len(chain) \in Nat \ {0} /\ Head(chain) = chain[1] /\ 1 \in 1..Len(chain)
      /\ Tail(chain) \in Seq(Providers) /\ Len(Tail(chain)) = Len(chain) - 1
      /\ \A j \in 1..Len(Tail(chain)) : Tail(chain)[j] = chain[j + 1]
      /\ \A j \in 1..Len(Tail(chain)) : j + 1 \in 1..Len(chain) /\ j + 1 # 1
  BY <1>1, HeadTailProperties
<1>3. \A i \in 1..Len(tries) : tries[i].label # Plain(Head(chain))
  BY <1>2 DEF Retried, Chained
<1>4. /\ Attempts' /\ tries' # <<>> /\ Len(tries) \in Nat /\ Len(tries') = Len(tries) + 1
      /\ \A i \in 1..Len(tries) : tries'[i] = tries[i]
      /\ tries'[Len(tries')].label = Plain(chain[1])
      /\ Last'.rc = rc /\ stage' = stage
      /\ rc \notin {"ok", "crash"} => (stage \in logs' <=> rc \in {"limited", "stall"})
      /\ logs' \subseteq HeavyStages /\ written' \subseteq HeavyStages
  BY <1>1, <1>2, <1>3, AttemptMade DEF Retried
<1>5. /\ chain' \in Seq(Providers) /\ Len(chain') \in Nat /\ Len(chain') <= Len(chain) - 1
      /\ \A j \in 1..Len(chain') : /\ chain'[j] = chain[j + 1]
                                   /\ j + 1 \in 1..Len(chain) /\ j + 1 # 1
  <2>1. <<>> \in Seq(Providers) /\ Len(<<>>) = 0
    BY EmptySeq
  <2> QED BY <1>1, <1>2, <2>1
<1>6. Chained'
  <2>1. \A i, j \in 1..Len(chain') : i # j => chain'[i] # chain'[j]
    <3>1. \A i, j \in 1..Len(chain') : i # j => i + 1 # j + 1
      OBVIOUS
    <3> QED BY <1>5, <3>1 DEF Retried, Chained
  <2>2. \A i \in 1..Len(tries'), j \in 1..Len(chain') : tries'[i].label # Plain(chain'[j])
    <3> SUFFICES ASSUME NEW i \in 1..Len(tries'), NEW j \in 1..Len(chain')
                 PROVE tries'[i].label # Plain(chain'[j])
      OBVIOUS
    <3>1. chain'[j] = chain[j + 1] /\ j + 1 \in 1..Len(chain) /\ chain[j + 1] # chain[1]
      BY <1>2, <1>5 DEF Retried, Chained
    <3>2. CASE i \in 1..Len(tries)
      BY <1>4, <3>1, <3>2 DEF Retried, Chained
    <3>3. CASE i = Len(tries')
      BY <1>4, <3>1, <3>3 DEF Plain, Label
    <3> QED BY <1>4, <3>2, <3>3
  <2>3. Len(tries') + Len(chain') <= 4
    BY <1>2, <1>4, <1>5 DEF Retried, Chained
  <2> QED BY <1>1, <1>5, <2>1, <2>2, <2>3 DEF Chained
<1>7. conf.cross /\ limited' => limited /\ rc # "ok" /\ stage \in logs' /\ chain' = Tail(chain)
  BY <1>1 DEF StillLimited, Retried, Values
<1>8. Reach'
  <2> SUFFICES ASSUME conf.cross, limited', NEW b \in Providers, Available(b)
               PROVE \/ \E i \in 1..Len(tries') : tries'[i].label = Plain(b)
                     \/ \E j \in 1..Len(chain') : chain'[j] = b
    BY <1>1 DEF Reach, InChain, Available
  <2>1. CASE \E i \in 1..Len(tries) : tries[i].label = Plain(b)
    BY <1>4, <2>1
  <2>2. CASE \E j \in 1..Len(chain) : chain[j] = b
    <3> PICK j \in 1..Len(chain) : chain[j] = b
      BY <2>2
    <3>1. CASE j = 1
      <4>1. Len(tries') \in 1..Len(tries')
        BY <1>4
      <4> QED BY <1>4, <3>1, <4>1
    <3>2. CASE j # 1
      <4>1. j - 1 \in 1..Len(chain') /\ chain'[j - 1] = b
        BY <1>2, <1>7, <3>2
      <4> QED BY <4>1
    <3> QED BY <3>1, <3>2
  <2>3. InChain
    BY <1>1, <1>7 DEF InChain
  <2> QED BY <2>1, <2>2, <2>3 DEF Retried, Reach
<1>9. LogTrue' /\ Judged' /\ Values'
  <2>1. limited' \in BOOLEAN
    BY <1>1 DEF StillLimited, Retried, Values
  <2> QED BY <1>1, <1>4, <1>7, <2>1 DEF LogTrue, InChain, Judged, Values, Retried
<1> QED BY <1>4, <1>6, <1>8, <1>9 DEF Retried

LEMMA DoneRetried == ASSUME Inv, Retried, StageDone PROVE Retried'
<1>1. /\ at = "end" /\ seen' = round /\ tries' = <<>> /\ limited' = FALSE
      /\ at' \in {"start", "review"} /\ chain = <<>>
      /\ UNCHANGED <<conf, round, chain, logs, ledger, written, cost, violated,
                     verdict>>
  BY DEF StageDone, Retried, Chained
<1>2. Len(tries') = 0 /\ Len(chain') = 0 /\ chain' \in Seq(Providers)
  BY <1>1, EmptySeq
<1>3. Values'
  <2>1. round' \in 1..MaxRounds /\ seen' \in 1..round'
    BY <1>1, BackendsAssumption DEF Retried, Values
  <2> QED BY <1>1, <2>1 DEF Retried, Values
<1> QED
  BY <1>1, <1>2, <1>3 DEF Retried, Attempts, Chained, Reach, InChain, LogTrue, Judged

LEMMA LostRetried == ASSUME Inv, Retried, StageLost PROVE Retried'
<1>1. /\ at = "end" /\ at' = "over" /\ Last.rc # "ok" /\ chain = <<>> /\ tries # <<>>
      /\ verdict' \in Verdicts /\ (verdict' = "rate-limited" => limited)
      /\ UNCHANGED <<conf, round, seen, idx, tries, chain, limited, logs, ledger, written,
                     cost, violated>>
  BY DEF StageLost, Verdicts, Inv, Tried, Retried, Chained
<1>2. stage' = stage /\ Last' = Last
  BY <1>1 DEF stage, Last
<1>3. Attempts' /\ Chained' /\ Values'
  BY <1>1 DEF Retried, Attempts, OwnKey, Chained, Values
<1>4. Reach' /\ LogTrue' /\ Judged'
  BY <1>1, <1>2 DEF Retried, Reach, InChain, Available, LogTrue, Judged
<1> QED BY <1>3, <1>4 DEF Retried

LEMMA ReviewRetried == ASSUME Inv, Retried, Approved \/ ChangesRequested PROVE Retried'
<1>1. /\ at = "review" /\ at' \in {"over", "start"} /\ tries = <<>> /\ ~ limited /\ chain = <<>>
      /\ verdict' \in {verdict, "reviewed"} /\ (at' = "start" => verdict' = verdict)
      /\ round' \in 1..MaxRounds /\ seen' \in 1..round'
      /\ UNCHANGED <<conf, tries, chain, limited, logs, ledger, written, cost, violated>>
  BY BackendsAssumption DEF Approved, ChangesRequested, Inv, Tried, Retried, Chained, LogTrue, Values
<1>2. Attempts' /\ Chained' /\ Values'
  BY <1>1 DEF Retried, Attempts, OwnKey, Chained, Values, Verdicts
<1>3. Reach' /\ LogTrue' /\ Judged'
  BY <1>1 DEF Retried, Reach, InChain, LogTrue, Judged
<1> QED BY <1>2, <1>3 DEF Retried

LEMMA StepRetried == ASSUME Inv, Retried, [Next]_vars PROVE Retried'
<1>1. CASE UNCHANGED vars
  BY <1>1 DEF vars, Retried, Attempts, OwnKey, Chained, Reach, InChain, Available, LogTrue, Judged,
              Values, Last, stage
<1> QED
  BY <1>1, FirstRetried, NextRetried, PlanRetried, DoneRetried, LostRetried, ReviewRetried
     DEF Next

LEMMA RetriesInvariant == Spec => [](Inv /\ Retried)
<1>1. Init => Inv /\ Retried
  BY InitInv, InitRetried
<1>2. Inv /\ Retried /\ [Next]_vars => (Inv /\ Retried)'
  BY NextInv, StepRetried
<1> QED BY <1>1, <1>2, PTL DEF Spec

LEMMA ThreeProviders == Cardinality(Providers) = 3
<1>1. IsFiniteSet({"anthropic"}) /\ Cardinality({"anthropic"}) = 1
  BY FS_Singleton
<1>2. /\ IsFiniteSet({"anthropic"} \cup {"deepseek"})
      /\ Cardinality({"anthropic"} \cup {"deepseek"}) = 2
  BY <1>1, FS_AddElement
<1>3. Cardinality(({"anthropic"} \cup {"deepseek"}) \cup {"glm"}) = 3
  BY <1>2, FS_AddElement
<1>4. ({"anthropic"} \cup {"deepseek"}) \cup {"glm"} = Providers
  BY DEF Providers
<1> QED BY <1>3, <1>4

(* Types of the variables; a stage is tried once and then at most once on     *)
(* each supported backend (_run_pipeline_stage_with_breadcrumbs).             *)
THEOREM TypeCorrect == Spec => []TypeOK
<1>1. Inv /\ Retried => TypeOK
  <2> SUFFICES ASSUME Inv, Retried PROVE TypeOK
    OBVIOUS
  <2>1. PICK S : tries \in Seq(S)
    BY DEF Inv, Tried, Sequence
  <2>2. DOMAIN tries = 1..Len(tries) /\ DOMAIN chain = 1..Len(chain)
    BY <2>1 DEF Retried, Chained
  <2>3. \A i \in 1..Len(chain) : chain[i] \in Providers
    BY DEF Retried, Chained
  <2> QED
    BY <2>2, <2>3, ThreeProviders
       DEF TypeOK, Inv, Tried, Rounds, Charges, Retried, Attempts, Chained, Values
<1> QED BY <1>1, RetriesInvariant, PTL

(* As long as every backend asked for has its key, no quota is drawn on twice *)
(* for one stage, also when the registry was edited after /backend: the       *)
(* labels of a stage's attempts are all different, and the key of a profile   *)
(* belongs to the provider that answers (_rate_limit_fallback_chain,          *)
(* provider_profiles.resolve).                                                *)
THEOREM QuotaIsSpared == Spec => []QuotaSpared
<1>1. Inv /\ Retried => QuotaSpared
  <2> SUFFICES ASSUME Inv, Retried PROVE QuotaSpared
    OBVIOUS
  <2>1. PICK S : tries \in Seq(S)
    BY DEF Inv, Tried, Sequence
  <2>2. DOMAIN tries = 1..Len(tries)
    BY <2>1
  <2>3. \A i \in DOMAIN tries : Quota(tries[i]) = tries[i].paid.provider
    BY <2>2 DEF Quota, Retried, Attempts, OwnKey
  <2> QED BY <2>2, <2>3 DEF QuotaSpared, FellBack, Retried, Attempts
<1> QED BY <1>1, RetriesInvariant, PTL

(* A stage is put down to the limits only after every provider with a key was *)
(* tried and the last one refused, too - unless an attempt died without       *)
(* leaving a log (_stage_hit_rate_limit, RC_RATE_LIMITED).                    *)
THEOREM LimitsAreReported == Spec => []LimitsReported
<1>1. Inv /\ Retried => LimitsReported
  <2> SUFFICES ASSUME Inv, Retried PROVE LimitsReported
    OBVIOUS
  <2> SUFFICES ASSUME verdict = "rate-limited", conf.cross,
                      \A i \in DOMAIN tries : tries[i].rc # "crash"
               PROVE /\ Last.rc \in {"limited", "stall"}
                     /\ \A b \in Providers :
                           Available(b) => \E i \in DOMAIN tries : tries[i].label = Plain(b)
    BY DEF LimitsReported
  <2>1. PICK S : tries \in Seq(S)
    BY DEF Inv, Tried, Sequence
  <2>2. DOMAIN tries = 1..Len(tries) /\ Len(tries) \in Nat
    BY <2>1
  <2>3. at = "over" /\ limited /\ chain = <<>> /\ tries # <<>> /\ Last.rc # "ok" /\ InChain
    BY DEF Retried, Judged, InChain
  <2>4. Len(tries) \in 1..Len(tries)
    BY <2>1, <2>2, <2>3, EmptySeq
  <2>5. Last.rc # "crash"
    BY <2>2, <2>4 DEF Last
  <2>6. Last.rc \in {"limited", "stall"}
    BY <2>3, <2>5 DEF Retried, LogTrue
  <2>7. Len(chain) = 0
    BY <2>3
  <2> QED BY <2>2, <2>3, <2>6, <2>7 DEF Retried, Reach
<1> QED BY <1>1, RetriesInvariant, PTL
=============================================================================
