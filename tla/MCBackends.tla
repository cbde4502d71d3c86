----------------------------- MODULE MCBackends -----------------------------
(* Instances of Backends for TLC: mixes of keys, tiers and routes, with the   *)
(* registries an operator can have chosen a profile from and edited since.    *)
(* The tester is cheap by default; tier L keeps it on anthropic.              *)
EXTENDS Backends, TLC

Registry(profiles, defaults) == [profiles |-> profiles, defaults |-> defaults]

Profile(b, keyed, url) == [backend |-> b, keyed |-> keyed, url |-> url]

Absent == Registry(<<>>, <<>>)

Both ==
  Registry("alt" :> Profile("deepseek", TRUE, TRUE) @@ "work" :> Profile("glm", TRUE, FALSE),
           <<>>)

Keyless == Registry("alt" :> Profile("deepseek", FALSE, FALSE), "deepseek" :> "alt")

Renamed == Registry("alt" :> Profile("glm", TRUE, TRUE), "glm" :> "alt")

(* What /backend was given, the registry it was given under, and today's.     *)
Purses ==
  {[selection |-> None, then |-> r, registry |-> r] : r \in {Absent, Keyless}}
    \cup {[selection |-> Label("deepseek", "alt"), then |-> Both, registry |-> r]
            : r \in {Both, Keyless, Renamed}}
    \cup {[selection |-> Label("glm", p), then |-> Both, registry |-> Both]
            : p \in {"work", "alt"}}

Routes ==
  {<<>>} \cup {"tester" :> l : l \in {Plain("deepseek"), Plain("glm"), Plain("typo"),
                                       Label("deepseek", "alt")}}

AllConfs ==
  {[keys |-> k, cheap |-> {"tester", "developer-hotfix"}, routing |-> r, tier |-> t,
    guard |-> TRUE, cross |-> x, proxy |-> y,
    selection |-> p.selection, then |-> p.then, registry |-> p.registry]
     : k \in {{}, {"deepseek"}, {"deepseek", "glm"}}, r \in Routes, t \in {"S", "L"},
       x \in BOOLEAN, y \in BOOLEAN, p \in Purses}

(* What matters together varies together: the proxy decides which token a     *)
(* cheap backend gets; without a fallback across providers one cheap attempt  *)
(* is followed by one on anthropic; tier L keeps stages without a route; and  *)
(* a route to a backend nobody knows comes down to anthropic at once.         *)
Proxied == {<<>>, "tester" :> Label("deepseek", "alt")}

MCConfs ==
  {c \in AllConfs :
     /\ c.proxy => c.tier = "S" /\ c.cross /\ c.routing \in Proxied
     /\ ~ c.cross => c.tier = "S"
     /\ c.proxy \/ ~ c.cross => c.keys # {}
     /\ c.tier = "L" => c.routing \in {<<>>, "tester" :> Plain("deepseek")}
     /\ c.routing = ("tester" :> Plain("typo")) => c.keys = {"deepseek"}}
=============================================================================
