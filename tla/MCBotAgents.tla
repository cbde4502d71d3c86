---------------------------- MODULE MCBotAgents -----------------------------
(* Instances of BotAgents for TLC: one role per project.                      *)
EXTENDS BotAgents, TLC

CONSTANTS a1, a2, m1, m2, pa, pb

Alike == Permutations(Tasks) \cup Permutations(Projects)

Same == [p \in Projects |-> "subagent"]
=============================================================================
