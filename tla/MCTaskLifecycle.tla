-------------------------- MODULE MCTaskLifecycle --------------------------
(* Instances of TaskLifecycle for TLC: sets of events and limits of retries. *)
EXTENDS TaskLifecycle, TLC

CONSTANTS t1, p1, p2, p3

Symmetric == Permutations(Pids)

NoRetries == [s \in Sweeps |-> 0]
TransientOnce == [NoRetries EXCEPT !["transient"] = 1]
LimitOnce == [NoRetries EXCEPT !["limit"] = 1]
=============================================================================
