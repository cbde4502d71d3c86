---------------------------- MODULE TaskCustody ----------------------------
(* What tasks/ promises to its operator, whoever moves the folders and        *)
(* whatever dies meanwhile. A folder goes from bucket to bucket along the     *)
(* edges of the lifecycle, one folder at a time. A process begins to work     *)
(* only on a folder in active/ that nobody works on, and on one only. A pull  *)
(* request is opened by who works on the task and settled by the owner of the *)
(* repository; done/ is for tasks whose request was merged, and nobody takes  *)
(* one out again; from failed/ a person may send a task back. By itself the   *)
(* system brings a parked task back at most Limit times.                      *)
EXTENDS Integers

CONSTANTS
  Tasks,
  Workers,     \* processes
  Nobody,      \* no process
  Limit        \* automatic returns of one task

VARIABLES
  place,       \* [Tasks -> buckets]
  worker,      \* [Tasks -> Workers \cup {Nobody}]
  request,     \* [Tasks -> {"none", "open", "merged", "closed"}]
  returns      \* [Tasks -> Nat]: how often the system brought it back

vars == <<place, worker, request, returns>>

Init ==
  /\ place = [t \in Tasks |-> "none"]
  /\ worker = [t \in Tasks |-> Nobody]
  /\ request = [t \in Tasks |-> "none"]
  /\ returns = [t \in Tasks |-> 0]

(* The edges of the lifecycle. There is none from done/.                      *)
Edges ==
  {<<"none", "inbox">>, <<"inbox", "failed">>, <<"inbox", "active">>,
   <<"active", "awaiting-input">>, <<"active", "failed">>, <<"active", "done">>,
   <<"awaiting-input", "inbox">>, <<"awaiting-input", "failed">>, <<"failed", "inbox">>}

Move(t, bucket) ==
  /\ <<place[t], bucket>> \in Edges
  /\ bucket = "done" => request[t] = "merged"
  /\ place' = [place EXCEPT ![t] = bucket]
  /\ UNCHANGED <<worker, request>>

(* A person, the dispatcher, the worker or the watcher moves a folder.        *)
Hand(t, bucket) == Move(t, bucket) /\ UNCHANGED returns

(* The system brings a parked task back by itself.                            *)
Return(t) ==
  /\ place[t] = "awaiting-input" /\ returns[t] < Limit
  /\ Move(t, "inbox")
  /\ returns' = [returns EXCEPT ![t] = @ + 1]

Work(t, w) ==
  /\ place[t] = "active"
  /\ worker[t] = Nobody
  /\ \A u \in Tasks : worker[u] # w
  /\ worker' = [worker EXCEPT ![t] = w]
  /\ UNCHANGED <<place, request, returns>>

(* Processes end or die, several at once.                                     *)
Leave(ws) ==
  /\ worker' = [t \in Tasks |-> IF worker[t] \in ws THEN Nobody ELSE worker[t]]
  /\ UNCHANGED <<place, request, returns>>

OpenRequest(t) ==
  /\ worker[t] # Nobody
  /\ request[t] = "none"
  /\ request' = [request EXCEPT ![t] = "open"]
  /\ UNCHANGED <<place, worker, returns>>

SettleRequest(t, verdict) ==
  /\ request[t] = "open"
  /\ request' = [request EXCEPT ![t] = verdict]
  /\ UNCHANGED <<place, worker, returns>>

Next ==
  \/ \E t \in Tasks :
       \/ \E edge \in Edges : Hand(t, edge[2])
       \/ Return(t)
       \/ \E w \in Workers : Work(t, w)
       \/ OpenRequest(t)
       \/ \E verdict \in {"merged", "closed"} : SettleRequest(t, verdict)
  \/ \E ws \in SUBSET Workers : Leave(ws)

Spec == Init /\ [][Next]_vars
=============================================================================
