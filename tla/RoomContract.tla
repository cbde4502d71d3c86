---------------------------- MODULE RoomContract ----------------------------
(* What /room promises its owner, without turns, prompts or a chat: at most   *)
(* Limit rooms are open at once and the others are told so; money is paid     *)
(* only by an open room that still holds some; a specialist is hired only for *)
(* a job the model can do and only if the room holds the model's price; every *)
(* open room closes.                                                          *)
EXTENDS Integers, FiniteSets

CONSTANTS
  Rooms,        \* requests
  Budget,       \* the cap of one room
  Limit,        \* rooms side by side
  Jobs,         \* what a specialist may be hired as: a model and a tool profile
  Costs,        \* what one child may be debited with
  Price,        \* [Jobs -> Nat]: the least a room must hold to hire for the job
  Nobody        \* no specialist hired

VARIABLES
  phase,        \* [Rooms -> {"asked", "open", "declined", "closed"}]
  paid,         \* [Rooms -> Nat]
  hired         \* [Rooms -> Jobs \cup {Nobody}]

vars == <<phase, paid, hired>>

Open == {r \in Rooms : phase[r] = "open"}

Init ==
  /\ phase = [r \in Rooms |-> "asked"]
  /\ paid = [r \in Rooms |-> 0]
  /\ hired = [r \in Rooms |-> Nobody]

Admit(r) ==
  /\ phase[r] = "asked"
  /\ Cardinality(Open) < Limit
  /\ phase' = [phase EXCEPT ![r] = "open"]
  /\ UNCHANGED <<paid, hired>>

Decline(r) ==
  /\ phase[r] = "asked"
  /\ Cardinality(Open) >= Limit
  /\ phase' = [phase EXCEPT ![r] = "declined"]
  /\ UNCHANGED <<paid, hired>>

Hire(r, j) ==
  /\ phase[r] = "open"
  /\ hired[r] = Nobody
  /\ paid[r] + Price[j] <= Budget
  /\ hired' = [hired EXCEPT ![r] = j]
  /\ UNCHANGED <<phase, paid>>

(* The bill of a conductor's turn (nobody hired) or of the specialist's job,  *)
(* which ends the job.                                                        *)
Pay(r, cost) ==
  /\ phase[r] = "open"
  /\ paid[r] < Budget
  /\ paid' = [paid EXCEPT ![r] = @ + cost]
  /\ hired' = [hired EXCEPT ![r] = Nobody]
  /\ UNCHANGED phase

Close(r) ==
  /\ phase[r] = "open"
  /\ hired[r] = Nobody
  /\ phase' = [phase EXCEPT ![r] = "closed"]
  /\ UNCHANGED <<paid, hired>>

Next ==
  \E r \in Rooms :
     \/ Admit(r)
     \/ Decline(r)
     \/ \E j \in Jobs : Hire(r, j)
     \/ \E cost \in Costs : Pay(r, cost)
     \/ Close(r)

Spec == Init /\ [][Next]_vars
=============================================================================
