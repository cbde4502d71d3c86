-------------------------- MODULE RoomDriver_proofs --------------------------
(***************************************************************************)
(* What TLAPS proves of RoomDriver for every budget, limit, catalogue and  *)
(* number of rooms: the invariants of a room, that it is the contract, how *)
(* many steps it can take and how far it can overrun its budget.           *)
(***************************************************************************)
EXTENDS RoomDriver, FiniteSetTheorems, TLAPS

----------------------------------------------------------------------------
(* The invariant. Everything but the slots is about one room at a time. *)

Message == [kind : Messages, files : SUBSET Nat, quote : BOOLEAN]

Receipt == [docs : SUBSET Nat, unread : SUBSET Nat, quote : BOOLEAN]

RoomState ==
  [at : Running \cup {"asked", "declined", "over"}, turn : Nat, spent : Nat,
   misparsed : Nat, job : Jobs \cup {Nobody}, files : Nat,
   result : BOOLEAN, msg : Message,
   heard : SUBSET (Terminal \cup {"crash"}), got : Receipt,
   owed : Nat, deaf : 0..2]

\* The room holds the price of the job it is about to hire for.
Affords(x) == x.job \in LegalJobs /\ x.spent + Price[x.job] <= Budget

\* Money is only spent by a room that holds some.
Poised(x) ==
  /\ x.at = "conductor" => x.spent < Budget
  /\ x.at = "telling" /\ x.msg.kind = "hired" => Affords(x)
  /\ x.at = "specialist" => Affords(x)

Covered(x) == x.spent >= x.owed

\* Nobody has heard anything yet.
Silent(x) == x.heard = {} /\ x.got = NoneYet /\ x.deaf = 0

Early == {"asked", "declined", "top", "conductor", "telling", "specialist"}

\* What goes out with the last message.
Carries(x) ==
  x.at = "telling" =>
    /\ x.msg.files = IF x.msg.kind \in {"budget", "turns", "finished"}
                     THEN CollectDeliverables(x.files) ELSE {}
    /\ x.msg.quote = (x.msg.kind \in {"budget", "turns"} /\ x.result)

\* One verdict, with the work that goes with it.
Concluded(x) ==
  /\ x.deaf = 0
  /\ \E k \in Terminal :
       /\ x.heard = {k}
       /\ k \in {"budget", "turns"} /\ x.result => x.got.quote
       /\ k \in {"budget", "turns", "finished"}
            => CollectDeliverables(x.files) \subseteq x.got.docs \cup x.got.unread

Interrupted(x) ==
  x.deaf = 1 /\ (x.heard = {} \/ \E k \in Terminal : x.heard = {k})

Reported(x) ==
  /\ x.deaf \in {1, 2}
  /\ x.heard = {} => x.deaf = 2
  /\ \E k \in Terminal : x.heard \subseteq {k, "crash"}

Answered(x) ==
  /\ x.at \in Early => Silent(x)
  /\ x.at = "closing" => Concluded(x)
  /\ x.at = "crashed" => Interrupted(x)
  /\ x.at = "over" => Concluded(x) \/ Reported(x)

Good(x) == x \in RoomState /\ Poised(x) /\ Covered(x) /\ Carries(x) /\ Answered(x)

RoomInv ==
  /\ active \subseteq Rooms
  /\ room \in [Rooms -> RoomState]
  /\ \A r \in Rooms : Good(room[r])
  /\ active = {r \in Rooms : room[r].at \in Running}
  /\ Cardinality(active) <= Limit

----------------------------------------------------------------------------
(* The edits of a room that its steps share. *)

\* What a child prints covers what the provider charges, or nothing is known of it.
LEMMA CostCovers ==
  ASSUME NEW backend \in {"anthropic", "deepseek"}, NEW bill \in Bills, NEW report \in Reports
  PROVE /\ ParseCost(backend, bill, report) \in Nat
        /\ report # "silent" => ParseCost(backend, bill, report) >= bill
<1>1. bill \in Nat /\ Markup \in Nat /\ Markup >= 1
  BY RoomAssumption
<1>2. Markup * bill \in Nat /\ Markup * bill >= bill
  BY <1>1
<1> QED BY <1>1, <1>2 DEF ParseCost, CliFigure, Reports

LEMMA DebitedOK ==
  ASSUME NEW x \in RoomState, Covered(x),
         NEW backend \in {"anthropic", "deepseek"}, NEW bill \in Bills, NEW report \in Reports
  PROVE LET y == Debited(x, backend, bill, report)
        IN  /\ y \in RoomState /\ Covered(y)
            /\ y.at = x.at /\ y.heard = x.heard /\ y.got = x.got /\ y.deaf = x.deaf
            /\ y.job = x.job /\ y.files = x.files /\ y.result = x.result
            /\ y.spent = x.spent + ParseCost(backend, bill, report)
<1> DEFINE cost == ParseCost(backend, bill, report)
           due == IF report = "silent" THEN 0 ELSE bill
<1>1. cost \in Nat /\ due \in Nat /\ cost >= due
  BY CostCovers, RoomAssumption
<1> HIDE DEF cost
<1>2. Debited(x, backend, bill, report) = [x EXCEPT !.spent = @ + cost, !.owed = @ + due]
  BY DEF Debited, cost
<1> DEFINE y == [x EXCEPT !.spent = @ + cost, !.owed = @ + due]
<1> HIDE DEF due
<1>3. x.spent \in Nat /\ x.owed \in Nat
  BY DEF RoomState
<1>4. /\ y.spent = x.spent + cost /\ y.owed = x.owed + due
      /\ y.at = x.at /\ y.heard = x.heard /\ y.got = x.got /\ y.deaf = x.deaf
      /\ y.job = x.job /\ y.files = x.files /\ y.result = x.result
  BY DEF RoomState
<1>5. x.spent + cost \in Nat /\ x.owed + due \in Nat
  BY <1>1, <1>3
<1>6. y \in RoomState
  BY <1>5 DEF RoomState
<1>7. Covered(y)
  BY <1>1, <1>3, <1>4 DEF Covered
<1> QED BY <1>2, <1>4, <1>6, <1>7 DEF cost

LEMMA SayIs ==
  ASSUME NEW x \in RoomState, NEW kind \in Messages
  PROVE LET y == Say(x, kind)
        IN  /\ y \in RoomState /\ y.turn = x.turn
            /\ y.at = "telling" /\ y.spent = x.spent /\ y.owed = x.owed
            /\ y.job = x.job /\ y.heard = x.heard /\ y.got = x.got /\ y.deaf = x.deaf
            /\ y.files = x.files /\ y.result = x.result /\ y.msg.kind = kind
            /\ y.msg.files = IF kind \in {"budget", "turns", "finished"}
                             THEN CollectDeliverables(x.files) ELSE {}
            /\ y.msg.quote = (kind \in {"budget", "turns"} /\ x.result)
<1> DEFINE y == Say(x, kind)
           files == IF kind \in {"budget", "turns", "finished"}
                    THEN CollectDeliverables(x.files) ELSE {}
           quote == kind \in {"budget", "turns"} /\ x.result
           msg == [kind |-> kind, files |-> files, quote |-> quote]
<1>1. y = [x EXCEPT !.at = "telling", !.msg = msg]
  BY DEF Say
<1>2. quote \in BOOLEAN /\ files \in SUBSET Nat
  BY DEF CollectDeliverables
<1> HIDE DEF files, quote
<1>3. msg \in Message /\ msg.kind = kind /\ msg.files = files /\ msg.quote = quote
  BY <1>2 DEF Message
<1> HIDE DEF msg
<1>4. "telling" \in Running
  BY DEF Running
<1>5. /\ y \in RoomState /\ y.turn = x.turn /\ y.at = "telling" /\ y.msg = msg
      /\ y.spent = x.spent /\ y.owed = x.owed /\ y.job = x.job /\ y.heard = x.heard
      /\ y.got = x.got /\ y.deaf = x.deaf /\ y.files = x.files /\ y.result = x.result
  BY <1>1, <1>3, <1>4 DEF RoomState
<1> QED BY <1>3, <1>5 DEF files, quote

LEMMA SayGood ==
  ASSUME NEW x \in RoomState, Covered(x), Silent(x), NEW kind \in Messages,
         kind = "hired" => Affords(x)
  PROVE Good(Say(x, kind)) /\ Say(x, kind).at = "telling" /\ Say(x, kind).spent = x.spent
<1> DEFINE y == Say(x, kind)
<1>1. /\ y \in RoomState /\ y.at = "telling" /\ y.spent = x.spent /\ y.owed = x.owed
      /\ y.job = x.job /\ y.heard = x.heard /\ y.got = x.got /\ y.deaf = x.deaf
      /\ y.files = x.files /\ y.result = x.result /\ y.msg.kind = kind
      /\ y.msg.files = IF kind \in {"budget", "turns", "finished"}
                       THEN CollectDeliverables(x.files) ELSE {}
      /\ y.msg.quote = (kind \in {"budget", "turns"} /\ x.result)
  BY SayIs
<1> HIDE DEF y
<1>2. Poised(y) /\ Covered(y) /\ Carries(y) /\ Answered(y)
  BY <1>1 DEF Poised, Affords, Covered, Carries, Answered, Silent, Early
<1> QED BY <1>1, <1>2 DEF Good, y

LEMMA NextTurnGood ==
  ASSUME NEW x \in RoomState, Covered(x), Silent(x)
  PROVE Good(NextTurn(x)) /\ NextTurn(x).at = "top" /\ NextTurn(x).spent = x.spent
<1> DEFINE y == NextTurn(x)
<1>1. Nothing \in Message
  BY DEF Nothing, Message, Messages
<1>4. "top" \in Running /\ x.turn + 1 \in Nat /\ Nobody \in Jobs \cup {Nobody}
  BY DEF RoomState, Running
<1>2. /\ y \in RoomState /\ y.at = "top" /\ y.spent = x.spent /\ y.owed = x.owed
      /\ y.heard = x.heard /\ y.got = x.got /\ y.deaf = x.deaf
  BY <1>1, <1>4 DEF NextTurn, RoomState
<1> HIDE DEF y
<1>3. Poised(y) /\ Covered(y) /\ Carries(y) /\ Answered(y)
  BY <1>2 DEF Poised, Covered, Carries, Answered, Silent, Early
<1> QED BY <1>2, <1>3 DEF Good, y

\* A step inside an open room, or of a request that is turned down.
LEMMA BecomesOK ==
  ASSUME RoomInv, NEW r \in Rooms, NEW x, Becomes(r, x), Good(x),
         x.at \in Running <=> room[r].at \in Running
  PROVE RoomInv'
<1>1. room' = [room EXCEPT ![r] = x] /\ active' = active
  BY DEF Becomes
<1>2. x \in RoomState
  BY DEF Good
<1>3. room' \in [Rooms -> RoomState] /\ \A q \in Rooms : room'[q] = IF q = r THEN x ELSE room[q]
  BY <1>1, <1>2 DEF RoomInv
<1>4. \A q \in Rooms : Good(room'[q])
  BY <1>3 DEF RoomInv
<1>5. active' = {q \in Rooms : room'[q].at \in Running}
  BY <1>1, <1>3 DEF RoomInv
<1>6. RoomInv' <=> /\ active' \subseteq Rooms
                   /\ room' \in [Rooms -> RoomState]
                   /\ \A q \in Rooms : Good(room'[q])
                   /\ active' = {q \in Rooms : room'[q].at \in Running}
                   /\ Cardinality(active') <= Limit
  BY DEF RoomInv, Good, Poised, Covered, Carries, Answered, Affords, Silent, Concluded,
         Interrupted, Reported, RoomState
<1> QED BY <1>1, <1>3, <1>4, <1>5, <1>6 DEF RoomInv

\* The end of a room.
LEMMA ClosesOK ==
  ASSUME RoomInv, NEW r \in Rooms, NEW x, Good(x), x.at = "over",
         room' = [room EXCEPT ![r] = x], active' = active \ {r}
  PROVE RoomInv'
<1>1. x \in RoomState
  BY DEF Good
<1>2. room' \in [Rooms -> RoomState] /\ \A q \in Rooms : room'[q] = IF q = r THEN x ELSE room[q]
  BY <1>1 DEF RoomInv
<1>3. \A q \in Rooms : Good(room'[q])
  BY <1>2 DEF RoomInv
<1>4. active' = {q \in Rooms : room'[q].at \in Running}
  BY <1>2 DEF RoomInv, Running
<1>5. Cardinality(active') <= Limit
  <2>1. IsFiniteSet(active) /\ active \subseteq Rooms
    BY RoomAssumption, FS_Subset DEF RoomInv
  <2>2. IsFiniteSet(active') /\ Cardinality(active') <= Cardinality(active)
    BY <2>1, FS_Subset
  <2>3. Cardinality(active') \in Nat /\ Cardinality(active) \in Nat /\ Limit \in Nat
    BY <2>1, <2>2, FS_CardinalityType, RoomAssumption
  <2> QED BY <2>2, <2>3 DEF RoomInv
<1> QED BY <1>2, <1>3, <1>4, <1>5 DEF RoomInv

----------------------------------------------------------------------------
(* The steps. *)

LEMMA InitGood == ASSUME Init PROVE RoomInv
<1>1. Fresh \in RoomState /\ Good(Fresh) /\ Fresh.at = "asked"
  <2>1. Nothing \in Message
    BY DEF Nothing, Message, Messages
  <2>2. NoneYet \in Receipt
    BY DEF NoneYet, Receipt
  <2>3. Fresh \in RoomState
    BY <2>1, <2>2 DEF Fresh, RoomState
  <2> QED BY <2>3 DEF Fresh, Good, Poised, Covered, Carries, Answered, Silent, Early
<1>2. room = [r \in Rooms |-> Fresh] /\ active = {}
  BY DEF Init
<1>3. {r \in Rooms : room[r].at \in Running} = {}
  BY <1>1, <1>2 DEF Running
<1>4. Cardinality(active) <= Limit
  BY <1>2, FS_EmptySet, RoomAssumption
<1> QED BY <1>1, <1>2, <1>3, <1>4 DEF RoomInv

LEMMA OpenedOK == ASSUME RoomInv, NEW r \in Rooms, RoomOpened(r) PROVE RoomInv'
<1> DEFINE x == [room[r] EXCEPT !.at = "top"]
<1>1. room[r] \in RoomState /\ Good(room[r]) /\ room[r].at = "asked"
  BY DEF RoomInv, RoomOpened
<1>2. /\ x \in RoomState /\ x.at = "top" /\ x.spent = room[r].spent /\ x.owed = room[r].owed
      /\ x.heard = room[r].heard /\ x.got = room[r].got /\ x.deaf = room[r].deaf
  BY <1>1 DEF RoomState, Running
<1> HIDE DEF x
<1>3. Good(x)
  BY <1>1, <1>2 DEF Good, Poised, Covered, Carries, Answered, Early, Silent
<1>4. room' = [room EXCEPT ![r] = x] /\ active' = active \cup {r}
  BY DEF RoomOpened, x
<1>5. room' \in [Rooms -> RoomState] /\ \A q \in Rooms : room'[q] = IF q = r THEN x ELSE room[q]
  BY <1>2, <1>4 DEF RoomInv
<1>6. \A q \in Rooms : Good(room'[q])
  BY <1>3, <1>5 DEF RoomInv
<1>7. active' = {q \in Rooms : room'[q].at \in Running}
  BY <1>2, <1>4, <1>5 DEF RoomInv, Running
<1>8. Cardinality(active') <= Limit
  <2>1. IsFiniteSet(active)
    BY RoomAssumption, FS_Subset DEF RoomInv
  <2>2. r \notin active
    BY <1>1 DEF RoomInv, Running
  <2>3. Cardinality(active') = Cardinality(active) + 1
    BY <1>4, <2>1, <2>2, FS_AddElement
  <2>4. Cardinality(active) \in Nat /\ Limit \in Nat /\ Cardinality(active) < Limit
    BY <2>1, FS_CardinalityType, RoomAssumption DEF RoomOpened
  <2> QED BY <2>3, <2>4
<1> QED BY <1>4, <1>5, <1>6, <1>7, <1>8 DEF RoomInv

LEMMA DeclinedOK == ASSUME RoomInv, NEW r \in Rooms, RoomDeclined(r) PROVE RoomInv'
<1> DEFINE x == [room[r] EXCEPT !.at = "declined"]
<1>1. room[r] \in RoomState /\ Good(room[r]) /\ room[r].at = "asked" /\ Becomes(r, x)
  BY DEF RoomInv, RoomDeclined
<1>2. /\ x \in RoomState /\ x.at = "declined" /\ x.spent = room[r].spent /\ x.owed = room[r].owed
      /\ x.heard = room[r].heard /\ x.got = room[r].got /\ x.deaf = room[r].deaf
  BY <1>1 DEF RoomState
<1> HIDE DEF x
<1>3. Good(x) /\ (x.at \in Running <=> room[r].at \in Running)
  BY <1>1, <1>2 DEF Good, Poised, Covered, Carries, Answered, Early, Silent, Running
<1> QED BY <1>1, <1>3, BecomesOK

\* The top of the loop: a verdict, or the conductor's turn.
LEMMA TopOK ==
  ASSUME RoomInv, NEW r \in Rooms,
         BudgetExhausted(r) \/ TurnsExhausted(r) \/ ConductorSpawned(r)
  PROVE RoomInv'
<1>1. /\ room[r] \in RoomState /\ Good(room[r]) /\ room[r].at = "top" /\ Silent(room[r])
      /\ Covered(room[r])
  BY DEF RoomInv, BudgetExhausted, TurnsExhausted, ConductorSpawned, Good, Answered, Early
<1>2. CASE BudgetExhausted(r) \/ TurnsExhausted(r)
  <2>1. PICK kind \in {"budget", "turns"} : Becomes(r, Say(room[r], kind))
    BY <1>2 DEF BudgetExhausted, TurnsExhausted
  <2>2. Good(Say(room[r], kind)) /\ Say(room[r], kind).at = "telling"
    BY <1>1, SayGood DEF Messages, Terminal
  <2>3. Say(room[r], kind).at \in Running /\ room[r].at \in Running
    BY <1>1, <2>2 DEF Running
  <2> QED BY <2>1, <2>2, <2>3, BecomesOK
<1>3. CASE ConductorSpawned(r)
  <2> DEFINE x == [room[r] EXCEPT !.at = "conductor"]
  <2>1. Becomes(r, x) /\ room[r].spent < Budget
    BY <1>3 DEF ConductorSpawned
  <2>2. /\ x \in RoomState /\ x.at = "conductor" /\ x.spent = room[r].spent
        /\ x.owed = room[r].owed
        /\ x.heard = room[r].heard /\ x.got = room[r].got /\ x.deaf = room[r].deaf
    BY <1>1 DEF RoomState, Running
  <2> HIDE DEF x
  <2>3. Good(x) /\ x.at \in Running /\ room[r].at \in Running
    BY <1>1, <2>1, <2>2 DEF Good, Poised, Covered, Carries, Answered, Early, Silent, Running
  <2> QED BY <2>1, <2>3, BecomesOK
<1> QED BY <1>2, <1>3

\* The debits of the conductor's turn and of the specialist's leave a silent room.
LEMMA PaidOK ==
  ASSUME RoomInv, NEW r \in Rooms, room[r].at \in {"conductor", "specialist"},
         NEW backend \in {"anthropic", "deepseek"}, NEW bill \in Bills, NEW report \in Reports
  PROVE LET y == Debited(room[r], backend, bill, report)
        IN  y \in RoomState /\ Covered(y) /\ Silent(y)
<1>1. room[r] \in RoomState /\ Covered(room[r]) /\ Silent(room[r])
  BY DEF RoomInv, Good, Answered, Early
<1> QED BY <1>1, DebitedOK DEF Silent

LEMMA UnusableOK ==
  ASSUME RoomInv, NEW r \in Rooms, NEW bill \in Bills, NEW report \in Reports,
         ReplyUnusable(r, bill, report)
  PROVE RoomInv'
<1> DEFINE x == Debited(room[r], "deepseek", bill, report)
           y == [x EXCEPT !.misparsed = @ + 1]
<1>1. x \in RoomState /\ Covered(x) /\ Silent(x) /\ room[r].at = "conductor"
  BY PaidOK DEF ReplyUnusable
<1>2. Becomes(r, Say(y, "unparseable")) \/ Becomes(r, NextTurn(y))
  BY DEF ReplyUnusable
<1> HIDE DEF x
<1>3. y \in RoomState /\ Covered(y) /\ Silent(y)
  BY <1>1 DEF RoomState, Covered, Silent
<1> HIDE DEF y
<1>4. /\ Good(Say(y, "unparseable")) /\ Say(y, "unparseable").at = "telling"
      /\ Good(NextTurn(y)) /\ NextTurn(y).at = "top"
  BY <1>3, SayGood, NextTurnGood DEF Messages, Terminal
<1>5. {"telling", "top", "conductor"} \subseteq Running
  BY DEF Running
<1> QED BY <1>1, <1>2, <1>4, <1>5, BecomesOK

LEMMA FinishOK ==
  ASSUME RoomInv, NEW r \in Rooms, NEW bill \in Bills, NEW report \in Reports,
         ReplyFinish(r, bill, report)
  PROVE RoomInv'
<1> DEFINE x == Debited(room[r], "deepseek", bill, report)
           y == [x EXCEPT !.misparsed = 0]
<1>1. x \in RoomState /\ Covered(x) /\ Silent(x) /\ room[r].at = "conductor"
  BY PaidOK DEF ReplyFinish
<1>2. Becomes(r, Say(y, "finished"))
  BY DEF ReplyFinish
<1> HIDE DEF x
<1>3. y \in RoomState /\ Covered(y) /\ Silent(y)
  BY <1>1 DEF RoomState, Covered, Silent
<1> HIDE DEF y
<1>4. Good(Say(y, "finished")) /\ Say(y, "finished").at = "telling"
  BY <1>3, SayGood DEF Messages, Terminal
<1>5. {"telling", "conductor"} \subseteq Running
  BY DEF Running
<1> QED BY <1>1, <1>2, <1>4, <1>5, BecomesOK

\* A floor is a natural number of cents, at least one.
LEMMA PriceOK ==
  ASSUME NEW job \in LegalJobs
  PROVE job \in Jobs /\ Price[job] \in Nat /\ Price[job] >= 1 /\ Backend[job.model] \in {"anthropic", "deepseek"}
<1>1. job \in Jobs /\ job.model \in Models
  BY DEF LegalJobs, Jobs
<1>2. Floor[job.model] \in Nat \ {0}
  BY <1>1, RoomAssumption
<1> QED BY <1>1, <1>2, RoomAssumption DEF Price

\* The reply that hires, and what it does to the purse: the cost of the turn is paid,
\* and the price of the job is still there.
LEMMA DelegateOK ==
  ASSUME RoomInv, NEW r \in Rooms, NEW bill \in Bills, NEW report \in Reports,
         NEW job \in Jobs, ReplyDelegate(r, bill, report, job)
  PROVE RoomInv'
<1> DEFINE z == [room[r] EXCEPT !.misparsed = 0]
           x == Debited(z, "deepseek", bill, report)
           y == [x EXCEPT !.job = job]
<1>1. room[r] \in RoomState /\ Covered(room[r]) /\ Silent(room[r]) /\ room[r].at = "conductor"
  BY DEF RoomInv, Good, Answered, Early, ReplyDelegate
<1>2. z \in RoomState /\ Covered(z) /\ Silent(z)
  BY <1>1 DEF RoomState, Covered, Silent
<1>3. /\ job \in LegalJobs
      /\ \/ Budget - x.spent < Price[job] /\ Becomes(r, Say(x, "rejected"))
         \/ ~(Budget - x.spent < Price[job]) /\ Becomes(r, Say(y, "hired"))
  BY DEF ReplyDelegate
<1> HIDE DEF z
<1>4. x \in RoomState /\ Covered(x) /\ Silent(x)
  BY <1>2, DebitedOK DEF Silent
<1> HIDE DEF x
<1>5. y \in RoomState /\ Covered(y) /\ Silent(y) /\ y.job = job /\ y.spent = x.spent
  BY <1>4 DEF RoomState, Covered, Silent
<1> HIDE DEF y
<1>6. {"telling", "conductor"} \subseteq Running
  BY DEF Running
<1>7. CASE Becomes(r, Say(x, "rejected"))
  <2>1. Good(Say(x, "rejected")) /\ Say(x, "rejected").at = "telling"
    BY <1>4, SayGood DEF Messages
  <2> QED BY <1>1, <1>6, <1>7, <2>1, BecomesOK
<1>8. CASE ~(Budget - x.spent < Price[job]) /\ Becomes(r, Say(y, "hired"))
  <2>1. x.spent \in Nat /\ Budget \in Nat /\ Price[job] \in Nat
    BY <1>3, <1>4, PriceOK, RoomAssumption DEF RoomState
  <2>2. Affords(y)
    BY <1>3, <1>5, <1>8, <2>1 DEF Affords
  <2>3. Good(Say(y, "hired")) /\ Say(y, "hired").at = "telling"
    BY <1>5, <2>2, SayGood DEF Messages
  <2> QED BY <1>1, <1>6, <1>8, <2>3, BecomesOK
<1> QED BY <1>3, <1>7, <1>8

LEMMA ReturnedOK ==
  ASSUME RoomInv, NEW r \in Rooms, NEW ok \in BOOLEAN, NEW bill \in Bills,
         NEW report \in Reports, NEW files \in FilesLeft,
         SpecialistReturned(r, ok, bill, report, files)
  PROVE RoomInv'
<1> DEFINE backend == Backend[room[r].job.model]
           x == Debited(room[r], backend, bill, report)
           y == [x EXCEPT !.files = files, !.result = @ \/ ok, !.job = Nobody]
<1>1. room[r].at = "specialist" /\ room[r].job \in LegalJobs
  BY DEF RoomInv, Good, Poised, Affords, SpecialistReturned
<1>2. backend \in {"anthropic", "deepseek"}
  BY <1>1, PriceOK
<1>3. Becomes(r, NextTurn(y)) \/ Becomes(r, Say(y, "fell"))
  BY DEF SpecialistReturned
<1> HIDE DEF backend
<1>4. x \in RoomState /\ Covered(x) /\ Silent(x)
  BY <1>1, <1>2, PaidOK
<1> HIDE DEF x
<1>5. y \in RoomState /\ Covered(y) /\ Silent(y)
  <2>1. files \in Nat /\ (x.result \/ ok) \in BOOLEAN
    BY RoomAssumption
  <2> QED BY ZenonT(20), <1>4, <2>1 DEF RoomState, Covered, Silent
<1> HIDE DEF y
<1>6. /\ Good(Say(y, "fell")) /\ Say(y, "fell").at = "telling"
      /\ Good(NextTurn(y)) /\ NextTurn(y).at = "top"
  BY <1>5, SayGood, NextTurnGood DEF Messages
<1>7. {"telling", "top", "specialist"} \subseteq Running
  BY DEF Running
<1> QED BY <1>1, <1>3, <1>6, <1>7, BecomesOK

LEMMA DeliveredOK ==
  ASSUME RoomInv, NEW r \in Rooms, NEW unread, MessageDelivered(r, unread)
  PROVE RoomInv'
<1> DEFINE x == room[r]
           k == x.msg.kind
<1>1. /\ x \in RoomState /\ Good(x) /\ x.at = "telling" /\ Silent(x) /\ Covered(x) /\ Carries(x)
  BY DEF RoomInv, MessageDelivered, Good, Answered, Early
<1>2. k \in Messages /\ Messages = Terminal \cup {"hired", "rejected", "fell"}
  BY <1>1 DEF RoomState, Message, Messages
<1>3. Nothing \in Message
  BY DEF Nothing, Message, Messages
<1>4. {"telling", "specialist", "top", "closing"} \subseteq Running
  BY DEF Running
<1>5. CASE k = "hired"
  <2> DEFINE y == [x EXCEPT !.at = "specialist", !.msg = Nothing]
  <2>1. Becomes(r, y)
    BY <1>5 DEF MessageDelivered
  <2>2. /\ y \in RoomState /\ y.at = "specialist" /\ y.spent = x.spent /\ y.owed = x.owed
        /\ y.heard = x.heard /\ y.got = x.got /\ y.deaf = x.deaf /\ y.job = x.job
    BY <1>1, <1>3, <1>4 DEF RoomState
  <2>3. Affords(x)
    BY <1>1, <1>5 DEF Good, Poised
  <2> HIDE DEF y
  <2>4. Good(y)
    BY <1>1, <2>2, <2>3 DEF Good, Poised, Affords, Covered, Carries, Answered, Early, Silent
  <2> QED BY <1>1, <1>4, <2>1, <2>2, <2>4, BecomesOK
<1>6. CASE k \in {"rejected", "fell"}
  <2>1. Becomes(r, NextTurn(x))
    BY <1>6 DEF MessageDelivered
  <2>2. Good(NextTurn(x)) /\ NextTurn(x).at = "top"
    BY <1>1, NextTurnGood
  <2> QED BY <1>1, <1>4, <2>1, <2>2, BecomesOK
<1>7. CASE k \in Terminal
  <2> DEFINE sent == [docs |-> x.msg.files \ unread, unread |-> unread, quote |-> x.msg.quote]
             y == [x EXCEPT !.at = "closing", !.msg = Nothing, !.heard = @ \cup {k}, !.got = sent]
  <2>1. k \notin {"hired", "rejected", "fell"}
    BY <1>7 DEF Terminal
  <2>2. Becomes(r, y)
    BY <2>1 DEF MessageDelivered
  <2>3. /\ sent \in Receipt /\ sent.quote = x.msg.quote
        /\ sent.docs \cup sent.unread = x.msg.files
    <3>1. x.msg \in Message /\ unread \subseteq x.msg.files
      BY <1>1 DEF RoomState, MessageDelivered
    <3> QED BY <3>1 DEF Message, Receipt
  <2> HIDE DEF sent
  <2>4. x.heard \cup {k} \in SUBSET (Terminal \cup {"crash"}) /\ x.heard \cup {k} = {k}
    BY <1>1, <1>7 DEF Silent
  <2>5. /\ y \in RoomState /\ y.at = "closing" /\ y.spent = x.spent /\ y.owed = x.owed
        /\ y.heard = {k} /\ y.got = sent /\ y.deaf = x.deaf /\ y.files = x.files
        /\ y.result = x.result
    BY <1>1, <1>3, <1>4, <2>3, <2>4 DEF RoomState
  <2> HIDE DEF y
  <2>6. Concluded(y)
    BY <1>1, <1>7, <2>3, <2>5 DEF Concluded, Silent, Carries
  <2>7. Good(y)
    BY <1>1, <2>5, <2>6 DEF Good, Poised, Covered, Carries, Answered, Early
  <2> QED BY <1>1, <1>4, <2>2, <2>5, <2>7, BecomesOK
<1> QED BY <1>2, <1>5, <1>6, <1>7

LEMMA RefusedOK == ASSUME RoomInv, NEW r \in Rooms, MessageRefused(r) PROVE RoomInv'
<1> DEFINE x == [room[r] EXCEPT !.at = "crashed", !.job = Nobody, !.msg = Nothing, !.deaf = 1]
<1>1. room[r] \in RoomState /\ Good(room[r]) /\ room[r].at = "telling" /\ Becomes(r, x)
  BY DEF RoomInv, MessageRefused
<1>2. Nothing \in Message
      /\ {"crashed", "telling"} \subseteq Running /\ 1 \in 0..2 /\ Nobody \in Jobs \cup {Nobody}
  BY DEF Nothing, Message, Messages, Running
<1>3. /\ x \in RoomState /\ x.at = "crashed" /\ x.spent = room[r].spent
      /\ x.owed = room[r].owed /\ x.heard = room[r].heard /\ x.deaf = 1
  BY <1>1, <1>2 DEF RoomState
<1> HIDE DEF x
<1>4. Interrupted(x)
  BY <1>1, <1>3 DEF Good, Answered, Early, Silent, Interrupted
<1>5. Good(x)
  BY <1>1, <1>3, <1>4 DEF Good, Poised, Covered, Carries, Answered, Early
<1> QED BY <1>1, <1>2, <1>3, <1>5, BecomesOK

LEMMA DocumentOK ==
  ASSUME RoomInv, NEW r \in Rooms, NEW n, NEW unread, DocumentRefused(r, n, unread)
  PROVE RoomInv'
<1> DEFINE x == room[r]
           k == x.msg.kind
           before == {d \in x.msg.files : d < n}
           sent == [docs |-> before \ unread, unread |-> unread, quote |-> x.msg.quote]
           y == [x EXCEPT !.at = "crashed", !.heard = @ \cup {k}, !.msg = Nothing, !.deaf = 1,
                          !.got = sent]
<1>1. /\ x \in RoomState /\ Good(x) /\ x.at = "telling" /\ n \in x.msg.files /\ Carries(x)
      /\ x.heard = {} /\ Becomes(r, y)
  BY DEF RoomInv, DocumentRefused, Good, Answered, Early, Silent
<1>2. k \in Terminal
  BY <1>1 DEF Carries, Terminal
<1>3. Nothing \in Message
      /\ {"crashed", "telling"} \subseteq Running /\ 1 \in 0..2 /\ Nobody \in Jobs \cup {Nobody}
  BY DEF Nothing, Message, Messages, Running
<1>4. x.heard \cup {k} \in SUBSET (Terminal \cup {"crash"}) /\ x.heard \cup {k} = {k}
      /\ sent \in Receipt
  <2>1. x.msg \in Message /\ unread \subseteq before
    BY <1>1 DEF RoomState, DocumentRefused
  <2> QED BY <1>1, <1>2, <2>1 DEF Message, Receipt
<1> HIDE DEF sent
<1>5. /\ y \in RoomState /\ y.at = "crashed" /\ y.spent = x.spent
      /\ y.owed = x.owed /\ y.heard = {k} /\ y.deaf = 1
  BY <1>1, <1>3, <1>4 DEF RoomState
<1> HIDE DEF y
<1>6. Interrupted(y)
  BY <1>2, <1>5 DEF Interrupted
<1>7. Good(y)
  BY <1>1, <1>5, <1>6 DEF Good, Poised, Covered, Carries, Answered, Early
<1> QED BY <1>1, <1>3, <1>5, <1>7, BecomesOK

LEMMA CrashOK ==
  ASSUME RoomInv, NEW r \in Rooms, NEW delivered \in BOOLEAN, CrashReported(r, delivered)
  PROVE RoomInv'
<1> DEFINE x == room[r]
           said == IF delivered THEN {"crash"} ELSE {}
           lost == IF delivered THEN 0 ELSE 1
           y == [room[r] EXCEPT !.at = "over",
                                !.heard = @ \cup (IF delivered THEN {"crash"} ELSE {}),
                                !.deaf = @ + (IF delivered THEN 0 ELSE 1)]
<1>1. x \in RoomState /\ Good(x) /\ x.at = "crashed" /\ Interrupted(x)
  BY DEF RoomInv, CrashReported, Good, Answered
<1>2. room' = [room EXCEPT ![r] = y] /\ active' = active \ {r}
  BY DEF CrashReported
<1>3. x.deaf + lost \in {1, 2} /\ x.deaf + lost \in 0..2 /\ x.heard \cup said \in SUBSET (Terminal \cup {"crash"})
  BY <1>1 DEF Interrupted, RoomState
<1>4. (x.heard \cup said = {} => x.deaf + lost = 2)
      /\ \E k \in Terminal : x.heard \cup said \subseteq {k, "crash"}
  BY <1>1 DEF Interrupted, Terminal
<1>8. y = [x EXCEPT !.at = "over", !.heard = @ \cup said, !.deaf = @ + lost]
  OBVIOUS
<1> HIDE DEF said, lost, y
<1>5. /\ y \in RoomState /\ y.at = "over" /\ y.spent = x.spent /\ y.owed = x.owed
      /\ y.heard = x.heard \cup said /\ y.deaf = x.deaf + lost
  BY <1>1, <1>3, <1>8 DEF RoomState
<1>6. Reported(y)
  BY <1>3, <1>4, <1>5 DEF Reported
<1>7. Good(y)
  BY <1>1, <1>5, <1>6 DEF Good, Poised, Covered, Carries, Answered, Early
<1> QED BY <1>2, <1>5, <1>7, ClosesOK

LEMMA ReleasedOK == ASSUME RoomInv, NEW r \in Rooms, RoomReleased(r) PROVE RoomInv'
<1> DEFINE x == [room[r] EXCEPT !.at = "over"]
<1>1. /\ room[r] \in RoomState /\ Good(room[r]) /\ room[r].at = "closing" /\ Concluded(room[r])
      /\ room' = [room EXCEPT ![r] = x] /\ active' = active \ {r}
  BY DEF RoomInv, RoomReleased, Good, Answered
<1>2. /\ x \in RoomState /\ x.at = "over" /\ x.spent = room[r].spent
      /\ x.owed = room[r].owed /\ x.heard = room[r].heard /\ x.deaf = room[r].deaf
      /\ x.got = room[r].got /\ x.files = room[r].files /\ x.result = room[r].result
  BY <1>1 DEF RoomState
<1> HIDE DEF x
<1>3. Good(x)
  BY <1>1, <1>2 DEF Good, Poised, Covered, Carries, Answered, Early, Concluded
<1> QED BY <1>1, <1>2, <1>3, ClosesOK

----------------------------------------------------------------------------
(* The theorems. *)

LEMMA NextGood == ASSUME RoomInv, [Next]_vars PROVE RoomInv'
<1>1. CASE UNCHANGED vars
  BY <1>1 DEF vars, RoomInv, Good, Poised, Covered, Carries, Answered, Affords, Silent,
              Concluded, Interrupted, Reported, RoomState
<1>2. ASSUME NEW r \in Rooms, RoomOpened(r) \/ RoomDeclined(r) \/ Step(r)
      PROVE RoomInv'
  <2>1. CASE ConductorReplied(r)
    BY <2>1, UnusableOK, FinishOK, DelegateOK DEF ConductorReplied
  <2>2. CASE SpecialistBack(r)
    BY <2>2, ReturnedOK DEF SpecialistBack
  <2>3. CASE \E delivered \in BOOLEAN : CrashReported(r, delivered)
    BY <2>3, CrashOK
  <2>4. CASE Told(r)
    BY <2>4, DeliveredOK, DocumentOK DEF Told
  <2> QED BY <1>2, <2>1, <2>2, <2>3, <2>4, OpenedOK, DeclinedOK, TopOK, RefusedOK,
             ReleasedOK DEF Step
<1> QED BY <1>1, <1>2 DEF Next

LEMMA Invariant == Spec => []RoomInv
<1>1. Init => RoomInv
  BY InitGood
<1>2. RoomInv /\ [Next]_vars => RoomInv'
  BY NextGood
<1> QED BY <1>1, <1>2, PTL DEF Spec

\* Types of the two variables, for every budget, limit and catalogue.
THEOREM RoomTypeCorrect == Spec => []TypeOK
<1>1. RoomInv => TypeOK
  BY DEF RoomInv, TypeOK, RoomState, Message, Receipt
<1> QED BY <1>1, Invariant, PTL

\* RoomRegistry: a slot is held exactly by a room that runs, however the room ends, and
\* no more of them than the limit.
THEOREM SlotsHold == Spec => []SlotsAccounted
<1>1. RoomInv => SlotsAccounted
  BY DEF RoomInv, SlotsAccounted
<1> QED BY <1>1, Invariant, PTL

\* parse_cost: what a room has been debited with covers what the provider charged for
\* the children that printed a figure.
THEOREM BillsAreCovered == Spec => []BillsCovered
<1>1. RoomInv => BillsCovered
  BY DEF RoomInv, Good, Covered, BillsCovered
<1> QED BY <1>1, Invariant, PTL

\* run_room: a room that is over has given one verdict, or said that it crashed, or was
\* refused twice by Telegram.
THEOREM SilenceNever == Spec => []AnsweredOrDeaf
<1>1. ASSUME RoomInv, NEW r \in Rooms, room[r].at = "over"
      PROVE /\ Cardinality(room[r].heard \cap Terminal) <= 1
            /\ room[r].heard = {} => room[r].deaf = 2
            /\ room[r].deaf = 0 => room[r].heard \in {{kind} : kind \in Terminal}
  <2>1. Concluded(room[r]) \/ Reported(room[r])
    BY <1>1 DEF RoomInv, Good, Answered
  <2>2. PICK k \in Terminal : room[r].heard \subseteq {k, "crash"}
    BY <2>1 DEF Concluded, Reported
  <2>3. room[r].heard \cap Terminal \subseteq {k}
    BY <2>2 DEF Terminal
  <2>4. Cardinality(room[r].heard \cap Terminal) <= 1
    <3>1. IsFiniteSet({k}) /\ Cardinality({k}) = 1
      BY FS_Singleton
    <3>2. Cardinality(room[r].heard \cap Terminal) <= Cardinality({k})
      BY <2>3, <3>1, FS_Subset
    <3> QED BY <3>1, <3>2
  <2> QED BY <2>1, <2>4 DEF Concluded, Reported
<1>2. RoomInv => AnsweredOrDeaf
  BY <1>1 DEF AnsweredOrDeaf
<1> QED BY <1>2, Invariant, PTL

\* partial_delivery: the last words that were paid for, and of the files the newest ones,
\* each but for one the bot cannot open, go out with the verdict of a room that money or
\* turns cut short.
THEOREM PaidWorkArrives == Spec => []PaidWorkDelivered
<1>1. ASSUME RoomInv, NEW r \in Rooms, room[r].at = "over", room[r].deaf = 0
      PROVE Concluded(room[r])
  BY <1>1 DEF RoomInv, Good, Answered, Reported
<1>2. ASSUME RoomInv, NEW r \in Rooms, room[r].at = "over", room[r].deaf = 0,
             room[r].heard \cap {"budget", "turns", "finished"} # {}
      PROVE \A n \in 1..room[r].files :
              n <= FilesSent => n \in room[r].got.docs \cup room[r].got.unread
  <2>1. CollectDeliverables(room[r].files) \subseteq room[r].got.docs \cup room[r].got.unread
    BY <1>1, <1>2 DEF Concluded
  <2> QED BY <2>1 DEF CollectDeliverables
<1>3. RoomInv => PaidWorkDelivered
  BY <1>1, <1>2 DEF PaidWorkDelivered, Concluded
<1> QED BY <1>3, Invariant, PTL

----------------------------------------------------------------------------
(* The refinement. A step of a room is one of the contract, or none. *)

HiredOf(x) == IF x.at = "specialist" THEN x.job ELSE Nobody

LEMMA PhaseOpen ==
  ASSUME NEW x \in RoomState
  PROVE PhaseOf(x) = "open" <=> x.at \in Running
  BY DEF PhaseOf, RoomState, Running

\* What the contract sees of a step on one room.
LEMMA View ==
  ASSUME RoomInv, NEW r \in Rooms, NEW x, room' = [room EXCEPT ![r] = x]
  PROVE /\ phase' = [phase EXCEPT ![r] = PhaseOf(x)]
        /\ paid' = [paid EXCEPT ![r] = x.spent]
        /\ hired' = [hired EXCEPT ![r] = HiredOf(x)]
        /\ phase[r] = PhaseOf(room[r]) /\ paid[r] = room[r].spent /\ hired[r] = HiredOf(room[r])
        /\ phase = [q \in Rooms |-> phase[q]] /\ paid = [q \in Rooms |-> paid[q]]
        /\ hired = [q \in Rooms |-> hired[q]]
<1>1. \A q \in Rooms : room'[q] = IF q = r THEN x ELSE room[q]
  BY DEF RoomInv
<1>2. phase' = [q \in Rooms |-> PhaseOf(room'[q])] /\ phase = [q \in Rooms |-> PhaseOf(room[q])]
  BY DEF phase, PhaseOf
<1>3. paid' = [q \in Rooms |-> room'[q].spent] /\ paid = [q \in Rooms |-> room[q].spent]
  BY DEF paid
<1>4. hired' = [q \in Rooms |-> HiredOf(room'[q])] /\ hired = [q \in Rooms |-> HiredOf(room[q])]
  BY DEF hired, HiredOf
<1>5. x.spent = room'[r].spent /\ PhaseOf(x) = PhaseOf(room'[r]) /\ HiredOf(x) = HiredOf(room'[r])
  BY <1>1
<1>6. phase' = [phase EXCEPT ![r] = PhaseOf(x)] /\ phase[r] = PhaseOf(room[r])
  BY <1>1, <1>2
<1>7. paid' = [paid EXCEPT ![r] = x.spent] /\ paid[r] = room[r].spent
  BY <1>1, <1>3
<1>8. hired' = [hired EXCEPT ![r] = HiredOf(x)] /\ hired[r] = HiredOf(room[r])
  BY <1>1, <1>4
<1>9. /\ phase = [q \in Rooms |-> phase[q]] /\ paid = [q \in Rooms |-> paid[q]]
      /\ hired = [q \in Rooms |-> hired[q]]
  BY <1>2, <1>3, <1>4
<1> QED BY <1>6, <1>7, <1>8, <1>9

LEMMA Inside ==
  ASSUME RoomInv, NEW r \in Rooms, NEW x, room' = [room EXCEPT ![r] = x],
         PhaseOf(x) = PhaseOf(room[r]), x.spent = room[r].spent, HiredOf(x) = HiredOf(room[r])
  PROVE UNCHANGED Contract!vars
<1>0. /\ phase' = [phase EXCEPT ![r] = PhaseOf(x)] /\ phase[r] = PhaseOf(room[r])
      /\ paid' = [paid EXCEPT ![r] = x.spent] /\ paid[r] = room[r].spent
      /\ hired' = [hired EXCEPT ![r] = HiredOf(x)] /\ hired[r] = HiredOf(room[r])
      /\ phase = [q \in Rooms |-> phase[q]] /\ paid = [q \in Rooms |-> paid[q]]
      /\ hired = [q \in Rooms |-> hired[q]]
  BY View
<1>1. phase' = phase
  BY <1>0
<1>2. paid' = paid
  BY <1>0
<1>3. hired' = hired
  BY <1>0
<1> QED BY <1>1, <1>2, <1>3 DEF Contract!vars

LEMMA Pays ==
  ASSUME RoomInv, NEW r \in Rooms, NEW x \in RoomState, NEW cost \in Debits, Becomes(r, x),
         room[r].at \in {"conductor", "specialist"}, x.at \in {"telling", "top"},
         x.spent = room[r].spent + cost
  PROVE Contract!Pay(r, cost)
<1>1. room' = [room EXCEPT ![r] = x] /\ Poised(room[r]) /\ room[r] \in RoomState
  BY DEF Becomes, RoomInv, Good
<1>2. PhaseOf(x) = "open" /\ PhaseOf(room[r]) = "open" /\ HiredOf(x) = Nobody
  BY <1>1, PhaseOpen DEF Running, HiredOf
<1>3. room[r].spent < Budget
  <2>1. room[r].spent \in Nat /\ Budget \in Nat
    BY <1>1, RoomAssumption DEF RoomState
  <2>2. CASE room[r].at = "specialist"
    <3>1. room[r].job \in LegalJobs /\ room[r].spent + Price[room[r].job] <= Budget
      BY <1>1, <2>2 DEF Poised, Affords
    <3>2. Price[room[r].job] \in Nat /\ Price[room[r].job] >= 1
      BY <3>1, PriceOK
    <3> QED BY <2>1, <3>1, <3>2
  <2> QED BY <1>1, <2>2 DEF Poised
<1>0. /\ phase' = [phase EXCEPT ![r] = PhaseOf(x)] /\ phase[r] = PhaseOf(room[r])
      /\ paid' = [paid EXCEPT ![r] = x.spent] /\ paid[r] = room[r].spent
      /\ hired' = [hired EXCEPT ![r] = HiredOf(x)] /\ hired[r] = HiredOf(room[r])
      /\ phase = [q \in Rooms |-> phase[q]] /\ paid = [q \in Rooms |-> paid[q]]
      /\ hired = [q \in Rooms |-> hired[q]]
  BY View, <1>1
<1>4. phase' = phase
  BY <1>0, <1>2
<1>5. /\ phase[r] = "open" /\ paid[r] < Budget
      /\ paid' = [paid EXCEPT ![r] = paid[r] + cost]
      /\ hired' = [hired EXCEPT ![r] = Nobody]
  BY <1>0, <1>2, <1>3
<1> QED BY <1>4, <1>5 DEF Contract!Pay

\* The three replies of the conductor and the return of the specialist are payments.
LEMMA ConductorPays ==
  ASSUME RoomInv, NEW r \in Rooms, ConductorReplied(r)
  PROVE \E cost \in Debits : Contract!Pay(r, cost)
<1>1. PICK bill \in Bills, report \in Reports :
        \/ ReplyUnusable(r, bill, report)
        \/ ReplyFinish(r, bill, report)
        \/ \E job \in Jobs : ReplyDelegate(r, bill, report, job)
  BY DEF ConductorReplied
<1> DEFINE cost == ParseCost("deepseek", bill, report)
<1>2. cost \in Debits
  BY DEF Debits
<1>3. /\ room[r] \in RoomState /\ room[r].at = "conductor" /\ Covered(room[r])
      /\ Silent(room[r])
  BY <1>1 DEF RoomInv, ReplyUnusable, ReplyFinish, ReplyDelegate, Good, Answered, Early
<1>4. SUFFICES ASSUME NEW x \in RoomState, Becomes(r, x), x.at \in {"telling", "top"},
                      x.spent = room[r].spent + cost
               PROVE Contract!Pay(r, cost)
  <2>1. ASSUME NEW z \in RoomState, Covered(z), Silent(z), z.spent = room[r].spent
        PROVE LET d == Debited(z, "deepseek", bill, report)
              IN  d \in RoomState /\ Covered(d) /\ Silent(d) /\ d.spent = room[r].spent + cost
    BY <2>1, DebitedOK DEF Silent
  <2>2. \E x \in RoomState : /\ Becomes(r, x) /\ x.at \in {"telling", "top"}
                             /\ x.spent = room[r].spent + cost
    <3> DEFINE d == Debited(room[r], "deepseek", bill, report)
    <3>1. d \in RoomState /\ Covered(d) /\ Silent(d) /\ d.spent = room[r].spent + cost
      BY <1>3, <2>1
    <3>2. CASE ReplyUnusable(r, bill, report)
      <4> DEFINE y == [d EXCEPT !.misparsed = @ + 1]
      <4>1. Becomes(r, Say(y, "unparseable")) \/ Becomes(r, NextTurn(y))
        BY <3>2 DEF ReplyUnusable
      <4> HIDE DEF d, cost
      <4>2. y \in RoomState /\ Covered(y) /\ Silent(y) /\ y.spent = room[r].spent + cost
        BY <3>1 DEF RoomState, Covered, Silent
      <4> HIDE DEF y
      <4>3. /\ Say(y, "unparseable").at = "telling" /\ Say(y, "unparseable").spent = y.spent
            /\ Say(y, "unparseable") \in RoomState
            /\ NextTurn(y).at = "top" /\ NextTurn(y).spent = y.spent /\ NextTurn(y) \in RoomState
        BY <4>2, SayGood, NextTurnGood DEF Messages, Terminal, Good
      <4> QED BY <4>1, <4>2, <4>3
    <3>3. CASE ReplyFinish(r, bill, report)
      <4> DEFINE y == [d EXCEPT !.misparsed = 0]
      <4>1. Becomes(r, Say(y, "finished"))
        BY <3>3 DEF ReplyFinish
      <4> HIDE DEF d, cost
      <4>2. y \in RoomState /\ Covered(y) /\ Silent(y) /\ y.spent = room[r].spent + cost
        BY <3>1 DEF RoomState, Covered, Silent
      <4> HIDE DEF y
      <4>3. /\ Say(y, "finished").at = "telling" /\ Say(y, "finished").spent = y.spent
            /\ Say(y, "finished") \in RoomState
        BY <4>2, SayGood DEF Messages, Terminal, Good
      <4> QED BY <4>1, <4>2, <4>3
    <3>4. ASSUME NEW job \in Jobs, ReplyDelegate(r, bill, report, job)
          PROVE \E x \in RoomState : /\ Becomes(r, x) /\ x.at \in {"telling", "top"}
                                     /\ x.spent = room[r].spent + cost
      <4> DEFINE z == [room[r] EXCEPT !.misparsed = 0]
                 x == Debited(z, "deepseek", bill, report)
                 y == [x EXCEPT !.job = job]
      <4>1. /\ job \in LegalJobs
            /\ \/ Becomes(r, Say(x, "rejected"))
               \/ Budget - x.spent >= Price[job] /\ Becomes(r, Say(y, "hired"))
        <5>1. /\ job \in LegalJobs
              /\ \/ Budget - x.spent < Price[job] /\ Becomes(r, Say(x, "rejected"))
                 \/ ~(Budget - x.spent < Price[job]) /\ Becomes(r, Say(y, "hired"))
          BY <3>4 DEF ReplyDelegate
        <5>2. z \in RoomState /\ Covered(z) /\ Silent(z) /\ z.spent = room[r].spent
          BY <1>3 DEF RoomState, Covered, Silent
        <5> HIDE DEF z
        <5>3. x \in RoomState
          BY <5>2, <2>1
        <5> HIDE DEF x, y
        <5>4. x.spent \in Nat /\ Budget \in Nat /\ Price[job] \in Nat
          BY <5>1, <5>3, PriceOK, RoomAssumption DEF RoomState
        <5> QED BY <5>1, <5>4
      <4>2. z \in RoomState /\ Covered(z) /\ Silent(z) /\ z.spent = room[r].spent
        BY <1>3 DEF RoomState, Covered, Silent
      <4> HIDE DEF z
      <4>3. x \in RoomState /\ Covered(x) /\ Silent(x) /\ x.spent = room[r].spent + cost
        BY <4>2, <2>1
      <4> HIDE DEF x, cost
      <4>4. /\ y \in RoomState /\ Covered(y) /\ Silent(y) /\ y.spent = x.spent /\ y.job = job
        BY <4>3 DEF RoomState, Covered, Silent
      <4> HIDE DEF y
      <4>5. /\ Say(x, "rejected").at = "telling" /\ Say(x, "rejected").spent = x.spent
            /\ Say(x, "rejected") \in RoomState
        BY <4>3, SayGood DEF Messages, Good
      <4>6. CASE Budget - x.spent >= Price[job] /\ Becomes(r, Say(y, "hired"))
        <5>1. x.spent \in Nat /\ Budget \in Nat /\ Price[job] \in Nat
          BY <4>1, <4>3, PriceOK, RoomAssumption DEF RoomState
        <5>2. Affords(y)
          BY <4>1, <4>4, <4>6, <5>1 DEF Affords
        <5>3. /\ Say(y, "hired").at = "telling" /\ Say(y, "hired").spent = y.spent
              /\ Say(y, "hired") \in RoomState
          BY <4>4, <5>2, SayGood DEF Messages, Good
        <5> QED BY <4>3, <4>4, <4>6, <5>3
      <4> QED BY <4>1, <4>3, <4>5, <4>6
    <3> QED BY <1>1, <3>2, <3>3, <3>4
  <2> HIDE DEF cost
  <2> QED BY <1>2, <2>2
<1> HIDE DEF cost
<1> QED BY <1>2, <1>3, <1>4, Pays

LEMMA SpecialistPays ==
  ASSUME RoomInv, NEW r \in Rooms, SpecialistBack(r)
  PROVE \E cost \in Debits : Contract!Pay(r, cost)
<1>1. PICK ok \in BOOLEAN, files \in FilesLeft, bill \in Bills, report \in Reports :
        SpecialistReturned(r, ok, bill, report, files)
  BY DEF SpecialistBack
<1> DEFINE backend == Backend[room[r].job.model]
           cost == ParseCost(backend, bill, report)
           d == Debited(room[r], backend, bill, report)
           y == [d EXCEPT !.files = files, !.result = @ \/ ok, !.job = Nobody]
<1>2. /\ room[r] \in RoomState /\ room[r].at = "specialist" /\ room[r].job \in LegalJobs
      /\ Covered(room[r]) /\ Silent(room[r])
  BY <1>1 DEF RoomInv, SpecialistReturned, Good, Poised, Affords, Answered, Early
<1>3. backend \in {"anthropic", "deepseek"}
  BY <1>2, PriceOK
<1>4. Becomes(r, NextTurn(y)) \/ Becomes(r, Say(y, "fell"))
  BY <1>1 DEF SpecialistReturned
<1>5. cost \in Debits
  BY <1>3 DEF Debits
<1>6. d \in RoomState /\ Covered(d) /\ Silent(d) /\ d.spent = room[r].spent + cost
  BY <1>2, <1>3, DebitedOK DEF Silent
<1> HIDE DEF d, cost, backend
<1>7. y \in RoomState /\ Covered(y) /\ Silent(y) /\ y.spent = d.spent
  <2>1. files \in Nat /\ (d.result \/ ok) \in BOOLEAN
    BY RoomAssumption
  <2> QED BY ZenonT(20), <1>6, <2>1 DEF RoomState, Covered, Silent
<1> HIDE DEF y
<1>8. /\ Say(y, "fell").at = "telling" /\ Say(y, "fell").spent = y.spent
      /\ Say(y, "fell") \in RoomState
      /\ NextTurn(y).at = "top" /\ NextTurn(y).spent = y.spent /\ NextTurn(y) \in RoomState
  BY <1>7, SayGood, NextTurnGood DEF Messages, Good
<1> QED BY <1>2, <1>4, <1>5, <1>6, <1>7, <1>8, Pays

\* The turn of the loop, a message that hires nobody, a message refused: nothing the
\* contract speaks of.
LEMMA Stutters ==
  ASSUME RoomInv, NEW r \in Rooms,
         \/ BudgetExhausted(r) \/ TurnsExhausted(r) \/ ConductorSpawned(r)
         \/ \E unread : MessageDelivered(r, unread) /\ room[r].msg.kind # "hired"
         \/ MessageRefused(r)
         \/ \E n, unread : DocumentRefused(r, n, unread)
  PROVE UNCHANGED Contract!vars
<1>1. room[r] \in RoomState /\ room[r].at \in {"top", "telling"}
  BY DEF RoomInv, BudgetExhausted, TurnsExhausted, ConductorSpawned, MessageDelivered,
         MessageRefused, DocumentRefused
<1>2. PICK x : /\ room' = [room EXCEPT ![r] = x]
               /\ x.at \in {"telling", "conductor", "top", "closing", "crashed"}
               /\ x.spent = room[r].spent
  <2>1. CASE BudgetExhausted(r) \/ TurnsExhausted(r)
    <3>1. PICK kind \in {"budget", "turns"} : Becomes(r, Say(room[r], kind))
      BY <2>1 DEF BudgetExhausted, TurnsExhausted
    <3>2. Say(room[r], kind).at = "telling" /\ Say(room[r], kind).spent = room[r].spent
      BY <1>1 DEF Say, RoomState
    <3> QED BY <3>1, <3>2 DEF Becomes
  <2>2. CASE ConductorSpawned(r)
    <3> DEFINE x == [room[r] EXCEPT !.at = "conductor"]
    <3>1. Becomes(r, x) /\ x.at = "conductor" /\ x.spent = room[r].spent
      BY <1>1, <2>2 DEF ConductorSpawned, RoomState
    <3> HIDE DEF x
    <3> QED BY <3>1 DEF Becomes
  <2>3. ASSUME NEW unread, MessageDelivered(r, unread), room[r].msg.kind # "hired"
        PROVE \E x : /\ room' = [room EXCEPT ![r] = x]
                     /\ x.at \in {"telling", "conductor", "top", "closing", "crashed"}
                     /\ x.spent = room[r].spent
    <3> DEFINE k == room[r].msg.kind
               x == [room[r] EXCEPT !.at = "closing", !.msg = Nothing, !.heard = @ \cup {k},
                       !.got = [docs |-> room[r].msg.files \ unread, unread |-> unread,
                                quote |-> room[r].msg.quote]]
    <3>1. Becomes(r, NextTurn(room[r])) \/ Becomes(r, x)
      BY <2>3 DEF MessageDelivered
    <3>2. /\ NextTurn(room[r]).at = "top" /\ NextTurn(room[r]).spent = room[r].spent
          /\ x.at = "closing" /\ x.spent = room[r].spent
      BY <1>1 DEF NextTurn, RoomState
    <3> HIDE DEF x
    <3> QED BY <3>1, <3>2 DEF Becomes
  <2>4. CASE MessageRefused(r)
    <3> DEFINE x == [room[r] EXCEPT !.at = "crashed", !.job = Nobody, !.msg = Nothing,
                                    !.deaf = 1]
    <3>1. Becomes(r, x) /\ x.at = "crashed" /\ x.spent = room[r].spent
      BY <1>1, <2>4 DEF MessageRefused, RoomState
    <3> HIDE DEF x
    <3> QED BY <3>1 DEF Becomes
  <2>5. ASSUME NEW n, NEW unread, DocumentRefused(r, n, unread)
        PROVE \E x : /\ room' = [room EXCEPT ![r] = x]
                     /\ x.at \in {"telling", "conductor", "top", "closing", "crashed"}
                     /\ x.spent = room[r].spent
    <3> DEFINE before == {d \in room[r].msg.files : d < n}
               x == [room[r] EXCEPT !.at = "crashed", !.heard = @ \cup {room[r].msg.kind},
                       !.msg = Nothing, !.deaf = 1,
                       !.got = [docs |-> before \ unread, unread |-> unread,
                                quote |-> room[r].msg.quote]]
    <3>1. Becomes(r, x)
      BY <2>5 DEF DocumentRefused
    <3>2. x.at = "crashed" /\ x.spent = room[r].spent
      BY <1>1 DEF RoomState
    <3> HIDE DEF x
    <3> QED BY <3>1, <3>2 DEF Becomes
  <2> QED BY <2>1, <2>2, <2>3, <2>4, <2>5
<1>3. PhaseOf(x) = "open" /\ PhaseOf(room[r]) = "open"
  BY <1>1, <1>2 DEF PhaseOf
<1>4. HiredOf(x) = Nobody /\ HiredOf(room[r]) = Nobody
  BY <1>1, <1>2 DEF HiredOf
<1> QED BY <1>2, <1>3, <1>4, Inside

LEMMA Hires ==
  ASSUME RoomInv, NEW r \in Rooms, NEW unread, MessageDelivered(r, unread),
         room[r].msg.kind = "hired"
  PROVE \E j \in LegalJobs : Contract!Hire(r, j)
<1> DEFINE x == [room[r] EXCEPT !.at = "specialist", !.msg = Nothing]
           j == room[r].job
<1>1. /\ room[r] \in RoomState /\ room[r].at = "telling" /\ j \in LegalJobs
      /\ room[r].spent + Price[j] <= Budget
      /\ room' = [room EXCEPT ![r] = x]
  BY DEF RoomInv, MessageDelivered, Becomes, Good, Poised, Affords
<1>2. x.at = "specialist" /\ x.spent = room[r].spent /\ x.job = j
  BY <1>1 DEF RoomState
<1> HIDE DEF x, j
<1>3. PhaseOf(x) = "open" /\ PhaseOf(room[r]) = "open"
      /\ HiredOf(x) = j /\ HiredOf(room[r]) = Nobody
  BY <1>1, <1>2 DEF PhaseOf, HiredOf
<1>4. /\ phase' = [phase EXCEPT ![r] = PhaseOf(x)] /\ phase[r] = PhaseOf(room[r])
      /\ paid' = [paid EXCEPT ![r] = x.spent] /\ paid[r] = room[r].spent
      /\ hired' = [hired EXCEPT ![r] = HiredOf(x)] /\ hired[r] = HiredOf(room[r])
      /\ phase = [q \in Rooms |-> phase[q]] /\ paid = [q \in Rooms |-> paid[q]]
      /\ hired = [q \in Rooms |-> hired[q]]
  BY <1>1, View
<1>5. phase' = phase /\ paid' = paid
  BY <1>2, <1>3, <1>4
<1>6. /\ phase[r] = "open" /\ hired[r] = Nobody /\ paid[r] + Price[j] <= Budget
      /\ hired' = [hired EXCEPT ![r] = j]
  BY <1>1, <1>3, <1>4
<1> QED BY <1>1, <1>5, <1>6 DEF Contract!Hire

Into(r, x) == room' = [room EXCEPT ![r] = x]

LEMMA Closes ==
  ASSUME RoomInv, NEW r \in Rooms, NEW x, room[r].at \in {"closing", "crashed"},
         Into(r, x), x.at = "over", x.spent = room[r].spent
  PROVE Contract!Close(r)
<1>1. /\ phase' = [phase EXCEPT ![r] = PhaseOf(x)] /\ phase[r] = PhaseOf(room[r])
      /\ paid' = [paid EXCEPT ![r] = x.spent] /\ paid[r] = room[r].spent
      /\ hired' = [hired EXCEPT ![r] = HiredOf(x)] /\ hired[r] = HiredOf(room[r])
      /\ phase = [q \in Rooms |-> phase[q]] /\ paid = [q \in Rooms |-> paid[q]]
      /\ hired = [q \in Rooms |-> hired[q]]
  BY View DEF Into
<1>2. PhaseOf(x) = "closed" /\ PhaseOf(room[r]) = "open"
      /\ HiredOf(x) = Nobody /\ HiredOf(room[r]) = Nobody
  BY DEF PhaseOf, HiredOf
<1>3. paid' = paid /\ hired' = hired
  BY <1>1, <1>2
<1>4. phase[r] = "open" /\ hired[r] = Nobody /\ phase' = [phase EXCEPT ![r] = "closed"]
  BY <1>1, <1>2
<1> QED BY <1>3, <1>4 DEF Contract!Close

LEMMA Ends ==
  ASSUME RoomInv, NEW r \in Rooms,
         RoomReleased(r) \/ \E delivered \in BOOLEAN : CrashReported(r, delivered)
  PROVE Contract!Close(r)
<1>1. room[r] \in RoomState
  BY DEF RoomInv
<1>2. CASE RoomReleased(r)
  <2> DEFINE x == [room[r] EXCEPT !.at = "over"]
  <2>1. Into(r, x) /\ room[r].at = "closing"
    BY <1>2 DEF RoomReleased, Into
  <2>2. x.at = "over" /\ x.spent = room[r].spent
    BY <1>1 DEF RoomState
  <2> HIDE DEF x
  <2> QED BY <2>1, <2>2, Closes
<1>3. ASSUME NEW delivered \in BOOLEAN, CrashReported(r, delivered) PROVE Contract!Close(r)
  <2> DEFINE x == [room[r] EXCEPT !.at = "over",
                                  !.heard = @ \cup (IF delivered THEN {"crash"} ELSE {}),
                                  !.deaf = @ + (IF delivered THEN 0 ELSE 1)]
  <2>1. Into(r, x) /\ room[r].at = "crashed"
    BY <1>3 DEF CrashReported, Into
  <2>2. x.at = "over" /\ x.spent = room[r].spent
    BY <1>1 DEF RoomState
  <2> HIDE DEF x
  <2> QED BY <2>1, <2>2, Closes
<1> QED BY <1>2, <1>3

\* The contract counts with an instance of its own of the library.
LEMMA SameSize == ASSUME NEW S PROVE Contract!Cardinality(S) = Cardinality(S)
  BY DEF Contract!Cardinality, Cardinality

\* A request gets its slot, or is turned down.
LEMMA Answers ==
  ASSUME RoomInv, NEW r \in Rooms, RoomOpened(r) \/ RoomDeclined(r)
  PROVE Contract!Admit(r) \/ Contract!Decline(r)
<1> DEFINE opened == [room[r] EXCEPT !.at = "top"]
           declined == [room[r] EXCEPT !.at = "declined"]
<1>1. room[r] \in RoomState /\ room[r].at = "asked"
  BY DEF RoomInv, RoomOpened, RoomDeclined
<1>2. PICK x : /\ room' = [room EXCEPT ![r] = x] /\ x.spent = room[r].spent
               /\ \/ x.at = "top" /\ Cardinality(active) < Limit
                  \/ x.at = "declined" /\ Cardinality(active) >= Limit
  <2>1. /\ opened.at = "top" /\ opened.spent = room[r].spent
        /\ declined.at = "declined" /\ declined.spent = room[r].spent
    BY <1>1 DEF RoomState
  <2>2. \/ room' = [room EXCEPT ![r] = opened] /\ Cardinality(active) < Limit
        \/ room' = [room EXCEPT ![r] = declined] /\ Cardinality(active) >= Limit
    BY DEF RoomOpened, RoomDeclined, Becomes
  <2> HIDE DEF opened, declined
  <2> QED BY <2>1, <2>2
<1>3. /\ phase' = [phase EXCEPT ![r] = PhaseOf(x)] /\ phase[r] = PhaseOf(room[r])
      /\ paid' = [paid EXCEPT ![r] = x.spent] /\ paid[r] = room[r].spent
      /\ hired' = [hired EXCEPT ![r] = HiredOf(x)] /\ hired[r] = HiredOf(room[r])
      /\ phase = [q \in Rooms |-> phase[q]] /\ paid = [q \in Rooms |-> paid[q]]
      /\ hired = [q \in Rooms |-> hired[q]]
  BY <1>2, View
<1>4. PhaseOf(room[r]) = "asked" /\ HiredOf(room[r]) = Nobody /\ HiredOf(x) = Nobody
  BY <1>1, <1>2 DEF PhaseOf, HiredOf
<1>5. paid' = paid /\ hired' = hired
  BY <1>2, <1>3, <1>4
<1>6. Contract!Open = active
  <2>1. \A q \in Rooms : phase[q] = "open" <=> room[q].at \in Running
    BY PhaseOpen DEF phase, RoomInv
  <2> QED BY <2>1 DEF Contract!Open, RoomInv
<1>7. CASE x.at = "top" /\ Cardinality(active) < Limit
  <2>1. PhaseOf(x) = "open"
    BY <1>7 DEF PhaseOf
  <2>2. phase[r] = "asked" /\ phase' = [phase EXCEPT ![r] = "open"]
    BY <1>3, <1>4, <2>1
  <2>3. Cardinality(Contract!Open) < Limit
    BY <1>6, <1>7
  <2> QED BY <1>5, <2>2, <2>3, SameSize DEF Contract!Admit
<1>8. CASE x.at = "declined" /\ Cardinality(active) >= Limit
  <2>1. PhaseOf(x) = "declined"
    BY <1>8 DEF PhaseOf
  <2>2. phase[r] = "asked" /\ phase' = [phase EXCEPT ![r] = "declined"]
    BY <1>3, <1>4, <2>1
  <2>3. Cardinality(Contract!Open) >= Limit
    BY <1>6, <1>8
  <2> QED BY <1>5, <2>2, <2>3, SameSize DEF Contract!Decline
<1> QED BY <1>2, <1>7, <1>8

\* run_room keeps the room's contract, for every budget, catalogue and limit.
THEOREM RoomKeepsContract == Spec => KeepsContract
<1>1. Init => Contract!Init
  BY DEF Init, Fresh, phase, paid, hired, PhaseOf, Contract!Init
<1>2. RoomInv /\ [Next]_vars => [Contract!Next]_(Contract!vars)
  <2>1. CASE UNCHANGED vars
    BY <2>1 DEF vars, Contract!vars, phase, paid, hired, PhaseOf
  <2>2. ASSUME RoomInv, NEW r \in Rooms, RoomOpened(r) \/ RoomDeclined(r) \/ Step(r)
        PROVE Contract!Next \/ UNCHANGED Contract!vars
    <3>1. CASE RoomOpened(r) \/ RoomDeclined(r)
      BY <2>2, <3>1, Answers DEF Contract!Next
    <3>2. CASE ConductorReplied(r)
      BY <2>2, <3>2, ConductorPays DEF Contract!Next
    <3>3. CASE SpecialistBack(r)
      BY <2>2, <3>3, SpecialistPays DEF Contract!Next
    <3>4. CASE Told(r)
      <4>1. CASE \E unread : MessageDelivered(r, unread) /\ room[r].msg.kind = "hired"
        BY <2>2, <4>1, Hires DEF Contract!Next
      <4> QED BY <2>2, <3>4, <4>1, Stutters DEF Told
    <3>5. CASE RoomReleased(r) \/ \E delivered \in BOOLEAN : CrashReported(r, delivered)
      BY <2>2, <3>5, Ends DEF Contract!Next
    <3> QED BY <2>2, <3>1, <3>2, <3>3, <3>4, <3>5, Stutters DEF Step
  <2> QED BY <2>1, <2>2 DEF Next
<1> QED BY <1>1, <1>2, Invariant, PTL DEF Spec, KeepsContract, Contract!Spec

----------------------------------------------------------------------------
(* How long a room can last, and how far it can overrun its budget. Both   *)
(* follow from what one step does to the turn, the place and the bills.    *)

Verdict(x) == x.at = "telling" /\ x.msg.kind \in Terminal
Retreat(x) == x.at = "telling" /\ x.msg.kind \in {"rejected", "fell"}
Hire(x) == x.at = "telling" /\ x.msg.kind = "hired"

\* One turn on, or the same turn.
Hop(x, y) ==
  \/ /\ y.turn = x.turn
     /\ \/ x.at = "asked" /\ y.at \in {"top", "declined"}
        \/ x.at = "top" /\ ((y.at = "conductor" /\ x.turn <= TurnsAllowed) \/ Verdict(y))
        \/ x.at = "conductor" /\ (Verdict(y) \/ Retreat(y) \/ Hire(y))
        \/ Hire(x) /\ y.at = "specialist"
        \/ x.at = "specialist" /\ Retreat(y)
        \/ Verdict(x) /\ y.at = "closing"
        \/ x.at = "telling" /\ y.at = "crashed"
        \/ x.at \in {"closing", "crashed"} /\ y.at = "over"
  \/ /\ y.turn = x.turn + 1
     /\ y.at = "top"
     /\ x.at \in {"conductor", "specialist"} \/ Retreat(x)

\* A child is charged for only by a room whose money is not used up.
Charged(x, y) ==
  \/ y.owed = x.owed
  \/ x.spent < Budget /\ \E bill \in Bills : y.owed = x.owed + bill

Steps(x, y) == Hop(x, y) /\ Charged(x, y)

LEMMA DebitedSteps ==
  ASSUME NEW x \in RoomState, NEW backend, NEW bill \in Bills, NEW report
  PROVE LET y == Debited(x, backend, bill, report)
        IN  y.turn = x.turn /\ y.owed \in {x.owed, x.owed + bill}
<1>1. x.owed \in Nat
  BY DEF RoomState
<1> DEFINE cost == ParseCost(backend, bill, report)
           due == IF report = "silent" THEN 0 ELSE bill
<1>2. Debited(x, backend, bill, report) = [x EXCEPT !.spent = @ + cost, !.owed = @ + due]
  BY DEF Debited
<1> HIDE DEF cost, due
<1>3. LET y == [x EXCEPT !.spent = @ + cost, !.owed = @ + due]
      IN  y.turn = x.turn /\ y.owed = x.owed + due
  BY DEF RoomState
<1>4. due \in {0, bill}
  BY DEF due
<1>5. bill \in Nat
  BY RoomAssumption
<1> QED BY <1>1, <1>2, <1>3, <1>4, <1>5

LEMMA SaySteps ==
  ASSUME NEW x \in RoomState, NEW kind \in Messages
  PROVE LET y == Say(x, kind)
        IN  y \in RoomState /\ y.at = "telling" /\ y.msg.kind = kind /\ y.turn = x.turn /\ y.owed = x.owed
BY SayIs

LEMMA NextTurnSteps ==
  ASSUME NEW x \in RoomState
  PROVE LET y == NextTurn(x)
        IN  y \in RoomState /\ y.at = "top" /\ y.turn = x.turn + 1 /\ y.owed = x.owed
<1>1. Nothing \in Message
  BY DEF Nothing, Message, Messages
<1>2. "top" \in Running /\ x.turn + 1 \in Nat /\ Nobody \in Jobs \cup {Nobody}
  BY DEF RoomState, Running
<1> QED BY <1>1, <1>2 DEF NextTurn, RoomState

LEMMA BecomesSteps ==
  ASSUME RoomInv, NEW r \in Rooms, NEW x, room' = [room EXCEPT ![r] = x]
  PROVE room'[r] = x /\ \A q \in Rooms \ {r} : room'[q] = room[q]
BY DEF RoomInv

LEMMA TopSteps ==
  ASSUME RoomInv, NEW r \in Rooms,
         RoomOpened(r) \/ RoomDeclined(r) \/ BudgetExhausted(r) \/ TurnsExhausted(r)
           \/ ConductorSpawned(r) \/ RoomReleased(r)
  PROVE Steps(room[r], room'[r])
<1> DEFINE x == room[r]
<1>1. x \in RoomState
  BY DEF RoomInv
<1>2. CASE RoomOpened(r) \/ RoomDeclined(r) \/ ConductorSpawned(r) \/ RoomReleased(r)
  <2>1. PICK at : /\ room' = [room EXCEPT ![r] = [room[r] EXCEPT !.at = at]]
                  /\ \/ x.at = "asked" /\ at \in {"top", "declined"}
                     \/ x.at = "top" /\ at = "conductor" /\ x.turn <= TurnsAllowed
                     \/ x.at = "closing" /\ at = "over"
    BY <1>2 DEF RoomOpened, RoomDeclined, ConductorSpawned, RoomReleased, Becomes
  <2>2. LET y == [x EXCEPT !.at = at] IN y.at = at /\ y.turn = x.turn /\ y.owed = x.owed
    BY <1>1 DEF RoomState
  <2>3. room'[r] = [x EXCEPT !.at = at]
    BY <2>1, BecomesSteps
  <2> QED BY <2>1, <2>2, <2>3 DEF Steps, Hop, Charged
<1>3. CASE BudgetExhausted(r) \/ TurnsExhausted(r)
  <2>1. PICK kind \in {"budget", "turns"} :
           x.at = "top" /\ room' = [room EXCEPT ![r] = Say(x, kind)]
    BY <1>3 DEF BudgetExhausted, TurnsExhausted, Becomes
  <2>2. room'[r] = Say(x, kind)
    BY <2>1, BecomesSteps
  <2>3. kind \in Terminal /\ kind \in Messages
    BY DEF Terminal, Messages
  <2> QED BY <1>1, <2>1, <2>2, <2>3, SaySteps DEF Steps, Hop, Charged, Verdict
<1> QED BY <1>2, <1>3

\* The conductor's reply, charged first.
LEMMA ReplySteps ==
  ASSUME RoomInv, NEW r \in Rooms, ConductorReplied(r)
  PROVE Steps(room[r], room'[r])
<1> DEFINE c == room[r]
<1>1. PICK bill \in Bills, report \in Reports :
         \/ ReplyUnusable(r, bill, report)
         \/ ReplyFinish(r, bill, report)
         \/ \E job \in Jobs : ReplyDelegate(r, bill, report, job)
  BY DEF ConductorReplied
<1>2. c \in RoomState /\ c.at = "conductor" /\ Covered(c) /\ c.spent < Budget
  BY <1>1 DEF RoomInv, Good, Poised, ReplyUnusable, ReplyFinish, ReplyDelegate
<1>3. \A x \in RoomState : \A n : LET y == [x EXCEPT !.misparsed = n]
                                 IN  y.turn = x.turn /\ y.owed = x.owed
  BY DEF RoomState
<1>4. ASSUME NEW x \in RoomState, x.turn = c.turn, x.owed \in {c.owed, c.owed + bill},
             \/ \E kind \in Terminal \cup {"rejected", "hired"} : room'[r] = Say(x, kind)
             \/ room'[r] = NextTurn(x)
      PROVE Steps(c, room'[r])
  <2>1. ASSUME NEW kind \in Terminal \cup {"rejected", "hired"}, room'[r] = Say(x, kind)
        PROVE Steps(c, room'[r])
    <3>1. kind \in Messages
      BY DEF Messages
    <3>2. LET y == room'[r] IN y.at = "telling" /\ y.msg.kind = kind /\ y.turn = c.turn /\ y.owed = x.owed
      BY <1>4, <2>1, <3>1, SaySteps
    <3> QED BY <1>2, <1>4, <3>2 DEF Steps, Hop, Charged, Verdict, Retreat, Hire
  <2>2. CASE room'[r] = NextTurn(x)
    <3>1. LET y == room'[r] IN y.at = "top" /\ y.turn = c.turn + 1 /\ y.owed = x.owed
      BY <1>4, <2>2, NextTurnSteps
    <3> QED BY <1>2, <1>4, <3>1 DEF Steps, Hop, Charged
  <2> QED BY <1>4, <2>1, <2>2
<1>5. CASE ReplyUnusable(r, bill, report) \/ ReplyFinish(r, bill, report)
  <2> DEFINE x == Debited(c, "deepseek", bill, report)
             y == [x EXCEPT !.misparsed = @ + 1]
             z == [x EXCEPT !.misparsed = 0]
  <2>1. /\ x \in RoomState /\ x.turn = c.turn /\ x.owed \in {c.owed, c.owed + bill}
    BY <1>2, DebitedOK, DebitedSteps
  <2>2. \/ Becomes(r, Say(y, "unparseable")) \/ Becomes(r, NextTurn(y))
        \/ Becomes(r, Say(z, "finished"))
    BY <1>5 DEF ReplyUnusable, ReplyFinish
  <2> HIDE DEF x
  <2>3. y \in RoomState /\ z \in RoomState
    BY <2>1 DEF RoomState
  <2>4. y.turn = x.turn /\ y.owed = x.owed /\ z.turn = x.turn /\ z.owed = x.owed
    BY <1>3, <2>1
  <2> HIDE DEF y, z
  <2>5. \/ room'[r] = Say(y, "unparseable") \/ room'[r] = NextTurn(y) \/ room'[r] = Say(z, "finished")
    BY <2>2, BecomesSteps DEF Becomes
  <2> QED BY <1>4, <2>1, <2>3, <2>4, <2>5 DEF Terminal
<1>6. ASSUME NEW job \in Jobs, ReplyDelegate(r, bill, report, job)
      PROVE Steps(c, room'[r])
  <2> DEFINE w == [c EXCEPT !.misparsed = 0]
             x == Debited(w, "deepseek", bill, report)
             y == [x EXCEPT !.job = job]
  <2>1. w \in RoomState /\ Covered(w) /\ w.turn = c.turn /\ w.owed = c.owed
    BY <1>2, <1>3 DEF RoomState, Covered
  <2>2. Becomes(r, Say(x, "rejected")) \/ Becomes(r, Say(y, "hired"))
    BY <1>6 DEF ReplyDelegate
  <2> HIDE DEF w
  <2>3. x \in RoomState /\ x.turn = c.turn /\ x.owed \in {c.owed, c.owed + bill}
    BY <2>1, DebitedOK, DebitedSteps
  <2> HIDE DEF x
  <2>4. y \in RoomState /\ y.turn = x.turn /\ y.owed = x.owed
    BY <2>3 DEF RoomState
  <2> HIDE DEF y
  <2>5. room'[r] = Say(x, "rejected") \/ room'[r] = Say(y, "hired")
    BY <2>2, BecomesSteps DEF Becomes
  <2> QED BY <1>4, <2>3, <2>4, <2>5
<1> QED BY <1>1, <1>5, <1>6

LEMMA SpecialistSteps ==
  ASSUME RoomInv, NEW r \in Rooms, SpecialistBack(r)
  PROVE Steps(room[r], room'[r])
<1>1. PICK ok \in BOOLEAN, files \in FilesLeft, bill \in Bills, report \in Reports :
         SpecialistReturned(r, ok, bill, report, files)
  BY DEF SpecialistBack
<1> DEFINE c == room[r]
           backend == Backend[c.job.model]
           x == Debited(c, backend, bill, report)
           y == [x EXCEPT !.files = files, !.result = @ \/ ok, !.job = Nobody]
<1>2. c \in RoomState /\ c.at = "specialist" /\ Covered(c) /\ Affords(c)
  BY <1>1 DEF RoomInv, Good, Poised, SpecialistReturned
<1>3. c.spent < Budget /\ backend \in {"anthropic", "deepseek"}
  <2>1. c.spent \in Nat /\ Budget \in Nat
    BY <1>2, RoomAssumption DEF RoomState
  <2>2. Price[c.job] \in Nat /\ Price[c.job] >= 1 /\ backend \in {"anthropic", "deepseek"}
    BY <1>2, PriceOK DEF Affords
  <2> QED BY <1>2, <2>1, <2>2 DEF Affords
<1>4. Becomes(r, NextTurn(y)) \/ Becomes(r, Say(y, "fell"))
  BY <1>1 DEF SpecialistReturned
<1> HIDE DEF backend
<1>5. x \in RoomState /\ x.turn = c.turn /\ x.owed \in {c.owed, c.owed + bill}
  BY <1>2, <1>3, DebitedOK, DebitedSteps
<1> HIDE DEF x
<1>6. y \in RoomState /\ y.turn = x.turn /\ y.owed = x.owed
  <2>1. files \in Nat /\ (x.result \/ ok) \in BOOLEAN
    BY RoomAssumption
  <2> QED BY <1>5, <2>1 DEF RoomState
<1> HIDE DEF y
<1>7. room'[r] = NextTurn(y) \/ room'[r] = Say(y, "fell")
  BY <1>4, BecomesSteps DEF Becomes
<1>8. CASE room'[r] = NextTurn(y)
  <2>1. LET z == room'[r] IN z.at = "top" /\ z.turn = c.turn + 1 /\ z.owed = x.owed
    BY <1>5, <1>6, <1>8, NextTurnSteps
  <2> QED BY <1>2, <1>3, <1>5, <2>1 DEF Steps, Hop, Charged
<1>9. CASE room'[r] = Say(y, "fell")
  <2>1. "fell" \in Messages
    BY DEF Messages
  <2>2. LET z == room'[r] IN z.at = "telling" /\ z.msg.kind = "fell" /\ z.turn = c.turn /\ z.owed = x.owed
    BY <1>5, <1>6, <1>9, <2>1, SaySteps
  <2> QED BY <1>2, <1>3, <1>5, <2>2 DEF Steps, Hop, Charged, Retreat
<1> QED BY <1>7, <1>8, <1>9

LEMMA ToldSteps ==
  ASSUME RoomInv, NEW r \in Rooms,
         \/ Told(r) \/ MessageRefused(r)
         \/ \E delivered \in BOOLEAN : CrashReported(r, delivered)
  PROVE Steps(room[r], room'[r])
<1> DEFINE x == room[r]
<1>1. x \in RoomState
  BY DEF RoomInv
<1>2. ASSUME NEW unread, MessageDelivered(r, unread)
      PROVE Steps(x, room'[r])
  <2> DEFINE k == x.msg.kind
             sent == [docs |-> x.msg.files \ unread, unread |-> unread, quote |-> x.msg.quote]
  <2>1. x.at = "telling" /\ k \in Terminal \cup {"hired", "rejected", "fell"}
    BY <1>1, <1>2 DEF MessageDelivered, RoomState, Message, Messages
  <2>2. CASE k = "hired"
    <3>1. room'[r] = [x EXCEPT !.at = "specialist", !.msg = Nothing]
      BY <1>2, <2>2, BecomesSteps DEF MessageDelivered, Becomes
    <3> QED BY <1>1, <2>1, <2>2, <3>1 DEF RoomState, Steps, Hop, Charged, Hire
  <2>3. CASE k \in {"rejected", "fell"}
    <3>1. room'[r] = NextTurn(x)
      BY <1>2, <2>3, BecomesSteps DEF MessageDelivered, Becomes
    <3> QED BY <1>1, <2>1, <2>3, <3>1, NextTurnSteps DEF Steps, Hop, Charged, Retreat
  <2>4. CASE k \in Terminal
    <3>1. k \notin {"hired", "rejected", "fell"}
      BY <2>4 DEF Terminal
    <3>2. room'[r] = [x EXCEPT !.at = "closing", !.msg = Nothing, !.heard = @ \cup {k}, !.got = sent]
      BY ZenonT(20), <1>2, <3>1, BecomesSteps DEF MessageDelivered, Becomes
    <3> HIDE DEF sent
    <3> QED BY <1>1, <2>1, <2>4, <3>2 DEF RoomState, Steps, Hop, Charged, Verdict
  <2> QED BY <2>1, <2>2, <2>3, <2>4
<1>3. CASE MessageRefused(r)
  <2>1. x.at = "telling" /\ room'[r] = [x EXCEPT !.at = "crashed", !.job = Nobody, !.msg = Nothing, !.deaf = 1]
    BY <1>3, BecomesSteps DEF MessageRefused, Becomes
  <2>2. room'[r].at = "crashed" /\ room'[r].turn = x.turn /\ room'[r].owed = x.owed
    BY <1>1, <2>1 DEF RoomState
  <2> QED BY <2>1, <2>2 DEF Steps, Hop, Charged
<1>4. ASSUME NEW n, NEW unread, DocumentRefused(r, n, unread)
      PROVE Steps(x, room'[r])
  <2> DEFINE h == x.heard \cup {x.msg.kind}
             before == {d \in x.msg.files : d < n}
             g == [docs |-> before \ unread, unread |-> unread, quote |-> x.msg.quote]
  <2>1. x.at = "telling" /\ room'[r] = [x EXCEPT !.at = "crashed", !.heard = h, !.msg = Nothing,
                                                !.deaf = 1, !.got = g]
    BY ZenonT(20), <1>4, BecomesSteps DEF DocumentRefused, Becomes
  <2> HIDE DEF h, g
  <2>2. room'[r].at = "crashed" /\ room'[r].turn = x.turn /\ room'[r].owed = x.owed
    BY <1>1, <2>1 DEF RoomState
  <2> QED BY <2>1, <2>2 DEF Steps, Hop, Charged
<1>5. ASSUME NEW delivered \in BOOLEAN, CrashReported(r, delivered)
      PROVE Steps(x, room'[r])
  <2> DEFINE h == x.heard \cup (IF delivered THEN {"crash"} ELSE {})
             d == x.deaf + (IF delivered THEN 0 ELSE 1)
  <2>1. x.at = "crashed" /\ room'[r] = [x EXCEPT !.at = "over", !.heard = h, !.deaf = d]
    BY <1>5, BecomesSteps DEF CrashReported
  <2> HIDE DEF h, d
  <2>2. room'[r].at = "over" /\ room'[r].turn = x.turn /\ room'[r].owed = x.owed
    BY <1>1, <2>1 DEF RoomState
  <2> QED BY <2>1, <2>2 DEF Steps, Hop, Charged
<1> QED BY <1>2, <1>3, <1>4, <1>5 DEF Told

\* Every step of the module is a step of one room and leaves the others alone.
LEMMA OneRoomSteps ==
  ASSUME RoomInv, Next
  PROVE \E r \in Rooms : /\ Steps(room[r], room'[r])
                         /\ \A q \in Rooms \ {r} : room'[q] = room[q]
<1>1. PICK r \in Rooms : RoomOpened(r) \/ RoomDeclined(r) \/ Step(r)
  BY DEF Next
<1>2. Steps(room[r], room'[r])
  BY <1>1, TopSteps, ReplySteps, SpecialistSteps, ToldSteps DEF Step
<1>3. \E x : room' = [room EXCEPT ![r] = x]
  BY <1>1 DEF Step, RoomOpened, RoomDeclined, BudgetExhausted, TurnsExhausted, ConductorSpawned,
     ConductorReplied, ReplyUnusable, ReplyFinish, ReplyDelegate, SpecialistBack,
     SpecialistReturned, Told, MessageDelivered, MessageRefused, DocumentRefused, CrashReported,
     RoomReleased, Becomes
<1> QED BY <1>2, <1>3, BecomesSteps

\* The turns of a room: a conductor and a specialist are only at work in one of the
\* TurnsAllowed turns.
Timely(x) ==
  /\ x.turn \in 1..(TurnsAllowed + 1)
  /\ x.at \in {"conductor", "specialist"} \/ Hire(x) \/ Retreat(x) => x.turn <= TurnsAllowed

\* What a room has still before it, at most: five steps in a turn and three to its end.
StepsLeft(x) ==
  LET turns == TurnsAllowed + 1 - x.turn
  IN  CASE x.at = "asked" -> 5 * turns + 4
        [] x.at = "top" -> 5 * turns + 3
        [] x.at = "conductor" -> 5 * turns + 2
        [] Hire(x) -> 5 * turns + 1
        [] x.at = "specialist" -> 5 * turns
        [] Retreat(x) -> 5 * turns - 1
        [] Verdict(x) -> 2
        [] x.at \in {"closing", "crashed"} -> 1
        [] OTHER -> 0

LEMMA HopCounts ==
  ASSUME NEW x \in RoomState, NEW y \in RoomState, Timely(x), Hop(x, y)
  PROVE Timely(y) /\ StepsLeft(y) < StepsLeft(x)
<1>1. TurnsAllowed \in Nat /\ x.turn \in Int /\ y.turn \in Int
  BY RoomAssumption DEF RoomState
<1>2. CASE y.turn = x.turn
  <2>1. Timely(y)
    BY <1>1, <1>2 DEF Hop, Timely, Hire, Retreat, Verdict, Terminal
  <2>2. CASE x.at \in {"asked", "top", "conductor", "specialist"}
    BY <1>1, <1>2, <2>2 DEF Hop, Timely, StepsLeft, Hire, Retreat, Verdict, Terminal
  <2>3. CASE Hire(x) \/ Retreat(x) \/ Verdict(x)
    <3>1. x.at = "telling" /\ y.at \in {"specialist", "closing", "crashed"}
      BY <1>1, <1>2, <2>3 DEF Hop, Hire, Retreat, Verdict
    <3>2. /\ Hire(x) => StepsLeft(x) = 5 * (TurnsAllowed + 1 - x.turn) + 1
          /\ Retreat(x) => StepsLeft(x) = 5 * (TurnsAllowed + 1 - x.turn) - 1
          /\ Verdict(x) => StepsLeft(x) = 2
      BY <3>1 DEF StepsLeft, Hire, Retreat, Verdict, Terminal
    <3>3. /\ y.at = "specialist" => StepsLeft(y) = 5 * (TurnsAllowed + 1 - y.turn)
          /\ y.at \in {"closing", "crashed"} => StepsLeft(y) = 1
      BY DEF StepsLeft, Hire, Retreat, Verdict
    <3>4. y.at = "specialist" => Hire(x)
      BY <1>1, <1>2, <3>1 DEF Hop, Hire, Retreat, Verdict
    <3>5. Hire(x) \/ Retreat(x) => x.turn <= TurnsAllowed
      BY DEF Timely, Hire, Retreat
    <3>6. CASE y.at = "specialist"
      BY <1>1, <1>2, <2>1, <3>2, <3>3, <3>4, <3>6
    <3>7. CASE y.at \in {"closing", "crashed"}
      BY <1>1, <2>1, <2>3, <3>2, <3>3, <3>5, <3>7
    <3> QED BY <3>1, <3>6, <3>7
  <2>4. CASE x.at \in {"closing", "crashed"}
    <3>1. y.at = "over"
      BY <1>1, <1>2, <2>4 DEF Hop, Hire, Retreat, Verdict
    <3>2. StepsLeft(y) = 0 /\ StepsLeft(x) = 1
      BY <2>4, <3>1 DEF StepsLeft, Hire, Retreat, Verdict
    <3> QED BY <2>1, <3>2
  <2>5. x.at = "telling" => Hire(x) \/ Retreat(x) \/ Verdict(x)
    BY DEF RoomState, Message, Messages, Hire, Retreat, Verdict
  <2>6. x.at \in {"asked", "top", "conductor", "specialist", "telling", "closing", "crashed"}
    BY <1>1, <1>2 DEF Hop, Hire, Verdict
  <2> QED BY <2>1, <2>2, <2>3, <2>4, <2>5, <2>6
<1>3. CASE y.turn = x.turn + 1
  BY <1>1, <1>3 DEF Hop, Timely, StepsLeft, Hire, Retreat, Verdict, Terminal
<1> QED BY <1>2, <1>3 DEF Hop

LEMMA StepsLeftOK ==
  ASSUME NEW x \in RoomState, Timely(x)
  PROVE StepsLeft(x) \in 0..(5 * TurnsAllowed + 4)
<1>1. TurnsAllowed \in Nat /\ x.turn \in Int
  BY RoomAssumption DEF RoomState
<1> QED BY <1>1 DEF Timely, StepsLeft, Hire, Retreat, Verdict, Terminal

LEMMA TurnsKept == Spec => [](\A r \in Rooms : Timely(room[r]))
<1> DEFINE Inv == \A r \in Rooms : Timely(room[r])
<1>1. Init => Inv
  BY RoomAssumption DEF Init, Fresh, Timely, Hire, Retreat
<1>2. RoomInv /\ Inv /\ [Next]_vars => Inv'
  <2> SUFFICES ASSUME RoomInv, Inv, [Next]_vars PROVE Inv'
    OBVIOUS
  <2>1. RoomInv'
    BY NextGood
  <2>2. \A r \in Rooms : room[r] \in RoomState /\ room'[r] \in RoomState
    BY <2>1 DEF RoomInv
  <2>3. CASE UNCHANGED vars
    BY <2>3 DEF vars, Timely, Hire, Retreat
  <2>4. CASE Next
    <3>1. PICK r \in Rooms : /\ Steps(room[r], room'[r])
                             /\ \A q \in Rooms \ {r} : room'[q] = room[q]
      BY <2>4, OneRoomSteps
    <3>2. Timely(room'[r])
      BY <2>2, <3>1, HopCounts DEF Steps
    <3>3. \A q \in Rooms : Timely(room'[q])
      BY <3>1, <3>2
    <3> QED BY <3>3 DEF Timely, Hire, Retreat
  <2> QED BY <2>3, <2>4
<1> QED BY <1>1, <1>2, Invariant, PTL DEF Spec

\* run_room: the loop is bounded by the turns. Whatever the conductor replies, the
\* children cost and the chat refuses, a request takes at most five steps for each turn
\* allowed and four more, and every step of the system is one of these of one room.
THEOREM RoomStepsRunOut ==
  Spec => /\ [](\A r \in Rooms : StepsLeft(room[r]) \in 0..(5 * TurnsAllowed + 4))
          /\ [][\E r \in Rooms : /\ StepsLeft(room'[r]) < StepsLeft(room[r])
                                 /\ \A q \in Rooms \ {r} : room'[q] = room[q]]_vars
<1> DEFINE Inv == \A r \in Rooms : Timely(room[r])
           Left == \A r \in Rooms : StepsLeft(room[r]) \in 0..(5 * TurnsAllowed + 4)
           Down == \E r \in Rooms : /\ StepsLeft(room'[r]) < StepsLeft(room[r])
                                    /\ \A q \in Rooms \ {r} : room'[q] = room[q]
<1>1. RoomInv /\ Inv => Left
  BY StepsLeftOK DEF RoomInv
<1>2. RoomInv /\ Inv /\ [Next]_vars => [Down]_vars
  <2> SUFFICES ASSUME RoomInv, Inv, Next PROVE Down
    OBVIOUS
  <2>1. RoomInv'
    BY NextGood
  <2>2. \A r \in Rooms : room[r] \in RoomState /\ room'[r] \in RoomState
    BY <2>1 DEF RoomInv
  <2> QED BY <2>2, OneRoomSteps, HopCounts DEF Steps
<1> HIDE DEF Left, Down
<1>3. Spec => []Left /\ [][Down]_vars
  BY <1>1, <1>2, Invariant, TurnsKept, PTL DEF Spec
<1> QED BY <1>3 DEF Left, Down

\* What the provider charged a room is less than one bill above its budget.
OneBillOver(x) == x.owed = 0 \/ \E bill \in Bills : x.owed < Budget + bill

\* run_room: the budget is looked at before every child is started (the conductor's turn
\* and each hire), so the charges of the children that printed a figure exceed the cap by
\* less than the last bill.
THEOREM OverrunIsOneBill == Spec => [](\A r \in Rooms : OneBillOver(room[r]))
<1> DEFINE Inv == \A r \in Rooms : OneBillOver(room[r])
<1>1. Init => Inv
  BY DEF Init, Fresh, OneBillOver
<1>2. RoomInv /\ Inv /\ [Next]_vars => Inv'
  <2> SUFFICES ASSUME RoomInv, Inv, [Next]_vars PROVE Inv'
    OBVIOUS
  <2>1. CASE UNCHANGED vars
    BY <2>1 DEF vars, OneBillOver
  <2>2. CASE Next
    <3>1. PICK r \in Rooms : /\ Steps(room[r], room'[r])
                             /\ \A q \in Rooms \ {r} : room'[q] = room[q]
      BY <2>2, OneRoomSteps
    <3>2. room[r].owed <= room[r].spent /\ room[r].owed \in Nat /\ room[r].spent \in Nat
      BY DEF RoomInv, Good, Covered, RoomState
    <3>3. OneBillOver(room'[r])
      <4>1. CASE room'[r].owed = room[r].owed
        BY <4>1 DEF OneBillOver
      <4>2. ASSUME room[r].spent < Budget, NEW bill \in Bills,
                   room'[r].owed = room[r].owed + bill
            PROVE room'[r].owed < Budget + bill
        <5>1. bill \in Nat /\ Budget \in Nat
          BY RoomAssumption
        <5> QED BY <3>2, <4>2, <5>1
      <4> QED BY <3>1, <4>1, <4>2 DEF Steps, Charged, OneBillOver
    <3>4. \A q \in Rooms : OneBillOver(room'[q])
      BY <3>1, <3>3
    <3> QED BY <3>4 DEF OneBillOver
  <2> QED BY <2>1, <2>2
<1> QED BY <1>1, <1>2, Invariant, PTL DEF Spec
=============================================================================
