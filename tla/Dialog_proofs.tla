--------------------------- MODULE Dialog_proofs ---------------------------
(* What the operator and his tasks say to each other, for any tasks, any      *)
(* number of messages and any number of pauses: answers match the questions,  *)
(* and nobody answers or raises a cap twice for one stop.                     *)
(*                                                                            *)
(* Most of what must hold is about one task. It is stated about the values a  *)
(* task has (its folder f, its handler s, the chat c, the kills k), so that   *)
(* an action is proved for the task it is about, and the others only see the  *)
(* chat grow.                                                                 *)
EXTENDS Dialog, FiniteSetTheorems, TLAPS

Messages == [task : Tasks, kind : Signals, round : Rounds, buttons : BOOLEAN]

(* A prompt once shown stays about the same task and questions.               *)
Grows(c, d) ==
  /\ Len(c) <= Len(d)
  /\ \A m \in 1..Len(c) : d[m].task = c[m].task /\ d[m].round = c[m].round

(* Message m of chat c asked task t the list n.                               *)
Asks(c, m, t, n) == m \in 1..Len(c) /\ c[m].task = t /\ c[m].round = n

(* The answers the dead man gave.                                             *)
Given(answers) == {a \in answers : a.by = Nobody /\ a.round # Guidance}

Typed(f, c) == f \in Folders(Len(c)) /\ (f.bucket = "active" => f.pending = None)

Awaits(t, f, c) ==
  f.pending # None /\ f.pending.msg \in 1..Len(c) => Asks(c, f.pending.msg, t, f.pending.round)

Answered(t, f, c) ==
  \A a \in f.answers : a.by \in 1..Len(c) => Asks(c, a.by, t, a.round)

Counts(f, k) ==
  /\ IsFiniteSet(Given(f.answers))
  /\ Cardinality(Given(f.answers)) <= f.resumes + k

(* A parked task still has its tap coming.                                    *)
Pays(f, k) ==
  /\ f.caps <= f.parks + k
  /\ f.bucket = "awaiting-input" => f.caps + 1 <= f.parks + k

FolderInv(t, f, c, k) ==
  Typed(f, c) /\ Awaits(t, f, c) /\ Answered(t, f, c) /\ Counts(f, k) /\ Pays(f, k)

(* A handler will write back the counter of the dead man as it is, and the id *)
(* of a message that asked what it files.                                     *)
SendInv(t, f, s, c) ==
  s # None =>
    /\ s \in Sends(Len(c))
    /\ s.snap.resumes = f.resumes
    /\ s.msg # 0 => Asks(c, s.msg, t, s.round)

DialogInv ==
  /\ DOMAIN folder = Tasks /\ folder = [t \in Tasks |-> folder[t]]
  /\ \A t \in Tasks : FolderInv(t, folder[t], chat, used["kill"])
  /\ \A t \in Tasks : SendInv(t, folder[t], send[t], chat)
  /\ post \in [Tasks -> {None} \cup [kind : Signals, round : Rounds]]
  /\ send \in [Tasks -> {None} \cup Sends(Len(chat))]
  /\ chat \in Seq(Messages)
  /\ bot \in {"up", "down"}
  /\ used \in [Counted -> Nat] /\ \A k \in Counted : used[k] <= Bound[k]

(* The types say what TypeOK says.                                            *)
LEMMA Shapes == DialogInv => TypeOK
<1> SUFFICES ASSUME DialogInv PROVE TypeOK
  OBVIOUS
<1>1. \A t \in Tasks : Typed(folder[t], chat)
  BY DEF DialogInv, FolderInv
<1>2. folder \in [Tasks -> Folders(Len(chat))]
  BY <1>1 DEF DialogInv, Typed
<1> QED BY <1>1, <1>2 DEF DialogInv, TypeOK, Typed, Messages

LEMMA GrowsItself ==
  ASSUME NEW c \in Seq(Messages) PROVE Grows(c, c)
BY DEF Grows

(* What holds of a task holds beside a longer chat and after more kills.      *)
LEMMA Widened ==
  ASSUME NEW t \in Tasks, NEW f, NEW s, NEW c \in Seq(Messages), NEW d \in Seq(Messages),
         NEW k \in Nat, NEW l \in Nat, k <= l, Grows(c, d),
         FolderInv(t, f, c, k), SendInv(t, f, s, c)
  PROVE  FolderInv(t, f, d, l) /\ SendInv(t, f, s, d)
<1>1. Len(c) \in Nat /\ Len(d) \in Nat /\ Len(c) <= Len(d)
  BY DEF Grows
<1>2. \A m, n : Asks(c, m, t, n) => Asks(d, m, t, n)
  BY <1>1 DEF Asks, Grows
<1>3. Pendings(Len(c)) \subseteq Pendings(Len(d))
  BY <1>1 DEF Pendings
<1>4. [round : Nat, by : 0..Len(c)] \subseteq [round : Nat, by : 0..Len(d)]
  BY <1>1
<1>5. Typed(f, d)
  BY <1>3, <1>4 DEF FolderInv, Typed, Folders
<1>6. f.pending \in Pendings(Len(c)) /\ f.answers \subseteq [round : Nat, by : 0..Len(c)]
  BY DEF FolderInv, Typed, Folders
<1>7. Awaits(t, f, d)
  <2> SUFFICES ASSUME f.pending # None, f.pending.msg \in 1..Len(d)
               PROVE  Asks(d, f.pending.msg, t, f.pending.round)
    BY DEF Awaits
  <2>1. f.pending.msg \in 1..Len(c)
    BY <1>1, <1>6, DialogAssumption DEF Pendings
  <2> QED BY <1>2, <2>1 DEF FolderInv, Awaits
<1>8. Answered(t, f, d)
  <2> SUFFICES ASSUME NEW a \in f.answers, a.by \in 1..Len(d) PROVE Asks(d, a.by, t, a.round)
    BY DEF Answered
  <2>1. a.by \in 1..Len(c)
    BY <1>1, <1>6
  <2> QED BY <1>2, <2>1 DEF FolderInv, Answered
<1>9. Counts(f, l)
  <2>1. f.resumes \in Nat /\ Cardinality(Given(f.answers)) \in Nat
    BY FS_CardinalityType, DialogAssumption DEF FolderInv, Typed, Folders, Counts
  <2> QED BY <2>1 DEF FolderInv, Counts
<1>10. Pays(f, l)
  BY DEF FolderInv, Pays, Typed, Folders
<1>11. SendInv(t, f, s, d)
  <2> SUFFICES ASSUME s # None
               PROVE s \in Sends(Len(d)) /\ s.snap.resumes = f.resumes
                     /\ (s.msg # 0 => Asks(d, s.msg, t, s.round))
    BY DEF SendInv
  <2>1. s \in Sends(Len(c))
    BY DEF SendInv
  <2>2. s \in Sends(Len(d))
    BY <1>1, <1>3, <2>1 DEF Sends
  <2> QED BY <1>2, <2>2 DEF SendInv
<1> QED BY <1>5, <1>7, <1>8, <1>9, <1>10, <1>11 DEF FolderInv

(* One task has changed, the handlers of others may have been cut.            *)
LEMMA OneTask ==
  ASSUME DialogInv, NEW t \in Tasks, NEW g,
         folder' = [folder EXCEPT ![t] = g],
         chat' \in Seq(Messages), Grows(chat, chat'),
         used' \in [Counted -> Nat], \A k \in Counted : used'[k] <= Bound[k],
         used["kill"] <= used'["kill"],
         bot' \in {"up", "down"},
         post' \in [Tasks -> {None} \cup [kind : Signals, round : Rounds]],
         send' = [u \in Tasks |-> send'[u]],
         \A u \in Tasks : u # t => send'[u] = send[u] \/ send'[u] = None,
         FolderInv(t, g, chat', used'["kill"]),
         SendInv(t, g, send'[t], chat')
  PROVE  DialogInv'
<1>1. used["kill"] \in Nat /\ used'["kill"] \in Nat /\ chat \in Seq(Messages)
  BY DEF DialogInv, Counted
<1>2. \A u \in Tasks : u # t =>
         FolderInv(u, folder[u], chat', used'["kill"]) /\ SendInv(u, folder[u], send[u], chat')
  BY <1>1, Widened DEF DialogInv
<1>3. /\ DOMAIN folder' = Tasks /\ folder' = [u \in Tasks |-> folder'[u]]
      /\ folder'[t] = g /\ \A u \in Tasks : u # t => folder'[u] = folder[u]
  BY DEF DialogInv
<1>4. \A u \in Tasks : FolderInv(u, folder'[u], chat', used'["kill"])
  BY <1>2, <1>3
<1>5. \A u \in Tasks : SendInv(u, folder'[u], send'[u], chat')
  BY <1>2, <1>3 DEF SendInv
<1>6. send' \in [Tasks -> {None} \cup Sends(Len(chat'))]
  BY <1>5 DEF SendInv
<1> QED BY <1>3, <1>4, <1>5, <1>6 DEF DialogInv

(* The same where no message is on its way.                                   *)
LEMMA OneFolder ==
  ASSUME DialogInv, NEW t \in Tasks, NEW g,
         folder' = [folder EXCEPT ![t] = g],
         UNCHANGED <<send, chat, bot>>,
         post' = post \/ post' \in [Tasks -> {None} \cup [kind : Signals, round : Rounds]],
         used' \in [Counted -> Nat], \A k \in Counted : used'[k] <= Bound[k],
         used["kill"] <= used'["kill"],
         FolderInv(t, g, chat, used'["kill"]),
         g.resumes = folder[t].resumes \/ send[t] = None
  PROVE  DialogInv'
<1>1. chat' \in Seq(Messages) /\ Grows(chat, chat') /\ send' = [u \in Tasks |-> send'[u]]
  BY GrowsItself DEF DialogInv
<1>2. SendInv(t, g, send'[t], chat')
  BY DEF DialogInv, SendInv
<1> QED BY <1>1, <1>2, OneTask DEF DialogInv

LEMMA Spent ==
  ASSUME DialogInv, NEW k \in Counted, Within(k)
  PROVE  /\ used' \in [Counted -> Nat] /\ \A j \in Counted : used'[j] <= Bound[j]
         /\ used["kill"] <= used'["kill"]
         /\ k = "kill" => used'["kill"] = used["kill"] + 1
<1>1. used \in [Counted -> Nat] /\ \A j \in Counted : used[j] <= Bound[j]
  BY DEF DialogInv
<1>2. used[k] < Bound[k] /\ used' = [used EXCEPT ![k] = used[k] + 1] /\ Bound[k] \in Nat
  BY DialogAssumption DEF Within
<1>3. used' \in [Counted -> Nat] /\ used'[k] = used[k] + 1 /\ used[k] \in Nat
  BY <1>1, <1>2
<1>4. \A j \in Counted : j # k => used'[j] = used[j]
  BY <1>1, <1>2
<1>5. used'[k] <= Bound[k]
  BY <1>2, <1>3
<1>6. "kill" \in Counted
  BY DEF Counted
<1>7. used["kill"] \in Nat
  BY <1>1, <1>6
<1> QED BY <1>1, <1>3, <1>4, <1>5, <1>6, <1>7

LEMMA Unspent ==
  ASSUME DialogInv, used' = used
  PROVE  /\ used' \in [Counted -> Nat] /\ \A j \in Counted : used'[j] <= Bound[j]
         /\ used["kill"] <= used'["kill"] /\ used'["kill"] = used["kill"]
<1>1. used \in [Counted -> Nat] /\ \A j \in Counted : used[j] <= Bound[j]
  BY DEF DialogInv
<1>2. used["kill"] \in Nat
  BY <1>1 DEF Counted
<1> QED BY <1>1, <1>2

(* A folder that is moved about, asked or released keeps its answers.         *)
LEMMA Moved ==
  ASSUME NEW t \in Tasks, NEW f, NEW g, NEW c \in Seq(Messages), NEW k \in Nat, NEW l \in Nat,
         k <= l,
         FolderInv(t, f, c, k), Typed(g, c), Pays(g, l),
         g.pending \in {f.pending, None} \/ g.pending.msg = None,
         g.answers = f.answers, g.resumes = f.resumes
  PROVE  FolderInv(t, g, c, l)
<1>0. FolderInv(t, f, c, l)
  BY GrowsItself, Widened DEF SendInv
<1>1. Awaits(t, g, c)
  BY <1>0, DialogAssumption DEF FolderInv, Awaits
<1>2. Answered(t, g, c) /\ Counts(g, l)
  BY <1>0 DEF FolderInv, Answered, Counts
<1> QED BY <1>1, <1>2 DEF FolderInv

(* What an action finds.                                                      *)
LEMMA Found ==
  ASSUME DialogInv, NEW t \in Tasks
  PROVE  /\ FolderInv(t, folder[t], chat, used["kill"]) /\ SendInv(t, folder[t], send[t], chat)
         /\ used["kill"] \in Nat /\ chat \in Seq(Messages) /\ Len(chat) \in Nat
         /\ folder[t] \in Folders(Len(chat))
         /\ folder[t].caps \in Nat /\ folder[t].parks \in Nat /\ folder[t].asked \in Nat
         /\ folder[t].resumes \in 0..AutoResumes
         /\ folder[t].caps <= folder[t].parks + used["kill"]
<1>1. /\ FolderInv(t, folder[t], chat, used["kill"]) /\ SendInv(t, folder[t], send[t], chat)
      /\ used["kill"] \in Nat /\ chat \in Seq(Messages)
  BY DEF DialogInv, Counted
<1>2. Len(chat) \in Nat
  BY <1>1
<1>3. folder[t] \in Folders(Len(chat)) /\ folder[t].caps <= folder[t].parks + used["kill"]
  BY <1>1 DEF FolderInv, Typed, Pays
<1>4. /\ folder[t].caps \in Nat /\ folder[t].parks \in Nat /\ folder[t].asked \in Nat
      /\ folder[t].resumes \in 0..AutoResumes
  BY <1>3 DEF Folders
<1> QED BY <1>1, <1>2, <1>3, <1>4

LEMMA IngestedKeeps == ASSUME DialogInv, NEW t \in Tasks, Ingested(t) PROVE DialogInv'
<1> DEFINE f == folder[t]
           g == [f EXCEPT !.bucket = "active", !.stage = "received", !.pending = None]
<1>1. Typed(g, chat) /\ g.answers = f.answers /\ g.resumes = f.resumes /\ g.pending = None
  BY ZenonT(20), Found DEF Typed, Folders, Stages, Buckets, Pendings
<1>2. g.caps = f.caps /\ g.parks = f.parks /\ g.bucket = "active"
  BY Found DEF Folders
<1>3. folder' = [folder EXCEPT ![t] = g]
  BY DEF Ingested, Becomes
<1> HIDE DEF g
<1>4. Pays(g, used["kill"])
  BY <1>2, Found DEF Pays
<1>5. FolderInv(t, g, chat, used["kill"])
  BY <1>1, <1>4, Found, Moved
<1>6. UNCHANGED <<post, send, chat, bot>> /\ used' = used
  BY DEF Ingested
<1> QED BY <1>1, <1>3, <1>5, <1>6, Unspent, OneFolder

(* A stop pays for the tap that ends it.                                      *)
LEMMA Parks ==
  ASSUME DialogInv, NEW t \in Tasks, folder[t].bucket = "active", NEW f \in Folders(Len(chat)),
         NEW stage \in Stages,
         f.answers = folder[t].answers, f.resumes = folder[t].resumes,
         f.caps = folder[t].caps, f.parks = folder[t].parks,
         f.pending \in {folder[t].pending, None} \/ f.pending.msg = None
  PROVE  /\ FolderInv(t, ParkedBy(f, stage), chat, used["kill"])
         /\ ParkedBy(f, stage).resumes = folder[t].resumes
<1> DEFINE g == ParkedBy(f, stage)
<1>0. f.parks + 1 \in Nat
  BY DEF Folders
<1>1. /\ g \in Folders(Len(chat)) /\ g.bucket = "awaiting-input"
      /\ g.answers = f.answers /\ g.resumes = f.resumes /\ g.pending = f.pending
      /\ g.caps = f.caps /\ g.parks = f.parks + 1
  BY <1>0 DEF ParkedBy, Folders, Buckets
<1> HIDE DEF g
<1>2. Typed(g, chat)
  BY <1>1 DEF Typed
<1>3. Pays(g, used["kill"])
  BY <1>1, Found DEF Pays
<1>4. FolderInv(t, g, chat, used["kill"])
  BY SMTT(20), <1>1, <1>2, <1>3, Found, Moved
<1> QED BY <1>1, <1>4 DEF g

LEMMA BriefAsksKeeps == ASSUME DialogInv, NEW t \in Tasks, BriefAsks(t) PROVE DialogInv'
<1> DEFINE n == folder[t].asked + 1
           f == [folder[t] EXCEPT !.brief = "open", !.asked = n, !.payload = n,
                                  !.pending = [round |-> n, msg |-> None]]
           g == ParkedBy(f, "awaiting_clarify")
<1>1. n \in Rounds
  BY Found DEF Rounds
<1>2. /\ folder[t].bucket = "active" /\ Within("pause") /\ UNCHANGED <<send, chat, bot>>
      /\ folder' = [folder EXCEPT ![t] = g]
      /\ post' = [post EXCEPT ![t] = [kind |-> "clarify", round |-> n]]
  BY DEF BriefAsks, Working, Becomes
<1> HIDE DEF n
<1>3. [round |-> n, msg |-> None] \in Pendings(Len(chat))
  BY <1>1 DEF Pendings
<1>4. /\ f \in Folders(Len(chat)) /\ f.pending.msg = None
      /\ f.answers = folder[t].answers /\ f.resumes = folder[t].resumes
      /\ f.caps = folder[t].caps /\ f.parks = folder[t].parks
  BY <1>1, <1>3, Found DEF Folders, Rounds
<1> HIDE DEF f
<1>5. FolderInv(t, g, chat, used["kill"]) /\ g.resumes = folder[t].resumes
  BY <1>2, <1>4, Parks DEF Stages
<1> HIDE DEF g
<1>6. post' \in [Tasks -> {None} \cup [kind : Signals, round : Rounds]]
  BY <1>1, <1>2 DEF DialogInv, Signals
<1>7. used'["kill"] \in Nat /\ used["kill"] <= used'["kill"]
      /\ used' \in [Counted -> Nat] /\ \A k \in Counted : used'[k] <= Bound[k]
  BY <1>2, Spent DEF Counted
<1>8. FolderInv(t, g, chat, used'["kill"])
  BY <1>5, <1>7, Found, GrowsItself, Widened DEF SendInv
<1> QED BY <1>2, <1>5, <1>6, <1>7, <1>8, OneFolder

LEMMA BriefResolvesKeeps == ASSUME DialogInv, NEW t \in Tasks, BriefResolves(t) PROVE DialogInv'
<1> DEFINE g == [folder[t] EXCEPT !.brief = "clear"]
<1>1. /\ g \in Folders(Len(chat)) /\ g.pending = folder[t].pending /\ g.bucket = folder[t].bucket
      /\ g.answers = folder[t].answers /\ g.resumes = folder[t].resumes
      /\ g.caps = folder[t].caps /\ g.parks = folder[t].parks
  BY Found DEF Folders
<1>2. folder' = [folder EXCEPT ![t] = g] /\ UNCHANGED <<post, send, chat, bot>> /\ used' = used
  BY DEF BriefResolves, Becomes
<1> HIDE DEF g
<1>3. Typed(g, chat) /\ Pays(g, used["kill"])
  BY <1>1, Found DEF FolderInv, Typed, Pays
<1>4. FolderInv(t, g, chat, used["kill"])
  BY <1>1, <1>3, Found, Moved
<1> QED BY <1>1, <1>2, <1>4, Unspent, OneFolder

LEMMA Briefs ==
  ASSUME DialogInv, NEW t \in Tasks, NEW b \in BriefAfter(t) \cup {folder[t].brief}
  PROVE  LET f == [folder[t] EXCEPT !.brief = b] IN
         /\ f \in Folders(Len(chat)) /\ f.pending = folder[t].pending /\ f.bucket = folder[t].bucket
         /\ f.answers = folder[t].answers /\ f.resumes = folder[t].resumes
         /\ f.caps = folder[t].caps /\ f.parks = folder[t].parks
<1>1. b \in {"none", "open", "clear"}
  BY Found DEF BriefAfter, Folders
<1> QED BY <1>1, Found DEF Folders

LEMMA BudgetParkedKeeps == ASSUME DialogInv, NEW t \in Tasks, BudgetParked(t) PROVE DialogInv'
<1>1. PICK b \in BriefAfter(t) :
        Becomes(t, ParkedBy([folder[t] EXCEPT !.brief = b], "awaiting-input"))
  BY DEF BudgetParked
<1> DEFINE f == [folder[t] EXCEPT !.brief = b]
           g == ParkedBy(f, "awaiting-input")
<1>2. /\ folder[t].bucket = "active" /\ Within("stop") /\ UNCHANGED <<send, chat, bot>>
      /\ folder' = [folder EXCEPT ![t] = g]
      /\ post' = [post EXCEPT ![t] = [kind |-> "budget", round |-> folder[t].parks + 1]]
  BY <1>1 DEF BudgetParked, Working, Becomes
<1>3. /\ f \in Folders(Len(chat)) /\ f.pending = folder[t].pending
      /\ f.answers = folder[t].answers /\ f.resumes = folder[t].resumes
      /\ f.caps = folder[t].caps /\ f.parks = folder[t].parks
  BY Briefs
<1> HIDE DEF f
<1>4. FolderInv(t, g, chat, used["kill"]) /\ g.resumes = folder[t].resumes
  BY <1>2, <1>3, Parks DEF Stages
<1> HIDE DEF g
<1>5. folder[t].parks + 1 \in Rounds
  BY Found DEF Rounds
<1>6. post' \in [Tasks -> {None} \cup [kind : Signals, round : Rounds]]
  BY <1>2, <1>5 DEF DialogInv, Signals
<1>7. used'["kill"] \in Nat /\ used["kill"] <= used'["kill"]
      /\ used' \in [Counted -> Nat] /\ \A k \in Counted : used'[k] <= Bound[k]
  BY <1>2, Spent DEF Counted
<1>8. FolderInv(t, g, chat, used'["kill"])
  BY <1>4, <1>7, Found, GrowsItself, Widened DEF SendInv
<1> QED BY <1>2, <1>4, <1>6, <1>7, <1>8, OneFolder

LEMMA HandedOffKeeps == ASSUME DialogInv, NEW t \in Tasks, HandedOff(t) PROVE DialogInv'
<1>1. PICK b \in BriefAfter(t) \cup {folder[t].brief} :
        LET f == [folder[t] EXCEPT !.brief = b] IN
        \/ Becomes(t, [f EXCEPT !.bucket = "failed", !.stage = "failed"])
        \/ Becomes(t, ParkedBy(f, "awaiting-input"))
  BY DEF HandedOff
<1> DEFINE f == [folder[t] EXCEPT !.brief = b]
           h == [f EXCEPT !.bucket = "failed", !.stage = "failed"]
<1>2. folder[t].bucket = "active" /\ UNCHANGED <<post, send, chat, bot>> /\ used' = used
  BY DEF HandedOff, Working
<1>3. /\ f \in Folders(Len(chat)) /\ f.pending = folder[t].pending
      /\ f.answers = folder[t].answers /\ f.resumes = folder[t].resumes
      /\ f.caps = folder[t].caps /\ f.parks = folder[t].parks
  BY Briefs
<1>4. \/ folder' = [folder EXCEPT ![t] = h]
      \/ folder' = [folder EXCEPT ![t] = ParkedBy(f, "awaiting-input")]
  BY <1>1 DEF Becomes
<1> HIDE DEF f
<1>5. CASE folder' = [folder EXCEPT ![t] = ParkedBy(f, "awaiting-input")]
  <2> DEFINE g == ParkedBy(f, "awaiting-input")
  <2>1. FolderInv(t, g, chat, used["kill"]) /\ g.resumes = folder[t].resumes
    BY <1>2, <1>3, Parks DEF Stages
  <2> HIDE DEF g
  <2>2. folder' = [folder EXCEPT ![t] = g]
    BY <1>5 DEF g
  <2> QED BY <1>2, <2>1, <2>2, Unspent, OneFolder
<1>6. CASE folder' = [folder EXCEPT ![t] = h]
  <2>1. /\ h \in Folders(Len(chat)) /\ h.pending = f.pending /\ h.bucket = "failed"
        /\ h.answers = f.answers /\ h.resumes = f.resumes /\ h.caps = f.caps /\ h.parks = f.parks
    BY <1>3 DEF Folders, Buckets, Stages
  <2> HIDE DEF h
  <2>2. Typed(h, chat) /\ Pays(h, used["kill"])
    BY <1>3, <2>1, Found DEF Typed, Pays
  <2>3. FolderInv(t, h, chat, used["kill"])
    BY <1>3, <2>1, <2>2, Found, Moved
  <2> QED BY <1>2, <1>3, <1>6, <2>1, <2>3, Unspent, OneFolder
<1> QED BY <1>4, <1>5, <1>6

LEMMA FinishedKeeps == ASSUME DialogInv, NEW t \in Tasks, Finished(t) PROVE DialogInv'
<1> DEFINE g == [folder[t] EXCEPT !.bucket = "done", !.stage = "done"]
<1>1. /\ g \in Folders(Len(chat)) /\ g.pending = folder[t].pending /\ g.bucket = "done"
      /\ g.answers = folder[t].answers /\ g.resumes = folder[t].resumes
      /\ g.caps = folder[t].caps /\ g.parks = folder[t].parks
  BY Found DEF Folders, Buckets, Stages
<1>2. folder' = [folder EXCEPT ![t] = g] /\ UNCHANGED <<post, send, chat, bot>> /\ used' = used
  BY DEF Finished, Becomes
<1> HIDE DEF g
<1>3. Typed(g, chat) /\ Pays(g, used["kill"])
  BY <1>1, Found DEF FolderInv, Typed, Pays
<1>4. FolderInv(t, g, chat, used["kill"])
  BY <1>1, <1>3, Found, Moved
<1> QED BY <1>1, <1>2, <1>4, Unspent, OneFolder

-----------------------------------------------------------------------------
(* The handlers.                                                              *)

(* No folder has changed, and the handlers of others are as they were or cut. *)
LEMMA NoFolder ==
  ASSUME DialogInv, NEW t \in Tasks,
         UNCHANGED <<folder, used>>,
         chat' \in Seq(Messages), Grows(chat, chat'),
         bot' \in {"up", "down"},
         post' = post \/ post' \in [Tasks -> {None} \cup [kind : Signals, round : Rounds]],
         send' = [u \in Tasks |-> send'[u]],
         \A u \in Tasks : u # t => send'[u] = send[u] \/ send'[u] = None,
         SendInv(t, folder[t], send'[t], chat')
  PROVE  DialogInv'
<1>1. folder' = [folder EXCEPT ![t] = folder[t]]
  BY DEF DialogInv
<1>2. FolderInv(t, folder[t], chat', used'["kill"])
  BY Found, Unspent, Widened DEF SendInv
<1> QED BY <1>1, <1>2, Unspent, OneTask DEF DialogInv

LEMMA NotifiedKeeps == ASSUME DialogInv, NEW t \in Tasks, Notified(t) PROVE DialogInv'
<1> DEFINE s == [kind |-> post[t].kind, round |-> post[t].round, snap |-> StateOf(folder[t]), msg |-> 0]
<1>1. /\ post[t] # None /\ post' = [post EXCEPT ![t] = None] /\ UNCHANGED <<folder, chat, bot, used>>
      /\ send' = [send EXCEPT ![t] = s] \/ send' = send
  BY DEF Notified
<1>2. post[t] \in [kind : Signals, round : Rounds]
  BY <1>1 DEF DialogInv
<1>3. StateOf(folder[t]) \in [stage : Stages, pending : Pendings(Len(chat)), resumes : 0..AutoResumes]
      /\ StateOf(folder[t]).resumes = folder[t].resumes
  BY Found DEF StateOf, Folders
<1>4. s \in Sends(Len(chat)) /\ s.msg = 0 /\ s.snap.resumes = folder[t].resumes
  BY <1>2, <1>3, Found DEF Sends
<1> HIDE DEF s
<1>5. SendInv(t, folder[t], s, chat)
  BY <1>4 DEF SendInv
<1>6. SendInv(t, folder[t], send'[t], chat') /\ send' = [u \in Tasks |-> send'[u]]
      /\ \A u \in Tasks : u # t => send'[u] = send[u] \/ send'[u] = None
  BY <1>1, <1>5 DEF DialogInv
<1>7. post' \in [Tasks -> {None} \cup [kind : Signals, round : Rounds]]
  BY <1>1 DEF DialogInv
<1>8. chat' \in Seq(Messages) /\ Grows(chat, chat') /\ bot' \in {"up", "down"}
  BY <1>1, GrowsItself DEF DialogInv
<1> QED BY <1>1, <1>6, <1>7, <1>8, NoFolder

LEMMA ShownKeeps == ASSUME DialogInv, NEW t \in Tasks, Shown(t) PROVE DialogInv'
<1> DEFINE p == [task |-> t, kind |-> send[t].kind, round |-> send[t].round,
                 buttons |-> send[t].kind = "budget"]
           n == Len(chat) + 1
           s == [send[t] EXCEPT !.msg = n]
<1>1. /\ send[t] # None /\ chat' = Append(chat, p) /\ UNCHANGED <<folder, post, bot, used>>
      /\ send' = [send EXCEPT ![t] = s]
  BY DEF Shown
<1>2. send[t] \in Sends(Len(chat)) /\ send[t].snap.resumes = folder[t].resumes
  BY <1>1, Found DEF SendInv
<1>3. p \in Messages /\ p.task = t /\ p.round = send[t].round
  BY <1>2 DEF Messages, Sends
<1> HIDE DEF p
<1>4. /\ chat' \in Seq(Messages) /\ Len(chat') = n /\ n \in Nat /\ chat'[n] = p
      /\ \A m \in 1..Len(chat) : chat'[m] = chat[m]
  BY <1>1, <1>3, Found
<1>5. Grows(chat, chat')
  BY <1>4, Found DEF Grows
<1>6. Pendings(Len(chat)) \subseteq Pendings(n) /\ n \in 0..n /\ n \in 1..n
  BY <1>4, Found DEF Pendings
<1>7. s.msg = n /\ s.round = send[t].round /\ s.snap = send[t].snap /\ s.kind = send[t].kind
  BY <1>2 DEF Sends
<1>8. s \in Sends(n)
  BY <1>2, <1>6 DEF Sends
<1> HIDE DEF s
<1>9. Asks(chat', n, t, s.round)
  BY <1>3, <1>4, <1>6, <1>7 DEF Asks
<1>10. SendInv(t, folder[t], s, chat')
  BY <1>2, <1>4, <1>7, <1>8, <1>9 DEF SendInv
<1>11. SendInv(t, folder[t], send'[t], chat') /\ send' = [u \in Tasks |-> send'[u]]
      /\ \A u \in Tasks : u # t => send'[u] = send[u] \/ send'[u] = None
  BY <1>1, <1>10 DEF DialogInv
<1> QED BY <1>1, <1>4, <1>5, <1>11, NoFolder DEF DialogInv

LEMMA SendFailsKeeps == ASSUME DialogInv, NEW t \in Tasks, SendFails(t) PROVE DialogInv'
<1>1. send' = [send EXCEPT ![t] = None] /\ UNCHANGED <<folder, post, chat, bot, used>>
  BY DEF SendFails
<1>2. SendInv(t, folder[t], send'[t], chat') /\ send' = [u \in Tasks |-> send'[u]]
      /\ \A u \in Tasks : u # t => send'[u] = send[u] \/ send'[u] = None
  BY <1>1 DEF DialogInv, SendInv
<1> QED BY <1>1, <1>2, Found, GrowsItself, NoFolder DEF DialogInv

LEMMA SendReturnsKeeps == ASSUME DialogInv, NEW t \in Tasks, SendReturns(t) PROVE DialogInv'
<1>1. /\ send[t] # None /\ send[t].msg # 0 /\ send' = [send EXCEPT ![t] = None]
      /\ UNCHANGED <<post, chat, bot, used>>
  BY DEF SendReturns
<1>2. SendInv(t, folder[t], send'[t], chat') /\ send' = [u \in Tasks |-> send'[u]]
      /\ \A u \in Tasks : u # t => send'[u] = send[u] \/ send'[u] = None
  BY <1>1 DEF DialogInv, SendInv
<1>3. CASE folder' = folder
  BY <1>1, <1>2, <1>3, Found, GrowsItself, NoFolder DEF DialogInv
<1>4. CASE /\ Parked(t)
           /\ Becomes(t, [folder[t] EXCEPT
                !.stage = send[t].snap.stage, !.resumes = send[t].snap.resumes,
                !.pending = [round |-> send[t].round, msg |-> send[t].msg]])
  <2> DEFINE g == [folder[t] EXCEPT
                !.stage = send[t].snap.stage, !.resumes = send[t].snap.resumes,
                !.pending = [round |-> send[t].round, msg |-> send[t].msg]]
  <2>1. /\ send[t] \in Sends(Len(chat)) /\ send[t].snap.resumes = folder[t].resumes
        /\ Asks(chat, send[t].msg, t, send[t].round)
    BY <1>1, Found DEF SendInv
  <2>2. send[t].snap.stage \in Stages /\ send[t].round \in Rounds /\ send[t].msg \in 1..Len(chat)
    BY <2>1, Found DEF Sends, Asks
  <2>3. [round |-> send[t].round, msg |-> send[t].msg] \in Pendings(Len(chat))
    BY <2>2 DEF Pendings
  <2>4. /\ g \in Folders(Len(chat)) /\ g.bucket = "awaiting-input" /\ g.answers = folder[t].answers
        /\ g.pending = [round |-> send[t].round, msg |-> send[t].msg]
        /\ g.resumes = folder[t].resumes /\ g.caps = folder[t].caps /\ g.parks = folder[t].parks
    BY <1>4, <2>1, <2>2, <2>3, Found DEF Folders, Parked
  <2> HIDE DEF g
  <2>5. Typed(g, chat) /\ Pays(g, used["kill"])
    BY <1>4, <2>4, Found DEF FolderInv, Typed, Pays, Parked
  <2>6. Awaits(t, g, chat)
    BY <2>1, <2>4 DEF Awaits
  <2>7. Answered(t, g, chat) /\ Counts(g, used["kill"])
    BY <2>4, Found DEF FolderInv, Answered, Counts
  <2>8. FolderInv(t, g, chat, used["kill"])
    BY <2>5, <2>6, <2>7 DEF FolderInv
  <2>9. folder' = [folder EXCEPT ![t] = g]
    BY <1>4 DEF Becomes, g
  <2>10. SendInv(t, g, send'[t], chat')
    BY <1>1 DEF DialogInv, SendInv
  <2>11. chat' \in Seq(Messages) /\ Grows(chat, chat') /\ chat' = chat /\ bot' \in {"up", "down"}
    BY <1>1, Found, GrowsItself DEF DialogInv
  <2>12. post' \in [Tasks -> {None} \cup [kind : Signals, round : Rounds]]
    BY <1>1 DEF DialogInv
  <2> QED BY <1>1, <1>2, <2>8, <2>9, <2>10, <2>11, <2>12, Unspent, OneTask
<1> QED BY <1>3, <1>4 DEF SendReturns

LEMMA BotKeeps == ASSUME DialogInv, BotStops \/ BotStarts PROVE DialogInv'
<1>1. /\ UNCHANGED <<folder, post, chat, used>> /\ bot' \in {"up", "down"}
      /\ send' = send \/ send' = [t \in Tasks |-> None]
  BY DEF BotStops, BotStarts
<1>2. \A t \in Tasks : SendInv(t, folder[t], send'[t], chat)
  BY <1>1 DEF DialogInv, SendInv
<1>3. send' \in [Tasks -> {None} \cup Sends(Len(chat))]
  BY <1>1 DEF DialogInv
<1> QED BY <1>1, <1>2, <1>3 DEF DialogInv

-----------------------------------------------------------------------------
(* The operator.                                                              *)

LEMMA ReplyKeeps == ASSUME DialogInv, NEW m \in DOMAIN chat, ReplyAccepted(m) PROVE DialogInv'
<1>1. PICK t \in Owners(m) :
        /\ Parked(t)
        /\ Becomes(t, [folder[t] EXCEPT
             !.answers = folder[t].answers \cup {[round |-> folder[t].pending.round, by |-> m]},
             !.pending = None, !.payload = 0, !.stage = "inbox", !.bucket = "inbox"])
  BY DEF ReplyAccepted
<1> DEFINE a == [round |-> folder[t].pending.round, by |-> m]
           g == [folder[t] EXCEPT
             !.answers = folder[t].answers \cup {a},
             !.pending = None, !.payload = 0, !.stage = "inbox", !.bucket = "inbox"]
<1>2. /\ t \in Tasks /\ folder[t].pending # None /\ folder[t].pending.msg = m
      /\ folder[t].bucket = "awaiting-input"
      /\ folder' = [folder EXCEPT ![t] = g] /\ UNCHANGED <<post, send, chat, bot>> /\ used' = used
  BY <1>1 DEF ReplyAccepted, Owners, Parked, Becomes
<1>3. m \in 1..Len(chat) /\ m # 0
  BY Found, <1>2
<1>4. folder[t].pending \in Pendings(Len(chat))
  BY <1>2, Found DEF Folders
<1>5. a \in [round : Nat, by : 0..Len(chat)] /\ a.by = m /\ Asks(chat, m, t, a.round)
  BY <1>2, <1>3, <1>4, Found DEF Pendings, Rounds, FolderInv, Awaits
<1> HIDE DEF a
<1>6. /\ g \in Folders(Len(chat)) /\ g.pending = None /\ g.bucket = "inbox"
      /\ g.answers = folder[t].answers \cup {a} /\ g.resumes = folder[t].resumes
      /\ g.caps = folder[t].caps /\ g.parks = folder[t].parks
  BY ZenonT(20), <1>2, <1>5, Found DEF Folders, Pendings, Buckets, Stages
<1> HIDE DEF g
<1>7. Typed(g, chat) /\ Awaits(t, g, chat) /\ Pays(g, used["kill"])
  BY <1>2, <1>6, Found DEF Typed, Awaits, Pays
<1>8. Answered(t, g, chat)
  BY <1>2, <1>5, <1>6, Found DEF FolderInv, Answered
<1>9. Counts(g, used["kill"])
  <2>1. Given(g.answers) = Given(folder[t].answers)
    BY <1>3, <1>5, <1>6 DEF Given, Nobody
  <2> QED BY <1>2, <1>6, <2>1, Found DEF FolderInv, Counts
<1>10. FolderInv(t, g, chat, used["kill"])
  BY <1>7, <1>8, <1>9 DEF FolderInv
<1> QED BY <1>2, <1>6, <1>10, Unspent, OneFolder

(* Buttons that go, and an edit that is refused.                              *)
LEMMA Edits ==
  ASSUME DialogInv, NEW m \in DOMAIN chat, Edited(m)
  PROVE  /\ chat' \in Seq(Messages) /\ Grows(chat, chat')
         /\ used' \in [Counted -> Nat] /\ \A k \in Counted : used'[k] <= Bound[k]
         /\ used["kill"] <= used'["kill"] /\ used'["kill"] \in Nat
<1>1. CASE chat' = [chat EXCEPT ![m].buttons = FALSE] /\ used' = used
  <2>1. chat \in Seq(Messages) /\ chat[m] \in Messages
    BY DEF DialogInv
  <2>2. [chat[m] EXCEPT !.buttons = FALSE] \in Messages
    BY <2>1 DEF Messages
  <2>3. chat' = [chat EXCEPT ![m] = [chat[m] EXCEPT !.buttons = FALSE]]
    BY <1>1
  <2>4. chat' \in Seq(Messages)
    BY <2>1, <2>2, <2>3
  <2>5. Len(chat') = Len(chat) /\ DOMAIN chat' = DOMAIN chat /\ Len(chat) \in Nat
        /\ DOMAIN chat = 1..Len(chat)
    BY <2>1, <2>3, <2>4
  <2>6. \A n \in 1..Len(chat) : chat'[n].task = chat[n].task /\ chat'[n].round = chat[n].round
    BY <2>1, <2>3, <2>5 DEF Messages
  <2>7. used'["kill"] \in Nat
    BY <1>1 DEF DialogInv, Counted
  <2> QED BY <1>1, <2>4, <2>5, <2>6, <2>7, Unspent DEF Grows
<1>2. CASE Within("slip") /\ chat' = chat
  BY <1>2, Spent, GrowsItself DEF DialogInv, Counted
<1> QED BY <1>1, <1>2 DEF Edited

LEMMA TapFound ==
  ASSUME DialogInv, NEW m \in DOMAIN chat
  PROVE  chat[m].task \in Tasks
<1>1. chat[m] \in Messages
  BY DEF DialogInv
<1> QED BY <1>1 DEF Messages

(* A tap moves a folder, and the message loses its buttons or not.            *)
LEMMA Tap ==
  ASSUME DialogInv, NEW m \in DOMAIN chat, NEW t \in Tasks, NEW g,
         Edited(m), UNCHANGED <<post, send, bot>>,
         folder' = [folder EXCEPT ![t] = g],
         FolderInv(t, g, chat, used["kill"]), g.resumes = folder[t].resumes
  PROVE  DialogInv'
<1>1. SendInv(t, g, send[t], chat)
  BY Found DEF SendInv
<1>2. FolderInv(t, g, chat', used'["kill"]) /\ SendInv(t, g, send'[t], chat')
  BY <1>1, Found, Edits, Widened
<1> QED BY <1>2, Edits, OneTask DEF DialogInv

LEMMA ContinuedKeeps == ASSUME DialogInv, NEW m \in DOMAIN chat, Continued(m) PROVE DialogInv'
<1> DEFINE t == chat[m].task
           g == [folder[t] EXCEPT !.caps = folder[t].caps + 1, !.stage = "inbox", !.bucket = "inbox"]
<1>1. t \in Tasks
  BY TapFound
<1>2. /\ folder[t].bucket = "awaiting-input" /\ folder' = [folder EXCEPT ![t] = g]
      /\ Edited(m) /\ UNCHANGED <<post, send, bot>>
  BY DEF Continued, Parked, Becomes
<1> HIDE DEF t
<1>3. folder[t].caps + 1 \in Nat /\ folder[t].caps + 1 <= folder[t].parks + used["kill"]
  BY <1>1, <1>2, Found DEF FolderInv, Pays
<1>4. /\ g \in Folders(Len(chat)) /\ g.pending = folder[t].pending /\ g.bucket = "inbox"
      /\ g.answers = folder[t].answers /\ g.resumes = folder[t].resumes
      /\ g.caps = folder[t].caps + 1 /\ g.parks = folder[t].parks
  BY <1>1, <1>3, Found DEF Folders, Buckets, Stages
<1> HIDE DEF g
<1>5. Typed(g, chat) /\ Pays(g, used["kill"])
  BY <1>3, <1>4 DEF Typed, Pays
<1>6. FolderInv(t, g, chat, used["kill"])
  BY <1>1, <1>4, <1>5, Found, Moved
<1> QED BY <1>1, <1>2, <1>4, <1>6, Tap

LEMMA ContinueCutKeeps == ASSUME DialogInv, NEW m \in DOMAIN chat, ContinueCut(m) PROVE DialogInv'
<1> DEFINE t == chat[m].task
           g == [folder[t] EXCEPT !.caps = folder[t].caps + 1]
<1>1. t \in Tasks
  BY TapFound
<1>2. /\ folder[t].bucket = "awaiting-input" /\ folder' = [folder EXCEPT ![t] = g]
      /\ Within("kill") /\ bot' = "down" /\ send' = [u \in Tasks |-> None]
      /\ UNCHANGED <<post, chat>>
  BY DEF ContinueCut, Parked, Becomes
<1> HIDE DEF t
<1>3. /\ used' \in [Counted -> Nat] /\ \A k \in Counted : used'[k] <= Bound[k]
      /\ used["kill"] <= used'["kill"] /\ used'["kill"] = used["kill"] + 1 /\ used'["kill"] \in Nat
  BY <1>2, Spent DEF Counted
<1>0. folder[t].caps + 1 \in Nat /\ folder[t] \in Folders(Len(chat))
  BY <1>1, Found
<1>4. /\ g \in Folders(Len(chat)) /\ g.pending = folder[t].pending /\ g.bucket = "awaiting-input"
      /\ g.answers = folder[t].answers /\ g.resumes = folder[t].resumes
      /\ g.caps = folder[t].caps + 1 /\ g.parks = folder[t].parks
  BY <1>0, <1>2 DEF Folders
<1> HIDE DEF g
<1>5. folder[t].caps + 1 <= folder[t].parks + used["kill"]
  BY <1>1, <1>2, Found DEF FolderInv, Pays
<1>6. Typed(g, chat) /\ Pays(g, used'["kill"])
  BY <1>1, <1>3, <1>4, <1>5, Found DEF Typed, Pays
<1>7. FolderInv(t, g, chat, used'["kill"])
  BY <1>1, <1>3, <1>4, <1>6, Found, Moved
<1>8. SendInv(t, g, send'[t], chat') /\ send' = [u \in Tasks |-> send'[u]]
      /\ \A u \in Tasks : u # t => send'[u] = send[u] \/ send'[u] = None
  BY <1>1, <1>2 DEF SendInv
<1>9. chat' \in Seq(Messages) /\ Grows(chat, chat') /\ chat' = chat
      /\ post' \in [Tasks -> {None} \cup [kind : Signals, round : Rounds]]
  BY <1>2, GrowsItself DEF DialogInv
<1> QED BY <1>1, <1>2, <1>3, <1>7, <1>8, <1>9, OneTask

LEMMA DiscardedKeeps == ASSUME DialogInv, NEW m \in DOMAIN chat, Discarded(m) PROVE DialogInv'
<1> DEFINE t == chat[m].task
           g == [folder[t] EXCEPT !.bucket = "failed"]
<1>1. t \in Tasks
  BY TapFound
<1>2. /\ folder' = [folder EXCEPT ![t] = g] /\ Edited(m) /\ UNCHANGED <<post, send, bot>>
  BY DEF Discarded, Becomes
<1> HIDE DEF t
<1>3. /\ g \in Folders(Len(chat)) /\ g.pending = folder[t].pending /\ g.bucket = "failed"
      /\ g.answers = folder[t].answers /\ g.resumes = folder[t].resumes
      /\ g.caps = folder[t].caps /\ g.parks = folder[t].parks
  BY <1>1, Found DEF Folders, Buckets
<1> HIDE DEF g
<1>4. Typed(g, chat) /\ Pays(g, used["kill"])
  <2>1. Typed(g, chat)
    BY <1>3 DEF Typed
  <2>2. folder[t].caps <= folder[t].parks + used["kill"]
    BY <1>1, Found
  <2> QED BY <1>3, <2>1, <2>2 DEF Pays
<1>5. FolderInv(t, g, chat, used["kill"])
  <2>1. FolderInv(t, folder[t], chat, used["kill"]) /\ chat \in Seq(Messages)
        /\ used["kill"] \in Nat /\ used["kill"] <= used["kill"]
    BY <1>1, Found
  <2> QED BY <1>1, <1>3, <1>4, <2>1, Moved
<1> QED BY <1>1, <1>2, <1>3, <1>5, Tap

LEMMA TappedLateKeeps == ASSUME DialogInv, NEW m \in DOMAIN chat, TappedLate(m) PROVE DialogInv'
<1>1. Edited(m) /\ UNCHANGED <<folder, post, send, bot>> /\ chat[m].task \in Tasks
  BY TapFound DEF TappedLate, Edited
<1> DEFINE t == chat[m].task
<1>2. folder' = [folder EXCEPT ![t] = folder[t]]
  BY <1>1 DEF DialogInv
<1> QED BY <1>1, <1>2, Found, Tap

LEMMA RequeuedKeeps == ASSUME DialogInv, NEW t \in Tasks, Requeued(t) PROVE DialogInv'
<1>1. PICK guided \in BOOLEAN :
        Becomes(t, [folder[t] EXCEPT
          !.bucket = "inbox",
          !.answers = IF guided THEN folder[t].answers \cup {[round |-> Guidance, by |-> Nobody]}
                      ELSE folder[t].answers])
  BY DEF Requeued
<1> DEFINE r == [round |-> Guidance, by |-> Nobody]
           A == IF guided THEN folder[t].answers \cup {r} ELSE folder[t].answers
           g == [folder[t] EXCEPT !.bucket = "inbox", !.answers = A]
<1>2. folder' = [folder EXCEPT ![t] = g] /\ Within("requeue") /\ UNCHANGED <<post, send, chat, bot>>
  BY <1>1 DEF Requeued, Becomes
<1>3. r \in [round : Nat, by : 0..Len(chat)] /\ r.by = 0 /\ r.round = Guidance
  BY Found DEF Guidance, Nobody
<1> HIDE DEF r
<1>4. A \subseteq [round : Nat, by : 0..Len(chat)] /\ A \subseteq folder[t].answers \cup {r}
      /\ folder[t].answers \subseteq A
  BY <1>3, Found DEF Folders
<1> HIDE DEF A
<1>5. /\ g \in Folders(Len(chat)) /\ g.pending = folder[t].pending /\ g.bucket = "inbox"
      /\ g.answers = A /\ g.resumes = folder[t].resumes
      /\ g.caps = folder[t].caps /\ g.parks = folder[t].parks
  BY <1>4, Found DEF Folders, Buckets
<1> HIDE DEF g
<1>6. Typed(g, chat) /\ Pays(g, used["kill"]) /\ Awaits(t, g, chat)
  BY <1>5, Found DEF Typed, Pays, FolderInv, Awaits
<1>7. Answered(t, g, chat)
  BY <1>3, <1>4, <1>5, Found DEF FolderInv, Answered
<1>8. Counts(g, used["kill"])
  <2>1. Given(g.answers) = Given(folder[t].answers)
    BY <1>3, <1>4, <1>5 DEF Given
  <2> QED BY <1>5, <2>1, Found DEF FolderInv, Counts
<1>9. FolderInv(t, g, chat, used["kill"])
  BY <1>6, <1>7, <1>8 DEF FolderInv
<1>10. /\ used' \in [Counted -> Nat] /\ \A k \in Counted : used'[k] <= Bound[k]
       /\ used["kill"] <= used'["kill"] /\ used'["kill"] \in Nat
  BY <1>2, Spent DEF Counted
<1>11. FolderInv(t, g, chat, used'["kill"])
  BY <1>9, <1>10, Found, GrowsItself, Widened DEF SendInv
<1> QED BY <1>2, <1>5, <1>10, <1>11, OneFolder

-----------------------------------------------------------------------------
(* The dead man. His answers are one more given, for one more resume or kill. *)

LEMMA Defaults ==
  ASSUME DialogInv, NEW t \in Tasks, DeadManDue(t)
  PROVE  /\ Defaulted(t) \subseteq [round : Nat, by : 0..Len(chat)]
         /\ \A a \in Defaulted(t) : a.by \in 1..Len(chat) => Asks(chat, a.by, t, a.round)
         /\ IsFiniteSet(Given(Defaulted(t)))
         /\ Cardinality(Given(Defaulted(t))) <= folder[t].resumes + used["kill"] + 1
<1> DEFINE r == [round |-> Questions(t), by |-> Nobody]
<1>1. Defaulted(t) = folder[t].answers \cup {r}
  BY DEF Defaulted
<1>2. Questions(t) \in Nat
  BY Found DEF Questions, Folders, Pendings, Rounds
<1>3. r \in [round : Nat, by : 0..Len(chat)] /\ r.by = 0
  BY <1>2, Found DEF Nobody
<1> HIDE DEF r
<1>4. folder[t].answers \subseteq [round : Nat, by : 0..Len(chat)]
  BY Found DEF Folders
<1>5. \A a \in folder[t].answers : a.by \in 1..Len(chat) => Asks(chat, a.by, t, a.round)
  BY Found DEF FolderInv, Answered
<1>6. Given(Defaulted(t)) \subseteq Given(folder[t].answers) \cup {r}
  BY <1>1 DEF Given
<1>7. IsFiniteSet(Given(folder[t].answers)) /\ Cardinality(Given(folder[t].answers)) \in Nat
      /\ Cardinality(Given(folder[t].answers)) <= folder[t].resumes + used["kill"]
  BY Found, FS_CardinalityType DEF FolderInv, Counts
<1> DEFINE S == Given(folder[t].answers) \cup {r}
<1>8. IsFiniteSet(S) /\ Cardinality(S) \in Nat /\ Cardinality(S) <= Cardinality(Given(folder[t].answers)) + 1
  <2>1. CASE r \in Given(folder[t].answers)
    <3>1. S = Given(folder[t].answers)
      BY <2>1
    <3> QED BY <1>7, <3>1
  <2>2. CASE r \notin Given(folder[t].answers)
    BY <1>7, <2>2, FS_AddElement
  <2> QED BY <2>1, <2>2
<1> HIDE DEF S
<1>9. IsFiniteSet(Given(Defaulted(t))) /\ Cardinality(Given(Defaulted(t))) \in Nat
      /\ Cardinality(Given(Defaulted(t))) <= Cardinality(S)
  BY <1>6, <1>8, FS_Subset, FS_CardinalityType DEF S
<1>10. folder[t].resumes + used["kill"] \in Nat
  BY Found, DialogAssumption
<1>11. Cardinality(Given(Defaulted(t))) <= folder[t].resumes + used["kill"] + 1
  BY <1>7, <1>8, <1>9, <1>10
<1>12. Defaulted(t) \subseteq [round : Nat, by : 0..Len(chat)]
  BY <1>1, <1>3, <1>4
<1>13. \A a \in Defaulted(t) : a.by \in 1..Len(chat) => Asks(chat, a.by, t, a.round)
  BY <1>1, <1>3, <1>5
<1> QED BY <1>9, <1>11, <1>12, <1>13

(* Whatever of the sweep was done: the answers are there, and a resume or a   *)
(* kill is booked.                                                            *)
LEMMA Answering ==
  ASSUME DialogInv, NEW t \in Tasks, DeadManDue(t), NEW g, NEW l \in Nat, used["kill"] <= l,
         g \in Folders(Len(chat)), g.bucket \in {"inbox", "awaiting-input"},
         g.answers = Defaulted(t), g.pending \in {folder[t].pending, None},
         g.caps = folder[t].caps, g.parks = folder[t].parks,
         \/ g.resumes = folder[t].resumes + 1
         \/ g.resumes = folder[t].resumes /\ used["kill"] + 1 <= l
  PROVE  FolderInv(t, g, chat, l)
<1>1. folder[t].bucket = "awaiting-input"
  BY DEF DeadManDue, Parked
<1>2. Typed(g, chat)
  BY DEF Typed
<1>3. Awaits(t, g, chat)
  BY Found DEF FolderInv, Awaits
<1>4. Answered(t, g, chat)
  BY Defaults DEF Answered
<1>5. IsFiniteSet(Given(g.answers)) /\ Cardinality(Given(g.answers)) \in Nat
      /\ Cardinality(Given(g.answers)) <= folder[t].resumes + used["kill"] + 1
  BY Defaults, FS_CardinalityType
<1>6. folder[t].resumes \in Nat /\ used["kill"] \in Nat
  BY Found, DialogAssumption
<1>7. Counts(g, l)
  <2>1. Cardinality(Given(g.answers)) <= g.resumes + l
    BY SMTT(20), <1>5, <1>6
  <2> QED BY <1>5, <2>1 DEF Counts
<1>8. Pays(g, l)
  <2>1. folder[t].caps + 1 <= folder[t].parks + used["kill"]
    BY <1>1, Found DEF FolderInv, Pays
  <2>2. folder[t].caps \in Nat /\ folder[t].parks \in Nat
    BY Found
  <2> QED BY SMTT(20), <1>6, <2>1, <2>2 DEF Pays
<1> QED BY <1>2, <1>3, <1>4, <1>7, <1>8 DEF FolderInv

LEMMA DeadManResumesKeeps == ASSUME DialogInv, NEW t \in Tasks, DeadManResumes(t) PROVE DialogInv'
<1> DEFINE a == [folder[t] EXCEPT !.answers = Defaulted(t)]
           g == [Booked(a) EXCEPT !.bucket = "inbox"]
<1>1. /\ DeadManDue(t) /\ folder' = [folder EXCEPT ![t] = g]
      /\ UNCHANGED <<post, send, chat, bot>> /\ used' = used /\ send[t] = None
  BY DEF DeadManResumes, DeadManDue, Quiet, Becomes
<1>2. folder[t].resumes \in Nat /\ folder[t].resumes + 1 \in 0..AutoResumes
  BY <1>1, Found, DialogAssumption DEF DeadManDue
<1>3. a \in Folders(Len(chat)) /\ a.answers = Defaulted(t) /\ a.resumes = folder[t].resumes
      /\ a.caps = folder[t].caps /\ a.parks = folder[t].parks
  BY <1>1, Defaults, Found DEF Folders
<1> HIDE DEF a
<1>4. /\ g \in Folders(Len(chat)) /\ g.bucket = "inbox" /\ g.answers = a.answers /\ g.pending = None
      /\ g.caps = a.caps /\ g.parks = a.parks /\ g.resumes = a.resumes + 1
  BY <1>2, <1>3 DEF Booked, Folders, Pendings, Buckets, Stages
<1> HIDE DEF g
<1>5. FolderInv(t, g, chat, used["kill"])
  BY <1>1, <1>3, <1>4, Found, Answering
<1> QED BY <1>1, <1>5, Unspent, OneFolder

LEMMA DeadManCutKeeps == ASSUME DialogInv, NEW t \in Tasks, DeadManCut(t) PROVE DialogInv'
<1> DEFINE a == [folder[t] EXCEPT !.answers = Defaulted(t)]
           b == [a EXCEPT !.payload = 0]
<1>1. /\ DeadManDue(t) /\ Within("kill")
      /\ UNCHANGED <<post, send, chat, bot>> /\ send[t] = None
  BY DEF DeadManCut, DeadManDue, Quiet
<1>2. PICK g \in {a, b, Booked(a)} : folder' = [folder EXCEPT ![t] = g]
  BY DEF DeadManCut, Becomes
<1>3. /\ used' \in [Counted -> Nat] /\ \A k \in Counted : used'[k] <= Bound[k]
      /\ used["kill"] <= used'["kill"] /\ used'["kill"] = used["kill"] + 1 /\ used'["kill"] \in Nat
  BY <1>1, Spent DEF Counted
<1>4. folder[t].resumes \in Nat /\ folder[t].resumes + 1 \in 0..AutoResumes
  BY <1>1, Found, DialogAssumption DEF DeadManDue
<1>5. a \in Folders(Len(chat)) /\ a.answers = Defaulted(t) /\ a.resumes = folder[t].resumes
      /\ a.caps = folder[t].caps /\ a.parks = folder[t].parks /\ a.pending = folder[t].pending
      /\ a.bucket = "awaiting-input"
  BY <1>1, Defaults, Found DEF Folders, DeadManDue, Parked
<1> HIDE DEF a
<1>6. b \in Folders(Len(chat)) /\ b.answers = a.answers /\ b.resumes = a.resumes
      /\ b.caps = a.caps /\ b.parks = a.parks /\ b.pending = a.pending /\ b.bucket = a.bucket
  BY <1>5 DEF Folders
<1> HIDE DEF b
<1> DEFINE d == Booked(a)
<1>7. /\ d \in Folders(Len(chat)) /\ d.bucket = a.bucket /\ d.answers = a.answers /\ d.pending = None
      /\ d.caps = a.caps /\ d.parks = a.parks /\ d.resumes = a.resumes + 1
  BY <1>4, <1>5 DEF Booked, Folders, Pendings, Stages
<1> HIDE DEF d
<1>8. /\ g \in Folders(Len(chat)) /\ g.bucket \in {"inbox", "awaiting-input"}
      /\ g.answers = Defaulted(t) /\ g.pending \in {folder[t].pending, None}
      /\ g.caps = folder[t].caps /\ g.parks = folder[t].parks
      /\ g.resumes = folder[t].resumes + 1 \/ g.resumes = folder[t].resumes
  BY <1>2, <1>5, <1>6, <1>7 DEF d
<1>9. used["kill"] + 1 <= used'["kill"]
  BY <1>3
<1>10. FolderInv(t, g, chat, used'["kill"])
  BY <1>1, <1>3, <1>8, <1>9, Answering
<1> QED BY <1>1, <1>2, <1>3, <1>10, OneFolder

-----------------------------------------------------------------------------
LEMMA Initially == ASSUME Init PROVE DialogInv
<1>1. \A t \in Tasks : folder[t] =
        [bucket |-> "inbox", stage |-> "inbox", pending |-> None, payload |-> 0, answers |-> {},
         resumes |-> 0, brief |-> "none", asked |-> 0, parks |-> 0, caps |-> 0]
  BY DEF Init
<1>2. chat = << >> /\ chat \in Seq(Messages) /\ Len(chat) = 0 /\ used["kill"] = 0
  BY DEF Init, Counted
<1>3. \A t \in Tasks : folder[t] \in Folders(Len(chat))
  BY <1>1, <1>2, DialogAssumption DEF Folders, Pendings, Buckets, Stages
<1>4. \A t \in Tasks : Counts(folder[t], used["kill"])
  <2> SUFFICES ASSUME NEW t \in Tasks PROVE Counts(folder[t], used["kill"])
    OBVIOUS
  <2>1. Given(folder[t].answers) = {}
    BY <1>1 DEF Given
  <2>2. IsFiniteSet({}) /\ Cardinality({}) = 0
    BY FS_EmptySet
  <2>3. folder[t].resumes = 0
    BY <1>1
  <2> QED BY <1>2, <2>1, <2>2, <2>3 DEF Counts
<1>5. \A t \in Tasks : FolderInv(t, folder[t], chat, used["kill"])
  BY <1>1, <1>2, <1>3, <1>4 DEF FolderInv, Typed, Awaits, Answered, Pays
<1>6. \A t \in Tasks : SendInv(t, folder[t], send[t], chat)
  BY DEF Init, SendInv
<1>7. /\ DOMAIN folder = Tasks /\ folder = [t \in Tasks |-> folder[t]]
      /\ post \in [Tasks -> {None} \cup [kind : Signals, round : Rounds]]
      /\ send \in [Tasks -> {None} \cup Sends(Len(chat))] /\ bot \in {"up", "down"}
  BY DEF Init
<1>8. used \in [Counted -> Nat] /\ \A k \in Counted : used[k] <= Bound[k]
  BY DialogAssumption DEF Init
<1> QED BY <1>2, <1>5, <1>6, <1>7, <1>8 DEF DialogInv

THEOREM DialogInvariant == Spec => []DialogInv
<1>1. Init => DialogInv
  BY Initially
<1>2. DialogInv /\ [Next]_vars => DialogInv'
  <2> SUFFICES ASSUME DialogInv, [Next]_vars PROVE DialogInv'
    OBVIOUS
  <2>1. CASE UNCHANGED vars
    BY <2>1 DEF vars, DialogInv
  <2>2. CASE BotStops \/ BotStarts
    BY <2>2, BotKeeps
  <2>3. ASSUME NEW t \in Tasks, TaskSteps(t) PROVE DialogInv'
    BY <2>3, IngestedKeeps, BriefAsksKeeps, BriefResolvesKeeps, BudgetParkedKeeps, HandedOffKeeps,
       FinishedKeeps, NotifiedKeeps, ShownKeeps, SendFailsKeeps, SendReturnsKeeps,
       RequeuedKeeps, DeadManResumesKeeps, DeadManCutKeeps DEF TaskSteps
  <2>4. ASSUME NEW m \in DOMAIN chat, MessageSteps(m) PROVE DialogInv'
    <3>1. CASE ReplyRefused(m)
      BY <2>1, <3>1 DEF ReplyRefused
    <3> QED BY <2>4, <3>1, ReplyKeeps, ContinuedKeeps, ContinueCutKeeps, DiscardedKeeps,
               TappedLateKeeps DEF MessageSteps
  <2> QED BY <2>1, <2>2, <2>3, <2>4 DEF Next
<1> QED BY <1>1, <1>2, PTL DEF Spec

(* The folders, handlers and prompts stay well typed.                         *)
THEOREM DialogTypeCorrect == Spec => []TypeOK
BY DialogInvariant, Shapes, PTL

(* An answer of the operator lands in the folder of the task he was asked     *)
(* about, next to the very questions the prompt he replied to had shown, with *)
(* the prompts of several tasks and of several pauses in flight and in the    *)
(* chat at once (_handle_notify, _find_clarify_task).                         *)
THEOREM AnswersMatchHolds == Spec => []AnswersMatch
<1>1. DialogInv => AnswersMatch
  <2> SUFFICES ASSUME DialogInv, NEW t \in Tasks, NEW a \in folder[t].answers, a.by \in DOMAIN chat
               PROVE  chat[a.by].task = t /\ chat[a.by].round = a.round
    BY DEF AnswersMatch
  <2>1. a.by \in 1..Len(chat)
    BY Found
  <2> QED BY <2>1, Found DEF FolderInv, Answered, Asks
<1> QED BY <1>1, DialogInvariant, PTL

(* The dead man answers once in the life of a task, and a tap on Continue is  *)
(* good for one park, but for the processes that were killed in the middle    *)
(* (AUTO_RESUME_LIMIT, _write_state_json, budget_callback).                   *)
THEOREM ResumesPaidHolds == Spec => []ResumesPaid
<1>1. DialogInv => ResumesPaid
  <2> SUFFICES ASSUME DialogInv, NEW t \in Tasks
               PROVE  /\ Cardinality({a \in folder[t].answers : a.by = Nobody /\ a.round # Guidance})
                           <= AutoResumes + used["kill"]
                      /\ folder[t].caps <= folder[t].parks + used["kill"]
    BY DEF ResumesPaid, DefaultsOnce, RaisesPaid
  <2>1. Cardinality(Given(folder[t].answers)) \in Nat
        /\ Cardinality(Given(folder[t].answers)) <= folder[t].resumes + used["kill"]
    BY Found, FS_CardinalityType DEF FolderInv, Counts
  <2>2. Cardinality(Given(folder[t].answers)) <= AutoResumes + used["kill"]
    BY <2>1, Found, DialogAssumption
  <2> QED BY <2>2, Found DEF Given
<1> QED BY <1>1, DialogInvariant, PTL
=============================================================================
