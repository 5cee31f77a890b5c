--------------------------- MODULE NotificationsProofs ---------------------------
(***************************************************************************)
(* The markers, the registrations and the notices of Notifications follow  *)
(* the processes, for any set of processes, of stops and of configs.       *)
(*                                                                         *)
(* The invariant has a part about the manager alone (MInv), a part about   *)
(* the queue of microtasks (QInv), and parts that say of each process what *)
(* the queue still has to do about it (ProcInv) and how the first notice   *)
(* about it came about (FirstObeys).                                       *)
(***************************************************************************)
EXTENDS Notifications, SequenceTheorems, FiniteSetTheorems, TLAPS

Tasks == {EndTask(p, o) : p \in Procs, o \in Outcomes} \cup {AnswerTask(k) : k \in Kills}

Notice == [outcome : Outcomes, attention : {"turn", "context"}]

Call ==
    [pc : {"idle", "waiting", "done"}, target : Procs \cup {0},
     result : {"none", "ok", "not_found", "error", "timeout"}]

Types ==
    /\ status \in [Procs -> {"absent"} \cup Live \cup Finished]
    /\ outcome \in [Procs -> Outcomes \cup {"none"}]
    /\ ended \in [Procs -> Nat]
    /\ known \subseteq Procs
    /\ calls \in [Kills -> Call]
    /\ over \in BOOLEAN
    /\ microtasks \in Seq(Tasks)
    /\ stops \subseteq Procs
    /\ configs \in [Procs -> Configs \cup {NoConfig}]
    /\ asked \in [Procs -> Configs \cup {NoConfig}]
    /\ notices \in [Procs -> Seq(Notice)]

-----------------------------------------------------------------------------
(* The queue of microtasks *)

Queued(t) == \E i \in DOMAIN microtasks : microtasks[i] = t

EndQueued(p) == \E o \in Outcomes : Queued(EndTask(p, o))

(* Tasks are told apart by what they are about. *)
LEMMA TaskFacts ==
    /\ \A p, q, o, w : EndTask(p, o) = EndTask(q, w) => p = q /\ o = w
    /\ \A k, l : AnswerTask(k) = AnswerTask(l) => k = l
    /\ \A p, o, k : EndTask(p, o) # AnswerTask(k)
<1>1. ASSUME NEW p, NEW q, NEW o, NEW w, EndTask(p, o) = EndTask(q, w)
      PROVE  p = q /\ o = w
  <2>1. /\ EndTask(p, o).process = p /\ EndTask(q, w).process = q
        /\ EndTask(p, o).outcome = o /\ EndTask(q, w).outcome = w
    BY DEF EndTask
  <2> QED
    BY <1>1, <2>1
<1>2. ASSUME NEW k, NEW l, AnswerTask(k) = AnswerTask(l) PROVE k = l
  <2>1. AnswerTask(k).call = k /\ AnswerTask(l).call = l
    BY DEF AnswerTask
  <2> QED
    BY <1>2, <2>1
<1>3. ASSUME NEW p, NEW o, NEW k PROVE EndTask(p, o) # AnswerTask(k)
  <2>1. EndTask(p, o).task = "ended" /\ AnswerTask(k).task = "answered"
    BY DEF EndTask, AnswerTask
  <2> QED
    BY <2>1
<1> QED
  BY <1>1, <1>2, <1>3

(* A sequence that enumerates at most one element. *)
LEMMA SetToSeqOfOne ==
    /\ SetToSeq({}) = <<>>
    /\ \A x : SetToSeq({x}) = <<x>>
<1>1. SetToSeq({}) = <<>>
  <2>1. Cardinality({}) = 0
    BY FS_EmptySet
  <2>2. 1 .. 0 = {}
    OBVIOUS
  <2>3. SetToSeq({}) = CHOOSE f \in [{} -> {}] : IsInjective(f)
    BY <2>1, <2>2, Zenon DEF SetToSeq
  <2> DEFINE g == [i \in {} |-> i]
  <2>4. g \in [{} -> {}] /\ IsInjective(g)
    BY DEF IsInjective
  <2>5. \A f \in [{} -> {}] : f = <<>>
    OBVIOUS
  <2> HIDE DEF g
  <2> QED
    BY <2>3, <2>4, <2>5
<1>2. ASSUME NEW x PROVE SetToSeq({x}) = <<x>>
  <2>1. Cardinality({x}) = 1
    BY FS_Singleton
  <2>2. SetToSeq({x}) = CHOOSE f \in [1 .. 1 -> {x}] : IsInjective(f)
    BY <2>1, Zenon DEF SetToSeq
  <2>3. <<x>> \in [1 .. 1 -> {x}] /\ IsInjective(<<x>>)
    BY DEF IsInjective
  <2>4. \A f \in [1 .. 1 -> {x}] : f = <<x>>
    OBVIOUS
  <2> QED
    BY <2>2, <2>3, <2>4
<1> QED
  BY <1>1, <1>2

(* A step that reports no end queues what it is told to, and no more. *)
LEMMA NothingEnds ==
    ASSUME Types, ended' = ended, NEW more, QueueThen(more), more \in Seq(Tasks)
    PROVE  microtasks' = microtasks \o more
<1>1. {q \in Procs : ended'[q] # ended[q]} = {}
  OBVIOUS
<1>2. {EndTask(p, outcome'[p]) : p \in {q \in Procs : ended'[q] # ended[q]}} = {}
  BY <1>1
<1>3. microtasks' = microtasks \o <<>> \o more
  BY <1>2, SetToSeqOfOne DEF QueueThen
<1> QED
  BY <1>3 DEF Types

(* A step that reports one end queues it before the rest. *)
LEMMA OneEnds ==
    ASSUME Types, NEW p \in Procs, ended' = [ended EXCEPT ![p] = @ + 1],
           NEW more, QueueThen(more)
    PROVE  microtasks' = microtasks \o <<EndTask(p, outcome'[p])>> \o more
<1>1. {q \in Procs : ended'[q] # ended[q]} = {p}
  BY DEF Types
<1>2. {EndTask(q, outcome'[q]) : q \in {q \in Procs : ended'[q] # ended[q]}}
          = {EndTask(p, outcome'[p])}
  BY <1>1
<1> QED
  BY <1>2, SetToSeqOfOne DEF QueueThen

-----------------------------------------------------------------------------
(* The manager alone *)

MgrTypes ==
    /\ status \in [Procs -> {"absent"} \cup Live \cup Finished]
    /\ outcome \in [Procs -> Outcomes \cup {"none"}]
    /\ ended \in [Procs -> Nat]
    /\ known \subseteq Procs
    /\ calls \in [Kills -> Call]
    /\ over \in BOOLEAN

(* What has not ended is live and known; what answered ok or not_found was
   asked about a process that had ended, or ended it. *)
MInv ==
    /\ MgrTypes
    /\ \A p \in Procs :
          /\ status[p] = "absent" => ended[p] = 0
          /\ ended[p] = 0 /\ status[p] # "absent" => status[p] \in Live /\ p \in known
          /\ status[p] \in {"running", "terminating"} => p \in known
          /\ outcome[p] # "none" => status[p] \in Finished
    /\ \A k \in Kills :
          /\ calls[k].pc # "idle" =>
                calls[k].target \in Procs /\ status[calls[k].target] # "absent"
          /\ calls[k].pc # "done" => calls[k].result = "none"
          /\ calls[k].result \in {"ok", "not_found"} => ended[calls[k].target] > 0

(* An answer stands, and a call that waits goes on about the same process. *)
CallsStand ==
    \A k \in Kills : /\ calls[k].pc = "done" => calls'[k] = calls[k]
                     /\ calls[k].pc = "waiting" => calls'[k].target = calls[k].target

(* Nobody comes back. *)
LEMMA VanishedStays ==
    ASSUME MInv, CallsStand, NEW p, Vanished(p)
    PROVE  Vanished(p)'
<1>1. PICK k \in Kills : calls[k].target = p /\ calls[k].result = "error"
  BY DEF Vanished
<1>2. calls'[k] = calls[k]
  BY <1>1 DEF MInv, CallsStand, MgrTypes, Call
<1> QED
  BY <1>1, <1>2 DEF Vanished

(* Of one process an end is reported; finished ones may be forgotten. *)
Ended1(p, st, o, reg) ==
    /\ status'[p] = st /\ outcome'[p] = o /\ ended'[p] = ended[p] + 1
    /\ \A q \in Procs \ {p} : /\ status'[q] = status[q] /\ outcome'[q] = outcome[q]
                              /\ ended'[q] = ended[q]
    /\ known' \subseteq reg /\ \A q \in reg \ known' : status'[q] \in Finished

(* That is what Ends does. *)
LEMMA EndsMeans ==
    ASSUME MgrTypes, NEW p \in Procs, NEW st \in Finished, NEW o, NEW reg \in SUBSET Procs,
           Ends(p, st, o, reg)
    PROVE  /\ Ended1(p, st, o, reg) /\ o \in Outcomes /\ (st = "killed" <=> o = "killed")
           /\ ended' = [ended EXCEPT ![p] = @ + 1]
           /\ status' \in [Procs -> {"absent"} \cup Live \cup Finished]
           /\ outcome' \in [Procs -> Outcomes \cup {"none"}]
           /\ ended' \in [Procs -> Nat] /\ known' \subseteq Procs
  BY DEF MgrTypes, Ends, Fits, Ended1

(* A call is answered, or begins to wait; the others stand. *)
Called(k, c) == calls' = [calls EXCEPT ![k] = c]

(* It changes that call and no other. *)
LEMMA CalledMeans ==
    ASSUME MgrTypes, NEW k \in Kills, NEW c \in Call, Called(k, c)
    PROVE  /\ calls' \in [Kills -> Call] /\ calls'[k] = c
           /\ \A j \in Kills \ {k} : calls'[j] = calls[j]
  BY DEF MgrTypes, Called

(* A change of status without an event. *)
LEMMA BecomesMeans ==
    ASSUME MgrTypes, NEW p \in Procs, NEW st \in Live, Becomes(p, st)
    PROVE  /\ status'[p] = st /\ outcome'[p] = "none"
           /\ \A q \in Procs \ {p} : status'[q] = status[q] /\ outcome'[q] = outcome[q]
           /\ status' \in [Procs -> {"absent"} \cup Live \cup Finished]
           /\ outcome' \in [Procs -> Outcomes \cup {"none"}]
           /\ UNCHANGED <<ended, known>>
  BY DEF MgrTypes, Becomes

(* A call that is made, of a started process, keeps MInv when the process it
   is about goes on living, or stays as it is. *)
CallSound(k, c) ==
    /\ c \in Call /\ c.pc # "idle"
    /\ c.target \in Procs /\ status'[c.target] # "absent"
    /\ c.pc # "done" => c.result = "none"
    /\ c.result \in {"ok", "not_found"} => ended'[c.target] > 0
    /\ calls[k].pc # "done"
    /\ calls[k].pc = "waiting" => c.target = calls[k].target

(* Nothing that was started is unstarted, nothing that was reported unreported. *)
Onward ==
    \A q \in Procs : /\ status[q] # "absent" => status'[q] # "absent"
                     /\ ended[q] > 0 => ended'[q] > 0

(* What MInv says of processes. *)
ProcsSound ==
    \A p \in Procs :
        /\ status[p] = "absent" => ended[p] = 0
        /\ ended[p] = 0 /\ status[p] # "absent" => status[p] \in Live /\ p \in known
        /\ status[p] \in {"running", "terminating"} => p \in known
        /\ outcome[p] # "none" => status[p] \in Finished

(* What MInv says of calls. *)
CallsSound ==
    \A k \in Kills :
        /\ calls[k].pc # "idle" =>
              calls[k].target \in Procs /\ status[calls[k].target] # "absent"
        /\ calls[k].pc # "done" => calls[k].result = "none"
        /\ calls[k].result \in {"ok", "not_found"} => ended[calls[k].target] > 0

(* The three parts of MInv. *)
LEMMA MInvParts == MInv <=> MgrTypes /\ ProcsSound /\ CallsSound
  BY DEF MInv, ProcsSound, CallsSound

(* A call that is sound keeps the calls sound. *)
LEMMA CallKeeps ==
    ASSUME MInv, Onward, NEW k \in Kills, NEW c, CallSound(k, c), Called(k, c)
    PROVE  CallsSound' /\ CallsStand /\ calls' \in [Kills -> Call]
<1>1. calls' \in [Kills -> Call] /\ calls'[k] = c /\ \A j \in Kills \ {k} : calls'[j] = calls[j]
  BY CalledMeans DEF MInv, CallSound
<1>2. ASSUME NEW j \in Kills
      PROVE  /\ calls'[j].pc # "idle" =>
                   calls'[j].target \in Procs /\ status'[calls'[j].target] # "absent"
             /\ calls'[j].pc # "done" => calls'[j].result = "none"
             /\ calls'[j].result \in {"ok", "not_found"} => ended'[calls'[j].target] > 0
  <2>1. CASE j = k
    BY <1>1, <2>1 DEF CallSound
  <2>2. CASE j # k
    <3>1. calls'[j] = calls[j]
      BY <1>1, <2>2
    <3>2. calls[j].result \in {"ok", "not_found"} => calls[j].pc = "done"
      BY DEF MInv
    <3>3. /\ calls[j].pc # "idle" =>
                calls[j].target \in Procs /\ status'[calls[j].target] # "absent"
          /\ calls[j].pc # "done" => calls[j].result = "none"
          /\ calls[j].result \in {"ok", "not_found"} => ended'[calls[j].target] > 0
      BY <3>2 DEF MInv, Onward
    <3> QED
      BY <3>1, <3>3
  <2> QED
    BY <2>1, <2>2
<1>3. CallsStand
  BY <1>1 DEF CallsStand, CallSound
<1> QED
  BY <1>1, <1>2, <1>3 DEF CallsSound

(* Calls that stay as they are stay sound. *)
LEMMA NoCallKeeps ==
    ASSUME MInv, Onward, calls' = calls
    PROVE  CallsSound' /\ CallsStand
<1>1. ASSUME NEW j \in Kills
      PROVE  /\ calls'[j].pc # "idle" =>
                   calls'[j].target \in Procs /\ status'[calls'[j].target] # "absent"
             /\ calls'[j].pc # "done" => calls'[j].result = "none"
             /\ calls'[j].result \in {"ok", "not_found"} => ended'[calls'[j].target] > 0
  <2>1. calls[j].result \in {"ok", "not_found"} => calls[j].pc = "done"
    BY DEF MInv
  <2>2. /\ calls[j].pc # "idle" =>
              calls[j].target \in Procs /\ status'[calls[j].target] # "absent"
        /\ calls[j].pc # "done" => calls[j].result = "none"
        /\ calls[j].result \in {"ok", "not_found"} => ended'[calls[j].target] > 0
    BY <2>1 DEF MInv, Onward
  <2> QED
    BY <2>2
<1> QED
  BY <1>1 DEF CallsSound, CallsStand

(* An end takes nothing back, and what it leaves is sound. *)
LEMMA EndSound ==
    ASSUME MInv, NEW p \in Procs, NEW st \in Finished, NEW o,
           NEW reg \in {known, known \cup {p}}, Ends(p, st, o, reg)
    PROVE  ProcsSound' /\ Onward
<1>1. reg \in SUBSET Procs
  BY DEF MInv, MgrTypes
<1>2. Ended1(p, st, o, reg) /\ o \in Outcomes
  BY <1>1, EndsMeans DEF MInv
<1>3. ASSUME NEW q \in Procs
      PROVE  /\ status'[q] = "absent" => ended'[q] = 0
             /\ ended'[q] = 0 /\ status'[q] # "absent" =>
                   status'[q] \in Live /\ q \in known'
             /\ status'[q] \in {"running", "terminating"} => q \in known'
             /\ outcome'[q] # "none" => status'[q] \in Finished
             /\ status[q] # "absent" => status'[q] # "absent"
             /\ ended[q] > 0 => ended'[q] > 0
  <2>1. CASE q = p
    BY <1>2, <2>1 DEF Ended1, MInv, MgrTypes, Finished
  <2>2. CASE q # p
    BY <1>2, <2>2 DEF Ended1, MInv, Live, Finished
  <2> QED
    BY <2>1, <2>2
<1> QED
  BY <1>3 DEF ProcsSound, Onward

(* A live process that becomes a live one keeps what MInv says of it, if the
   registry knows it or it had been reported. *)
LEMMA BecomeSound ==
    ASSUME MInv, NEW p \in Procs, NEW st \in Live, Becomes(p, st), status[p] # "absent",
           p \in known \/ (st = "terminate_timeout" /\ ended[p] > 0)
    PROVE  ProcsSound' /\ Onward
<1>1. /\ status'[p] = st /\ outcome'[p] = "none"
      /\ \A q \in Procs \ {p} : status'[q] = status[q] /\ outcome'[q] = outcome[q]
      /\ UNCHANGED <<ended, known>>
  BY BecomesMeans DEF MInv
<1>2. ASSUME NEW q \in Procs
      PROVE  /\ status'[q] = "absent" => ended'[q] = 0
             /\ ended'[q] = 0 /\ status'[q] # "absent" =>
                   status'[q] \in Live /\ q \in known'
             /\ status'[q] \in {"running", "terminating"} => q \in known'
             /\ outcome'[q] # "none" => status'[q] \in Finished
             /\ status[q] # "absent" => status'[q] # "absent"
             /\ ended[q] > 0 => ended'[q] > 0
  <2>1. CASE q = p
    BY <1>1, <2>1 DEF MInv, MgrTypes, Live
  <2>2. CASE q # p
    BY <1>1, <2>2 DEF MInv
  <2> QED
    BY <2>1, <2>2
<1> QED
  BY <1>2 DEF ProcsSound, Onward

(* start() keeps MInv. *)
LEMMA BeginsKeeps ==
    ASSUME MInv, NEW p \in Procs, Begins(p) \/ BornDead(p)
    PROVE  MInv' /\ CallsStand
<1>1. CASE Begins(p)
  <2>1. ASSUME NEW q \in Procs
        PROVE  /\ status'[q] = "absent" => ended'[q] = 0
               /\ ended'[q] = 0 /\ status'[q] # "absent" =>
                     status'[q] \in Live /\ q \in known'
               /\ status'[q] \in {"running", "terminating"} => q \in known'
               /\ outcome'[q] # "none" => status'[q] \in Finished
               /\ status[q] # "absent" => status'[q] # "absent"
               /\ ended[q] > 0 => ended'[q] > 0
    <3>1. CASE q = p
      BY <1>1, <3>1 DEF Begins, MInv, MgrTypes, Live, Finished
    <3>2. CASE q # p
      BY <1>1, <3>2 DEF Begins, MInv, MgrTypes
    <3> QED
      BY <3>1, <3>2
  <2>2. ProcsSound' /\ Onward
    BY <2>1 DEF ProcsSound, Onward
  <2>3. CallsSound' /\ CallsStand
    BY <1>1, <2>2, NoCallKeeps DEF Begins
  <2>4. MgrTypes'
    BY <1>1 DEF Begins, MInv, MgrTypes, Live
  <2> QED
    BY <2>2, <2>3, <2>4, MInvParts, PTL
<1>2. CASE BornDead(p)
  <2>1. Ends(p, "exited", "crash", known \cup {p}) /\ calls' = calls /\ over' = over
    BY <1>2 DEF BornDead
  <2>2. "exited" \in Finished /\ known \cup {p} \in SUBSET Procs
    BY DEF Finished, MInv, MgrTypes
  <2>3. ProcsSound' /\ Onward
    BY <2>1, <2>2, EndSound
  <2>4. CallsSound' /\ CallsStand
    BY <2>1, <2>3, NoCallKeeps
  <2>5. MgrTypes'
    BY <2>1, <2>2, EndsMeans DEF MInv, MgrTypes
  <2> QED
    BY <2>3, <2>4, <2>5, MInvParts, PTL
<1> QED
  BY <1>1, <1>2

(* An end the manager notices keeps MInv. *)
LEMMA FinishesKeeps ==
    ASSUME MInv, NEW p \in Procs, NEW st \in Finished, NEW o, Finishes(p, st, o)
    PROVE  MInv' /\ CallsStand
<1>1. Ends(p, st, o, known) /\ calls' = calls /\ over' = over
  BY DEF Finishes
<1>2. known \in SUBSET Procs
  BY DEF MInv, MgrTypes
<1>3. ProcsSound' /\ Onward
  BY <1>1, EndSound
<1>4. CallsSound' /\ CallsStand
  BY <1>1, <1>3, NoCallKeeps
<1>5. MgrTypes'
  BY <1>1, <1>2, EndsMeans DEF MInv, MgrTypes
<1> QED
  BY <1>3, <1>4, <1>5, MInvParts, PTL

(* What is known to be live was started. *)
LEMMA KnownLive ==
    ASSUME MInv, NEW p \in Procs, IsKnownLive(p)
    PROVE  p \in known /\ status[p] \in Live /\ status[p] # "absent" /\ outcome[p] = "none"
  BY DEF IsKnownLive, Live, Finished, MInv

(* kill() up to its await keeps MInv. *)
LEMMA KillKeeps ==
    ASSUME MInv, NEW k \in Kills, NEW p \in Procs, status[p] # "absent",
           Refused(k, p) \/ Failed(k, p) \/ Accepted(k, p)
    PROVE  MInv' /\ CallsStand
<1>1. CASE Refused(k, p)
  <2> DEFINE c == [pc |-> "done", target |-> p,
                   result |-> IF p \in known THEN "ok" ELSE "not_found"]
  <2>1. UNCHANGED <<status, outcome, ended, known, over>> /\ calls[k].pc = "idle"
    BY <1>1 DEF Refused
  <2>2. Onward
    BY <2>1 DEF Onward
  <2>3. ended[p] > 0
    BY <1>1 DEF Refused, IsKnownLive, MInv, MgrTypes
  <2>4. CallSound(k, c)
    BY <2>1, <2>3 DEF CallSound, Call
  <2>5. Called(k, c)
    BY <1>1 DEF Refused, Answer, Called
  <2> HIDE DEF c
  <2>6. CallsSound' /\ CallsStand /\ calls' \in [Kills -> Call]
    BY <2>2, <2>4, <2>5, CallKeeps
  <2>7. ProcsSound'
    BY <2>1, MInvParts DEF ProcsSound
  <2>8. MgrTypes'
    BY <2>1, <2>6 DEF MInv, MgrTypes
  <2> QED
    BY <2>6, <2>7, <2>8, MInvParts, PTL
<1>2. CASE Failed(k, p) \/ Accepted(k, p)
  <2> DEFINE c == [pc |-> "done", target |-> p, result |-> "error"]
             w == [pc |-> "waiting", target |-> p, result |-> "none"]
  <2>1. IsKnownLive(p) /\ Becomes(p, "terminating") /\ over' = over /\ calls[k].pc = "idle"
    BY <1>2 DEF Failed, Accepted
  <2>2. "terminating" \in Live
    BY DEF Live
  <2>3. p \in known
    BY <2>1, KnownLive
  <2>4. ProcsSound' /\ Onward
    BY <2>1, <2>2, <2>3, BecomeSound
  <2>5. Called(k, c) \/ Called(k, w)
    BY <1>2 DEF Failed, Accepted, Answer, Called
  <2>6. status'[p] # "absent"
    BY <2>4 DEF Onward
  <2>7. CallSound(k, c) /\ CallSound(k, w)
    BY <2>1, <2>6 DEF CallSound, Call
  <2> HIDE DEF c, w
  <2>8. CallsSound' /\ CallsStand /\ calls' \in [Kills -> Call]
    BY <2>4, <2>5, <2>7, CallKeeps
  <2>9. MgrTypes'
    BY <2>1, <2>2, <2>8, BecomesMeans DEF MInv, MgrTypes
  <2> QED
    BY <2>4, <2>8, <2>9, MInvParts, PTL
<1> QED
  BY <1>1, <1>2

(* kill() after its await keeps MInv. *)
LEMMA WakeKeeps ==
    ASSUME MInv, NEW k \in Kills, TimesOut(k) \/ Succeeds(k)
    PROVE  MInv' /\ CallsStand
<1> PICK p : p = calls[k].target
  OBVIOUS
<1>1. calls[k].pc = "waiting" /\ p \in Procs /\ status[p] # "absent"
  BY DEF TimesOut, Succeeds, MInv
<1> DEFINE c == [pc |-> "done", target |-> p, result |-> "timeout"]
           d == [pc |-> "done", target |-> p, result |-> "ok"]
<1>2. CASE TimesOut(k)
  <2>1. Becomes(p, "terminate_timeout") /\ over' = over /\ Called(k, c)
    BY <1>2 DEF TimesOut, Answer, Called
  <2>2. "terminate_timeout" \in Live
    BY DEF Live
  <2>3. p \in known \/ ended[p] > 0
    BY <1>1 DEF MInv, MgrTypes
  <2>4. ProcsSound' /\ Onward
    BY <1>1, <2>1, <2>2, <2>3, BecomeSound
  <2>5. CallSound(k, c)
    BY <1>1, <2>4 DEF CallSound, Call, Onward
  <2> HIDE DEF c
  <2>6. CallsSound' /\ CallsStand /\ calls' \in [Kills -> Call]
    BY <2>1, <2>4, <2>5, CallKeeps
  <2>7. MgrTypes'
    BY <1>1, <2>1, <2>2, <2>6, BecomesMeans DEF MInv, MgrTypes
  <2> QED
    BY <2>4, <2>6, <2>7, MInvParts, PTL
<1>3. CASE Succeeds(k)
  <2>1. over' = over /\ Called(k, d)
    BY <1>3 DEF Succeeds, Answer, Called
  <2>2. (status[p] = "killed" /\ UNCHANGED <<status, outcome, ended, known>>)
           \/ Ends(p, "killed", "killed", known)
    BY <1>3 DEF Succeeds
  <2>3. "killed" \in Finished /\ known \in SUBSET Procs /\ "killed" \notin Live
    BY DEF Finished, Live, MInv, MgrTypes
  <2>4. ProcsSound' /\ Onward
    <3>1. CASE UNCHANGED <<status, outcome, ended, known>>
      BY <3>1, MInvParts DEF ProcsSound, Onward
    <3>2. CASE Ends(p, "killed", "killed", known)
      BY <1>1, <2>3, <3>2, EndSound
    <3> QED
      BY <2>2, <3>1, <3>2
  <2>5. ended'[p] > 0
    <3>1. CASE status[p] = "killed" /\ UNCHANGED <<status, outcome, ended, known>>
      BY <1>1, <2>3, <3>1 DEF MInv, MgrTypes
    <3>2. CASE Ends(p, "killed", "killed", known)
      <4>1. Ended1(p, "killed", "killed", known)
        BY <1>1, <2>3, <3>2, EndsMeans DEF MInv
      <4> QED
        BY <1>1, <4>1 DEF Ended1, MInv, MgrTypes
    <3> QED
      BY <2>2, <3>1, <3>2
  <2>6. CallSound(k, d)
    BY <1>1, <2>4, <2>5 DEF CallSound, Call, Onward
  <2> HIDE DEF d
  <2>7. CallsSound' /\ CallsStand /\ calls' \in [Kills -> Call]
    BY <2>1, <2>4, <2>6, CallKeeps
  <2>8. /\ status' \in [Procs -> {"absent"} \cup Live \cup Finished]
        /\ outcome' \in [Procs -> Outcomes \cup {"none"}]
        /\ ended' \in [Procs -> Nat] /\ known' \subseteq Procs
    <3>1. CASE UNCHANGED <<status, outcome, ended, known>>
      BY <3>1 DEF MInv, MgrTypes
    <3>2. CASE Ends(p, "killed", "killed", known)
      BY <1>1, <2>3, <3>2, EndsMeans DEF MInv
    <3> QED
      BY <2>2, <3>1, <3>2
  <2>9. MgrTypes'
    BY <2>1, <2>7, <2>8 DEF MInv, MgrTypes
  <2> QED
    BY <2>4, <2>7, <2>9, MInvParts, PTL
<1> QED
  BY <1>2, <1>3

(* Forgetting and shutting down, or doing nothing to the manager, keeps MInv. *)
LEMMA RestKeeps ==
    ASSUME MInv, \/ \E gone \in SUBSET known : Forgets(gone)
                 \/ Shutdown
                 \/ UNCHANGED managerVars
    PROVE  MInv' /\ CallsStand
<1>1. UNCHANGED <<status, outcome, ended, calls>> /\ over' \in BOOLEAN
      /\ known' \subseteq known /\ \A p \in known \ known' : status[p] \in Finished
  BY DEF Forgets, Shutdown, managerVars, MInv, MgrTypes
<1>2. Onward
  BY <1>1 DEF Onward
<1>3. CallsSound' /\ CallsStand
  BY <1>1, <1>2, NoCallKeeps
<1>4. ProcsSound'
  BY <1>1, MInvParts DEF ProcsSound, Live, Finished
<1>5. MgrTypes'
  BY <1>1 DEF MInv, MgrTypes
<1> QED
  BY <1>3, <1>4, <1>5, MInvParts, PTL

-----------------------------------------------------------------------------
(* The queue and the manager *)

(* An end is queued once. *)
EndsOnce ==
    \A i, j \in DOMAIN microtasks : \A p \in Procs, o, w \in Outcomes :
        microtasks[i] = EndTask(p, o) /\ microtasks[j] = EndTask(p, w) => i = j

(* No answer of a stop is before the end of its process. *)
EndsFirst ==
    \A i, j \in DOMAIN microtasks : \A k \in Kills, p \in Procs, o \in Outcomes :
        i < j /\ microtasks[i] = AnswerTask(k) /\ microtasks[j] = EndTask(p, o)
            => calls[k].target # p

(* A process whose end is queued has ended so, and has not come back. *)
EndReported(p, o) == ended[p] > 0 /\ outcome[p] = o /\ status[p] \in Finished

EndsReported ==
    \A p \in Procs, o \in Outcomes : Queued(EndTask(p, o)) => EndReported(p, o)

(* An answer that is queued was given; if it says that there is nothing to stop,
   there is not. *)
AnswerGiven(k) ==
    /\ calls[k].pc = "done"
    /\ calls[k].result \in {"ok", "not_found"} /\ calls[k].target \in known =>
          status[calls[k].target] \notin Live

AnswersGiven == \A k \in Kills : Queued(AnswerTask(k)) => AnswerGiven(k)

QInv == EndsOnce /\ EndsFirst /\ EndsReported /\ AnswersGiven

(* The queue after its first task was taken. *)
LEMMA Popped ==
    ASSUME microtasks \in Seq(Tasks), microtasks # <<>>, microtasks' = Tail(microtasks)
    PROVE  /\ microtasks' \in Seq(Tasks)
           /\ \A i \in DOMAIN microtasks' : /\ i + 1 \in DOMAIN microtasks
                                            /\ microtasks'[i] = microtasks[i + 1]
           /\ \A i \in DOMAIN microtasks : i # 1 => /\ i - 1 \in DOMAIN microtasks'
                                                   /\ microtasks'[i - 1] = microtasks[i]
           /\ 1 \in DOMAIN microtasks /\ Head(microtasks) = microtasks[1]
           /\ DOMAIN microtasks \subseteq Nat \ {0} /\ DOMAIN microtasks' \subseteq Nat \ {0}
<1>1. Len(microtasks) \in Nat \ {0}
  BY EmptySeq
<1>2. /\ DOMAIN microtasks = 1 .. Len(microtasks)
      /\ DOMAIN microtasks' = 1 .. Len(microtasks) - 1
      /\ \A i \in 1 .. Len(microtasks) - 1 : microtasks'[i] = microtasks[i + 1]
      /\ microtasks' \in Seq(Tasks) /\ Head(microtasks) = microtasks[1]
  BY <1>1, HeadTailProperties, LenProperties
<1> QED
  BY <1>1, <1>2

(* What is queued after the first task was taken. *)
LEMMA PoppedTasks ==
    ASSUME microtasks \in Seq(Tasks), microtasks # <<>>, microtasks' = Tail(microtasks)
    PROVE  /\ \A t : Queued(t)' => Queued(t)
           /\ \A t : Queued(t) /\ t # Head(microtasks) => Queued(t)'
           /\ Queued(Head(microtasks))
  BY Popped, ZenonT(60) DEF Queued

(* Taking the first task keeps QInv; nothing that is left is about the end that
   was taken, nor about the process of the answer that was taken. *)
LEMMA PopKeeps ==
    ASSUME QInv, microtasks \in Seq(Tasks), microtasks # <<>>,
           microtasks' = Tail(microtasks), UNCHANGED managerVars
    PROVE  /\ QInv'
           /\ \A p \in Procs, o, w \in Outcomes :
                 Head(microtasks) = EndTask(p, o) => ~Queued(EndTask(p, w))'
           /\ \A k \in Kills, p \in Procs, o \in Outcomes :
                 Head(microtasks) = AnswerTask(k) /\ Queued(EndTask(p, o))
                     => calls[k].target # p
<1>1. EndsOnce'
  BY Popped DEF QInv, EndsOnce
<1>2. EndsFirst'
  <2> SUFFICES ASSUME NEW i \in DOMAIN microtasks', NEW j \in DOMAIN microtasks',
                      NEW k \in Kills, NEW p \in Procs, NEW o \in Outcomes,
                      i < j, microtasks'[i] = AnswerTask(k), microtasks'[j] = EndTask(p, o)
               PROVE  calls'[k].target # p
    BY DEF EndsFirst
  <2>1. /\ i + 1 \in DOMAIN microtasks /\ j + 1 \in DOMAIN microtasks /\ i + 1 < j + 1
        /\ microtasks[i + 1] = AnswerTask(k) /\ microtasks[j + 1] = EndTask(p, o)
    BY Popped
  <2> QED
    BY <2>1 DEF QInv, EndsFirst, managerVars
<1>3. EndsReported'
  BY PoppedTasks DEF QInv, EndsReported, EndReported, managerVars
<1>4. AnswersGiven'
  BY PoppedTasks DEF QInv, AnswersGiven, AnswerGiven, managerVars
<1>5. ASSUME NEW p \in Procs, NEW o \in Outcomes, NEW w \in Outcomes,
             Head(microtasks) = EndTask(p, o), Queued(EndTask(p, w))'
      PROVE  FALSE
  <2>1. PICK i \in DOMAIN microtasks' : microtasks'[i] = EndTask(p, w)
    BY <1>5 DEF Queued
  <2>2. /\ i + 1 \in DOMAIN microtasks /\ microtasks[i + 1] = EndTask(p, w) /\ i \in Nat \ {0}
        /\ 1 \in DOMAIN microtasks /\ microtasks[1] = EndTask(p, o)
    BY <2>1, <1>5, Popped
  <2>3. i + 1 = 1
    BY <2>2 DEF QInv, EndsOnce
  <2> QED
    BY <2>2, <2>3
<1>6. ASSUME NEW k \in Kills, NEW p \in Procs, NEW o \in Outcomes,
             Head(microtasks) = AnswerTask(k), Queued(EndTask(p, o))
      PROVE  calls[k].target # p
  <2>1. PICK j \in DOMAIN microtasks : microtasks[j] = EndTask(p, o)
    BY <1>6 DEF Queued
  <2>2. /\ 1 \in DOMAIN microtasks /\ microtasks[1] = AnswerTask(k)
        /\ DOMAIN microtasks \subseteq Nat \ {0}
    BY <1>6, Popped
  <2>3. j # 1
    BY <2>1, <2>2, TaskFacts
  <2> QED
    BY <2>1, <2>2, <2>3 DEF QInv, EndsFirst
<1> QED
  BY <1>1, <1>2, <1>3, <1>4, <1>5, <1>6 DEF QInv

(* The queue after tasks were added. *)
LEMMA Added ==
    ASSUME microtasks \in Seq(Tasks), NEW s \in Seq(Tasks), microtasks' = microtasks \o s
    PROVE  /\ microtasks' \in Seq(Tasks)
           /\ \A i \in DOMAIN microtasks' :
                 \/ i \in DOMAIN microtasks /\ microtasks'[i] = microtasks[i]
                 \/ /\ i > Len(microtasks) /\ i - Len(microtasks) \in DOMAIN s
                    /\ microtasks'[i] = s[i - Len(microtasks)]
           /\ \A i \in DOMAIN microtasks : i \in DOMAIN microtasks'
                                           /\ microtasks'[i] = microtasks[i]
           /\ \A i \in DOMAIN s : /\ Len(microtasks) + i \in DOMAIN microtasks'
                                  /\ microtasks'[Len(microtasks) + i] = s[i]
           /\ DOMAIN microtasks = 1 .. Len(microtasks) /\ Len(microtasks) \in Nat
           /\ DOMAIN s = 1 .. Len(s) /\ Len(s) \in Nat
           /\ DOMAIN microtasks' \subseteq Nat
<1>1. /\ microtasks' \in Seq(Tasks) /\ Len(microtasks') = Len(microtasks) + Len(s)
      /\ \A i \in 1 .. Len(microtasks') :
            microtasks'[i] = IF i <= Len(microtasks) THEN microtasks[i]
                             ELSE s[i - Len(microtasks)]
  BY ConcatProperties
<1>2. /\ DOMAIN microtasks = 1 .. Len(microtasks) /\ Len(microtasks) \in Nat
      /\ DOMAIN s = 1 .. Len(s) /\ Len(s) \in Nat
      /\ DOMAIN microtasks' = 1 .. Len(microtasks')
  BY <1>1, LenProperties
<1> QED
  BY <1>1, <1>2

(* What is queued after tasks were added. *)
LEMMA AddedTasks ==
    ASSUME microtasks \in Seq(Tasks), NEW s \in Seq(Tasks), microtasks' = microtasks \o s
    PROVE  \A t : Queued(t)' <=> Queued(t) \/ \E i \in DOMAIN s : s[i] = t
  BY Added, SMTT(60) DEF Queued

(* Tasks that may be added: an end comes first, is new, and no stop of its
   process waits to be continued; what is added is true of the manager. *)
MayAdd(s) ==
    /\ \A i \in DOMAIN s : \A p \in Procs, o \in Outcomes : s[i] = EndTask(p, o) =>
          /\ i = 1 /\ ~EndQueued(p) /\ EndReported(p, o)'
          /\ \A k \in Kills : Queued(AnswerTask(k)) => calls[k].target # p
    /\ \A i \in DOMAIN s : \A k \in Kills : s[i] = AnswerTask(k) => AnswerGiven(k)'

(* What was queued stays true of the manager. *)
StaysTrue ==
    /\ \A p \in Procs, o \in Outcomes : Queued(EndTask(p, o)) => EndReported(p, o)'
    /\ \A k \in Kills : Queued(AnswerTask(k)) =>
          AnswerGiven(k)' /\ calls'[k].target = calls[k].target

(* Adding such tasks keeps QInv. *)
LEMMA AddKeeps ==
    ASSUME QInv, microtasks \in Seq(Tasks), NEW s \in Seq(Tasks),
           microtasks' = microtasks \o s, MayAdd(s), StaysTrue
    PROVE  QInv'
<1>1. EndsReported'
  BY AddedTasks DEF EndsReported, MayAdd, StaysTrue
<1>2. AnswersGiven'
  BY AddedTasks DEF AnswersGiven, MayAdd, StaysTrue
<1>3. EndsOnce'
  <2> SUFFICES ASSUME NEW i \in DOMAIN microtasks', NEW j \in DOMAIN microtasks',
                      NEW p \in Procs, NEW o \in Outcomes, NEW w \in Outcomes,
                      microtasks'[i] = EndTask(p, o), microtasks'[j] = EndTask(p, w)
               PROVE  i = j
    BY DEF EndsOnce
  <2> DEFINE old(n) == n \in DOMAIN microtasks /\ microtasks'[n] = microtasks[n]
             new(n) == /\ n > Len(microtasks) /\ n - Len(microtasks) \in DOMAIN s
                       /\ microtasks'[n] = s[n - Len(microtasks)]
  <2>1. (old(i) \/ new(i)) /\ (old(j) \/ new(j)) /\ i \in Nat /\ j \in Nat
        /\ Len(microtasks) \in Nat
    BY Added
  <2>2. CASE old(i) /\ old(j)
    BY <2>2 DEF QInv, EndsOnce
  <2>3. CASE new(i) /\ new(j)
    <3>1. i - Len(microtasks) = 1 /\ j - Len(microtasks) = 1
      BY <2>3 DEF MayAdd
    <3> QED
      BY <2>1, <3>1
  <2>4. CASE old(i) /\ new(j)
    BY <2>4 DEF MayAdd, EndQueued, Queued
  <2>5. CASE new(i) /\ old(j)
    BY <2>5 DEF MayAdd, EndQueued, Queued
  <2> QED
    BY <2>1, <2>2, <2>3, <2>4, <2>5
<1>4. EndsFirst'
  <2> SUFFICES ASSUME NEW i \in DOMAIN microtasks', NEW j \in DOMAIN microtasks',
                      NEW k \in Kills, NEW p \in Procs, NEW o \in Outcomes,
                      i < j, microtasks'[i] = AnswerTask(k), microtasks'[j] = EndTask(p, o)
               PROVE  calls'[k].target # p
    BY DEF EndsFirst
  <2> DEFINE old(n) == n \in DOMAIN microtasks /\ microtasks'[n] = microtasks[n]
             new(n) == /\ n > Len(microtasks) /\ n - Len(microtasks) \in DOMAIN s
                       /\ microtasks'[n] = s[n - Len(microtasks)]
  <2>1. (old(i) \/ new(i)) /\ (old(j) \/ new(j)) /\ i \in Nat /\ j \in Nat
        /\ Len(microtasks) \in Nat /\ DOMAIN microtasks = 1 .. Len(microtasks)
        /\ DOMAIN s = 1 .. Len(s) /\ Len(s) \in Nat
    BY Added
  <2>2. CASE old(i) /\ old(j)
    <3>1. calls[k].target # p /\ Queued(AnswerTask(k))
      BY <2>2 DEF QInv, EndsFirst, Queued
    <3> QED
      BY <3>1 DEF StaysTrue
  <2>3. CASE old(i) /\ new(j)
    <3>1. Queued(AnswerTask(k))
      BY <2>3 DEF Queued
    <3>2. calls[k].target # p
      BY <2>3, <3>1 DEF MayAdd
    <3> QED
      BY <3>1, <3>2 DEF StaysTrue
  <2>4. CASE new(i)
    <3>1. new(j)
      BY <2>1, <2>4
    <3>2. j - Len(microtasks) = 1
      BY <3>1 DEF MayAdd
    <3> QED
      BY <2>1, <2>4, <3>2
  <2> QED
    BY <2>1, <2>2, <2>3, <2>4
<1> QED
  BY <1>1, <1>2, <1>3, <1>4 DEF QInv

-----------------------------------------------------------------------------
(* One process *)

(* A stop waits for p to die. *)
Awaited(p) == \E k \in Kills : calls[k].pc = "waiting" /\ calls[k].target = p

(* The end of p would be quiet, or nobody waits for it. *)
Covered(p) == ~Awaited(p) \/ p \in stops \/ Vanished(p)

(* The answer to a stop of p is on its way and will take the marker away. *)
Unmarking(p) ==
    \E k \in Kills : /\ Queued(AnswerTask(k)) /\ calls[k].target = p
                     /\ Unmarks(calls[k].result)

Unended(p) == status[p] # "absent" /\ ended[p] = 0

ProcInv(p) ==
    /\ status[p] = "absent" =>
          notices[p] = <<>> /\ p \notin stops /\ configs[p] = NoConfig
    /\ Unended(p) => configs[p] = asked[p] /\ configs[p] # NoConfig
    /\ configs[p] # NoConfig =>
          configs[p] = asked[p] /\ (Unended(p) \/ EndQueued(p))
    /\ \A o \in Outcomes : Queued(EndTask(p, o)) /\ notices[p] = <<>> =>
          configs[p] = asked[p] \/ o = "killed"
    /\ p \in stops => status[p] \in Live \/ EndQueued(p) \/ Unmarking(p)
    /\ ended[p] = 0 \/ status[p] \in {"running", "terminating"} => Covered(p)
    /\ \A o \in Outcomes : Queued(EndTask(p, o)) =>
          Covered(p) \/ (o = "killed" /\ configs[p] = NoConfig)
    /\ notices[p] = <<>> /\ ended[p] > 0 /\ ~EndQueued(p) =>
          status[p] \in Finished /\ (~Awaited(p) \/ Vanished(p))
    /\ outcome[p] = "crash" =>
          EndQueued(p) \/ (notices[p] # <<>> /\ Last(notices[p]).outcome = "crash")

(* A step that leaves p alone: others may be queued, answered, marked. *)
LeavesAlone(p) ==
    /\ status'[p] = status[p] /\ outcome'[p] = outcome[p] /\ ended'[p] = ended[p]
    /\ configs'[p] = configs[p] /\ asked'[p] = asked[p] /\ notices'[p] = notices[p]
    /\ p \in stops' <=> p \in stops
    /\ \A o \in Outcomes : Queued(EndTask(p, o))' <=> Queued(EndTask(p, o))
    /\ Awaited(p)' => Awaited(p)
    /\ Vanished(p) => Vanished(p)'
    /\ Unmarking(p) => Unmarking(p)'

(* A step that leaves p alone keeps what is said of p. *)
LEMMA AloneKeeps ==
    ASSUME NEW p \in Procs, ProcInv(p), LeavesAlone(p)
    PROVE  ProcInv(p)'
<1>1. EndQueued(p)' <=> EndQueued(p)
  BY DEF LeavesAlone, EndQueued
<1>2. Unended(p)' <=> Unended(p)
  BY DEF LeavesAlone, Unended
<1>3. Covered(p) => Covered(p)'
  BY DEF LeavesAlone, Covered
<1> QED
  BY <1>1, <1>2, <1>3 DEF LeavesAlone, ProcInv

(* Calls that stand keep answers on their way, and nobody comes back. *)
LEMMA StandingCalls ==
    ASSUME MInv, AnswersGiven, CallsStand, NEW p,
           \A k \in Kills : Queued(AnswerTask(k)) => Queued(AnswerTask(k))'
    PROVE  (Unmarking(p) => Unmarking(p)') /\ (Vanished(p) => Vanished(p)')
<1>1. ASSUME Unmarking(p) PROVE Unmarking(p)'
  <2>1. PICK k \in Kills : /\ Queued(AnswerTask(k)) /\ calls[k].target = p
                           /\ Unmarks(calls[k].result)
    BY <1>1 DEF Unmarking
  <2>2. calls'[k] = calls[k]
    BY <2>1 DEF AnswersGiven, AnswerGiven, CallsStand
  <2> QED
    BY <2>1, <2>2 DEF Unmarking
<1> QED
  BY <1>1, VanishedStays

(* Who is awaited when one call changes. *)
LEMMA CallAwaits ==
    ASSUME MInv, NEW k \in Kills, NEW c \in Call, Called(k, c), NEW q
    PROVE  /\ c.pc # "waiting" \/ c.target # q => (Awaited(q)' => Awaited(q))
           /\ c.result = "error" /\ c.target = q => Vanished(q)'
<1>1. calls'[k] = c /\ \A j \in Kills \ {k} : calls'[j] = calls[j]
  BY CalledMeans DEF MInv
<1> QED
  BY <1>1 DEF Awaited, Vanished

(* What is said of q itself stays as it is. *)
SameOf(q) ==
    /\ status'[q] = status[q] /\ outcome'[q] = outcome[q] /\ ended'[q] = ended[q]
    /\ configs'[q] = configs[q] /\ asked'[q] = asked[q] /\ notices'[q] = notices[q]
    /\ q \in stops' <=> q \in stops

(* Tasks about others leave q alone. *)
LEMMA AddAlone ==
    ASSUME MInv, QInv, CallsStand, microtasks \in Seq(Tasks), NEW s \in Seq(Tasks),
           microtasks' = microtasks \o s, NEW q \in Procs, SameOf(q),
           \A i \in DOMAIN s : \A o : s[i] # EndTask(q, o),
           Awaited(q)' => Awaited(q)
    PROVE  LeavesAlone(q)
<1>1. \A o : Queued(EndTask(q, o))' <=> Queued(EndTask(q, o))
  BY AddedTasks
<1>2. \A k \in Kills : Queued(AnswerTask(k)) => Queued(AnswerTask(k))'
  BY AddedTasks
<1>3. (Unmarking(q) => Unmarking(q)') /\ (Vanished(q) => Vanished(q)')
  BY <1>2, StandingCalls DEF QInv
<1> QED
  BY <1>1, <1>3 DEF LeavesAlone, SameOf

(* Taking a task about others leaves q alone. *)
LEMMA PopAlone ==
    ASSUME MInv, microtasks \in Seq(Tasks), microtasks # <<>>,
           microtasks' = Tail(microtasks), UNCHANGED managerVars,
           NEW q \in Procs, SameOf(q),
           \A o : Head(microtasks) # EndTask(q, o),
           \A k \in Kills : Head(microtasks) = AnswerTask(k) =>
               calls[k].target # q \/ ~Unmarks(calls[k].result)
    PROVE  LeavesAlone(q)
<1>1. \A o : Queued(EndTask(q, o))' <=> Queued(EndTask(q, o))
  BY PoppedTasks
<1>2. Unmarking(q) => Unmarking(q)'
  BY PoppedTasks DEF Unmarking, managerVars
<1>3. (Awaited(q)' <=> Awaited(q)) /\ (Vanished(q)' <=> Vanished(q))
  BY DEF Awaited, Vanished, managerVars
<1> QED
  BY <1>1, <1>2, <1>3 DEF LeavesAlone, SameOf

(* Nothing is queued between turns. *)
LEMMA NoneAtTurn ==
    ASSUME Turn
    PROVE  \A t : ~Queued(t)
  BY DEF Turn, Queued

(* A step about one process, of which nothing is queued that it makes untrue. *)
OthersStay(p) ==
    \A q \in Procs \ {p} : /\ status'[q] = status[q] /\ outcome'[q] = outcome[q]
                           /\ ended'[q] = ended[q] /\ (q \in known' => q \in known)

NotMistaken(p) ==
    /\ \A o \in Outcomes : Queued(EndTask(p, o)) =>
          ended'[p] > 0 /\ outcome'[p] = o /\ status'[p] \in Finished
    /\ \A k \in Kills :
          Queued(AnswerTask(k)) /\ calls[k].target = p /\ p \in known'
              => (calls[k].result \in {"ok", "not_found"} => status'[p] \notin Live)

(* Such a step leaves what was queued true. *)
LEMMA StaysTrueIf ==
    ASSUME MInv, QInv, CallsStand, NEW p \in Procs,
           OthersStay(p), NotMistaken(p)
    PROVE  StaysTrue
<1>1. ASSUME NEW q \in Procs, NEW o \in Outcomes, Queued(EndTask(q, o))
      PROVE  EndReported(q, o)'
  <2>1. CASE q = p
    BY <1>1, <2>1 DEF NotMistaken, EndReported
  <2>2. CASE q # p
    BY <1>1, <2>2 DEF OthersStay, QInv, EndsReported, EndReported
  <2> QED
    BY <2>1, <2>2
<1>2. ASSUME NEW k \in Kills, Queued(AnswerTask(k))
      PROVE  AnswerGiven(k)' /\ calls'[k].target = calls[k].target
  <2>1. AnswerGiven(k) /\ calls[k].pc = "done"
    BY <1>2 DEF QInv, AnswersGiven, AnswerGiven
  <2>2. calls'[k] = calls[k]
    BY <2>1 DEF CallsStand
  <2>3. calls[k].target \in Procs
    BY <2>1 DEF MInv
  <2>4. CASE calls[k].target = p
    BY <1>2, <2>1, <2>2, <2>4 DEF NotMistaken, AnswerGiven
  <2>5. CASE calls[k].target # p
    BY <2>1, <2>2, <2>3, <2>5 DEF OthersStay, AnswerGiven
  <2> QED
    BY <2>2, <2>4, <2>5
<1> QED
  BY <1>1, <1>2 DEF StaysTrue

-----------------------------------------------------------------------------
(* The invariant and the steps *)

(* What the first notice about a process may be. *)
FirstObeys(p) ==
    notices[p] # <<>> /\ Head(notices[p]).attention = "turn"
        => resolveAttention(Head(notices[p]).outcome, asked[p]) = "turn"

NInv ==
    /\ Types /\ MInv /\ QInv
    /\ ~over => \A p \in Procs : ProcInv(p)
    /\ \A p \in Procs : FirstObeys(p)

(* No config that is given is the one that stands for none. *)
LEMMA ConfigsAreSet == NoConfig \notin Configs
<1>1. NoConfig.onSuccess = "unset" /\ "unset" \notin Attention
  BY DEF NoConfig, Attention
<1> QED
  BY <1>1, ConfigsAreConfigs DEF Config

(* The rest of a stop keeps the invariant. *)
LEMMA StopContinuesKeeps ==
    ASSUME NInv, NEW k \in Kills, StopContinues(k)
    PROVE  NInv'
<1>1. /\ microtasks \in Seq(Tasks) /\ microtasks # <<>> /\ Head(microtasks) = AnswerTask(k)
      /\ microtasks' = Tail(microtasks)
      /\ UNCHANGED <<managerVars, configs, notices, asked>>
  BY DEF StopContinues, NInv, Types
<1>2. MInv'
  BY <1>1, RestKeeps DEF NInv
<1>3. QInv'
  BY <1>1, PopKeeps DEF NInv
<1>4. Types'
  BY <1>1, Popped DEF NInv, Types, StopContinues, managerVars
<1>5. AnswerGiven(k)
  <2>1. Queued(AnswerTask(k))
    BY <1>1, PoppedTasks
  <2> QED
    BY <2>1 DEF NInv, QInv, AnswersGiven
<1>6. ASSUME ~over', NEW q \in Procs PROVE ProcInv(q)'
  <2>1. ~over /\ ProcInv(q)
    BY <1>1, <1>6 DEF NInv, managerVars
  <2>2. CASE calls[k].target # q \/ ~Unmarks(calls[k].result)
    <3>1. SameOf(q)
      BY <1>1, <2>2 DEF SameOf, StopContinues, managerVars
    <3>2. \A o : Head(microtasks) # EndTask(q, o)
      BY <1>1, TaskFacts
    <3>3. \A j \in Kills : Head(microtasks) = AnswerTask(j) => j = k
      BY <1>1, TaskFacts
    <3>4. LeavesAlone(q)
      BY <1>1, <2>2, <3>1, <3>2, <3>3, PopAlone DEF NInv
    <3> QED
      BY <2>1, <3>4, AloneKeeps
  <2>3. CASE calls[k].target = q /\ Unmarks(calls[k].result)
    <3>1. q \notin stops'
      BY <2>3 DEF StopContinues
    <3>2. \A o \in Outcomes : ~Queued(EndTask(q, o)) /\ ~Queued(EndTask(q, o))'
      BY <1>1, <2>3, PopKeeps, PoppedTasks DEF NInv
    <3>3. ~EndQueued(q) /\ ~EndQueued(q)'
      BY <3>2 DEF EndQueued
    <3>4. /\ Awaited(q)' <=> Awaited(q)
          /\ Vanished(q)' <=> Vanished(q)
          /\ Unended(q)' <=> Unended(q)
      BY <1>1 DEF Awaited, Vanished, Unended, managerVars
    <3>5. (ended[q] = 0 \/ status[q] \in {"running", "terminating"}) => Vanished(q)
      <4>1. CASE calls[k].result = "error"
        BY <2>3, <4>1 DEF Vanished
      <4>2. CASE calls[k].result \in {"ok", "not_found"}
        BY <1>5, <2>3, <4>2 DEF AnswerGiven, NInv, MInv, MgrTypes, Live
      <4> QED
        BY <2>3, <4>1, <4>2 DEF Unmarks
    <3>6. Vanished(q) => Covered(q)'
      BY <3>4 DEF Covered
    <3> QED
      BY <1>1, <2>1, <3>1, <3>2, <3>3, <3>4, <3>5, <3>6 DEF ProcInv, managerVars
  <2> QED
    BY <2>2, <2>3
<1>7. ASSUME NEW q \in Procs PROVE FirstObeys(q)'
  BY <1>1 DEF NInv, FirstObeys
<1> QED
  BY <1>2, <1>3, <1>4, <1>6, <1>7 DEF NInv

(* How loud an end may be. *)
LEMMA AttentionFacts ==
    ASSUME NEW o \in Outcomes, NEW c \in Configs \cup {NoConfig}
    PROVE  /\ EffectiveAttention(o, c) \in Attention
           /\ o = "crash" => EffectiveAttention(o, c) # "ignore"
           /\ o = "killed" /\ c = NoConfig => EffectiveAttention(o, c) = "context"
           /\ EffectiveAttention(o, c) = "turn" => resolveAttention(o, c) = "turn"
<1> DEFINE e == IF c = NoConfig THEN DEFAULT_ATTENTION ELSE c
<1>1. e \in Config
  BY ConfigsAreConfigs DEF DEFAULT_ATTENTION, Config, Attention
<1>2. c = NoConfig => e.onKilled = "context"
  BY DEF DEFAULT_ATTENTION
<1>3. /\ o = "success" => resolveAttention(o, c) = e.onSuccess
      /\ o = "crash" => resolveAttention(o, c) = e.onFailure
      /\ o = "killed" => resolveAttention(o, c) = e.onKilled
  BY DEF resolveAttention
<1>4. o = "success" \/ o = "crash" \/ o = "killed"
  BY DEF Outcomes
<1>5. e.onSuccess \in Attention /\ e.onFailure \in Attention /\ e.onKilled \in Attention
  BY <1>1 DEF Config
<1> HIDE DEF e
<1>6. resolveAttention(o, c) \in Attention
  BY <1>3, <1>4, <1>5
<1> QED
  BY <1>2, <1>3, <1>6 DEF EffectiveAttention, Attention

(* How the end of p is told, if it is. *)
Told(p, o) == IF p \in stops THEN "context" ELSE EffectiveAttention(o, configs[p])

(* What the handler of an end leaves. *)
LEMMA HandledMeans ==
    ASSUME Types, NEW p \in Procs, NEW o \in Outcomes, handleProcessEnded(p, o)
    PROVE  /\ Told(p, o) \in Attention
           /\ Told(p, o) = "ignore" => notices' = notices
           /\ Told(p, o) # "ignore" =>
                 /\ notices'[p] = Append(notices[p], [outcome |-> o, attention |-> Told(p, o)])
                 /\ notices'[p] \in Seq(Notice)
                 /\ \A q \in Procs \ {p} : notices'[q] = notices[q]
           /\ notices' \in [Procs -> Seq(Notice)]
           /\ stops' = stops \ {p}
           /\ configs'[p] = NoConfig /\ \A q \in Procs \ {p} : configs'[q] = configs[q]
           /\ configs' \in [Procs -> Configs \cup {NoConfig}]
<1>1. Told(p, o) \in Attention
  BY AttentionFacts DEF Told, Types, Attention
<1>2. /\ notices' = IF Told(p, o) = "ignore" THEN notices
                    ELSE [notices EXCEPT ![p] =
                             Append(@, [outcome |-> o, attention |-> Told(p, o)])]
      /\ stops' = stops \ {p} /\ configs' = [configs EXCEPT ![p] = NoConfig]
  BY DEF handleProcessEnded, Told, Unregistered
<1>3. Told(p, o) # "ignore" =>
          Append(notices[p], [outcome |-> o, attention |-> Told(p, o)]) \in Seq(Notice)
  <2>1. Told(p, o) # "ignore" => [outcome |-> o, attention |-> Told(p, o)] \in Notice
    BY <1>1 DEF Notice, Attention
  <2> QED
    BY <2>1, AppendProperties DEF Types
<1>4. notices \in [Procs -> Seq(Notice)] /\ configs \in [Procs -> Configs \cup {NoConfig}]
  BY DEF Types
<1> HIDE DEF Told
<1> QED
  BY <1>1, <1>2, <1>3, <1>4

(* The ends of a sequence that grew by one. *)
LEMMA AppendEnds ==
    ASSUME NEW S, NEW s \in Seq(S), NEW e \in S
    PROVE  /\ Append(s, e) # <<>> /\ Last(Append(s, e)) = e
           /\ Head(Append(s, e)) = IF s = <<>> THEN e ELSE Head(s)
<1>1. /\ Append(s, e) \in Seq(S) /\ Append(s, e) # <<>>
      /\ Len(Append(s, e)) = Len(s) + 1 /\ Append(s, e)[Len(s) + 1] = e
      /\ \A i \in 1 .. Len(s) : Append(s, e)[i] = s[i]
      /\ Len(s) \in Nat
  BY AppendProperties, LenProperties
<1>2. Last(Append(s, e)) = e
  BY <1>1 DEF Last
<1>3. Head(Append(s, e)) = Append(s, e)[1]
  BY <1>1
<1>4. CASE s = <<>>
  BY <1>1, <1>2, <1>3, <1>4
<1>5. CASE s # <<>>
  <2>1. Len(s) > 0 /\ Head(s) = s[1]
    BY <1>1, <1>5, EmptySeq
  <2> QED
    BY <1>1, <1>2, <1>3, <1>5, <2>1
<1> QED
  BY <1>4, <1>5

(* An end that is ignored has nobody waiting for it, unless its process was
   found gone; a crash is never ignored; the config decides about a first one. *)
LEMMA ToldFacts ==
    ASSUME NInv, ~over, NEW p \in Procs, NEW o \in Outcomes, Queued(EndTask(p, o))
    PROVE  /\ Told(p, o) = "ignore" => ~Awaited(p) \/ Vanished(p)
           /\ o = "crash" => Told(p, o) # "ignore"
           /\ Told(p, o) = "turn" => ~Awaited(p) \/ Vanished(p)
           /\ Told(p, o) = "turn" /\ notices[p] = <<>> =>
                 resolveAttention(o, asked[p]) = "turn"
<1>1. ProcInv(p)
  BY DEF NInv
<1>2. configs[p] \in Configs \cup {NoConfig}
  BY DEF NInv, Types
<1>3. CASE p \in stops
  BY <1>3 DEF Told
<1>4. CASE p \notin stops
  <2>1. Told(p, o) = EffectiveAttention(o, configs[p])
    BY <1>4 DEF Told
  <2>2. (~Awaited(p) \/ Vanished(p)) \/ (o = "killed" /\ configs[p] = NoConfig)
    BY <1>1, <1>4 DEF ProcInv, Covered
  <2>3. notices[p] = <<>> => configs[p] = asked[p] \/ (o = "killed" /\ configs[p] = NoConfig)
    <3>1. notices[p] = <<>> => configs[p] = asked[p] \/ o = "killed"
      BY <1>1 DEF ProcInv
    <3>2. configs[p] # NoConfig => configs[p] = asked[p]
      BY <1>1 DEF ProcInv
    <3> QED
      BY <3>1, <3>2
  <2>4. /\ o = "crash" => EffectiveAttention(o, configs[p]) # "ignore"
        /\ o = "killed" /\ configs[p] = NoConfig =>
              EffectiveAttention(o, configs[p]) = "context"
        /\ EffectiveAttention(o, configs[p]) = "turn" =>
              resolveAttention(o, configs[p]) = "turn"
    BY <1>2, AttentionFacts
  <2> QED
    BY <2>1, <2>2, <2>3, <2>4
<1> QED
  BY <1>3, <1>4

(* Handling an end keeps the invariant. *)
LEMMA EndIsHandledKeeps ==
    ASSUME NInv, NEW p \in Procs, NEW o \in Outcomes, EndIsHandled(p, o)
    PROVE  NInv'
<1>1. /\ microtasks \in Seq(Tasks) /\ microtasks # <<>> /\ Head(microtasks) = EndTask(p, o)
      /\ microtasks' = Tail(microtasks) /\ UNCHANGED <<managerVars, asked>>
  BY DEF EndIsHandled, NInv, Types
<1>2. MInv'
  BY <1>1, RestKeeps DEF NInv
<1>3. QInv'
  BY <1>1, PopKeeps DEF NInv
<1>4. Queued(EndTask(p, o))
  BY <1>1, PoppedTasks
<1>5. microtasks' \in Seq(Tasks)
  BY <1>1, Popped
<1>6. CASE over
  <2>1. UNCHANGED <<stops, configs, notices>>
    BY <1>6 DEF EndIsHandled
  <2>2. Types'
    BY <1>1, <1>5, <2>1 DEF NInv, Types, managerVars
  <2>3. \A q \in Procs : FirstObeys(q)'
    BY <1>1, <2>1 DEF NInv, FirstObeys
  <2>4. over'
    BY <1>1, <1>6 DEF managerVars
  <2> QED
    BY <1>2, <1>3, <2>2, <2>3, <2>4 DEF NInv
<1>7. CASE ~over
  <2>1. handleProcessEnded(p, o) /\ Types
    BY <1>7 DEF EndIsHandled, NInv
  <2>2. Types'
    BY <1>1, <1>5, <2>1, HandledMeans DEF Types, managerVars
  <2>3. [outcome |-> o, attention |-> Told(p, o)].outcome = o
        /\ [outcome |-> o, attention |-> Told(p, o)].attention = Told(p, o)
    OBVIOUS
  <2>4. Told(p, o) # "ignore" =>
            /\ notices'[p] # <<>> /\ Last(notices'[p]).outcome = o
            /\ notices[p] = <<>> => /\ Head(notices'[p]).outcome = o
                                    /\ Head(notices'[p]).attention = Told(p, o)
            /\ notices[p] # <<>> => Head(notices'[p]) = Head(notices[p])
    <3> SUFFICES ASSUME Told(p, o) # "ignore"
                 PROVE  /\ notices'[p] # <<>> /\ Last(notices'[p]).outcome = o
                        /\ notices[p] = <<>> => /\ Head(notices'[p]).outcome = o
                                                /\ Head(notices'[p]).attention = Told(p, o)
                        /\ notices[p] # <<>> => Head(notices'[p]) = Head(notices[p])
      OBVIOUS
    <3> DEFINE e == [outcome |-> o, attention |-> Told(p, o)]
    <3>1. e \in Notice /\ e.outcome = o /\ e.attention = Told(p, o)
      BY <2>1, HandledMeans DEF Notice, Attention
    <3>2. notices[p] \in Seq(Notice) /\ notices'[p] = Append(notices[p], e)
      BY <2>1, HandledMeans DEF Types
    <3> HIDE DEF e
    <3>3. /\ notices'[p] # <<>> /\ Last(notices'[p]) = e
          /\ Head(notices'[p]) = IF notices[p] = <<>> THEN e ELSE Head(notices[p])
      BY <3>1, <3>2, AppendEnds
    <3> QED
      BY <3>1, <3>3
  <2>5. ASSUME NEW q \in Procs, q # p PROVE ProcInv(q)' /\ FirstObeys(q)'
    <3>1. notices'[q] = notices[q] /\ configs'[q] = configs[q] /\ (q \in stops' <=> q \in stops)
      BY <2>1, <2>5, HandledMeans
    <3>2. SameOf(q)
      BY <1>1, <3>1 DEF SameOf, managerVars
    <3>3. /\ \A w : Head(microtasks) # EndTask(q, w)
          /\ \A k \in Kills : Head(microtasks) # AnswerTask(k)
      BY <1>1, <2>5, TaskFacts
    <3>4. LeavesAlone(q)
      BY <1>1, <3>2, <3>3, PopAlone DEF NInv
    <3>5. ProcInv(q) /\ FirstObeys(q)
      BY <1>7 DEF NInv
    <3>6. FirstObeys(q)'
      BY <1>1, <3>1, <3>5 DEF FirstObeys
    <3> QED
      BY <3>4, <3>5, <3>6, AloneKeeps
  <2>6. ProcInv(p)'
    <3>1. ended'[p] > 0 /\ outcome'[p] = o /\ status'[p] \in Finished
      BY <1>1, <1>4 DEF NInv, QInv, EndsReported, EndReported, managerVars
    <3>2. p \notin stops' /\ configs'[p] = NoConfig
      BY <2>1, HandledMeans
    <3>3. \A w \in Outcomes : ~Queued(EndTask(p, w))'
      BY <1>1, PopKeeps DEF NInv
    <3>4. ended'[p] # 0 /\ ~Unended(p)' /\ status'[p] \notin {"absent", "running", "terminating"}
      BY <2>2, <3>1 DEF Unended, Finished, Types
    <3>5. (Awaited(p)' <=> Awaited(p)) /\ (Vanished(p)' <=> Vanished(p))
      BY <1>1 DEF Awaited, Vanished, managerVars
    <3>6. notices'[p] = <<>> => ~Awaited(p)' \/ Vanished(p)'
      BY <1>4, <1>7, <2>4, <3>5, ToldFacts
    <3>7. outcome'[p] = "crash" => notices'[p] # <<>> /\ Last(notices'[p]).outcome = "crash"
      BY <1>4, <1>7, <2>4, <3>1, ToldFacts
    <3> QED
      BY <3>1, <3>2, <3>3, <3>4, <3>6, <3>7 DEF ProcInv
  <2>7. FirstObeys(p)'
    <3>1. asked' = asked /\ FirstObeys(p)
      BY <1>1 DEF NInv
    <3>2. CASE Told(p, o) = "ignore"
      BY <2>1, <3>1, <3>2, HandledMeans DEF FirstObeys
    <3>3. CASE Told(p, o) # "ignore" /\ notices[p] = <<>>
      BY <1>4, <1>7, <2>4, <3>1, <3>3, ToldFacts DEF FirstObeys
    <3>4. CASE Told(p, o) # "ignore" /\ notices[p] # <<>>
      BY <2>4, <3>1, <3>4 DEF FirstObeys
    <3> QED
      BY <3>2, <3>3, <3>4
  <2> QED
    BY <1>2, <1>3, <2>2, <2>5, <2>6, <2>7 DEF NInv
<1> QED
  BY <1>6, <1>7

(* What one process or one stop adds to the queue. *)
LEMMA Singles ==
    ASSUME microtasks \in Seq(Tasks)
    PROVE  /\ <<>> \in Seq(Tasks) /\ microtasks \o <<>> = microtasks
           /\ \A t \in Tasks : /\ <<t>> \in Seq(Tasks) /\ DOMAIN <<t>> = {1} /\ <<t>>[1] = t
                               /\ microtasks \o <<t>> \o <<>> = microtasks \o <<t>>
           /\ \A p \in Procs, o \in Outcomes : EndTask(p, o) \in Tasks
           /\ \A k \in Kills : AnswerTask(k) \in Tasks
<1>1. /\ \A p \in Procs, o \in Outcomes : EndTask(p, o) \in Tasks
      /\ \A k \in Kills : AnswerTask(k) \in Tasks
  BY DEF Tasks
<1>2. <<>> \in Seq(Tasks) /\ microtasks \o <<>> = microtasks
  OBVIOUS
<1>3. ASSUME NEW t \in Tasks
      PROVE  /\ <<t>> \in Seq(Tasks) /\ DOMAIN <<t>> = {1} /\ <<t>>[1] = t
             /\ microtasks \o <<t>> \o <<>> = microtasks \o <<t>>
  <2>1. <<t>> \in Seq(Tasks) /\ DOMAIN <<t>> = {1} /\ <<t>>[1] = t
    OBVIOUS
  <2>2. microtasks \o <<t>> \in Seq(Tasks)
    BY <2>1, ConcatProperties
  <2>3. (microtasks \o <<t>>) \o <<>> = microtasks \o <<t>>
    BY <2>2
  <2> QED
    BY <2>1, <2>3
<1> QED
  BY <1>1, <1>2, <1>3

(* Nothing has happened about a process that was not started. *)
LEMMA AbsentFacts ==
    ASSUME NInv, NEW p \in Procs, status[p] = "absent"
    PROVE  /\ ended[p] = 0 /\ outcome[p] = "none" /\ ~EndQueued(p)
           /\ \A k \in Kills : calls[k].pc # "idle" => calls[k].target # p
           /\ \A k \in Kills : Queued(AnswerTask(k)) => calls[k].target # p
           /\ ~Awaited(p)
           /\ ~over => notices[p] = <<>> /\ p \notin stops /\ configs[p] = NoConfig
<1>1. ended[p] = 0 /\ outcome[p] = "none"
  BY DEF NInv, MInv, Finished
<1>2. ~EndQueued(p)
  BY <1>1 DEF NInv, QInv, EndsReported, EndReported, EndQueued
<1>3. \A k \in Kills : calls[k].pc # "idle" => calls[k].target # p
  BY DEF NInv, MInv
<1>4. \A k \in Kills : Queued(AnswerTask(k)) => calls[k].target # p
  BY <1>3 DEF NInv, QInv, AnswersGiven, AnswerGiven
<1>5. ~Awaited(p)
  BY <1>3 DEF Awaited
<1>6. ~over => notices[p] = <<>> /\ p \notin stops /\ configs[p] = NoConfig
  BY DEF NInv, ProcInv
<1> QED
  BY <1>1, <1>2, <1>3, <1>4, <1>5, <1>6

(* start() keeps the invariant. *)
LEMMA StartKeeps ==
    ASSUME NInv, NEW p \in Procs, NEW c \in Configs, Start(p, c)
    PROVE  NInv'
<1>1. /\ Begins(p) \/ BornDead(p)
      /\ configs' = [configs EXCEPT ![p] = c] /\ asked' = [asked EXCEPT ![p] = c]
      /\ QueueThen(<<>>) /\ stops' = stops /\ notices' = notices
  BY DEF Start, Registered
<1>2. MInv' /\ CallsStand
  BY <1>1, BeginsKeeps DEF NInv
<1>3. /\ ~over /\ ~over' /\ status[p] = "absent" /\ calls' = calls /\ microtasks \in Seq(Tasks)
      /\ Types /\ MInv /\ QInv
  BY <1>1 DEF Begins, BornDead, NInv, Types
<1>4. /\ configs'[p] = c /\ asked'[p] = c /\ c # NoConfig
      /\ \A q \in Procs \ {p} : configs'[q] = configs[q] /\ asked'[q] = asked[q]
      /\ configs' \in [Procs -> Configs \cup {NoConfig}]
      /\ asked' \in [Procs -> Configs \cup {NoConfig}]
  BY <1>1, <1>3, ConfigsAreSet DEF Types
<1>5. /\ ended[p] = 0 /\ outcome[p] = "none" /\ ~EndQueued(p) /\ ~Awaited(p) /\ ~Awaited(p)'
      /\ \A k \in Kills : Queued(AnswerTask(k)) => calls[k].target # p
      /\ notices[p] = <<>> /\ p \notin stops /\ configs[p] = NoConfig
  BY <1>3, AbsentFacts DEF Awaited
<1>6. \E s \in {<<>>, <<EndTask(p, "crash")>>} :
          /\ microtasks' = microtasks \o s
          /\ OthersStay(p)
          /\ \/ s = <<>> /\ status'[p] = "running" /\ outcome'[p] = "none" /\ ended'[p] = 0
             \/ s # <<>> /\ EndReported(p, "crash")' /\ status'[p] \notin {"absent", "running"}
                /\ status'[p] # "terminating"
  <2>1. CASE Begins(p)
    <3>1. UNCHANGED <<outcome, ended>>
      BY <2>1 DEF Begins
    <3>2. microtasks' = microtasks \o <<>>
      BY <1>1, <1>3, <3>1, NothingEnds, Singles
    <3> QED
      BY <1>3, <1>5, <2>1, <3>1, <3>2 DEF Begins, Types, OthersStay
  <2>2. CASE BornDead(p)
    <3>1. Ends(p, "exited", "crash", known \cup {p})
      BY <2>2 DEF BornDead
    <3>2. "exited" \in Finished /\ known \cup {p} \in SUBSET Procs
      BY <1>3 DEF Finished, Types
    <3>3. Ended1(p, "exited", "crash", known \cup {p}) /\ ended' = [ended EXCEPT ![p] = @ + 1]
      BY <1>3, <3>1, <3>2, EndsMeans DEF MInv
    <3>4. outcome'[p] = "crash" /\ "crash" \in Outcomes
      BY <3>3 DEF Ended1, Outcomes
    <3>5. microtasks' = microtasks \o <<EndTask(p, "crash")>> \o <<>>
      BY <1>1, <1>3, <3>3, <3>4, OneEnds
    <3>6. microtasks' = microtasks \o <<EndTask(p, "crash")>>
      BY <1>3, <3>4, <3>5, Singles
    <3>7. EndReported(p, "crash")' /\ status'[p] \notin {"absent", "running", "terminating"}
      BY <1>5, <3>2, <3>3 DEF Ended1, EndReported
    <3> QED
      BY <3>3, <3>6, <3>7 DEF Ended1, OthersStay
  <2> QED
    BY <1>1, <2>1, <2>2
<1> PICK s \in {<<>>, <<EndTask(p, "crash")>>} :
          /\ microtasks' = microtasks \o s
          /\ OthersStay(p)
          /\ \/ s = <<>> /\ status'[p] = "running" /\ outcome'[p] = "none" /\ ended'[p] = 0
             \/ s # <<>> /\ EndReported(p, "crash")' /\ status'[p] \notin {"absent", "running"}
                /\ status'[p] # "terminating"
  BY <1>6
<1>7. s \in Seq(Tasks) /\ (s = <<>> \/ (DOMAIN s = {1} /\ s[1] = EndTask(p, "crash")))
      /\ "crash" \in Outcomes
  BY <1>3, Singles DEF Outcomes
<1>8. \A i \in DOMAIN s : i = 1 /\ s[i] = EndTask(p, "crash") /\ s # <<>>
  BY <1>7
<1>9. MayAdd(s)
  BY <1>5, <1>8, TaskFacts DEF MayAdd
<1>10. StaysTrue
  <2>1. OthersStay(p)
    OBVIOUS
  <2>2. NotMistaken(p)
    <3>1. \A o \in Outcomes : ~Queued(EndTask(p, o))
      BY <1>5 DEF EndQueued
    <3>2. \A k \in Kills : ~(Queued(AnswerTask(k)) /\ calls[k].target = p)
      BY <1>5
    <3> QED
      BY <3>1, <3>2 DEF NotMistaken
  <2> QED
    BY <1>2, <1>3, <2>1, <2>2, StaysTrueIf
<1>11. QInv'
  BY <1>3, <1>7, <1>9, <1>10, AddKeeps
<1>12. ASSUME NEW q \in Procs, q # p PROVE ProcInv(q)' /\ FirstObeys(q)'
  <2>1. SameOf(q)
    BY <1>1, <1>4, <1>12 DEF SameOf, OthersStay
  <2>2. \A i \in DOMAIN s : \A o : s[i] # EndTask(q, o)
    BY <1>8, <1>12, TaskFacts
  <2>3. Awaited(q)' => Awaited(q)
    BY <1>3 DEF Awaited
  <2>4. LeavesAlone(q)
    BY <1>2, <1>3, <1>7, <2>1, <2>2, <2>3, AddAlone
  <2>5. ProcInv(q) /\ FirstObeys(q)
    BY <1>3 DEF NInv
  <2> QED
    BY <2>1, <2>4, <2>5, AloneKeeps DEF FirstObeys, SameOf
<1>13. \A t : Queued(t)' <=> Queued(t) \/ (s # <<>> /\ t = EndTask(p, "crash"))
  BY <1>3, <1>7, <1>8, AddedTasks, SMTT(60)
<1>14. ProcInv(p)'
  <2>1. CASE s = <<>>
    <3>1. /\ status'[p] = "running" /\ outcome'[p] = "none" /\ ended'[p] = 0
          /\ notices'[p] = <<>> /\ p \notin stops'
      BY <1>1, <1>5, <2>1
    <3>2. \A o \in Outcomes : ~Queued(EndTask(p, o))'
      BY <1>5, <1>13, <2>1 DEF EndQueued
    <3>3. Unended(p)' /\ Covered(p)'
      BY <1>5, <3>1 DEF Unended, Covered
    <3> QED
      BY <1>4, <3>1, <3>2, <3>3 DEF ProcInv
  <2>2. CASE s # <<>>
    <3>1. /\ EndReported(p, "crash")' /\ notices'[p] = <<>> /\ p \notin stops'
          /\ status'[p] \notin {"absent", "running", "terminating"}
      BY <1>1, <1>5, <2>2
    <3>2. Queued(EndTask(p, "crash"))'
      BY <1>13, <2>2
    <3>3. EndQueued(p)' /\ ended'[p] > 0
      BY <1>7, <3>1, <3>2 DEF EndQueued, EndReported
    <3>4. Covered(p)' /\ ~Unended(p)'
      BY <1>5, <3>3 DEF Covered, Unended
    <3> QED
      BY <1>4, <3>1, <3>3, <3>4 DEF ProcInv
  <2> QED
    BY <2>1, <2>2
<1>15. FirstObeys(p)'
  BY <1>1, <1>5 DEF FirstObeys
<1>16. Types'
  <2>1. microtasks' \in Seq(Tasks)
    BY <1>3, <1>7, Added
  <2> QED
    BY <1>1, <1>2, <1>3, <1>4, <2>1 DEF Types, MInv, MgrTypes
<1> QED
  BY <1>2, <1>11, <1>12, <1>14, <1>15, <1>16 DEF NInv

(* Between turns, whatever may be added leaves what was queued true. *)
LEMMA TurnStaysTrue ==
    ASSUME Turn
    PROVE  StaysTrue
  BY NoneAtTurn DEF StaysTrue

(* What a new end of p needs of p: it was covered, and a first notice about it
   would go by the config, or it is a kill. *)
MayEnd(p, o) ==
    /\ Covered(p) \/ (o = "killed" /\ configs[p] = NoConfig)
    /\ notices[p] = <<>> => configs[p] = asked[p] \/ o = "killed"
    /\ configs[p] # NoConfig => configs[p] = asked[p]

(* The end of p, queued between turns, keeps what is said of p. *)
LEMMA EndedKeeps ==
    ASSUME NEW p \in Procs, NEW o \in Outcomes, MayEnd(p, o), EndReported(p, o)',
           \A w : Queued(EndTask(p, w))' <=> w = o,
           UNCHANGED <<stops, configs, notices, asked>>,
           Awaited(p)' => Awaited(p), Vanished(p) => Vanished(p)',
           ended' \in [Procs -> Nat]
    PROVE  ProcInv(p)'
<1>1. EndQueued(p)'
  BY DEF EndQueued
<1>2. Covered(p) => Covered(p)'
  BY DEF Covered
<1>3. /\ ended'[p] # 0 /\ status'[p] \notin {"absent", "running", "terminating"}
      /\ ~Unended(p)'
  BY DEF EndReported, Finished, Unended
<1> QED
  BY <1>1, <1>2, <1>3 DEF MayEnd, ProcInv

(* Between turns, what is unfinished may end in any way, and whatever waits for
   its stop may be killed. *)
LEMMA EndsAllowed ==
    ASSUME NInv, ~over, Turn, NEW p \in Procs, NEW o \in Outcomes,
           status[p] # "absent",
           status[p] \in {"running", "terminating"} \/ o = "killed"
    PROVE  MayEnd(p, o)
<1>1. ProcInv(p) /\ ~EndQueued(p) /\ ended[p] \in Nat
  BY NoneAtTurn DEF NInv, EndQueued, Types
<1>2. configs[p] # NoConfig => configs[p] = asked[p] /\ Unended(p)
  BY <1>1 DEF ProcInv
<1>3. Covered(p) \/ (o = "killed" /\ configs[p] = NoConfig)
  <2>1. CASE ended[p] = 0 \/ status[p] \in {"running", "terminating"}
    BY <1>1, <2>1 DEF ProcInv
  <2>2. CASE ended[p] # 0 /\ o = "killed"
    BY <1>2, <2>2 DEF Unended
  <2> QED
    BY <2>1, <2>2
<1>4. notices[p] = <<>> => configs[p] = asked[p] \/ o = "killed"
  <2> SUFFICES ASSUME notices[p] = <<>>, o # "killed" PROVE configs[p] = asked[p]
    OBVIOUS
  <2>1. status[p] \in {"running", "terminating"}
    OBVIOUS
  <2>2. status[p] \notin Finished
    BY <2>1 DEF Finished
  <2>3. ended[p] = 0
    BY <1>1, <2>2 DEF ProcInv
  <2> QED
    BY <1>1, <2>3 DEF ProcInv, Unended
<1> QED
  BY <1>2, <1>3, <1>4 DEF MayEnd

(* An end that the manager notices keeps the invariant. *)
LEMMA ProcessEndsKeeps ==
    ASSUME NInv, NEW p \in Procs, ProcessEnds(p)
    PROVE  NInv'
<1> PICK st \in Finished, o \in Outcomes : Finishes(p, st, o)
  BY DEF ProcessEnds
<1>1. /\ Turn /\ QueueThen(<<>>) /\ UNCHANGED <<stops, configs, notices, asked>>
      /\ Ends(p, st, o, known) /\ calls' = calls /\ over' = over
      /\ status[p] \in {"running", "terminating"} /\ status[p] # "absent"
  BY DEF ProcessEnds, Finishes
<1>2. Types /\ MInv /\ QInv /\ microtasks \in Seq(Tasks) /\ microtasks = <<>>
  BY <1>1 DEF NInv, Types, Turn
<1>3. MInv' /\ CallsStand
  BY <1>2, FinishesKeeps
<1>4. known \in SUBSET Procs
  BY <1>2 DEF Types
<1>5. Ended1(p, st, o, known) /\ ended' = [ended EXCEPT ![p] = @ + 1]
  BY <1>1, <1>2, <1>4, EndsMeans DEF MInv
<1>6. outcome'[p] = o /\ EndReported(p, o)'
  BY <1>2, <1>5 DEF Ended1, EndReported, Types
<1>7. EndTask(p, o) \in Tasks /\ microtasks' = microtasks \o <<EndTask(p, o)>>
  BY <1>1, <1>2, <1>5, <1>6, OneEnds, Singles
<1> DEFINE s == <<EndTask(p, o)>>
<1>8. s \in Seq(Tasks) /\ DOMAIN s = {1} /\ s[1] = EndTask(p, o)
  BY <1>2, <1>7, Singles
<1>9. microtasks' = microtasks \o s
  BY <1>7
<1> HIDE DEF s
<1>10. \A t : ~Queued(t)
  BY <1>1, NoneAtTurn
<1>11. MayAdd(s)
  BY <1>6, <1>8, <1>10, TaskFacts DEF MayAdd, EndQueued
<1>12. QInv'
  BY <1>1, <1>2, <1>8, <1>9, <1>11, TurnStaysTrue, AddKeeps
<1>13. \A t : Queued(t)' <=> t = EndTask(p, o)
  BY <1>2, <1>8, <1>9, <1>10, AddedTasks
<1>14. ASSUME ~over', NEW q \in Procs PROVE ProcInv(q)'
  <2>1. ~over /\ ProcInv(q)
    BY <1>1, <1>14 DEF NInv
  <2>2. CASE q = p
    <3>1. MayEnd(p, o)
      BY <1>1, <2>1, EndsAllowed
    <3>2. \A w : Queued(EndTask(p, w))' <=> w = o
      BY <1>13, TaskFacts
    <3>3. (Awaited(p)' => Awaited(p)) /\ (Vanished(p) => Vanished(p)')
      BY <1>1 DEF Awaited, Vanished
    <3>4. ended' \in [Procs -> Nat]
      BY <1>3 DEF MInv, MgrTypes
    <3> QED
      BY <1>1, <1>6, <2>2, <3>1, <3>2, <3>3, <3>4, EndedKeeps
  <2>3. CASE q # p
    <3>1. SameOf(q)
      BY <1>1, <1>5, <2>3 DEF SameOf, Ended1
    <3>2. \A i \in DOMAIN s : \A w : s[i] # EndTask(q, w)
      BY <1>8, <2>3, TaskFacts
    <3>3. Awaited(q)' => Awaited(q)
      BY <1>1 DEF Awaited
    <3>4. LeavesAlone(q)
      BY <1>2, <1>3, <1>8, <1>9, <3>1, <3>2, <3>3, AddAlone
    <3> QED
      BY <2>1, <3>4, AloneKeeps
  <2> QED
    BY <2>2, <2>3
<1>15. \A q \in Procs : FirstObeys(q)'
  BY <1>1 DEF NInv, FirstObeys
<1>16. Types'
  <2>1. microtasks' \in Seq(Tasks)
    BY <1>2, <1>8, <1>9, Added
  <2> QED
    BY <1>1, <1>2, <1>3, <2>1 DEF Types, MInv, MgrTypes
<1> QED
  BY <1>3, <1>12, <1>14, <1>15, <1>16 DEF NInv

(* A stop that timed out keeps what is said of its process. *)
LEMMA TimedOutKeeps ==
    ASSUME NEW p \in Procs, ProcInv(p), Awaited(p), ~Vanished(p), status[p] # "absent",
           ended[p] \in Nat, status'[p] = "terminate_timeout", outcome'[p] = "none",
           ended'[p] = ended[p], UNCHANGED <<stops, configs, notices, asked>>,
           \A o : ~Queued(EndTask(p, o)) /\ ~Queued(EndTask(p, o))',
           Awaited(p)' => Awaited(p)
    PROVE  ProcInv(p)'
<1>1. ~EndQueued(p) /\ ~EndQueued(p)'
  BY DEF EndQueued
<1>2. Unended(p)' <=> Unended(p)
  BY DEF Unended
<1>3. ended'[p] = 0 => Covered(p)'
  BY DEF ProcInv, Covered
<1>4. ~(notices[p] = <<>> /\ ended[p] > 0)
  BY <1>1 DEF ProcInv
<1>5. status'[p] \in Live /\ status'[p] \notin {"absent", "running", "terminating"}
  BY DEF Live
<1>6. /\ status'[p] # "absent" /\ outcome'[p] # "crash"
      /\ \A o \in Outcomes : ~Queued(EndTask(p, o))'
  OBVIOUS
<1>7. Unended(p)' => configs'[p] = asked'[p] /\ configs'[p] # NoConfig
  BY <1>2 DEF ProcInv
<1>8. configs'[p] # NoConfig =>
          configs'[p] = asked'[p] /\ (Unended(p)' \/ EndQueued(p)')
  BY <1>1, <1>2 DEF ProcInv
<1>9. ~(notices'[p] = <<>> /\ ended'[p] > 0)
  BY <1>4
<1> QED
  BY <1>3, <1>5, <1>6, <1>7, <1>8, <1>9 DEF ProcInv

(* A stop that finds its process killed keeps what is said of it. *)
LEMMA FoundKilledKeeps ==
    ASSUME NEW p \in Procs, ProcInv(p), Unmarking(p)',
           UNCHANGED <<status, outcome, ended, stops, configs, notices, asked>>,
           \A o : ~Queued(EndTask(p, o)) /\ ~Queued(EndTask(p, o))',
           Awaited(p)' => Awaited(p), Vanished(p) => Vanished(p)'
    PROVE  ProcInv(p)'
<1>1. ~EndQueued(p) /\ ~EndQueued(p)'
  BY DEF EndQueued
<1>2. Unended(p)' <=> Unended(p)
  BY DEF Unended
<1>3. Covered(p) => Covered(p)'
  BY DEF Covered
<1> QED
  BY <1>1, <1>2, <1>3 DEF ProcInv

(* A stop that timed out, between turns, keeps the invariant. *)
LEMMA TimesOutKeeps ==
    ASSUME NInv, NEW k \in Kills, StopWakes(k), TimesOut(k)
    PROVE  NInv'
<1> PICK p : p = calls[k].target
  OBVIOUS
<1> DEFINE c == [pc |-> "done", target |-> p, result |-> "timeout"]
           s == <<AnswerTask(k)>>
<1>1. /\ Turn /\ QueueThen(s) /\ UNCHANGED <<stops, configs, notices, asked>>
      /\ calls[k].pc = "waiting" /\ ~Vanished(p) /\ Becomes(p, "terminate_timeout")
      /\ Called(k, c) /\ over' = over
  BY DEF StopWakes, TimesOut, Answer, Called
<1>2. Types /\ MInv /\ QInv /\ microtasks \in Seq(Tasks)
  BY DEF NInv, Types
<1>3. MInv' /\ CallsStand
  BY <1>2, WakeKeeps
<1>4. p \in Procs /\ status[p] # "absent"
  BY <1>1, <1>2 DEF MInv
<1>5. /\ status'[p] = "terminate_timeout" /\ outcome'[p] = "none"
      /\ \A q \in Procs \ {p} : status'[q] = status[q] /\ outcome'[q] = outcome[q]
      /\ UNCHANGED <<ended, known>>
  BY <1>1, <1>2, <1>4, BecomesMeans DEF MInv, Live
<1>6. c \in Call /\ c.pc = "done" /\ c.result = "timeout"
  BY <1>4 DEF Call
<1>7. s \in Seq(Tasks) /\ DOMAIN s = {1} /\ s[1] = AnswerTask(k)
  BY <1>2, Singles
<1> HIDE DEF s, c
<1>8. microtasks' = microtasks \o s
  BY <1>1, <1>2, <1>5, <1>7, NothingEnds
<1>9. \A t : ~Queued(t)
  BY <1>1, NoneAtTurn
<1>10. \A t : Queued(t)' <=> t = AnswerTask(k)
  BY <1>2, <1>7, <1>8, <1>9, AddedTasks
<1>11. calls'[k] = c
  BY <1>1, <1>2, <1>6, CalledMeans DEF MInv
<1>12. QInv'
  <2>1. AnswerGiven(k)'
    BY <1>6, <1>11 DEF AnswerGiven
  <2>2. MayAdd(s)
    BY <1>7, <2>1, TaskFacts DEF MayAdd
  <2> QED
    BY <1>1, <1>2, <1>7, <1>8, <2>2, TurnStaysTrue, AddKeeps
<1>13. \A q : Awaited(q)' => Awaited(q)
  BY <1>1, <1>2, <1>6, CallAwaits
<1>14. ASSUME ~over', NEW q \in Procs PROVE ProcInv(q)'
  <2>1. ~over /\ ProcInv(q)
    BY <1>1, <1>14 DEF NInv
  <2>2. CASE q = p
    <3>1. Awaited(p)
      BY <1>1 DEF Awaited
    <3>2. \A o : ~Queued(EndTask(p, o)) /\ ~Queued(EndTask(p, o))'
      BY <1>9, <1>10, TaskFacts
    <3>3. ended[p] \in Nat /\ ended'[p] = ended[p]
      BY <1>2, <1>4, <1>5 DEF Types
    <3> QED
      BY <1>1, <1>4, <1>5, <1>13, <2>1, <2>2, <3>1, <3>2, <3>3, TimedOutKeeps
  <2>3. CASE q # p
    <3>1. SameOf(q)
      BY <1>1, <1>5, <2>3 DEF SameOf
    <3>2. \A i \in DOMAIN s : \A w : s[i] # EndTask(q, w)
      BY <1>7, TaskFacts
    <3>3. LeavesAlone(q)
      BY <1>2, <1>3, <1>7, <1>8, <1>13, <3>1, <3>2, AddAlone
    <3> QED
      BY <2>1, <3>3, AloneKeeps
  <2> QED
    BY <2>2, <2>3
<1>15. \A q \in Procs : FirstObeys(q)'
  BY <1>1 DEF NInv, FirstObeys
<1>16. Types'
  <2>1. microtasks' \in Seq(Tasks)
    BY <1>2, <1>7, <1>8, Added
  <2> QED
    BY <1>1, <1>2, <1>3, <2>1 DEF Types, MInv, MgrTypes
<1> QED
  BY <1>3, <1>12, <1>14, <1>15, <1>16 DEF NInv

(* A stop that finds its process killed, between turns, keeps the invariant. *)
LEMMA FoundKilledStep ==
    ASSUME NInv, NEW k \in Kills, StopWakes(k), Succeeds(k),
           UNCHANGED <<status, outcome, ended, known>>, status[calls[k].target] = "killed"
    PROVE  NInv'
<1> PICK p : p = calls[k].target
  OBVIOUS
<1> DEFINE c == [pc |-> "done", target |-> p, result |-> "ok"]
           s == <<AnswerTask(k)>>
<1>1. /\ Turn /\ QueueThen(s) /\ UNCHANGED <<stops, configs, notices, asked>>
      /\ calls[k].pc = "waiting" /\ Called(k, c) /\ over' = over /\ status[p] = "killed"
  BY DEF StopWakes, Succeeds, Answer, Called
<1>2. Types /\ MInv /\ QInv /\ microtasks \in Seq(Tasks)
  BY DEF NInv, Types
<1>3. MInv' /\ CallsStand
  BY <1>2, WakeKeeps
<1>4. p \in Procs
  BY <1>1, <1>2 DEF MInv
<1>5. c \in Call /\ c.pc = "done" /\ c.result = "ok" /\ c.target = p
  BY <1>4 DEF Call
<1>6. s \in Seq(Tasks) /\ DOMAIN s = {1} /\ s[1] = AnswerTask(k)
  BY <1>2, Singles
<1> HIDE DEF s, c
<1>7. microtasks' = microtasks \o s
  BY <1>1, <1>2, <1>6, NothingEnds
<1>8. \A t : ~Queued(t)
  BY <1>1, NoneAtTurn
<1>9. \A t : Queued(t)' <=> t = AnswerTask(k)
  BY <1>2, <1>6, <1>7, <1>8, AddedTasks, ZenonT(60)
<1>10. calls'[k] = c
  BY <1>1, <1>2, <1>5, CalledMeans DEF MInv
<1>11. QInv'
  <2>1. AnswerGiven(k)'
    BY <1>1, <1>5, <1>10 DEF AnswerGiven, Live
  <2>2. MayAdd(s)
    BY <1>6, <2>1, TaskFacts DEF MayAdd
  <2> QED
    BY <1>1, <1>2, <1>6, <1>7, <2>2, TurnStaysTrue, AddKeeps
<1>12. \A q : Awaited(q)' => Awaited(q)
  BY <1>1, <1>2, <1>5, CallAwaits
<1>13. ASSUME ~over', NEW q \in Procs PROVE ProcInv(q)'
  <2>1. ~over /\ ProcInv(q)
    BY <1>1, <1>13 DEF NInv
  <2>2. CASE q = p
    <3>1. Unmarking(p)'
      BY <1>5, <1>9, <1>10 DEF Unmarking, Unmarks
    <3>2. \A o : ~Queued(EndTask(p, o)) /\ ~Queued(EndTask(p, o))'
      BY <1>8, <1>9, TaskFacts
    <3>3. Vanished(p) => Vanished(p)'
      BY <1>2, <1>3, VanishedStays
    <3> QED
      BY <1>1, <1>4, <1>12, <2>1, <2>2, <3>1, <3>2, <3>3, FoundKilledKeeps
  <2>3. CASE q # p
    <3>1. SameOf(q)
      BY <1>1 DEF SameOf
    <3>2. \A i \in DOMAIN s : \A w : s[i] # EndTask(q, w)
      BY <1>6, TaskFacts
    <3>3. LeavesAlone(q)
      BY <1>2, <1>3, <1>6, <1>7, <1>12, <3>1, <3>2, AddAlone
    <3> QED
      BY <2>1, <3>3, AloneKeeps
  <2> QED
    BY <2>2, <2>3
<1>14. \A q \in Procs : FirstObeys(q)'
  BY <1>1 DEF NInv, FirstObeys
<1>15. Types'
  <2>1. microtasks' \in Seq(Tasks)
    BY <1>2, <1>6, <1>7, Added
  <2> QED
    BY <1>1, <1>2, <1>3, <2>1 DEF Types, MInv, MgrTypes
<1> QED
  BY <1>3, <1>11, <1>13, <1>14, <1>15 DEF NInv

(* A stop that ends its process, between turns, keeps the invariant. *)
LEMMA KillsStep ==
    ASSUME NInv, NEW k \in Kills, StopWakes(k), Succeeds(k),
           Ends(calls[k].target, "killed", "killed", known)
    PROVE  NInv'
<1> PICK p : p = calls[k].target
  OBVIOUS
<1> DEFINE c == [pc |-> "done", target |-> p, result |-> "ok"]
           s == <<EndTask(p, "killed")>> \o <<AnswerTask(k)>>
<1>1. /\ Turn /\ QueueThen(<<AnswerTask(k)>>) /\ UNCHANGED <<stops, configs, notices, asked>>
      /\ calls[k].pc = "waiting" /\ Called(k, c) /\ over' = over
      /\ Ends(p, "killed", "killed", known)
  BY DEF StopWakes, Succeeds, Answer, Called
<1>2. Types /\ MInv /\ QInv /\ microtasks \in Seq(Tasks) /\ microtasks = <<>>
  BY <1>1 DEF NInv, Types, Turn
<1>3. MInv' /\ CallsStand
  BY <1>2, WakeKeeps
<1>4. p \in Procs /\ status[p] # "absent"
  BY <1>1, <1>2 DEF MInv
<1>5. known \in SUBSET Procs /\ "killed" \in Finished /\ "killed" \in Outcomes
  BY <1>2 DEF Types, Finished, Outcomes
<1>6. Ended1(p, "killed", "killed", known) /\ ended' = [ended EXCEPT ![p] = @ + 1]
  BY <1>1, <1>2, <1>4, <1>5, EndsMeans DEF MInv
<1>7. outcome'[p] = "killed" /\ status'[p] = "killed" /\ EndReported(p, "killed")'
  BY <1>2, <1>4, <1>5, <1>6 DEF Ended1, EndReported, Types
<1>8. c \in Call /\ c.pc = "done" /\ c.result = "ok" /\ c.target = p
  BY <1>4 DEF Call
<1>9. EndTask(p, "killed") \in Tasks /\ AnswerTask(k) \in Tasks
  BY <1>2, <1>4, <1>5, Singles
<1>10. /\ s \in Seq(Tasks) /\ DOMAIN s = {1, 2}
       /\ s[1] = EndTask(p, "killed") /\ s[2] = AnswerTask(k)
  BY <1>9
<1>11. microtasks' = microtasks \o s
  <2>1. microtasks' = microtasks \o <<EndTask(p, "killed")>> \o <<AnswerTask(k)>>
    BY <1>1, <1>2, <1>4, <1>6, <1>7, OneEnds
  <2> QED
    BY <1>2, <1>9, <2>1
<1> HIDE DEF s, c
<1>12. \A t : ~Queued(t)
  BY <1>1, NoneAtTurn
<1>13. \A t : Queued(t)' <=> t = EndTask(p, "killed") \/ t = AnswerTask(k)
  BY <1>2, <1>10, <1>11, <1>12, AddedTasks
<1>14. calls'[k] = c
  BY <1>1, <1>2, <1>8, CalledMeans DEF MInv
<1>15. QInv'
  <2>1. AnswerGiven(k)'
    BY <1>7, <1>8, <1>14 DEF AnswerGiven, Live
  <2>2. \A i \in DOMAIN s : i = 1 \/ i = 2
    BY <1>10
  <2>3. MayAdd(s)
    BY <1>7, <1>10, <1>12, <2>1, <2>2, TaskFacts DEF MayAdd, EndQueued
  <2> QED
    BY <1>1, <1>2, <1>10, <1>11, <2>3, TurnStaysTrue, AddKeeps
<1>16. \A q : Awaited(q)' => Awaited(q)
  BY <1>1, <1>2, <1>8, CallAwaits
<1>17. ASSUME ~over', NEW q \in Procs PROVE ProcInv(q)'
  <2>1. ~over /\ ProcInv(q)
    BY <1>1, <1>17 DEF NInv
  <2>2. CASE q = p
    <3>1. MayEnd(p, "killed")
      BY <1>1, <1>4, <1>5, <2>1, EndsAllowed
    <3>2. \A w : Queued(EndTask(p, w))' <=> w = "killed"
      BY <1>13, TaskFacts
    <3>3. Vanished(p) => Vanished(p)'
      BY <1>2, <1>3, VanishedStays
    <3>4. ended' \in [Procs -> Nat]
      BY <1>3 DEF MInv, MgrTypes
    <3> QED
      BY <1>1, <1>4, <1>5, <1>7, <1>16, <2>2, <3>1, <3>2, <3>3, <3>4, EndedKeeps
  <2>3. CASE q # p
    <3>1. SameOf(q)
      BY <1>1, <1>6, <2>3 DEF SameOf, Ended1
    <3>2. \A i \in DOMAIN s : \A w : s[i] # EndTask(q, w)
      BY <1>10, <2>3, TaskFacts
    <3>3. LeavesAlone(q)
      BY <1>2, <1>3, <1>10, <1>11, <1>16, <3>1, <3>2, AddAlone
    <3> QED
      BY <2>1, <3>3, AloneKeeps
  <2> QED
    BY <2>2, <2>3
<1>18. \A q \in Procs : FirstObeys(q)'
  BY <1>1 DEF NInv, FirstObeys
<1>19. Types'
  <2>1. microtasks' \in Seq(Tasks)
    BY <1>2, <1>10, <1>11, Added
  <2> QED
    BY <1>1, <1>2, <1>3, <2>1 DEF Types, MInv, MgrTypes
<1> QED
  BY <1>3, <1>15, <1>17, <1>18, <1>19 DEF NInv

(* A stop of what is live, marked, keeps what is said of it. *)
LEMMA MarkedLiveKeeps ==
    ASSUME NEW p \in Procs, ProcInv(p), status[p] \in Live, p \in stops',
           ended[p] \in Nat, status'[p] = "terminating", outcome'[p] = "none",
           ended'[p] = ended[p], UNCHANGED <<configs, notices, asked>>,
           \A o : ~Queued(EndTask(p, o)) /\ ~Queued(EndTask(p, o))'
    PROVE  ProcInv(p)'
<1>1. ~EndQueued(p) /\ ~EndQueued(p)'
  BY DEF EndQueued
<1>2. status[p] # "absent" /\ status[p] \notin Finished /\ status'[p] \in Live
  BY DEF Live, Finished
<1>3. Unended(p)' <=> Unended(p)
  BY <1>2 DEF Unended
<1>4. Covered(p)'
  BY DEF Covered
<1>5. ~(notices[p] = <<>> /\ ended[p] > 0)
  BY <1>1, <1>2 DEF ProcInv
<1>6. /\ status'[p] # "absent" /\ outcome'[p] # "crash"
      /\ \A o \in Outcomes : ~Queued(EndTask(p, o))'
  OBVIOUS
<1>7. Unended(p)' => configs'[p] = asked'[p] /\ configs'[p] # NoConfig
  BY <1>3 DEF ProcInv
<1>8. configs'[p] # NoConfig =>
          configs'[p] = asked'[p] /\ (Unended(p)' \/ EndQueued(p)')
  BY <1>1, <1>3 DEF ProcInv
<1>9. ~(notices'[p] = <<>> /\ ended'[p] > 0)
  BY <1>5
<1> QED
  BY <1>2, <1>4, <1>6, <1>7, <1>8, <1>9 DEF ProcInv

(* A stop of what has ended, marked until its answer is handled, keeps what is
   said of it. *)
LEMMA MarkedDeadKeeps ==
    ASSUME NEW p \in Procs, ProcInv(p), status[p] # "absent", p \in stops', Unmarking(p)',
           UNCHANGED <<status, outcome, ended, configs, notices, asked>>,
           \A o : Queued(EndTask(p, o))' <=> Queued(EndTask(p, o)),
           Awaited(p)' => Awaited(p), Vanished(p) => Vanished(p)'
    PROVE  ProcInv(p)'
<1>1. EndQueued(p)' <=> EndQueued(p)
  BY DEF EndQueued
<1>2. Unended(p)' <=> Unended(p)
  BY DEF Unended
<1>3. Covered(p)'
  BY DEF Covered
<1> QED
  BY <1>1, <1>2, <1>3 DEF ProcInv

(* A stop that finds nothing to stop keeps the invariant. *)
LEMMA RefusedStep ==
    ASSUME NInv, NEW k \in Kills, NEW p \in Procs, status[p] # "absent",
           stops' = stops \cup {p}, Refused(k, p), QueueThen(<<AnswerTask(k)>>),
           UNCHANGED <<configs, notices, asked>>
    PROVE  NInv'
<1> DEFINE c == [pc |-> "done", target |-> p,
                 result |-> IF p \in known THEN "ok" ELSE "not_found"]
           s == <<AnswerTask(k)>>
<1>1. /\ QueueThen(s) /\ Called(k, c) /\ ~over /\ ~IsKnownLive(p)
      /\ UNCHANGED <<status, outcome, ended, known, over>>
  BY DEF Refused, Answer, Called
<1>2. Types /\ MInv /\ QInv /\ microtasks \in Seq(Tasks)
  BY DEF NInv, Types
<1>3. MInv' /\ CallsStand
  BY <1>2, KillKeeps
<1>4. c \in Call /\ c.pc = "done" /\ c.result \in {"ok", "not_found"} /\ c.target = p
  BY DEF Call
<1>5. s \in Seq(Tasks) /\ DOMAIN s = {1} /\ s[1] = AnswerTask(k)
  BY <1>2, Singles
<1> HIDE DEF s, c
<1>6. microtasks' = microtasks \o s
  BY <1>1, <1>2, <1>5, NothingEnds
<1>7. \A t : Queued(t)' <=> Queued(t) \/ t = AnswerTask(k)
  BY <1>2, <1>5, <1>6, AddedTasks
<1>8. calls'[k] = c
  BY <1>1, <1>2, <1>4, CalledMeans DEF MInv
<1>9. QInv'
  <2>1. AnswerGiven(k)'
    BY <1>1, <1>4, <1>8 DEF AnswerGiven, IsKnownLive
  <2>2. MayAdd(s)
    BY <1>5, <2>1, TaskFacts DEF MayAdd
  <2>3. OthersStay(p)
    BY <1>1 DEF OthersStay
  <2>4. NotMistaken(p)
    BY <1>1, <1>2 DEF NotMistaken, QInv, EndsReported, EndReported, IsKnownLive
  <2>5. StaysTrue
    BY <1>2, <1>3, <2>3, <2>4, StaysTrueIf
  <2> QED
    BY <1>2, <1>5, <1>6, <2>2, <2>5, AddKeeps
<1>10. \A q : Awaited(q)' => Awaited(q)
  BY <1>1, <1>2, <1>4, CallAwaits
<1>11. ASSUME NEW q \in Procs PROVE ProcInv(q)'
  <2>1. ProcInv(q)
    BY <1>1 DEF NInv
  <2>2. CASE q = p
    <3>1. Unmarking(p)'
      BY <1>4, <1>7, <1>8 DEF Unmarking, Unmarks
    <3>2. \A o : Queued(EndTask(p, o))' <=> Queued(EndTask(p, o))
      BY <1>7, TaskFacts
    <3>3. Vanished(p) => Vanished(p)'
      BY <1>2, <1>3, VanishedStays
    <3>4. p \in stops'
      OBVIOUS
    <3> QED
      BY <1>1, <1>10, <2>1, <2>2, <3>1, <3>2, <3>3, <3>4, MarkedDeadKeeps
  <2>3. CASE q # p
    <3>1. SameOf(q)
      BY <1>1, <2>3 DEF SameOf
    <3>2. \A i \in DOMAIN s : \A w : s[i] # EndTask(q, w)
      BY <1>5, TaskFacts
    <3>3. LeavesAlone(q)
      BY <1>2, <1>3, <1>5, <1>6, <1>10, <3>1, <3>2, AddAlone
    <3> QED
      BY <2>1, <3>3, AloneKeeps
  <2> QED
    BY <2>2, <2>3
<1>12. \A q \in Procs : FirstObeys(q)'
  BY DEF NInv, FirstObeys
<1>13. Types'
  <2>1. microtasks' \in Seq(Tasks)
    BY <1>2, <1>5, <1>6, Added
  <2> QED
    BY <1>1, <1>2, <1>3, <2>1 DEF Types, MInv, MgrTypes
<1> QED
  BY <1>3, <1>9, <1>11, <1>12, <1>13 DEF NInv

(* A stop of what is live, answered at once or waiting, keeps the invariant. *)
LEMMA SignalledStep ==
    ASSUME NInv, NEW k \in Kills, NEW p \in Procs,
           stops' = stops \cup {p}, UNCHANGED <<configs, notices, asked>>,
           \/ Failed(k, p) /\ QueueThen(<<AnswerTask(k)>>)
           \/ Accepted(k, p) /\ QueueThen(<<>>)
    PROVE  NInv'
<1>1. /\ ~over /\ over' = over /\ IsKnownLive(p) /\ Becomes(p, "terminating")
  BY DEF Failed, Accepted
<1>2. Types /\ MInv /\ QInv /\ microtasks \in Seq(Tasks)
  BY DEF NInv, Types
<1>3. status[p] \in Live /\ status[p] # "absent"
  BY <1>1, <1>2, KnownLive
<1>4. MInv' /\ CallsStand
  BY <1>2, <1>3, KillKeeps
<1>5. /\ status'[p] = "terminating" /\ outcome'[p] = "none"
      /\ \A q \in Procs \ {p} : status'[q] = status[q] /\ outcome'[q] = outcome[q]
      /\ UNCHANGED <<ended, known>>
  BY <1>1, <1>2, BecomesMeans DEF MInv, Live
<1>6. \E s \in {<<>>, <<AnswerTask(k)>>} :
          /\ microtasks' = microtasks \o s
          /\ s # <<>> => AnswerGiven(k)'
          /\ \A q : q # p => (Awaited(q)' => Awaited(q))
  <2>1. CASE Failed(k, p) /\ QueueThen(<<AnswerTask(k)>>)
    <3> DEFINE c == [pc |-> "done", target |-> p, result |-> "error"]
    <3>1. Called(k, c) /\ c \in Call /\ c.pc = "done" /\ c.result = "error"
      BY <2>1 DEF Failed, Answer, Called, Call
    <3> HIDE DEF c
    <3>2. calls'[k] = c
      BY <1>2, <3>1, CalledMeans DEF MInv
    <3>3. AnswerGiven(k)'
      BY <3>1, <3>2 DEF AnswerGiven
    <3>4. \A q : Awaited(q)' => Awaited(q)
      BY <1>2, <3>1, CallAwaits
    <3>5. microtasks' = microtasks \o <<AnswerTask(k)>>
      BY <1>2, <1>5, <2>1, NothingEnds, Singles
    <3> QED
      BY <3>3, <3>4, <3>5
  <2>2. CASE Accepted(k, p) /\ QueueThen(<<>>)
    <3> DEFINE c == [pc |-> "waiting", target |-> p, result |-> "none"]
    <3>1. Called(k, c) /\ c \in Call /\ c.target = p
      BY <2>2 DEF Accepted, Called, Call
    <3> HIDE DEF c
    <3>2. \A q : q # p => (Awaited(q)' => Awaited(q))
      BY <1>2, <3>1, CallAwaits
    <3>3. microtasks' = microtasks \o <<>>
      BY <1>2, <1>5, <2>2, NothingEnds, Singles
    <3> QED
      BY <3>2, <3>3
  <2> QED
    BY <2>1, <2>2
<1> PICK s \in {<<>>, <<AnswerTask(k)>>} :
          /\ microtasks' = microtasks \o s
          /\ s # <<>> => AnswerGiven(k)'
          /\ \A q : q # p => (Awaited(q)' => Awaited(q))
  BY <1>6
<1>7. s \in Seq(Tasks) /\ (s = <<>> \/ (DOMAIN s = {1} /\ s[1] = AnswerTask(k)))
  BY <1>2, Singles
<1>8. \A i \in DOMAIN s : s[i] = AnswerTask(k) /\ s # <<>>
  BY <1>7
<1>9. \A o \in Outcomes : ~Queued(EndTask(p, o))
  BY <1>2, <1>3 DEF QInv, EndsReported, EndReported, Live, Finished
<1>10. \A o : ~Queued(EndTask(p, o))
  <2>1. ASSUME NEW o, Queued(EndTask(p, o)) PROVE o \in Outcomes
    <3>1. PICK i \in DOMAIN microtasks : microtasks[i] = EndTask(p, o)
      BY <2>1 DEF Queued
    <3>2. microtasks[i] \in Tasks
      BY <1>2, <3>1, ElementOfSeq, LenProperties
    <3> QED
      BY <3>1, <3>2, TaskFacts DEF Tasks
  <2> QED
    BY <1>9, <2>1
<1>11. \A o : ~Queued(EndTask(p, o))'
  <2>1. \A t : Queued(t)' <=> Queued(t) \/ \E i \in DOMAIN s : s[i] = t
    BY <1>2, <1>7, AddedTasks
  <2>2. ASSUME NEW o PROVE ~Queued(EndTask(p, o))'
    <3>1. \A i \in DOMAIN s : s[i] # EndTask(p, o)
      BY <1>8, TaskFacts
    <3> QED
      BY <1>10, <2>1, <3>1
  <2> QED
    BY <2>2
<1>12. QInv'
  <2>1. MayAdd(s)
    BY <1>8, TaskFacts DEF MayAdd
  <2>2. OthersStay(p)
    BY <1>5 DEF OthersStay
  <2>3. NotMistaken(p)
    BY <1>1, <1>2, <1>3, <1>9 DEF NotMistaken, QInv, AnswersGiven, AnswerGiven, IsKnownLive
  <2>4. StaysTrue
    BY <1>2, <1>4, <2>2, <2>3, StaysTrueIf
  <2> QED
    BY <1>2, <1>7, <2>1, <2>4, AddKeeps
<1>13. ASSUME NEW q \in Procs PROVE ProcInv(q)'
  <2>1. ProcInv(q)
    BY <1>1 DEF NInv
  <2>2. CASE q = p
    <3>1. ended[p] \in Nat /\ ended'[p] = ended[p] /\ p \in stops'
      BY <1>2, <1>5 DEF Types
    <3>2. ProcInv(p)
      BY <2>1, <2>2
    <3>3. \A o : ~Queued(EndTask(p, o)) /\ ~Queued(EndTask(p, o))'
      BY <1>10, <1>11
    <3>4. ProcInv(p)'
      BY <1>3, <1>5, <3>1, <3>2, <3>3, MarkedLiveKeeps
    <3> QED
      BY <2>2, <3>4
  <2>3. CASE q # p
    <3>1. SameOf(q)
      BY <1>5, <2>3 DEF SameOf
    <3>2. \A i \in DOMAIN s : \A w : s[i] # EndTask(q, w)
      BY <1>8, TaskFacts
    <3>3. Awaited(q)' => Awaited(q)
      BY <2>3
    <3>4. LeavesAlone(q)
      BY <1>2, <1>4, <1>7, <3>1, <3>2, <3>3, AddAlone
    <3> QED
      BY <2>1, <3>4, AloneKeeps
  <2> QED
    BY <2>2, <2>3
<1>14. \A q \in Procs : FirstObeys(q)'
  BY DEF NInv, FirstObeys
<1>15. Types'
  <2>1. microtasks' \in Seq(Tasks)
    BY <1>2, <1>7, Added
  <2> QED
    BY <1>1, <1>2, <1>4, <2>1 DEF Types, MInv, MgrTypes
<1> QED
  BY <1>4, <1>12, <1>13, <1>14, <1>15 DEF NInv

(* A stop keeps the invariant. *)
LEMMA StopKeeps ==
    ASSUME NInv, NEW k \in Kills, NEW p \in Procs, Stop(k, p)
    PROVE  NInv'
<1>1. /\ status[p] # "absent" /\ stops' = stops \cup {p}
      /\ UNCHANGED <<configs, notices, asked>>
  BY DEF Stop, Marked
<1>2. \/ Refused(k, p) /\ QueueThen(<<AnswerTask(k)>>)
      \/ Failed(k, p) /\ QueueThen(<<AnswerTask(k)>>)
      \/ Accepted(k, p) /\ QueueThen(<<>>)
  BY DEF Stop
<1> QED
  BY <1>1, <1>2, RefusedStep, SignalledStep

(* The grace timer of a stop keeps the invariant. *)
LEMMA StopWakesKeeps ==
    ASSUME NInv, NEW k \in Kills, StopWakes(k)
    PROVE  NInv'
<1>1. CASE TimesOut(k)
  BY <1>1, TimesOutKeeps
<1>2. CASE Succeeds(k)
  <2>1. \/ status[calls[k].target] = "killed" /\ UNCHANGED <<status, outcome, ended, known>>
        \/ Ends(calls[k].target, "killed", "killed", known)
    BY <1>2 DEF Succeeds
  <2> QED
    BY <1>2, <2>1, FoundKilledStep, KillsStep
<1> QED
  BY <1>1, <1>2 DEF StopWakes

(* Forgetting keeps the invariant. *)
LEMMA ForgetKeeps ==
    ASSUME NInv, Forget
    PROVE  NInv'
<1>1. /\ UNCHANGED <<status, outcome, ended, calls, over>> /\ UNCHANGED noticeVars
      /\ known' \subseteq known
  BY DEF Forget, Forgets
<1>2. MInv' /\ CallsStand
  BY RestKeeps DEF NInv, Forget
<1>3. Types /\ MInv /\ QInv /\ microtasks \in Seq(Tasks)
  BY DEF NInv, Types
<1>4. microtasks' = microtasks \o <<>> /\ <<>> \in Seq(Tasks)
  BY <1>1, <1>3, Singles DEF noticeVars
<1>5. \A i \in DOMAIN <<>> : FALSE
  OBVIOUS
<1>6. QInv'
  <2>1. MayAdd(<<>>)
    BY <1>5 DEF MayAdd
  <2>2. \A p \in Procs, o \in Outcomes : Queued(EndTask(p, o)) => EndReported(p, o)'
    BY <1>1, <1>3 DEF QInv, EndsReported, EndReported
  <2>3. \A k \in Kills : Queued(AnswerTask(k)) =>
            AnswerGiven(k)' /\ calls'[k].target = calls[k].target
    BY <1>1, <1>3 DEF QInv, AnswersGiven, AnswerGiven
  <2>4. StaysTrue
    BY <2>2, <2>3 DEF StaysTrue
  <2> QED
    BY <1>3, <1>4, <2>1, <2>4, AddKeeps
<1>7. ASSUME ~over', NEW q \in Procs PROVE ProcInv(q)'
  <2>1. ProcInv(q)
    BY <1>1, <1>7 DEF NInv
  <2>2. SameOf(q)
    BY <1>1 DEF SameOf, noticeVars
  <2>3. Awaited(q)' => Awaited(q)
    BY <1>1 DEF Awaited
  <2>4. LeavesAlone(q)
    BY <1>2, <1>3, <1>4, <1>5, <2>2, <2>3, AddAlone
  <2> QED
    BY <2>1, <2>4, AloneKeeps
<1>8. \A q \in Procs : FirstObeys(q)'
  BY <1>1 DEF NInv, FirstObeys, noticeVars
<1>9. Types'
  BY <1>1, <1>2, <1>3 DEF Types, MInv, MgrTypes, noticeVars
<1> QED
  BY <1>2, <1>6, <1>7, <1>8, <1>9 DEF NInv

(* Shutting the session down keeps the invariant. *)
LEMMA SessionShutdownKeeps ==
    ASSUME NInv, SessionShutdown
    PROVE  NInv'
<1>1. /\ UNCHANGED <<status, outcome, ended, known, calls>> /\ over' = TRUE
      /\ UNCHANGED <<microtasks, notices, asked>> /\ stops' = {}
      /\ configs' = [p \in Procs |-> NoConfig]
  BY DEF SessionShutdown, Shutdown
<1>2. MInv' /\ CallsStand
  BY RestKeeps DEF NInv, SessionShutdown
<1>3. Types'
  BY <1>1, <1>2 DEF NInv, Types, MInv, MgrTypes
<1>4. QInv'
  <2>1. EndsOnce' /\ EndsFirst'
    BY <1>1 DEF NInv, QInv, EndsOnce, EndsFirst
  <2>2. \A t : Queued(t)' <=> Queued(t)
    BY <1>1 DEF Queued
  <2>3. EndsReported'
    BY <1>1, <2>2 DEF NInv, QInv, EndsReported, EndReported
  <2>4. AnswersGiven'
    BY <1>1, <2>2 DEF NInv, QInv, AnswersGiven, AnswerGiven
  <2> QED
    BY <2>1, <2>3, <2>4 DEF QInv
<1>5. \A q \in Procs : FirstObeys(q)'
  BY <1>1 DEF NInv, FirstObeys
<1> QED
  BY <1>1, <1>2, <1>3, <1>4, <1>5 DEF NInv

(* Nothing happens. *)
LEMMA StutterKeeps ==
    ASSUME NInv, UNCHANGED vars
    PROVE  NInv'
<1>1. /\ UNCHANGED <<status, outcome, ended, known, calls, over>>
      /\ UNCHANGED <<microtasks, stops, configs, notices, asked>>
  BY DEF vars, managerVars, noticeVars
<1>2. MInv'
  BY RestKeeps DEF NInv, vars
<1>3. Types'
  BY <1>1 DEF NInv, Types
<1>4. \A t : Queued(t)' <=> Queued(t)
  BY <1>1 DEF Queued
<1>5. QInv'
  <2>1. EndsOnce' /\ EndsFirst'
    BY <1>1 DEF NInv, QInv, EndsOnce, EndsFirst
  <2>2. EndsReported'
    BY <1>1, <1>4 DEF NInv, QInv, EndsReported, EndReported
  <2>3. AnswersGiven'
    BY <1>1, <1>4 DEF NInv, QInv, AnswersGiven, AnswerGiven
  <2> QED
    BY <2>1, <2>2, <2>3 DEF QInv
<1>6. ASSUME ~over', NEW q \in Procs PROVE ProcInv(q)'
  <2>1. ProcInv(q)
    BY <1>1, <1>6 DEF NInv
  <2>2. /\ Awaited(q)' <=> Awaited(q)
        /\ Vanished(q)' <=> Vanished(q)
        /\ Unmarking(q)' <=> Unmarking(q)
    BY <1>1, <1>4 DEF Awaited, Vanished, Unmarking
  <2>3. LeavesAlone(q)
    BY <1>1, <1>4, <2>2 DEF LeavesAlone
  <2> QED
    BY <2>1, <2>3, AloneKeeps
<1>7. \A q \in Procs : FirstObeys(q)'
  BY <1>1 DEF NInv, FirstObeys
<1> QED
  BY <1>2, <1>3, <1>5, <1>6, <1>7 DEF NInv

(* In the beginning nothing was started, queued or told. *)
LEMMA InitNInv ==
    ASSUME Init
    PROVE  NInv
<1>1. /\ status = [p \in Procs |-> "absent"] /\ outcome = [p \in Procs |-> "none"]
      /\ ended = [p \in Procs |-> 0] /\ known = {} /\ over = FALSE
      /\ calls = [k \in Kills |-> NoCall]
      /\ microtasks = <<>> /\ stops = {} /\ configs = [p \in Procs |-> NoConfig]
      /\ notices = [p \in Procs |-> <<>>] /\ asked = [p \in Procs |-> NoConfig]
  BY DEF Init, PromiseInit
<1>2. NoCall \in Call /\ NoCall.pc = "idle" /\ NoCall.result = "none"
  BY DEF NoCall, Call
<1>3. <<>> \in Seq(Tasks) /\ <<>> \in Seq(Notice)
  OBVIOUS
<1>4. Types
  BY <1>1, <1>2, <1>3 DEF Types
<1>5. MgrTypes
  BY <1>4 DEF Types, MgrTypes
<1>6. MInv
  BY <1>1, <1>2, <1>5 DEF MInv
<1>7. \A t : ~Queued(t)
  BY <1>1, NoneAtTurn DEF Turn
<1>8. QInv
  <2>1. \A i \in DOMAIN microtasks : FALSE
    BY <1>1
  <2>2. EndsOnce /\ EndsFirst
    BY <2>1 DEF EndsOnce, EndsFirst
  <2> QED
    BY <1>7, <2>2 DEF QInv, EndsReported, AnswersGiven
<1>9. ASSUME NEW p \in Procs PROVE ProcInv(p) /\ FirstObeys(p)
  <2>1. /\ status[p] = "absent" /\ ended[p] = 0 /\ outcome[p] = "none"
        /\ notices[p] = <<>> /\ configs[p] = NoConfig /\ p \notin stops
    BY <1>1
  <2>2. Covered(p)
    BY <1>1, <1>2 DEF Covered, Awaited
  <2>3. ~Unended(p)
    BY <2>1 DEF Unended
  <2> QED
    BY <1>7, <2>1, <2>2, <2>3 DEF ProcInv, FirstObeys
<1> QED
  BY <1>4, <1>6, <1>8, <1>9 DEF NInv

(* Every step keeps the invariant. *)
LEMMA NextNInv ==
    ASSUME NInv, [Next]_vars
    PROVE  NInv'
<1>1. ASSUME NEW p \in Procs, ProcessEnds(p) PROVE NInv'
  BY <1>1, ProcessEndsKeeps
<1>2. ASSUME NEW p \in Procs, NEW c \in Configs, Start(p, c) PROVE NInv'
  BY <1>2, StartKeeps
<1>3. ASSUME NEW p \in Procs, NEW k \in Kills, Stop(k, p) PROVE NInv'
  BY <1>3, StopKeeps
<1>4. ASSUME NEW p \in Procs, NEW o \in Outcomes, EndIsHandled(p, o) PROVE NInv'
  BY <1>4, EndIsHandledKeeps
<1>5. ASSUME NEW k \in Kills, StopWakes(k) PROVE NInv'
  BY <1>5, StopWakesKeeps
<1>6. ASSUME NEW k \in Kills, StopContinues(k) PROVE NInv'
  BY <1>6, StopContinuesKeeps
<1>7. CASE Forget
  BY <1>7, ForgetKeeps
<1>8. CASE SessionShutdown
  BY <1>8, SessionShutdownKeeps
<1>9. CASE UNCHANGED vars
  BY <1>9, StutterKeeps
<1> QED
  BY <1>1, <1>2, <1>3, <1>4, <1>5, <1>6, <1>7, <1>8, <1>9 DEF Next

(* The notification service, its queue and the manager agree in every reachable
   state. *)
THEOREM NoticeInvariance == Spec => []NInv
<1>1. Init => NInv
  BY InitNInv
<1>2. NInv /\ [Next]_vars => NInv'
  BY NextNInv
<1> QED
  BY <1>1, <1>2, PTL DEF Spec

(* A marker does not outlive its process, and a registration lasts exactly as
   long as its process has not ended, however ends, stops, their answers and
   clears interleave (registry.ts, kill-process.ts). *)
THEOREM BookkeepingFollows == Spec => []BookkeepingFollowsProcess
<1>1. NInv => BookkeepingFollowsProcess
  <2> SUFFICES ASSUME NInv, Turn, ~over, NEW p \in Procs
               PROVE  /\ p \in stops => status[p] \in Live
                      /\ configs[p] # NoConfig <=> status[p] # "absent" /\ ended[p] = 0
    BY DEF BookkeepingFollowsProcess, MarkersAreOfLiveProcesses,
           RegistrationFollowsProcess, NInv, Types
  <2>1. ProcInv(p) /\ ~EndQueued(p) /\ ~Unmarking(p)
    BY NoneAtTurn DEF NInv, EndQueued, Unmarking
  <2> QED
    BY <2>1 DEF ProcInv, Unended
<1> QED
  BY <1>1, NoticeInvariance, PTL

(* A crash always leaves a notification, and it is the last one, whatever the
   config, the markers and the order of the ends (service.ts:100-118). *)
THEOREM CrashesShown == Spec => []CrashIsShown
<1>1. NInv => CrashIsShown
  <2> SUFFICES ASSUME NInv, Turn, ~over, NEW p \in Procs, outcome[p] = "crash"
               PROVE  notices[p] # <<>> /\ Last(notices[p]).outcome = "crash"
    BY DEF CrashIsShown
  <2>1. ProcInv(p) /\ ~EndQueued(p)
    BY NoneAtTurn DEF NInv, EndQueued
  <2> QED
    BY <2>1 DEF ProcInv
<1> QED
  BY <1>1, NoticeInvariance, PTL

(* The first notification about a process wakes the agent only if the config
   given to its start says so, though the process may have ended before it was
   registered (service.ts:75-82). *)
THEOREM ConfigsObeyed == Spec => []ConfigIsObeyed
<1>1. NInv => ConfigIsObeyed
  BY DEF NInv, FirstObeys, ConfigIsObeyed
<1> QED
  BY <1>1, NoticeInvariance, PTL

(* While a stop waits for a process to die, its end does not wake the agent,
   unless another stop of it found nobody to signal (kill-process.ts:16-27). *)
THEOREM StopsQuiet == Spec => StopIsQuietAlone
<1> DEFINE Quiet ==
        \A p \in Procs : Wakes(p) =>
            \/ \A k \in Kills : ~ (calls[k].pc = "waiting" /\ calls[k].target = p)
            \/ \E k \in Kills : calls[k].target = p /\ calls[k].result = "error"
<1>1. ASSUME NInv, [Next]_vars PROVE [Quiet]_vars
  <2> SUFFICES ASSUME NEW p \in Procs, Wakes(p) PROVE ~Awaited(p) \/ Vanished(p)
    BY DEF Awaited, Vanished
  <2>1. notices[p] \in Seq(Notice) /\ Len(notices[p]) \in Nat
        /\ Len(notices'[p]) > Len(notices[p])
    BY <1>1, LenProperties DEF Wakes, NInv, Types
  <2>2. notices' # notices
    BY <2>1
  <2>3. PICK q \in Procs, o \in Outcomes : EndIsHandled(q, o)
    BY <1>1, <2>2 DEF Next, vars, noticeVars, ProcessEnds, Start, Stop, StopWakes,
                      StopContinues, Forget, SessionShutdown
  <2>4. ~over /\ handleProcessEnded(q, o) /\ Types
    BY <1>1, <2>2, <2>3 DEF EndIsHandled, NInv
  <2>5. q = p
    <3>1. q # p => notices'[p] = notices[p]
      BY <2>4, HandledMeans
    <3>2. notices'[p] # notices[p]
      BY <2>1
    <3> QED
      BY <3>1, <3>2
  <2>6. Told(p, o) # "ignore"
    BY <2>2, <2>4, <2>5, HandledMeans
  <2> DEFINE e == [outcome |-> o, attention |-> Told(p, o)]
  <2>7. e \in Notice /\ e.attention = Told(p, o) /\ notices'[p] = Append(notices[p], e)
    BY <2>4, <2>5, <2>6, HandledMeans DEF Notice, Attention
  <2> HIDE DEF e
  <2>8. Last(notices'[p]) = e
    BY <2>1, <2>7, AppendEnds
  <2>9. Told(p, o) = "turn"
    BY <2>7, <2>8 DEF Wakes
  <2>10. Queued(EndTask(p, o))
    BY <2>3, <2>4, <2>5, PoppedTasks DEF EndIsHandled, Types
  <2> QED
    BY <1>1, <2>4, <2>9, <2>10, ToldFacts
<1>2. [][Quiet]_vars => StopIsQuietAlone
  BY DEF StopIsQuietAlone
<1> QED
  BY <1>1, <1>2, NoticeInvariance, PTL DEF Spec
================================================================================
