------------------------ MODULE ProcessLifecycleProofs ------------------------
(***************************************************************************)
(* Proofs about ProcessLifecycle, for every number of processes and kills, *)
(* every retention limit and grace, and an unbounded clock as well as a    *)
(* bounded one.                                                            *)
(*                                                                         *)
(* The inductive invariant IInv joins the safety invariants that TLC       *)
(* checks with what relates a record to the operating system, to the kills *)
(* that wait for it and to its place in the registry.                      *)
(***************************************************************************)
EXTENDS ProcessLifecycle, FiniteSetTheorems, WellFoundedInduction,
        NaturalsInduction, TLAPS

(* A record exists once the process was started, whatever became of it. *)
Started(p) == leader[p] \notin {"none", "threw"}

RecordsFollowStarts ==
    /\ \A p \in Procs : rec[p].status = "absent" <=> ~Started(p)
    /\ \A p \in Procs : ~Started(p) => rec[p] = AbsentRecord /\ ended[p] = 0
    /\ \A p \in registry : Started(p)
    /\ \A p \in groupAlive : Started(p)
    /\ \A k \in Kills : kills[k].pc = "waiting" =>
          kills[k].target \in Procs /\ Started(kills[k].target)
    /\ \A k \in Kills : kills[k].pc # "done" => kills[k].result = "none"

(* An undated record is not finished, was never reported ended, and no stop of
   it has timed out; a dated one has a verdict, and if it is live a timeout
   dated or revived it. *)
DatesFollowEnds ==
    \A p \in Procs :
        /\ rec[p].endTime = Never =>
              /\ ended[p] = 0
              /\ rec[p].status \in {"absent", "running", "terminating"}
        /\ rec[p].endTime # Never => rec[p].success # "none"
        /\ IsLive(p) /\ rec[p].endTime # Never =>
              \E k \in Kills : kills[k].target = p /\ kills[k].result = "timeout"

(* Numbers are handed out once. *)
NumbersAreIssued ==
    /\ CompletionOrderIsTotal
    /\ \A p \in Procs : rec[p].completionSequence <= completionSequence

(* While the group lives at most one end was reported, and only for a dated
   record. *)
EndsFollowGroups ==
    /\ \A p \in groupAlive : ended[p] <= 1
    /\ RepeatedEndNeedsRace

IInv ==
    /\ TypeOK
    /\ RecordsFollowStarts
    /\ DatesFollowEnds
    /\ FinishedIsComplete
    /\ NumbersAreIssued
    /\ EndsFollowGroups
    /\ WatcherMatchesLive
    /\ ReaperArmed
    /\ CleanupIsFinal

-----------------------------------------------------------------------------
(* The reaper's helpers *)

(* Finished records of a finite registry are finitely many, and no more than
   those of a larger set. *)
LEMMA FinishedCount ==
    ASSUME NEW reg \in SUBSET Procs, NEW R, NEW S \in SUBSET FinishedIn(reg, R)
    PROVE  /\ IsFiniteSet(FinishedIn(reg, R)) /\ IsFiniteSet(S)
           /\ Cardinality(FinishedIn(reg, R)) \in Nat /\ Cardinality(S) \in Nat
           /\ Cardinality(S) <= Cardinality(FinishedIn(reg, R))
<1>1. IsFiniteSet(Procs)
  BY FS_Interval, LifecycleAssumption DEF Procs
<1>2. FinishedIn(reg, R) \in SUBSET Procs
  BY DEF FinishedIn
<1>3. IsFiniteSet(FinishedIn(reg, R))
  BY <1>1, <1>2, FS_Subset
<1> QED
  BY <1>3, FS_Subset, FS_CardinalityType

(* OldestEnd is the least end time of the finished records. *)
LEMMA OldestEndIsLeast ==
    ASSUME NEW reg \in SUBSET Procs, NEW R \in [Procs -> Record],
           FinishedIn(reg, R) # {}
    PROVE  /\ OldestEnd(reg, R) \in Nat
           /\ \A p \in FinishedIn(reg, R) : OldestEnd(reg, R) <= R[p].endTime
<1> DEFINE F == FinishedIn(reg, R)
           T == {R[p].endTime : p \in F}
<1>1. T \in SUBSET Nat
  BY DEF FinishedIn, Record
<1>2. T # {}
  OBVIOUS
<1>3. \E x \in T : \A y \in T : ~ (<<y, x>> \in OpToRel(<, Nat))
  <2> HIDE DEF T
  <2> QED
    BY <1>1, <1>2, NatLessThanWellFounded, WFMin
<1>4. PICK x \in T : \A y \in T : ~ (<<y, x>> \in OpToRel(<, Nat))
  BY <1>3
<1>5. \A y \in T : x <= y
  <2> HIDE DEF T
  <2>1. \A y \in T : ~ (y < x)
    BY <1>1, <1>4, Zenon DEF OpToRel
  <2> QED
    BY <1>1, <2>1
<1>6. \E t \in T : \A p \in F : t <= R[p].endTime
  BY <1>5
<1> HIDE DEF F
<1> QED
  BY <1>1, <1>6 DEF OldestEnd, F

(* The due date scheduleFinishedReap chooses. *)
LEMMA ReapDueSpec ==
    ASSUME NEW reg \in SUBSET Procs, NEW R \in [Procs -> Record], now \in Nat
    PROVE  /\ ReapDue(reg, R) \in Nat \cup {Never}
           /\ ~shuttingDown /\ Cardinality(FinishedIn(reg, R)) > MaxFinished =>
                /\ ReapDue(reg, R) # Never
                /\ \A p \in FinishedIn(reg, R) :
                       ReapDue(reg, R) <= Later(R[p].endTime + Grace, now)
<1>1. CASE shuttingDown \/ Cardinality(FinishedIn(reg, R)) <= MaxFinished
  BY <1>1, LifecycleAssumption, FinishedCount DEF ReapDue
<1>2. CASE ~(shuttingDown \/ Cardinality(FinishedIn(reg, R)) <= MaxFinished)
  <2>1. FinishedIn(reg, R) # {}
    BY <1>2, LifecycleAssumption, FS_EmptySet
  <2>2. /\ OldestEnd(reg, R) \in Nat
        /\ \A p \in FinishedIn(reg, R) : OldestEnd(reg, R) <= R[p].endTime
    BY <2>1, OldestEndIsLeast
  <2>3. ReapDue(reg, R) = Later(OldestEnd(reg, R) + Grace, now)
    BY <1>2 DEF ReapDue
  <2>4. \A p \in FinishedIn(reg, R) : R[p].endTime \in Nat
    BY DEF FinishedIn, Record
  <2> QED
    BY <2>2, <2>3, <2>4, LifecycleAssumption DEF Later, Never
<1> QED
  BY <1>1, <1>2

-----------------------------------------------------------------------------
(* What every transition() does to the registry, the records and the timers *)

(* The record the caller hands to transition: r is p's record with fields
   other than the status and the number reassigned, or a new record that the
   caller has just added to the registry; complete if it is to be finished. *)
Handed(reg, p, r, next) ==
    /\ r \in Record
    /\ r.completionSequence = rec[p].completionSequence
    /\ \/ reg = registry /\ r.status = rec[p].status
       \/ reg = registry \cup {p} /\ r.status \in LIVE_STATUSES /\ next \in Ended
    /\ next \in Ended =>
          /\ r.endTime # Never /\ r.success # "none"
          /\ r.endReason \notin {"none", "kill_timeout"}
          /\ r.stdin = "released"
    /\ next \in Ended /\ r.status = next => r.endTime = rec[p].endTime

(* What the records, the registry and the logs are afterwards. *)
After(reg, p, r, next, logsNow) ==
    /\ rec' \in [Procs -> Record]
    /\ \A q \in Procs \ {p} : rec'[q] = rec[q] /\ ended'[q] = ended[q]
    /\ rec'[p].status = next
    /\ rec'[p].endTime = r.endTime
    /\ rec'[p].exitCode = r.exitCode
    /\ rec'[p].success = r.success
    /\ rec'[p].endReason = r.endReason
    /\ rec'[p].signal = r.signal
    /\ rec'[p].stdin = r.stdin
    /\ next \in Ended => rec'[p].completionSequence # 0
    /\ ended' \in [Procs -> Nat]
    /\ ended'[p] = IF next \in Ended /\ r.status # next
                   THEN ended[p] + 1 ELSE ended[p]
    /\ completionSequence' \in Nat
    /\ registry' \subseteq reg
    /\ \A q \in reg \ registry' : rec'[q].status \in Ended
    /\ logs' \subseteq logsNow

(* A transition does After to any record that may be handed to it. *)
LEMMA TransitionRecords ==
    ASSUME TypeOK, FinishedIsComplete,
           NEW reg \in SUBSET Procs, NEW p \in Procs, NEW r,
           NEW next \in LIVE_STATUSES \cup Ended, NEW logsNow \in SUBSET Procs,
           Handed(reg, p, r, next), transition(reg, p, r, next, logsNow)
    PROVE  After(reg, p, r, next, logsNow)
<1> DEFINE ends  == next \in Ended /\ r.status # next
           first == ends /\ r.completionSequence = 0
           R == [rec EXCEPT ![p] =
                     [r EXCEPT !.status = next,
                               !.completionSequence =
                                   IF first THEN completionSequence + 1
                                   ELSE @]]
           gone == IF ends THEN Reapable(reg, R) ELSE {}
<1>1. /\ rec' = R
      /\ completionSequence' = IF first THEN CountCompletion
                               ELSE completionSequence
      /\ ended' = IF ends THEN [ended EXCEPT ![p] = @ + 1] ELSE ended
      /\ registry' = reg \ gone
      /\ logs' = logsNow \ gone
  BY DEF transition
<1>2. r \in Record /\ rec \in [Procs -> Record] /\ completionSequence \in Nat
      /\ ended \in [Procs -> Nat]
  BY DEF TypeOK, Handed
<1>3. /\ rec'[p].status = next
      /\ rec'[p].completionSequence = IF first THEN completionSequence + 1
                                      ELSE r.completionSequence
      /\ rec'[p] = [r EXCEPT !.status = next, !.completionSequence =
                                  IF first THEN completionSequence + 1 ELSE @]
  BY <1>1, <1>2 DEF Record
<1>4. rec'[p] \in Record
  <2>1. \A n \in Nat :
            [r EXCEPT !.status = next, !.completionSequence = n] \in Record
    BY <1>2 DEF Record
  <2>2. /\ completionSequence + 1 \in Nat
        /\ r.completionSequence \in Nat
    BY <1>2 DEF Record
  <2> QED
    BY <1>3, <2>1, <2>2, ZenonT(60)
<1>5. rec' \in [Procs -> Record] /\ \A q \in Procs \ {p} : rec'[q] = rec[q]
  BY <1>1, <1>2, <1>4
<1>6. /\ rec'[p].status = next
      /\ rec'[p].endTime = r.endTime
      /\ rec'[p].exitCode = r.exitCode
      /\ rec'[p].success = r.success
      /\ rec'[p].endReason = r.endReason
      /\ rec'[p].signal = r.signal
      /\ rec'[p].stdin = r.stdin
  BY <1>2, <1>3 DEF Record
<1>7. ASSUME next \in Ended PROVE rec'[p].completionSequence # 0
  <2>1. CASE r.status # next
    BY <1>2, <1>3, <1>7, <2>1 DEF Record
  <2>2. CASE r.status = next
    <3>1. reg = registry /\ rec[p].status = next
      BY <1>7, <2>2 DEF Handed, LIVE_STATUSES, Ended
    <3>2. rec[p].completionSequence # 0
      BY <1>7, <3>1 DEF FinishedIsComplete, IsFinished
    <3> QED
      BY <1>3, <2>2, <3>2 DEF Handed
  <2> QED
    BY <2>1, <2>2
<1>8. \A q \in gone : rec'[q].status \in Ended
  BY <1>1 DEF Reapable, FinishedIn
<1> HIDE DEF R, gone
<1>9. /\ ended' \in [Procs -> Nat]
      /\ \A q \in Procs \ {p} : ended'[q] = ended[q]
      /\ ended'[p] = IF ends THEN ended[p] + 1 ELSE ended[p]
  BY <1>1, <1>2
<1>10. completionSequence' \in Nat
  BY <1>1, <1>2 DEF CountCompletion
<1> QED
  BY <1>1, <1>5, <1>6, <1>7, <1>8, <1>9, <1>10 DEF After

(* Numbers stay distinct and no larger than the counter. *)
LEMMA TransitionNumbers ==
    ASSUME IInv,
           NEW reg \in SUBSET Procs, NEW p \in Procs, NEW r,
           NEW next \in LIVE_STATUSES \cup Ended, NEW logsNow \in SUBSET Procs,
           Handed(reg, p, r, next), transition(reg, p, r, next, logsNow)
    PROVE  NumbersAreIssued'
<1>1. /\ rec' \in [Procs -> Record]
      /\ \A q \in Procs \ {p} : rec'[q] = rec[q]
  <2>1. After(reg, p, r, next, logsNow)
    BY TransitionRecords DEF IInv
  <2> QED
    BY <2>1 DEF After
<1>2. /\ rec \in [Procs -> Record] /\ r \in Record
      /\ completionSequence \in Nat
      /\ r.completionSequence = rec[p].completionSequence
  BY DEF IInv, TypeOK, Handed
<1>3. \/ /\ rec'[p].completionSequence = completionSequence + 1
         /\ completionSequence' = completionSequence + 1
      \/ /\ rec'[p].completionSequence = rec[p].completionSequence
         /\ completionSequence' = completionSequence
  BY <1>2 DEF transition, CountCompletion, Record
<1>4. \A q \in Procs : /\ rec[q].completionSequence \in Nat
                       /\ rec[q].completionSequence <= completionSequence
  BY <1>2 DEF IInv, NumbersAreIssued, Record
<1>5. \A q, s \in Procs : q # s /\ rec[q].completionSequence # 0
          => rec[q].completionSequence # rec[s].completionSequence
  BY DEF IInv, NumbersAreIssued, CompletionOrderIsTotal
<1> QED
  BY <1>1, <1>2, <1>3, <1>4, <1>5 DEF NumbersAreIssued, CompletionOrderIsTotal

(* The interval follows the live records of the registry. *)
LEMMA TransitionWatcher ==
    ASSUME IInv,
           NEW reg \in SUBSET Procs, NEW p \in Procs, NEW r,
           NEW next \in LIVE_STATUSES \cup Ended, NEW logsNow \in SUBSET Procs,
           Handed(reg, p, r, next), transition(reg, p, r, next, logsNow),
           UNCHANGED shuttingDown
    PROVE  watcher' \in BOOLEAN /\ WatcherMatchesLive'
<1>1. /\ rec' \in [Procs -> Record]
      /\ \A q \in Procs \ {p} : rec'[q] = rec[q]
      /\ rec'[p].status = next
  <2>1. After(reg, p, r, next, logsNow)
    BY TransitionRecords DEF IInv
  <2> QED
    BY <2>1 DEF After
<1>2. CASE r.status = next
  <2>1. reg = registry /\ rec[p].status = next
    BY <1>2 DEF Handed, LIVE_STATUSES, Ended
  <2>2. watcher' = watcher /\ registry' = registry
    BY <1>2, <2>1 DEF transition
  <2>3. \A q \in registry : rec'[q].status = rec[q].status
    BY <1>1, <2>1 DEF IInv, TypeOK
  <2> QED
    BY <2>2, <2>3 DEF IInv, TypeOK, WatcherMatchesLive, IsLive
<1>3. CASE r.status # next
  <2>1. watcher' = hasAliveish(registry', rec')
    BY <1>3 DEF transition
  <2> QED
    BY <2>1 DEF hasAliveish, WatcherMatchesLive, IsLive
<1> QED
  BY <1>2, <1>3

(* The reap timer stays armed for what the registry holds. *)
LEMMA TransitionReaper ==
    ASSUME IInv,
           NEW reg \in SUBSET Procs, NEW p \in Procs, NEW r,
           NEW next \in LIVE_STATUSES \cup Ended, NEW logsNow \in SUBSET Procs,
           Handed(reg, p, r, next), transition(reg, p, r, next, logsNow),
           UNCHANGED <<shuttingDown, now>>
    PROVE  reapTimer' \in Nat \cup {Never} /\ ReaperArmed'
<1> USE DEF IInv
<1>1. /\ rec' \in [Procs -> Record] /\ registry' \in SUBSET Procs
      /\ \A q \in Procs \ {p} : rec'[q] = rec[q]
      /\ rec'[p].status = next /\ rec'[p].endTime = r.endTime
  <2>1. After(reg, p, r, next, logsNow)
    BY TransitionRecords
  <2> QED
    BY <2>1 DEF After
<1>2. CASE next \in Ended /\ r.status # next
  <2>1. reapTimer' = ReapDue(registry', rec')
    BY <1>2 DEF transition
  <2>2. now \in Nat
    BY DEF TypeOK
  <2> QED
    BY <1>1, <2>1, <2>2, ReapDueSpec DEF ReaperArmed
<1>3. CASE ~ (next \in Ended /\ r.status # next)
  <2>1. reg = registry
    BY <1>3 DEF Handed, LIVE_STATUSES, Ended
  <2>2. reapTimer' = reapTimer /\ registry' = registry
    BY <1>3, <2>1 DEF transition
  <2>3. \A q \in FinishedIn(registry', rec') :
            q \in FinishedIn(registry, rec) /\ rec'[q].endTime = rec[q].endTime
    <3> SUFFICES ASSUME NEW q \in FinishedIn(registry', rec')
                 PROVE  /\ q \in FinishedIn(registry, rec)
                        /\ rec'[q].endTime = rec[q].endTime
      OBVIOUS
    <3>1. q \in registry /\ rec'[q].status \in Ended /\ rec'[q].endTime # Never
      BY <2>2 DEF FinishedIn
    <3>2. CASE q # p
      BY <1>1, <3>1, <3>2 DEF FinishedIn, TypeOK
    <3>3. CASE q = p
      <4>1. next \in Ended /\ r.status = next
        BY <1>1, <1>3, <3>1, <3>3
      <4>2. rec[p].status = next /\ r.endTime = rec[p].endTime
        BY <4>1 DEF Handed, LIVE_STATUSES, Ended
      <4> QED
        BY <1>1, <3>1, <3>3, <4>1, <4>2 DEF FinishedIn
    <3> QED
      BY <3>2, <3>3
  <2>4. FinishedIn(registry', rec') \in SUBSET FinishedIn(registry, rec)
    BY <2>3
  <2>5. registry \in SUBSET Procs
    BY DEF TypeOK
  <2>6. /\ Cardinality(FinishedIn(registry', rec')) \in Nat
        /\ Cardinality(FinishedIn(registry, rec)) \in Nat
        /\ Cardinality(FinishedIn(registry', rec'))
               <= Cardinality(FinishedIn(registry, rec))
    BY <2>4, <2>5, FinishedCount
  <2>7. Cardinality(FinishedIn(registry', rec')) > MaxFinished
           => Cardinality(FinishedIn(registry, rec)) > MaxFinished
    BY <2>6, LifecycleAssumption
  <2>8. \A q \in FinishedIn(registry', rec') :
            Later(rec'[q].endTime + Grace, now') = Later(rec[q].endTime + Grace, now)
    BY <2>3
  <2>9. reapTimer \in Nat \cup {Never}
    BY DEF TypeOK
  <2> QED
    BY <2>2, <2>3, <2>7, <2>8, <2>9 DEF ReaperArmed
<1> QED
  BY <1>2, <1>3

-----------------------------------------------------------------------------
(* Steps that make a transition preserve the invariant *)

(* kill() calls only advance: a result stands, a waiting call has a started
   target and no result yet. *)
KillsProceed ==
    /\ kills' \in [Kills -> Kill]
    /\ \A k \in Kills :
          /\ kills[k].result \in {"ok", "timeout"} => kills'[k] = kills[k]
          /\ kills'[k].pc = "waiting" => kills'[k].target \in Procs
          /\ kills'[k].pc = "waiting" =>
                leader'[kills'[k].target] \notin {"none", "threw"}
          /\ kills'[k].pc # "done" => kills'[k].result = "none"

(* No process but p, which is or becomes started, changes its standing. *)
OnlyStarts(p) ==
    /\ leader' \in [Procs -> {"none", "nopid", "threw", "running"}
                                \cup Codes \cup Signals]
    /\ leader'[p] \notin {"none", "threw"}
    /\ \A q \in Procs \ {p} : leader'[q] = leader[q]
    /\ UNCHANGED <<groupAlive, now, shuttingDown>>
    /\ closed' \subseteq Procs /\ errored' \subseteq Procs
    /\ scan' \subseteq Procs /\ partial' \subseteq Procs

StoppedBy(p, results) ==
    \E k \in Kills : kills'[k].target = p /\ kills'[k].result \in results

(* A first end, or a repeated one by a kill after the group is gone; a dated
   live record only after a timeout; an undated one only while it runs. *)
Entitled(p, r, next) ==
    /\ next \in Ended /\ r.status # next =>
          \/ ended[p] = 0
          \/ p \notin groupAlive /\ StoppedBy(p, {"ok", "timeout"})
    /\ next \in LIVE_STATUSES /\ r.endTime # Never => StoppedBy(p, {"timeout"})
    /\ r.endTime # Never => r.success # "none"
    /\ r.endTime = Never => ended[p] = 0 /\ next \in {"running", "terminating"}

(* A step that makes a transition of an entitled record keeps the invariant. *)
LEMMA TransitionStep ==
    ASSUME IInv,
           NEW reg \in SUBSET Procs, NEW p \in Procs, NEW r,
           NEW next \in LIVE_STATUSES \cup Ended, NEW logsNow \in SUBSET Procs,
           Handed(reg, p, r, next), transition(reg, p, r, next, logsNow),
           KillsProceed, OnlyStarts(p), Entitled(p, r, next),
           \A q \in reg : q = p \/ Started(q),
           shuttingDown => logsNow = {}
    PROVE  IInv'
<1> USE DEF IInv
<1>0. After(reg, p, r, next, logsNow)
  BY TransitionRecords
<1>1. /\ rec' \in [Procs -> Record]
      /\ \A q \in Procs \ {p} : rec'[q] = rec[q] /\ ended'[q] = ended[q]
      /\ rec'[p].status = next
      /\ rec'[p].endTime = r.endTime
      /\ rec'[p].success = r.success
      /\ rec'[p].endReason = r.endReason
      /\ rec'[p].stdin = r.stdin
      /\ next \in Ended => rec'[p].completionSequence # 0
      /\ ended' \in [Procs -> Nat]
      /\ ended'[p] = IF next \in Ended /\ r.status # next
                     THEN ended[p] + 1 ELSE ended[p]
      /\ completionSequence' \in Nat
      /\ registry' \subseteq reg
      /\ logs' \subseteq logsNow
  BY <1>0 DEF After
<1>2. /\ UNCHANGED <<groupAlive, now, shuttingDown>>
      /\ leader'[p] \notin {"none", "threw"}
      /\ \A q \in Procs \ {p} : leader'[q] = leader[q]
  BY DEF OnlyStarts
<1>3. ended \in [Procs -> Nat]
  BY DEF TypeOK
<1>4. watcher' \in BOOLEAN /\ WatcherMatchesLive'
  BY <1>2, TransitionWatcher
<1>5. reapTimer' \in Nat \cup {Never} /\ ReaperArmed'
  BY <1>2, TransitionReaper
<1>6. NumbersAreIssued'
  BY TransitionNumbers
<1>7. TypeOK'
  BY <1>1, <1>4, <1>5 DEF TypeOK, OnlyStarts, KillsProceed
<1>8. RecordsFollowStarts'
  <2>1. \A q \in Procs \ {p} : Started(q)' <=> Started(q)
    BY <1>2 DEF Started
  <2>2. rec'[p].status # "absent" /\ Started(p)'
    BY <1>1, <1>2 DEF Started, LIVE_STATUSES, Ended
  <2>3. \A q \in registry' : Started(q)'
    BY <1>1, <2>1, <2>2
  <2>4. \A q \in groupAlive' : Started(q)'
    BY <1>2, <2>1, <2>2 DEF RecordsFollowStarts, TypeOK
  <2>5. \A q \in Procs : rec'[q].status = "absent" <=> ~Started(q)'
    BY <1>1, <2>1, <2>2 DEF RecordsFollowStarts
  <2>6. \A q \in Procs : ~Started(q)' => rec'[q] = AbsentRecord /\ ended'[q] = 0
    BY <1>1, <2>1, <2>2 DEF RecordsFollowStarts
  <2> QED
    BY <2>3, <2>4, <2>5, <2>6 DEF RecordsFollowStarts, KillsProceed, Started
<1>9. DatesFollowEnds'
  <2> SUFFICES ASSUME NEW q \in Procs
               PROVE  /\ rec'[q].endTime = Never =>
                            /\ ended'[q] = 0
                            /\ rec'[q].status
                                  \in {"absent", "running", "terminating"}
                      /\ rec'[q].endTime # Never => rec'[q].success # "none"
                      /\ IsLive(q)' /\ rec'[q].endTime # Never =>
                            \E k \in Kills : /\ kills'[k].target = q
                                             /\ kills'[k].result = "timeout"
    BY DEF DatesFollowEnds
  <2>1. CASE q = p
    BY <1>1, <2>1 DEF Entitled, StoppedBy, IsLive, Handed
  <2>2. CASE q # p
    BY <1>1, <2>2 DEF DatesFollowEnds, IsLive, KillsProceed
  <2> QED
    BY <2>1, <2>2
<1>10. FinishedIsComplete'
  <2> SUFFICES ASSUME NEW q \in Procs, IsFinished(q)'
               PROVE  /\ rec'[q].endTime # Never /\ rec'[q].success # "none"
                      /\ rec'[q].endReason \notin {"none", "kill_timeout"}
                      /\ rec'[q].stdin = "released"
                      /\ rec'[q].completionSequence # 0
                      /\ ended'[q] >= 1
    BY DEF FinishedIsComplete
  <2>1. CASE q # p
    BY <1>1, <2>1 DEF FinishedIsComplete, IsFinished
  <2>2. CASE q = p
    <3>1. next \in Ended
      BY <1>1, <2>2 DEF IsFinished
    <3>2. ended'[p] >= 1
      <4>1. CASE r.status # next
        BY <1>1, <1>3, <3>1, <4>1
      <4>2. CASE r.status = next
        <5>1. rec[p].status = next
          BY <3>1, <4>2 DEF Handed, LIVE_STATUSES, Ended
        <5> QED
          BY <1>1, <3>1, <4>2, <5>1 DEF FinishedIsComplete, IsFinished
      <4> QED
        BY <4>1, <4>2
    <3> QED
      BY <1>1, <2>2, <3>1, <3>2 DEF Handed
  <2> QED
    BY <2>1, <2>2
<1>11. EndsFollowGroups'
  <2>1. ended'[p] > 1 =>
          p \notin groupAlive /\ StoppedBy(p, {"ok", "timeout"})
    <3>1. CASE next \in Ended /\ r.status # next
      BY <1>1, <1>3, <3>1 DEF Entitled
    <3>2. CASE ~ (next \in Ended /\ r.status # next)
      BY <1>1, <3>2 DEF EndsFollowGroups, RepeatedEndNeedsRace, StoppedBy,
                        KillsProceed
    <3> QED
      BY <3>1, <3>2
  <2>2. \A q \in Procs : ended'[q] > 1 =>
          q \notin groupAlive /\ StoppedBy(q, {"ok", "timeout"})
    <3>1. \A q \in Procs \ {p} : ended'[q] > 1 =>
            q \notin groupAlive /\ StoppedBy(q, {"ok", "timeout"})
      BY <1>1 DEF EndsFollowGroups, RepeatedEndNeedsRace, StoppedBy, KillsProceed
    <3> QED
      BY <2>1, <3>1
  <2>3. \A q \in groupAlive : q \in Procs /\ ended'[q] \in Nat
    BY <1>1 DEF TypeOK
  <2> QED
    BY <1>2, <2>2, <2>3 DEF EndsFollowGroups, RepeatedEndNeedsRace, StoppedBy
<1>12. CleanupIsFinal'
  BY <1>1, <1>2 DEF CleanupIsFinal
<1> QED
  BY <1>4, <1>5, <1>6, <1>7, <1>8, <1>9, <1>10, <1>11, <1>12

-----------------------------------------------------------------------------
(* Steps without a transition *)

(* What a step that makes no transition may do to the world around the
   records. *)
Aside ==
    /\ leader' \in [Procs -> {"none", "nopid", "threw", "running"}
                                \cup Codes \cup Signals]
    /\ \A q \in Procs : Started(q) <=> leader'[q] \notin {"none", "threw"}
    /\ groupAlive' \subseteq groupAlive
    /\ closed' \subseteq Procs /\ errored' \subseteq Procs
    /\ scan' \subseteq Procs /\ partial' \subseteq Procs /\ logs' \subseteq Procs
    /\ now' \in Nat /\ now <= now'

(* Where no kill moves, those that wait keep their started targets. *)
LEMMA KillsIdle ==
    ASSUME IInv, UNCHANGED kills,
           \A q \in Procs : Started(q) => leader'[q] \notin {"none", "threw"}
    PROVE  KillsProceed
  BY DEF IInv, TypeOK, RecordsFollowStarts, KillsProceed

(* The records, the registry and the timers are left alone. *)
LEMMA QuietStep ==
    ASSUME IInv, Aside, KillsProceed,
           UNCHANGED <<recVars, timers, shuttingDown>>,
           shuttingDown => logs' = {}
    PROVE  IInv'
<1> USE DEF IInv, recVars, timers
<1>1. TypeOK'
  BY DEF TypeOK, Aside, KillsProceed
<1>2. RecordsFollowStarts'
  BY DEF RecordsFollowStarts, Aside, KillsProceed, Started, TypeOK
<1>3. DatesFollowEnds'
  BY DEF DatesFollowEnds, KillsProceed, IsLive
<1>4. FinishedIsComplete' /\ NumbersAreIssued' /\ WatcherMatchesLive'
  BY DEF FinishedIsComplete, IsFinished, NumbersAreIssued,
         CompletionOrderIsTotal, WatcherMatchesLive, IsLive
<1>5. EndsFollowGroups'
  BY DEF EndsFollowGroups, RepeatedEndNeedsRace, KillsProceed, Aside
<1>6. ReaperArmed'
  <2>1. FinishedIn(registry', rec') = FinishedIn(registry, rec)
    BY DEF FinishedIn
  <2>2. \A q \in FinishedIn(registry, rec) : rec[q].endTime \in Nat
    BY DEF FinishedIn, TypeOK, Record
  <2>3. \A q \in FinishedIn(registry, rec) :
            Later(rec[q].endTime + Grace, now) <= Later(rec[q].endTime + Grace, now')
    BY <2>2, LifecycleAssumption DEF Later, Aside, TypeOK
  <2>4. reapTimer \in Nat \cup {Never} /\ now \in Nat /\ now' \in Nat
    BY DEF TypeOK, Aside
  <2>5. ASSUME ~shuttingDown,
               Cardinality(FinishedIn(registry, rec)) > MaxFinished,
               NEW q \in FinishedIn(registry, rec)
        PROVE  reapTimer <= Later(rec[q].endTime + Grace, now')
    <3>1. reapTimer <= Later(rec[q].endTime + Grace, now) /\ reapTimer # Never
      BY <2>5 DEF ReaperArmed
    <3>2. /\ Later(rec[q].endTime + Grace, now) \in Int
          /\ Later(rec[q].endTime + Grace, now') \in Int
      BY <2>2, <2>4, LifecycleAssumption DEF Later
    <3> QED
      BY <2>3, <2>4, <2>5, <3>1, <3>2 DEF Never
  <2> QED
    BY <2>1, <2>5 DEF ReaperArmed
<1>7. CleanupIsFinal'
  BY DEF CleanupIsFinal
<1> QED
  BY <1>1, <1>2, <1>3, <1>4, <1>5, <1>6, <1>7

(* A field of one record that neither the registry nor the timers look at is
   assigned. *)
LEMMA EditStep ==
    ASSUME IInv, Aside, NEW p \in Procs, NEW r \in Record,
           rec' = [rec EXCEPT ![p] = r], Started(p),
           r.status = rec[p].status, r.endTime = rec[p].endTime,
           r.completionSequence = rec[p].completionSequence,
           r.success = rec[p].success,
           r.status \in Ended => /\ r.stdin = "released"
                                 /\ r.endReason \notin {"none", "kill_timeout"},
           UNCHANGED <<registry, completionSequence, ended, timers,
                       shuttingDown, kills, now>>,
           shuttingDown => logs' = {}
    PROVE  IInv'
<1> USE DEF IInv, timers
<1>0. rec \in [Procs -> Record]
  BY DEF TypeOK
<1>1. /\ rec' \in [Procs -> Record]
      /\ \A q \in Procs : /\ rec'[q].status = rec[q].status
                          /\ rec'[q].endTime = rec[q].endTime
                          /\ rec'[q].completionSequence = rec[q].completionSequence
                          /\ rec'[q].success = rec[q].success
      /\ \A q \in Procs \ {p} : rec'[q] = rec[q]
      /\ rec'[p] = r
  BY <1>0
<1>2. TypeOK'
  BY <1>1 DEF TypeOK, Aside
<1>3. RecordsFollowStarts'
  <2>1. \A q \in Procs : Started(q)' <=> Started(q)
    BY DEF Started, Aside
  <2>2. \A q \in Procs : ~Started(q) => rec'[q] = AbsentRecord /\ ended'[q] = 0
    BY <1>1 DEF RecordsFollowStarts
  <2>3. \A k \in Kills : kills[k].pc = "waiting" =>
            kills[k].target \in Procs /\ Started(kills[k].target)
    BY DEF RecordsFollowStarts
  <2>4. registry \subseteq Procs /\ groupAlive \subseteq Procs
    BY DEF TypeOK
  <2>5. \A k \in Kills : kills'[k].pc = "waiting" =>
            /\ kills'[k].target \in Procs
            /\ leader'[kills'[k].target] \notin {"none", "threw"}
    BY <2>3 DEF Aside
  <2> QED
    BY <1>1, <2>1, <2>2, <2>4, <2>5 DEF RecordsFollowStarts, Aside, Started
<1>4. DatesFollowEnds'
  BY <1>1 DEF DatesFollowEnds, IsLive
<1>5. FinishedIsComplete'
  <2> SUFFICES ASSUME NEW q \in Procs, rec'[q].status \in Ended
               PROVE  /\ rec'[q].endTime # Never /\ rec'[q].success # "none"
                      /\ rec'[q].endReason \notin {"none", "kill_timeout"}
                      /\ rec'[q].stdin = "released"
                      /\ rec'[q].completionSequence # 0
                      /\ ended'[q] >= 1
    BY DEF FinishedIsComplete, IsFinished
  <2>1. CASE q = p
    BY <1>1, <2>1 DEF FinishedIsComplete, IsFinished
  <2>2. CASE q # p
    BY <1>1, <2>2 DEF FinishedIsComplete, IsFinished
  <2> QED
    BY <2>1, <2>2
<1>6. NumbersAreIssued' /\ WatcherMatchesLive'
  <2>1. NumbersAreIssued'
    BY <1>1 DEF NumbersAreIssued, CompletionOrderIsTotal
  <2>2. WatcherMatchesLive'
    BY <1>1 DEF WatcherMatchesLive, IsLive, TypeOK
  <2> QED
    BY <2>1, <2>2
<1>7. EndsFollowGroups'
  BY DEF EndsFollowGroups, RepeatedEndNeedsRace, Aside
<1>8. ReaperArmed'
  <2>1. FinishedIn(registry', rec') = FinishedIn(registry, rec)
    BY <1>1 DEF FinishedIn, TypeOK
  <2>2. \A q \in FinishedIn(registry, rec) :
            Later(rec'[q].endTime + Grace, now') = Later(rec[q].endTime + Grace, now)
    BY <1>1 DEF FinishedIn, TypeOK
  <2> QED
    BY <2>1, <2>2 DEF ReaperArmed
<1>9. CleanupIsFinal'
  BY DEF CleanupIsFinal
<1> QED
  BY <1>2, <1>3, <1>4, <1>5, <1>6, <1>7, <1>8, <1>9

(* Records that are not live are forgotten and the reap is scheduled anew. *)
LEMMA ForgetStep ==
    ASSUME IInv, NEW gone \in SUBSET {p \in registry : ~IsLive(p)},
           registry' = registry \ gone,
           reapTimer' = ReapDue(registry', rec),
           watcher' \in BOOLEAN,
           ~shuttingDown => watcher' = watcher \/ watcher' = hasAliveish(registry', rec),
           logs' \subseteq logs,
           UNCHANGED <<osVars, rec, completionSequence, ended, partial, scan,
                       shuttingDown, kills, now>>
    PROVE  IInv'
<1> USE DEF IInv, osVars
<1>1. registry' \in SUBSET Procs /\ now \in Nat /\ rec \in [Procs -> Record]
  BY DEF TypeOK
<1>2. reapTimer' \in Nat \cup {Never} /\ ReaperArmed'
  BY <1>1, ReapDueSpec DEF ReaperArmed
<1>3. TypeOK'
  BY <1>1, <1>2 DEF TypeOK
<1>4. RecordsFollowStarts'
  BY DEF RecordsFollowStarts, Started
<1>5. DatesFollowEnds' /\ FinishedIsComplete' /\ NumbersAreIssued'
  BY DEF DatesFollowEnds, IsLive, FinishedIsComplete, IsFinished,
         NumbersAreIssued, CompletionOrderIsTotal
<1>6. EndsFollowGroups'
  BY DEF EndsFollowGroups, RepeatedEndNeedsRace
<1>7. WatcherMatchesLive'
  <2>1. (\E q \in registry : IsLive(q)) <=> (\E q \in registry' : IsLive(q))
    OBVIOUS
  <2> QED
    BY <2>1, <1>3 DEF WatcherMatchesLive, hasAliveish, IsLive, TypeOK
<1>8. CleanupIsFinal'
  BY DEF CleanupIsFinal
<1> QED
  BY <1>2, <1>3, <1>4, <1>5, <1>6, <1>7, <1>8

-----------------------------------------------------------------------------
(* Each action preserves the invariant *)

(* Before the first start there is nothing to go wrong. *)
LEMMA InitInv == Init => IInv
<1> SUFFICES ASSUME Init PROVE IInv
  OBVIOUS
<1>1. TypeOK
  BY LifecycleAssumption DEF Init, TypeOK, AbsentRecord, Record, IdleKill, Kill,
                             Never
<1>2. RecordsFollowStarts /\ DatesFollowEnds
  BY DEF Init, RecordsFollowStarts, DatesFollowEnds, Started, AbsentRecord,
         IdleKill, IsLive, LIVE_STATUSES
<1>3. FinishedIsComplete /\ NumbersAreIssued
  BY DEF Init, FinishedIsComplete, IsFinished, NumbersAreIssued,
         CompletionOrderIsTotal, AbsentRecord, Ended
<1>4. EndsFollowGroups /\ WatcherMatchesLive /\ CleanupIsFinal
  BY DEF Init, EndsFollowGroups, RepeatedEndNeedsRace, WatcherMatchesLive,
         CleanupIsFinal
<1>5. ReaperArmed
  <2>1. FinishedIn(registry, rec) = {}
    BY DEF Init, FinishedIn
  <2>2. Cardinality(FinishedIn(registry, rec)) = 0
    BY <2>1, FS_EmptySet
  <2> QED
    BY <2>2, LifecycleAssumption DEF ReaperArmed
<1> QED
  BY <1>1, <1>2, <1>3, <1>4, <1>5 DEF IInv

(* What the operating system does touches no record. *)
LEMMA OSInv ==
    ASSUME IInv, NEW p \in Procs, LeaderExits(p) \/ GroupDies(p)
    PROVE  IInv'
<1>1. TypeOK /\ (shuttingDown => logs = {})
  BY DEF IInv, CleanupIsFinal
<1>2. /\ UNCHANGED <<recVars, timers, shuttingDown, logs, partial, scan, kills,
                     now, closed, errored>>
      /\ groupAlive' \subseteq groupAlive
  BY DEF LeaderExits, GroupDies, fileVars
<1>3. /\ leader' \in [Procs -> {"none", "nopid", "threw", "running"}
                                  \cup Codes \cup Signals]
      /\ \A q \in Procs : Started(q) <=> leader'[q] \notin {"none", "threw"}
  BY <1>1, LifecycleAssumption DEF LeaderExits, GroupDies, TypeOK, Started
<1>4. Aside
  BY <1>1, <1>2, <1>3 DEF Aside, TypeOK
<1>5. KillsProceed
  BY <1>2, <1>3, KillsIdle
<1> QED
  BY <1>1, <1>2, <1>4, <1>5, QuietStep

(* Time makes reap timers overdue, not later than they should be. *)
LEMMA TockInv ==
    ASSUME IInv, Tock
    PROVE  IInv'
<1>1. TypeOK /\ (shuttingDown => logs = {})
  BY DEF IInv, CleanupIsFinal
<1>2. UNCHANGED <<osVars, recVars, timers, shuttingDown, logs, partial, scan,
                  kills>>
  BY DEF Tock, fileVars
<1>3. Aside
  BY <1>1, <1>2 DEF Aside, TypeOK, Tock, osVars, Started
<1>4. KillsProceed
  BY <1>2, <1>3, KillsIdle DEF Aside
<1> QED
  BY <1>1, <1>2, <1>3, <1>4, QuietStep

(* A start adds a live record and arms the interval. *)
LEMMA StartInv ==
    ASSUME IInv, NEW p \in Procs, Start(p)
    PROVE  IInv'
<1> USE DEF IInv, Start
<1>0. TypeOK /\ ~Started(p) /\ ~shuttingDown /\ LoopFree
  BY DEF NextId, Started, MayCall
<1>1. NewRecord \in Record /\ NewRecord.status = "running"
      /\ NewRecord.endTime = Never /\ NewRecord.completionSequence = 0
  BY DEF NewRecord, AbsentRecord, Record, Never, LIVE_STATUSES
<1>2. /\ rec' \in [Procs -> Record] /\ rec'[p] = NewRecord
      /\ \A q \in Procs \ {p} : rec'[q] = rec[q]
      /\ rec[p] = AbsentRecord /\ ended[p] = 0
  BY <1>0, <1>1 DEF TypeOK, RecordsFollowStarts
<1>3. /\ leader'[p] = "running"
      /\ \A q \in Procs \ {p} : leader'[q] = leader[q]
      /\ UNCHANGED <<ended, completionSequence, reapTimer, kills, now,
                     shuttingDown>>
  BY <1>0 DEF TypeOK
<1>4. TypeOK'
  BY <1>0, <1>2 DEF TypeOK
<1>5. RecordsFollowStarts'
  <2>1. Started(p)' /\ \A q \in Procs \ {p} : Started(q)' <=> Started(q)
    BY <1>3 DEF Started
  <2>2. \A q \in registry' \cup groupAlive' : Started(q)'
    BY <2>1 DEF RecordsFollowStarts, TypeOK
  <2>3. \A q \in Procs : rec'[q].status = "absent" <=> ~Started(q)'
    BY <1>1, <1>2, <2>1 DEF RecordsFollowStarts
  <2>4. \A q \in Procs : ~Started(q)' => rec'[q] = AbsentRecord /\ ended'[q] = 0
    BY <1>2, <1>3, <2>1 DEF RecordsFollowStarts
  <2>5. \A k \in Kills : kills'[k].pc = "waiting" =>
            /\ kills'[k].target \in Procs
            /\ leader'[kills'[k].target] \notin {"none", "threw"}
    BY <1>3 DEF RecordsFollowStarts, Started
  <2> QED
    BY <1>3, <2>2, <2>3, <2>4, <2>5 DEF RecordsFollowStarts, Started
<1>6. DatesFollowEnds'
  BY <1>1, <1>2, <1>3 DEF DatesFollowEnds, IsLive, LIVE_STATUSES
<1>7. FinishedIsComplete' /\ NumbersAreIssued'
  BY <1>1, <1>2, <1>3, <1>4 DEF FinishedIsComplete, IsFinished, NumbersAreIssued,
        CompletionOrderIsTotal, Ended, TypeOK, Record
<1>8. EndsFollowGroups'
  BY <1>2, <1>3 DEF EndsFollowGroups, RepeatedEndNeedsRace, TypeOK,
        RecordsFollowStarts, Started
<1>9. WatcherMatchesLive'
  BY <1>1, <1>2 DEF WatcherMatchesLive, IsLive, LIVE_STATUSES
<1>10. ReaperArmed'
  <2>1. /\ registry' = registry \cup {p} /\ registry \subseteq Procs
        /\ p \notin registry
    BY <1>0 DEF TypeOK, RecordsFollowStarts
  <2>2. rec'[p].status \notin Ended
    BY <1>1, <1>2 DEF Ended
  <2>3. FinishedIn(registry', rec') = FinishedIn(registry, rec)
    BY <1>2, <2>1, <2>2 DEF FinishedIn
  <2>4. \A q \in FinishedIn(registry, rec) : rec'[q].endTime = rec[q].endTime
    BY <1>2, <2>1 DEF FinishedIn
  <2> QED
    BY <1>3, <2>3, <2>4 DEF ReaperArmed, Later
<1>11. CleanupIsFinal'
  BY <1>0 DEF CleanupIsFinal
<1> QED
  BY <1>4, <1>5, <1>6, <1>7, <1>8, <1>9, <1>10, <1>11

(* A start without a pid adds a record that ends in the same step. *)
LEMMA StartMissingPidInv ==
    ASSUME IInv, NEW p \in Procs, StartMissingPid(p)
    PROVE  IInv'
<1> DEFINE r == [NewRecord EXCEPT !.exitCode = "minus1", !.success = "false",
                                  !.endReason = "missing_pid",
                                  !.endTime = now, !.stdin = "released"]
<1>0. TypeOK /\ ~Started(p) /\ ~shuttingDown /\ RecordsFollowStarts
      /\ registry \in SUBSET Procs /\ logs \in SUBSET Procs /\ now \in Nat
  BY DEF StartMissingPid, NextId, Started, MayCall, IInv, TypeOK
<1>1. transition(registry \cup {p}, p, r, "exited", logs \cup {p})
  BY DEF StartMissingPid
<1>2. /\ r \in Record /\ r.status = "running" /\ r.endTime = now
      /\ r.success = "false" /\ r.endReason = "missing_pid"
      /\ r.stdin = "released" /\ r.completionSequence = 0
  BY <1>0 DEF NewRecord, AbsentRecord, Record, LIVE_STATUSES
<1>3. rec[p] = AbsentRecord /\ ended[p] = 0 /\ AbsentRecord.completionSequence = 0
  BY <1>0 DEF RecordsFollowStarts, AbsentRecord
<1> HIDE DEF r
<1>4. Handed(registry \cup {p}, p, r, "exited")
  BY <1>0, <1>2, <1>3 DEF Handed, LIVE_STATUSES, Ended, Never
<1>5. /\ leader' = [leader EXCEPT ![p] = "nopid"]
      /\ UNCHANGED <<groupAlive, closed, errored, partial, scan, shuttingDown,
                     kills, now>>
  BY DEF StartMissingPid
<1>6. OnlyStarts(p)
  BY <1>0, <1>5 DEF OnlyStarts, TypeOK
<1>7. KillsProceed
  BY <1>0, <1>5, KillsIdle DEF Started, TypeOK
<1>8. Entitled(p, r, "exited")
  BY <1>0, <1>2, <1>3 DEF Entitled, LIVE_STATUSES, Ended, Never
<1>9. \A q \in registry \cup {p} : q = p \/ Started(q)
  BY <1>0 DEF RecordsFollowStarts
<1>10. "exited" \in LIVE_STATUSES \cup Ended
  BY DEF Ended
<1> QED
  BY <1>0, <1>1, <1>4, <1>6, <1>7, <1>8, <1>9, <1>10, TransitionStep

(* A start that throws leaves log files and no record. *)
LEMMA StartThrowsInv ==
    ASSUME IInv, NEW p \in Procs, StartThrows(p)
    PROVE  IInv'
<1>1. TypeOK /\ ~shuttingDown /\ ~Started(p)
  BY DEF IInv, StartThrows, MayCall, NextId, Started
<1>2. /\ leader' = [leader EXCEPT ![p] = "threw"] /\ logs' = logs \cup {p}
      /\ UNCHANGED <<groupAlive, closed, errored, recVars, timers, partial,
                     scan, shuttingDown, kills, now>>
  BY DEF StartThrows
<1>3. Aside
  BY <1>1, <1>2 DEF Aside, TypeOK, Started
<1>4. KillsProceed
  BY <1>2, <1>3, KillsIdle DEF Aside
<1> QED
  BY <1>1, <1>2, <1>3, <1>4, QuietStep

(* What an append to the logs of a process does. *)
LEMMA Appends ==
    ASSUME IInv, NEW p \in Procs
    PROVE  /\ AppendedLogs(p) \in SUBSET Procs
           /\ FlushedLogs(p) \in SUBSET Procs
           /\ shuttingDown => AppendedLogs(p) = {} /\ FlushedLogs(p) = {}
           /\ FlushedPartial(p) \in SUBSET Procs
  BY DEF IInv, TypeOK, CleanupIsFinal, AppendedLogs, FlushedLogs, FlushedPartial

(* Output may leave an unterminated line; it brings no logs back after cleanup. *)
LEMMA DataInv ==
    ASSUME IInv, NEW p \in Procs, Data(p)
    PROVE  IInv'
<1>1. TypeOK
  BY DEF IInv
<1>2. /\ partial' \in {partial \cup {p}, partial \ {p}}
      /\ logs' = AppendedLogs(p)
      /\ UNCHANGED <<osVars, recVars, timers, scan, shuttingDown, kills, now>>
  BY DEF Data
<1>3. Aside
  BY <1>1, <1>2, Appends DEF Aside, TypeOK, Started, osVars
<1>4. KillsProceed
  BY <1>2, <1>3, KillsIdle DEF Aside
<1> QED
  BY <1>2, <1>3, <1>4, Appends, QuietStep

(* The tick begins: it settles which records it will visit. *)
LEMMA TickInv ==
    ASSUME IInv, Tick
    PROVE  IInv'
<1>1. TypeOK /\ (shuttingDown => logs = {})
  BY DEF IInv, CleanupIsFinal
<1>2. /\ scan' = registry
      /\ UNCHANGED <<osVars, recVars, timers, partial, logs, shuttingDown,
                     kills, now>>
  BY DEF Tick, fileVars
<1>3. Aside
  BY <1>1, <1>2 DEF Aside, TypeOK, Started, osVars
<1>4. KillsProceed
  BY <1>2, <1>3, KillsIdle DEF Aside
<1> QED
  BY <1>1, <1>2, <1>3, <1>4, QuietStep

(* The error of a child without a pid explains its end, and ends nothing. *)
LEMMA LateSpawnErrorInv ==
    ASSUME IInv, NEW p \in Procs, LateSpawnError(p)
    PROVE  IInv'
<1> DEFINE r == [rec[p] EXCEPT !.endReason = "spawn_error"]
<1>1. /\ TypeOK /\ RecordsFollowStarts /\ FinishedIsComplete
      /\ rec \in [Procs -> Record] /\ rec[p] \in Record
  BY DEF IInv, TypeOK
<1>2. /\ leader[p] = "nopid" /\ errored' = errored \cup {p}
      /\ rec' = [rec EXCEPT ![p] = r] /\ logs' = AppendedLogs(p)
      /\ UNCHANGED <<leader, groupAlive, closed, registry, completionSequence,
                     ended, timers, partial, scan, shuttingDown, kills, now>>
  BY DEF LateSpawnError
<1>3. /\ r \in Record /\ r.status = rec[p].status
      /\ r.endTime = rec[p].endTime /\ r.success = rec[p].success
      /\ r.completionSequence = rec[p].completionSequence
      /\ r.stdin = rec[p].stdin /\ r.endReason = "spawn_error"
  BY <1>1 DEF Record
<1> HIDE DEF r
<1>4. Started(p)
  BY <1>2 DEF Started
<1>5. r.status \in Ended => r.stdin = "released"
  BY <1>1, <1>3 DEF FinishedIsComplete, IsFinished
<1>6. Aside
  BY <1>1, <1>2, Appends DEF Aside, TypeOK, Started
<1>7. shuttingDown => logs' = {}
  BY <1>2, Appends
<1> QED
  BY <1>2, <1>3, <1>4, <1>5, <1>6, <1>7, EditStep

(* The stdin of a live record is closed. *)
LEMMA EndStdinInv ==
    ASSUME IInv, NEW p \in Procs, EndStdin(p)
    PROVE  IInv'
<1> DEFINE r == [rec[p] EXCEPT !.stdin = "ended"]
<1>1. /\ TypeOK /\ RecordsFollowStarts /\ (shuttingDown => logs = {})
      /\ rec \in [Procs -> Record] /\ rec[p] \in Record
  BY DEF IInv, TypeOK, CleanupIsFinal
<1>2. /\ rec[p].status \in LIVE_STATUSES /\ p \in registry
      /\ rec' = [rec EXCEPT ![p] = r]
      /\ UNCHANGED <<osVars, registry, completionSequence, ended, timers,
                     fileVars, scan, shuttingDown, kills, now>>
  BY DEF EndStdin, IsLive
<1>3. /\ r \in Record /\ r.status = rec[p].status
      /\ r.endTime = rec[p].endTime /\ r.success = rec[p].success
      /\ r.completionSequence = rec[p].completionSequence
  BY <1>1 DEF Record
<1> HIDE DEF r
<1>4. Started(p)
  BY <1>1, <1>2 DEF RecordsFollowStarts
<1>5. r.status \notin Ended
  BY <1>2, <1>3 DEF LIVE_STATUSES, Ended
<1>6. Aside
  BY <1>1, <1>2 DEF Aside, TypeOK, Started, osVars, fileVars
<1>7. shuttingDown => logs' = {}
  BY <1>1, <1>2 DEF fileVars
<1> QED
  BY <1>2, <1>3, <1>4, <1>5, <1>6, <1>7, EditStep

(* What close, error and the tick hand to transition: a record that was never
   dated, so never reported, is completed and given an end. *)
LEMMA FirstEnd ==
    ASSUME IInv, NEW p \in Procs, Started(p), ~AlreadySettled(p),
           NEW r \in Record, NEW next \in Ended,
           r.status = rec[p].status,
           r.completionSequence = rec[p].completionSequence,
           r.endTime = now, r.success # "none",
           r.endReason \notin {"none", "kill_timeout"}, r.stdin = "released"
    PROVE  Handed(registry, p, r, next) /\ Entitled(p, r, next)
<1>1. now \in Nat /\ ended[p] = 0
      /\ rec[p].status \in {"absent", "running", "terminating"}
  BY DEF IInv, TypeOK, DatesFollowEnds, AlreadySettled
<1> QED
  BY <1>1 DEF Handed, Entitled, Never, LIVE_STATUSES, Ended

(* close ends an undated live record; it leaves a dated one as it is. *)
LEMMA CloseInv ==
    ASSUME IInv, NEW p \in Procs, Close(p)
    PROVE  IInv'
<1>1. /\ TypeOK /\ RecordsFollowStarts /\ FinishedIsComplete
      /\ (shuttingDown => logs = {})
      /\ rec \in [Procs -> Record] /\ rec[p] \in Record /\ now \in Nat
      /\ registry \in SUBSET Procs /\ logs \in SUBSET Procs
  BY DEF IInv, TypeOK, CleanupIsFinal
<1>2. /\ leader[p] \in Codes \cup Signals /\ closed' = closed \cup {p}
      /\ UNCHANGED <<leader, groupAlive, errored, scan, shuttingDown, kills,
                     now>>
  BY DEF Close
<1>3. Started(p)
  BY <1>2, LifecycleAssumption DEF Started
<1>4. CASE AlreadySettled(p)
  <2> DEFINE r == releaseRuntimeHandles(rec[p])
  <2>1. /\ rec' = [rec EXCEPT ![p] = r]
        /\ UNCHANGED <<registry, completionSequence, ended, timers, fileVars>>
    BY <1>4 DEF Close
  <2>2. /\ r \in Record /\ r.status = rec[p].status
        /\ r.endTime = rec[p].endTime /\ r.success = rec[p].success
        /\ r.completionSequence = rec[p].completionSequence
        /\ r.stdin = "released" /\ r.endReason = rec[p].endReason
    BY <1>1 DEF Record, releaseRuntimeHandles
  <2> HIDE DEF r
  <2>3. r.status \in Ended => r.endReason \notin {"none", "kill_timeout"}
    BY <1>1, <2>2 DEF FinishedIsComplete, IsFinished
  <2>4. Aside
    BY <1>1, <1>2, <2>1 DEF Aside, TypeOK, Started, fileVars
  <2>5. shuttingDown => logs' = {}
    BY <1>1, <2>1 DEF fileVars
  <2> QED
    BY <1>2, <1>3, <2>1, <2>2, <2>3, <2>4, <2>5, EditStep
<1>5. CASE ~AlreadySettled(p)
  <2> DEFINE s == [releaseRuntimeHandles(rec[p]) EXCEPT
                      !.endTime = now, !.success = "false",
                      !.endReason = "signal", !.signal = leader[p]]
             x == [releaseRuntimeHandles(rec[p]) EXCEPT
                      !.endTime = now, !.exitCode = leader[p],
                      !.success = IF leader[p] = "zero" THEN "true"
                                  ELSE "false",
                      !.endReason = "exit", !.signal = "none"]
  <2>1. /\ partial' = FlushedPartial(p)
        /\ \/ /\ leader[p] \in Signals
              /\ transition(registry, p, s, "killed", FlushedLogs(p))
           \/ /\ leader[p] \notin Signals
              /\ transition(registry, p, x, "exited", FlushedLogs(p))
    BY <1>5 DEF Close
  <2>2. leader[p] \in Signals =>
          /\ s \in Record /\ s.status = rec[p].status
          /\ s.completionSequence = rec[p].completionSequence
          /\ s.endTime = now /\ s.success # "none"
          /\ s.endReason \notin {"none", "kill_timeout"}
          /\ s.stdin = "released"
    BY <1>1 DEF Record, releaseRuntimeHandles
  <2>3. leader[p] \notin Signals =>
          /\ x \in Record /\ x.status = rec[p].status
          /\ x.completionSequence = rec[p].completionSequence
          /\ x.endTime = now /\ x.success # "none"
          /\ x.endReason \notin {"none", "kill_timeout"}
          /\ x.stdin = "released"
    <3>1. SUFFICES ASSUME NEW code \in Codes, leader[p] = code
                   PROVE  /\ x \in Record /\ x.status = rec[p].status
                          /\ x.completionSequence = rec[p].completionSequence
                          /\ x.endTime = now /\ x.success # "none"
                          /\ x.endReason \notin {"none", "kill_timeout"}
                          /\ x.stdin = "released"
      BY <1>2
    <3>2. PICK b \in {"true", "false"} :
              b = IF code = "zero" THEN "true" ELSE "false"
      OBVIOUS
    <3>3. x = [releaseRuntimeHandles(rec[p]) EXCEPT
                   !.endTime = now, !.exitCode = code, !.success = b,
                   !.endReason = "exit", !.signal = "none"]
      BY <3>1, <3>2
    <3> HIDE DEF x, s
    <3>4. /\ x.status = rec[p].status /\ x.endTime = now /\ x.success = b
          /\ x.completionSequence = rec[p].completionSequence
          /\ x.endReason = "exit" /\ x.stdin = "released"
      BY <1>1, <3>3 DEF Record, releaseRuntimeHandles
    <3>5. x \in Record
      BY <1>1, <3>3 DEF Record, releaseRuntimeHandles
    <3> QED
      BY <3>2, <3>4, <3>5
  <2> HIDE DEF s, x
  <2>4. PICK r \in Record, next \in Ended :
          /\ transition(registry, p, r, next, FlushedLogs(p))
          /\ r.status = rec[p].status
          /\ r.completionSequence = rec[p].completionSequence
          /\ r.endTime = now /\ r.success # "none"
          /\ r.endReason \notin {"none", "kill_timeout"}
          /\ r.stdin = "released"
    BY <2>1, <2>2, <2>3 DEF Ended
  <2>5. Handed(registry, p, r, next) /\ Entitled(p, r, next)
    BY <1>3, <1>5, <2>4, FirstEnd
  <2>6. OnlyStarts(p)
    BY <1>1, <1>2, <1>3, <2>1, Appends DEF OnlyStarts, TypeOK, Started
  <2>7. KillsProceed
    BY <1>2, KillsIdle DEF Started
  <2>8. \A q \in registry : q = p \/ Started(q)
    BY <1>1 DEF RecordsFollowStarts
  <2> QED
    BY <1>1, <2>4, <2>5, <2>6, <2>7, <2>8, Appends, TransitionStep
<1> QED
  BY <1>4, <1>5

(* error ends an undated record; of a dated one it changes nothing. *)
LEMMA ChildErrorInv ==
    ASSUME IInv, NEW p \in Procs, ChildError(p)
    PROVE  IInv'
<1>1. /\ TypeOK /\ RecordsFollowStarts
      /\ rec \in [Procs -> Record] /\ rec[p] \in Record /\ now \in Nat
      /\ registry \in SUBSET Procs
  BY DEF IInv, TypeOK
<1>2. /\ leader[p] \in {"running"} \cup Codes \cup Signals
      /\ errored' = errored \cup {p}
      /\ UNCHANGED <<leader, groupAlive, closed, scan, shuttingDown, kills,
                     now>>
  BY DEF ChildError
<1>3. Started(p)
  BY <1>2, LifecycleAssumption DEF Started
<1>4. CASE AlreadySettled(p)
  <2>1. /\ logs' = AppendedLogs(p)
        /\ UNCHANGED <<recVars, timers, partial>>
    BY <1>4 DEF ChildError
  <2>2. Aside
    BY <1>1, <1>2, <2>1, Appends DEF Aside, TypeOK, Started
  <2>3. KillsProceed
    BY <1>2, KillsIdle DEF Started
  <2> QED
    BY <1>2, <2>1, <2>2, <2>3, Appends, QuietStep
<1>5. CASE ~AlreadySettled(p)
  <2> DEFINE r == [releaseRuntimeHandles(rec[p]) EXCEPT
                       !.exitCode = "minus1", !.success = "false",
                       !.endReason = "spawn_error", !.endTime = now]
  <2>1. /\ partial' = FlushedPartial(p)
        /\ transition(registry, p, r, "exited", AppendedLogs(p))
    BY <1>5 DEF ChildError
  <2>2. /\ r \in Record /\ r.status = rec[p].status
        /\ r.completionSequence = rec[p].completionSequence
        /\ r.endTime = now /\ r.success # "none"
        /\ r.endReason \notin {"none", "kill_timeout"}
        /\ r.stdin = "released"
    <3>1. r \in Record
      BY <1>1, ZenonT(60) DEF Record, releaseRuntimeHandles
    <3>2. /\ r.status = rec[p].status /\ r.endTime = now /\ r.success = "false"
          /\ r.completionSequence = rec[p].completionSequence
          /\ r.endReason = "spawn_error" /\ r.stdin = "released"
      BY <1>1 DEF Record, releaseRuntimeHandles
    <3> HIDE DEF r
    <3> QED
      BY <3>1, <3>2
  <2> HIDE DEF r
  <2>3. "exited" \in Ended /\ "exited" \in LIVE_STATUSES \cup Ended
    BY DEF Ended
  <2>4. Handed(registry, p, r, "exited") /\ Entitled(p, r, "exited")
    BY <1>3, <1>5, <2>2, <2>3, FirstEnd
  <2>5. OnlyStarts(p)
    BY <1>1, <1>2, <1>3, <2>1, Appends DEF OnlyStarts, TypeOK, Started
  <2>6. KillsProceed
    BY <1>2, KillsIdle DEF Started
  <2>7. \A q \in registry : q = p \/ Started(q)
    BY <1>1 DEF RecordsFollowStarts
  <2> QED
    BY <1>1, <2>1, <2>3, <2>4, <2>5, <2>6, <2>7, Appends, TransitionStep
<1> QED
  BY <1>4, <1>5

(* A visit of the tick ends a record whose group is gone. *)
LEMMA TickVisitInv ==
    ASSUME IInv, NEW p \in Procs, TickVisit(p)
    PROVE  IInv'
<1>1. /\ TypeOK /\ RecordsFollowStarts /\ DatesFollowEnds
      /\ (shuttingDown => logs = {})
      /\ rec \in [Procs -> Record] /\ rec[p] \in Record /\ now \in Nat
      /\ registry \in SUBSET Procs
  BY DEF IInv, TypeOK, CleanupIsFinal
<1>2. scan' = scan \ {p} /\ UNCHANGED <<osVars, shuttingDown, kills, now>>
  BY DEF TickVisit
<1>3. KillsProceed
  BY <1>2, KillsIdle DEF Started, osVars
<1>4. CASE ~TickTouches(p)
  <2>1. UNCHANGED <<recVars, timers, fileVars>>
    BY <1>4 DEF TickVisit
  <2>2. Aside
    BY <1>1, <1>2, <2>1 DEF Aside, TypeOK, Started, osVars, fileVars
  <2>3. shuttingDown => logs' = {}
    BY <1>1, <2>1 DEF fileVars
  <2> QED
    BY <1>2, <1>3, <2>1, <2>2, <2>3, QuietStep
<1>5. CASE TickTouches(p)
  <2> DEFINE sent == rec[p].lastSignalSent
             r == [releaseRuntimeHandles(rec[p]) EXCEPT
                      !.endTime = IF @ # Never THEN @ ELSE now,
                      !.success = "false", !.exitCode = "none",
                      !.endReason = "lost", !.signal = sent]
             next == IF sent # "none" THEN "killed" ELSE "exited"
  <2>1. /\ partial' = FlushedPartial(p)
        /\ transition(registry, p, r, next, FlushedLogs(p))
    BY <1>5 DEF TickVisit
  <2>2. rec[p].status \in {"running", "terminating"} /\ p \notin groupAlive
    BY <1>5 DEF TickTouches
  <2>3. PICK t \in Nat : t = IF rec[p].endTime # Never THEN rec[p].endTime ELSE now
    BY <1>1 DEF Record
  <2>4. r = [releaseRuntimeHandles(rec[p]) EXCEPT
                 !.endTime = t, !.success = "false", !.exitCode = "none",
                 !.endReason = "lost", !.signal = sent]
    BY <1>1, <2>3 DEF releaseRuntimeHandles, Record
  <2> HIDE DEF r
  <2>5. r \in Record
    BY <1>1, <2>4 DEF Record, releaseRuntimeHandles
  <2>6. /\ r.status = rec[p].status /\ r.endTime = t /\ r.success = "false"
        /\ r.completionSequence = rec[p].completionSequence
        /\ r.endReason = "lost" /\ r.stdin = "released"
    BY <1>1, <2>4 DEF Record, releaseRuntimeHandles
  <2>7. next \in Ended
    BY DEF Ended
  <2> HIDE DEF next, sent
  <2>8. Handed(registry, p, r, next)
    BY <2>2, <2>5, <2>6, <2>7 DEF Handed, Never, Ended
  <2>9. Started(p)
    BY <1>1, <2>2 DEF RecordsFollowStarts
  <2>10. OnlyStarts(p)
    BY <1>1, <1>2, <2>1, <2>9, Appends DEF OnlyStarts, TypeOK, Started, osVars
  <2>11. ended[p] = 0 \/ StoppedBy(p, {"ok", "timeout"})
    BY <1>1, <1>2, <2>2 DEF DatesFollowEnds, IsLive, LIVE_STATUSES, StoppedBy
  <2>12. Entitled(p, r, next)
    BY <2>2, <2>6, <2>7, <2>11 DEF Entitled, Never, LIVE_STATUSES, Ended
  <2>13. \A q \in registry : q = p \/ Started(q)
    BY <1>1 DEF RecordsFollowStarts
  <2> QED
    BY <1>1, <1>3, <2>1, <2>7, <2>8, <2>10, <2>12, <2>13, Appends,
       TransitionStep
<1> QED
  BY <1>4, <1>5

(* A kill of nobody answers at once. *)
LEMMA KillNothingInv ==
    ASSUME IInv, NEW k \in Kills, NEW p \in Procs, NEW s \in Signals,
           KillNothing(k, p, s)
    PROVE  IInv'
<1>1. TypeOK /\ RecordsFollowStarts /\ (shuttingDown => logs = {})
  BY DEF IInv, CleanupIsFinal
<1>2. /\ kills[k].pc = "idle"
      /\ UNCHANGED <<osVars, recVars, timers, fileVars, scan, shuttingDown, now>>
  BY DEF KillNothing
<1>3. PICK res \in {"ok", "not_found"} : Return(k, p, s, res)
  BY DEF KillNothing
<1>4. KillsProceed
  BY <1>1, <1>2, <1>3 DEF KillsProceed, Return, TypeOK, Kill, osVars,
                          RecordsFollowStarts, Started
<1>5. Aside
  BY <1>1, <1>2 DEF Aside, TypeOK, Started, osVars, fileVars
<1> QED
  BY <1>1, <1>2, <1>4, <1>5, QuietStep DEF fileVars

(* A kill up to its await. *)
LEMMA KillCallInv ==
    ASSUME IInv, NEW k \in Kills, NEW p \in Procs, NEW s \in Signals,
           KillCall(k, p, s)
    PROVE  IInv'
<1>1. /\ TypeOK /\ RecordsFollowStarts /\ DatesFollowEnds
      /\ (shuttingDown => logs = {}) /\ logs \in SUBSET Procs
      /\ rec \in [Procs -> Record] /\ rec[p] \in Record
      /\ registry \in SUBSET Procs
  BY DEF IInv, TypeOK, CleanupIsFinal
<1>2. /\ kills[k].pc = "idle" /\ p \in registry
      /\ rec[p].status \in LIVE_STATUSES
      /\ UNCHANGED <<osVars, partial, scan, shuttingDown, now>>
  BY DEF KillCall, IsLive
<1>3. Started(p)
  BY <1>1, <1>2 DEF RecordsFollowStarts
<1>4. PICK sent \in BOOLEAN :
          transition(registry, p, IF sent THEN [rec[p] EXCEPT !.lastSignalSent = s]
                                  ELSE rec[p],
                     "terminating", logs)
  BY DEF KillCall
<1> DEFINE r == IF sent THEN [rec[p] EXCEPT !.lastSignalSent = s] ELSE rec[p]
<1>5. /\ r \in Record /\ r.status = rec[p].status
      /\ r.endTime = rec[p].endTime /\ r.success = rec[p].success
      /\ r.completionSequence = rec[p].completionSequence
  BY <1>1 DEF Record
<1>6. transition(registry, p, r, "terminating", logs)
  BY <1>4
<1> HIDE DEF r
<1>7. /\ kills' \in [Kills -> Kill]
      /\ \A j \in Kills \ {k} : kills'[j] = kills[j]
      /\ kills'[k].target = p
      /\ \/ kills'[k].pc = "waiting" /\ kills'[k].result = "none"
         \/ kills'[k].pc = "done"
  BY <1>1 DEF KillCall, Return, TypeOK, Kill
<1>8. kills[k].result = "none"
  BY <1>1, <1>2 DEF RecordsFollowStarts
<1>9. KillsProceed
  BY <1>1, <1>2, <1>3, <1>7, <1>8 DEF KillsProceed, RecordsFollowStarts, Started,
                                      osVars
<1>10. "terminating" \in LIVE_STATUSES \cup Ended /\ "terminating" \notin Ended
  BY DEF LIVE_STATUSES, Ended
<1>11. Handed(registry, p, r, "terminating")
  BY <1>5, <1>10 DEF Handed
<1>12. OnlyStarts(p)
  BY <1>1, <1>2, <1>3 DEF OnlyStarts, TypeOK, Started, osVars
<1>13. r.endTime # Never => StoppedBy(p, {"timeout"}) /\ r.success # "none"
  BY <1>1, <1>2, <1>5, <1>7, <1>8 DEF DatesFollowEnds, IsLive, StoppedBy
<1>14. Entitled(p, r, "terminating")
  BY <1>1, <1>5, <1>10, <1>13 DEF Entitled, DatesFollowEnds
<1>15. \A q \in registry : q = p \/ Started(q)
  BY <1>1 DEF RecordsFollowStarts
<1> QED
  BY <1>1, <1>6, <1>9, <1>10, <1>11, <1>12, <1>14, <1>15, TransitionStep

(* A waiting kill returns. *)
LEMMA Returns ==
    ASSUME IInv, NEW k \in Kills, NEW res \in {"ok", "timeout"},
           kills[k].pc = "waiting", UNCHANGED osVars,
           Return(k, kills[k].target, kills[k].signal, res)
    PROVE  /\ kills[k].target \in Procs /\ Started(kills[k].target)
           /\ kills[k].signal \in Signals \cup {"none"}
           /\ KillsProceed
           /\ StoppedBy(kills[k].target, {res})
<1>1. TypeOK /\ RecordsFollowStarts
  BY DEF IInv
<1>2. /\ kills[k].target \in Procs /\ Started(kills[k].target)
      /\ kills[k].signal \in Signals \cup {"none"} /\ kills[k].result = "none"
  BY <1>1 DEF RecordsFollowStarts, TypeOK, Kill
<1>3. /\ kills' \in [Kills -> Kill]
      /\ kills'[k].target = kills[k].target /\ kills'[k].result = res
      /\ kills'[k].pc = "done"
      /\ \A j \in Kills \ {k} : kills'[j] = kills[j]
  BY <1>1, <1>2 DEF Return, TypeOK, Kill
<1>4. KillsProceed
  BY <1>1, <1>2, <1>3 DEF KillsProceed, RecordsFollowStarts, Started, osVars
<1> QED
  BY <1>2, <1>3, <1>4 DEF StoppedBy

(* A kill that finds the group alive dates the record and declares it live. *)
LEMMA KillTimesOutInv ==
    ASSUME IInv, NEW k \in Kills, KillTimesOut(k)
    PROVE  IInv'
<1> DEFINE p == kills[k].target
           r == [rec[p] EXCEPT !.endReason = "kill_timeout",
                               !.signal = kills[k].signal,
                               !.success = "false", !.endTime = now]
<1>1. /\ kills[k].pc = "waiting" /\ p \in groupAlive
      /\ transition(registry, p, r, "terminate_timeout", logs)
      /\ Return(k, p, kills[k].signal, "timeout")
      /\ UNCHANGED <<osVars, partial, scan, shuttingDown, now>>
  BY DEF KillTimesOut
<1>2. /\ p \in Procs /\ Started(p) /\ kills[k].signal \in Signals \cup {"none"}
      /\ KillsProceed /\ StoppedBy(p, {"timeout"})
  BY <1>1, Returns
<1> HIDE DEF p
<1>3. /\ TypeOK /\ RecordsFollowStarts
      /\ (shuttingDown => logs = {}) /\ logs \in SUBSET Procs
      /\ rec[p] \in Record /\ registry \in SUBSET Procs /\ now \in Nat
  BY <1>2 DEF IInv, TypeOK, CleanupIsFinal
<1>4. r \in Record
  BY <1>2, <1>3, ZenonT(60) DEF Record
<1>5. /\ r.status = rec[p].status /\ r.endTime = now /\ r.success = "false"
      /\ r.completionSequence = rec[p].completionSequence
  BY <1>3 DEF Record
<1> HIDE DEF r
<1>6. /\ "terminate_timeout" \in LIVE_STATUSES \cup Ended
      /\ "terminate_timeout" \notin Ended
  BY DEF LIVE_STATUSES, Ended
<1>7. Handed(registry, p, r, "terminate_timeout")
  BY <1>4, <1>5, <1>6 DEF Handed
<1>8. OnlyStarts(p)
  BY <1>1, <1>2, <1>3 DEF OnlyStarts, TypeOK, Started, osVars
<1>9. Entitled(p, r, "terminate_timeout")
  BY <1>2, <1>3, <1>5, <1>6 DEF Entitled, Never
<1>10. \A q \in registry : q = p \/ Started(q)
  BY <1>3 DEF RecordsFollowStarts
<1> QED
  BY <1>1, <1>2, <1>3, <1>6, <1>7, <1>8, <1>9, <1>10, TransitionStep

(* A kill that finds the group gone ends the record, perhaps once more. *)
LEMMA KillSucceedsInv ==
    ASSUME IInv, NEW k \in Kills, KillSucceeds(k)
    PROVE  IInv'
<1> DEFINE p == kills[k].target
           dated == IF AlreadySettled(p) THEN rec[p]
                    ELSE [rec[p] EXCEPT !.endTime = now, !.exitCode = "none",
                                        !.success = "false"]
           sent == rec[p].lastSignalSent
           r == [releaseRuntimeHandles(dated) EXCEPT
                    !.endReason = IF sent # "none" THEN "signal" ELSE "lost",
                    !.signal = sent]
<1>1. /\ kills[k].pc = "waiting" /\ p \notin groupAlive
      /\ partial' = FlushedPartial(p)
      /\ transition(registry, p, r, "killed", FlushedLogs(p))
      /\ Return(k, p, kills[k].signal, "ok")
      /\ UNCHANGED <<osVars, scan, shuttingDown, now>>
  BY DEF KillSucceeds
<1>2. p \in Procs /\ Started(p) /\ KillsProceed /\ StoppedBy(p, {"ok"})
  BY <1>1, Returns
<1> HIDE DEF p
<1>3. /\ TypeOK /\ RecordsFollowStarts /\ DatesFollowEnds /\ FinishedIsComplete
      /\ rec[p] \in Record /\ registry \in SUBSET Procs /\ now \in Nat
  BY <1>2 DEF IInv, TypeOK
<1>4. /\ dated \in Record /\ dated.status = rec[p].status
      /\ dated.completionSequence = rec[p].completionSequence
      /\ dated.endTime # Never /\ dated.success # "none"
      /\ AlreadySettled(p) => dated.endTime = rec[p].endTime
      /\ dated.lastSignalSent = sent
  <2>1. CASE AlreadySettled(p)
    BY <1>2, <1>3, <2>1 DEF DatesFollowEnds, AlreadySettled
  <2>2. CASE ~AlreadySettled(p)
    <3>1. dated = [rec[p] EXCEPT !.endTime = now, !.exitCode = "none",
                                 !.success = "false"]
      BY <2>2
    <3> HIDE DEF dated
    <3>2. dated \in Record
      BY <1>3, <3>1 DEF Record
    <3>3. /\ dated.status = rec[p].status /\ dated.endTime = now
          /\ dated.completionSequence = rec[p].completionSequence
          /\ dated.success = "false" /\ dated.lastSignalSent = sent
      BY <1>3, <3>1 DEF Record
    <3> QED
      BY <1>3, <2>2, <3>2, <3>3 DEF Never
  <2> QED
    BY <2>1, <2>2
<1>5. sent \in Signals \cup {"none"}
  BY <1>3 DEF Record
<1>6. PICK why \in {"signal", "lost"} :
          why = IF sent # "none" THEN "signal" ELSE "lost"
  OBVIOUS
<1> HIDE DEF dated, sent
<1>7. r = [releaseRuntimeHandles(dated) EXCEPT !.endReason = why, !.signal = sent]
  BY <1>6
<1> HIDE DEF r
<1>8. r \in Record
  BY <1>4, <1>5, <1>7, ZenonT(60) DEF Record, releaseRuntimeHandles
<1>9. /\ r.status = rec[p].status /\ r.endTime = dated.endTime
      /\ r.success = dated.success /\ r.stdin = "released" /\ r.endReason = why
      /\ r.completionSequence = rec[p].completionSequence
  BY <1>4, <1>7 DEF Record, releaseRuntimeHandles
<1>10. "killed" \in Ended /\ "killed" \in LIVE_STATUSES \cup Ended
       /\ "killed" \notin LIVE_STATUSES
  BY DEF Ended, LIVE_STATUSES
<1>11. rec[p].status = "killed" => r.endTime = rec[p].endTime
  BY <1>2, <1>3, <1>4, <1>9, <1>10 DEF FinishedIsComplete, IsFinished,
                                       AlreadySettled
<1>12. Handed(registry, p, r, "killed")
  BY <1>4, <1>6, <1>8, <1>9, <1>11 DEF Handed
<1>13. OnlyStarts(p)
  BY <1>1, <1>2, <1>3, Appends DEF OnlyStarts, TypeOK, Started, osVars
<1>14. Entitled(p, r, "killed")
  BY <1>1, <1>2, <1>4, <1>9, <1>10 DEF Entitled, StoppedBy
<1>15. \A q \in registry : q = p \/ Started(q)
  BY <1>3 DEF RecordsFollowStarts
<1> QED
  BY <1>1, <1>2, <1>3, <1>10, <1>12, <1>13, <1>14, <1>15, Appends,
     TransitionStep

(* clear forgets finished records only. *)
LEMMA ClearInv ==
    ASSUME IInv, clearFinished
    PROVE  IInv'
<1>1. TypeOK
  BY DEF IInv
<1>2. /\ Clearable \in SUBSET {p \in registry : ~IsLive(p)}
      /\ registry' = registry \ Clearable /\ logs' \subseteq logs
      /\ reapTimer' = ReapDue(registry', rec)
      /\ watcher' = (watcher /\ hasAliveish(registry', rec))
      /\ UNCHANGED <<osVars, rec, completionSequence, ended, partial, scan,
                     shuttingDown, kills, now>>
  BY DEF clearFinished, Clearable
<1>3. watcher' \in BOOLEAN /\ (watcher' = watcher \/ watcher' = hasAliveish(registry', rec))
  BY <1>1, <1>2 DEF TypeOK, hasAliveish
<1> QED
  BY <1>2, <1>3, ForgetStep

(* The reap timer forgets finished records and arms the next. *)
LEMMA ReapTimerInv ==
    ASSUME IInv, ReapTimerFires
    PROVE  IInv'
<1>1. TypeOK
  BY DEF IInv
<1>2. Reapable(registry, rec) \in SUBSET {p \in registry : ~IsLive(p)}
  BY DEF Reapable, FinishedIn, IsLive, LIVE_STATUSES, Ended
<1>3. /\ registry' = registry \ Reapable(registry, rec) /\ logs' \subseteq logs
      /\ reapTimer' = ReapDue(registry', rec)
      /\ UNCHANGED <<osVars, rec, completionSequence, ended, watcher, partial,
                     scan, shuttingDown, kills, now>>
  BY DEF ReapTimerFires
<1> QED
  BY <1>1, <1>2, <1>3, ForgetStep DEF TypeOK

(* Cleanup forgets everything and removes all logs. *)
LEMMA CleanupInv ==
    ASSUME IInv, Cleanup
    PROVE  IInv'
<1> USE DEF IInv
<1>1. /\ shuttingDown' = TRUE /\ reapTimer' = Never /\ watcher' = FALSE
      /\ logs' = {}
      /\ UNCHANGED <<leader, groupAlive, closed, errored, rec, registry,
                     completionSequence, ended, partial, scan, kills, now>>
  BY DEF Cleanup, osVars, recVars
<1>2. TypeOK'
  BY <1>1 DEF TypeOK
<1>3. RecordsFollowStarts' /\ DatesFollowEnds'
  BY <1>1 DEF RecordsFollowStarts, Started, DatesFollowEnds, IsLive
<1>4. FinishedIsComplete' /\ NumbersAreIssued' /\ EndsFollowGroups'
  BY <1>1 DEF FinishedIsComplete, IsFinished, NumbersAreIssued,
              CompletionOrderIsTotal, EndsFollowGroups, RepeatedEndNeedsRace
<1>5. WatcherMatchesLive' /\ ReaperArmed' /\ CleanupIsFinal'
  BY <1>1 DEF WatcherMatchesLive, ReaperArmed, CleanupIsFinal
<1> QED
  BY <1>2, <1>3, <1>4, <1>5

(* Every step keeps the invariant. *)
LEMMA NextInv == IInv /\ [Next]_vars => IInv'
<1> SUFFICES ASSUME IInv, [Next]_vars PROVE IInv'
  OBVIOUS
<1>1. CASE UNCHANGED vars
  <2>1. /\ UNCHANGED <<osVars, recVars, timers, shuttingDown, kills, scan, now,
                       logs, partial>>
        /\ TypeOK /\ (shuttingDown => logs = {})
    BY <1>1 DEF vars, fileVars, IInv, CleanupIsFinal
  <2>2. Aside
    BY <2>1 DEF Aside, TypeOK, Started, osVars
  <2>3. KillsProceed
    BY <2>1, <2>2, KillsIdle DEF Aside
  <2> QED
    BY <2>1, <2>2, <2>3, QuietStep
<1>2. ASSUME NEW p \in Procs, LeaderExits(p) \/ GroupDies(p) PROVE IInv'
  BY <1>2, OSInv
<1>3. ASSUME NEW p \in Procs, Start(p) PROVE IInv'
  BY <1>3, StartInv
<1>4. ASSUME NEW p \in Procs, StartMissingPid(p) PROVE IInv'
  BY <1>4, StartMissingPidInv
<1>5. ASSUME NEW p \in Procs, StartThrows(p) PROVE IInv'
  BY <1>5, StartThrowsInv
<1>6. ASSUME NEW p \in Procs, LateSpawnError(p) PROVE IInv'
  BY <1>6, LateSpawnErrorInv
<1>7. ASSUME NEW p \in Procs, Data(p) PROVE IInv'
  BY <1>7, DataInv
<1>8. ASSUME NEW p \in Procs, Close(p) PROVE IInv'
  BY <1>8, CloseInv
<1>9. ASSUME NEW p \in Procs, ChildError(p) PROVE IInv'
  BY <1>9, ChildErrorInv
<1>10. ASSUME NEW p \in Procs, EndStdin(p) PROVE IInv'
  BY <1>10, EndStdinInv
<1>11. ASSUME NEW p \in Procs, TickVisit(p) PROVE IInv'
  BY <1>11, TickVisitInv
<1>12. ASSUME NEW k \in Kills, NEW p \in Procs, NEW s \in Signals,
              KillNothing(k, p, s)
       PROVE  IInv'
  BY <1>12, KillNothingInv
<1>13. ASSUME NEW k \in Kills, NEW p \in Procs, NEW s \in Signals,
              KillCall(k, p, s)
       PROVE  IInv'
  BY <1>13, KillCallInv
<1>14. ASSUME NEW k \in Kills, KillTimesOut(k) PROVE IInv'
  BY <1>14, KillTimesOutInv
<1>15. ASSUME NEW k \in Kills, KillSucceeds(k) PROVE IInv'
  BY <1>15, KillSucceedsInv
<1>16. CASE Tick
  BY <1>16, TickInv
<1>17. CASE Tock
  BY <1>17, TockInv
<1>18. CASE clearFinished
  BY <1>18, ClearInv
<1>19. CASE ReapTimerFires
  BY <1>19, ReapTimerInv
<1>20. CASE Cleanup
  BY <1>20, CleanupInv
<1> QED
  BY <1>1, <1>2, <1>3, <1>4, <1>5, <1>6, <1>7, <1>8, <1>9, <1>10, <1>11, <1>12,
     <1>13, <1>14, <1>15, <1>16, <1>17, <1>18, <1>19, <1>20 DEF Next

-----------------------------------------------------------------------------
(* The invariants the runs check, for every value of the constants *)

(* The strengthened invariant holds of every reachable state. *)
THEOREM Invariance == Spec => []IInv
<1>1. Init => IInv
  BY InitInv
<1>2. IInv /\ [Next]_vars => IInv'
  BY NextInv
<1> QED
  BY <1>1, <1>2, PTL DEF Spec

(* Every variable keeps its type, whatever the interleaving. *)
THEOREM TypeCorrect == Spec => []TypeOK
<1>1. IInv => TypeOK
  BY DEF IInv
<1> QED
  BY <1>1, Invariance, PTL

(* A finished record is complete, whichever of start, close, error, kill and
   the tick finished it. *)
THEOREM FinishedRecordsComplete == Spec => []FinishedIsComplete
<1>1. IInv => FinishedIsComplete
  BY DEF IInv
<1> QED
  BY <1>1, Invariance, PTL

(* The retention order never ties, so reaping is determined. *)
THEOREM RetentionOrder == Spec => []CompletionOrderIsTotal
<1>1. IInv => CompletionOrderIsTotal
  BY DEF IInv, NumbersAreIssued
<1> QED
  BY <1>1, Invariance, PTL

(* The liveness interval runs exactly while there is something to watch. *)
THEOREM WatcherFollowsLive == Spec => []WatcherMatchesLive
<1>1. IInv => WatcherMatchesLive
  BY DEF IInv
<1> QED
  BY <1>1, Invariance, PTL

(* An excess of finished records always has a reap timer due in time. *)
THEOREM ReaperAlwaysArmed == Spec => []ReaperArmed
<1>1. IInv => ReaperArmed
  BY DEF IInv
<1> QED
  BY <1>1, Invariance, PTL

(* A process is reported ended a second time only by a kill that waited, and
   never while its group lives. *)
THEOREM SecondReportNeedsKill == Spec => []RepeatedEndNeedsRace
<1>1. IInv => RepeatedEndNeedsRace
  BY DEF IInv, EndsFollowGroups
<1> QED
  BY <1>1, Invariance, PTL

(* No log file outlives or follows the cleanup. *)
THEOREM LogsGoneAfterCleanup == Spec => []CleanupIsFinal
<1>1. IInv => CleanupIsFinal
  BY DEF IInv
<1> QED
  BY <1>1, Invariance, PTL
===============================================================================
