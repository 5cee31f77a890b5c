------------------------- MODULE LifecyclePromiseProofs -------------------------
(***************************************************************************)
(* What a step of ProcessLifecycle may never do, and that ProcessLifecycle *)
(* implements ManagerPromise, for every value of the constants.            *)
(*                                                                         *)
(* Most actions end in transition(), so the proofs first say what any      *)
(* transition does to the variables of the promise and to the records the  *)
(* registry keeps; then each action is shown to be one of the promise, or  *)
(* to change nothing the promise speaks of.                                *)
(***************************************************************************)
EXTENDS ProcessLifecycleProofs

(* A child without a pid is a failure from its birth. *)
BornDeadStays ==
    \A p \in Procs : leader[p] = "nopid" =>
        /\ rec[p].status = "exited" /\ rec[p].success = "false"
        /\ rec[p].endReason \in {"missing_pid", "spawn_error"}

(* Kills wait for children with a pid, and a group that a kill did not find
   does not come back. *)
KillsFollowGroups ==
    \A k \in Kills :
        /\ kills[k].pc = "waiting" => leader[kills[k].target] # "nopid"
        /\ kills[k].result = "error" =>
              /\ kills[k].target \in Procs /\ Started(kills[k].target)
              /\ kills[k].target \notin groupAlive

(* Output comes from children that run. *)
OutputFollowsStarts == \A p \in partial : Started(p) /\ leader[p] # "nopid"

PInv == IInv /\ BornDeadStays /\ KillsFollowGroups /\ OutputFollowsStarts

-----------------------------------------------------------------------------
(* The variables of the promise *)

StatusOf  == [p \in Procs |-> rec[p].status]
OutcomeOf == [p \in Procs |-> Outcome(rec[p])]
CallsOf   == [k \in Kills |-> [pc |-> kills[k].pc, target |-> kills[k].target,
                               result |-> kills[k].result]]

(* Records that agree in what classifyProcessEnd looks at end alike. *)
LEMMA SameOutcome ==
    ASSUME NEW r, NEW s, r.status = s.status, r.success = s.success,
           r.endReason = s.endReason, r.exitCode = s.exitCode
    PROVE  Outcome(r) = Outcome(s)
  BY DEF Outcome

(* No transition touches another record; that of p is the one it was handed. *)
Moved(p, r, next) ==
    /\ rec' \in [Procs -> Record]
    /\ \A q \in Procs \ {p} : rec'[q] = rec[q]
    /\ rec'[p].status = next
    /\ rec'[p].endTime = r.endTime /\ rec'[p].exitCode = r.exitCode
    /\ rec'[p].success = r.success /\ rec'[p].endReason = r.endReason
    /\ rec'[p].signal = r.signal /\ rec'[p].stdin = r.stdin

(* A transition leaves the other records alone, and reports and reaps exactly
   when it ends a record. *)
LEMMA TransitionMoves ==
    ASSUME TypeOK, NEW reg \in SUBSET Procs, NEW p \in Procs, NEW r \in Record,
           NEW next \in LIVE_STATUSES \cup Ended, NEW logsNow,
           transition(reg, p, r, next, logsNow)
    PROVE  /\ Moved(p, r, next)
           /\ next \in Ended /\ r.status # next =>
                 /\ ended' = [ended EXCEPT ![p] = @ + 1]
                 /\ registry' = reg \ Reapable(reg, rec')
           /\ ~ (next \in Ended /\ r.status # next) =>
                 ended' = ended /\ registry' = reg
<1> DEFINE first == next \in Ended /\ r.status # next /\ r.completionSequence = 0
           n == IF first THEN completionSequence + 1 ELSE r.completionSequence
           s == [r EXCEPT !.status = next, !.completionSequence = n]
<1>1. rec' = [rec EXCEPT ![p] = s]
  BY DEF transition
<1>2. n \in Nat
  BY DEF TypeOK, Record
<1> HIDE DEF n
<1>3. s \in Record
  BY <1>2 DEF Record
<1>4. /\ s.status = next
      /\ s.endTime = r.endTime /\ s.exitCode = r.exitCode
      /\ s.success = r.success /\ s.endReason = r.endReason
      /\ s.signal = r.signal /\ s.stdin = r.stdin
  BY DEF Record
<1> HIDE DEF s
<1>5. Moved(p, r, next)
  BY <1>1, <1>3, <1>4 DEF Moved, TypeOK
<1>6. CASE next \in Ended /\ r.status # next
  BY <1>5, <1>6 DEF transition
<1>7. CASE ~ (next \in Ended /\ r.status # next)
  BY <1>5, <1>7 DEF transition
<1> QED
  BY <1>5, <1>6, <1>7

(* In the promise's terms. *)
LEMMA MovedMaps ==
    ASSUME TypeOK, NEW p \in Procs, NEW r, NEW next, Moved(p, r, next)
    PROVE  /\ StatusOf' = [StatusOf EXCEPT ![p] = next]
           /\ OutcomeOf' = [OutcomeOf EXCEPT ![p] = Outcome(rec'[p])]
<1>1. \A q \in Procs : rec'[q].status = IF q = p THEN next ELSE rec[q].status
  BY DEF Moved
<1>2. \A q \in Procs : Outcome(rec'[q]) = IF q = p THEN Outcome(rec'[p])
                                          ELSE Outcome(rec[q])
  BY DEF Moved
<1>3. StatusOf' = [StatusOf EXCEPT ![p] = next]
  BY <1>1 DEF StatusOf
<1>4. OutcomeOf' = [OutcomeOf EXCEPT ![p] = Outcome(rec'[p])]
  BY <1>2 DEF OutcomeOf
<1> QED
  BY <1>3, <1>4

-----------------------------------------------------------------------------
(* Reaping *)

(* Of finitely many records with dates and numbers of their own, each is older
   than another or the other is older, never both. *)
Numbered(F, R) ==
    /\ \A p \in F : R[p].endTime \in Nat /\ R[p].completionSequence \in Nat
    /\ \A p, q \in F : p # q => R[p].completionSequence # R[q].completionSequence

OlderIn(F, R, p) == {q \in F : Older(R, q, p)}

(* The older has fewer before it. *)
LEMMA OlderHasFewer ==
    ASSUME NEW F, IsFiniteSet(F), NEW R, Numbered(F, R),
           NEW p \in F, NEW q \in F, p # q
    PROVE  /\ Cardinality(OlderIn(F, R, p)) \in Nat
           /\ Older(R, p, q) =>
                 Cardinality(OlderIn(F, R, p)) < Cardinality(OlderIn(F, R, q))
           /\ ~Older(R, p, q) =>
                 Cardinality(OlderIn(F, R, q)) < Cardinality(OlderIn(F, R, p))
<1>1. \A s \in F : OlderIn(F, R, s) \in SUBSET F
  BY DEF OlderIn
<1>2. \A s \in F : /\ IsFiniteSet(OlderIn(F, R, s))
                   /\ Cardinality(OlderIn(F, R, s)) \in Nat
  BY <1>1, FS_Subset, FS_CardinalityType
<1>3. ASSUME NEW s \in F, NEW t \in F, Older(R, s, t)
      PROVE  Cardinality(OlderIn(F, R, s)) < Cardinality(OlderIn(F, R, t))
  <2>1. OlderIn(F, R, s) \in SUBSET OlderIn(F, R, t)
    BY <1>3 DEF OlderIn, Older, Numbered
  <2>2. s \in OlderIn(F, R, t) /\ s \notin OlderIn(F, R, s)
    BY <1>3 DEF OlderIn, Older, Numbered
  <2>3. Cardinality(OlderIn(F, R, s)) <= Cardinality(OlderIn(F, R, t))
    BY <1>2, <2>1, FS_Subset
  <2>4. Cardinality(OlderIn(F, R, s)) # Cardinality(OlderIn(F, R, t))
    BY <1>2, <2>1, <2>2, FS_Subset
  <2> QED
    BY <1>2, <2>3, <2>4
<1>4. ~Older(R, p, q) => Older(R, q, p)
  BY DEF Older, Numbered
<1> QED
  BY <1>2, <1>3, <1>4

(* A nonempty set of naturals has a least member. *)
LEMMA LeastMember ==
    ASSUME NEW T \in SUBSET Nat, T # {}
    PROVE  \E x \in T : \A y \in T : x <= y
<1>1. PICK x \in T : \A y \in T : ~ (<<y, x>> \in OpToRel(<, Nat))
  BY NatLessThanWellFounded, WFMin
<1>2. \A y \in T : ~ (y < x)
  BY <1>1, Zenon DEF OpToRel
<1>3. \A y \in T : x <= y
  <2> TAKE y \in T
  <2>1. x \in Nat /\ y \in Nat /\ ~ (y < x)
    BY <1>2
  <2> QED
    BY <2>1
<1> QED
  BY <1>3

(* What reapOldestFinished removes is over its grace and older than what it
   keeps, and it keeps MaxFinished. *)
LEMMA ReapingKeepsNewest ==
    ASSUME NEW reg \in SUBSET Procs, NEW R, now \in Nat,
           Numbered(FinishedIn(reg, R), R), Reapable(reg, R) # {}
    PROVE  /\ Cardinality(FinishedIn(reg, R) \ Reapable(reg, R)) >= MaxFinished
           /\ \A p \in Reapable(reg, R) :
                 /\ R[p].endTime + Grace <= now
                 /\ \A q \in FinishedIn(reg, R) \ Reapable(reg, R) : Older(R, p, q)
<1> DEFINE F == FinishedIn(reg, R)
           G == Reapable(reg, R)
           n == Cardinality(F) - MaxFinished
           c(p) == Cardinality(OlderIn(F, R, p))
<1>1. IsFiniteSet(F) /\ Cardinality(F) \in Nat
  BY FinishedCount
<1>2. G = {p \in F : R[p].endTime <= now - Grace /\ c(p) < n}
  BY DEF Reapable, OlderIn
<1>3. /\ G \in SUBSET F /\ G # {} /\ Numbered(F, R)
      /\ n \in Int /\ n <= Cardinality(F)
  BY <1>1, <1>2, LifecycleAssumption
<1> HIDE DEF F, G
<1>4. \A p \in F : c(p) \in Nat
  <2> SUFFICES ASSUME NEW p \in F PROVE c(p) \in Nat
    OBVIOUS
  <2>1. OlderIn(F, R, p) \in SUBSET F
    BY DEF OlderIn
  <2> QED
    BY <1>1, <2>1, FS_Subset, FS_CardinalityType
<1>5. \A p, q \in F : p # q => /\ Older(R, p, q) => c(p) < c(q)
                               /\ ~Older(R, p, q) => c(q) < c(p)
  BY <1>1, <1>3, OlderHasFewer
<1> HIDE DEF n
<1>6. \A p \in G : /\ R[p].endTime + Grace <= now
                   /\ \A q \in F \ G : Older(R, p, q)
  <2> SUFFICES ASSUME NEW p \in G
               PROVE  /\ R[p].endTime + Grace <= now
                      /\ \A q \in F \ G : Older(R, p, q)
    OBVIOUS
  <2>1. R[p].endTime <= now - Grace /\ c(p) < n /\ p \in F /\ R[p].endTime \in Nat
    BY <1>2, <1>3 DEF Numbered
  <2>2. ASSUME NEW q \in F \ G PROVE Older(R, p, q)
    <3>1. R[q].endTime \in Nat /\ c(q) \in Nat /\ c(p) \in Nat
      BY <1>3, <1>4, <2>1 DEF Numbered
    <3>2. CASE ~ (R[q].endTime <= now - Grace)
      BY <2>1, <3>1, <3>2, LifecycleAssumption DEF Older
    <3>3. CASE ~ (c(q) < n)
      BY <1>3, <1>5, <2>1, <3>1, <3>3
    <3> QED
      BY <1>2, <3>2, <3>3
  <2> QED
    BY <2>1, <2>2, LifecycleAssumption
<1>7. PICK last \in G : \A p \in G : c(p) <= c(last)
  <2> DEFINE T == {n - c(p) : p \in G}
  <2>1. T \in SUBSET Nat /\ T # {}
    <3>1. \A p \in G : n - c(p) \in Nat
      BY <1>2, <1>3, <1>4
    <3> QED
      BY <1>3, <3>1
  <2>2. PICK x \in T : \A y \in T : x <= y
    BY <2>1, LeastMember
  <2>3. PICK p \in G : x = n - c(p)
    BY <2>2
  <2>4. \A q \in G : n - c(p) <= n - c(q)
    BY <2>2, <2>3
  <2> QED
    BY <1>3, <1>4, <2>3, <2>4
<1>8. G \in SUBSET (OlderIn(F, R, last) \cup {last})
  <2> SUFFICES ASSUME NEW p \in G, p # last PROVE p \in OlderIn(F, R, last)
    OBVIOUS
  <2>1. p \in F /\ last \in F /\ c(p) <= c(last) /\ c(p) \in Nat /\ c(last) \in Nat
    BY <1>3, <1>4, <1>7
  <2>2. Older(R, p, last)
    BY <1>5, <2>1
  <2> QED
    BY <2>1, <2>2 DEF OlderIn
<1>9. IsFiniteSet(G) /\ Cardinality(G) \in Nat /\ Cardinality(G) <= n
  <2>1. OlderIn(F, R, last) \in SUBSET F
    BY DEF OlderIn
  <2>2. IsFiniteSet(OlderIn(F, R, last))
    BY <1>1, <2>1, FS_Subset
  <2>3. /\ IsFiniteSet(OlderIn(F, R, last) \cup {last})
        /\ Cardinality(OlderIn(F, R, last) \cup {last}) <= c(last) + 1
    BY <1>3, <1>4, <1>7, <2>2, FS_AddElement
  <2>4. IsFiniteSet(G) /\ Cardinality(G) \in Nat
    BY <1>1, <1>3, FS_Subset, FS_CardinalityType
  <2>5. Cardinality(G) <= Cardinality(OlderIn(F, R, last) \cup {last})
    BY <1>8, <2>3, FS_Subset
  <2>6. c(last) < n /\ c(last) \in Nat
    BY <1>2, <1>3, <1>4, <1>7
  <2>7. Cardinality(OlderIn(F, R, last) \cup {last}) \in Nat
    BY <2>3, FS_CardinalityType
  <2> QED
    BY <1>3, <2>3, <2>4, <2>5, <2>6, <2>7
<1>10. Cardinality(F \ G) = Cardinality(F) - Cardinality(G)
  <2>1. F \cap G = G
    BY <1>3
  <2> QED
    BY <1>1, <2>1, FS_Difference
<1>11. Cardinality(F \ G) >= MaxFinished
  BY <1>1, <1>9, <1>10, LifecycleAssumption DEF n
<1> QED
  BY <1>6, <1>11 DEF F, G

-----------------------------------------------------------------------------
(* What is to be shown of a step *)

VerdictStep ==
    \A p \in Procs :
        IsFinished(p) /\ Verdict(rec'[p]) # Verdict(rec[p])
            => \E k \in Kills : /\ kills[k].pc = "waiting" /\ kills'[k].pc = "done"
                                /\ kills[k].target = p

FlushStep == \A p \in Procs : ended'[p] # ended[p] => p \notin partial'

ReapStep ==
    LET before == FinishedIn(registry, rec')
        after  == FinishedIn(registry', rec')
    IN  before \ after # {} /\ ~clearFinished =>
            /\ Cardinality(after) >= MaxFinished
            /\ \A p \in before \ after :
                   /\ rec'[p].endTime + Grace <= now
                   /\ \A q \in after : Older(rec', p, q)

PromisedStep == Promised!PromiseNext \/ UNCHANGED Promised!managerVars

StepOK == VerdictStep /\ FlushStep /\ ReapStep /\ PromisedStep

(* A registry that loses nothing, or what reapOldestFinished takes. *)
LEMMA ReapingStep ==
    ASSUME IInv, IInv', NEW reg \in SUBSET Procs, registry \subseteq reg,
           registry' = reg \/ registry' = reg \ Reapable(reg, rec')
    PROVE  ReapStep
<1> DEFINE before == FinishedIn(registry, rec')
           after  == FinishedIn(registry', rec')
           F == FinishedIn(reg, rec')
           G == Reapable(reg, rec')
<1>1. CASE registry' = reg
  BY <1>1 DEF ReapStep, FinishedIn
<1>2. CASE registry' = reg \ G
  <2>1. after = F \ G /\ before \ after \subseteq G
    BY <1>2 DEF FinishedIn, Reapable
  <2>2. Numbered(F, rec')
    BY DEF IInv, TypeOK, Record, FinishedIsComplete, IsFinished,
           NumbersAreIssued, CompletionOrderIsTotal, FinishedIn, Numbered
  <2>3. now \in Nat
    BY DEF IInv, TypeOK
  <2>4. ASSUME before \ after # {}
        PROVE  /\ Cardinality(after) >= MaxFinished
               /\ \A p \in before \ after :
                      /\ rec'[p].endTime + Grace <= now
                      /\ \A q \in after : Older(rec', p, q)
    <3>1. G # {}
      BY <2>1, <2>4
    <3> HIDE DEF before, after, F, G
    <3>2. /\ Cardinality(F \ G) >= MaxFinished
          /\ \A p \in G : /\ rec'[p].endTime + Grace <= now
                          /\ \A q \in F \ G : Older(rec', p, q)
      BY <2>2, <2>3, <3>1, ReapingKeepsNewest DEF F, G
    <3> QED
      BY <2>1, <3>2
  <2> QED
    BY <2>4 DEF ReapStep
<1> QED
  BY <1>1, <1>2

(* process_ended for p as the promise has it (Ends there), of the registry reg. *)
EndsAs(p, next, o, reg) ==
    /\ StatusOf' = [StatusOf EXCEPT ![p] = next]
    /\ OutcomeOf' = [OutcomeOf EXCEPT ![p] = o]
    /\ ended' = [ended EXCEPT ![p] = @ + 1]
    /\ \E forgotten \in SUBSET {q \in reg : rec'[q].status \in Ended} :
           registry' = reg \ forgotten

(* What a transition to an end comes to. *)
LEMMA EndsPromised ==
    ASSUME TypeOK, NEW reg \in SUBSET Procs, NEW p \in Procs, NEW r,
           NEW next \in Ended, NEW o,
           Moved(p, r, next), ended' = [ended EXCEPT ![p] = @ + 1],
           registry' = reg \ Reapable(reg, rec'), Outcome(rec'[p]) = o
    PROVE  EndsAs(p, next, o, reg)
<1>1. StatusOf' = [StatusOf EXCEPT ![p] = next] /\ OutcomeOf' = [OutcomeOf EXCEPT ![p] = o]
  BY MovedMaps
<1>2. /\ Reapable(reg, rec') \in SUBSET {q \in reg : rec'[q].status \in Ended}
  BY DEF Reapable, FinishedIn
<1> QED
  BY <1>1, <1>2 DEF EndsAs

(* What a transition to a live status comes to. *)
LEMMA BecomesPromised ==
    ASSUME TypeOK, NEW p \in Procs, NEW r, NEW next \in LIVE_STATUSES,
           Moved(p, r, next), ended' = ended, registry' = registry
    PROVE  Promised!Becomes(p, next)
<1>1. Outcome(rec'[p]) = "none"
  BY DEF Moved, Outcome, LIVE_STATUSES, Ended
<1>2. /\ StatusOf' = [StatusOf EXCEPT ![p] = next]
      /\ OutcomeOf' = [OutcomeOf EXCEPT ![p] = "none"]
  BY <1>1, MovedMaps
<1> QED
  BY <1>2 DEF Promised!Becomes, StatusOf, OutcomeOf

(* Steps the promise does not see. *)
LEMMA UnseenStep ==
    ASSUME IInv, IInv', UNCHANGED <<ended, registry, kills, shuttingDown>>,
           \A p \in Procs : /\ rec'[p].status = rec[p].status
                            /\ Outcome(rec'[p]) = Outcome(rec[p])
                            /\ IsFinished(p) => Verdict(rec'[p]) = Verdict(rec[p])
    PROVE  StepOK
<1>1. VerdictStep /\ FlushStep
  BY DEF VerdictStep, FlushStep
<1>2. ReapStep
  BY ReapingStep DEF IInv, TypeOK
<1>3. PromisedStep
  BY DEF PromisedStep, Promised!managerVars
<1> QED
  BY <1>1, <1>2, <1>3 DEF StepOK

-----------------------------------------------------------------------------
(* What follows the groups goes on following them *)

Followed == BornDeadStays /\ KillsFollowGroups /\ OutputFollowsStarts

(* Where no child is born and no record of a stillborn one is touched, only
   what a kill found out can matter. *)
LEMMA FollowStep ==
    ASSUME PInv, IInv',
           \A q \in Procs : /\ Started(q) => Started(q)'
                            /\ leader'[q] = "nopid" <=> leader[q] = "nopid"
                            /\ leader[q] = "nopid" => rec'[q] = rec[q],
           groupAlive' \subseteq groupAlive, partial' \subseteq partial,
           \A k \in Kills :
               \/ kills'[k] = kills[k]
               \/ /\ kills'[k].pc = "waiting" => leader[kills'[k].target] # "nopid"
                  /\ kills'[k].result = "error" =>
                        /\ kills'[k].target \in Procs /\ Started(kills'[k].target)
                        /\ kills'[k].target \notin groupAlive
    PROVE  Followed'
<1>1. BornDeadStays'
  BY DEF PInv, BornDeadStays
<1>2. partial \subseteq Procs
  BY DEF PInv, IInv, TypeOK
<1>3. OutputFollowsStarts'
  BY <1>2 DEF PInv, OutputFollowsStarts
<1>4. \A k \in Kills : kills'[k].pc = "waiting" => kills'[k].target \in Procs
  BY DEF IInv, RecordsFollowStarts
<1>5. KillsFollowGroups'
  <2> SUFFICES ASSUME NEW k \in Kills
               PROVE  /\ kills'[k].pc = "waiting" => leader'[kills'[k].target] # "nopid"
                      /\ kills'[k].result = "error" =>
                            /\ kills'[k].target \in Procs
                            /\ leader'[kills'[k].target] \notin {"none", "threw"}
                            /\ kills'[k].target \notin groupAlive'
    BY DEF KillsFollowGroups, Started
  <2>1. CASE kills'[k] = kills[k]
    BY <1>4, <2>1 DEF PInv, KillsFollowGroups, Started
  <2>2. CASE kills'[k] # kills[k]
    <3>1. \A q \in Procs : /\ leader[q] \notin {"none", "threw"} => leader'[q] \notin {"none", "threw"}
                           /\ leader'[q] = "nopid" <=> leader[q] = "nopid"
      BY DEF Started
    <3> QED
      BY <1>4, <2>2, <3>1 DEF Started
  <2> QED
    BY <2>1, <2>2
<1> QED
  BY <1>1, <1>3, <1>5 DEF Followed

-----------------------------------------------------------------------------
(* Steps that end a record *)

Crashed(r) ==
    /\ r.success = "false"
    /\ \/ r.endReason \in {"spawn_error", "missing_pid", "lost"}
       \/ r.exitCode \notin {"none", "zero"}

LEMMA Judgement ==
    ASSUME NEW r
    PROVE  /\ r.status = "killed" => Outcome(r) = "killed"
           /\ r.status = "exited" /\ r.success = "true" => Outcome(r) = "success"
           /\ r.status = "exited" /\ Crashed(r) => Outcome(r) = "crash"
<1>1. ASSUME r.status = "killed" PROVE Outcome(r) = "killed"
  BY <1>1 DEF Outcome, Ended
<1>2. ASSUME r.status = "exited", r.success = "true" PROVE Outcome(r) = "success"
  BY <1>2 DEF Outcome, Ended
<1>3. ASSUME r.status = "exited", Crashed(r) PROVE Outcome(r) = "crash"
  BY <1>3 DEF Outcome, Ended, Crashed
<1> QED
  BY <1>1, <1>2, <1>3

(* close, error and the tick end what runs or is being stopped. *)
LEMMA EndsStep ==
    ASSUME PInv, IInv', NEW p \in Procs, NEW r \in Record, NEW next \in Ended, NEW logsNow,
           r.status = rec[p].status, rec[p].status \in {"running", "terminating"},
           next = "exited" => r.success = "true" \/ Crashed(r),
           transition(registry, p, r, next, logsNow), partial' = FlushedPartial(p),
           UNCHANGED <<leader, groupAlive, kills, shuttingDown>>
    PROVE  StepOK /\ Followed'
<1>1. TypeOK /\ registry \in SUBSET Procs /\ leader[p] # "nopid" /\ ended \in [Procs -> Nat]
  BY DEF PInv, IInv, TypeOK, BornDeadStays
<1>2. /\ Moved(p, r, next) /\ ended' = [ended EXCEPT ![p] = @ + 1]
      /\ registry' = registry \ Reapable(registry, rec')
  BY <1>1, TransitionMoves DEF Ended
<1>3. \A q \in Procs \ {p} : rec'[q] = rec[q] /\ ended'[q] = ended[q]
  BY <1>1, <1>2 DEF Moved
<1>4. VerdictStep /\ FlushStep
  BY <1>3 DEF VerdictStep, FlushStep, FlushedPartial, IsFinished, Ended
<1>5. ReapStep
  BY <1>1, <1>2, ReapingStep DEF PInv
<1>6. PICK o \in {"success", "crash", "killed"} :
          Outcome(rec'[p]) = o /\ (next = "killed" <=> o = "killed")
  <2>1. CASE next = "killed"
    BY <1>2, <2>1, Judgement DEF Moved
  <2>2. CASE next = "exited" /\ r.success = "true"
    BY <1>2, <2>2, Judgement DEF Moved
  <2>3. CASE next = "exited" /\ Crashed(r)
    <3>1. Crashed(rec'[p])
      BY <1>2, <2>3 DEF Moved, Crashed
    <3> QED
      BY <1>2, <2>3, <3>1, Judgement DEF Moved
  <2> QED
    BY <2>1, <2>2, <2>3 DEF Ended
<1>7. EndsAs(p, next, o, registry)
  BY <1>1, <1>2, <1>6, EndsPromised
<1>8. Promised!Finishes(p, next, o)
  <2>1. Promised!Fits(next, o)
    BY <1>6 DEF Promised!Fits, Promised!Outcomes
  <2>2. \A q \in registry : StatusOf'[q] = rec'[q].status
    BY <1>1 DEF StatusOf
  <2>3. \E forgotten \in SUBSET {q \in registry : StatusOf'[q] \in Promised!Finished} :
            registry' = registry \ forgotten
    BY <1>7, <2>2 DEF EndsAs, Promised!Finished, Ended
  <2>4. StatusOf[p] \in {"running", "terminating"}
    BY DEF StatusOf
  <2> QED
    BY <1>7, <2>1, <2>3, <2>4
    DEF EndsAs, Promised!Finishes, Promised!Ends, StatusOf, OutcomeOf
<1>9. PromisedStep
  <2>1. next \in Promised!Finished /\ o \in Promised!Outcomes
    BY DEF Promised!Finished, Promised!Outcomes, Ended
  <2> QED
    BY <1>8, <2>1 DEF PromisedStep, Promised!PromiseNext
<1>10. Followed'
  BY <1>1, <1>3, FollowStep DEF FlushedPartial, Started
<1> QED
  BY <1>4, <1>5, <1>9, <1>10 DEF StepOK

-----------------------------------------------------------------------------
(* Steps the promise does not see *)

(* Steps of the operating system, of the clock and of output, a start that
   throws, and the beginning of a tick leave records, registry and calls alone. *)
LEMMA QuietPromise ==
    ASSUME PInv, IInv', UNCHANGED <<rec, ended, registry, kills, shuttingDown>>
    PROVE  StepOK
<1>1. \A p \in Procs : /\ rec'[p].status = rec[p].status
                       /\ Outcome(rec'[p]) = Outcome(rec[p])
                       /\ IsFinished(p) => Verdict(rec'[p]) = Verdict(rec[p])
  OBVIOUS
<1> QED
  BY <1>1, UnseenStep DEF PInv

(* The operating system. *)
LEMMA OSPromise ==
    ASSUME PInv, IInv', NEW p \in Procs, LeaderExits(p) \/ GroupDies(p)
    PROVE  StepOK /\ Followed'
<1>1. /\ UNCHANGED <<recVars, fileVars, shuttingDown, kills>>
      /\ groupAlive' \subseteq groupAlive
  BY DEF LeaderExits, GroupDies
<1>2. \A q \in Procs : /\ Started(q) => Started(q)'
                       /\ leader'[q] = "nopid" <=> leader[q] = "nopid"
  <2>1. CASE LeaderExits(p)
    <3>1. PICK how \in Codes \cup Signals : leader' = [leader EXCEPT ![p] = how]
      BY <2>1 DEF LeaderExits
    <3>2. how \notin {"none", "threw", "nopid"} /\ leader[p] = "running"
      BY <2>1, LifecycleAssumption DEF LeaderExits
    <3>3. leader \in [Procs -> {"none", "nopid", "threw", "running"}
                                   \cup Codes \cup Signals]
      BY DEF PInv, IInv, TypeOK
    <3> QED
      BY <3>1, <3>2, <3>3 DEF Started
  <2>2. CASE GroupDies(p)
    BY <2>2 DEF GroupDies, Started
  <2> QED
    BY <2>1, <2>2
<1>3. StepOK
  BY <1>1, QuietPromise DEF recVars
<1>4. Followed'
  BY <1>1, <1>2, FollowStep DEF recVars, fileVars
<1> QED
  BY <1>3, <1>4

(* The clock, and the beginning of a tick. *)
LEMMA ClockPromise ==
    ASSUME PInv, IInv', Tick \/ Tock \/ UNCHANGED vars
    PROVE  StepOK /\ Followed'
<1>1. UNCHANGED <<osVars, recVars, fileVars, shuttingDown, kills>>
  BY DEF Tick, Tock, vars
<1>2. StepOK
  BY <1>1, QuietPromise DEF recVars
<1>3. Followed'
  BY <1>1, FollowStep DEF recVars, fileVars, osVars, Started
<1> QED
  BY <1>2, <1>3

(* A start that throws leaves no record. *)
LEMMA StartThrowsPromise ==
    ASSUME PInv, IInv', NEW p \in Procs, StartThrows(p)
    PROVE  StepOK /\ Followed'
<1>1. /\ leader' = [leader EXCEPT ![p] = "threw"] /\ leader[p] = "none"
      /\ leader \in [Procs -> {"none", "nopid", "threw", "running"}
                                 \cup Codes \cup Signals]
      /\ UNCHANGED <<groupAlive, recVars, partial, shuttingDown, kills>>
  BY DEF StartThrows, NextId, PInv, IInv, TypeOK
<1>2. StepOK
  BY <1>1, QuietPromise DEF recVars
<1>3. Followed'
  BY <1>1, FollowStep DEF recVars, Started
<1> QED
  BY <1>2, <1>3

(* Output comes from a child that runs or ran. *)
LEMMA DataPromise ==
    ASSUME PInv, IInv', NEW p \in Procs, Data(p)
    PROVE  StepOK /\ Followed'
<1>1. /\ leader[p] \in {"running"} \cup Codes \cup Signals
      /\ partial' \subseteq partial \cup {p}
      /\ UNCHANGED <<osVars, recVars, shuttingDown, kills>>
  BY DEF Data
<1>2. StepOK
  BY <1>1, QuietPromise DEF recVars
<1>3. Started(p) /\ leader[p] # "nopid"
  BY <1>1, LifecycleAssumption DEF Started
<1>4. OutputFollowsStarts'
  BY <1>1, <1>3 DEF PInv, OutputFollowsStarts, Started, osVars
<1>5. BornDeadStays' /\ KillsFollowGroups'
  BY <1>1 DEF PInv, BornDeadStays, KillsFollowGroups, Started, osVars, recVars
<1> QED
  BY <1>2, <1>4, <1>5 DEF Followed

(* The late error of a child without a pid explains its failure anew. *)
LEMMA LateSpawnErrorPromise ==
    ASSUME PInv, IInv', NEW p \in Procs, LateSpawnError(p)
    PROVE  StepOK /\ Followed'
<1>1. /\ leader[p] = "nopid" /\ rec \in [Procs -> Record]
      /\ rec' = [rec EXCEPT ![p].endReason = "spawn_error"]
      /\ UNCHANGED <<leader, groupAlive, partial, registry, ended, shuttingDown, kills>>
  BY DEF LateSpawnError, PInv, IInv, TypeOK
<1>2. /\ \A q \in Procs \ {p} : rec'[q] = rec[q]
      /\ rec'[p] = [rec[p] EXCEPT !.endReason = "spawn_error"]
  BY <1>1
<1>3. /\ rec'[p].status = "exited" /\ rec[p].status = "exited"
      /\ rec'[p].success = "false" /\ rec[p].success = "false"
      /\ rec'[p].endReason = "spawn_error"
      /\ rec[p].endReason \in {"missing_pid", "spawn_error"}
      /\ Verdict(rec'[p]) = Verdict(rec[p])
  BY <1>1, <1>2 DEF PInv, BornDeadStays, Record, Verdict
<1>4. Outcome(rec'[p]) = "crash" /\ Outcome(rec[p]) = "crash"
  BY <1>3 DEF Outcome, Ended
<1>5. StepOK
  BY <1>1, <1>2, <1>3, <1>4, UnseenStep DEF PInv
<1>6. BornDeadStays'
  BY <1>1, <1>2, <1>3 DEF PInv, BornDeadStays
<1>7. KillsFollowGroups' /\ OutputFollowsStarts'
  BY <1>1 DEF PInv, KillsFollowGroups, OutputFollowsStarts, Started
<1> QED
  BY <1>5, <1>6, <1>7 DEF Followed

(* Ending stdin. *)
LEMMA EndStdinPromise ==
    ASSUME PInv, IInv', NEW p \in Procs, EndStdin(p)
    PROVE  StepOK /\ Followed'
<1>1. /\ rec[p].status \in LIVE_STATUSES /\ rec \in [Procs -> Record]
      /\ rec' = [rec EXCEPT ![p].stdin = "ended"]
      /\ UNCHANGED <<osVars, fileVars, registry, ended, shuttingDown, kills>>
  BY DEF EndStdin, IsLive, PInv, IInv, TypeOK
<1>2. /\ \A q \in Procs \ {p} : rec'[q] = rec[q]
      /\ rec'[p] = [rec[p] EXCEPT !.stdin = "ended"]
  BY <1>1
<1>3. /\ rec'[p].status = rec[p].status /\ rec'[p].success = rec[p].success
      /\ rec'[p].endReason = rec[p].endReason /\ rec'[p].exitCode = rec[p].exitCode
      /\ Verdict(rec'[p]) = Verdict(rec[p])
  BY <1>1, <1>2 DEF Record, Verdict
<1>4. Outcome(rec'[p]) = Outcome(rec[p])
  BY <1>3, SameOutcome
<1>5. StepOK
  BY <1>1, <1>2, <1>3, <1>4, UnseenStep DEF PInv
<1>6. leader[p] # "nopid"
  BY <1>1 DEF PInv, BornDeadStays, LIVE_STATUSES
<1>7. Followed'
  BY <1>1, <1>2, <1>6, FollowStep DEF osVars, fileVars, Started
<1> QED
  BY <1>5, <1>7

-----------------------------------------------------------------------------
(* Starts *)

(* A start is the promise's beginning. *)
LEMMA StartPromise ==
    ASSUME PInv, IInv', NEW p \in Procs, Start(p)
    PROVE  StepOK /\ Followed'
<1>1. /\ ~shuttingDown /\ leader[p] = "none" /\ rec[p] = AbsentRecord
      /\ leader' = [leader EXCEPT ![p] = "running"]
      /\ groupAlive' = groupAlive \cup {p}
      /\ rec' = [rec EXCEPT ![p] = NewRecord]
      /\ registry' = registry \cup {p} /\ UNCHANGED <<ended, partial, kills, shuttingDown>>
      /\ rec \in [Procs -> Record] /\ registry \subseteq Procs
      /\ leader \in [Procs -> {"none", "nopid", "threw", "running"}
                                 \cup Codes \cup Signals]
  BY DEF Start, MayCall, NextId, PInv, IInv, TypeOK, RecordsFollowStarts, Started
<1>2. /\ \A q \in Procs \ {p} : rec'[q] = rec[q] /\ leader'[q] = leader[q]
      /\ rec'[p] = NewRecord /\ leader'[p] = "running"
  BY <1>1
<1>3. /\ rec[p].status = "absent" /\ rec'[p].status = "running"
      /\ Outcome(rec[p]) = "none" /\ Outcome(rec'[p]) = "none"
  BY <1>1, <1>2 DEF AbsentRecord, NewRecord, Outcome, Ended
<1>4. VerdictStep /\ FlushStep
  BY <1>1, <1>2, <1>3 DEF VerdictStep, FlushStep, IsFinished, Ended
<1>5. ReapStep
  <2>1. registry \cup {p} \in SUBSET Procs
    BY <1>1
  <2> QED
    BY <1>1, <2>1, ReapingStep DEF PInv
<1>6. Promised!Begins(p)
  <2>1. StatusOf' = [StatusOf EXCEPT ![p] = "running"] /\ StatusOf[p] = "absent"
    BY <1>2, <1>3 DEF StatusOf
  <2>2. OutcomeOf' = OutcomeOf
    BY <1>2, <1>3 DEF OutcomeOf
  <2> QED
    BY <1>1, <2>1, <2>2 DEF Promised!Begins, StatusOf, OutcomeOf
<1>7. PromisedStep
  BY <1>6 DEF PromisedStep, Promised!PromiseNext
<1>8. BornDeadStays' /\ OutputFollowsStarts'
  BY <1>1, <1>2 DEF PInv, BornDeadStays, OutputFollowsStarts, Started
<1>9. KillsFollowGroups'
  BY <1>1, <1>2 DEF PInv, IInv, RecordsFollowStarts, KillsFollowGroups, Started
<1> QED
  BY <1>4, <1>5, <1>7, <1>8, <1>9 DEF StepOK, Followed

(* A start without a pid is a process born dead. *)
LEMMA StartMissingPidPromise ==
    ASSUME PInv, IInv', NEW p \in Procs, StartMissingPid(p)
    PROVE  StepOK /\ Followed'
<1> DEFINE r == [NewRecord EXCEPT !.exitCode = "minus1", !.success = "false",
                                  !.endReason = "missing_pid",
                                  !.endTime = now, !.stdin = "released"]
<1>1. /\ ~shuttingDown /\ leader[p] = "none" /\ rec[p].status = "absent"
      /\ leader' = [leader EXCEPT ![p] = "nopid"]
      /\ transition(registry \cup {p}, p, r, "exited", logs \cup {p})
      /\ UNCHANGED <<groupAlive, partial, kills, shuttingDown>>
      /\ TypeOK /\ registry \cup {p} \in SUBSET Procs /\ now \in Nat
      /\ ended \in [Procs -> Nat]
      /\ leader \in [Procs -> {"none", "nopid", "threw", "running"}
                                 \cup Codes \cup Signals]
  BY DEF StartMissingPid, MayCall, NextId, PInv, IInv, TypeOK, RecordsFollowStarts,
         Started
<1>2. /\ r \in Record /\ r.status = "running" /\ r.success = "false"
      /\ r.endReason = "missing_pid"
  BY <1>1 DEF NewRecord, AbsentRecord, Record, LIVE_STATUSES
<1> HIDE DEF r
<1>3. /\ Moved(p, r, "exited") /\ ended' = [ended EXCEPT ![p] = @ + 1]
      /\ registry' = (registry \cup {p}) \ Reapable(registry \cup {p}, rec')
  <2>1. /\ "exited" \in LIVE_STATUSES \cup Ended /\ "exited" \in Ended
        /\ r.status # "exited"
    BY <1>2 DEF Ended
  <2>2. TypeOK /\ transition(registry \cup {p}, p, r, "exited", logs \cup {p})
    BY <1>1
  <2>3. registry \cup {p} \in SUBSET Procs /\ r \in Record
    BY <1>1, <1>2
  <2> QED
    BY <2>1, <2>2, <2>3, TransitionMoves
<1>4. /\ \A q \in Procs \ {p} : /\ rec'[q] = rec[q] /\ ended'[q] = ended[q]
                                /\ leader'[q] = leader[q]
      /\ rec'[p].status = "exited" /\ rec'[p].success = "false"
      /\ rec'[p].endReason = "missing_pid" /\ leader'[p] = "nopid"
  BY <1>1, <1>2, <1>3 DEF Moved
<1>5. VerdictStep /\ FlushStep
  BY <1>1, <1>4 DEF PInv, OutputFollowsStarts, Started, VerdictStep, FlushStep,
                    IsFinished, Ended
<1>6. ReapStep
  BY <1>1, <1>3, ReapingStep DEF PInv
<1>7. Outcome(rec'[p]) = "crash"
  BY <1>4 DEF Outcome, Ended
<1>8. EndsAs(p, "exited", "crash", registry \cup {p})
  BY <1>1, <1>3, <1>7, EndsPromised DEF Ended
<1>9. Promised!BornDead(p)
  <2>1. Promised!Fits("exited", "crash")
    BY DEF Promised!Fits, Promised!Outcomes
  <2>2. \A q \in registry \cup {p} : StatusOf'[q] = rec'[q].status
    BY <1>1 DEF StatusOf
  <2>3. \E forgotten \in SUBSET {q \in registry \cup {p} :
                                     StatusOf'[q] \in Promised!Finished} :
            registry' = (registry \cup {p}) \ forgotten
    BY <1>8, <2>2 DEF EndsAs, Promised!Finished, Ended
  <2>4. StatusOf[p] = "absent"
    BY <1>1 DEF StatusOf
  <2> QED
    BY <1>1, <1>8, <2>1, <2>3, <2>4
    DEF EndsAs, Promised!BornDead, Promised!Ends, StatusOf, OutcomeOf
<1>10. PromisedStep
  BY <1>9 DEF PromisedStep, Promised!PromiseNext
<1>11. BornDeadStays' /\ OutputFollowsStarts'
  BY <1>1, <1>4 DEF PInv, BornDeadStays, OutputFollowsStarts, Started
<1>12. KillsFollowGroups'
  BY <1>1, <1>4 DEF PInv, IInv, RecordsFollowStarts, KillsFollowGroups, Started
<1> QED
  BY <1>5, <1>6, <1>10, <1>11, <1>12 DEF StepOK, Followed

-----------------------------------------------------------------------------
(* Ends that are noticed *)

(* close ends what is not settled, and otherwise drops a handle. *)
LEMMA ClosePromise ==
    ASSUME PInv, IInv', NEW p \in Procs, Close(p)
    PROVE  StepOK /\ Followed'
<1>1. /\ leader[p] \in Codes \cup Signals /\ rec \in [Procs -> Record]
      /\ UNCHANGED <<leader, groupAlive, shuttingDown, kills>>
      /\ rec[p] \in Record /\ now \in Nat
  BY DEF Close, PInv, IInv, TypeOK
<1>2. Started(p) /\ leader[p] # "nopid"
  BY <1>1, LifecycleAssumption DEF Started
<1>3. CASE AlreadySettled(p)
  <2> DEFINE r == releaseRuntimeHandles(rec[p])
  <2>1. /\ rec' = [rec EXCEPT ![p] = r]
        /\ UNCHANGED <<registry, ended, partial>>
    BY <1>3 DEF Close, fileVars
  <2>2. /\ r.status = rec[p].status /\ r.success = rec[p].success
        /\ r.endReason = rec[p].endReason /\ r.exitCode = rec[p].exitCode
        /\ Verdict(r) = Verdict(rec[p])
    BY <1>1 DEF Record, releaseRuntimeHandles, Verdict
  <2> HIDE DEF r
  <2>3. /\ \A q \in Procs \ {p} : rec'[q] = rec[q]
        /\ rec'[p] = r /\ Outcome(r) = Outcome(rec[p])
    BY <1>1, <2>1, <2>2, SameOutcome
  <2>4. StepOK
    BY <1>1, <2>1, <2>2, <2>3, UnseenStep DEF PInv
  <2>5. Followed'
    BY <1>1, <1>2, <2>1, <2>3, FollowStep DEF Started
  <2> QED
    BY <2>4, <2>5
<1>4. CASE ~AlreadySettled(p)
  <2> DEFINE s == [releaseRuntimeHandles(rec[p]) EXCEPT
                      !.endTime = now, !.success = "false",
                      !.endReason = "signal", !.signal = leader[p]]
             x == [releaseRuntimeHandles(rec[p]) EXCEPT
                      !.endTime = now, !.exitCode = leader[p],
                      !.success = IF leader[p] = "zero" THEN "true"
                                  ELSE "false",
                      !.endReason = "exit", !.signal = "none"]
  <2>1. /\ partial' = FlushedPartial(p)
        /\ \/ /\ leader[p] \in Signals
              /\ transition(registry, p, s, "killed", FlushedLogs(p))
           \/ /\ leader[p] \notin Signals
              /\ transition(registry, p, x, "exited", FlushedLogs(p))
    BY <1>4 DEF Close
  <2>2. leader[p] \in Signals => s \in Record /\ s.status = rec[p].status
    BY <1>1 DEF Record, releaseRuntimeHandles
  <2>3. leader[p] \notin Signals =>
          /\ x \in Record /\ x.status = rec[p].status
          /\ x.success = "true" \/ Crashed(x)
    <3>1. SUFFICES ASSUME leader[p] \in Codes
                   PROVE  /\ x \in Record /\ x.status = rec[p].status
                          /\ x.success = "true" \/ Crashed(x)
      BY <1>1
    <3>2. PICK b \in {"true", "false"} :
              b = IF leader[p] = "zero" THEN "true" ELSE "false"
      OBVIOUS
    <3>3. x = [releaseRuntimeHandles(rec[p]) EXCEPT
                   !.endTime = now, !.exitCode = leader[p], !.success = b,
                   !.endReason = "exit", !.signal = "none"]
      BY <3>2
    <3> HIDE DEF x, s
    <3>4. x.status = rec[p].status /\ x.success = b /\ x.exitCode = leader[p]
      BY <1>1, <3>3 DEF Record, releaseRuntimeHandles
    <3>5. x \in Record
      BY <1>1, <3>1, <3>3 DEF Record, releaseRuntimeHandles
    <3>6. leader[p] \in {"zero", "nonzero"}
      BY <3>1, LifecycleAssumption
    <3> QED
      BY <3>2, <3>4, <3>5, <3>6 DEF Crashed
  <2> HIDE DEF s, x
  <2>4. PICK r \in Record, next \in Ended :
          /\ transition(registry, p, r, next, FlushedLogs(p))
          /\ r.status = rec[p].status
          /\ next = "exited" => r.success = "true" \/ Crashed(r)
    BY <2>1, <2>2, <2>3 DEF Ended
  <2>5. rec[p].status \in {"running", "terminating"}
    BY <1>2, <1>4 DEF PInv, IInv, DatesFollowEnds, RecordsFollowStarts, AlreadySettled
  <2> QED
    BY <1>1, <2>1, <2>4, <2>5, EndsStep
<1> QED
  BY <1>3, <1>4

(* error ends what is not settled as a crash. *)
LEMMA ChildErrorPromise ==
    ASSUME PInv, IInv', NEW p \in Procs, ChildError(p)
    PROVE  StepOK /\ Followed'
<1>1. /\ leader[p] \in {"running"} \cup Codes \cup Signals
      /\ UNCHANGED <<leader, groupAlive, shuttingDown, kills>>
      /\ rec[p] \in Record /\ now \in Nat
  BY DEF ChildError, PInv, IInv, TypeOK
<1>2. Started(p)
  BY <1>1, LifecycleAssumption DEF Started
<1>3. CASE AlreadySettled(p)
  <2>1. UNCHANGED <<recVars, partial>>
    BY <1>3 DEF ChildError
  <2>2. StepOK
    BY <1>1, <2>1, QuietPromise DEF recVars
  <2>3. Followed'
    BY <1>1, <2>1, FollowStep DEF recVars, Started
  <2> QED
    BY <2>2, <2>3
<1>4. CASE ~AlreadySettled(p)
  <2> DEFINE r == [releaseRuntimeHandles(rec[p]) EXCEPT
                       !.exitCode = "minus1", !.success = "false",
                       !.endReason = "spawn_error", !.endTime = now]
  <2>1. /\ partial' = FlushedPartial(p)
        /\ transition(registry, p, r, "exited", AppendedLogs(p))
    BY <1>4 DEF ChildError
  <2>2. /\ r.status = rec[p].status /\ r.success = "false"
        /\ r.endReason = "spawn_error" /\ r \in Record
    BY <1>1, ZenonT(60) DEF Record, releaseRuntimeHandles
  <2> HIDE DEF r
  <2>3. Crashed(r) /\ "exited" \in Ended
    BY <2>2 DEF Crashed, Ended
  <2>4. rec[p].status \in {"running", "terminating"}
    BY <1>2, <1>4 DEF PInv, IInv, DatesFollowEnds, RecordsFollowStarts, AlreadySettled
  <2> QED
    BY <1>1, <2>1, <2>2, <2>3, <2>4, EndsStep
<1> QED
  BY <1>3, <1>4

(* The tick ends what it finds without a group. *)
LEMMA TickVisitPromise ==
    ASSUME PInv, IInv', NEW p \in Procs, TickVisit(p)
    PROVE  StepOK /\ Followed'
<1>1. UNCHANGED <<osVars, shuttingDown, kills>> /\ rec[p] \in Record /\ now \in Nat
  BY DEF TickVisit, PInv, IInv, TypeOK
<1>2. CASE ~TickTouches(p)
  <2>1. UNCHANGED <<recVars, fileVars>>
    BY <1>2 DEF TickVisit
  <2>2. StepOK
    BY <1>1, <2>1, QuietPromise DEF recVars
  <2>3. Followed'
    BY <1>1, <2>1, FollowStep DEF recVars, fileVars, osVars, Started
  <2> QED
    BY <2>2, <2>3
<1>3. CASE TickTouches(p)
  <2> DEFINE sent == rec[p].lastSignalSent
             r == [releaseRuntimeHandles(rec[p]) EXCEPT
                      !.endTime = IF @ # Never THEN @ ELSE now,
                      !.success = "false", !.exitCode = "none",
                      !.endReason = "lost", !.signal = sent]
             next == IF sent # "none" THEN "killed" ELSE "exited"
  <2>1. /\ partial' = FlushedPartial(p)
        /\ transition(registry, p, r, next, FlushedLogs(p))
    BY <1>3 DEF TickVisit
  <2>2. rec[p].status \in {"running", "terminating"}
    BY <1>3 DEF TickTouches
  <2>3. PICK t \in Nat : t = IF rec[p].endTime # Never THEN rec[p].endTime ELSE now
    BY <1>1 DEF Record
  <2>4. r = [releaseRuntimeHandles(rec[p]) EXCEPT
                 !.endTime = t, !.success = "false", !.exitCode = "none",
                 !.endReason = "lost", !.signal = sent]
    BY <1>1, <2>3 DEF releaseRuntimeHandles, Record
  <2> HIDE DEF r
  <2>5. /\ r.status = rec[p].status /\ r.success = "false" /\ r.endReason = "lost"
        /\ r \in Record
    BY <1>1, <2>4 DEF Record, releaseRuntimeHandles
  <2>6. Crashed(r) /\ next \in Ended
    BY <2>5 DEF Crashed, Ended
  <2> HIDE DEF next, sent
  <2> QED
    BY <1>1, <2>1, <2>2, <2>5, <2>6, EndsStep DEF osVars
<1> QED
  BY <1>2, <1>3

-----------------------------------------------------------------------------
(* kill() *)

Called(k, pc, p, s, res) ==
    kills' = [kills EXCEPT ![k] = [pc |-> pc, target |-> p, signal |-> s,
                                   result |-> res]]

(* The promise sees what becomes of a call, without its signal. *)
LEMMA CallsMap ==
    ASSUME TypeOK, NEW k \in Kills, NEW pc, NEW p, NEW s, NEW res,
           Called(k, pc, p, s, res)
    PROVE  /\ CallsOf' = [CallsOf EXCEPT ![k] = [pc |-> pc, target |-> p,
                                                 result |-> res]]
           /\ kills'[k].pc = pc /\ kills'[k].target = p /\ kills'[k].result = res
           /\ \A j \in Kills \ {k} : kills'[j] = kills[j]
           /\ CallsOf[k].pc = kills[k].pc /\ CallsOf[k].target = kills[k].target
<1>1. /\ kills'[k] = [pc |-> pc, target |-> p, signal |-> s, result |-> res]
      /\ \A j \in Kills \ {k} : kills'[j] = kills[j]
  BY DEF TypeOK, Called
<1>2. kills'[k].pc = pc /\ kills'[k].target = p /\ kills'[k].result = res
  BY <1>1
<1>3. CallsOf' = [CallsOf EXCEPT ![k] = [pc |-> pc, target |-> p, result |-> res]]
  BY <1>1, <1>2 DEF CallsOf
<1> QED
  BY <1>1, <1>2, <1>3 DEF CallsOf

(* A group that is there has not vanished. *)
LEMMA AliveIsNotVanished ==
    ASSUME PInv, NEW p \in groupAlive
    PROVE  ~ Promised!Vanished(p)
<1>1. \A k \in Kills : /\ CallsOf[k].target = kills[k].target
                       /\ CallsOf[k].result = kills[k].result
  BY DEF CallsOf
<1> QED
  BY <1>1 DEF PInv, KillsFollowGroups, Promised!Vanished, CallsOf

(* A kill with nothing to stop answers at once. *)
LEMMA KillNothingPromise ==
    ASSUME PInv, IInv', NEW k \in Kills, NEW p \in Procs, NEW s \in Signals,
           KillNothing(k, p, s)
    PROVE  StepOK /\ Followed'
<1> DEFINE res == IF p \in registry THEN "ok" ELSE "not_found"
<1>1. /\ ~shuttingDown /\ kills[k].pc = "idle"
      /\ ~ (p \in registry /\ rec[p].status \in LIVE_STATUSES)
      /\ Called(k, "done", p, s, res)
      /\ UNCHANGED <<osVars, recVars, fileVars, shuttingDown>> /\ TypeOK
  BY DEF Called, KillNothing, MayCall, IsLive, Return, PInv, IInv
<1>2. res \in {"ok", "not_found"}
  OBVIOUS
<1> HIDE DEF res
<1>3. /\ CallsOf' = [CallsOf EXCEPT ![k] = [pc |-> "done", target |-> p,
                                            result |-> res]]
      /\ kills'[k].pc = "done" /\ kills'[k].result = res
      /\ \A j \in Kills \ {k} : kills'[j] = kills[j]
      /\ CallsOf[k].pc = "idle"
  BY <1>1, CallsMap
<1>4. VerdictStep /\ FlushStep
  BY <1>1 DEF recVars, VerdictStep, FlushStep
<1>5. ReapStep
  BY <1>1, ReapingStep DEF recVars, PInv, TypeOK
<1>6. StatusOf[p] = rec[p].status /\ StatusOf' = StatusOf /\ OutcomeOf' = OutcomeOf
  BY <1>1 DEF StatusOf, OutcomeOf, recVars
<1>7. Promised!Refused(k, p)
  BY <1>1, <1>3, <1>6
  DEF recVars, res, Promised!Refused, Promised!IsKnownLive, Promised!Live,
      LIVE_STATUSES, Promised!Answer, StatusOf, OutcomeOf, CallsOf
<1>8. PromisedStep
  BY <1>7 DEF PromisedStep, Promised!PromiseNext
<1>9. Followed'
  BY <1>1, <1>2, <1>3, FollowStep DEF recVars, fileVars, osVars, Started
<1> QED
  BY <1>4, <1>5, <1>8, <1>9 DEF StepOK

(* A kill of a live process waits if its group is there, and fails if not. *)
LEMMA KillCallPromise ==
    ASSUME PInv, IInv', NEW k \in Kills, NEW p \in Procs, NEW s \in Signals,
           KillCall(k, p, s)
    PROVE  StepOK /\ Followed'
<1>1. /\ ~shuttingDown /\ kills[k].pc = "idle" /\ p \in registry
      /\ rec[p].status \in LIVE_STATUSES /\ rec[p] \in Record
      /\ UNCHANGED <<osVars, partial, shuttingDown>>
      /\ TypeOK /\ registry \in SUBSET Procs
  BY DEF KillCall, MayCall, IsLive, PInv, IInv, TypeOK
<1>2. Started(p) /\ leader[p] # "nopid"
  BY <1>1 DEF PInv, IInv, RecordsFollowStarts, BornDeadStays, LIVE_STATUSES
<1>3. PICK r \in Record : transition(registry, p, r, "terminating", logs)
  <2>1. [rec[p] EXCEPT !.lastSignalSent = s] \in Record
    BY <1>1 DEF Record
  <2> QED
    BY <1>1, <2>1 DEF KillCall
<1>4. "terminating" \in LIVE_STATUSES /\ "terminating" \notin Ended
  BY DEF LIVE_STATUSES, Ended
<1>5. Moved(p, r, "terminating") /\ ended' = ended /\ registry' = registry
  BY <1>1, <1>3, <1>4, TransitionMoves
<1>6. \A q \in Procs \ {p} : rec'[q] = rec[q]
  BY <1>5 DEF Moved
<1>7. VerdictStep /\ FlushStep
  BY <1>1, <1>5, <1>6 DEF VerdictStep, FlushStep, IsFinished, LIVE_STATUSES, Ended
<1>8. ReapStep
  BY <1>1, <1>5, ReapingStep DEF PInv
<1>9. Promised!Becomes(p, "terminating")
  BY <1>1, <1>4, <1>5, BecomesPromised
<1>10. Promised!IsKnownLive(p)
  BY <1>1 DEF Promised!IsKnownLive, Promised!Live, LIVE_STATUSES
<1>11. CASE p \in groupAlive
  <2>1. Called(k, "waiting", p, s, "none") /\ ~ Promised!Vanished(p)
    BY <1>11, AliveIsNotVanished DEF KillCall, Called
  <2>2. /\ CallsOf' = [CallsOf EXCEPT ![k] = [pc |-> "waiting", target |-> p,
                                              result |-> "none"]]
        /\ kills'[k].target = p /\ kills'[k].result = "none"
        /\ \A j \in Kills \ {k} : kills'[j] = kills[j]
        /\ CallsOf[k].pc = "idle"
    BY <1>1, <2>1, CallsMap
  <2>3. Promised!Accepted(k, p)
    BY <1>1, <1>9, <1>10, <2>1, <2>2 DEF Promised!Accepted, CallsOf
  <2>4. PromisedStep
    BY <2>3 DEF PromisedStep, Promised!PromiseNext
  <2>5. Followed'
    BY <1>1, <1>2, <1>6, <2>2, FollowStep DEF osVars, Started
  <2> QED
    BY <1>7, <1>8, <2>4, <2>5 DEF StepOK
<1>12. CASE p \notin groupAlive
  <2>1. Called(k, "done", p, s, "error")
    BY <1>12 DEF KillCall, Return, Called
  <2>2. /\ CallsOf' = [CallsOf EXCEPT ![k] = [pc |-> "done", target |-> p,
                                              result |-> "error"]]
        /\ kills'[k].target = p /\ kills'[k].pc = "done"
        /\ \A j \in Kills \ {k} : kills'[j] = kills[j]
        /\ CallsOf[k].pc = "idle"
    BY <1>1, <2>1, CallsMap
  <2>3. Promised!Failed(k, p)
    BY <1>1, <1>9, <1>10, <2>2 DEF Promised!Failed, Promised!Answer, CallsOf
  <2>4. PromisedStep
    BY <2>3 DEF PromisedStep, Promised!PromiseNext
  <2>5. Followed'
    BY <1>1, <1>2, <1>6, <1>12, <2>2, FollowStep DEF osVars, Started
  <2> QED
    BY <1>7, <1>8, <2>4, <2>5 DEF StepOK
<1> QED
  BY <1>11, <1>12

(* What a waiting call leaves behind when it returns. *)
LEMMA ReturnMaps ==
    ASSUME PInv, NEW k \in Kills, NEW p, p = kills[k].target,
           kills[k].pc = "waiting", NEW res \in {"ok", "timeout"},
           Return(k, p, kills[k].signal, res)
    PROVE  /\ p \in Procs /\ Started(p) /\ leader[p] # "nopid"
           /\ rec[p] \in Record /\ kills[k].signal \in Signals \cup {"none"}
           /\ CallsOf' = [CallsOf EXCEPT ![k] = [pc |-> "done", target |-> p,
                                                 result |-> res]]
           /\ CallsOf[k].pc = "waiting" /\ CallsOf[k].target = p
           /\ kills'[k].pc = "done" /\ kills'[k].result = res
           /\ \A j \in Kills \ {k} : kills'[j] = kills[j]
<1>1. TypeOK /\ p \in Procs /\ Started(p) /\ leader[p] # "nopid"
  BY DEF PInv, IInv, RecordsFollowStarts, KillsFollowGroups
<1>2. rec[p] \in Record /\ kills[k].signal \in Signals \cup {"none"}
  BY <1>1 DEF TypeOK, Kill
<1>3. Called(k, "done", p, kills[k].signal, res)
  BY DEF Return, Called
<1> QED
  BY <1>1, <1>2, <1>3, CallsMap

(* A kill that finds the group there has timed out. *)
LEMMA KillTimesOutPromise ==
    ASSUME PInv, IInv', NEW k \in Kills, KillTimesOut(k)
    PROVE  StepOK /\ Followed'
<1>1. PICK p : p = kills[k].target
  OBVIOUS
<1> DEFINE r == [rec[p] EXCEPT !.endReason = "kill_timeout",
                               !.signal = kills[k].signal,
                               !.success = "false", !.endTime = now]
<1>2. /\ kills[k].pc = "waiting" /\ p \in groupAlive
      /\ transition(registry, p, r, "terminate_timeout", logs)
      /\ Return(k, p, kills[k].signal, "timeout")
      /\ UNCHANGED <<osVars, partial, shuttingDown>>
  BY <1>1 DEF KillTimesOut
<1>3. /\ p \in Procs /\ Started(p) /\ leader[p] # "nopid" /\ rec[p] \in Record
      /\ kills[k].signal \in Signals \cup {"none"}
      /\ CallsOf' = [CallsOf EXCEPT ![k] = [pc |-> "done", target |-> p,
                                            result |-> "timeout"]]
      /\ CallsOf[k].pc = "waiting" /\ CallsOf[k].target = p
      /\ kills'[k].pc = "done" /\ kills'[k].result = "timeout"
      /\ \A j \in Kills \ {k} : kills'[j] = kills[j]
  BY <1>1, <1>2, ReturnMaps
<1>4. TypeOK /\ registry \in SUBSET Procs /\ now \in Nat
  BY DEF PInv, IInv, TypeOK
<1>5. r \in Record
  <2>1. rec[p] \in Record /\ kills[k].signal \in Signals \cup {"none"} /\ now \in Nat
    BY <1>3, <1>4
  <2> QED
    BY <2>1, ZenonT(60) DEF Record
<1> HIDE DEF r
<1>6. "terminate_timeout" \in LIVE_STATUSES /\ "terminate_timeout" \notin Ended
  BY DEF LIVE_STATUSES, Ended
<1>7. Moved(p, r, "terminate_timeout") /\ ended' = ended /\ registry' = registry
  BY <1>2, <1>3, <1>4, <1>5, <1>6, TransitionMoves
<1>8. \A q \in Procs \ {p} : rec'[q] = rec[q]
  BY <1>7 DEF Moved
<1>9. VerdictStep /\ FlushStep
  BY <1>1, <1>2, <1>3, <1>7, <1>8 DEF VerdictStep, FlushStep
<1>10. ReapStep
  BY <1>4, <1>7, ReapingStep DEF PInv
<1>11. Promised!Becomes(p, "terminate_timeout")
  BY <1>3, <1>4, <1>6, <1>7, BecomesPromised
<1>12. ~ Promised!Vanished(p)
  BY <1>2, AliveIsNotVanished
<1>13. Promised!TimesOut(k)
  BY <1>2, <1>3, <1>11, <1>12 DEF Promised!TimesOut, Promised!Answer, CallsOf
<1>14. PromisedStep
  BY <1>13 DEF PromisedStep, Promised!PromiseNext
<1>15. Followed'
  BY <1>2, <1>3, <1>8, FollowStep DEF osVars, Started
<1> QED
  BY <1>9, <1>10, <1>14, <1>15 DEF StepOK

(* A kill that finds the group gone ends the record, unless another kill has
   ended it as killed already. *)
LEMMA KillSucceedsPromise ==
    ASSUME PInv, IInv', NEW k \in Kills, KillSucceeds(k)
    PROVE  StepOK /\ Followed'
<1>1. PICK p : p = kills[k].target
  OBVIOUS
<1> DEFINE dated == IF AlreadySettled(p) THEN rec[p]
                    ELSE [rec[p] EXCEPT !.endTime = now, !.exitCode = "none",
                                        !.success = "false"]
           sent == rec[p].lastSignalSent
           r == [releaseRuntimeHandles(dated) EXCEPT
                    !.endReason = IF sent # "none" THEN "signal" ELSE "lost",
                    !.signal = sent]
<1>2. /\ kills[k].pc = "waiting" /\ p \notin groupAlive
      /\ partial' = FlushedPartial(p)
      /\ transition(registry, p, r, "killed", FlushedLogs(p))
      /\ Return(k, p, kills[k].signal, "ok")
      /\ UNCHANGED <<osVars, shuttingDown>>
  BY <1>1 DEF KillSucceeds
<1>3. /\ p \in Procs /\ Started(p) /\ leader[p] # "nopid" /\ rec[p] \in Record
      /\ CallsOf' = [CallsOf EXCEPT ![k] = [pc |-> "done", target |-> p,
                                            result |-> "ok"]]
      /\ CallsOf[k].pc = "waiting" /\ CallsOf[k].target = p
      /\ kills'[k].pc = "done" /\ kills'[k].result = "ok"
      /\ \A j \in Kills \ {k} : kills'[j] = kills[j]
  BY <1>1, <1>2, ReturnMaps
<1>4. /\ TypeOK /\ registry \in SUBSET Procs /\ now \in Nat
      /\ rec \in [Procs -> Record] /\ ended \in [Procs -> Nat]
  BY DEF PInv, IInv, TypeOK
<1>5. r \in Record /\ r.status = rec[p].status
  <2>1. rec[p] \in Record /\ now \in Nat
    BY <1>3, <1>4
  <2>2. dated \in Record /\ dated.status = rec[p].status
    <3> DEFINE d == [rec[p] EXCEPT !.endTime = now, !.exitCode = "none",
                                   !.success = "false"]
    <3>1. d \in Record /\ d.status = rec[p].status
      BY <2>1, ZenonT(60) DEF Record
    <3>2. dated = rec[p] \/ dated = d
      OBVIOUS
    <3> HIDE DEF d, dated
    <3> QED
      BY <2>1, <3>1, <3>2
  <2>3. sent \in Signals \cup {"none"}
    BY <2>1 DEF Record
  <2>4. PICK why \in {"signal", "lost"} :
            why = IF sent # "none" THEN "signal" ELSE "lost"
    OBVIOUS
  <2> HIDE DEF dated, sent
  <2>5. r = [releaseRuntimeHandles(dated) EXCEPT !.endReason = why, !.signal = sent]
    BY <2>4
  <2> HIDE DEF r
  <2> QED
    BY <2>2, <2>3, <2>5 DEF Record, releaseRuntimeHandles
<1> HIDE DEF r
<1>6. "killed" \in Ended /\ "killed" \in LIVE_STATUSES \cup Ended
  BY DEF Ended
<1>7. /\ Moved(p, r, "killed")
      /\ rec[p].status # "killed" => /\ ended' = [ended EXCEPT ![p] = @ + 1]
                                     /\ registry' = registry \ Reapable(registry, rec')
      /\ rec[p].status = "killed" => ended' = ended /\ registry' = registry
  <2>1. TypeOK /\ registry \in SUBSET Procs /\ p \in Procs /\ r \in Record
    BY <1>3, <1>4, <1>5
  <2>2. transition(registry, p, r, "killed", FlushedLogs(p))
    BY <1>2
  <2>3. /\ Moved(p, r, "killed")
        /\ "killed" \in Ended /\ r.status # "killed" =>
              /\ ended' = [ended EXCEPT ![p] = @ + 1]
              /\ registry' = registry \ Reapable(registry, rec')
        /\ ~ ("killed" \in Ended /\ r.status # "killed") =>
              ended' = ended /\ registry' = registry
    BY <1>6, <2>1, <2>2, TransitionMoves
  <2> QED
    BY <1>5, <1>6, <2>3
<1>8. /\ \A q \in Procs \ {p} : rec'[q] = rec[q] /\ ended'[q] = ended[q]
      /\ rec'[p].status = "killed"
      /\ registry' = registry \/ registry' = registry \ Reapable(registry, rec')
  BY <1>4, <1>7 DEF Moved
<1>9. VerdictStep /\ FlushStep
  BY <1>1, <1>2, <1>3, <1>8 DEF VerdictStep, FlushStep, FlushedPartial
<1>10. ReapStep
  BY <1>4, <1>8, ReapingStep DEF PInv
<1>11. Outcome(rec'[p]) = "killed"
  BY <1>8, Judgement
<1>12. Promised!Succeeds(k)
  <2>1. StatusOf[p] = rec[p].status
    BY <1>3 DEF StatusOf
  <2>2. CASE rec[p].status = "killed"
    <3>1. ended' = ended /\ registry' = registry
      BY <1>7, <2>2
    <3>2. Outcome(rec[p]) = "killed"
      BY <2>2, Judgement
    <3>3. StatusOf' = StatusOf /\ OutcomeOf' = OutcomeOf
      BY <1>8, <1>11, <2>2, <3>2 DEF StatusOf, OutcomeOf
    <3> QED
      BY <1>2, <1>3, <2>1, <2>2, <3>1, <3>3
      DEF Promised!Succeeds, Promised!Answer, CallsOf, StatusOf, OutcomeOf
  <2>3. CASE rec[p].status # "killed"
    <3>1. /\ ended' = [ended EXCEPT ![p] = @ + 1]
          /\ registry' = registry \ Reapable(registry, rec')
      BY <1>7, <2>3
    <3>2. EndsAs(p, "killed", "killed", registry)
      BY <1>3, <1>4, <1>6, <1>7, <1>11, <3>1, EndsPromised
    <3>3. Promised!Fits("killed", "killed")
      BY DEF Promised!Fits, Promised!Outcomes
    <3>4. \A q \in registry : StatusOf'[q] = rec'[q].status
      BY <1>4 DEF StatusOf
    <3>5. \E forgotten \in SUBSET {q \in registry : StatusOf'[q] \in Promised!Finished} :
              registry' = registry \ forgotten
      BY <3>2, <3>4 DEF EndsAs, Promised!Finished, Ended
    <3> QED
      BY <1>2, <1>3, <2>1, <2>3, <3>2, <3>3, <3>5
      DEF EndsAs, Promised!Succeeds, Promised!Ends, Promised!Answer, CallsOf,
          StatusOf, OutcomeOf
  <2> QED
    BY <2>2, <2>3
<1>13. PromisedStep
  BY <1>12 DEF PromisedStep, Promised!PromiseNext
<1>14. Followed'
  BY <1>2, <1>3, <1>8, FollowStep DEF osVars, Started, FlushedPartial
<1> QED
  BY <1>9, <1>10, <1>13, <1>14 DEF StepOK

-----------------------------------------------------------------------------
(* Forgetting *)

(* What clear and the reap timer take away, the promise may forget. *)
LEMMA Forgetting ==
    ASSUME PInv, IInv', NEW gone \in SUBSET registry, registry' = registry \ gone,
           \A p \in gone : rec[p].status \in Ended, ReapStep,
           UNCHANGED <<osVars, rec, ended, partial, kills, shuttingDown>>
    PROVE  StepOK /\ Followed'
<1>1. VerdictStep /\ FlushStep
  BY DEF VerdictStep, FlushStep
<1>2. registry \in SUBSET Procs
  BY DEF PInv, IInv, TypeOK
<1>3. PromisedStep
  <2>1. CASE gone = {}
    BY <2>1 DEF PromisedStep, Promised!managerVars
  <2>2. CASE gone # {}
    <3>1. \A p \in gone : StatusOf[p] \in Promised!Finished
      BY <1>2 DEF StatusOf, Promised!Finished, Ended
    <3>2. Promised!Forgets(gone)
      BY <2>2, <3>1 DEF Promised!Forgets, StatusOf
    <3> QED
      BY <3>2 DEF PromisedStep, Promised!PromiseNext
  <2> QED
    BY <2>1, <2>2
<1>4. Followed'
  BY FollowStep DEF osVars, Started
<1> QED
  BY <1>1, <1>3, <1>4 DEF StepOK

(* The user's clear. *)
LEMMA ClearPromise ==
    ASSUME PInv, IInv', clearFinished
    PROVE  StepOK /\ Followed'
<1>1. PICK gone \in SUBSET registry :
          /\ gone = Clearable /\ registry' = registry \ gone
          /\ UNCHANGED <<osVars, rec, ended, partial, kills, shuttingDown>>
  BY DEF clearFinished, Clearable
<1>2. \A p \in gone : rec[p].status \in Ended
  <2>1. \A p \in registry : /\ rec[p].status # "absent"
                            /\ rec[p].status \in {"absent"} \cup LIVE_STATUSES \cup Ended
    BY DEF PInv, IInv, TypeOK, Record, RecordsFollowStarts
  <2> QED
    BY <1>1, <2>1 DEF Clearable, IsLive
<1>3. ReapStep
  BY DEF ReapStep
<1> QED
  BY <1>1, <1>2, <1>3, Forgetting

(* The reap timer. *)
LEMMA ReapTimerPromise ==
    ASSUME PInv, IInv', ReapTimerFires
    PROVE  StepOK /\ Followed'
<1>1. PICK gone \in SUBSET registry :
          /\ gone = Reapable(registry, rec) /\ registry' = registry \ gone
          /\ UNCHANGED <<osVars, rec, ended, partial, kills, shuttingDown>>
  BY DEF ReapTimerFires, Reapable, FinishedIn
<1>2. \A p \in gone : rec[p].status \in Ended
  BY <1>1 DEF Reapable, FinishedIn
<1>3. ReapStep
  <2>1. registry \in SUBSET Procs /\ Reapable(registry, rec') = gone
    BY <1>1 DEF PInv, IInv, TypeOK
  <2> QED
    BY <1>1, <2>1, ReapingStep DEF PInv
<1> QED
  BY <1>1, <1>2, <1>3, Forgetting

(* The end of the session. *)
LEMMA CleanupPromise ==
    ASSUME PInv, IInv', Cleanup
    PROVE  StepOK /\ Followed'
<1>1. /\ ~shuttingDown /\ shuttingDown'
      /\ UNCHANGED <<osVars, recVars, partial, kills>>
  BY DEF Cleanup, MayCall
<1>2. VerdictStep /\ FlushStep
  BY <1>1 DEF VerdictStep, FlushStep, recVars
<1>3. ReapStep
  BY <1>1, ReapingStep DEF PInv, IInv, TypeOK, recVars
<1>4. shuttingDown' = TRUE
  BY DEF Cleanup
<1>5. Promised!Shutdown
  BY <1>1, <1>4 DEF Promised!Shutdown, recVars
<1>6. PromisedStep
  BY <1>5 DEF PromisedStep, Promised!PromiseNext
<1>7. Followed'
  BY <1>1, FollowStep DEF osVars, recVars, Started
<1> QED
  BY <1>2, <1>3, <1>6, <1>7 DEF StepOK

-----------------------------------------------------------------------------
(* Every step *)

(* The promise forgets finished processes only. *)
LEMMA PromiseForgets ==
    ASSUME PromisedStep, TypeOK, TypeOK', NEW p \in registry \ registry'
    PROVE  rec'[p].status \in Ended
<1>1. p \in Procs /\ StatusOf[p] = rec[p].status /\ StatusOf'[p] = rec'[p].status
  BY DEF TypeOK, StatusOf
<1>2. StatusOf'[p] \in Promised!Finished
  <2>1. ASSUME NEW q \in Procs, Promised!Begins(q) PROVE FALSE
    BY <2>1 DEF Promised!Begins
  <2>2. ASSUME NEW q \in Procs, Promised!BornDead(q)
        PROVE  StatusOf'[p] \in Promised!Finished
    BY <2>2 DEF Promised!BornDead, Promised!Ends, StatusOf
  <2>3. ASSUME NEW q \in Procs, NEW st, NEW o, Promised!Finishes(q, st, o)
        PROVE  StatusOf'[p] \in Promised!Finished
    BY <2>3 DEF Promised!Finishes, Promised!Ends, StatusOf
  <2>4. ASSUME NEW q \in Procs, NEW k \in Kills,
               Promised!Refused(k, q) \/ Promised!Failed(k, q) \/ Promised!Accepted(k, q)
        PROVE  FALSE
    BY <2>4 DEF Promised!Refused, Promised!Failed, Promised!Accepted, Promised!Becomes
  <2>5. ASSUME NEW k \in Kills, Promised!TimesOut(k) PROVE FALSE
    BY <2>5 DEF Promised!TimesOut, Promised!Becomes
  <2>6. ASSUME NEW k \in Kills, Promised!Succeeds(k)
        PROVE  StatusOf'[p] \in Promised!Finished
    BY <2>6 DEF Promised!Succeeds, Promised!Ends, StatusOf
  <2>7. ASSUME NEW gone \in SUBSET registry, Promised!Forgets(gone)
        PROVE  StatusOf'[p] \in Promised!Finished
    BY <2>7, <1>1 DEF Promised!Forgets, StatusOf
  <2>8. ASSUME Promised!Shutdown \/ UNCHANGED Promised!managerVars PROVE FALSE
    BY <2>8 DEF Promised!Shutdown, Promised!managerVars
  <2> QED
    BY <2>1, <2>2, <2>3, <2>4, <2>5, <2>6, <2>7, <2>8
    DEF PromisedStep, Promised!PromiseNext
<1> QED
  BY <1>1, <1>2 DEF Promised!Finished, Ended

(* What is to be shown holds of every step from a state of the invariant. *)
LEMMA EveryStep ==
    ASSUME PInv, [Next]_vars
    PROVE  StepOK /\ PInv'
<1>1. IInv'
  BY NextInv DEF PInv
<1> SUFFICES StepOK /\ Followed'
  BY <1>1 DEF PInv, Followed
<1>2. ASSUME NEW p \in Procs, LeaderExits(p) \/ GroupDies(p) PROVE StepOK /\ Followed'
  BY <1>1, <1>2, OSPromise
<1>3. ASSUME NEW p \in Procs, Start(p) PROVE StepOK /\ Followed'
  BY <1>1, <1>3, StartPromise
<1>4. ASSUME NEW p \in Procs, StartMissingPid(p) PROVE StepOK /\ Followed'
  BY <1>1, <1>4, StartMissingPidPromise
<1>5. ASSUME NEW p \in Procs, StartThrows(p) PROVE StepOK /\ Followed'
  BY <1>1, <1>5, StartThrowsPromise
<1>6. ASSUME NEW p \in Procs, LateSpawnError(p) PROVE StepOK /\ Followed'
  BY <1>1, <1>6, LateSpawnErrorPromise
<1>7. ASSUME NEW p \in Procs, Data(p) PROVE StepOK /\ Followed'
  BY <1>1, <1>7, DataPromise
<1>8. ASSUME NEW p \in Procs, Close(p) PROVE StepOK /\ Followed'
  BY <1>1, <1>8, ClosePromise
<1>9. ASSUME NEW p \in Procs, ChildError(p) PROVE StepOK /\ Followed'
  BY <1>1, <1>9, ChildErrorPromise
<1>10. ASSUME NEW p \in Procs, EndStdin(p) PROVE StepOK /\ Followed'
  BY <1>1, <1>10, EndStdinPromise
<1>11. ASSUME NEW p \in Procs, TickVisit(p) PROVE StepOK /\ Followed'
  BY <1>1, <1>11, TickVisitPromise
<1>12. ASSUME NEW k \in Kills, NEW p \in Procs, NEW s \in Signals, KillNothing(k, p, s)
       PROVE  StepOK /\ Followed'
  BY <1>1, <1>12, KillNothingPromise
<1>13. ASSUME NEW k \in Kills, NEW p \in Procs, NEW s \in Signals, KillCall(k, p, s)
       PROVE  StepOK /\ Followed'
  BY <1>1, <1>13, KillCallPromise
<1>14. ASSUME NEW k \in Kills, KillTimesOut(k) PROVE StepOK /\ Followed'
  BY <1>1, <1>14, KillTimesOutPromise
<1>15. ASSUME NEW k \in Kills, KillSucceeds(k) PROVE StepOK /\ Followed'
  BY <1>1, <1>15, KillSucceedsPromise
<1>16. CASE Tick \/ Tock \/ UNCHANGED vars
  BY <1>1, <1>16, ClockPromise
<1>17. CASE clearFinished
  BY <1>1, <1>17, ClearPromise
<1>18. CASE ReapTimerFires
  BY <1>1, <1>18, ReapTimerPromise
<1>19. CASE Cleanup
  BY <1>1, <1>19, CleanupPromise
<1> QED
  BY <1>2, <1>3, <1>4, <1>5, <1>6, <1>7, <1>8, <1>9, <1>10, <1>11, <1>12, <1>13,
     <1>14, <1>15, <1>16, <1>17, <1>18, <1>19 DEF Next

(* Nothing was started in the beginning. *)
LEMMA InitPromise == Init => PInv /\ Promised!PromiseInit
<1> SUFFICES ASSUME Init PROVE PInv /\ Promised!PromiseInit
  OBVIOUS
<1>1. BornDeadStays /\ KillsFollowGroups /\ OutputFollowsStarts
  BY DEF Init, BornDeadStays, KillsFollowGroups, OutputFollowsStarts, IdleKill
<1>2. \A p \in Procs : rec[p].status = "absent" /\ Outcome(rec[p]) = "none"
  BY DEF Init, AbsentRecord, Outcome, Ended
<1>3. StatusOf = [p \in Procs |-> "absent"] /\ OutcomeOf = [p \in Procs |-> "none"]
  BY <1>2 DEF StatusOf, OutcomeOf
<1>4. CallsOf = [k \in Kills |-> [pc |-> "idle", target |-> 0, result |-> "none"]]
  BY DEF Init, IdleKill, CallsOf
<1>5. registry = {} /\ shuttingDown = FALSE /\ ended = [p \in Procs |-> 0]
  BY DEF Init
<1>6. Promised!PromiseInit
  BY <1>3, <1>4, <1>5
  DEF Promised!PromiseInit, Promised!NoCall, StatusOf, OutcomeOf, CallsOf
<1> QED
  BY <1>1, <1>6, InitInv DEF PInv

-----------------------------------------------------------------------------
(* For every value of the constants *)

(* What follows the groups, beside the invariant of ProcessLifecycleProofs. *)
THEOREM GroupsFollowed == Spec => []PInv
<1>1. Init => PInv
  BY InitPromise
<1>2. PInv /\ [Next]_vars => PInv'
  BY EveryStep
<1> QED
  BY <1>1, <1>2, PTL DEF Spec

(* The controller implements ManagerPromise: no step of the operating system,
   of a timer or of a caller shows a listener anything the promise rules out. *)
THEOREM Implements == Spec => KeepsPromise
<1>1. Init => Promised!PromiseInit
  BY InitPromise
<1>2. PInv /\ [Next]_vars => [Promised!PromiseNext]_(Promised!managerVars)
  BY EveryStep DEF StepOK, PromisedStep
<1> QED
  BY <1>1, <1>2, GroupsFollowed, PTL DEF Spec, KeepsPromise, Promised!Promise

(* What a finished record says of its end stands until a kill that was waiting
   on the process resolves. *)
THEOREM VerdictsStand == Spec => VerdictStands
<1>1. PInv /\ [Next]_vars =>
          [\A p \in Procs :
              IsFinished(p) /\ Verdict(rec'[p]) # Verdict(rec[p])
                  => \E k \in Kills : /\ kills[k].pc = "waiting"
                                      /\ kills'[k].pc = "done"
                                      /\ kills[k].target = p]_vars
  BY EveryStep DEF StepOK, VerdictStep
<1> QED
  BY <1>1, GroupsFollowed, PTL DEF Spec, VerdictStands

(* The last, unterminated line goes out before process_ended does. *)
THEOREM LastLineBeforeEnd == Spec => FlushedBeforeEnded
<1>1. PInv /\ [Next]_vars => [\A p \in Procs : ended'[p] # ended[p] => p \notin partial']_vars
  BY EveryStep DEF StepOK, FlushStep
<1> QED
  BY <1>1, GroupsFollowed, PTL DEF Spec, FlushedBeforeEnded

(* Retention forgets the oldest only, after their grace, and no more of them
   than exceed the limit. *)
THEOREM RetentionKeepsNewest == Spec => ReapKeepsNewest
<1>1. PInv /\ [Next]_vars =>
          [LET before == FinishedIn(registry, rec')
               after  == FinishedIn(registry', rec')
           IN  before \ after # {} /\ ~clearFinished =>
                   /\ Cardinality(after) >= MaxFinished
                   /\ \A p \in before \ after :
                          /\ rec'[p].endTime + Grace <= now
                          /\ \A q \in after : Older(rec', p, q)]_vars
  BY EveryStep DEF StepOK, ReapStep
<1> QED
  BY <1>1, GroupsFollowed, PTL DEF Spec, ReapKeepsNewest

(* The registry never forgets a process it does not know to be finished. *)
THEOREM OnlyFinishedForgotten == Spec => ForgetsOnlyFinished
<1>1. PInv /\ [Next]_vars => [\A p \in registry \ registry' : rec'[p].status \in Ended]_vars
  <2> SUFFICES ASSUME PInv, [Next]_vars, NEW p \in registry \ registry'
               PROVE  rec'[p].status \in Ended
    OBVIOUS
  <2>1. PromisedStep /\ TypeOK /\ TypeOK'
    BY EveryStep DEF StepOK, PInv, IInv
  <2> QED
    BY <2>1, PromiseForgets
<1> QED
  BY <1>1, GroupsFollowed, PTL DEF Spec, ForgetsOnlyFinished
===============================================================================
