-------------------------- MODULE ProcessLifecycle --------------------------
(***************************************************************************)
(* The process manager's runtime controller and registry                   *)
(* (src/manager/process-runtime-controller.ts, process-registry.ts): how a *)
(* child process is started, found dead, stopped, remembered for a while   *)
(* and forgotten.                                                          *)
(*                                                                         *)
(* Three parties interleave:                                               *)
(*   - the operating system, where the group leader exits, the rest of its *)
(*     process group goes on or dies, and pipes deliver bytes;             *)
(*   - the event loop, which delivers `close` and `error`, fires the       *)
(*     liveness interval, the reap timer and the grace timers of kills;    *)
(*   - the callers of start, kill, write, clear and cleanup.               *)
(*                                                                         *)
(* A JavaScript handler runs to completion, so each handler is one action, *)
(* with two exceptions: kill() suspends at its `await` (KillCall, then     *)
(* KillTimesOut or KillSucceeds), and livenessTick's loop over the         *)
(* registry is one action per record (TickVisit), during which no other    *)
(* handler runs (scan # {}).                                               *)
(***************************************************************************)
EXTENDS Integers, FiniteSets

CONSTANTS
    NumProcs,     \* how many processes are started at most
    Kills,        \* identities of kill() calls
    Signals,      \* names of signals
    Codes,        \* exit codes: "zero", "nonzero"
    Faulty,       \* children whose ChildProcess emits `error` despite a pid
    MaxFinished,  \* MAX_FINISHED_RECORDS
    Grace,        \* FINISHED_RECORD_GRACE_MS, in clock units
    MaxTime       \* the clock stops here (bound of the model)

Procs == 1 .. NumProcs

ASSUME LifecycleAssumption ==
    /\ NumProcs \in Nat
    /\ MaxFinished \in Nat
    /\ Grace \in Nat
    /\ MaxTime \in Nat
    /\ Faulty \subseteq Procs
    /\ Codes \subseteq {"zero", "nonzero"}
    /\ Signals \cap {"none", "nopid", "threw", "running", "zero", "nonzero"} = {}

VARIABLES
    leader,       \* what became of the group leader of each process
    groupAlive,   \* processes whose process group still has a member
    closed,       \* processes whose `close` event was delivered
    errored,      \* processes whose `error` event was delivered
    rec,          \* the ManagedProcessRecord of each process
    registry,     \* ids in the registry's Map
    watcher,      \* is the liveness interval running?
    scan,         \* records livenessTick has yet to visit in this turn
    reapTimer,    \* when finishedReapTimer is due, Never when there is none
    completionSequence,
    shuttingDown,
    kills,        \* the state of each kill() call
    logs,         \* processes that have log files on disk
    partial,      \* processes with an unterminated output line in memory
    ended,        \* how many process_ended events each process has emitted
    now           \* Date.now(), in units of which Grace is a multiple

osVars   == <<leader, groupAlive, closed, errored>>
recVars  == <<rec, registry, completionSequence, ended>>
timers   == <<watcher, reapTimer>>
fileVars == <<logs, partial>>
vars == <<osVars, recVars, timers, fileVars, scan, shuttingDown, kills, now>>

-----------------------------------------------------------------------------
(* Values *)

Never == -1                       \* a null date or an absent timer

LIVE_STATUSES == {"running", "terminating", "terminate_timeout"}
Ended         == {"exited", "killed"}

Record ==
    [status: {"absent"} \cup LIVE_STATUSES \cup Ended,
     endTime: Nat \cup {Never},
     exitCode: {"none", "minus1"} \cup Codes,
     success: {"none", "true", "false"},
     endReason: {"none", "exit", "signal", "spawn_error", "missing_pid",
                 "kill_timeout", "lost"},
     signal: Signals \cup {"none"},
     lastSignalSent: Signals \cup {"none"},
     stdin: {"open", "ended", "released"},
     completionSequence: Nat]     \* 0 stands for null

Kill ==
    [pc: {"idle", "waiting", "done"},
     target: Procs \cup {0},
     signal: Signals \cup {"none"},
     result: {"none", "ok", "not_found", "error", "timeout"}]

AbsentRecord ==
    [status |-> "absent", endTime |-> Never, exitCode |-> "none",
     success |-> "none", endReason |-> "none", signal |-> "none",
     lastSignalSent |-> "none", stdin |-> "open", completionSequence |-> 0]

NewRecord == [AbsentRecord EXCEPT !.status = "running"]

IdleKill == [pc |-> "idle", target |-> 0, signal |-> "none", result |-> "none"]

IsLive(p)     == rec[p].status \in LIVE_STATUSES
IsFinished(p) == rec[p].status \in Ended

(* The event loop is between two turns: no handler is half way. *)
LoopFree == scan = {}

(* Callers exist until session_shutdown only: the tools belong to the session
   and the protocol handlers are disposed before cleanup. *)
MayCall == LoopFree /\ ~shuttingDown

-----------------------------------------------------------------------------
(* Helpers of the controller, as functions of a registry and its records.
   A definition named X_... is X with a plausible mistake: the properties
   below must notice when it takes X's place. *)

hasAliveish_RunningOnly(reg, R) == \E p \in reg : R[p].status = "running"

hasAliveish(reg, R) == \E p \in reg : R[p].status \in LIVE_STATUSES

(* finishedRecordsByAge: the records, and the order it sorts them in. *)
FinishedIn(reg, R) == {p \in reg : R[p].status \in Ended /\ R[p].endTime # Never}

Older_NoTieBreak(R, p, q) == R[p].endTime < R[q].endTime

Older(R, p, q) ==
    \/ R[p].endTime < R[q].endTime
    \/ /\ R[p].endTime = R[q].endTime
       /\ R[p].completionSequence < R[q].completionSequence

(* reapOldestFinished: oldest first, stop at MAX_FINISHED_RECORDS or at the
   first record still within its grace period. *)
Reapable(reg, R) ==
    LET finished == FinishedIn(reg, R)
    IN  {p \in finished :
            /\ R[p].endTime <= now - Grace
            /\ Cardinality({q \in finished : Older(R, q, p)})
                   < Cardinality(finished) - MaxFinished}

(* The end time of the first record in that order. *)
OldestEnd(reg, R) ==
    CHOOSE t \in {R[p].endTime : p \in FinishedIn(reg, R)} :
        \A p \in FinishedIn(reg, R) : t <= R[p].endTime

Later(s, t) == IF s < t THEN t ELSE s

ReapDue_OffByOne(reg, R) ==
    IF shuttingDown \/ Cardinality(FinishedIn(reg, R)) <= MaxFinished + 1
    THEN Never
    ELSE Later(OldestEnd(reg, R) + Grace, now)

(* scheduleFinishedReap: the due date of the timer it leaves behind. *)
ReapDue(reg, R) ==
    IF shuttingDown \/ Cardinality(FinishedIn(reg, R)) <= MaxFinished THEN Never
    ELSE Later(OldestEnd(reg, R) + Grace, now)

AppendedLogs_Recreates(p) == logs \cup {p}

(* The appends of the log store recreate a missing file, but not a missing
   log directory: cleanup removed that one. *)
AppendedLogs(p) == IF shuttingDown THEN logs ELSE logs \cup {p}

(* output.flush: an unterminated line is emitted as an event and appended to
   the combined log. *)
FlushedLogs(p) == IF p \in partial THEN AppendedLogs(p) ELSE logs

FlushedPartial_Kept(p) == partial

FlushedPartial(p) == partial \ {p}

releaseRuntimeHandles_Nothing(r) == r

releaseRuntimeHandles(r) == [r EXCEPT !.stdin = "released"]

(* The endTime guard by which close and error leave a settled record alone. *)
AlreadySettled_Unchecked(p) == FALSE

AlreadySettled(p) == rec[p].endTime # Never

CountCompletion == completionSequence + 1

(* transition(managed, next) in the registry reg, for the record r of p whose
   other fields the caller has just assigned; logsNow is what the caller made
   of the logs. *)
transition(reg, p, r, next, logsNow) ==
    LET ends  == next \in Ended /\ r.status # next
        first == ends /\ r.completionSequence = 0
        R     == [rec EXCEPT ![p] =
                     [r EXCEPT !.status = next,
                               !.completionSequence =
                                   IF first THEN completionSequence + 1
                                   ELSE @]]
        gone  == IF ends THEN Reapable(reg, R) ELSE {}
    IN  /\ rec' = R
        /\ completionSequence' = IF first THEN CountCompletion
                                 ELSE completionSequence
        /\ ended' = IF ends THEN [ended EXCEPT ![p] = @ + 1] ELSE ended
        /\ registry' = reg \ gone
        /\ logs' = logsNow \ gone
        /\ reapTimer' = IF ends THEN ReapDue(reg \ gone, R) ELSE reapTimer
        /\ watcher' = IF r.status = next THEN watcher
                      ELSE hasAliveish(reg \ gone, R)

-----------------------------------------------------------------------------
(* The operating system *)

LeaderExits(p) ==
    /\ leader[p] = "running"
    /\ \E how \in Codes \cup Signals : leader' = [leader EXCEPT ![p] = how]
    /\ groupAlive' \in {groupAlive, groupAlive \ {p}}
    /\ UNCHANGED <<closed, errored, recVars, timers, fileVars, scan,
                   shuttingDown, kills, now>>

(* The last descendant of an exited leader dies. *)
GroupDies(p) ==
    /\ p \in groupAlive
    /\ leader[p] \in Codes \cup Signals
    /\ groupAlive' = groupAlive \ {p}
    /\ UNCHANGED <<leader, closed, errored, recVars, timers, fileVars, scan,
                   shuttingDown, kills, now>>

Tock ==
    /\ LoopFree
    /\ now < MaxTime
    /\ now' = now + 1
    /\ UNCHANGED <<osVars, recVars, timers, fileVars, scan, shuttingDown,
                   kills>>

-----------------------------------------------------------------------------
(* start() *)

NextId(p) == leader[p] = "none" /\ \A q \in Procs : q < p => leader[q] # "none"

Start(p) ==
    /\ MayCall /\ NextId(p)
    /\ leader' = [leader EXCEPT ![p] = "running"]
    /\ groupAlive' = groupAlive \cup {p}
    /\ rec' = [rec EXCEPT ![p] = NewRecord]
    /\ registry' = registry \cup {p}
    /\ logs' = logs \cup {p}
    /\ watcher' = TRUE
    /\ UNCHANGED <<closed, errored, completionSequence, ended, reapTimer,
                   partial, scan, shuttingDown, kills, now>>

(* spawn() gave no pid: the record is born finished, without process_started. *)
StartMissingPid(p) ==
    /\ MayCall /\ NextId(p)
    /\ leader' = [leader EXCEPT ![p] = "nopid"]
    /\ transition(registry \cup {p}, p,
                  [NewRecord EXCEPT !.exitCode = "minus1", !.success = "false",
                                    !.endReason = "missing_pid",
                                    !.endTime = now, !.stdin = "released"],
                  "exited", logs \cup {p})
    /\ UNCHANGED <<groupAlive, closed, errored, partial, scan, shuttingDown,
                   kills, now>>

(* spawnCommand throws: the log files exist already, the record never will. *)
StartThrows(p) ==
    /\ MayCall /\ NextId(p)
    /\ leader' = [leader EXCEPT ![p] = "threw"]
    /\ logs' = logs \cup {p}
    /\ UNCHANGED <<groupAlive, closed, errored, recVars, timers, partial, scan,
                   shuttingDown, kills, now>>

(* The `error` event of a child without a pid, on a later turn. *)
LateSpawnError(p) ==
    /\ LoopFree
    /\ leader[p] = "nopid" /\ p \notin errored
    /\ errored' = errored \cup {p}
    /\ rec' = [rec EXCEPT ![p].endReason = "spawn_error"]
    /\ logs' = AppendedLogs(p)
    /\ UNCHANGED <<leader, groupAlive, closed, registry, completionSequence,
                   ended, timers, partial, scan, shuttingDown, kills, now>>

-----------------------------------------------------------------------------
(* Events of a child (wireStdioHandlers) *)

(* A chunk of output that ends in the middle of a line, or does not. *)
Data(p) ==
    /\ LoopFree
    /\ leader[p] \in {"running"} \cup Codes \cup Signals
    /\ p \notin closed
    /\ partial' \in {partial \cup {p}, partial \ {p}}
    /\ logs' = AppendedLogs(p)
    /\ UNCHANGED <<osVars, recVars, timers, scan, shuttingDown, kills, now>>

(* `close`: the leader has exited and its pipes have ended. *)
Close(p) ==
    /\ LoopFree
    /\ leader[p] \in Codes \cup Signals
    /\ p \notin closed
    /\ closed' = closed \cup {p}
    /\ IF AlreadySettled(p)
       THEN /\ rec' = [rec EXCEPT ![p] = releaseRuntimeHandles(@)]
            /\ UNCHANGED <<registry, completionSequence, ended, timers, fileVars>>
       ELSE /\ partial' = FlushedPartial(p)
            /\ IF leader[p] \in Signals
               THEN transition(registry, p,
                        [releaseRuntimeHandles(rec[p]) EXCEPT
                            !.endTime = now, !.success = "false",
                            !.endReason = "signal", !.signal = leader[p]],
                        "killed", FlushedLogs(p))
               ELSE transition(registry, p,
                        [releaseRuntimeHandles(rec[p]) EXCEPT
                            !.endTime = now, !.exitCode = leader[p],
                            !.success = IF leader[p] = "zero" THEN "true"
                                        ELSE "false",
                            !.endReason = "exit", !.signal = "none"],
                        "exited", FlushedLogs(p))
    /\ UNCHANGED <<leader, groupAlive, errored, scan, shuttingDown, kills, now>>

(* handleSpawnError *)
ChildError(p) ==
    /\ LoopFree
    /\ p \in Faulty \ errored
    /\ leader[p] \in {"running"} \cup Codes \cup Signals
    /\ errored' = errored \cup {p}
    /\ IF AlreadySettled(p)
       THEN /\ logs' = AppendedLogs(p)
            /\ UNCHANGED <<recVars, timers, partial>>
       ELSE /\ partial' = FlushedPartial(p)
            /\ transition(registry, p,
                   [releaseRuntimeHandles(rec[p]) EXCEPT
                       !.exitCode = "minus1", !.success = "false",
                       !.endReason = "spawn_error", !.endTime = now],
                   "exited", AppendedLogs(p))
    /\ UNCHANGED <<leader, groupAlive, closed, scan, shuttingDown, kills, now>>

-----------------------------------------------------------------------------
(* kill() *)

Return(k, p, s, result) ==
    kills' = [kills EXCEPT ![k] = [pc |-> "done", target |-> p, signal |-> s,
                                   result |-> result]]

(* No such record, or one that has finished: answered at once. *)
KillNothing(k, p, s) ==
    /\ MayCall
    /\ kills[k].pc = "idle"
    /\ ~ (p \in registry /\ IsLive(p))
    /\ Return(k, p, s, IF p \in registry THEN "ok" ELSE "not_found")
    /\ UNCHANGED <<osVars, recVars, timers, fileVars, scan, shuttingDown, now>>

(* Up to the await. The signal reaches the group, or is refused (EPERM, which
   is swallowed), or finds no group (ESRCH, which fails the kill). *)
KillCall(k, p, s) ==
    /\ MayCall
    /\ kills[k].pc = "idle"
    /\ p \in registry /\ IsLive(p)
    /\ \E sent \in BOOLEAN :
           /\ sent => p \in groupAlive
           /\ transition(registry, p, IF sent THEN [rec[p] EXCEPT !.lastSignalSent = s]
                            ELSE rec[p],
                         "terminating", logs)
    /\ IF p \in groupAlive
       THEN kills' = [kills EXCEPT ![k] = [pc |-> "waiting", target |-> p,
                                           signal |-> s, result |-> "none"]]
       ELSE Return(k, p, s, "error")
    /\ UNCHANGED <<osVars, partial, scan, shuttingDown, now>>

(* The grace period is over and the group is still there. *)
KillTimesOut(k) ==
    LET p == kills[k].target
    IN  /\ LoopFree
        /\ kills[k].pc = "waiting"
        /\ p \in groupAlive
        /\ transition(registry, p, [rec[p] EXCEPT !.endReason = "kill_timeout",
                                        !.signal = kills[k].signal,
                                        !.success = "false",
                                        !.endTime = now],
                      "terminate_timeout", logs)
        /\ Return(k, p, kills[k].signal, "timeout")
        /\ UNCHANGED <<osVars, partial, scan, shuttingDown, now>>

(* The grace period is over and the group is gone. *)
KillSucceeds(k) ==
    LET p     == kills[k].target
        dated == IF AlreadySettled(p) THEN rec[p]
                 ELSE [rec[p] EXCEPT !.endTime = now, !.exitCode = "none",
                                     !.success = "false"]
        sent  == rec[p].lastSignalSent
    IN  /\ LoopFree
        /\ kills[k].pc = "waiting"
        /\ p \notin groupAlive
        /\ partial' = FlushedPartial(p)
        /\ transition(registry, p, [releaseRuntimeHandles(dated) EXCEPT
                             !.endReason = IF sent # "none" THEN "signal"
                                           ELSE "lost",
                             !.signal = sent],
                      "killed", FlushedLogs(p))
        /\ Return(k, p, kills[k].signal, "ok")
        /\ UNCHANGED <<osVars, scan, shuttingDown, now>>

-----------------------------------------------------------------------------
(* writeToStdin, as far as it changes state: the `end` option. *)

EndStdin(p) ==
    /\ MayCall
    /\ p \in registry /\ IsLive(p)
    /\ rec[p].stdin = "open"
    /\ rec' = [rec EXCEPT ![p].stdin = "ended"]
    /\ UNCHANGED <<osVars, registry, completionSequence, ended, timers,
                   fileVars, scan, shuttingDown, kills, now>>

-----------------------------------------------------------------------------
(* livenessTick *)

Tick ==
    /\ LoopFree /\ watcher
    /\ scan' = registry
    /\ UNCHANGED <<osVars, recVars, timers, fileVars, shuttingDown, kills, now>>

TickTouches_TimedOutToo(p) == IsLive(p) /\ p \notin groupAlive

TickTouches_RunningOnly(p) == rec[p].status = "running" /\ p \notin groupAlive

(* Neither finished records nor those whose stop timed out. *)
TickTouches(p) ==
    rec[p].status \in {"running", "terminating"} /\ p \notin groupAlive

(* The next record in insertion order. *)
TickVisit(p) ==
    /\ p \in scan /\ \A q \in scan : p <= q
    /\ scan' = scan \ {p}
    /\ IF TickTouches(p)
       THEN LET sent == rec[p].lastSignalSent
                r    == [releaseRuntimeHandles(rec[p]) EXCEPT
                            !.endTime = IF @ # Never THEN @ ELSE now,
                            !.success = "false", !.exitCode = "none",
                            !.endReason = "lost", !.signal = sent]
            IN  /\ partial' = FlushedPartial(p)
                /\ transition(registry, p, r, IF sent # "none" THEN "killed" ELSE "exited",
                              FlushedLogs(p))
       ELSE UNCHANGED <<recVars, timers, fileVars>>
    /\ UNCHANGED <<osVars, shuttingDown, kills, now>>

-----------------------------------------------------------------------------
(* Forgetting *)

Clearable_AllButRunning == {p \in registry : rec[p].status # "running"}

Clearable == {p \in registry : ~IsLive(p)}

clearFinished ==
    LET gone == Clearable
    IN  /\ MayCall
        /\ registry' = registry \ gone
        /\ logs' = logs \ gone
        /\ reapTimer' = ReapDue(registry \ gone, rec)
        /\ watcher' = (watcher /\ hasAliveish(registry \ gone, rec))
        /\ UNCHANGED <<osVars, rec, completionSequence, ended, partial, scan,
                       shuttingDown, kills, now>>

(* The callback of finishedReapTimer: reap, then schedule again. *)
ReapTimerFires ==
    LET gone == Reapable(registry, rec)
    IN  /\ LoopFree
        /\ reapTimer # Never /\ reapTimer <= now
        /\ registry' = registry \ gone
        /\ logs' = logs \ gone
        /\ reapTimer' = ReapDue(registry \ gone, rec)
        /\ UNCHANGED <<osVars, rec, completionSequence, ended, watcher, partial,
                       scan, shuttingDown, kills, now>>

(* ProcessManager.cleanup, on session_shutdown. The SIGKILLs it sends to live
   groups add nothing to what LeaderExits and GroupDies may do anyway. *)
Cleanup ==
    /\ MayCall
    /\ shuttingDown' = TRUE
    /\ reapTimer' = Never
    /\ watcher' = FALSE
    /\ logs' = {}
    /\ UNCHANGED <<osVars, recVars, partial, scan, kills, now>>

-----------------------------------------------------------------------------
Init ==
    /\ leader = [p \in Procs |-> "none"]
    /\ groupAlive = {} /\ closed = {} /\ errored = {}
    /\ rec = [p \in Procs |-> AbsentRecord]
    /\ registry = {}
    /\ watcher = FALSE /\ scan = {} /\ reapTimer = Never
    /\ completionSequence = 0 /\ shuttingDown = FALSE
    /\ kills = [k \in Kills |-> IdleKill]
    /\ logs = {} /\ partial = {}
    /\ ended = [p \in Procs |-> 0]
    /\ now = 0

KillResolves(k) == KillTimesOut(k) \/ KillSucceeds(k)

Next ==
    \/ \E p \in Procs :
          \/ LeaderExits(p) \/ GroupDies(p)
          \/ Start(p) \/ StartMissingPid(p) \/ StartThrows(p)
          \/ LateSpawnError(p)
          \/ Data(p) \/ Close(p) \/ ChildError(p)
          \/ EndStdin(p) \/ TickVisit(p)
    \/ \E k \in Kills, p \in Procs, s \in Signals :
          KillNothing(k, p, s) \/ KillCall(k, p, s)
    \/ \E k \in Kills : KillTimesOut(k) \/ KillSucceeds(k)
    \/ Tick \/ Tock \/ clearFinished \/ ReapTimerFires \/ Cleanup

Spec == Init /\ [][Next]_vars

(* Timers fire: the interval, the grace timers and the reap timer. Nothing
   forces `close` (a descendant may hold the pipes for ever) nor a caller. *)
Fairness ==
    /\ WF_vars(Tick) /\ WF_vars(\E p \in Procs : TickVisit(p))
    /\ \A k \in Kills : WF_vars(KillResolves(k))
    /\ WF_vars(ReapTimerFires)

FairSpec == Spec /\ Fairness
-----------------------------------------------------------------------------
(* Properties *)

(* Every variable stays within its type. *)
TypeOK ==
    /\ leader \in [Procs -> {"none", "nopid", "threw", "running"}
                                \cup Codes \cup Signals]
    /\ groupAlive \subseteq Procs /\ closed \subseteq Procs
    /\ errored \subseteq Procs
    /\ rec \in [Procs -> Record]
    /\ registry \subseteq Procs /\ scan \subseteq Procs
    /\ watcher \in BOOLEAN /\ shuttingDown \in BOOLEAN
    /\ reapTimer \in Nat \cup {Never}
    /\ completionSequence \in Nat
    /\ kills \in [Kills -> Kill]
    /\ logs \subseteq Procs /\ partial \subseteq Procs
    /\ ended \in [Procs -> Nat]
    /\ now \in Nat

(* Whichever of start, close, error, kill or the tick finishes a record, it
   leaves it complete: dated, explained, numbered, its stdin handle dropped,
   and reported by at least one process_ended. *)
FinishedIsComplete ==
    \A p \in Procs : IsFinished(p) =>
        /\ rec[p].endTime # Never /\ rec[p].success # "none"
        /\ rec[p].endReason \notin {"none", "kill_timeout"}
        /\ rec[p].stdin = "released"
        /\ rec[p].completionSequence # 0
        /\ ended[p] >= 1

(* Completion numbers are distinct, so the retention order by (endTime,
   completionSequence) is total and the victim of a reap is determined. *)
CompletionOrderIsTotal ==
    \A p, q \in Procs :
        p # q /\ rec[p].completionSequence # 0
            => /\ rec[p].completionSequence # rec[q].completionSequence
               /\ rec[p].completionSequence <= completionSequence

(* Until shutdown the liveness interval runs exactly while the registry holds
   a live record: a dead child is never left unwatched, an idle manager never
   keeps polling. *)
WatcherMatchesLive ==
    ~shuttingDown => (watcher <=> \E p \in registry : IsLive(p))

(* Until shutdown, whenever more finished records are kept than the limit, a
   reap timer is armed and due no later than the oldest leaves its grace. *)
ReaperArmed ==
    LET finished == FinishedIn(registry, rec)
    IN  ~shuttingDown /\ Cardinality(finished) > MaxFinished =>
            /\ reapTimer # Never
            /\ \A p \in finished : reapTimer <= Later(rec[p].endTime + Grace, now)

(* After cleanup no log file is left or comes back, however late the last
   output or the last kill arrives (tests/e2e/cleanup.e2e.ts). *)
CleanupIsFinal == shuttingDown => logs = {}

(* While a member of its process group lives, a process has been reported
   ended at most once, and a second report needs a kill that was waiting out
   its grace period (docs/notifications.md counts on a single report). *)
RepeatedEndNeedsRace ==
    \A p \in Procs : ended[p] > 1 =>
        /\ p \notin groupAlive
        /\ \E k \in Kills : kills[k].target = p /\ kills[k].result \in {"ok", "timeout"}

(* A record leaves the registry only when finished. *)
ForgetsOnlyFinished ==
    [][\A p \in registry \ registry' : rec'[p].status \in Ended]_vars

(* Only the user's clear forgets early: any other step forgets records whose
   grace is over, the oldest first, and never cuts below the limit. *)
ReapKeepsNewest ==
    [][LET before == FinishedIn(registry, rec')
           after  == FinishedIn(registry', rec')
       IN  before \ after # {} /\ ~clearFinished =>
               /\ Cardinality(after) >= MaxFinished
               /\ \A p \in before \ after :
                      /\ rec'[p].endTime + Grace <= now
                      /\ \A q \in after : Older(rec', p, q)]_vars

(* A stop that timed out stays timed out until another kill acts on it: the
   close handler and the tick leave it alone (controller lines 194-197 and
   421-428). *)
TimeoutIsSticky ==
    [][\A p \in Procs :
          rec[p].status = "terminate_timeout" /\ rec'[p].status # "terminate_timeout"
              => \E k \in Kills : /\ kills'[k] # kills[k]
                                  /\ kills'[k].target = p]_vars

(* What a finished record says of the end of its process stands, unless a
   kill that was already waiting on it resolves. *)
Verdict(r) == <<r.status, r.endTime, r.exitCode, r.success, r.signal>>

VerdictStands ==
    [][\A p \in Procs :
          IsFinished(p) /\ Verdict(rec'[p]) # Verdict(rec[p])
              => \E k \in Kills : /\ kills[k].pc = "waiting"
                                  /\ kills'[k].pc = "done"
                                  /\ kills[k].target = p]_vars

(* No output event can follow from what was buffered when process_ended is
   emitted: the unterminated last line went out first ("final output event
   before process_ended", src/manager/index.test.ts:477). *)
FlushedBeforeEnded ==
    [][\A p \in Procs : ended'[p] # ended[p] => p \notin partial']_vars

(* A running or terminating process whose group is gone is noticed, even if
   `close` never comes because a stranger holds its pipes. *)
DeadIsNoticed ==
    \A p \in Procs :
        (rec[p].status \in {"running", "terminating"} /\ p \notin groupAlive)
            ~> (shuttingDown \/ rec[p].status \notin {"running", "terminating"})

(* Finished records beyond the limit whose grace is over do not stay. *)
ExcessIsReaped ==
    Reapable(registry, rec) # {} ~> (shuttingDown \/ Reapable(registry, rec) = {})

-----------------------------------------------------------------------------
(* The promise this controller keeps *)

(* classifyProcessEnd of a finished record. *)
Outcome(r) ==
    IF r.status \notin Ended THEN "none"
    ELSE IF r.status = "killed" THEN "killed"
    ELSE IF r.success = "true" THEN "success"
    ELSE IF \/ r.endReason \in {"spawn_error", "missing_pid", "lost"}
            \/ r.exitCode \notin {"none", "zero"}
         THEN "crash" ELSE "failure"

Promised ==
    INSTANCE ManagerPromise WITH
        status  <- [p \in Procs |-> rec[p].status],
        outcome <- [p \in Procs |-> Outcome(rec[p])],
        known   <- registry,
        over    <- shuttingDown,
        calls   <- [k \in Kills |-> [pc |-> kills[k].pc, target |-> kills[k].target,
                                    result |-> kills[k].result]]

(* The controller implements ManagerPromise: whatever the operating system,
   the timers and the other callers do, a listener sees an end of a process
   only where the promise allows one, a stop that timed out is not undone by
   close or the tick, and no end is ever classified as a plain "failure". *)
KeepsPromise == Promised!Promise

-----------------------------------------------------------------------------
(* What the repository says and the controller does not do *)

(* "a process ... must emit exactly one process_ended"
   (tests/e2e/process-end-once.e2e.ts:7). *)
EndedAtMostOnce == \A p \in Procs : ended[p] <= 1

(* "Keep recently finished records available to the UI before reaping"
   (src/manager/limits.ts:14): no record is removed by the very step that
   finishes it. *)
RecentlyFinishedIsKept ==
    [][\A p \in registry \ registry' : ~IsLive(p)]_vars

(* "It never clears live processes" (skills/pi-processes/SKILL.md:207): what
   is listed as live, or reported live to the caller of a kill, is still in
   the registry, where it can be found and stopped. *)
LiveIsListed == \A p \in Procs : IsLive(p) => p \in registry
=============================================================================
