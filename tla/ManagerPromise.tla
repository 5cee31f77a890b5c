---------------------------- MODULE ManagerPromise ----------------------------
(***************************************************************************)
(* What the process manager promises its callers and event listeners       *)
(* (src/manager/index.ts, src/types.ts), without pids, timers, logs or     *)
(* dates: statuses, process_ended events, what the registry knows, and     *)
(* kill() calls that answer at once or wait.                               *)
(*                                                                         *)
(* ProcessLifecycle implements this specification (ManagerPromise there);  *)
(* Notifications is built on it.                                           *)
(***************************************************************************)
EXTENDS Integers, FiniteSets

CONSTANTS
    Procs,     \* processes, in the order in which they may be started
    Kills      \* identities of kill() calls

VARIABLES
    status,    \* what the manager says of each process
    outcome,   \* how a finished process ended, as classifyProcessEnd sees it
    ended,     \* how many process_ended events each process has emitted
    known,     \* processes the registry can find
    calls,     \* the state of each kill() call
    over       \* has the session been shut down?

managerVars == <<status, outcome, ended, known, calls, over>>

-----------------------------------------------------------------------------
Live       == {"running", "terminating", "terminate_timeout"}
Finished   == {"exited", "killed"}
Outcomes   == {"success", "crash", "killed"}

NoCall == [pc |-> "idle", target |-> 0, result |-> "none"]

IsKnownLive(p) == p \in known /\ status[p] \in Live

(* A kill of p has found nobody in its process group; nobody comes back. *)
Vanished(p) == \E k \in Kills : calls[k].target = p /\ calls[k].result = "error"

(* The outcomes a status allows. *)
Fits(st, o) == o \in Outcomes /\ (st = "killed" <=> o = "killed")

(* process_ended for p, whose status becomes st; the retention limit may make
   the registry forget finished processes in the same step. *)
Ends(p, st, o, registered) ==
    /\ Fits(st, o)
    /\ status' = [status EXCEPT ![p] = st]
    /\ outcome' = [outcome EXCEPT ![p] = o]
    /\ ended' = [ended EXCEPT ![p] = @ + 1]
    /\ \E forgotten \in SUBSET {q \in registered : status'[q] \in Finished} :
           known' = registered \ forgotten

(* p changes its status without an event. *)
Becomes(p, st) ==
    /\ status' = [status EXCEPT ![p] = st]
    /\ outcome' = [outcome EXCEPT ![p] = "none"]
    /\ UNCHANGED <<ended, known>>

Answer(k, p, result) ==
    calls' = [calls EXCEPT ![k] = [pc |-> "done", target |-> p, result |-> result]]

-----------------------------------------------------------------------------
(* start(): a process that runs, or one that was born dead. *)

Begins(p) ==
    /\ ~over /\ status[p] = "absent"
    /\ status' = [status EXCEPT ![p] = "running"]
    /\ known' = known \cup {p}
    /\ UNCHANGED <<outcome, ended, calls, over>>

BornDead(p) ==
    /\ ~over /\ status[p] = "absent"
    /\ Ends(p, "exited", "crash", known \cup {p})
    /\ UNCHANGED <<calls, over>>

(* The end is noticed, by close, by error or by the liveness tick: once, and
   never after a stop that timed out. *)
Finishes(p, st, o) ==
    /\ status[p] \in {"running", "terminating"}
    /\ Ends(p, st, o, known)
    /\ UNCHANGED <<calls, over>>

(* kill(): nothing to stop, a signal that finds nobody, or a wait. *)
Refused(k, p) ==
    /\ ~over /\ calls[k].pc = "idle" /\ ~IsKnownLive(p)
    /\ Answer(k, p, IF p \in known THEN "ok" ELSE "not_found")
    /\ UNCHANGED <<status, outcome, ended, known, over>>

Failed(k, p) ==
    /\ ~over /\ calls[k].pc = "idle" /\ IsKnownLive(p)
    /\ Becomes(p, "terminating")
    /\ Answer(k, p, "error")
    /\ UNCHANGED over

Accepted(k, p) ==
    /\ ~over /\ calls[k].pc = "idle" /\ IsKnownLive(p) /\ ~Vanished(p)
    /\ Becomes(p, "terminating")
    /\ calls' = [calls EXCEPT ![k] = [pc |-> "waiting", target |-> p,
                                      result |-> "none"]]
    /\ UNCHANGED over

(* A call that waited decides on what it finds, not on what it left. *)
TimesOut(k) ==
    /\ calls[k].pc = "waiting" /\ ~Vanished(calls[k].target)
    /\ Becomes(calls[k].target, "terminate_timeout")
    /\ Answer(k, calls[k].target, "timeout")
    /\ UNCHANGED over

Succeeds(k) ==
    LET p == calls[k].target
    IN  /\ calls[k].pc = "waiting"
        /\ IF status[p] = "killed"
           THEN UNCHANGED <<status, outcome, ended, known>>
           ELSE Ends(p, "killed", "killed", known)
        /\ Answer(k, p, "ok")
        /\ UNCHANGED over

(* Clear and reap: finished processes only. *)
Forgets(gone) ==
    /\ gone # {} /\ gone \subseteq known
    /\ \A p \in gone : status[p] \in Finished
    /\ known' = known \ gone
    /\ UNCHANGED <<status, outcome, ended, calls, over>>

Shutdown ==
    /\ ~over /\ over' = TRUE
    /\ UNCHANGED <<status, outcome, ended, known, calls>>

-----------------------------------------------------------------------------
PromiseInit ==
    /\ status = [p \in Procs |-> "absent"]
    /\ outcome = [p \in Procs |-> "none"]
    /\ ended = [p \in Procs |-> 0]
    /\ known = {}
    /\ calls = [k \in Kills |-> NoCall]
    /\ over = FALSE

PromiseNext ==
    \/ \E p \in Procs :
          \/ Begins(p) \/ BornDead(p)
          \/ \E st \in Finished, o \in Outcomes : Finishes(p, st, o)
          \/ \E k \in Kills : Refused(k, p) \/ Failed(k, p) \/ Accepted(k, p)
    \/ \E k \in Kills : TimesOut(k) \/ Succeeds(k)
    \/ \E gone \in SUBSET known : Forgets(gone)
    \/ Shutdown

Promise == PromiseInit /\ [][PromiseNext]_managerVars
===============================================================================
