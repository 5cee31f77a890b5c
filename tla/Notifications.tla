---------------------------- MODULE Notifications ----------------------------
(***************************************************************************)
(* Lifecycle notifications: the notification service and its registry      *)
(* (extensions/processes/notifications), the intentional stop              *)
(* (handlers/kill-process.ts) and the tools that call them, on top of what *)
(* ManagerPromise lets the manager do.                                     *)
(*                                                                         *)
(* process_ended is handled one microtask late; the rest of a stop runs in *)
(* a microtask too, once manager.kill has answered. Microtasks run in the  *)
(* order in which they were queued, and all of them before the event loop  *)
(* takes its next turn (child events and timers); a tool or a command may  *)
(* call from a microtask of its own, hence in between.                     *)
(***************************************************************************)
EXTENDS ManagerPromise, Sequences, SequencesExt

CONSTANTS
    Configs     \* the NotifyConfigs given to start

VARIABLES
    microtasks,  \* the queue of promise jobs
    stops,       \* intentionalStops: processes with an intentional-stop marker
    configs,     \* the NotifyConfig registered for each process, or NoConfig
    notices,     \* the notifications emitted about each process
    asked        \* what start was given, whatever became of the registration

noticeVars == <<microtasks, stops, configs, notices, asked>>
vars == <<managerVars, noticeVars>>

-----------------------------------------------------------------------------
Attention == {"turn", "context", "ignore"}

DEFAULT_ATTENTION ==
    [onSuccess |-> "turn", onFailure |-> "turn", onKilled |-> "context"]

Config == [onSuccess : Attention, onFailure : Attention, onKilled : Attention]

ASSUME ConfigsAreConfigs == Configs \subseteq Config

NoConfig == [onSuccess |-> "unset", onFailure |-> "unset", onKilled |-> "unset"]

EndTask(p, o) == [task |-> "ended", process |-> p, outcome |-> o]
AnswerTask(k) == [task |-> "answered", call |-> k]

(* What the manager step in progress queues: an end, when it emitted one, and
   then the continuation of the call it answered, if any. *)
QueueThen(more) ==
    microtasks' = microtasks
        \o SetToSeq({EndTask(p, outcome'[p]) : p \in {q \in Procs : ended'[q] # ended[q]}})
        \o more

(* The event loop is between two turns. *)
Turn == microtasks = <<>>

-----------------------------------------------------------------------------
(* The manager acts on its own: child events, the tick, the reaper; clear. *)

ProcessEnds(p) ==
    /\ Turn
    /\ \E st \in Finished, o \in Outcomes : Finishes(p, st, o)
    /\ QueueThen(<<>>)
    /\ UNCHANGED <<stops, configs, notices, asked>>

Forget ==
    /\ \E gone \in SUBSET known : Forgets(gone)
    /\ UNCHANGED noticeVars

-----------------------------------------------------------------------------
(* process start and the start command: start, then register. *)

Registered_IfLive(p, c) ==
    IF status'[p] \in Live THEN [configs EXCEPT ![p] = c] ELSE configs

Registered(p, c) == [configs EXCEPT ![p] = c]

Start(p, c) ==
    /\ Begins(p) \/ BornDead(p)
    /\ configs' = Registered(p, c)
    /\ asked' = [asked EXCEPT ![p] = c]
    /\ QueueThen(<<>>)
    /\ UNCHANGED <<stops, notices>>

-----------------------------------------------------------------------------
(* killIntentionally: mark, kill, and on the answer perhaps unmark. *)

Marked_Forgotten(p) == stops

Marked(p) == stops \cup {p}

(* Ids are random and learnt from start or a list: nobody stops a process that
   was not started. *)
Stop(k, p) ==
    /\ status[p] # "absent"
    /\ stops' = Marked(p)
    /\ \/ (Refused(k, p) \/ Failed(k, p)) /\ QueueThen(<<AnswerTask(k)>>)
       \/ Accepted(k, p) /\ QueueThen(<<>>)
    /\ UNCHANGED <<configs, notices, asked>>

(* The grace timer of a stop fires. *)
StopWakes(k) ==
    /\ Turn
    /\ TimesOut(k) \/ Succeeds(k)
    /\ QueueThen(<<AnswerTask(k)>>)
    /\ UNCHANGED <<stops, configs, notices, asked>>

Unmarks_FailuresOnly(result) == result \in {"not_found", "error"}

(* The stops whose marker nobody else will consume: all but those that timed
   out. (A result that is ok carries a finished record.) *)
Unmarks(result) == result \in {"not_found", "error", "ok"}

StopContinues(k) ==
    /\ microtasks # <<>> /\ Head(microtasks) = AnswerTask(k)
    /\ microtasks' = Tail(microtasks)
    /\ stops' = IF Unmarks(calls[k].result) THEN stops \ {calls[k].target}
                ELSE stops
    /\ UNCHANGED <<managerVars, configs, notices, asked>>

-----------------------------------------------------------------------------
(* NotificationService.handleProcessEnded *)

resolveAttention(o, c) ==
    LET config == IF c = NoConfig THEN DEFAULT_ATTENTION ELSE c
    IN  CASE o = "success" -> config.onSuccess
          [] o = "crash" -> config.onFailure
          [] o = "killed" -> config.onKilled

EffectiveAttention_NotForced(o, c) == resolveAttention(o, c)

(* A crash is displayed even when the config ignores it. *)
EffectiveAttention(o, c) ==
    IF o = "crash" /\ resolveAttention(o, c) = "ignore" THEN "context"
    ELSE resolveAttention(o, c)

Unregistered(p) == [configs EXCEPT ![p] = NoConfig]

handleProcessEnded(p, o) ==
    LET attention == IF p \in stops THEN "context"
                     ELSE EffectiveAttention(o, configs[p])
    IN  /\ notices' = IF attention = "ignore" THEN notices
                      ELSE [notices EXCEPT ![p] =
                               Append(@, [outcome |-> o, attention |-> attention])]
        /\ stops' = stops \ {p}
        /\ configs' = Unregistered(p)

EndIsHandled(p, o) ==
    /\ microtasks # <<>> /\ Head(microtasks) = EndTask(p, o)
    /\ microtasks' = Tail(microtasks)
    /\ IF over THEN UNCHANGED <<stops, configs, notices>>
       ELSE handleProcessEnded(p, o)
    /\ UNCHANGED <<managerVars, asked>>

-----------------------------------------------------------------------------
(* session_shutdown: the service is disposed and the registry cleared before
   the manager kills everything. *)
SessionShutdown ==
    /\ Shutdown
    /\ stops' = {}
    /\ configs' = [p \in Procs |-> NoConfig]
    /\ UNCHANGED <<microtasks, notices, asked>>

-----------------------------------------------------------------------------
Init ==
    /\ PromiseInit
    /\ microtasks = <<>> /\ stops = {}
    /\ configs = [p \in Procs |-> NoConfig]
    /\ notices = [p \in Procs |-> <<>>]
    /\ asked = [p \in Procs |-> NoConfig]

Next ==
    \/ \E p \in Procs :
          \/ ProcessEnds(p)
          \/ \E c \in Configs : Start(p, c)
          \/ \E k \in Kills : Stop(k, p)
          \/ \E o \in Outcomes : EndIsHandled(p, o)
    \/ \E k \in Kills : StopWakes(k) \/ StopContinues(k)
    \/ Forget \/ SessionShutdown

Spec == Init /\ [][Next]_vars

-----------------------------------------------------------------------------
(* Properties *)

NoticeTypeOK ==
    /\ status \in [Procs -> {"absent"} \cup Live \cup Finished]
    /\ \A i \in DOMAIN microtasks :
          \/ \E p \in Procs, o \in Outcomes : microtasks[i] = EndTask(p, o)
          \/ \E k \in Kills : microtasks[i] = AnswerTask(k)
    /\ stops \subseteq Procs
    /\ configs \in [Procs -> Configs \cup {NoConfig}]
    /\ \A p \in Procs : \A i \in DOMAIN notices[p] :
          notices[p][i] \in [outcome : Outcomes, attention : {"turn", "context"}]

(* A marker does not outlive its process: between turns, only processes that
   are still live have one, so an old stop never silences a later end. *)
MarkersAreOfLiveProcesses ==
    Turn /\ ~over => \A p \in stops : status[p] \in Live

(* A registration lasts exactly as long as its process has not ended: none is
   left behind for a finished process, none is missing for a live one. *)
RegistrationFollowsProcess ==
    Turn /\ ~over =>
        \A p \in Procs : configs[p] # NoConfig
                             <=> status[p] # "absent" /\ ended[p] = 0

(* What the registry keeps beside the manager's records follows them. *)
BookkeepingFollowsProcess ==
    MarkersAreOfLiveProcesses /\ RegistrationFollowsProcess

(* A crash always leaves a notification, last, whatever the config, the
   markers and the order of the ends: it can be softened, not silenced
   (docs/notifications.md:100-109). What the agent reads says otherwise of a
   config that ignores failures: "ignore never notifies"
   (processes/tools/schema.ts:145). *)
CrashIsShown ==
    Turn /\ ~over =>
        \A p \in Procs : outcome[p] = "crash" =>
            notices[p] # <<>> /\ Last(notices[p]).outcome = "crash"

(* The first notification about a process wakes the agent only if its own
   config, and not the defaults, says so - even when the process had ended
   before start() returned and before anything was registered. *)
ConfigIsObeyed ==
    \A p \in Procs : notices[p] # <<>> =>
        LET first == Head(notices[p])
        IN  first.attention = "turn"
                => resolveAttention(first.outcome, asked[p]) = "turn"

Wakes(p) == /\ Len(notices'[p]) > Len(notices[p])
            /\ Last(notices'[p]).attention = "turn"

(* While a stop of a process waits for it to die, its end does not wake the
   agent, unless another stop of it has failed. It is notified, quietly
   (docs/notifications.md:126-130), where skills/pi-processes/SKILL.md:22 says
   "Stopping a process yourself never notifies." *)
StopIsQuietAlone ==
    [][\A p \in Procs : Wakes(p) =>
          \/ \A k \in Kills : ~ (calls[k].pc = "waiting" /\ calls[k].target = p)
          \/ \E k \in Kills : calls[k].target = p /\ calls[k].result = "error"]_vars

(* "The agent is not woken, but it learns the process ended"
   (docs/notifications.md:128) when a stop is intentional. *)
StopIsQuiet ==
    [][\A p \in Procs : Wakes(p) =>
          \A k \in Kills : ~ (calls[k].pc = "waiting" /\ calls[k].target = p)]_vars
===============================================================================
