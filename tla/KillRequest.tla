------------------------------ MODULE KillRequest ------------------------------
(***************************************************************************)
(* The requests of the overview that wait for an answer                    *)
(* (processes/client.ts: requestKill, requestPin). Emitting a request runs *)
(* its handler, if there is one, up to its first await; the answer comes   *)
(* in a microtask or after the grace period of the stop, and a timer of    *)
(* the client answers when nobody does.                                    *)
(*                                                                         *)
(* The event loop may be held up: time passes with timers overdue. Timers  *)
(* fire in the order in which they are due, each followed by the           *)
(* microtasks it causes; two that are due at once in any order.            *)
(***************************************************************************)
EXTENDS Integers

CONSTANTS
    Requests,
    Timeouts,   \* the timeoutMs a kill may be given
    Grace,      \* of SIGKILL
    Headroom,   \* of the client
    PinTimeout,
    MaxClock    \* bound of the model

ASSUME RequestAssumption ==
    /\ Timeouts \subseteq Nat /\ {Grace, Headroom, PinTimeout, MaxClock} \subseteq Nat
    /\ Grace < Headroom

VARIABLES
    requests,  \* the state of each request
    heard,     \* is there a handler?
    clock

requestVars == <<requests, heard, clock>>

NotYet == -1

Idle == [pc |-> "idle", wakesAt |-> NotYet, timer |-> NotYet, result |-> "none", answer |-> "none"]

Settled(r) == requests[r].answer # "none"

(* The timers that are set, the client's and those of the handler. *)
Due == {requests[r].timer : r \in Requests} \cup {requests[r].wakesAt : r \in Requests}

Fires(due) ==
    /\ due # NotYet /\ due <= clock
    /\ \A other \in Due : other # NotYet => due <= other
    /\ \A r \in Requests : requests[r].pc # "answered"

(* When the client gives up. *)
Patience_NoHeadroom(timeout) == timeout

Patience(timeout) == timeout + Headroom

GivesUpAt_IfHeard(wait) == IF heard THEN clock + wait ELSE NotYet

GivesUpAt(wait) == clock + wait

Becomes(r, request) == requests' = [requests EXCEPT ![r] = request]

-----------------------------------------------------------------------------
(* requestKill; manager.kill has an answer or waits. *)
requestKill(r, signal, timeout) ==
    LET asked == [Idle EXCEPT !.pc = "unheard", !.timer = GivesUpAt(Patience(timeout))]
    IN  /\ requests[r] = Idle
        /\ \/ ~heard /\ Becomes(r, asked)
           \/ heard /\ \E result \in {"not_found", "ok", "error"} :
                 Becomes(r, [asked EXCEPT !.pc = "answered", !.result = result])
           \/ heard /\ Becomes(r, [asked EXCEPT !.pc = "waiting",
                 !.wakesAt = clock + IF signal = "SIGKILL" THEN Grace ELSE timeout])
        /\ UNCHANGED <<heard, clock>>

(* requestPin is answered before emit returns. *)
requestPin(r) ==
    /\ requests[r] = Idle
    /\ Becomes(r, IF heard
                  THEN [Idle EXCEPT !.pc = "done", !.result = "ok", !.answer = "ok"]
                  ELSE [Idle EXCEPT !.pc = "unheard", !.timer = GivesUpAt(PinTimeout)])
    /\ UNCHANGED <<heard, clock>>

(* The stop was waited for. *)
Wakes(r) ==
    /\ requests[r].pc = "waiting" /\ Fires(requests[r].wakesAt)
    /\ \E result \in {"ok", "timeout"} :
          Becomes(r, [requests[r] EXCEPT !.pc = "answered", !.wakesAt = NotYet, !.result = result])
    /\ UNCHANGED <<heard, clock>>

(* The reply, in a microtask; the first answer counts. *)
Replies(r) ==
    /\ requests[r].pc = "answered"
    /\ Becomes(r, [requests[r] EXCEPT !.pc = "done",
           !.timer = IF Settled(r) THEN @ ELSE NotYet,
           !.answer = IF Settled(r) THEN @ ELSE requests[r].result])
    /\ UNCHANGED <<heard, clock>>

GivesUp(r) ==
    /\ Fires(requests[r].timer)
    /\ Becomes(r, [requests[r] EXCEPT !.timer = NotYet,
           !.answer = IF Settled(r) THEN @ ELSE "unanswered"])
    /\ UNCHANGED <<heard, clock>>

(* The core is shut down; stops that wait go on. *)
Unheard ==
    /\ heard /\ heard' = FALSE
    /\ UNCHANGED <<requests, clock>>

Passes ==
    /\ \A r \in Requests : requests[r].pc # "answered"
    /\ clock < MaxClock /\ clock' = clock + 1
    /\ UNCHANGED <<requests, heard>>

-----------------------------------------------------------------------------
RequestInit == requests = [r \in Requests |-> Idle] /\ heard \in BOOLEAN /\ clock = 0

RequestNext ==
    \/ \E r \in Requests :
          \/ \E signal \in {"SIGTERM", "SIGKILL"}, timeout \in Timeouts : requestKill(r, signal, timeout)
          \/ requestPin(r) \/ Wakes(r) \/ Replies(r) \/ GivesUp(r)
    \/ Unheard \/ Passes

(* Microtasks run, timers fire once they are due, and time passes. *)
RequestFairness ==
    /\ \A r \in Requests :
          WF_requestVars(Wakes(r)) /\ WF_requestVars(Replies(r)) /\ WF_requestVars(GivesUp(r))
    /\ WF_requestVars(Passes)

RequestSpec == RequestInit /\ [][RequestNext]_requestVars /\ RequestFairness

-----------------------------------------------------------------------------
(* Properties *)

(* A request that a handler heard gets the handler's answer, however long the
   stop takes and however late the timers are: the client does not give up on
   a stop that is being waited for. *)
HandlerIsWaitedFor ==
    \A r \in Requests :
        Settled(r) => requests[r].answer = IF requests[r].pc = "unheard" THEN "unanswered"
                                           ELSE requests[r].result

(* Every request is settled, also one that nobody hears. *)
RequestsSettle ==
    \A r \in Requests :
        requests[r] # Idle /\ requests[r].timer <= MaxClock ~> Settled(r)
===============================================================================
