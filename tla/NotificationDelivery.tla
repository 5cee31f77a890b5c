------------------------- MODULE NotificationDelivery -------------------------
(***************************************************************************)
(* The delivery listener (extensions/processes/handlers/notifications.ts): *)
(* log-match notifications are passed on up to a limit per window of time; *)
(* the rest are counted and told in one summary. Notifications of other    *)
(* kinds pass through and touch none of this state.                        *)
(*                                                                         *)
(* The summary timer may fire late, and a payload may arrive between the   *)
(* end of the window and the timer: both close the window.                 *)
(***************************************************************************)
EXTENDS Integers, Sequences

CONSTANTS
    Window,       \* NOTIFICATION_WINDOW_MS, in clock units
    MaxPerWindow, \* MAX_LOG_MATCH_NOTIFICATIONS_PER_WINDOW
    MaxTime,      \* the clock stops here (bound of the model)
    MaxArrivals   \* how many log matches arrive (bound of the model)

ASSUME DeliveryAssumption ==
    /\ Window \in Nat \ {0}
    /\ MaxPerWindow \in Nat \ {0}
    /\ MaxTime \in Nat
    /\ MaxArrivals \in Nat

VARIABLES
    windowStart,  \* when the current window began, Never when there is none
    sentInWindow,
    suppressed,
    summaryTimer, \* when the timer is due, Never when there is none
    disposed,
    now,          \* performance.now()
    arrived,      \* how many log_match payloads have arrived
    delivered,    \* those passed on: when, and in which window
    told,         \* the sum of the counts of all summaries sent
    dropped       \* what was suppressed and untold when the listener went

limiter == <<windowStart, sentInWindow, suppressed, summaryTimer>>
history == <<arrived, delivered, told, dropped>>
vars == <<limiter, history, disposed, now>>

Never == -1

-----------------------------------------------------------------------------
Expired == windowStart = Never \/ now - windowStart >= Window

AtLimit_OffByOne == sentInWindow > MaxPerWindow

AtLimit == sentInWindow >= MaxPerWindow

(* What a window that a payload finds expired left to be told. *)
PreviousSuppressed_Reset == 0

PreviousSuppressed == IF windowStart = Never THEN 0 ELSE suppressed

(* startWindow clears the old timer before it sets its own. *)
StartedTimer_ThenCleared == Never

StartedTimer == now + Window

Pass(start) == delivered' = Append(delivered, [at |-> now, window |-> start])

(* A log match that begins a window; the previous window's summary goes out
   first. *)
MatchOpensWindow ==
    /\ ~disposed /\ arrived < MaxArrivals /\ Expired
    /\ windowStart' = now
    /\ summaryTimer' = StartedTimer
    /\ told' = told + PreviousSuppressed
    /\ suppressed' = 0 /\ sentInWindow' = 1
    /\ arrived' = arrived + 1
    /\ Pass(now)
    /\ UNCHANGED <<disposed, now, dropped>>

MatchInWindow ==
    /\ ~disposed /\ arrived < MaxArrivals /\ ~Expired
    /\ arrived' = arrived + 1
    /\ IF AtLimit
       THEN /\ suppressed' = suppressed + 1
            /\ UNCHANGED <<sentInWindow, delivered>>
       ELSE /\ sentInWindow' = sentInWindow + 1
            /\ Pass(windowStart)
            /\ UNCHANGED suppressed
    /\ UNCHANGED <<windowStart, summaryTimer, disposed, now, told, dropped>>

resetWindow ==
    /\ windowStart' = Never /\ summaryTimer' = Never
    /\ sentInWindow' = 0 /\ suppressed' = 0

(* The timer: a summary goes out if anything was suppressed. *)
flushSuppressedSummary ==
    /\ summaryTimer # Never /\ summaryTimer <= now
    /\ resetWindow
    /\ told' = told + suppressed
    /\ UNCHANGED <<disposed, now, arrived, delivered, dropped>>

(* session_shutdown disposes the listener. *)
Dispose ==
    /\ ~disposed /\ disposed' = TRUE
    /\ resetWindow
    /\ dropped' = suppressed
    /\ UNCHANGED <<now, arrived, delivered, told>>

Tock ==
    /\ now < MaxTime /\ now' = now + 1
    /\ UNCHANGED <<limiter, history, disposed>>

-----------------------------------------------------------------------------
Init ==
    /\ windowStart = Never /\ sentInWindow = 0 /\ suppressed = 0
    /\ summaryTimer = Never /\ disposed = FALSE /\ now = 0
    /\ arrived = 0 /\ delivered = <<>> /\ told = 0 /\ dropped = 0

Next ==
    \/ MatchOpensWindow \/ MatchInWindow \/ flushSuppressedSummary
    \/ Dispose \/ Tock

Spec == Init /\ [][Next]_vars

(* The timer fires once it is due, and time passes. *)
Fairness == WF_vars(flushSuppressedSummary) /\ WF_vars(Tock)

-----------------------------------------------------------------------------
(* Properties *)

DeliveryTypeOK ==
    /\ windowStart \in Nat \cup {Never} /\ summaryTimer \in Nat \cup {Never}
    /\ sentInWindow \in 0 .. MaxPerWindow /\ suppressed \in Nat
    /\ disposed \in BOOLEAN /\ now \in Nat
    /\ arrived \in Nat /\ told \in Nat /\ dropped \in Nat
    /\ delivered \in Seq([at : Nat, window : Nat])

(* No match is lost without a word: each was passed on, counted in a summary,
   is still counted, or was pending when the session ended. *)
EveryMatchIsAccountedFor ==
    arrived = Len(delivered) + told + suppressed + dropped

(* The limit holds across the border of two windows as well as within one: any
   2 * MaxPerWindow consecutive deliveries span a whole window's length. *)
BurstsAreBounded ==
    \A i \in 1 .. Len(delivered) - (2 * MaxPerWindow - 1) :
        delivered[i + 2 * MaxPerWindow - 1].at - delivered[i].at >= Window

(* Whatever is suppressed has a timer that will tell it at the end of the
   window it was suppressed in, however windows follow one another. *)
SuppressedHasTimer ==
    suppressed > 0 => windowStart # Never /\ summaryTimer = windowStart + Window

(* A summary is not put off for ever by further matches (time permitting). *)
SuppressedIsTold ==
    suppressed > 0 /\ windowStart + Window <= MaxTime
        ~> suppressed = 0
===============================================================================
