---------------------------- MODULE LogSubscriptions ----------------------------
(***************************************************************************)
(* The lines a view of one process shows, from the log and the events      *)
(* (handlers/subscriptions.ts on the side of the manager,                  *)
(* processes-logs/logs-client.ts on that of the views): a view connects    *)
(* with a copy of the end of the log and gets the lines of every later     *)
(* event, until it leaves, the process ends or is forgotten.               *)
(*                                                                         *)
(* A line is its number in the log; Gap is the line that says some were    *)
(* dropped. What a view keeps within its budget is left out.               *)
(***************************************************************************)
EXTENDS OutputPromise, FiniteSets, SequencesExt, FiniteSetsExt

CONSTANTS
    Views,     \* the views that may connect, each once at a time
    TailLines  \* how many lines a view asks for

ASSUME SubscriptionAssumption ==
    Counts \subseteq Nat /\ TailLines \in Nat

VARIABLES
    kept,         \* the manager knows the process
    subscribers,  \* of the views, the manager's
    connected,    \* the views that hold a connection
    shown,        \* the lines of each view
    openedAt      \* how much was logged and announced when the view connected

subscriptionVars == <<outputVars, kept, subscribers, connected, shown, openedAt>>

Gap == 0

Lines(from, to) == [i \in 1 .. to - from |-> from + i]

-----------------------------------------------------------------------------
(* The manager *)

(* The lines of an event as the subscribers get them. *)
ChunkOf_NoGap(event) == event.lines

ChunkOf(event) ==
    (IF event.dropped > 0 THEN <<Gap>> ELSE <<>>) \o event.lines

(* Every subscriber that is connected hears of a new event. *)
Deliver ==
    shown' = [v \in Views |->
        IF feed' # feed /\ v \in subscribers \cap connected
        THEN shown[v] \o ChunkOf(Last(feed')) ELSE shown[v]]

(* process_output_changed *)
Output ==
    /\ Logs \/ TellsLate
    /\ Deliver
    /\ UNCHANGED <<kept, subscribers, connected, openedAt>>

(* process_ended, after the last event of the flush. *)
End ==
    /\ Finishes
    /\ Deliver
    /\ subscribers' = {}
    /\ UNCHANGED <<kept, connected, openedAt>>

(* processes_changed: the record was cleared or reaped. *)
Forget ==
    /\ over /\ kept /\ kept' = FALSE
    /\ subscribers' = {}
    /\ UNCHANGED <<outputVars, connected, shown, openedAt>>

-----------------------------------------------------------------------------
(* The views *)

(* connectToProcessLogs: the copy and the subscription are made in one go. *)
Snapshot(v) == Lines(Max({0, logged - TailLines}), logged)

Connect(v) ==
    /\ v \notin connected
    /\ kept
    /\ subscribers' = subscribers \cup {v}
    /\ connected' = connected \cup {v}
    /\ shown' = [shown EXCEPT ![v] = Snapshot(v)]
    /\ openedAt' = [openedAt EXCEPT ![v] = [logged |-> logged, announced |-> announced]]
    /\ UNCHANGED <<outputVars, kept>>

(* The answer is an error, the view has only what it can read. *)
Refused(v) ==
    /\ v \notin connected /\ ~kept
    /\ shown' = [shown EXCEPT ![v] = <<>>]
    /\ UNCHANGED <<outputVars, kept, subscribers, connected, openedAt>>

Leave(v) ==
    /\ v \in connected /\ connected' = connected \ {v}
    /\ subscribers' = subscribers \ {v}
    /\ UNCHANGED <<outputVars, kept, shown, openedAt>>

-----------------------------------------------------------------------------
SubscriptionInit ==
    /\ OutputInit
    /\ kept = TRUE /\ subscribers = {} /\ connected = {}
    /\ shown = [v \in Views |-> <<>>]
    /\ openedAt = [v \in Views |-> [logged |-> 0, announced |-> 0]]

SubscriptionNext ==
    \/ Output \/ End \/ Forget
    \/ \E v \in Views : Connect(v) \/ Refused(v) \/ Leave(v)

SubscriptionSpec == SubscriptionInit /\ [][SubscriptionNext]_subscriptionVars

-----------------------------------------------------------------------------
(* Properties *)

(* What follows the copy. *)
Streamed(v) ==
    LET copied == Min({openedAt[v].logged, TailLines})
    IN  SubSeq(shown[v], copied + 1, Len(shown[v]))

(* Lines that tell of since + 1 .. upto in turn: each is the successor of the one
   before or comes after a gap, a gap stands for at least one line, without a gap
   they are all there, and the last is upto unless that was dropped. *)
InTurn(lines, since, upto) ==
    /\ Gap \notin Range(lines) => lines = Lines(since, upto)
    /\ \A i \in DOMAIN lines : lines[i] # Gap =>
          /\ lines[i] >= since + i
          /\ i = 1 => lines[i] = since + 1
          /\ i > 1 /\ lines[i - 1] # Gap => lines[i] = lines[i - 1] + 1
    /\ \A i, j \in DOMAIN lines :
          i < j /\ lines[i] # Gap /\ lines[j] # Gap => lines[j] - lines[i] >= j - i
    /\ lines # <<>> => lines[Len(lines)] \in {upto, Gap}

(* A subscriber misses nothing and gets nothing out of turn: after its copy of
   the log come the lines that had not been told of when it was made - these
   it shows a second time - and all later ones, in order, with a gap where
   some were dropped, up to the last line told of. *)
SubscriberKeepsUp ==
    \A v \in subscribers :
        v \in connected /\ InTurn(Streamed(v), openedAt[v].announced, announced)
===============================================================================
