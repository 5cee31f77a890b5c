----------------------------- MODULE OutputPromise -----------------------------
(***************************************************************************)
(* What the manager promises of the output of one process, without chunks, *)
(* streams, throttling or timers: lines go to the log, and events tell of  *)
(* every one of them in turn, the oldest perhaps only by their number.     *)
(*                                                                         *)
(* ProcessOutput implements this specification (OutputIsPromised there);   *)
(* LogSubscriptions is built on it.                                        *)
(***************************************************************************)
EXTENDS Integers, Sequences

CONSTANTS
    Counts  \* the numbers of lines the log may have

VARIABLES
    logged,     \* how many lines the log has
    announced,  \* how many of them events have told of
    feed,       \* the process_output_changed events, in order
    over        \* the record has finished

outputVars == <<logged, announced, feed, over>>

(* An event for the lines from, exclusive, to upto: some dropped, the others
   there. *)
Event(from, upto, dropped) ==
    [dropped |-> dropped, lines |-> [i \in 1 .. upto - from - dropped |-> from + dropped + i]]

Tells ==
    /\ announced < logged' /\ announced' = logged'
    /\ \E dropped \in 0 .. logged' - announced : feed' = Append(feed, Event(announced, announced', dropped))

Silent == UNCHANGED <<announced, feed>>

(* Output arrives; what is logged may be told of at once. *)
Logs ==
    /\ logged' \in Counts /\ logged' >= logged
    /\ Tells \/ Silent
    /\ UNCHANGED over

(* The throttled event. *)
TellsLate == UNCHANGED <<logged, over>> /\ Tells

(* The record finishes: what the streams still hold is logged and told of. *)
Finishes ==
    /\ over' = TRUE
    /\ logged' \in Counts /\ logged' >= logged
    /\ \/ Tells
       \/ Silent /\ announced = logged'

-----------------------------------------------------------------------------
OutputInit == logged = 0 /\ announced = 0 /\ feed = <<>> /\ over = FALSE

OutputNext == Logs \/ TellsLate \/ Finishes

OutputSpec == OutputInit /\ [][OutputNext]_outputVars
===============================================================================
