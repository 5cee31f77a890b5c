------------------------------- MODULE ListEvents -------------------------------
(***************************************************************************)
(* The events of the manager as they reach a view that rereads the list in *)
(* their handlers (hooks/event-bridge.ts): one for an end, told while the  *)
(* registry still knows all of them, one for a change of the list. A step  *)
(* of ManagerPromise may emit both, with the reap that follows an end.     *)
(***************************************************************************)
EXTENDS ManagerPromise, Sequences, SequencesExt, FiniteSetsExt

(* The list, as a view reads it. *)
List(ids, st) ==
    [ids |-> ids,
     live |-> {p \in ids : st[p] \in Live},
     running |-> {p \in ids : st[p] = "running"}]

ListNow == List(known, status)

Started == {p \in Procs : status[p] = "absent" /\ status'[p] # "absent"}

EndedNow == {p \in Procs : ended'[p] # ended[p]}

EndEvent == [reason |-> "ended", gone |-> EndedNow, list |-> List(known \cup Started, status')]

ListEvent == [reason |-> "list", gone |-> Procs \ known', list |-> List(known', status')]

(* The handler of a view makes heard of its state in a step: it hears of an end,
   if there is one, and then of what else has changed the list. Each event comes
   with the list at its time and with the processes whose subscribers the core
   drops after it. (The bound events are evaluated once.) *)
Heard(Handler(_, _), view, heard) ==
    \E end \in {EndEvent}, list \in {ListEvent} :
        LET told == IF end.gone = {} THEN view ELSE Handler(view, end)
        IN  heard = IF known' = (IF end.gone = {} THEN known ELSE known \cup Started) THEN told
                    ELSE Handler(told, list)

(* A finite set in an order of its members: n - 1 of them come before the n-th. *)
Ordered(S, Before(_, _)) ==
    [n \in 1 .. Cardinality(S) |->
        CHOOSE x \in S : Cardinality({y \in S : Before(y, x)}) = n - 1]
=================================================================================
