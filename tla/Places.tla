-------------------------------- MODULE Places --------------------------------
(***************************************************************************)
(* Some places of a list, numbers from 1 on: how many there are up to one  *)
(* of them, the n-th of them, and the list of what is there. Wherever the  *)
(* code filters an array it keeps the places of what passes, in order.     *)
(***************************************************************************)
EXTENDS Integers, FiniteSets

Rank(places, i) == Cardinality({j \in places : j <= i})

Nth(places, n) == CHOOSE i \in places : Rank(places, i) = n

Picked(seq, places) == [n \in 1 .. Cardinality(places) |-> seq[Nth(places, n)]]
===============================================================================
