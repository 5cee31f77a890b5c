------------------------------- MODULE LineBuffer -------------------------------
(***************************************************************************)
(* The buffers of the views (shared/line-buffer.ts): the newest lines that *)
(* keep to a number and to a number of bytes. Here a line is its number;   *)
(* a note on lines that were dropped is a negative one.                    *)
(***************************************************************************)
EXTENDS Places, Sequences, SequencesExt, FiniteSetsExt, Functions

CONSTANTS
    LongLines,  \* the lines that take two bytes, and two rows when wrapped
    MaxBytes    \* output.maxOutputBytes

ASSUME BufferAssumption == LongLines \subseteq Nat /\ MaxBytes \in Nat

(* A long line counts twice. *)
Bytes(lines) == Len(lines) + Cardinality({i \in DOMAIN lines : lines[i] \in LongLines})

(* The last n of a sequence. *)
Newest(lines, n) == SubSeq(lines, Max({1, Len(lines) - n + 1}), Len(lines))

(* From the newest line back to the first that is over budget; the newest stays
   even if it is that one. *)
trimToBudget(lines, maxLines) ==
    LET out == Newest(lines, maxLines)
        over == {i \in DOMAIN out : Bytes(SubSeq(out, i, Len(out))) > MaxBytes}
    IN  IF over = {} THEN out
        ELSE SubSeq(out, Min({Max(over) + 1, Len(out)}), Len(out))

(* The note on the lines an event dropped, and those it carries. *)
Appended(dropped, first, last) ==
    (IF dropped > 0 THEN <<-last>> ELSE <<>>)
        \o [i \in 1 .. last - first + 1 |-> first + i - 1]
=================================================================================
