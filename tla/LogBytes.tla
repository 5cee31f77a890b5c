-------------------------------- MODULE LogBytes --------------------------------
(***************************************************************************)
(* Bytes of output as sequences - Newline, Return and the ordinary ones -  *)
(* and their lines.                                                        *)
(***************************************************************************)
EXTENDS Places, Sequences, SequencesExt, FiniteSetsExt

Newline == "nl"
Return == "cr"

Newlines(bytes) == {i \in DOMAIN bytes : bytes[i] = Newline}

(* Where a line ends that so many newlines end. *)
LineEnd(bytes, n) == IF n = 0 THEN 0 ELSE Nth(Newlines(bytes), n)

(* What precedes each newline, and what follows the last. *)
Terminated(bytes) ==
    [n \in 1 .. Cardinality(Newlines(bytes)) |->
        SubSeq(bytes, LineEnd(bytes, n - 1) + 1, LineEnd(bytes, n) - 1)]

Unterminated(bytes) ==
    SubSeq(bytes, Max({0} \cup Newlines(bytes)) + 1, Len(bytes))

WithoutReturn(line) ==
    IF line # <<>> /\ Last(line) = Return THEN Front(line) ELSE line
===============================================================================
