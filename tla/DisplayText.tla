----------------------------- MODULE DisplayText -----------------------------
(***************************************************************************)
(* A line of terminal output made safe to draw in one row                  *)
(* (shared/display-text.ts).                                               *)
(*                                                                         *)
(* A text is a sequence of cells and controls. A control sequence is one   *)
(* element; a control string is its introducer, and takes what follows up  *)
(* to a terminator. Glyphs are narrow or wide; of the colours and          *)
(* attributes there are two.                                               *)
(***************************************************************************)
EXTENDS Integers, Sequences, SequencesExt

CONSTANT
    TabStop  \* TAB_WIDTH

ASSUME DisplayAssumption == TabStop \in Nat \ {0}

Blank == " "
Glyphs == {Blank, "a", "wide", "arrow", "ellipsis"}
Sgr == {"red", "bold", "clear", "reset"}  \* clear is the reset without a digit, as in ESC[m

(* Dropped alone: BEL and ST here, and any other control or sequence. Dropped
   with what follows: OSC and APC, DCS, a control sequence that breaks off. *)
Dropped == {"bel", "st"}
Terminators ==
    [osc |-> {"bel", "st"}, dcs |-> {"st"}, broken |-> {}]

Tokens == Glyphs \cup Sgr \cup Dropped \cup DOMAIN Terminators \cup {"tab", "return"}

Spaces(n) == [i \in 1 .. n |-> Blank]

(* visibleWidth; a tab counts as three cells wherever it stands. *)
CellsOf(c) ==
    IF c = "wide" THEN 2 ELSE IF c = "tab" THEN 3 ELSE IF c \in Glyphs THEN 1 ELSE 0

Add(n, c) == n + CellsOf(c)
visibleWidth(text) == FoldLeft(Add, 0, text)

(* endsWith(RESET), of the text or of what trimEnd leaves of it. *)
EndsClosed(text) == text # <<>> /\ Last(text) = "reset"

trimEnd(text) ==
    SubSeq(text, 1, SelectLastInSeq(text, LAMBDA c : c \notin {Blank, "tab"}))

-----------------------------------------------------------------------------
(* What is kept so far, its width, and what ends the control string read. *)
Unread == [out |-> <<>>, column |-> 0, within |-> "none"]

(* A return starts the row anew, colours included. *)
Returned(s) == [s EXCEPT !.out = <<>>, !.column = 0]

Kept(s, cells) == [s EXCEPT !.out = @ \o cells, !.column = @ + visibleWidth(cells)]

Read(s, c) ==
    CASE s.within # "none" ->
            IF c \in Terminators[s.within] THEN [s EXCEPT !.within = "none"] ELSE s
      [] s.within = "none" /\ c \in DOMAIN Terminators -> [s EXCEPT !.within = c]
      [] s.within = "none" /\ c = "return" -> Returned(s)
      [] s.within = "none" /\ c = "tab" -> Kept(s, Spaces(TabStop - (s.column % TabStop)))
      [] s.within = "none" /\ c \in Glyphs \cup Sgr -> Kept(s, <<c>>)
      [] OTHER -> s

sanitizeForDisplay(text) ==
    LET out == FoldLeft(Read, Unread, text).out
    IN  IF \A i \in DOMAIN out : out[i] \notin Sgr THEN out
        ELSE IF EndsClosed(out) THEN out ELSE Append(out, "reset")

stripSgr(text) == SelectSeq(text, LAMBDA c : c \notin Sgr)

plainTextForDisplay(text) == stripSgr(sanitizeForDisplay(text))

closeSgr(text) ==
    IF (\A i \in DOMAIN text : text[i] \notin Sgr) \/ EndsClosed(trimEnd(text)) THEN text
    ELSE Append(text, "reset")

-----------------------------------------------------------------------------
(* What a terminal shows of a text: its glyphs, each with the colours that are
   set, and those still set at its end. Gaps are not told apart. *)
Paint(screen, c) ==
    IF c \in {"reset", "clear"} THEN [screen EXCEPT !.pen = {}]
    ELSE IF c \in Sgr THEN [screen EXCEPT !.pen = @ \cup {c}]
    ELSE IF c \in {Blank, "tab"} THEN screen
    ELSE [screen EXCEPT !.shown = Append(@, <<c, screen.pen>>)]

Painted(text) == FoldLeft(Paint, [shown |-> <<>>, pen |-> {}], text)
===============================================================================
