------------------------------- MODULE LogLine -------------------------------
(***************************************************************************)
(* A line of output as rows of a view: cut to the width, or wrapped        *)
(* (shared/truncate.ts, shared/log-line.ts). The tone of a row is left     *)
(* out: it surrounds the whole row.                                        *)
(***************************************************************************)
EXTENDS DisplayText, FiniteSetsExt

CONSTANTS
    RowWidths,   \* the widths of rows looked at
    LabelWidth,  \* of the dock's label before a row
    MaxText, MaxLaidOut  \* bounds of the model: of any text, and of one without controls

VARIABLES
    text  \* as the process wrote it

(* Continuation rows give up two cells to their marker. *)
Indent == 2

(* On narrower rows wrapping a wide glyph or a tab throws; the overlay has at
   least MIN_OVERLAY_WIDTH columns. *)
ASSUME RowAssumption ==
    /\ RowWidths \subseteq {w \in Nat : w - Indent >= CellsOf("tab")}
    /\ LabelWidth \in Nat /\ MaxText \in Nat /\ MaxLaidOut \in Nat

-----------------------------------------------------------------------------
(* truncateToWidth *)

(* What is kept ends with a cell: colours set after it are lost. *)
KeptPrefix(t, width) ==
    SubSeq(t, 1, Max({0} \cup {i \in DOMAIN t : CellsOf(t[i]) > 0
                                   /\ visibleWidth(SubSeq(t, 1, i)) <= width}))

Padded(t, width) == t \o Spaces(width - visibleWidth(t))

(* The room there is for text beside the indicator. *)
Target(width, indicator) == width - visibleWidth(indicator)

truncateToWidth(t, width, indicator) ==
    IF visibleWidth(t) <= width THEN t
    ELSE KeptPrefix(t, Target(width, indicator)) \o indicator

-----------------------------------------------------------------------------
(* wrapToWidth *)

FlushedRow(row, width, open) ==
    LET padded == Padded(row, width)
    IN  IF open # <<>> /\ ~EndsClosed(trimEnd(padded)) THEN Append(padded, "reset") ELSE padded

(* What a continuation row begins with. *)
Reopened_Plain(open) == <<>>
Reopened(open) == open

Flush(s) ==
    [s EXCEPT !.rows = Append(@, FlushedRow(s.current \o s.pending, s.width, s.open)),
              !.current = Reopened(s.open), !.pending = <<>>, !.width = s.rest]

(* A row that has nothing yet takes a cell of any width. *)
Put(s, cells) ==
    LET full == visibleWidth(s.current) + visibleWidth(cells) > s.width /\ s.current # <<>>
        row == IF full THEN Flush(s) ELSE s
    IN  [row EXCEPT !.current = @ \o row.pending \o cells, !.pending = <<>>]

(* Colours wait for the next cell. *)
Opened(open, c) == IF c = "reset" THEN <<>> ELSE Append(open, c)

WrapStep(s, c) ==
    IF c \in Sgr THEN [s EXCEPT !.pending = Append(@, c), !.open = Opened(@, c)]
    ELSE IF c = "tab" THEN Put(s, Spaces(3))
    ELSE Put(s, <<c>>)

wrapToWidth(t, width, indent) ==
    LET first == [rows |-> <<>>, current |-> <<>>, pending |-> <<>>, open |-> <<>>,
                  width |-> width, rest |-> Max({1, width - indent})]
    IN  Flush(FoldLeft(WrapStep, first, t)).rows

-----------------------------------------------------------------------------
(* truncateForDisplay, renderLogLine and renderLogLineWrap. *)

truncateForDisplay(raw, width) ==
    closeSgr(truncateToWidth(sanitizeForDisplay(raw), width, <<"ellipsis">>))

TextOf(raw, plain) == IF plain THEN plainTextForDisplay(raw) ELSE sanitizeForDisplay(raw)

renderLogLine(t, width, label) ==
    LET room == Max({1, width - label})
    IN  closeSgr(Padded(truncateToWidth(t, room, <<"arrow">>), room))

renderLogLineWrap(t, width) == wrapToWidth(t, width, Indent)

-----------------------------------------------------------------------------
(* What other callers lay out is not sanitized: it may hold tabs. *)
Layout == {"a", "wide", "tab", "red", "bold", "reset"}

TextInit == text = <<>>

(* The process writes; longer texts only of what rows are laid out from. *)
TextNext ==
    \E c \in Tokens \ {"arrow", "ellipsis"} :
        /\ text' = Append(text, c)
        /\ \/ Len(text') <= MaxText
           \/ Len(text') <= MaxLaidOut /\ ToSet(text') \subseteq Layout

TextSpec == TextInit /\ [][TextNext]_text

-----------------------------------------------------------------------------
(* Properties *)

Shown(t) == Painted(t).shown
Closed(t) == Painted(t).pen = {}

(* Whatever a process writes, of what is drawn nothing acts on the terminal,
   no colour is left set, and doing it twice changes nothing. *)
DrawsSafely(safe) ==
    /\ ToSet(safe) \subseteq Glyphs \cup Sgr /\ Closed(safe)
    /\ sanitizeForDisplay(safe) = safe

(* Wrapped rows show every glyph of the line, in its colours and in order; each
   row is exactly as wide as it should be and leaves no colour set. *)
WrapsFaithfully(t, w) ==
    \E rows \in {renderLogLineWrap(t, w)} :
        /\ Shown(FlattenSeq(rows)) = Shown(t)
        /\ \A i \in DOMAIN rows :
              /\ visibleWidth(rows[i]) = IF i = 1 THEN w ELSE w - Indent
              /\ Closed(rows[i])

(* A cut row is exactly as wide as it should be, leaves no colour set, and shows
   the line, or a beginning of it and the indicator if the line is wider. *)
CutsFaithfully(t, w) ==
    \E row \in {renderLogLine(t, w + LabelWidth, LabelWidth)} :
        /\ visibleWidth(row) = w /\ Closed(row)
        /\ IF visibleWidth(t) <= w THEN Shown(row) = Shown(t)
           ELSE Last(Shown(row))[1] = "arrow" /\ IsPrefix(Front(Shown(row)), Shown(t))

(* The rows of a view show what its process wrote, and no more than the view
   gave it room for, whatever controls, colours and wide glyphs it wrote. *)
RowsShowText ==
    /\ \A plain \in BOOLEAN : DrawsSafely(TextOf(text, plain))
    /\ \A t \in {TextOf(text, plain) : plain \in BOOLEAN}
             \cup (IF ToSet(text) \subseteq Layout THEN {text} ELSE {}) :
          \A w \in RowWidths : WrapsFaithfully(t, w) /\ CutsFaithfully(t, w)
    /\ \A w \in RowWidths :
          \E label \in {truncateForDisplay(text, w)} : visibleWidth(label) <= w /\ Closed(label)
===============================================================================
