------------------------------ MODULE DockLines ------------------------------
(***************************************************************************)
(* What fits into one line about the processes, and into the rows of the   *)
(* dock: the status line below the editor (widget/status.ts), the dock's   *)
(* strip and its log (log-dock-component.ts), and the tab bar of the log   *)
(* overlay. A process is its state and the width of its name; a token is   *)
(* its process or a summary, and its width. Processes end in the order in  *)
(* which they are listed: their widths and states are in any order.        *)
(***************************************************************************)
EXTENDS Integers, Sequences, SequencesExt, FiniteSetsExt

CONSTANTS
    LineWidths, NameWidths,
    PrefixWidth, GapWidth, SuffixWidth, ArrowWidth, \* of "ps: ", of the gap, of "+N more", of an arrow
    MaxEntries, MaxRepeats  \* bounds of the model

ASSUME LineAssumption ==
    /\ LineWidths \subseteq Nat /\ NameWidths \subseteq Nat \ {0}
    /\ {PrefixWidth, GapWidth, SuffixWidth, ArrowWidth, MaxEntries, MaxRepeats} \subseteq Nat

VARIABLES
    entries,  \* the snapshot's processes
    recent    \* the pinned process's lines

EntryStates == {"live", "failed", "killed", "done"}

Done == "done"

Summary(count) == [done |-> count, width |-> SuffixWidth]

TokenOf(i) == [proc |-> i, width |-> entries[i].width]

Indices(Test(_)) == SelectSeq([i \in DOMAIN entries |-> i], Test)

(* One token each, but one for all that ended well. *)
WithSummary(shown, done) ==
    [n \in DOMAIN shown |-> TokenOf(shown[n])]
        \o (IF done = <<>> THEN <<>> ELSE <<Summary(Len(done))>>)

-----------------------------------------------------------------------------
(* The status line: live processes, the others by the time of their end. *)
Live(i) == entries[i].state = "live"

partitionForStatusLine ==
    LET finished == SortSeq(Indices(LAMBDA i : ~Live(i)),
                            LAMBDA i, j : i > j)
        all == Indices(Live) \o finished
    IN  [individual |-> SelectSeq(all, LAMBDA i : entries[i].state # Done),
         exitedSuccess |-> SelectSeq(all, LAMBDA i : entries[i].state = Done)]

StatusTokens ==
    WithSummary(partitionForStatusLine.individual, partitionForStatusLine.exitedSuccess)

(* The width of the first n tokens, and of what says that more follow. *)
WidthOf(tokens) == SumFunction([n \in DOMAIN tokens |-> tokens[n].width])

Joined(tokens, gap) == WidthOf(tokens) + gap * Max({0, Len(tokens) - 1})

Reserved_Not(tokens, n) == 0
Reserved(tokens, n) == IF n < Len(tokens) THEN GapWidth + SuffixWidth ELSE 0

FitsStatus(tokens, n, width) ==
    PrefixWidth + Joined(SubSeq(tokens, 1, n), GapWidth) + Reserved(tokens, n) <= width

(* The first is always shown; the first that does not fit ends the line. *)
renderStatusWidget(tokens, width) ==
    LET n == Max({i \in DOMAIN tokens : \A j \in 2 .. i : FitsStatus(tokens, j, width)})
    IN  [shown |-> SubSeq(tokens, 1, n), hidden |-> Len(tokens) - n]

-----------------------------------------------------------------------------
(* The strip of the dock: the pinned process stands with the live ones. *)
renderProcessStrip(pinned) ==
    LET first(i) == Live(i) \/ i = pinned
        finished == Indices(LAMBDA i : ~first(i))
    IN  WithSummary(Indices(first) \o SelectSeq(finished, LAMBDA i : entries[i].state # Done),
                    SelectSeq(finished, LAMBDA i : entries[i].state = Done))

-----------------------------------------------------------------------------
(* The tab bar: a window around the selected tab that grows while it fits. *)
WindowWidth(tabs, from, to) ==
    Joined(SubSeq(tabs, from, to), 1)
        + (IF from > 1 THEN ArrowWidth ELSE 0)
        + (IF to < Len(tabs) THEN ArrowWidth ELSE 0)

tabWindowFits(tabs, from, to, width) ==
    from >= 1 /\ to <= Len(tabs) /\ WindowWidth(tabs, from, to) <= width

Grown(tabs, active, width, window) ==
    LET left == tabWindowFits(tabs, window.from - 1, window.to, width)
        right == tabWindowFits(tabs, window.from, window.to + 1, width)
    IN  IF left /\ (right => active - window.from <= window.to - active)
        THEN [window EXCEPT !.from = @ - 1]
        ELSE IF right THEN [window EXCEPT !.to = @ + 1]
        ELSE window

renderTabWindow(tabs, active, width) ==
    FoldLeft(LAMBDA window, step : Grown(tabs, active, width, window),
             [from |-> active, to |-> active], tabs)

renderTabBar(tabs, active, width) ==
    IF Joined(tabs, 1) <= width THEN [from |-> 1, to |-> Len(tabs)]
    ELSE renderTabWindow(tabs, active, width)

-----------------------------------------------------------------------------
(* The log: a line that comes three times or more is shown once and counted. *)
Repeats(lines, i) ==
    Max({n \in 1 .. Len(lines) - i + 1 :
            \A j \in i .. i + n - 1 : lines[j] = lines[i]})

StartsRun(lines, i) == i = 1 \/ lines[i - 1] # lines[i]

Counted(n) == n - 1

compactRepeatedLines(lines) ==
    FlattenSeq([i \in DOMAIN lines |->
        IF ~StartsRun(lines, i) THEN <<>>
        ELSE IF Repeats(lines, i) >= 3
             THEN <<[line |-> lines[i], more |-> 0],
                    [line |-> lines[i], more |-> Counted(Repeats(lines, i))]>>
        ELSE [n \in 1 .. Repeats(lines, i) |-> [line |-> lines[i], more |-> 0]]])

-----------------------------------------------------------------------------
LinesInit == entries = <<>> /\ recent = <<>>

Listing ==
    /\ recent = <<>> /\ Len(entries) < MaxEntries
    /\ \E state \in EntryStates, width \in NameWidths :
          entries' = Append(entries, [state |-> state, width |-> width])
    /\ UNCHANGED recent

Logging ==
    /\ entries = <<>> /\ Len(recent) < MaxRepeats
    /\ \E line \in {"x", "y"} : recent' = Append(recent, line)
    /\ UNCHANGED entries

LinesNext == Listing \/ Logging

LinesSpec == LinesInit /\ [][LinesNext]_<<entries, recent>>

-----------------------------------------------------------------------------
(* Properties *)

(* How many processes tokens stand for, those that ended well together. *)
Told(tokens) ==
    SumFunction([n \in DOMAIN tokens |-> IF "proc" \in DOMAIN tokens[n] THEN 1 ELSE tokens[n].done])

Named(tokens) == {tokens[n].proc : n \in {m \in DOMAIN tokens : "proc" \in DOMAIN tokens[m]}}

(* The status line fits, wherever its first token does with the count of the
   rest; what it hides it counts, and it hides no live process beside one that
   has ended. *)
StatusTellsAll ==
    entries # <<>> => \A width \in LineWidths :
        \E line \in {renderStatusWidget(StatusTokens, width)} :
            /\ Len(line.shown) + line.hidden = Len(StatusTokens)
            /\ FitsStatus(StatusTokens, 1, width) =>
                  PrefixWidth + Joined(line.shown, GapWidth)
                      + (IF line.hidden > 0 THEN GapWidth + SuffixWidth ELSE 0) <= width
            /\ (\E i \in Named(line.shown) : ~Live(i))
                  => {i \in DOMAIN entries : Live(i)} \subseteq Named(line.shown)

(* The strip names or counts every process once, and the pinned one by name. *)
StripTellsAll ==
    \A pinned \in {0} \cup DOMAIN entries :
        \E strip \in {renderProcessStrip(pinned)} :
            /\ Told(strip) = Len(entries)
            /\ pinned # 0 => pinned \in Named(strip)
            /\ \A i \in DOMAIN entries \ Named(strip) : entries[i].state = Done

(* The tab bar shows the selected tab, fits where that tab alone does between
   its arrows, and leaves out no neighbour there is room for. *)
TabsShowSelected ==
    LET tabs == [i \in DOMAIN entries |-> TokenOf(i)]
    IN  \A width \in LineWidths : \A active \in DOMAIN tabs :
            \E bar \in {renderTabBar(tabs, active, width)} :
                /\ active \in bar.from .. bar.to
                /\ WindowWidth(tabs, active, active) <= width
                      => WindowWidth(tabs, bar.from, bar.to) <= width
                /\ ~tabWindowFits(tabs, bar.from - 1, bar.to, width)
                /\ ~tabWindowFits(tabs, bar.from, bar.to + 1, width)

(* The lines counted are the lines that were logged. *)
CountsRepeats ==
    FlattenSeq([n \in DOMAIN compactRepeatedLines(recent) |->
        LET row == compactRepeatedLines(recent)[n]
        IN  [k \in 1 .. Max({1, row.more}) |-> row.line]]) = recent

(* However many processes there are and however narrow the line, each is shown
   or counted; so is every repeated line. *)
NothingIsHidden ==
    StatusTellsAll /\ StripTellsAll /\ TabsShowSelected /\ CountsRepeats
===============================================================================
