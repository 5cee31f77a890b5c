------------------------------ MODULE LogFileViewer ------------------------------
(***************************************************************************)
(* One viewer of the log overlay                                           *)
(* (processes-logs/components/log-file-viewer.ts): a bounded buffer of     *)
(* lines that grows at the end while its reader follows, scrolls, wraps,   *)
(* picks a stream and steps through the matches of a search. Keys and      *)
(* output come in any order between two renderings, and the terminal may   *)
(* change its size.                                                        *)
(*                                                                         *)
(* Positions in the code count from 0 and an end is exclusive: the anchor  *)
(* is here the number of the last row shown. What the reader did since the *)
(* screen was last rendered (did) is kept for the properties.              *)
(***************************************************************************)
EXTENDS LineBuffer

CONSTANTS
    MaxShown,        \* lines that arrive, a bound of the model
    StderrLines,     \* those of stderr
    MatchingLines,            \* those a search finds
    MaxBufferLines,  \* output.maxOutputLines
    Heights,         \* of the log area
    FollowByDefault

ASSUME ViewerAssumption ==
    /\ MaxShown \in Nat /\ StderrLines \subseteq Nat /\ MatchingLines \subseteq Nat
    /\ MaxBufferLines \in Nat \ {0} /\ Heights \subseteq Nat \ {0}
    /\ FollowByDefault \in BOOLEAN

VARIABLES
    arrived,  \* how many lines have arrived
    viewer,
    screen,   \* of the last rendering: its size and the rows shown
    did

viewerVars == <<arrived, viewer, screen, did>>

Nowhere == -1

StreamFilters == <<"both", "stdout", "stderr">>

Doing(scrolled, jumped, appended) ==
    [scrolled |-> scrolled, jumped |-> jumped, appended |-> appended, times |-> 0]

(* Nothing, and anything after which the properties expect nothing more, such
   as output that came. *)
Still == Doing(0, FALSE, FALSE)
Other == Doing(0, FALSE, TRUE)

-----------------------------------------------------------------------------
Streamed(v, line) ==
    v.streamFilter = "both" \/ (line \in StderrLines) = (v.streamFilter = "stderr")

visibleLines(v) == Picked(v.lines, {i \in DOMAIN v.lines : Streamed(v, v.lines[i])})

(* A long line wraps in a narrow terminal. *)
RowCount(v, lines) == IF v.wrap /\ v.narrow THEN Bytes(lines) ELSE Len(lines)

totalDisplayRows(v) == RowCount(v, visibleLines(v))

(* refreshMatches: indices of the visible lines that match. *)
searchMatches(v) ==
    LET visible == visibleLines(v)
    IN  Picked([i \in DOMAIN visible |-> i],
               {i \in DOMAIN visible : v.query = "hit" /\ visible[i] \in MatchingLines})

(* The current match is a position in the list of matches, 0 for none. *)
refreshMatches(v) ==
    [v EXCEPT !.current = IF v.query = "none" THEN 0
                          ELSE IF @ > Len(searchMatches(v)) THEN Max({1, Len(searchMatches(v))})
                          ELSE @]

Anchored(v) == [v EXCEPT !.follow = FALSE,
                         !.anchorEnd = IF @ = Nowhere THEN totalDisplayRows(v) ELSE @]

JumpedTo(v, n) ==
    [v EXCEPT !.follow = FALSE, !.current = n, !.centerTarget = searchMatches(v)[n]]

-----------------------------------------------------------------------------
(* render. The anchor is written back as it is clamped. *)

RowOf(v, i) ==
    LET visible == visibleLines(v)
    IN  IF ~v.wrap THEN i
        ELSE IF i \in DOMAIN visible THEN RowCount(v, SubSeq(visible, 1, i - 1)) + 1 ELSE 1

Centered(v, height) ==
    IF v.centerTarget = Nowhere THEN v
    ELSE [v EXCEPT !.centerTarget = Nowhere,
             !.anchorEnd = Min({totalDisplayRows(v),
                                RowOf(v, v.centerTarget) + (height \div 2)})]

ShownEnd(v, height) ==
    LET total == totalDisplayRows(v)
        rawEnd == IF v.follow \/ v.anchorEnd = Nowhere THEN total ELSE v.anchorEnd
    IN  Min({total, Max({Min({height, total}), rawEnd})})

WrittenBack_Stale(v, end) == v

WrittenBack(v, end) ==
    IF v.follow \/ v.anchorEnd = Nowhere THEN v ELSE [v EXCEPT !.anchorEnd = end]

Render(height, narrow) ==
    LET sized == [viewer EXCEPT !.narrow = narrow, !.rendered = TRUE]
        centered == IF visibleLines(viewer) = <<>> THEN sized ELSE Centered(sized, height)
        end == ShownEnd(centered, height)
    IN  /\ viewer' = IF visibleLines(viewer) = <<>> THEN sized ELSE WrittenBack(centered, end)
        /\ screen' = [height |-> height, narrow |-> narrow,
                      end |-> end, start |-> Max({0, end - height}),
                      lines |-> visibleLines(viewer)]
        /\ did' = Still
        /\ UNCHANGED arrived

(* The last row shown, as the footer tells it (getStatusParts). *)
FooterEnd(v) ==
    IF v.anchorEnd = Nowhere THEN totalDisplayRows(v)
    ELSE Min({totalDisplayRows(v), Max({0, v.anchorEnd})})

-----------------------------------------------------------------------------
(* Output, of which the newest is kept. *)
appendLines(n) ==
    LET lines == [i \in 1 .. n |-> arrived + i]
        grown == refreshMatches([viewer EXCEPT !.lines = trimToBudget(@ \o lines, MaxBufferLines)])
    IN  /\ arrived + n <= MaxShown /\ arrived' = arrived + n
        /\ viewer' = IF grown.follow THEN [grown EXCEPT !.anchorEnd = Nowhere] ELSE grown
        /\ did' = [did EXCEPT !.appended = TRUE]
        /\ UNCHANGED screen

(* Keys; a few between two renderings. *)
ViewerKey(v, done) ==
    /\ did.times < 2
    /\ viewer' = v
    /\ did' = [done EXCEPT !.times = did.times + 1]
    /\ UNCHANGED <<arrived, screen>>

scrollBy(delta) ==
    LET v == Anchored(viewer)
    IN  ViewerKey([v EXCEPT !.anchorEnd = Max({0, Min({totalDisplayRows(v), @ - delta})})],
            IF did = Still /\ (viewer.follow => viewer.anchorEnd \in {Nowhere, screen.end})
            THEN Doing(delta, FALSE, FALSE) ELSE Other)

scrollToTop == ViewerKey([viewer EXCEPT !.follow = FALSE, !.anchorEnd = 0], Other)

scrollToBottom ==
    ViewerKey([viewer EXCEPT !.follow = FALSE, !.anchorEnd = totalDisplayRows(viewer)], Other)

Reanchored(v) ==
    [v EXCEPT !.anchorEnd = IF v.follow THEN Nowhere ELSE totalDisplayRows(v)]

toggleFollow == ViewerKey(Reanchored([viewer EXCEPT !.follow = ~@]), Other)

(* A width is known from the first rendering on. *)
toggleWrap == ViewerKey(Reanchored([viewer EXCEPT !.wrap = ~@]), Other)

cycleStreamFilter ==
    LET i == CHOOSE n \in 1 .. 3 : StreamFilters[n] = viewer.streamFilter
        v == [viewer EXCEPT !.streamFilter = StreamFilters[(i % 3) + 1]]
    IN  ViewerKey(refreshMatches([v EXCEPT !.anchorEnd = totalDisplayRows(v)]), Other)

(* Enter in the search input; the newest match is the first. *)
setSearch(query) ==
    LET v == refreshMatches([Anchored(viewer) EXCEPT !.query = query])
        matches == searchMatches(v)
    IN  ViewerKey(IF matches = <<>> THEN [v EXCEPT !.current = 0] ELSE JumpedTo(v, Len(matches)),
            Doing(0, matches # <<>>, FALSE))

clearSearch == ViewerKey([viewer EXCEPT !.query = "none", !.current = 0], Other)

(* Counted from 0 the match before none is the last but one. *)
Step(forward) ==
    LET count == Len(searchMatches(viewer))
        at == viewer.current - 1
    IN  /\ count > 0
        /\ ViewerKey(JumpedTo(viewer, IF forward THEN ((at + 1) % count) + 1
                                ELSE ((at - 1 + count) % count) + 1),
               Doing(0, TRUE, FALSE))

-----------------------------------------------------------------------------
NewViewer(lines) ==
    [lines |-> trimToBudget(lines, MaxBufferLines), anchorEnd |-> Nowhere,
     follow |-> FollowByDefault, streamFilter |-> "both", query |-> "none", current |-> 0,
     centerTarget |-> Nowhere, wrap |-> FALSE, narrow |-> FALSE, rendered |-> FALSE]

ViewerInit ==
    /\ arrived \in 0 .. 2 /\ viewer = NewViewer([i \in 1 .. arrived |-> i])
    /\ screen = [height |-> 0, narrow |-> FALSE, end |-> 0, start |-> 0, lines |-> <<>>]
    /\ did = Other

ViewerNext ==
    \/ \E height \in Heights, narrow \in BOOLEAN : Render(height, narrow)
    \/ \E n \in 1 .. MaxShown : appendLines(n)
    \/ viewer.rendered /\ \E h \in Heights : scrollBy(1) \/ scrollBy(-1) \/ scrollBy(h) \/ scrollBy(-h)
    \/ viewer.rendered /\
          \/ scrollToTop \/ scrollToBottom \/ toggleFollow \/ toggleWrap \/ cycleStreamFilter
          \/ setSearch("hit") \/ setSearch("miss") \/ clearSearch
          \/ Step(TRUE) \/ Step(FALSE)

ViewerSpec == ViewerInit /\ [][ViewerNext]_viewerVars

-----------------------------------------------------------------------------
(* Properties *)

Clamped(n, low, high) == Max({low, Min({n, high})})

SameSize == screen'.height = screen.height /\ screen'.narrow = screen.narrow

(* The screen moves by what a key asks for, less only at the ends. (Not where
   the stream was changed while following and the terminal resized before the
   next output: scrolling then begins at the anchor of the former size.) *)
ScrollsAsAsked ==
    did.scrolled # 0 /\ ~did.appended /\ SameSize =>
        screen'.end = Clamped(screen.end - did.scrolled,
                              Min({screen.height, totalDisplayRows(viewer)}),
                              totalDisplayRows(viewer))

(* A match that was jumped to is on the screen. *)
MatchIsShown ==
    did.jumped /\ ~did.appended =>
        RowOf(viewer', searchMatches(viewer)[viewer.current]) \in screen'.start + 1 .. screen'.end

(* A reader who does not follow reads on where he was, until lines go. (Not one
   before whom there were none: nothing drawn, his anchor stayed as it was.) *)
OutputWaits ==
    did = Other /\ SameSize
        /\ ~viewer.follow /\ viewer.anchorEnd # Nowhere
        /\ screen.lines # <<>> /\ IsPrefix(screen.lines, visibleLines(viewer))
        => screen'.start = screen.start

(* The row the footer tells to someone who does not follow is the last shown. *)
FooterAgrees ==
    \A v \in {viewer'} : ~v.follow => FooterEnd(v) = screen'.end

FollowsReader ==
    viewer.rendered /\ did' = Still /\ did # Still /\ visibleLines(viewer) # <<>> =>
        ScrollsAsAsked /\ MatchIsShown /\ OutputWaits /\ FooterAgrees

(* What a rendering shows is what the reader asked for since the last: also at
   the ends of the log, where the anchor is clamped, with lines that wrap, and
   with output that came in between. *)
ScreenFollowsReader == [][FollowsReader]_viewerVars
=================================================================================
