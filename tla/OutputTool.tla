------------------------------ MODULE OutputTool ------------------------------
(***************************************************************************)
(* The agent's view of a log: process output (tools/output/index.ts). What *)
(* it returns is kept in the session, so all of it is bounded: bytes,      *)
(* lines, and bytes once serialized. The lines that were asked for give    *)
(* way, oldest first, until the whole fits.                                *)
(*                                                                         *)
(* A line is its size, what a byte of it becomes when serialized, and      *)
(* whether it matches the pattern; a text is a sequence of lines.          *)
(***************************************************************************)
EXTENDS Integers, Sequences, SequencesExt, FiniteSetsExt

CONSTANTS
    MaxOutputBytes, MaxOutputLines, MaxJsonBytes, \* MAX_OUTPUT_BYTES, _TAIL_LINES, _CONTENT_JSON_BYTES
    ScanLines, DefaultTailLines,                  \* MAX_OUTPUT_SCAN_LINES, DEFAULT_OUTPUT_TAIL_LINES
    Attempts,     \* at most so many times the budget is lowered
    MetaSize,     \* of a line of the header, of the guidance and of a path
    NoticeSize,
    LineKinds,    \* the lines a process may write
    TailsAsked,   \* the tailLines asked for, 0 when none is
    MaxStdout, MaxStderr  \* bounds of the model

VARIABLES
    written  \* the retained lines of each stream

Escaped == 6
LineOf(size) == [size |-> size, weight |-> 1, matches |-> FALSE]

NoLine == LineOf(0)

Count(lines, Weight(_)) == SumFunction([n \in DOMAIN lines |-> Weight(lines[n])])

byteLength(lines) == Count(lines, LAMBDA l : l.size) + Max({0, Len(lines) - 1})

(* JSON.stringify: a newline becomes two bytes, and there are the quotes. *)
jsonLength(lines) == Count(lines, LAMBDA l : l.size * l.weight) + 2 * Max({1, Len(lines)})

ASSUME OutputToolAssumption ==
    /\ {MaxOutputBytes, MaxOutputLines, MaxJsonBytes, ScanLines, DefaultTailLines,
        Attempts, MetaSize, NoticeSize, MaxStdout, MaxStderr} \subseteq Nat
    /\ TailsAsked \subseteq Nat
    /\ \A l \in LineKinds : l.size \in Nat /\ l.weight \in {1, Escaped}

-----------------------------------------------------------------------------
(* The selection *)

clampTailLines(value) == IF value < 1 THEN DefaultTailLines ELSE Min({value, MaxOutputLines})

LastOf(lines, n) == SubSeq(lines, Max({1, Len(lines) - n + 1}), Len(lines))

(* With a pattern more lines are looked at than are wanted. *)
Scanned(call) == IF call.pattern THEN ScanLines ELSE clampTailLines(call.tailLines)

Selected(call, stream) ==
    LET window == IF call.stream \in {stream, "both"} THEN LastOf(written[stream], Scanned(call))
                  ELSE <<>>
        filtered == SelectSeq(window, LAMBDA l : call.pattern => l.matches)
    IN  LastOf(filtered, clampTailLines(call.tailLines))

(* formatOutputContent *)
Header(call) == [n \in 1 .. IF call.pattern THEN 2 ELSE 1 |-> LineOf(MetaSize)]

Section(lines) == IF lines = <<>> THEN <<>> ELSE <<LineOf(1)>> \o lines

Body(call) ==
    LET stdout == Section(Selected(call, "stdout"))
        stderr == Section(Selected(call, "stderr"))
    IN  IF stdout = <<>> /\ stderr = <<>> THEN <<LineOf(1)>>
        ELSE stdout \o (IF stdout # <<>> /\ stderr # <<>> THEN <<NoLine>> ELSE <<>>) \o stderr

Guidance(call) == IF call.running THEN <<LineOf(MetaSize)>> ELSE <<>>

-----------------------------------------------------------------------------
(* The budget *)

(* The last whole lines that fit, or what fits of the last. *)
truncateTail(lines, maxBytes, maxLines) ==
    LET keeps == {n \in 0 .. Min({maxLines, Len(lines)}) : byteLength(LastOf(lines, n)) <= maxBytes}
        n == Max(keeps \cup {0})
        part == [Last(lines) EXCEPT !.size = maxBytes]
    IN  IF n = Len(lines) THEN [content |-> lines, truncated |-> FALSE]
        ELSE IF n > 0 \/ maxLines = 0 THEN [content |-> LastOf(lines, n), truncated |-> TRUE]
        ELSE [content |-> <<part>>, truncated |-> TRUE]

Footer == <<LineOf(MetaSize), LineOf(MetaSize), LineOf(MetaSize)>>

(* Sections are a blank line apart; an empty one is left out. *)
composeOutputContent(call, body) ==
    LET sections == SelectSeq(
            <<Header(call), body.content, Guidance(call),
              IF body.truncated THEN <<LineOf(NoticeSize)>> ELSE <<>>, Footer>>,
            LAMBDA s : byteLength(s) > 0)
    IN  FoldLeft(LAMBDA text, s : IF text = <<>> THEN s ELSE text \o <<NoLine>> \o s,
                 <<>>, sections)

Excess(content) ==
    [bytes |-> Max({0, byteLength(content) - MaxOutputBytes}),
     lines |-> Max({0, Len(content) - MaxOutputLines}),
     json  |-> Max({0, jsonLength(content) - MaxJsonBytes})]

Fits(content) == Excess(content) = [bytes |-> 0, lines |-> 0, json |-> 0]

Attempt(call, maxBytes, maxLines) ==
    LET body == truncateTail(Body(call), maxBytes, maxLines)
    IN  [maxBytes |-> maxBytes, maxLines |-> maxLines, body |-> body,
         content |-> composeOutputContent(call, body)]

Halved_Kept(bytes, excess) == bytes
Halved(bytes, excess) == IF excess.json > 0 THEN bytes \div 2 ELSE bytes

(* Retry until it fits. *)
Retried(call, last) ==
    LET excess == Excess(last.content)
    IN  IF Fits(last.content) THEN last
        ELSE Attempt(call, Halved(Max({0, last.maxBytes - excess.bytes}), excess),
                     Max({1, last.maxLines - excess.lines}))

buildBoundedOutput(call) ==
    LET first == Attempt(call, MaxOutputBytes, MaxOutputLines)
        last == FoldLeft(LAMBDA a, n : Retried(call, a), first, [n \in 1 .. Attempts |-> n])
    IN  IF Fits(last.content) THEN last
        ELSE [last EXCEPT !.content =
                 truncateTail(last.content, MaxOutputBytes, MaxOutputLines).content]

-----------------------------------------------------------------------------
NothingWritten == [stream \in {"stdout", "stderr"} |-> <<>>]

OutputToolInit == written = NothingWritten

OutputToolNext ==
    \E stream \in {"stdout", "stderr"}, line \in LineKinds :
        /\ Len(written[stream]) < IF stream = "stdout" THEN MaxStdout ELSE MaxStderr
        /\ written' = [written EXCEPT ![stream] = Append(@, line)]

OutputToolSpec == OutputToolInit /\ [][OutputToolNext]_written

-----------------------------------------------------------------------------
(* Properties *)

Calls == [stream : {"stdout", "stderr", "both"}, pattern : BOOLEAN, running : BOOLEAN,
          tailLines : TailsAsked]

(* The newest of the lines that match, and of no other: as many as asked for,
   or all there are where it looks. *)
SelectsNewest(call, stream) ==
    call.stream \in {stream, "both"} =>
        LET all == IF call.pattern
                   THEN SelectSeq(LastOf(written[stream], ScanLines), LAMBDA l : l.matches)
                   ELSE written[stream]
        IN  Selected(call, stream) = LastOf(all, clampTailLines(call.tailLines))

(* Whatever is asked for of what a process has written, the answer stays within
   all three limits, without giving up on the budget; it shows the newest part
   of what was selected, all of it unless it says otherwise, and names the log
   files. *)
OutputFits ==
    written # NothingWritten =>
      \A call \in Calls : \E result \in {buildBoundedOutput(call)} :
        /\ Fits(result.content)
        /\ IsSuffix(Footer, result.content)
        /\ IF result.body.truncated
           THEN \/ IsStrictSuffix(result.body.content, Body(call))
                \/ /\ Len(result.body.content) = 1
                   /\ result.body.content[1].size < Last(Body(call)).size
           ELSE result.body.content = Body(call)
        /\ \A stream \in {"stdout", "stderr"} : SelectsNewest(call, stream)
===============================================================================
