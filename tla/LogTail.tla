-------------------------------- MODULE LogTail --------------------------------
(***************************************************************************)
(* How log files are read back (src/manager/process-log-store.ts): the     *)
(* last lines of a file that may be longer than what is read of it, and    *)
(* the whole of a file up to a limit.                                      *)
(*                                                                         *)
(* A file is a sequence of bytes: Newline, Return, the two bytes of a wide *)
(* character, Lead and Trail, the tags of the combined log (two bytes in   *)
(* the code, one here) and ordinary ones. It ends with a whole character.  *)
(***************************************************************************)
EXTENDS LogBytes

CONSTANTS
    MaxRead,    \* MAX_TAIL_READ_BYTES
    ChunkSize,  \* TAIL_CHUNK_BYTES
    MaxFull,    \* MAX_FULL_FILE_BYTES
    NoteSize,   \* the bytes of the marker before a file read in part
    Characters, \* what a stream's file is made of
    LoggedLines, \* what the combined log is made of: entries
    Asked,      \* how many lines may be asked for
    MaxFile, MaxEntered  \* bounds of the model

VARIABLES
    contents, \* a stream's file, or the combined log
    entered   \* a history variable: the entries of the combined log

Lead == "lead"
Trail == "trail"
Replacement == "?"
OutTag == "1:"
ErrTag == "2:"

appendCombinedLine(entry) ==
    <<IF entry.type = "stdout" THEN OutTag ELSE ErrTag>> \o entry.text \o <<Newline>>

(* No replacement, and no character that is not whole. *)
Sound(bytes) ==
    \A i \in DOMAIN bytes :
        /\ bytes[i] # Replacement
        /\ bytes[i] = Lead => i < Len(bytes) /\ bytes[i + 1] = Trail

ASSUME TailAssumption ==
    /\ MaxRead \in Nat \ {0} /\ ChunkSize \in Nat \ {0}
    /\ MaxFull \in Nat /\ NoteSize \in Nat /\ Asked \subseteq Int
    /\ \A c \in Characters : c \in Seq(STRING) /\ Sound(c)
    /\ \A e \in LoggedLines :
          /\ e.type \in {"stdout", "stderr"} /\ e.text \in Seq(STRING) /\ Sound(e.text)
          /\ Newlines(e.text) = {} /\ appendCombinedLine(e) \in Seq(STRING)

-----------------------------------------------------------------------------
(* Characters *)

alignUtf8Start_Off(bytes) == bytes

alignUtf8Start(bytes) ==
    SubSeq(bytes,
           Min({i \in 1 .. Len(bytes) + 1 : i <= Len(bytes) => bytes[i] # Trail}),
           Len(bytes))

Weight(bytes) == Len(bytes) + 2 * Cardinality({i \in DOMAIN bytes : bytes[i] = Replacement})

(* The longest start of whole characters that fits. *)
decodeUtf8Bounded(bytes, limit) ==
    LET text == IF bytes # <<>> /\ Last(bytes) = Lead
                THEN Append(Front(bytes), Replacement) ELSE bytes
        fits(n) == /\ Weight(SubSeq(text, 1, n)) <= limit
                   /\ n > 0 => text[n] # Lead
    IN  SubSeq(text, 1, Max({n \in 0 .. Len(text) : n = 0 \/ fits(n)}))

-----------------------------------------------------------------------------
(* Lines *)

countNewlines(bytes) == Cardinality(Newlines(bytes))

(* The last line may lack its newline. *)
Split(bytes) ==
    Terminated(bytes) \o (IF Unterminated(bytes) = <<>> THEN <<>> ELSE <<Unterminated(bytes)>>)

tailLineBuffersNewestFirst(bytes, count) ==
    LET lines == Split(bytes)
    IN  [n \in 1 .. Min({count, Len(lines)}) |-> WithoutReturn(lines[Len(lines) + 1 - n])]

-----------------------------------------------------------------------------
(* readTailLines *)

(* Where the reading back, chunk by chunk, has come to when it may stop. *)
Enough(file, from, lines) ==
    \/ from = 0
    \/ Len(file) - from >= MaxRead
    \/ countNewlines(SubSeq(file, from + 1, Len(file))) > lines

ReadFrom(file, lines) ==
    LET chunk(n) == Max({0, Len(file) - n * ChunkSize, Len(file) - MaxRead})
    IN  Max({from \in {chunk(n) : n \in DOMAIN file} : Enough(file, from, lines)})

(* The budget after so many lines. *)
Remaining(raw) ==
    LET left[n \in 0 .. Len(raw)] ==
            IF n = 0 THEN MaxRead
            ELSE LET before == left[n - 1]
                 IN  before - Weight(decodeUtf8Bounded(raw[n], before))
    IN  left

(* Newest first until the budget is used up; the oldest may be a part. *)
Decoded(raw, cut) ==
    LET left == Remaining(raw)
        taken == Cardinality({n \in DOMAIN raw : left[n - 1] > 0})
    IN  [n \in 1 .. taken |->
            LET newest == taken + 1 - n
            IN  [text |-> decodeUtf8Bounded(raw[newest], left[newest - 1]), cut |-> newest \in cut]]

(* A read from the middle of the file drops what it has of its first line,
   unless it is short of lines otherwise or has nothing else. *)
readTailLines(file, lines) ==
    LET from == ReadFrom(file, lines)
        read == SubSeq(file, from + 1, Len(file))
        first == Min(Newlines(read))
        whole == tailLineBuffersNewestFirst(SubSeq(read, first + 1, Len(read)), lines)
        part == alignUtf8Start(SubSeq(read, 1, first - 1))
    IN  IF lines <= 0 \/ file = <<>> THEN <<>>
        ELSE IF from = 0 THEN Decoded(tailLineBuffersNewestFirst(read, lines), {})
        ELSE IF Newlines(read) = {}
        THEN <<[text |-> decodeUtf8Bounded(alignUtf8Start(read), MaxRead), cut |-> TRUE]>>
        ELSE IF part # <<>> /\ Len(whole) < lines
        THEN Decoded(Append(whole, part), {Len(whole) + 1})
        ELSE Decoded(whole, {})

-----------------------------------------------------------------------------
(* readFullFile: from the start, or the end of it below a marker. *)
readFullFile(file) ==
    LET kept == Min({Len(file), Max({0, MaxFull - NoteSize})})
    IN  IF Len(file) <= MaxFull THEN [noted |-> FALSE, text |-> decodeUtf8Bounded(file, Len(file) + 3)]
        ELSE [noted |-> TRUE,
              text |-> decodeUtf8Bounded(
                           alignUtf8Start(SubSeq(file, Len(file) - kept + 1, Len(file))),
                           Max({0, MaxFull - NoteSize}))]

-----------------------------------------------------------------------------
(* The combined log *)

(* A line that is cut begins with a note of that, not with a tag. *)
Tagged(line, tag) == ~line.cut /\ line.text # <<>> /\ Head(line.text) = tag

getCombinedOutput(file, lines) ==
    LET read == readTailLines(file, lines)
    IN  [n \in DOMAIN read |->
            IF Tagged(read[n], ErrTag) THEN [type |-> "stderr", text |-> Tail(read[n].text)]
            ELSE IF Tagged(read[n], OutTag) THEN [type |-> "stdout", text |-> Tail(read[n].text)]
            ELSE [type |-> "stdout", text |-> read[n].text]]

-----------------------------------------------------------------------------
TailInit == contents = <<>> /\ entered = <<>>

(* What appends to one file does not append to the other. *)
appendStream ==
    /\ entered = <<>>
    /\ \E c \in Characters : contents' = contents \o c
    /\ Len(contents') <= MaxFile
    /\ UNCHANGED entered

appendLine ==
    /\ entered # <<>> \/ contents = <<>>
    /\ Len(entered) < MaxEntered
    /\ \E e \in LoggedLines : contents' = contents \o appendCombinedLine(e) /\ entered' = Append(entered, e)

TailNext == appendStream \/ appendLine

tailVars == <<contents, entered>>

TailSpec == TailInit /\ [][TailNext]_tailVars

-----------------------------------------------------------------------------
(* Properties *)

(* The last lines there are. *)
LastLines(lines) ==
    LET all == Split(contents)
        from == Max({0, Len(all) - lines})
    IN  [n \in 1 .. Len(all) - from |-> WithoutReturn(all[from + n])]

(* What is read are the last lines of the file and no others: all that were
   asked for when the file is short enough, the oldest perhaps a part of the
   line, and then marked and beginning with a whole character. *)
ReadsTheTail(lines) ==
    LET read == readTailLines(contents, lines)
        last == LastLines(lines)
        off == Len(last) - Len(read)
    IN  /\ off >= 0
        /\ Len(contents) <= MaxRead => off = 0 /\ \A n \in DOMAIN read : ~read[n].cut
        /\ \A n \in DOMAIN read :
              IF read[n].cut
              THEN /\ n = 1 /\ IsSuffix(WithoutReturn(read[n].text), last[off + n])
                   /\ read[n].text # <<>> => Head(read[n].text) # Trail
              ELSE read[n].text = last[off + n]

(* The whole file, or a suffix of it that begins with a whole character. *)
ReadsTheFile ==
    LET read == readFullFile(contents)
    IN  IF read.noted
        THEN /\ IsSuffix(read.text, contents) /\ Len(read.text) + NoteSize <= Max({MaxFull, NoteSize})
             /\ read.text # <<>> => Head(read.text) # Trail
        ELSE read.text = contents

(* The combined log gives back its entries, also those that look like tagged
   ones, less a return at the end; only a line that is cut has lost its stream. *)
ReadsTheEntries(lines) ==
    LET read == getCombinedOutput(contents, lines)
        off == Len(entered) - Len(read)
    IN  entered # <<>> =>
          \A n \in DOMAIN read :
            \/ readTailLines(contents, lines)[n].cut
            \/ read[n] = [type |-> entered[off + n].type, text |-> WithoutReturn(entered[off + n].text)]

(* A log is read back as it was written: the last lines of the file, and of the
   combined log their streams too. *)
ReadsBack ==
    ReadsTheFile /\ \A lines \in Asked : ReadsTheTail(lines) /\ ReadsTheEntries(lines)
===============================================================================
