---------------------------- MODULE ProcessOutput ----------------------------
(***************************************************************************)
(* What the manager makes of the output of one process                     *)
(* (src/manager/process-output.ts): chunks of two streams are cut into     *)
(* lines of bounded length, which go to the combined log at once and to    *)
(* the listeners in throttled process_output_changed events.               *)
(*                                                                         *)
(* A chunk is a sequence of symbols: Newline, Return and ordinary bytes,   *)
(* which are all alike. An event line is the index of its line in the log; *)
(* that its text is clamped once more is left out. The record may be       *)
(* flushed (it finished) and removed while chunks are still to come: the   *)
(* listeners of the child's streams stay.                                  *)
(***************************************************************************)
EXTENDS LogBytes

CONSTANTS
    Chunks,      \* the chunks that may arrive on each stream
    MaxPending,  \* MAX_PENDING_LINE_BYTES
    MaxLines,    \* MAX_LINES_PER_EMIT
    Throttle,    \* throttleMs, in clock units
    MaxTime, MaxChunks  \* bounds of the model

Streams == {"stdout", "stderr"}

ASSUME OutputAssumption ==
    /\ Chunks \in [Streams -> SUBSET Seq(STRING)]
    /\ MaxPending \in Nat \ {0} /\ MaxLines \in Nat \ {0} /\ Throttle \in Nat
    /\ MaxTime \in Nat /\ MaxChunks \in Nat

VARIABLES
    pending,     \* the unterminated line of each stream
    overflowed,  \* it has been logged already, cut: skip the rest of it
    combined,    \* the combined log
    appended,    \* appendedLines: those not yet emitted
    dropped,     \* droppedLineCount
    lastEmit,    \* lastOutputEmitAt, Never when unset
    timer,       \* when the pending emit is due, Never when there is none
    now,
    finished, removed,
    received,    \* what arrived on each stream before the record finished
    chunks,      \* how many chunks have arrived
    told         \* the events emitted

lineVars == <<pending, overflowed, combined>>
emitVars == <<appended, dropped, lastEmit, timer, told>>
vars == <<lineVars, emitVars, now, finished, removed, received, chunks>>

Never == -1

-----------------------------------------------------------------------------
(* Lines *)

buildBoundedLine(line) ==
    IF Len(line) <= MaxPending THEN [text |-> line, cut |-> FALSE]
    ELSE [text |-> SubSeq(line, 1, MaxPending), cut |-> TRUE]

(* A line that was logged cut is skipped up to its newline. *)
Skipped_ThisChunk(stream, chunk) ==
    IF overflowed[stream] THEN <<>> ELSE chunk

Skipped(stream, chunk) ==
    IF ~overflowed[stream] THEN chunk
    ELSE IF Newlines(chunk) = {} THEN <<>>
    ELSE SubSeq(chunk, Min(Newlines(chunk)) + 1, Len(chunk))

(* What is logged of the lines that have their newline. *)
Whole(bytes) ==
    LET ended == Terminated(bytes)
    IN  [n \in DOMAIN ended |-> buildBoundedLine(WithoutReturn(ended[n]))]

StillOverflowed(stream, chunk) == overflowed[stream] /\ Newlines(chunk) = {}

-----------------------------------------------------------------------------
(* Events *)

(* The buffer keeps the newest lines. *)
Overflow(buffer) == Max({0, Len(buffer) - MaxLines})

Trimmed(buffer) == SubSeq(buffer, Overflow(buffer) + 1, Len(buffer))

(* The buffer, with as many lines more as the log is about to get. *)
Buffered(count) == appended \o [n \in 1 .. count |-> Len(combined) + n]

(* An event with whatever there is to tell, drained. *)
emit(buffer, drop) ==
    /\ appended' = <<>> /\ dropped' = 0
    /\ lastEmit' = now
    /\ told' = IF buffer = <<>> /\ drop = 0 THEN told
               ELSE Append(told, [dropped |-> drop, lines |-> buffer])

DroppedWith_Uncounted(buffer) == dropped

DroppedWith(buffer) == dropped + Overflow(buffer)

(* The buffer waits for the pending emit, which is set unless it was. *)
Delay_Debounced == now + Throttle

Delay == IF timer = Never THEN lastEmit + Throttle ELSE timer

notify(buffer) ==
    IF lastEmit = Never \/ now - lastEmit >= Throttle
    THEN emit(Trimmed(buffer), DroppedWith(buffer)) /\ UNCHANGED timer
    ELSE /\ appended' = Trimmed(buffer) /\ dropped' = DroppedWith(buffer)
         /\ timer' = Delay
         /\ UNCHANGED <<lastEmit, told>>

-----------------------------------------------------------------------------
(* extractCompleteLines, for a chunk of either stream. *)
Chunk(stream, chunk) ==
    LET bytes == pending[stream] \o Skipped(stream, chunk)
        rest == Unterminated(bytes)
        long == Len(rest) > MaxPending
        lines == IF long THEN Append(Whole(bytes), buildBoundedLine(rest))
                 ELSE Whole(bytes)
    IN  /\ chunks < MaxChunks /\ chunks' = chunks + 1
        /\ pending' = [pending EXCEPT ![stream] = IF long THEN <<>> ELSE rest]
        /\ overflowed' = [overflowed EXCEPT ![stream] = long \/ StillOverflowed(stream, chunk)]
        /\ combined' = combined \o
              [n \in DOMAIN lines |-> [stream |-> stream, line |-> lines[n]]]
        /\ notify(Buffered(Len(lines)))
        /\ received' = IF finished THEN received
                       ELSE [received EXCEPT ![stream] = @ \o chunk]
        /\ UNCHANGED <<now, finished, removed>>

(* The pending emit: nothing to tell, nothing emitted. *)
TimerFires ==
    /\ timer # Never /\ timer <= now
    /\ timer' = Never
    /\ IF appended = <<>> /\ dropped = 0
       THEN UNCHANGED <<appended, dropped, lastEmit, told>>
       ELSE emit(appended, dropped)
    /\ UNCHANGED <<lineVars, now, finished, removed, received, chunks>>

(* What flush adds to the log: the unterminated lines, as they are. *)
Left(stream) ==
    IF pending[stream] = <<>> THEN <<>>
    ELSE <<[stream |-> stream, line |-> buildBoundedLine(pending[stream])]>>

Flushed == Left("stdout") \o Left("stderr")

(* The record finishes: kill, close, an error or the liveness tick. *)
Flush ==
    /\ finished' = TRUE
    /\ combined' = combined \o Flushed
    /\ pending' = [s \in Streams |-> <<>>]
    /\ overflowed' = [s \in Streams |-> FALSE]
    /\ timer' = Never
    /\ LET buffer == Buffered(Len(Flushed))
       IN  IF buffer = <<>> /\ dropped = 0 /\ timer = Never
           THEN UNCHANGED <<appended, dropped, lastEmit, told>>
           ELSE emit(Trimmed(buffer), DroppedWith(buffer))
    /\ UNCHANGED <<now, removed, received, chunks>>

(* The record is reaped or cleared, or the manager cleans up; a kill that was
   under way then may still flush. *)
clear ==
    /\ ~removed /\ removed' = TRUE
    /\ timer' = Never /\ lastEmit' = Never
    /\ UNCHANGED <<lineVars, appended, dropped, told, now, finished, received, chunks>>

Tock ==
    /\ now < MaxTime /\ now' = now + 1
    /\ UNCHANGED <<lineVars, emitVars, finished, removed, received, chunks>>

-----------------------------------------------------------------------------
Init ==
    /\ pending = [s \in Streams |-> <<>>]
    /\ overflowed = [s \in Streams |-> FALSE]
    /\ combined = <<>> /\ appended = <<>> /\ dropped = 0
    /\ lastEmit = Never /\ timer = Never /\ now = 0
    /\ finished = FALSE /\ removed = FALSE
    /\ received = [s \in Streams |-> <<>>] /\ chunks = 0
    /\ told = <<>>

Next ==
    \/ \E s \in Streams : \E c \in Chunks[s] : Chunk(s, c)
    \/ TimerFires \/ Flush \/ clear \/ Tock

Spec == Init /\ [][Next]_vars

(* A timer fires once it is due, and time passes; nobody owes a chunk or an
   end. *)
FairSpec == Spec /\ WF_vars(TimerFires) /\ WF_vars(Tock)

-----------------------------------------------------------------------------
(* Properties *)

OutputTypeOK ==
    /\ \A s \in Streams :
          /\ Len(pending[s]) <= MaxPending /\ Newlines(pending[s]) = {}
          /\ overflowed[s] => pending[s] = <<>>
    /\ \A n \in DOMAIN combined : Len(combined[n].line.text) <= MaxPending
    /\ Len(appended) <= MaxLines /\ dropped \in Nat
    /\ lastEmit \in Nat \cup {Never} /\ timer \in Nat \cup {Never}
    /\ \A n \in DOMAIN told : Len(told[n].lines) <= MaxLines

Logged(s) ==
    LET own == Picked(combined, {n \in DOMAIN combined : combined[n].stream = s})
    IN  [n \in DOMAIN own |-> own[n].line]

(* The lines of a stream, whole. *)
LinesOf(bytes) ==
    Whole(bytes) \o IF Len(Unterminated(bytes)) > MaxPending
                    THEN <<buildBoundedLine(Unterminated(bytes))>> ELSE <<>>

LastLine(bytes) ==
    IF Len(Unterminated(bytes)) \in 1 .. MaxPending
    THEN <<buildBoundedLine(Unterminated(bytes))>> ELSE <<>>

(* A full line whose return may come in a chunk without its newline. *)
ReturnAtTheEdge(bytes) ==
    \E n \in DOMAIN Terminated(bytes) :
        LET line == Terminated(bytes)[n]
        IN  Len(line) = MaxPending + 1 /\ Last(line) = Return

(* How the stream was cut into chunks does not show in the log: its lines are
   those of the whole stream, too long ones cut once and for all, and flush
   adds the last. The exception is a carriage return right at the limit. *)
ChunkingIsInvisible ==
    \A s \in Streams :
        \/ ReturnAtTheEdge(received[s])
        \/ ~finished /\ Logged(s) = LinesOf(received[s])
        \/ finished /\ IsPrefix(LinesOf(received[s]) \o LastLine(received[s]), Logged(s))

(* The events tell of every line of the log in its place, shown or counted as
   dropped, none twice - through trimming, throttling, flushing and late
   chunks: that is what OutputPromise says of them. *)
Promised == INSTANCE OutputPromise WITH
    Counts <- Nat,
    logged <- Len(combined),
    announced <- Len(combined) - dropped - Len(appended),
    feed <- told,
    over <- finished

OutputIsPromised == Promised!OutputSpec

(* Unless the record is removed, the listeners hear of every line in the end:
   no line waits for an emit that nothing will trigger. *)
EveryLineIsTold ==
    appended # <<>> /\ lastEmit + Throttle <= MaxTime
        ~> (appended = <<>> \/ removed)
===============================================================================
