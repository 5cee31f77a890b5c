----------------------------- MODULE OverviewPreview -----------------------------
(***************************************************************************)
(* The preview under the overview's list                                   *)
(* (processes/components/overview-component.ts): the log of the selected   *)
(* process, read again when the list is, continued by the output events,   *)
(* and scrolled. One process; its selection comes and goes.                *)
(***************************************************************************)
EXTENDS LineBuffer

CONSTANTS
    MaxLogged,       \* lines of the log, a bound of the model
    DefaultTail,     \* output.defaultTailLines
    MaxPreviewLines,
    PreviewHeight

ASSUME PreviewAssumption ==
    /\ MaxLogged \in Nat
    /\ {DefaultTail, MaxPreviewLines, PreviewHeight} \subseteq Nat \ {0}

VARIABLES
    logged,   \* how many lines the log holds
    told,     \* how many of them an event has carried
    preview

previewVars == <<logged, told, preview>>

NoPreview == [selected |-> FALSE, lines |-> <<>>, offset |-> 0]

AtLeast0(n) == Max({0, n})

NewestPage(lines) == AtLeast0(Len(lines) - PreviewHeight)

isFollowingTail(v) == v.lines = <<>> \/ v.offset >= Len(v.lines) - PreviewHeight

-----------------------------------------------------------------------------
(* refreshPreview, for a list that shows the process. *)
refreshPreview(v, align) ==
    LET lines == trimToBudget(
            Newest([i \in 1 .. logged |-> i], DefaultTail), MaxPreviewLines)
    IN  [selected |-> TRUE, lines |-> lines,
         offset |-> IF align = "newest" \/ isFollowingTail(v) THEN NewestPage(lines)
                    ELSE Min({v.offset, AtLeast0(Len(lines) - 1)})]

Refresh(align) ==
    /\ preview' = refreshPreview(preview, align)
    /\ UNCHANGED <<logged, told>>

(* The list does not show it any more. *)
Deselected == preview' = NoPreview /\ UNCHANGED <<logged, told>>

Logs ==
    /\ logged < MaxLogged /\ logged' = logged + 1
    /\ UNCHANGED <<told, preview>>

(* How far a view moves down that is not following, when lines go at the head:
   none of those that came at the tail count. *)
RemovedFromHead_Ignored(v, appended, kept) == 0

RemovedFromHead(v, appended, kept) ==
    Min({Len(v.lines), Len(v.lines) + Len(appended) - Len(kept)})

Continued(v, appended) ==
    LET kept == trimToBudget(v.lines \o appended, MaxPreviewLines)
    IN  [v EXCEPT
            !.lines = kept,
            !.offset = IF isFollowingTail(v) THEN NewestPage(kept)
                       ELSE Min({AtLeast0(@ - RemovedFromHead(v, appended, kept)),
                                 AtLeast0(Len(kept) - 1)})]

(* The event tells all there is; of many lines it drops the first. *)
OutputContinues(dropped) ==
    /\ told + dropped < logged
    /\ told' = logged
    /\ preview' = IF preview.selected
                  THEN Continued(preview, Appended(dropped, told + dropped + 1, logged))
                  ELSE preview
    /\ UNCHANGED logged

ScrolledTo(offset) ==
    /\ preview' = [preview EXCEPT !.offset = AtLeast0(offset)]
    /\ UNCHANGED <<logged, told>>

scrollPreview(delta) ==
    ScrolledTo(Min({Len(preview.lines) - 1, preview.offset + delta}))

-----------------------------------------------------------------------------
PreviewInit == logged \in 0 .. 1 /\ told = logged /\ preview = NoPreview

PreviewNext ==
    \/ Refresh("keep") \/ Refresh("newest") \/ Deselected
    \/ Logs \/ \E dropped \in 0 .. MaxLogged : OutputContinues(dropped)
    \/ scrollPreview(1) \/ scrollPreview(-1)
    \/ ScrolledTo(0) \/ ScrolledTo(Len(preview.lines) - 1)

PreviewSpec == PreviewInit /\ [][PreviewNext]_previewVars

-----------------------------------------------------------------------------
(* Properties *)

Trimmed(v) == Len(v.lines) <= MaxPreviewLines
              /\ (Len(v.lines) > 1 => Bytes(v.lines) <= MaxBytes)

(* A line is in the buffer twice when it was read before its event came. *)
Repeated(v, line) == line > told \/ ~IsInjective(v.lines)

StaysPut ==
    LET v == preview
        w == preview'
        read == v.lines[v.offset + 1]
    IN  /\ Trimmed(w)
        /\ w.offset \in 0 .. AtLeast0(Len(w.lines) - 1)
        /\ told' # told /\ v.selected =>
             /\ Last(w.lines) = told'
             /\ IF isFollowingTail(v) THEN w.offset = NewestPage(w.lines)
                ELSE \/ w.lines[w.offset + 1] = read
                     \/ w.offset = 0 /\ (read \in Range(w.lines) => Repeated(v, read))

(* Output moves the newest page on, and leaves a reader elsewhere at the line he
   reads, unless that line had to go - also when lines of different sizes go at
   the head and a note on dropped lines comes at the tail. What the preview
   holds keeps to its limits and ends with the newest line it was told of. *)
PreviewStaysPut == [][StaysPut]_previewVars
=================================================================================
