------------------------------- MODULE Overview -------------------------------
(***************************************************************************)
(* The list of the overview (processes/components/overview-component.ts,   *)
(* commands/overview.ts): the processes under a sort order and filters,    *)
(* one of them selected, in a window of a few rows. It is reread on every  *)
(* event that changes the list, in the handler of that event.              *)
(*                                                                         *)
(* It runs beside ManagerPromise. Processes are numbered in the order of   *)
(* their start; of their names only the order and what the one quick       *)
(* filter matches are kept. The preview is in module OverviewPreview.      *)
(***************************************************************************)
EXTENDS ListEvents

CONSTANTS
    NameRank,    \* the place of each process in the order of names
    Matching,    \* the processes a quick filter matches
    MaxVisible   \* processList.maxVisibleProcesses, at least 1

ASSUME OverviewAssumption ==
    /\ Procs \subseteq Nat \ {0} /\ NameRank \in [Procs -> Nat]
    /\ Matching \subseteq Procs /\ MaxVisible \in Nat \ {0}

VARIABLES
    overview

Nobody == 0

Sorts == <<"status", "started", "name">>
Filters == <<"all", "running", "finished">>

(* The next of a list of options, in a circle. *)
NextOf(options, option) ==
    LET i == CHOOSE n \in DOMAIN options : options[n] = option
    IN  options[(i % Len(options)) + 1]

(* The rows, as the list was when it was read. *)
RowsOf(list) == {[id |-> p, live |-> p \in list.live] : p \in list.ids}

RowsNow == RowsOf(ListNow)

(* handleInput goes to the filter's input while typing. *)
Typing == overview.mode = "filter-typing"

-----------------------------------------------------------------------------
(* applyView; a sort leaves equals in the order of the list, that of their start. *)

Passes(row, filter, quick) ==
    /\ filter = "running" => row.live
    /\ filter = "finished" => ~row.live
    /\ quick => row.id \in Matching

Precedes(a, b, sort) ==
    CASE sort = "status"  -> IF a.live = b.live THEN a.id > b.id ELSE a.live
      [] sort = "started" -> a.id > b.id
      [] sort = "name"    -> \/ NameRank[a.id] < NameRank[b.id]
                             \/ NameRank[a.id] = NameRank[b.id] /\ a.id < b.id

applyView(o, rows) ==
    Ordered({row \in rows : Passes(row, o.filter, o.quick)},
            LAMBDA a, b : Precedes(a, b, o.sort))

IndexOf(list, p) == Max({0} \cup {i \in DOMAIN list : list[i].id = p})

selectedProcess(o) == IF o.selected \in DOMAIN o.list THEN o.list[o.selected].id ELSE Nobody

(* Indices are counted from 1, viewOffset is the number of rows above. *)
clampViewOffset_Late(selected, offset) ==
    IF selected <= offset THEN selected - 1
    ELSE IF selected > offset + MaxVisible + 1 THEN selected - MaxVisible
    ELSE offset

clampViewOffset(selected, offset) ==
    IF selected <= offset THEN selected - 1
    ELSE IF selected > offset + MaxVisible THEN selected - MaxVisible
    ELSE offset

(* The selection moves to what is kept, or stays where it was if it can. *)
Reselected(o, list, keep) ==
    LET at == IndexOf(list, keep)
        selected == IF at # 0 THEN at ELSE Min({o.selected, Max({1, Len(list)})})
    IN  [o EXCEPT !.list = list, !.selected = selected,
                  !.viewOffset = clampViewOffset(selected, @)]

(* refresh: without a preferred process it keeps the one that the list it has
   just read holds at the index selected. *)
refresh(o, preferred, rows) ==
    LET list == applyView(o, rows)
        keep == IF preferred # Nobody THEN preferred
                ELSE selectedProcess([o EXCEPT !.list = list])
    IN  IF list = <<>> THEN [o EXCEPT !.list = <<>>, !.selected = 1, !.viewOffset = 0]
        ELSE Reselected(o, list, keep)

Kept_Index(o) == Nobody

Kept(o) == selectedProcess(o)

(* reapplyKeepSelection *)
reapply(o, rows) == Reselected(o, applyView(o, rows), Kept(o))

-----------------------------------------------------------------------------
Closed ==
    [open |-> FALSE, mode |-> "normal", list |-> <<>>, selected |-> 1, viewOffset |-> 0,
     sort |-> "status", filter |-> "all", quick |-> FALSE,
     pinned |-> Nobody, pinUnavailable |-> FALSE]

(* /ps, with or without a process. *)
openOverview(p) ==
    /\ ~overview.open /\ ~over /\ p \in known \cup {Nobody}
    /\ overview' = refresh([Closed EXCEPT !.open = TRUE], p, RowsNow)
    /\ UNCHANGED managerVars

(* The session's end disposes of it too. *)
closeOverview ==
    /\ overview.open /\ overview' = Closed
    /\ UNCHANGED managerVars

(* For an end, a start or a change of the list. *)
handleChanged(o, event) ==
    IF o.open THEN refresh(o, Nobody, RowsOf(event.list)) ELSE o

ListChanges ==
    /\ PromiseNext
    /\ Heard(handleChanged, overview, overview')

-----------------------------------------------------------------------------
(* Keys, outside the input of the filter. *)
OverviewKey(o) ==
    /\ overview.open /\ ~Typing
    /\ overview' = o
    /\ UNCHANGED managerVars

moveSelection(delta) ==
    LET count == Len(overview.list)
        selected == ((overview.selected - 1 + delta + count) % count) + 1
    IN  /\ overview.list # <<>>
        /\ OverviewKey([overview EXCEPT !.selected = selected,
                                !.viewOffset = clampViewOffset(selected, @)])

cycleSort == OverviewKey(reapply([overview EXCEPT !.sort = NextOf(Sorts, @)], RowsNow))

cycleFilter == OverviewKey(reapply([overview EXCEPT !.filter = NextOf(Filters, @)], RowsNow))

startQuickFilter == OverviewKey([overview EXCEPT !.mode = "filter-typing"])

(* Enter in the input, with or without a query. *)
SubmitFilter(quick) ==
    /\ Typing
    /\ overview' = reapply([overview EXCEPT !.quick = quick, !.mode = "normal"], RowsNow)
    /\ UNCHANGED managerVars

(* Escape drops the query; the list is read again with the next event. *)
EscapeFilter ==
    /\ Typing
    /\ overview' = [overview EXCEPT !.quick = FALSE, !.mode = "normal"]
    /\ UNCHANGED managerVars

(* pinSelected: a running process is pinned, the pinned one is not any more;
   the answer is there in a microtask or never. *)
pinSelected ==
    LET p == selectedProcess(overview)
        isPinned == overview.pinned = p
    IN  /\ p # Nobody /\ (isPinned \/ overview.list[overview.selected].live)
        /\ \E ok \in BOOLEAN :
              OverviewKey([overview EXCEPT !.pinUnavailable = ~ok,
                      !.pinned = IF ~ok THEN @ ELSE IF isPinned THEN Nobody ELSE p])

(* killSelected and clearFinished ask the manager, which answers by events: a
   stop and a clear are steps of ListChanges. *)

-----------------------------------------------------------------------------
OverviewInit == PromiseInit /\ overview = Closed

OverviewNext ==
    \/ ListChanges
    \/ \E p \in Procs \cup {Nobody} : openOverview(p)
    \/ closeOverview
    \/ moveSelection(1) \/ moveSelection(-1)
    \/ cycleSort \/ cycleFilter
    \/ startQuickFilter \/ SubmitFilter(TRUE) \/ SubmitFilter(FALSE) \/ EscapeFilter
    \/ pinSelected

overviewVars == <<managerVars, overview>>

OverviewSpec == OverviewInit /\ [][OverviewNext]_overviewVars

-----------------------------------------------------------------------------
(* Properties *)

(* Whatever starts, ends and goes away under it, the selection is a row there
   is and inside the window, and every row is a process that can be acted on. *)
SelectionIsInView ==
    LET o == overview
    IN  /\ o.list # <<>> => /\ o.selected \in DOMAIN o.list
                            /\ o.viewOffset < o.selected
                            /\ o.selected <= o.viewOffset + MaxVisible
        /\ \A i \in DOMAIN o.list : o.list[i].id \in known

(* Sorting and filtering keep the selection on its process while it is listed. *)
ViewKeepsSelection ==
    [][overview.sort # overview.sort' \/ overview.filter # overview.filter' =>
          (overview.open /\ overview'.open =>
              LET p == selectedProcess(overview)
              IN  IndexOf(overview'.list, p) # 0 => selectedProcess(overview') = p)]_overviewVars

(* overview-component.ts: "Selection survives list refreshes by remembering the
   selected process id and re-finding its index." *)
SelectionSurvives ==
    [][overview.open /\ overview'.open /\ managerVars' # managerVars =>
          LET p == selectedProcess(overview)
          IN  IndexOf(overview'.list, p) # 0 => selectedProcess(overview') = p]_overviewVars
===============================================================================
