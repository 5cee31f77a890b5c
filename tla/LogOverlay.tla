------------------------------- MODULE LogOverlay -------------------------------
(***************************************************************************)
(* The log overlay (processes-logs/components/log-overlay-component.ts,    *)
(* commands/logs.ts): a tab for each process, of which one is selected, a  *)
(* connection to the core for that one, and viewers that are kept for the  *)
(* tabs that were looked at. The list is reread in the handler of every    *)
(* event that changes it, and the connection made anew.                    *)
(*                                                                         *)
(* It runs beside ManagerPromise. What a viewer does with its lines is in  *)
(* LogFileViewer, the input of a search with it; here a viewer is a        *)
(* process, what became of the output events that came while it was on the *)
(* screen, and whether the matches of watches are marked in it.            *)
(***************************************************************************)
EXTENDS ListEvents

CONSTANTS
    MaxCachedViewers

ASSUME OverlayAssumption ==
    /\ Procs \subseteq Nat \ {0}
    /\ MaxCachedViewers \in Nat \ {0}

VARIABLES
    overlay

NoTab == 0
Links == 1 .. 4   \* identities of connections

Unlinked == [proc |-> NoTab, link |-> 0]

Shut ==
    [open |-> FALSE, tabs |-> <<>>, selected |-> 1,
     autoHide |-> FALSE,  \* follow.autoHideOnFinish, as it was at the opening
     seen |-> FALSE,      \* hasSeenRunningProcess
     link |-> Unlinked,   \* connection
     subs |-> {},         \* the core's subscribers for this overlay
     onScreen |-> NoTab,  \* the process of viewer
     viewers |-> <<>>,    \* in the order in which they were made
     marked |-> {}]       \* the processes with notifyMarkers

-----------------------------------------------------------------------------
(* sortProcesses: live ones first, then the latest start. *)
sortProcesses(list) ==
    Ordered(list.ids, LAMBDA a, b :
        IF (a \in list.live) = (b \in list.live) THEN a > b ELSE a \in list.live)

Tab(o) == IF o.selected \in DOMAIN o.tabs THEN o.tabs[o.selected] ELSE NoTab

ViewersOf(o) == {o.viewers[i].proc : i \in DOMAIN o.viewers}

(* The viewers, changed where they are of p. *)
Viewers(o, p, Edited(_)) ==
    [i \in DOMAIN o.viewers |->
        IF o.viewers[i].proc = p THEN Edited(o.viewers[i]) ELSE o.viewers[i]]

-----------------------------------------------------------------------------
(* subscribeToSelected *)

Unsubscribed(o) ==
    [o EXCEPT !.link = Unlinked, !.onScreen = NoTab, !.subs = @ \ {o.link}]

(* pruneCachedViewers: the oldest go; the new one is the last. *)
Cached(viewers) ==
    SubSeq(viewers, Max({1, Len(viewers) - MaxCachedViewers + 1}), Len(viewers))

(* A process that is gone is answered with an error. *)
Subscribed(o, p, list) ==
    LET link == [proc |-> p, link |-> CHOOSE l \in Links : \A s \in o.subs : s.link # l]
        new == [proc |-> p, missed |-> {}, extra |-> FALSE, marked |-> FALSE]
        viewed == IF p \in ViewersOf(o) THEN o
                  ELSE [o EXCEPT !.viewers = Cached(Append(@, new))]
    IN  IF p \notin list.ids THEN o
        ELSE [viewed EXCEPT
                !.link = link, !.subs = @ \cup {link}, !.onScreen = p,
                !.viewers = Viewers(viewed, p, LAMBDA v :
                    [v EXCEPT !.marked = @ \/ p \in o.marked])]

subscribeToSelected_Leaking(o, list) == Subscribed(o, Tab(o), list)

subscribeToSelected(o, list) == Subscribed(Unsubscribed(o), Tab(o), list)

(* The viewers of some processes, in the order in which they were made. *)
Those(viewers, ids) ==
    LET places == Ordered({i \in DOMAIN viewers : viewers[i].proc \in ids}, LAMBDA i, j : i < j)
    IN  [n \in DOMAIN places |-> viewers[places[n]]]

pruneRemovedProcesses(o, list) ==
    [o EXCEPT !.viewers = Those(@, list.ids \cup {o.onScreen}),
              !.marked = @ \cap (list.ids \cup {Tab(o)})]

(* refreshProcesses; without a preferred process it keeps the one that the list
   it has just read holds at the index selected. *)
refreshProcesses(o, preferred, list) ==
    LET tabs == sortProcesses(list)
        taken == [o EXCEPT !.tabs = tabs, !.seen = @ \/ list.running # {}]
        keep == IF preferred # NoTab THEN preferred ELSE Tab(taken)
        at == {i \in DOMAIN tabs : tabs[i] = keep}
        selected == IF at # {} THEN Max(at) ELSE Min({o.selected, Len(tabs)})
        fresh == IF tabs = <<>> THEN Unsubscribed([taken EXCEPT !.selected = 1])
                 ELSE subscribeToSelected([taken EXCEPT !.selected = selected], list)
    IN  pruneRemovedProcesses(fresh, list)

(* dispose: the connection goes, and all that was kept. *)
Disposed(o) == [Shut EXCEPT !.subs = Unsubscribed(o).subs]

(* handleProcessesChanged; a list that was cleared stays on the screen. Then the
   core, which hears of an event after the bridge, drops the subscribers of what
   ended or is gone. *)
Hides(o, event) ==
    /\ o.autoHide /\ o.seen /\ event.list.running = {}
    /\ event.list.ids # {} \/ event.reason = "ended"

Changed(o, event) ==
    LET fresh == refreshProcesses(o, NoTab, event.list)
        shown == IF ~o.open THEN o ELSE IF Hides(fresh, event) THEN Disposed(fresh) ELSE fresh
    IN  [shown EXCEPT !.subs = {s \in @ : s.proc \notin event.gone}]

-----------------------------------------------------------------------------
Happens ==
    /\ PromiseNext
    /\ Heard(Changed, overlay, overlay')

Unmoved == UNCHANGED managerVars

(* The viewer on the screen when p has an output event that is told told times:
   it misses one of its own, or gets one too many. *)
Heeds(v, p, told) ==
    LET due == IF v.proc = p THEN 1 ELSE 0
    IN  [v EXCEPT !.missed = IF told < due
                             THEN @ \cup {IF ended[p] = 0 THEN "before the end" ELSE "after it"}
                             ELSE @,
                  !.extra = @ \/ told > due]

(* An output event of p: the core tells each of its subscribers, and what comes
   over the connection goes to the viewer on the screen. A process that a kill
   or the tick has finished, or that was removed since, may still have output;
   that one which close has finished has none is not known here. *)
Output(p) ==
    /\ status[p] # "absent" /\ overlay.open
    /\ LET told == Cardinality({s \in overlay.subs : s.proc = p})
       IN  overlay' = [overlay EXCEPT !.viewers =
               Viewers(overlay, overlay.onScreen, LAMBDA v : Heeds(v, p, told))]
    /\ Unmoved

(* handleNotification: a watch of p matched; the end of p unregisters them. *)
LogMatched(p) ==
    /\ p \in known /\ ended[p] = 0 /\ overlay.open
    /\ overlay' = [overlay EXCEPT
           !.marked = @ \cup {p},
           !.viewers = IF Tab(overlay) = p /\ overlay.onScreen # NoTab
                       THEN Viewers(overlay, overlay.onScreen, LAMBDA v : [v EXCEPT !.marked = TRUE])
                       ELSE @]
    /\ Unmoved

-----------------------------------------------------------------------------
(* ps:logs, with or without a process. *)
openLogs(p, autoHide) ==
    /\ ~overlay.open /\ ~over /\ p \in known \cup {NoTab}
    /\ overlay' = refreshProcesses([Shut EXCEPT !.open = TRUE, !.autoHide = autoHide], p, ListNow)
    /\ Unmoved

(* A key that closes, or the end of the session. *)
closeOverlay ==
    /\ overlay.open /\ overlay' = Disposed(overlay)
    /\ Unmoved

selectRelative(delta) ==
    LET count == Len(overlay.tabs)
    IN  /\ overlay.open /\ count # 0
        /\ overlay' = subscribeToSelected(
               [overlay EXCEPT !.selected = ((@ - 1 + delta + count) % count) + 1], ListNow)
        /\ Unmoved

-----------------------------------------------------------------------------
OverlayInit == PromiseInit /\ overlay = Shut

OverlayNext ==
    \/ Happens
    \/ \E p \in Procs : Output(p) \/ LogMatched(p)
    \/ \E p \in Procs \cup {NoTab}, autoHide \in BOOLEAN : openLogs(p, autoHide)
    \/ closeOverlay \/ selectRelative(1) \/ selectRelative(-1)

overlayVars == <<managerVars, overlay>>

OverlaySpec == OverlayInit /\ [][OverlayNext]_overlayVars

-----------------------------------------------------------------------------
(* Properties *)

(* Whatever tabs are looked at, and whatever starts, ends and goes in between:
   the overlay listens to the selected process alone, hears it while it runs,
   and is gone from the core when it is closed. *)
OverlayHears ==
    LET o == overlay
    IN  /\ o.subs \subseteq {o.link} \ {Unlinked}
        /\ o.link.proc = o.onScreen
        /\ o.open => o.onScreen = Tab(o)
        /\ (o.onScreen # NoTab /\ status[o.onScreen] = "running") => o.link \in o.subs

(* No viewer got an event of another process, or one twice, and until the end of
   its process is reported each got every event that came while it was on the
   screen. (Afterwards the core has dropped the subscriber, and a viewer that
   stays on the screen misses what a finished process still prints.) The one on
   the screen is kept for its tab, knows of the matches, and no more are kept
   than there may be. *)
ViewersAreApart ==
    LET o == overlay
    IN  /\ \A i \in DOMAIN o.viewers :
              ~o.viewers[i].extra /\ "before the end" \notin o.viewers[i].missed
        /\ o.onScreen # NoTab => o.onScreen \in ViewersOf(o)
        /\ Len(o.viewers) <= MaxCachedViewers
        /\ \A i, j \in DOMAIN o.viewers : o.viewers[i].proc = o.viewers[j].proc => i = j
        /\ \A i \in DOMAIN o.viewers :
              o.viewers[i].proc = o.onScreen /\ o.onScreen \in o.marked => o.viewers[i].marked

(* The overlay listens through one connection, and keeps what it hears apart. *)
OverlayListens == OverlayHears /\ ViewersAreApart
=================================================================================
