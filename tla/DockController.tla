---------------------------- MODULE DockController ----------------------------
(***************************************************************************)
(* The dock (processes-dock/widget/setup.ts, dock-state.ts, commands/):    *)
(* a widget that lists the processes, or follows the one it is pinned to,  *)
(* from a snapshot of the manager's list that it takes a while after       *)
(* events. All handlers run to completion; the two timers are apart.       *)
(*                                                                         *)
(* It runs beside ManagerPromise, whose steps emit the events. Of lines    *)
(* only their flow is kept: a connection, and the core's subscriber that   *)
(* feeds it. A picker is taken not to outlive its session.                 *)
(***************************************************************************)
EXTENDS ManagerPromise

CONSTANTS
    DockDefault  \* widget.dockDefaultState

Visibilities == {"closed", "collapsed", "expanded"}

NoProcess == 0

ASSUME DockAssumption == DockDefault \in Visibilities /\ NoProcess \notin Procs

VARIABLES
    dock

Ears == {1, 2}   \* identities of connections

NoEar == [proc |-> NoProcess, ear |-> 0]
Blank == [visibility |-> "closed", pinned |-> NoProcess]

(* A controller before its first refresh. *)
Fresh ==
    [disposed |-> FALSE,
     visibility |-> DockDefault, focus |-> NoProcess,
     list |-> <<>>,          \* the snapshot: is each process listed live?
     seen |-> FALSE,         \* hasSeenRunningProcess
     ear |-> NoEar,          \* pinnedConnection
     subs |-> {},            \* the core's subscribers for this controller
     marked |-> {},          \* the processes with notifyMarkers
     refreshDue |-> FALSE, renderDue |-> FALSE,
     shown |-> Blank,        \* the dock as last rendered
     statusUp |-> FALSE]     \* the status widget shows something

Listed == [p \in known |-> status[p] \in Live]

(* selectPinnedProcess *)
Pinned(d) == IF d.focus \in DOMAIN d.list THEN d.focus ELSE NoProcess

(* render, which a pending render need not repeat. *)
Rendered(d) ==
    [d EXCEPT !.renderDue = FALSE,
              !.shown = IF d.visibility = "closed" THEN Blank
                        ELSE [visibility |-> d.visibility, pinned |-> Pinned(d)]]

-----------------------------------------------------------------------------
(* syncPinnedConnection *)

Disconnected(d) == [d EXCEPT !.ear = NoEar, !.subs = @ \ {d.ear}]

Connected(d, p) ==
    LET ear == [proc |-> p, ear |-> CHOOSE e \in Ears : \A s \in d.subs : s.ear # e]
    IN  IF p \in known THEN [d EXCEPT !.ear = ear, !.subs = @ \cup {ear}] ELSE d

Synced_Leaking(d) ==
    IF d.visibility = "expanded" /\ Pinned(d) # NoProcess
    THEN IF d.ear.proc = Pinned(d) THEN d ELSE Connected(d, Pinned(d))
    ELSE Disconnected(d)

Synced(d) ==
    IF d.visibility = "expanded" /\ Pinned(d) # NoProcess
    THEN IF d.ear.proc = Pinned(d) THEN d ELSE Connected(Disconnected(d), Pinned(d))
    ELSE Disconnected(d)

(* hardRefresh *)
HardRefreshed(d) ==
    LET taken == [d EXCEPT
            !.list = Listed,
            !.marked = @ \cap known,
            !.seen = @ \/ \E p \in known : status[p] = "running",
            !.focus = IF @ \in known THEN @ ELSE NoProcess]
        nothingOn == /\ taken.focus = NoProcess /\ taken.seen
                     /\ \A p \in known : status[p] \notin Live
        synced == Synced(taken)
    IN  Rendered([synced EXCEPT
            !.visibility = IF known = {} \/ nothingOn THEN "closed" ELSE @,
            !.refreshDue = FALSE,
            !.statusUp = known # {}])

(* The actions of the dock: its state, the connection, the widget. *)
SetFocus(d, p) ==
    Rendered(Synced([d EXCEPT
        !.focus = p,
        !.visibility = IF p # NoProcess /\ @ = "closed" THEN "expanded" ELSE @]))

SetVisibility(d, visibility) ==
    Rendered(Synced([d EXCEPT !.visibility = visibility]))

-----------------------------------------------------------------------------
(* Events *)

(* A start brings the dock up, without a connection yet; an end and a change
   of the list have a refresh follow. *)
Notices(d) ==
    LET up == IF \E p \in Procs : status[p] = "absent" /\ status'[p] = "running"
              THEN [d EXCEPT !.visibility = IF DockDefault = "closed" THEN @ ELSE DockDefault]
              ELSE d
    IN  IF known' # known \/ ended' # ended THEN [up EXCEPT !.refreshDue = TRUE] ELSE up

(* What the manager does; the core drops the subscribers of a process that
   ended or that is gone. *)
ManagerStep ==
    /\ PromiseNext
    /\ LET heard == [dock EXCEPT
               !.subs = {s \in @ : s.proc \in known' /\ ended'[s.proc] = ended[s.proc]}]
       IN  dock' = IF dock.disposed THEN dock ELSE Notices(heard)

(* Output of p is rendered later; an event without lines has a refresh follow. *)
OutputChanged(p) ==
    /\ IsKnownLive(p) /\ ~dock.disposed
    /\ \/ dock' = [dock EXCEPT !.renderDue = TRUE]
       \/ dock' = [dock EXCEPT !.refreshDue = TRUE]
    /\ UNCHANGED managerVars

LogMatch(p) ==
    /\ IsKnownLive(p) /\ ~dock.disposed
    /\ dock' = Rendered([dock EXCEPT !.marked = @ \cup {p}])
    /\ UNCHANGED managerVars

RefreshFires ==
    /\ dock.refreshDue /\ ~dock.disposed
    /\ dock' = HardRefreshed(dock)
    /\ UNCHANGED managerVars

RenderFires ==
    /\ dock.renderDue /\ ~dock.disposed
    /\ dock' = Rendered(dock)
    /\ UNCHANGED managerVars

-----------------------------------------------------------------------------
(* Commands and requests; ~over stands for a session to give them in. *)

(* ps:dock *)
DockCommand(visibility) ==
    /\ ~over /\ ~dock.disposed
    /\ dock' = HardRefreshed(SetVisibility(dock, visibility))
    /\ UNCHANGED managerVars

(* ps:pin, with the process typed or picked, or "clear". *)
PinCommand(p) ==
    /\ ~over /\ ~dock.disposed
    /\ p = NoProcess \/ p \in known
    /\ dock' = HardRefreshed(SetVisibility(SetFocus(dock, p), "expanded"))
    /\ UNCHANGED managerVars

(* COMMAND_PIN, from the other extensions: the list is taken at once, the rest
   of a refresh is not. *)
handlePin(p) ==
    LET taken == [dock EXCEPT !.list = Listed]
        refused == p # NoProcess /\ (p \notin known \/ (status[p] \notin Live /\ dock.focus # p))
    IN  /\ ~over /\ ~dock.disposed
        /\ dock' = IF refused THEN taken
                   ELSE SetVisibility(SetFocus(taken, p), "expanded")
        /\ UNCHANGED managerVars

DockDisposed(d) ==
    [Disconnected(d) EXCEPT !.disposed = TRUE, !.shown = Blank, !.statusUp = FALSE]

(* session_shutdown, in any order with the core's. *)
DockShutdown ==
    /\ ~dock.disposed /\ dock' = DockDisposed(dock)
    /\ UNCHANGED managerVars

(* session_start, once more: what the old controller held must be let go. *)
SessionStart ==
    /\ ~over /\ ~dock.disposed
    /\ dock' = HardRefreshed([Fresh EXCEPT !.subs = DockDisposed(dock).subs])
    /\ UNCHANGED managerVars

-----------------------------------------------------------------------------
DockInit ==
    /\ PromiseInit
    /\ dock = HardRefreshed(Fresh)

DockNext ==
    \/ ManagerStep
    \/ \E p \in Procs : OutputChanged(p) \/ LogMatch(p)
    \/ RefreshFires \/ RenderFires
    \/ \E visibility \in Visibilities : DockCommand(visibility)
    \/ \E p \in Procs \cup {NoProcess} : PinCommand(p) \/ handlePin(p)
    \/ DockShutdown \/ SessionStart

dockVars == <<managerVars, dock>>

DockSpec == DockInit /\ [][DockNext]_dockVars

-----------------------------------------------------------------------------
(* Properties *)

Settled == ~dock.disposed /\ ~dock.refreshDue

(* When no refresh is pending the dock agrees with the manager, whatever was
   started, ended, cleared, pinned and rendered in between: it lists the
   processes there are, has finished those that are (a process stopped again
   after a stop that timed out is the one that comes back without an event),
   is pinned to one of them or none and shows just that. *)
DockSettles ==
    Settled =>
        /\ DOMAIN dock.list = known
        /\ \A p \in known : status[p] \in Finished => ~dock.list[p]
        /\ dock.focus \in known \cup {NoProcess}
        /\ dock.marked \subseteq known
        /\ dock.shown = IF dock.visibility = "closed" THEN Blank
                        ELSE [visibility |-> dock.visibility, pinned |-> dock.focus]
        /\ dock.statusUp = (known # {})

(* The dock listens through one connection, to the process it shows and for as
   long as it is expanded; no subscriber outlives its connection, a refresh or
   the controller, and the process that runs is heard. *)
OneEar ==
    /\ dock.subs \subseteq {dock.ear} \ {NoEar}
    /\ dock.disposed => dock.subs = {}
    /\ Settled =>
          /\ dock.ear.proc = IF dock.visibility = "expanded" THEN dock.focus ELSE NoProcess
          /\ (dock.ear # NoEar /\ status[dock.ear.proc] = "running") => dock.ear \in dock.subs

(* The dock follows the manager. *)
DockFollows == DockSettles /\ OneEar

(* commands/kill.ts: "The dock auto-unpins a killed focused process on the next
   processes-changed tick". *)
KilledIsUnpinned ==
    Settled => \A k \in Kills :
        calls[k].target = dock.focus /\ calls[k].result = "ok"
            => status[dock.focus] # "killed"
===============================================================================
