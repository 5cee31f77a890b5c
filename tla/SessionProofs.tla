------------------------------ MODULE SessionProofs ------------------------------
(***************************************************************************)
(* What a session shows beside the manager, for every set of processes and *)
(* every setting: three views of the list, the preview under the overview  *)
(* and the viewer of a log.                                                *)
(*                                                                         *)
(* The dock: when no refresh is pending it agrees with the manager, and it *)
(* listens to the process it shows and to no other. A refresh makes all of *)
(* it true at once. The argument is about the steps between two refreshes: *)
(* what the manager does without an event that the dock refreshes after    *)
(* (Onward), and which of the dock's own actions touch what a refresh has  *)
(* set right.                                                              *)
(*                                                                         *)
(* The overview: the selection is a row of the list and in the window,     *)
(* whatever the list becomes. That rests on what a sort returns, for which *)
(* every place of a finite order must be shown to be taken (PlacesTaken).  *)
(*                                                                         *)
(* The overlay: it listens to the selected tab and to nothing else. Every  *)
(* way to a tab ends in subscribeToSelected (SubscribedIs); what is        *)
(* inductive adds that the tabs are those of the list, and that a process  *)
(* with no end reported is heard (Attentive).                              *)
(*                                                                         *)
(* The preview: when lines come in, the lines on its screen stay. What is  *)
(* inductive is that it is within its limits and that the lines it holds   *)
(* are not of an event still to come.                                      *)
(*                                                                         *)
(* The viewer: a rendering shows what was asked for since the one before.  *)
(* An invariant says what each kind of request leaves for the rendering    *)
(* (Scrolled, Targeted, Waiting), and that the anchor of a reader who does *)
(* not follow is the end of the screen.                                    *)
(***************************************************************************)
EXTENDS DockController, Overview, OverviewPreview, LogOverlay, LogFileViewer, PlacesProofs,
        SequenceTheorems, FiniteSetTheorems, WellFoundedInduction, TLAPS

Statuses == {"absent"} \cup Live \cup Finished

Calls == [pc : {"idle", "waiting", "done"}, target : Procs \cup {NoProcess},
          result : {"none", "ok", "not_found", "error", "timeout"}]

ManagerTyped ==
    /\ status \in [Procs -> Statuses] /\ ended \in [Procs -> Nat]
    /\ known \subseteq Procs /\ calls \in [Kills -> Calls]

ManagerInv ==
    /\ ManagerTyped
    /\ \A p \in known : status[p] # "absent"
    /\ \A k \in Kills : calls[k].pc = "waiting" =>
          calls[k].target \in Procs /\ status[calls[k].target] # "absent"

(* What a step of the manager may do to a process: one that runs was running,
   or is new on the list; one that is newly finished was reported; one that
   leaves the list has finished. *)
Onward ==
    \A p \in Procs :
        /\ status[p] # "absent" => status'[p] # "absent"
        /\ status'[p] = "running" =>
              status[p] = "running" \/ (status[p] = "absent" /\ p \in known' \ known)
        /\ ended'[p] # ended[p] => status'[p] \in Finished
        /\ status'[p] \in Finished => status'[p] = status[p] \/ ended'[p] # ended[p]
        /\ p \in known \ known' => status'[p] \in Finished

KnownStarted == \A p \in known : status[p] # "absent"

LEMMA EndsOnward ==
    ASSUME ManagerInv, NEW p \in Procs, NEW st \in Finished, NEW o,
           NEW reg \in {known, known \cup {p}}, Ends(p, st, o, reg)
    PROVE  /\ status' \in [Procs -> Statuses] /\ ended' \in [Procs -> Nat]
           /\ known' \subseteq Procs /\ Onward /\ KnownStarted'
<1>1. /\ status' = [status EXCEPT ![p] = st] /\ ended' = [ended EXCEPT ![p] = @ + 1]
      /\ known' \subseteq reg /\ \A q \in reg \ known' : status'[q] \in Finished
      /\ known \subseteq reg /\ reg \subseteq known \cup {p}
      /\ st # "running" /\ st # "absent"
  BY DEF Ends, Finished
<1>2. /\ status'[p] = st /\ ended'[p] # ended[p]
      /\ \A q \in Procs \ {p} : status'[q] = status[q] /\ ended'[q] = ended[q]
      /\ status' \in [Procs -> Statuses] /\ ended' \in [Procs -> Nat]
  BY <1>1 DEF ManagerInv, ManagerTyped, Statuses
<1>3. Onward
  BY <1>1, <1>2 DEF Onward
<1>4. KnownStarted'
  BY <1>1, <1>2 DEF ManagerInv, ManagerTyped, KnownStarted
<1> QED
  BY <1>1, <1>2, <1>3, <1>4 DEF ManagerInv, ManagerTyped

LEMMA BecomesOnward ==
    ASSUME ManagerInv, NEW p \in Procs, NEW st \in {"terminating", "terminate_timeout"},
           Becomes(p, st)
    PROVE  /\ status' \in [Procs -> Statuses] /\ UNCHANGED <<ended, known>>
           /\ Onward /\ KnownStarted'
<1>1. /\ status' = [status EXCEPT ![p] = st] /\ UNCHANGED <<ended, known>>
      /\ st \in Statuses /\ st # "running" /\ st # "absent" /\ st \notin Finished
  BY DEF Becomes, Statuses, Live, Finished
<1>2. /\ status'[p] = st /\ \A q \in Procs \ {p} : status'[q] = status[q]
      /\ status' \in [Procs -> Statuses]
  BY <1>1 DEF ManagerInv, ManagerTyped
<1>3. Onward
  BY <1>1, <1>2 DEF Onward
<1> QED
  BY <1>1, <1>2, <1>3 DEF ManagerInv, ManagerTyped, KnownStarted

(* A call that changes is about a process that was started. *)
LEMMA CallsOnward ==
    ASSUME ManagerInv, Onward, NEW k \in Kills, NEW c \in Calls,
           calls' = [calls EXCEPT ![k] = c],
           c.pc = "waiting" => c.target \in Procs /\ status'[c.target] # "absent"
    PROVE  /\ calls' \in [Kills -> Calls]
           /\ \A j \in Kills : calls'[j].pc = "waiting" =>
                 calls'[j].target \in Procs /\ status'[calls'[j].target] # "absent"
<1>1. /\ calls' \in [Kills -> Calls] /\ calls'[k] = c
      /\ \A j \in Kills \ {k} : calls'[j] = calls[j]
  BY DEF ManagerInv, ManagerTyped
<1> QED
  BY <1>1 DEF ManagerInv, Onward

LEMMA AnswerIsCall ==
    ASSUME NEW k \in Kills, NEW p \in Procs,
           NEW result \in {"ok", "not_found", "error", "timeout"}, Answer(k, p, result)
    PROVE  \E c \in Calls : c.pc # "waiting" /\ calls' = [calls EXCEPT ![k] = c]
<1> DEFINE c == [pc |-> "done", target |-> p, result |-> result]
<1>1. c \in Calls /\ c.pc # "waiting"
  BY DEF Calls
<1> QED
  BY <1>1 DEF Answer

LEMMA ManagerOnward ==
    ASSUME ManagerInv, [PromiseNext]_managerVars
    PROVE  ManagerInv' /\ Onward
<1>1. /\ status \in [Procs -> Statuses] /\ ended \in [Procs -> Nat]
      /\ known \subseteq Procs /\ calls \in [Kills -> Calls] /\ KnownStarted
      /\ \A k \in Kills : calls[k].pc = "waiting" =>
            calls[k].target \in Procs /\ status[calls[k].target] # "absent"
  BY DEF ManagerInv, ManagerTyped, KnownStarted
<1>2. ASSUME /\ status' \in [Procs -> Statuses] /\ ended' \in [Procs -> Nat]
             /\ known' \subseteq Procs /\ Onward /\ KnownStarted' /\ UNCHANGED calls
      PROVE  ManagerInv' /\ Onward
  BY <1>1, <1>2 DEF ManagerInv, ManagerTyped, Onward, KnownStarted
<1>3. ASSUME /\ status' \in [Procs -> Statuses] /\ ended' \in [Procs -> Nat]
             /\ known' \subseteq Procs /\ Onward /\ KnownStarted',
             NEW k \in Kills, NEW c \in Calls, calls' = [calls EXCEPT ![k] = c],
             c.pc = "waiting" => c.target \in Procs /\ status'[c.target] # "absent"
      PROVE  ManagerInv' /\ Onward
  BY <1>3, CallsOnward DEF ManagerInv, ManagerTyped, KnownStarted
<1>4. ASSUME UNCHANGED <<status, ended, known>> PROVE Onward /\ KnownStarted'
  BY <1>1, <1>4 DEF Onward, KnownStarted
<1>5. ASSUME NEW p \in Procs, Begins(p) PROVE ManagerInv' /\ Onward
  <2>1. /\ status' = [status EXCEPT ![p] = "running"] /\ known' = known \cup {p}
        /\ status[p] = "absent" /\ p \notin known /\ UNCHANGED <<ended, calls>>
    BY <1>1, <1>5 DEF Begins, KnownStarted
  <2>2. /\ status'[p] = "running" /\ \A q \in Procs \ {p} : status'[q] = status[q]
        /\ status' \in [Procs -> Statuses]
    BY <1>1, <2>1 DEF Statuses, Live
  <2>3. Onward
    BY <2>1, <2>2 DEF Onward, Finished
  <2>4. KnownStarted'
    BY <1>1, <2>1, <2>2 DEF KnownStarted
  <2> QED
    BY <1>1, <1>2, <2>1, <2>2, <2>3, <2>4
<1>6. ASSUME NEW p \in Procs, BornDead(p) PROVE ManagerInv' /\ Onward
  BY <1>2, <1>6, EndsOnward DEF BornDead, Finished
<1>7. ASSUME NEW p \in Procs, NEW st \in Finished, NEW o, Finishes(p, st, o)
      PROVE  ManagerInv' /\ Onward
  BY <1>2, <1>7, EndsOnward DEF Finishes
<1>8. ASSUME NEW k \in Kills, NEW p \in Procs, Refused(k, p) PROVE ManagerInv' /\ Onward
  <2>1. PICK c \in Calls : c.pc # "waiting" /\ calls' = [calls EXCEPT ![k] = c]
    BY <1>8, AnswerIsCall DEF Refused
  <2> QED
    BY <1>1, <1>3, <1>4, <1>8, <2>1 DEF Refused
<1>9. ASSUME NEW k \in Kills, NEW p \in Procs, Failed(k, p) PROVE ManagerInv' /\ Onward
  <2>1. PICK c \in Calls : c.pc # "waiting" /\ calls' = [calls EXCEPT ![k] = c]
    BY <1>9, AnswerIsCall DEF Failed
  <2> QED
    BY <1>1, <1>3, <1>9, <2>1, BecomesOnward DEF Failed
<1>10. ASSUME NEW k \in Kills, NEW p \in Procs, Accepted(k, p) PROVE ManagerInv' /\ Onward
  <2> DEFINE c == [pc |-> "waiting", target |-> p, result |-> "none"]
  <2>1. c \in Calls /\ c.target = p /\ calls' = [calls EXCEPT ![k] = c]
    BY <1>10 DEF Accepted, Calls
  <2> HIDE DEF c
  <2>2. status[p] # "absent" /\ Becomes(p, "terminating")
    BY <1>1, <1>10 DEF Accepted, IsKnownLive, KnownStarted
  <2>3. /\ status' \in [Procs -> Statuses] /\ UNCHANGED <<ended, known>>
        /\ Onward /\ KnownStarted'
    BY <2>2, BecomesOnward
  <2>4. status'[p] # "absent"
    BY <2>2, <2>3 DEF Onward
  <2> QED
    BY <1>1, <1>3, <2>1, <2>3, <2>4
<1>11. ASSUME NEW k \in Kills, TimesOut(k) PROVE ManagerInv' /\ Onward
  <2>1. calls[k].target \in Procs
    BY <1>1, <1>11 DEF TimesOut
  <2>2. PICK c \in Calls : c.pc # "waiting" /\ calls' = [calls EXCEPT ![k] = c]
    BY <1>11, <2>1, AnswerIsCall DEF TimesOut
  <2> QED
    BY <1>1, <1>3, <1>11, <2>1, <2>2, BecomesOnward DEF TimesOut
<1>12. ASSUME NEW k \in Kills, Succeeds(k) PROVE ManagerInv' /\ Onward
  <2> DEFINE p == calls[k].target
  <2>1. p \in Procs
    BY <1>1, <1>12 DEF Succeeds
  <2>2. PICK c \in Calls : c.pc # "waiting" /\ calls' = [calls EXCEPT ![k] = c]
    BY <1>12, <2>1, AnswerIsCall DEF Succeeds
  <2>3. CASE status[p] = "killed"
    BY <1>1, <1>3, <1>4, <1>12, <2>2, <2>3 DEF Succeeds
  <2>4. CASE status[p] # "killed"
    <3>1. Ends(p, "killed", "killed", known) /\ "killed" \in Finished
      BY <1>12, <2>4 DEF Succeeds, Finished
    <3> QED
      BY <1>3, <2>1, <2>2, <3>1, EndsOnward
  <2> QED
    BY <2>3, <2>4
<1>13. ASSUME NEW gone \in SUBSET known, Forgets(gone) PROVE ManagerInv' /\ Onward
  <2>1. /\ known' = known \ gone /\ UNCHANGED <<status, ended, calls>>
        /\ \A p \in gone : status[p] \in Finished
    BY <1>13 DEF Forgets
  <2>2. Onward
    BY <1>1, <2>1 DEF Onward
  <2>3. KnownStarted'
    BY <1>1, <2>1 DEF KnownStarted
  <2> QED
    BY <1>1, <1>2, <2>1, <2>2, <2>3
<1>14. ASSUME Shutdown \/ UNCHANGED managerVars PROVE ManagerInv' /\ Onward
  <2>1. UNCHANGED <<status, ended, known, calls>>
    BY <1>14 DEF Shutdown, managerVars
  <2> QED
    BY <1>1, <1>2, <1>4, <2>1
<1> QED
  BY <1>5, <1>6, <1>7, <1>8, <1>9, <1>10, <1>11, <1>12, <1>13, <1>14 DEF PromiseNext

-----------------------------------------------------------------------------
(* The dock *)

Focusable == Procs \cup {NoProcess}
AllEars == [proc : Focusable, ear : Ears \cup {0}]
Lists == UNION {[S -> BOOLEAN] : S \in SUBSET Procs}
Shown == [visibility : Visibilities, pinned : Focusable]

Docks ==
    [disposed : BOOLEAN, visibility : Visibilities, focus : Focusable, list : Lists,
     seen : BOOLEAN, ear : AllEars, subs : SUBSET AllEars, marked : SUBSET Procs,
     refreshDue : BOOLEAN, renderDue : BOOLEAN, shown : Shown, statusUp : BOOLEAN]

(* The connection, while it is there, is to a process that was started; it has
   lost its subscriber only to the end of that process. *)
EarSound(d) ==
    /\ d.subs \subseteq {d.ear} \ {NoEar}
    /\ d.ear.proc = NoProcess => d.ear = NoEar
    /\ d.ear # NoEar =>
          /\ d.ear.proc \in Procs /\ status[d.ear.proc] # "absent"
          /\ IF d.ear \in d.subs THEN d.ear.proc \in known
             ELSE status[d.ear.proc] # "running"

(* What two controllers have in common but for the connection. *)
SameButEar(d, e) ==
    /\ e.disposed = d.disposed /\ e.visibility = d.visibility /\ e.focus = d.focus
    /\ e.list = d.list /\ e.marked = d.marked /\ e.refreshDue = d.refreshDue
    /\ e.statusUp = d.statusUp /\ e.shown = d.shown

LEMMA EmptyEar ==
    /\ NoEar \in AllEars /\ NoEar.proc = NoProcess
    /\ \A p \in Procs, e \in Ears : [proc |-> p, ear |-> e] \in AllEars
                                  /\ [proc |-> p, ear |-> e] # NoEar
                                  /\ [proc |-> p, ear |-> e].proc = p
  BY DockAssumption DEF NoEar, AllEars, Focusable, Ears

LEMMA DisconnectedIs ==
    ASSUME NEW d \in Docks, EarSound(d)
    PROVE  LET e == Disconnected(d)
           IN  /\ e \in Docks /\ e.ear = NoEar /\ e.subs = {}
               /\ SameButEar(d, e)
<1>1. d.subs \ {d.ear} = {}
  BY DEF EarSound
<1> QED
  BY <1>1, EmptyEar DEF Disconnected, Docks, SameButEar

LEMMA ConnectedIs ==
    ASSUME NEW d \in Docks, NEW p \in known, d.subs = {}, ManagerInv
    PROVE  LET e == Connected(d, p)
           IN  e \in Docks /\ EarSound(e) /\ e.ear.proc = p /\ SameButEar(d, e)
<1> DEFINE n == CHOOSE e \in Ears : \A s \in d.subs : s.ear # e
           ear == [proc |-> p, ear |-> n]
<1>1. n \in Ears
  BY DEF Ears
<1> HIDE DEF n
<1>2. p \in Procs /\ status[p] # "absent"
  BY DEF ManagerInv, ManagerTyped
<1>3. ear \in AllEars /\ ear # NoEar /\ ear.proc = p /\ p # NoProcess
  BY <1>1, <1>2, EmptyEar, DockAssumption
<1>4. Connected(d, p) = [d EXCEPT !.ear = ear, !.subs = {ear}]
  BY DEF Connected, n
<1> HIDE DEF ear
<1> DEFINE e == [d EXCEPT !.ear = ear, !.subs = {ear}]
<1>5. e \in Docks /\ e.ear = ear /\ e.subs = {ear} /\ SameButEar(d, e)
  BY <1>3 DEF Docks, SameButEar
<1> HIDE DEF e
<1>6. EarSound(e)
  BY <1>2, <1>3, <1>5 DEF EarSound
<1> QED
  BY <1>3, <1>4, <1>5, <1>6 DEF e

LEMMA PinnedIs ==
    ASSUME NEW d \in Docks
    PROVE  /\ Pinned(d) \in Focusable
           /\ Pinned(d) # NoProcess => Pinned(d) = d.focus /\ Pinned(d) \in DOMAIN d.list
           /\ d.focus \in DOMAIN d.list \cup {NoProcess} => Pinned(d) = d.focus
  BY DEF Pinned, Docks, Focusable

(* The connection that an expanded dock needs. *)
Wanted(d) == IF d.visibility = "expanded" THEN Pinned(d) ELSE NoProcess

LEMMA SyncedIs ==
    ASSUME NEW d \in Docks, EarSound(d), ManagerInv
    PROVE  LET e == Synced(d)
           IN  /\ e \in Docks /\ EarSound(e) /\ SameButEar(d, e)
               /\ DOMAIN d.list \subseteq known => e.ear.proc = Wanted(d)
<1>1. CASE Wanted(d) = NoProcess
  <2>1. Synced(d) = Disconnected(d)
    BY <1>1 DEF Synced, Wanted
  <2> DEFINE e == Disconnected(d)
  <2>2. e \in Docks /\ e.ear = NoEar /\ e.subs = {} /\ SameButEar(d, e)
    BY DisconnectedIs
  <2> HIDE DEF e
  <2>3. EarSound(e) /\ e.ear.proc = NoProcess
    BY <2>2, EmptyEar DEF EarSound
  <2> QED
    BY <1>1, <2>1, <2>2, <2>3 DEF e
<1>2. CASE Wanted(d) # NoProcess /\ d.ear.proc = Pinned(d)
  <2>1. Synced(d) = d /\ Wanted(d) = Pinned(d)
    BY <1>2 DEF Synced, Wanted
  <2> QED
    BY <1>2, <2>1 DEF SameButEar
<1>3. CASE Wanted(d) # NoProcess /\ d.ear.proc # Pinned(d)
  <2> DEFINE e == Disconnected(d)
  <2>1. Synced(d) = Connected(e, Pinned(d)) /\ Wanted(d) = Pinned(d)
    BY <1>3 DEF Synced, Wanted
  <2>2. e \in Docks /\ e.ear = NoEar /\ e.subs = {} /\ SameButEar(d, e)
    BY DisconnectedIs
  <2> HIDE DEF e
  <2>3. CASE Pinned(d) \in known
    <3> DEFINE c == Connected(e, Pinned(d))
    <3>1. c \in Docks /\ EarSound(c) /\ c.ear.proc = Pinned(d) /\ SameButEar(e, c)
      BY <2>2, <2>3, ConnectedIs
    <3> HIDE DEF c
    <3>2. SameButEar(d, c)
      BY <2>2, <3>1 DEF SameButEar
    <3> QED
      BY <2>1, <3>1, <3>2 DEF c
  <2>4. CASE Pinned(d) \notin known
    <3>1. Synced(d) = e /\ ~(DOMAIN d.list \subseteq known)
      BY <1>3, <2>1, <2>4, PinnedIs DEF Connected
    <3>2. EarSound(e)
      BY <2>2, EmptyEar DEF EarSound
    <3> QED
      BY <2>2, <3>1, <3>2
  <2> QED
    BY <2>3, <2>4
<1> QED
  BY <1>1, <1>2, <1>3

(* A dock that agrees with the manager. *)
Agrees(d) ==
    /\ DOMAIN d.list = known
    /\ \A p \in known : status[p] \in Finished => ~d.list[p]
    /\ d.focus \in known \cup {NoProcess}
    /\ d.marked \subseteq known
    /\ d.shown = IF d.visibility = "closed" THEN Blank
                 ELSE [visibility |-> d.visibility, pinned |-> d.focus]
    /\ d.statusUp <=> known # {}
    /\ d.ear.proc = IF d.visibility = "expanded" THEN d.focus ELSE NoProcess

DockInv ==
    /\ dock \in Docks /\ EarSound(dock)
    /\ dock.disposed => dock.ear = NoEar
    /\ Settled => Agrees(dock)

RenderedAs(d) ==
    IF d.visibility = "closed" THEN Blank
    ELSE [visibility |-> d.visibility, pinned |-> Pinned(d)]

LEMMA RenderedIs ==
    ASSUME NEW d \in Docks
    PROVE  LET e == Rendered(d)
           IN  /\ e \in Docks /\ e.shown = RenderedAs(d)
               /\ e.disposed = d.disposed /\ e.visibility = d.visibility
               /\ e.focus = d.focus /\ e.list = d.list /\ e.marked = d.marked
               /\ e.refreshDue = d.refreshDue /\ e.statusUp = d.statusUp
               /\ e.ear = d.ear /\ e.subs = d.subs
<1>1. Blank \in Shown
  BY DEF Blank, Shown, Visibilities, Focusable
<1>2. d.visibility \in Visibilities
  BY DEF Docks
<1>3. [visibility |-> d.visibility, pinned |-> Pinned(d)] \in Shown
  BY <1>2, PinnedIs DEF Shown
<1>4. RenderedAs(d) \in Shown
  BY <1>1, <1>3 DEF RenderedAs
<1>5. Rendered(d) = [d EXCEPT !.renderDue = FALSE, !.shown = RenderedAs(d)]
  BY DEF Rendered, RenderedAs
<1> QED
  BY <1>4, <1>5 DEF Docks

LEMMA ListedIs ==
    ASSUME ManagerInv
    PROVE  /\ Listed \in Lists /\ DOMAIN Listed = known
           /\ \A p \in known : status[p] \in Finished => ~Listed[p]
<1>1. Listed \in [known -> BOOLEAN]
  BY DEF Listed
<1>2. known \in SUBSET Procs
  BY DEF ManagerInv, ManagerTyped
<1> QED
  BY <1>1, <1>2 DEF Lists, Listed, Live, Finished

(* A refresh makes the dock agree with the manager, whatever it was. *)
LEMMA HardRefreshedIs ==
    ASSUME NEW d \in Docks, EarSound(d), ManagerInv
    PROVE  LET e == HardRefreshed(d)
           IN  /\ e \in Docks /\ EarSound(e) /\ Agrees(e)
               /\ e.refreshDue = FALSE /\ e.disposed = d.disposed
<1> DEFINE taken == [d EXCEPT
               !.list = Listed,
               !.marked = @ \cap known,
               !.seen = @ \/ \E p \in known : status[p] = "running",
               !.focus = IF @ \in known THEN @ ELSE NoProcess]
           nothingOn == /\ taken.focus = NoProcess /\ taken.seen
                        /\ \A p \in known : status[p] \notin Live
           synced == Synced(taken)
           closing == known = {} \/ nothingOn
           last == [synced EXCEPT
               !.visibility = IF closing THEN "closed" ELSE @,
               !.refreshDue = FALSE, !.statusUp = known # {}]
<1>1. HardRefreshed(d) = Rendered(last)
  BY DEF HardRefreshed
<1>2. /\ taken \in Docks /\ taken.list = Listed /\ taken.marked = d.marked \cap known
      /\ taken.focus = (IF d.focus \in known THEN d.focus ELSE NoProcess)
      /\ taken.ear = d.ear /\ taken.subs = d.subs
      /\ taken.disposed = d.disposed /\ taken.visibility = d.visibility
  BY ListedIs DEF Docks, Focusable
<1>3. /\ closing \in BOOLEAN
      /\ closing => taken.focus = NoProcess
  BY <1>2 DEF ManagerInv
<1> HIDE DEF taken, closing
<1>4. EarSound(taken)
  BY <1>2 DEF EarSound
<1>5. /\ synced \in Docks /\ EarSound(synced) /\ SameButEar(taken, synced)
      /\ synced.ear.proc = Wanted(taken)
  BY <1>2, <1>4, ListedIs, SyncedIs
<1> HIDE DEF synced
<1>6. Pinned(taken) = taken.focus /\ taken.focus \in known \cup {NoProcess}
  BY <1>2, ListedIs, PinnedIs
<1>7. /\ last \in Docks /\ last.ear = synced.ear /\ last.subs = synced.subs
      /\ last.list = Listed /\ last.marked = taken.marked /\ last.focus = taken.focus
      /\ last.refreshDue = FALSE /\ last.disposed = d.disposed
      /\ last.visibility = (IF closing THEN "closed" ELSE taken.visibility)
  <2> DEFINE visibility == IF closing THEN "closed" ELSE taken.visibility
  <2>1. visibility \in Visibilities
    BY <1>2 DEF Docks, Visibilities
  <2>2. last = [synced EXCEPT !.visibility = visibility,
                             !.refreshDue = FALSE, !.statusUp = known # {}]
    BY <1>5 DEF SameButEar
  <2> HIDE DEF visibility, last
  <2>3. /\ last \in Docks /\ last.ear = synced.ear /\ last.subs = synced.subs
        /\ last.list = synced.list /\ last.marked = synced.marked
        /\ last.focus = synced.focus /\ last.refreshDue = FALSE
        /\ last.disposed = synced.disposed /\ last.visibility = visibility
    BY <1>5, <2>1, <2>2 DEF Docks
  <2> QED
    BY <1>2, <1>5, <2>3 DEF SameButEar, visibility
<1>8. last.statusUp <=> known # {}
  BY <1>5 DEF Docks
<1> HIDE DEF last
<1>9. Pinned(last) = last.focus
  BY <1>2, <1>6, <1>7, ListedIs, PinnedIs
<1> DEFINE e == Rendered(last)
<1>10. /\ e \in Docks /\ e.shown = RenderedAs(last)
       /\ e.disposed = last.disposed /\ e.visibility = last.visibility
       /\ e.focus = last.focus /\ e.list = last.list /\ e.marked = last.marked
       /\ e.refreshDue = last.refreshDue /\ e.statusUp = last.statusUp
       /\ e.ear = last.ear /\ e.subs = last.subs
  BY <1>7, RenderedIs
<1> HIDE DEF e
<1>11. EarSound(e)
  BY <1>5, <1>7, <1>10 DEF EarSound
<1>12. e.ear.proc = IF e.visibility = "expanded" THEN e.focus ELSE NoProcess
  BY <1>3, <1>5, <1>6, <1>7, <1>10 DEF Wanted
<1>13. /\ DOMAIN e.list = known
       /\ \A p \in known : status[p] \in Finished => ~e.list[p]
       /\ e.focus \in known \cup {NoProcess} /\ e.marked \subseteq known
  BY <1>2, <1>6, <1>7, <1>10, ListedIs
<1>14. e.statusUp <=> known # {}
  BY <1>8, <1>10
<1>15. e.shown = IF e.visibility = "closed" THEN Blank
                 ELSE [visibility |-> e.visibility, pinned |-> e.focus]
  BY <1>9, <1>10 DEF RenderedAs
<1>16. Agrees(e)
  BY <1>12, <1>13, <1>14, <1>15 DEF Agrees
<1> QED
  BY <1>1, <1>7, <1>10, <1>11, <1>16 DEF e

(* A dock synced and rendered, as its actions leave it. *)
LEMMA SyncedRenderedIs ==
    ASSUME NEW d \in Docks, EarSound(d), ManagerInv
    PROVE  LET e == Rendered(Synced(d))
           IN  /\ e \in Docks /\ EarSound(e) /\ e.shown = RenderedAs(d)
               /\ e.disposed = d.disposed /\ e.visibility = d.visibility
               /\ e.focus = d.focus /\ e.list = d.list /\ e.marked = d.marked
               /\ e.refreshDue = d.refreshDue /\ e.statusUp = d.statusUp
               /\ DOMAIN d.list \subseteq known => e.ear.proc = Wanted(d)
<1> DEFINE c == Synced(d)
           e == Rendered(c)
<1>1. /\ c \in Docks /\ EarSound(c) /\ SameButEar(d, c)
      /\ DOMAIN d.list \subseteq known => c.ear.proc = Wanted(d)
  BY SyncedIs
<1> HIDE DEF c
<1>2. /\ e \in Docks /\ e.shown = RenderedAs(c)
      /\ e.disposed = c.disposed /\ e.visibility = c.visibility
      /\ e.focus = c.focus /\ e.list = c.list /\ e.marked = c.marked
      /\ e.refreshDue = c.refreshDue /\ e.statusUp = c.statusUp
      /\ e.ear = c.ear /\ e.subs = c.subs
  BY <1>1, RenderedIs
<1>3. RenderedAs(c) = RenderedAs(d)
  BY <1>1 DEF RenderedAs, SameButEar, Pinned
<1> HIDE DEF e
<1>4. EarSound(e)
  BY <1>1, <1>2 DEF EarSound
<1> QED
  BY <1>1, <1>2, <1>3, <1>4 DEF SameButEar, e, c

LEMMA SetFocusIs ==
    ASSUME NEW d \in Docks, EarSound(d), ManagerInv, NEW p \in Focusable
    PROVE  LET e == SetFocus(d, p)
           IN  /\ e \in Docks /\ EarSound(e) /\ e.focus = p
               /\ e.disposed = d.disposed /\ e.list = d.list /\ e.marked = d.marked
               /\ e.refreshDue = d.refreshDue /\ e.statusUp = d.statusUp
<1> DEFINE c == [d EXCEPT
               !.focus = p,
               !.visibility = IF p # NoProcess /\ @ = "closed" THEN "expanded" ELSE @]
<1>1. /\ c \in Docks /\ c.focus = p /\ c.ear = d.ear /\ c.subs = d.subs
      /\ c.disposed = d.disposed /\ c.list = d.list /\ c.marked = d.marked
      /\ c.refreshDue = d.refreshDue /\ c.statusUp = d.statusUp
  BY DEF Docks, Visibilities
<1>2. SetFocus(d, p) = Rendered(Synced(c))
  BY DEF SetFocus
<1> HIDE DEF c
<1>3. EarSound(c)
  BY <1>1 DEF EarSound
<1> QED
  BY <1>1, <1>2, <1>3, SyncedRenderedIs

LEMMA SetVisibilityIs ==
    ASSUME NEW d \in Docks, EarSound(d), ManagerInv, NEW visibility \in Visibilities
    PROVE  LET e == SetVisibility(d, visibility)
           IN  /\ e \in Docks /\ EarSound(e)
               /\ e.disposed = d.disposed /\ e.list = d.list /\ e.marked = d.marked
               /\ e.refreshDue = d.refreshDue /\ e.statusUp = d.statusUp
               /\ e.focus = d.focus /\ e.visibility = visibility
               /\ e.shown = IF visibility = "closed" THEN Blank
                            ELSE [visibility |-> visibility, pinned |-> Pinned(d)]
               /\ DOMAIN d.list \subseteq known =>
                     e.ear.proc = IF visibility = "expanded" THEN Pinned(d) ELSE NoProcess
<1> DEFINE c == [d EXCEPT !.visibility = visibility]
<1>1. /\ c \in Docks /\ c.focus = d.focus /\ c.ear = d.ear /\ c.subs = d.subs
      /\ c.disposed = d.disposed /\ c.list = d.list /\ c.marked = d.marked
      /\ c.refreshDue = d.refreshDue /\ c.statusUp = d.statusUp
      /\ c.visibility = visibility
  BY DEF Docks
<1>2. SetVisibility(d, visibility) = Rendered(Synced(c))
  BY DEF SetVisibility
<1> HIDE DEF c
<1>3. EarSound(c)
  BY <1>1 DEF EarSound
<1>4. Pinned(c) = Pinned(d)
  BY <1>1 DEF Pinned
<1>5. /\ Wanted(c) = IF visibility = "expanded" THEN Pinned(d) ELSE NoProcess
      /\ RenderedAs(c) = IF visibility = "closed" THEN Blank
                         ELSE [visibility |-> visibility, pinned |-> Pinned(d)]
  BY <1>1, <1>4 DEF Wanted, RenderedAs
<1> QED
  BY <1>1, <1>2, <1>3, <1>5, SyncedRenderedIs

-----------------------------------------------------------------------------
(* The steps *)

(* One that leaves the manager alone. *)
LEMMA DockKeeps ==
    ASSUME UNCHANGED managerVars, NEW d, dock' = d, d \in Docks, EarSound(d),
           d.disposed => d.ear = NoEar,
           ~d.disposed /\ ~d.refreshDue => Agrees(d)
    PROVE  DockInv'
<1>1. UNCHANGED <<status, known>>
  BY DEF managerVars
<1>2. EarSound(dock)'
  BY <1>1 DEF EarSound
<1>3. (Settled => Agrees(dock))'
  BY <1>1 DEF Settled, Agrees
<1> QED
  BY <1>2, <1>3 DEF DockInv

(* One that ends in a refresh of a dock that listens as it should. *)
LEMMA RefreshKeeps ==
    ASSUME ManagerInv, UNCHANGED managerVars, NEW d \in Docks, EarSound(d), ~d.disposed,
           dock' = HardRefreshed(d)
    PROVE  DockInv'
  BY HardRefreshedIs, DockKeeps

LEMMA ManagerStepKeeps ==
    ASSUME DockInv, ManagerInv, ManagerInv', Onward, ManagerStep
    PROVE  DockInv'
<1>1. /\ dock \in Docks /\ EarSound(dock)
      /\ dock.disposed => dock.ear = NoEar
      /\ Settled => Agrees(dock)
  BY DEF DockInv
<1> DEFINE heard == [dock EXCEPT
               !.subs = {s \in @ : s.proc \in known' /\ ended'[s.proc] = ended[s.proc]}]
<1>2. dock' = IF dock.disposed THEN dock ELSE Notices(heard)
  BY DEF ManagerStep
<1>3. CASE dock.disposed
  <2>1. dock' = dock /\ dock.ear = NoEar
    BY <1>1, <1>2, <1>3
  <2>2. EarSound(dock)'
    BY <1>1, <2>1 DEF EarSound
  <2> QED
    BY <1>1, <1>3, <2>1, <2>2 DEF DockInv, Settled
<1>4. CASE ~dock.disposed
  <2>1. /\ heard \in Docks /\ heard.ear = dock.ear /\ heard.disposed = dock.disposed
        /\ heard.subs = {s \in dock.subs : s.proc \in known' /\ ended'[s.proc] = ended[s.proc]}
        /\ heard.visibility = dock.visibility /\ heard.focus = dock.focus
        /\ heard.list = dock.list /\ heard.marked = dock.marked
        /\ heard.refreshDue = dock.refreshDue /\ heard.statusUp = dock.statusUp
        /\ heard.shown = dock.shown
    BY <1>1 DEF Docks
  <2> HIDE DEF heard
  <2> DEFINE up == IF \E p \in Procs : status[p] = "absent" /\ status'[p] = "running"
                   THEN [heard EXCEPT !.visibility = IF DockDefault = "closed" THEN @ ELSE DockDefault]
                   ELSE heard
  <2>2. /\ up \in Docks /\ up.ear = heard.ear /\ up.subs = heard.subs
        /\ up.disposed = heard.disposed /\ up.refreshDue = heard.refreshDue
    BY <2>1, DockAssumption DEF Docks
  <2>3. dock' = IF known' # known \/ ended' # ended THEN [up EXCEPT !.refreshDue = TRUE] ELSE up
    BY <1>2, <1>4 DEF Notices
  <2>4. ~(known' # known \/ ended' # ended) => up = heard
    BY DEF Onward
  <2> HIDE DEF up
  <2>5. /\ dock' \in Docks /\ dock'.ear = dock.ear /\ dock'.subs = heard.subs
        /\ ~dock'.disposed
    BY <1>4, <2>1, <2>2, <2>3 DEF Docks
  <2>6. EarSound(dock)'
    <3>1. dock'.subs \subseteq dock.subs
      BY <2>1, <2>5
    <3>2. ASSUME dock.ear # NoEar, dock.ear \in dock'.subs PROVE dock.ear.proc \in known'
      BY <2>1, <2>5, <3>2
    <3>3. ASSUME dock.ear # NoEar, dock.ear \notin dock'.subs
          PROVE  status'[dock.ear.proc] # "running"
      <4>1. dock.ear.proc \in Procs /\ status[dock.ear.proc] # "absent"
        BY <1>1, <3>3 DEF EarSound
      <4>2. CASE dock.ear \notin dock.subs
        BY <1>1, <3>3, <4>1, <4>2 DEF EarSound, Onward
      <4>3. CASE dock.ear \in dock.subs
        <5>1. dock.ear.proc \in known /\ (\/ dock.ear.proc \notin known'
                                         \/ ended'[dock.ear.proc] # ended[dock.ear.proc])
          BY <1>1, <2>1, <2>5, <3>3, <4>3 DEF EarSound
        <5> QED
          BY <4>1, <5>1 DEF Onward, Finished
      <4> QED
        BY <4>2, <4>3
    <3>4. ASSUME dock.ear # NoEar PROVE dock.ear.proc \in Procs /\ status'[dock.ear.proc] # "absent"
      BY <1>1, <3>4 DEF EarSound, Onward
    <3> QED
      BY <1>1, <2>5, <3>1, <3>2, <3>3, <3>4 DEF EarSound
  <2>7. (Settled => Agrees(dock))'
    <3> SUFFICES ASSUME Settled' PROVE Agrees(dock)'
      OBVIOUS
    <3>1. known' = known /\ ended' = ended
      BY <2>2, <2>3 DEF Settled, Docks
    <3>2. dock' = heard
      BY <2>3, <2>4, <3>1
    <3>3. Agrees(dock)
      BY <1>1, <1>4, <2>1, <3>2 DEF Settled
    <3>4. \A p \in known : status'[p] \in Finished => ~dock.list[p]
      BY <3>1, <3>3 DEF Agrees, Onward, ManagerInv, ManagerTyped
    <3> QED
      BY <2>1, <3>1, <3>2, <3>3, <3>4 DEF Agrees
  <2> QED
    BY <2>5, <2>6, <2>7 DEF DockInv
<1> QED
  BY <1>3, <1>4

LEMMA FreshIs == Fresh \in Docks /\ Fresh.ear = NoEar /\ Fresh.disposed = FALSE
                 /\ Fresh.subs = {}
<1>1. /\ Blank \in Shown /\ NoProcess \in Focusable /\ <<>> \in Lists
      /\ NoEar \in AllEars /\ DockDefault \in Visibilities
  <2>1. <<>> \in [{} -> BOOLEAN]
    OBVIOUS
  <2> QED
    BY <2>1, EmptyEar, DockAssumption DEF Blank, Shown, Visibilities, Focusable, Lists
<1> QED
  BY <1>1 DEF Fresh, Docks

(* Those between two refreshes, and those that refresh at once. *)
LEMMA DockStepKeeps ==
    ASSUME DockInv, ManagerInv, [DockNext]_dockVars
    PROVE  DockInv' /\ ManagerInv'
<1>1. /\ dock \in Docks /\ EarSound(dock)
      /\ dock.disposed => dock.ear = NoEar
      /\ Settled => Agrees(dock)
  BY DEF DockInv
<1>2. CASE ManagerStep
  <2>1. ManagerInv' /\ Onward
    BY <1>2, ManagerOnward DEF ManagerStep
  <2> QED
    BY <1>2, <2>1, ManagerStepKeeps
<1>3. ASSUME UNCHANGED managerVars, ~ManagerStep PROVE DockInv'
  <2>1. ASSUME NEW p \in Procs, OutputChanged(p) PROVE DockInv'
    <3>1. CASE dock' = [dock EXCEPT !.renderDue = TRUE]
      <4> DEFINE d == [dock EXCEPT !.renderDue = TRUE]
      <4>1. /\ d \in Docks /\ d.ear = dock.ear /\ d.subs = dock.subs
            /\ SameButEar(dock, d)
        BY <1>1 DEF Docks, SameButEar
      <4> HIDE DEF d
      <4>2. EarSound(d) /\ (Agrees(dock) => Agrees(d))
        BY <1>1, <4>1 DEF EarSound, Agrees, SameButEar
      <4>3. dock' = d
        BY <3>1 DEF d
      <4> QED
        BY <1>1, <1>3, <4>1, <4>2, <4>3, DockKeeps DEF SameButEar, Settled
    <3>2. CASE dock' = [dock EXCEPT !.refreshDue = TRUE]
      <4> DEFINE d == [dock EXCEPT !.refreshDue = TRUE]
      <4>1. /\ d \in Docks /\ d.ear = dock.ear /\ d.subs = dock.subs
            /\ d.refreshDue = TRUE /\ d.disposed = dock.disposed
        BY <1>1 DEF Docks
      <4> HIDE DEF d
      <4>2. EarSound(d)
        BY <1>1, <4>1 DEF EarSound
      <4>3. dock' = d
        BY <3>2 DEF d
      <4> QED
        BY <1>1, <1>3, <4>1, <4>2, <4>3, DockKeeps
    <3> QED
      BY <2>1, <3>1, <3>2 DEF OutputChanged
  <2>2. ASSUME NEW p \in Procs, LogMatch(p) PROVE DockInv'
    <3> DEFINE c == [dock EXCEPT !.marked = @ \cup {p}]
               d == Rendered(c)
    <3>1. /\ c \in Docks /\ c.ear = dock.ear /\ c.subs = dock.subs
          /\ c.marked = dock.marked \cup {p} /\ c.disposed = dock.disposed
          /\ c.visibility = dock.visibility /\ c.focus = dock.focus /\ c.list = dock.list
          /\ c.refreshDue = dock.refreshDue /\ c.statusUp = dock.statusUp
      BY <1>1 DEF Docks
    <3> HIDE DEF c
    <3>2. /\ d \in Docks /\ d.shown = RenderedAs(c) /\ d.disposed = c.disposed
          /\ d.visibility = c.visibility /\ d.focus = c.focus /\ d.list = c.list
          /\ d.marked = c.marked /\ d.refreshDue = c.refreshDue
          /\ d.statusUp = c.statusUp /\ d.ear = c.ear /\ d.subs = c.subs
      BY <3>1, RenderedIs
    <3>3. dock' = d /\ ~dock.disposed /\ p \in known
      BY <2>2 DEF LogMatch, IsKnownLive, c
    <3> HIDE DEF d
    <3>4. EarSound(d)
      BY <1>1, <3>1, <3>2 DEF EarSound
    <3>5. ASSUME Agrees(dock) PROVE Agrees(d)
      <4>1. Pinned(c) = dock.focus
        BY <3>1, <3>5, PinnedIs DEF Agrees
      <4> QED
        BY <3>1, <3>2, <3>3, <3>5, <4>1 DEF Agrees, RenderedAs
    <3> QED
      BY <1>1, <1>3, <3>1, <3>2, <3>3, <3>4, <3>5, DockKeeps DEF Settled
  <2>3. CASE RefreshFires
    BY <1>1, <1>3, <2>3, RefreshKeeps DEF RefreshFires
  <2>4. CASE RenderFires
    <3> DEFINE d == Rendered(dock)
    <3>1. /\ d \in Docks /\ d.shown = RenderedAs(dock) /\ d.disposed = dock.disposed
          /\ d.visibility = dock.visibility /\ d.focus = dock.focus /\ d.list = dock.list
          /\ d.marked = dock.marked /\ d.refreshDue = dock.refreshDue
          /\ d.statusUp = dock.statusUp /\ d.ear = dock.ear /\ d.subs = dock.subs
      BY <1>1, RenderedIs
    <3>2. dock' = d /\ ~dock.disposed
      BY <2>4 DEF RenderFires
    <3> HIDE DEF d
    <3>3. EarSound(d)
      BY <1>1, <3>1 DEF EarSound
    <3>4. ASSUME Agrees(dock) PROVE Agrees(d)
      <4>1. Pinned(dock) = dock.focus
        BY <1>1, <3>4, PinnedIs DEF Agrees
      <4> QED
        BY <3>1, <3>4, <4>1 DEF Agrees, RenderedAs
    <3> QED
      BY <1>1, <1>3, <3>1, <3>2, <3>3, <3>4, DockKeeps DEF Settled
  <2>5. ASSUME NEW visibility \in Visibilities, DockCommand(visibility) PROVE DockInv'
    <3> DEFINE d == SetVisibility(dock, visibility)
    <3>1. /\ d \in Docks /\ EarSound(d) /\ d.disposed = dock.disposed
      BY <1>1, SetVisibilityIs
    <3>2. dock' = HardRefreshed(d) /\ ~dock.disposed
      BY <2>5 DEF DockCommand
    <3> HIDE DEF d
    <3> QED
      BY <1>3, <3>1, <3>2, RefreshKeeps
  <2>6. ASSUME NEW p \in Focusable, PinCommand(p) PROVE DockInv'
    <3> DEFINE c == SetFocus(dock, p)
               d == SetVisibility(c, "expanded")
    <3>1. /\ c \in Docks /\ EarSound(c) /\ c.disposed = dock.disposed
      BY <1>1, SetFocusIs
    <3>2. dock' = HardRefreshed(d) /\ ~dock.disposed /\ "expanded" \in Visibilities
      BY <2>6 DEF PinCommand, Visibilities
    <3> HIDE DEF c
    <3>3. /\ d \in Docks /\ EarSound(d) /\ d.disposed = c.disposed
      BY <3>1, <3>2, SetVisibilityIs
    <3> HIDE DEF d
    <3> QED
      BY <1>3, <3>1, <3>2, <3>3, RefreshKeeps
  <2>7. ASSUME NEW p \in Focusable, handlePin(p) PROVE DockInv'
    <3> DEFINE taken == [dock EXCEPT !.list = Listed]
               refused == p # NoProcess /\ (p \notin known \/ (status[p] \notin Live /\ dock.focus # p))
    <3>1. /\ ~dock.disposed
          /\ dock' = IF refused THEN taken
                     ELSE SetVisibility(SetFocus(taken, p), "expanded")
      BY <2>7 DEF handlePin
    <3>2. /\ taken \in Docks /\ taken.list = Listed /\ taken.ear = dock.ear
          /\ taken.subs = dock.subs /\ taken.disposed = dock.disposed
          /\ taken.visibility = dock.visibility /\ taken.focus = dock.focus
          /\ taken.marked = dock.marked /\ taken.refreshDue = dock.refreshDue
          /\ taken.statusUp = dock.statusUp /\ taken.shown = dock.shown
      BY <1>1, ListedIs DEF Docks
    <3> HIDE DEF taken
    <3>3. EarSound(taken)
      BY <1>1, <3>2 DEF EarSound
    <3>4. CASE refused
      <4>1. ASSUME Agrees(dock) PROVE Agrees(taken)
        BY <3>2, <4>1, ListedIs DEF Agrees
      <4> QED
        BY <1>1, <1>3, <3>1, <3>2, <3>3, <3>4, <4>1, DockKeeps DEF Settled
    <3>5. CASE ~refused
      <4> DEFINE c == SetFocus(taken, p)
                 d == SetVisibility(c, "expanded")
      <4>0. p \in known \cup {NoProcess} /\ dock' = d
        BY <3>1, <3>5
      <4>1. /\ c \in Docks /\ EarSound(c) /\ c.focus = p
            /\ c.disposed = taken.disposed /\ c.list = taken.list /\ c.marked = taken.marked
            /\ c.refreshDue = taken.refreshDue /\ c.statusUp = taken.statusUp
        BY <3>2, <3>3, SetFocusIs
      <4> HIDE DEF c
      <4>2. DOMAIN c.list = known /\ Pinned(c) = p
        BY <3>2, <4>0, <4>1, ListedIs, PinnedIs
      <4>3. "expanded" \in Visibilities /\ "expanded" # "closed"
        BY DEF Visibilities
      <4>4. /\ d \in Docks /\ EarSound(d)
            /\ d.disposed = c.disposed /\ d.list = c.list /\ d.marked = c.marked
            /\ d.refreshDue = c.refreshDue /\ d.statusUp = c.statusUp
            /\ d.focus = c.focus /\ d.visibility = "expanded"
            /\ d.shown = [visibility |-> "expanded", pinned |-> Pinned(c)]
            /\ d.ear.proc = Pinned(c)
        BY <4>1, <4>2, <4>3, SetVisibilityIs
      <4> HIDE DEF d
      <4>5. ASSUME Agrees(dock) PROVE Agrees(d)
        BY <3>2, <4>0, <4>1, <4>2, <4>3, <4>4, <4>5, ListedIs DEF Agrees
      <4> QED
        BY <1>1, <1>3, <3>1, <3>2, <4>0, <4>1, <4>4, <4>5, DockKeeps DEF Settled
    <3> QED
      BY <3>4, <3>5
  <2>8. CASE DockShutdown
    <3> DEFINE c == Disconnected(dock)
               d == DockDisposed(dock)
    <3>1. c \in Docks /\ c.ear = NoEar /\ c.subs = {}
      BY <1>1, DisconnectedIs
    <3> HIDE DEF c
    <3>2. d = [c EXCEPT !.disposed = TRUE, !.shown = Blank, !.statusUp = FALSE]
      BY DEF DockDisposed, c
    <3>3. Blank \in Shown
      BY DEF Blank, Shown, Visibilities, Focusable
    <3>4. d \in Docks /\ d.ear = NoEar /\ d.subs = {} /\ d.disposed
      BY <3>1, <3>2, <3>3 DEF Docks
    <3>5. dock' = d
      BY <2>8 DEF DockShutdown
    <3> HIDE DEF d
    <3>6. EarSound(d)
      BY <3>4, EmptyEar DEF EarSound
    <3> QED
      BY <1>3, <3>4, <3>5, <3>6, DockKeeps
  <2>9. CASE SessionStart
    <3> DEFINE d == [Fresh EXCEPT !.subs = DockDisposed(dock).subs]
    <3>1. DockDisposed(dock).subs = {}
      <4>1. Disconnected(dock) \in Docks /\ Disconnected(dock).subs = {}
        BY <1>1, DisconnectedIs
      <4> QED
        BY <4>1 DEF DockDisposed, Docks
    <3>2. Fresh \in Docks /\ Fresh.ear = NoEar /\ Fresh.disposed = FALSE
      BY FreshIs
    <3>3. d \in Docks /\ d.ear = NoEar /\ d.subs = {} /\ d.disposed = FALSE
      BY <3>1, <3>2 DEF Docks
    <3>4. dock' = HardRefreshed(d)
      BY <2>9 DEF SessionStart
    <3> HIDE DEF d
    <3>5. EarSound(d)
      BY <3>3, EmptyEar DEF EarSound
    <3> QED
      BY <1>3, <3>3, <3>4, <3>5, RefreshKeeps
  <2>10. CASE UNCHANGED dock
    BY <1>1, <1>3, <2>10, DockKeeps DEF Settled
  <2> QED
    BY <1>3, <2>1, <2>2, <2>3, <2>4, <2>5, <2>6, <2>7, <2>8, <2>9, <2>10
    DEF DockNext, dockVars, Focusable
<1>4. ManagerStep \/ UNCHANGED managerVars
  BY DEF DockNext, dockVars, OutputChanged, LogMatch, RefreshFires, RenderFires, DockCommand,
         PinCommand, handlePin, DockShutdown, SessionStart
<1>5. UNCHANGED managerVars => ManagerInv'
  BY ManagerOnward
<1> QED
  BY <1>2, <1>3, <1>4, <1>5

LEMMA ManagerBegins == PromiseInit => ManagerInv
<1>1. NoCall \in Calls /\ NoCall.pc # "waiting"
  BY DEF NoCall, Calls, NoProcess
<1> QED
  BY <1>1 DEF PromiseInit, ManagerInv, ManagerTyped, Statuses

LEMMA DockBegins == DockInit => ManagerInv /\ DockInv
<1> SUFFICES ASSUME DockInit PROVE ManagerInv /\ DockInv
  OBVIOUS
<1>1. ManagerInv
  BY ManagerBegins DEF DockInit
<1>2. EarSound(Fresh)
  BY FreshIs, EmptyEar DEF EarSound
<1>3. /\ dock \in Docks /\ EarSound(dock) /\ Agrees(dock) /\ dock.disposed = FALSE
  BY <1>1, <1>2, FreshIs, HardRefreshedIs DEF DockInit
<1> QED
  BY <1>1, <1>3 DEF DockInv

(* What is known of the dock and of the manager in every reachable state. *)
THEOREM DockInvariance == DockSpec => [](ManagerInv /\ DockInv)
<1>1. (ManagerInv /\ DockInv) /\ [DockNext]_dockVars => (ManagerInv /\ DockInv)'
  BY DockStepKeeps
<1> QED
  BY <1>1, DockBegins, PTL DEF DockSpec

(* When no refresh is pending the dock agrees with the manager, whatever was
   started, ended, cleared, pinned and rendered in between; and it listens
   through one connection, to the process it shows and for as long as it is
   expanded, so that a process that runs is heard. *)
THEOREM DockFollowed == DockSpec => []DockFollows
<1>1. DockInv => DockSettles
  <2> SUFFICES ASSUME DockInv, Settled PROVE DockSettles
    BY DEF DockSettles
  <2>1. Agrees(dock) /\ dock \in Docks
    BY DEF DockInv
  <2>2. dock.statusUp = (known # {})
    BY <2>1 DEF Agrees, Docks
  <2> QED
    BY <2>1, <2>2 DEF Agrees, DockSettles
<1>2. DockInv => OneEar
  <2> SUFFICES ASSUME DockInv PROVE OneEar
    OBVIOUS
  <2>1. /\ EarSound(dock) /\ (dock.disposed => dock.ear = NoEar)
        /\ Settled => Agrees(dock)
    BY DEF DockInv
  <2>2. dock.disposed => dock.subs = {}
    BY <2>1 DEF EarSound
  <2> QED
    BY <2>1, <2>2 DEF EarSound, Agrees, OneEar
<1> QED
  BY <1>1, <1>2, DockInvariance, PTL DEF DockFollows

-----------------------------------------------------------------------------
(* Sorting *)

Row == [id : Procs, live : BOOLEAN]

Earlier(S, R, x) == {y \in S : <<y, x>> \in R}

(* Every place of an order is taken: to n members each of the n numbers of
   predecessors occurs. *)
LEMMA PlacesTaken ==
    ASSUME NEW S, IsFiniteSet(S), NEW R,
           \A x \in S : <<x, x>> \notin R,
           \A x, y \in S : x # y => <<x, y>> \in R \/ <<y, x>> \in R,
           \A x, y, z \in S : <<x, y>> \in R /\ <<y, z>> \in R => <<x, z>> \in R
    PROVE  /\ Cardinality(S) \in Nat
           /\ \A n \in 1 .. Cardinality(S) :
                 \E x \in S : Cardinality(Earlier(S, R, x)) = n - 1
           /\ \A x \in S : Cardinality(Earlier(S, R, x)) \in 0 .. Cardinality(S) - 1
           /\ \A x, y \in S :
                 Cardinality(Earlier(S, R, x)) = Cardinality(Earlier(S, R, y)) => x = y
<1> DEFINE C == Cardinality(S)
           First(x) == Earlier(S, R, x)
           place == [x \in S |-> Cardinality(First(x))]
<1>1. C \in Nat
  BY FS_CardinalityType
<1>2. ASSUME NEW x \in S
      PROVE  /\ IsFiniteSet(First(x)) /\ Cardinality(First(x)) \in 0 .. C - 1
  <2>1. First(x) \in SUBSET S /\ First(x) # S
    BY DEF Earlier
  <2>2. IsFiniteSet(First(x)) /\ Cardinality(First(x)) <= C /\ Cardinality(First(x)) # C
    BY <2>1, FS_Subset
  <2>3. Cardinality(First(x)) \in Nat
    BY <2>2, FS_CardinalityType
  <2> QED
    BY <1>1, <2>2, <2>3
<1>3. ASSUME NEW x \in S, NEW y \in S, <<x, y>> \in R
      PROVE  place[x] # place[y]
  <2>1. First(x) \in SUBSET First(y) /\ x \in First(y) /\ x \notin First(x)
    BY <1>3 DEF Earlier
  <2>2. IsFiniteSet(First(y)) /\ First(x) # First(y)
    BY <1>2, <2>1
  <2> HIDE DEF First
  <2>3. Cardinality(First(x)) # Cardinality(First(y))
    BY <2>1, <2>2, FS_Subset
  <2> QED
    BY <2>3
<1>4. place \in [S -> 0 .. C - 1]
  BY <1>2
<1>5. IsFiniteSet(0 .. C - 1) /\ Cardinality(0 .. C - 1) = C
  <2>1. 0 \in Int /\ C - 1 \in Int
    BY <1>1
  <2> QED
    BY <1>1, <2>1, FS_Interval
<1>6. place \in Injection(S, 0 .. C - 1)
  <2> HIDE DEF place
  <2>1. \A x, y \in S : place[x] = place[y] => x = y
    BY <1>3
  <2> QED
    BY <1>4, <2>1 DEF Injection, IsInjective
<1>7. place \in Surjection(S, 0 .. C - 1)
  <2> HIDE DEF place
  <2> QED
    BY <1>5, <1>6, FS_Injection
<1>8. \A t \in 0 .. C - 1 : \E x \in S : place[x] = t
  <2> HIDE DEF place
  <2> QED
    BY <1>7 DEF Surjection
<1>9. ASSUME NEW n \in 1 .. C PROVE \E x \in S : Cardinality(First(x)) = n - 1
  <2>1. n - 1 \in 0 .. C - 1
    BY <1>1
  <2> QED
    BY <1>8, <2>1
<1>10. \A x \in S : Cardinality(First(x)) \in 0 .. C - 1
  BY <1>2
<1>11. \A x, y \in S : Cardinality(First(x)) = Cardinality(First(y)) => x = y
  BY <1>3
<1> HIDE DEF place
<1> QED
  BY <1>1, <1>9, <1>10, <1>11

(* A list that was sorted holds what is to be shown and nothing else. *)
LEMMA AppliedIs ==
    ASSUME NEW rows \in SUBSET Row, IsFiniteSet(rows),
           \A a, b \in rows : a.id = b.id => a = b,
           NEW o, o.sort \in {"status", "started", "name"}
    PROVE  applyView(o, rows) \in Seq(rows)
<1> DEFINE S == {row \in rows : Passes(row, o.filter, o.quick)}
           R == {pair \in S \X S : Precedes(pair[1], pair[2], o.sort)}
<1>1. S \in SUBSET rows /\ IsFiniteSet(S)
  <2>1. S \in SUBSET rows
    OBVIOUS
  <2> QED
    BY <2>1, FS_Subset
<1>2. \A a \in S : a.id \in Nat /\ NameRank[a.id] \in Nat /\ a.live \in BOOLEAN
  <2>1. \A a \in S : a.id \in Procs /\ a.live \in BOOLEAN
    BY DEF Row
  <2> QED
    BY <2>1, OverviewAssumption
<1>3. \A x, y \in S : <<x, y>> \in R <=> Precedes(x, y, o.sort)
  OBVIOUS
<1>4. \A x, y \in S : x.id = y.id => x = y
  OBVIOUS
<1> HIDE DEF S, R
<1>5. /\ \A x \in S : ~Precedes(x, x, o.sort)
      /\ \A x, y \in S : x # y => Precedes(x, y, o.sort) \/ Precedes(y, x, o.sort)
      /\ \A x, y, z \in S :
            Precedes(x, y, o.sort) /\ Precedes(y, z, o.sort) => Precedes(x, z, o.sort)
  <2>1. CASE o.sort = "status"
    <3>1. \A x, y \in S : Precedes(x, y, o.sort) <=>
              \/ x.live = y.live /\ x.id > y.id
              \/ x.live # y.live /\ x.live
      BY <2>1, <1>2 DEF Precedes
    <3> QED
      BY <1>2, <1>4, <3>1
  <2>2. CASE o.sort = "started"
    <3>1. \A x, y \in S : Precedes(x, y, o.sort) <=> x.id > y.id
      BY <2>2, <1>2 DEF Precedes
    <3> QED
      BY <1>2, <1>4, <3>1
  <2>3. CASE o.sort = "name"
    <3>1. \A x, y \in S : Precedes(x, y, o.sort) <=>
              \/ NameRank[x.id] < NameRank[y.id]
              \/ NameRank[x.id] = NameRank[y.id] /\ x.id < y.id
      BY <2>3, <1>2 DEF Precedes
    <3> QED
      BY <1>2, <1>4, <3>1
  <2> QED
    BY <2>1, <2>2, <2>3
<1>8. /\ Cardinality(S) \in Nat
      /\ \A n \in 1 .. Cardinality(S) :
            \E x \in S : Cardinality(Earlier(S, R, x)) = n - 1
  <2>1. /\ \A x \in S : <<x, x>> \notin R
        /\ \A x, y \in S : x # y => <<x, y>> \in R \/ <<y, x>> \in R
        /\ \A x, y, z \in S : <<x, y>> \in R /\ <<y, z>> \in R => <<x, z>> \in R
    BY <1>3, <1>5
  <2> QED
    BY <1>1, <2>1, PlacesTaken
<1>9. \A x \in S : Earlier(S, R, x) = {y \in S : Precedes(y, x, o.sort)}
  BY <1>3 DEF Earlier
<1> DEFINE list == [n \in 1 .. Cardinality(S) |->
                      CHOOSE x \in S : Cardinality({y \in S : Precedes(y, x, o.sort)}) = n - 1]
<1>10. applyView(o, rows) = list
  BY DEF applyView, Ordered, S
<1>11. \A n \in 1 .. Cardinality(S) : list[n] \in S
  <2> TAKE n \in 1 .. Cardinality(S)
  <2>1. \E x \in S : Cardinality({y \in S : Precedes(y, x, o.sort)}) = n - 1
    BY <1>8, <1>9
  <2> QED
    BY <2>1
<1>12. \A n \in 1 .. Cardinality(S) : list[n] \in rows
  BY <1>1, <1>11
<1>13. DOMAIN list = 1 .. Cardinality(S) /\ list = [n \in 1 .. Cardinality(S) |-> list[n]]
  OBVIOUS
<1> HIDE DEF list
<1> QED
  BY <1>8, <1>10, <1>12, <1>13

(* The last of the places that are meant, or none. *)
LEMMA GreatestIs ==
    ASSUME NEW n \in Nat, NEW T \in SUBSET (0 .. n), T # {}
    PROVE  Max(T) \in T /\ \A y \in T : Max(T) >= y
<1> DEFINE D == {d \in Nat : n - d \in T}
<1>1. \A x \in T : n - x \in Nat /\ n - (n - x) = x
  OBVIOUS
<1>2. \A x \in T : n - x \in D
  BY <1>1
<1>3. /\ D \in SUBSET Nat /\ D # {}
      /\ \A d \in D : \E x \in T : d = n - x
  <2>1. \A d \in D : n - d \in T /\ d = n - (n - d)
    OBVIOUS
  <2> QED
    BY <1>2, <2>1
<1> HIDE DEF D
<1>4. PICK d \in D : \A y \in D : ~ (<<y, d>> \in OpToRel(<, Nat))
  BY <1>3, NatLessThanWellFounded, WFMin
<1>5. PICK x \in T : d = n - x
  BY <1>3
<1>6. \A y \in T : x >= y
  <2> TAKE y \in T
  <2>1. ~ (n - y < d)
    <3>1. n - y \in D /\ n - y \in Nat /\ d \in Nat
      BY <1>2, <1>3
    <3> QED
      BY <1>4, <3>1, Zenon DEF OpToRel
  <2> QED
    BY <1>5, <2>1
<1> QED
  BY <1>6 DEF Max

LEMMA IndexIs ==
    ASSUME NEW list \in Seq(Row), NEW p
    PROVE  /\ IndexOf(list, p) \in {0} \cup DOMAIN list
           /\ IndexOf(list, p) # 0 => list[IndexOf(list, p)].id = p
<1> DEFINE T == {0} \cup {i \in DOMAIN list : list[i].id = p}
<1>1. Len(list) \in Nat /\ DOMAIN list = 1 .. Len(list)
  OBVIOUS
<1>2. T \in SUBSET (0 .. Len(list)) /\ T # {}
  BY <1>1
<1>3. Max(T) \in T
  <2> HIDE DEF T
  <2> QED
    BY <1>1, <1>2, GreatestIs
<1>4. IndexOf(list, p) = Max(T)
  BY DEF IndexOf
<1> QED
  BY <1>3, <1>4

-----------------------------------------------------------------------------
(* The view *)

Views ==
    [open : BOOLEAN, mode : {"normal", "filter-typing"}, list : Seq(Row),
     selected : Nat \ {0}, viewOffset : Nat,
     sort : {"status", "started", "name"}, filter : {"all", "running", "finished"},
     quick : BOOLEAN, pinned : Procs \cup {Nobody}, pinUnavailable : BOOLEAN]

(* The selection is a row, if there is one, and in the window. *)
InView(o) ==
    /\ o.list # <<>> => o.selected \in DOMAIN o.list
    /\ o.viewOffset < o.selected /\ o.selected <= o.viewOffset + MaxVisible

Shows(o, ids) == \A i \in DOMAIN o.list : o.list[i].id \in ids

(* What is chosen by keys and does not change when the list is read again. *)
SameChoice(o, u) ==
    o.open = u.open /\ o.mode = u.mode /\ o.sort = u.sort /\ o.filter = u.filter /\ o.quick = u.quick

OverviewInv ==
    /\ ManagerInv /\ IsFiniteSet(known)
    /\ overview \in Views /\ InView(overview) /\ Shows(overview, known)
    /\ ~overview.open => overview.list = <<>> /\ overview.mode = "normal"

LEMMA ClampIs ==
    ASSUME NEW selected \in Nat \ {0}, NEW offset \in Nat
    PROVE  LET new == clampViewOffset(selected, offset)
           IN  new \in Nat /\ new < selected /\ selected <= new + MaxVisible
BY OverviewAssumption DEF clampViewOffset

LEMMA LeastOfTwo ==
    ASSUME NEW a \in Int, NEW b \in Int
    PROVE  Min({a, b}) = IF a <= b THEN a ELSE b
<1> DEFINE m == IF a <= b THEN a ELSE b
<1>1. m \in {a, b} /\ \A y \in {a, b} : m =< y
  OBVIOUS
<1>2. \A x \in {a, b} : (\A y \in {a, b} : x =< y) => x = m
  OBVIOUS
<1> QED
  BY <1>1, <1>2 DEF Min

LEMMA GreatestOfTwo ==
    ASSUME NEW a \in Int, NEW b \in Int
    PROVE  Max({a, b}) = IF a >= b THEN a ELSE b
<1> DEFINE m == IF a >= b THEN a ELSE b
<1>1. m \in {a, b} /\ \A y \in {a, b} : m >= y
  OBVIOUS
<1>2. \A x \in {a, b} : (\A y \in {a, b} : x >= y) => x = m
  OBVIOUS
<1> QED
  BY <1>1, <1>2 DEF Max

LEMMA ReselectedIs ==
    ASSUME NEW o \in Views, NEW list \in Seq(Row), NEW keep
    PROVE  LET new == Reselected(o, list, keep)
           IN  /\ new \in Views /\ InView(new) /\ new.list = list /\ SameChoice(new, o)
               /\ IndexOf(list, keep) # 0 =>
                     new.selected = IndexOf(list, keep) /\ selectedProcess(new) = keep
<1> DEFINE at == IndexOf(list, keep)
           selected == IF at # 0 THEN at ELSE Min({o.selected, Max({1, Len(list)})})
           new == [o EXCEPT !.list = list, !.selected = selected,
                            !.viewOffset = clampViewOffset(selected, o.viewOffset)]
<1>1. Len(list) \in Nat /\ DOMAIN list = 1 .. Len(list)
  OBVIOUS
<1>2. at \in {0} \cup DOMAIN list /\ (at # 0 => list[at].id = keep)
  BY IndexIs
<1>3. o.selected \in Nat \ {0} /\ o.viewOffset \in Nat
  BY DEF Views
<1> HIDE DEF at
<1>4. Max({1, Len(list)}) = (IF 1 >= Len(list) THEN 1 ELSE Len(list))
  BY <1>1, GreatestOfTwo
<1> DEFINE last == Max({1, Len(list)})
<1>5. last \in Nat \ {0} /\ (Len(list) # 0 => last = Len(list))
  BY <1>1, <1>4
<1> HIDE DEF last
<1>6. Min({o.selected, last}) = (IF o.selected <= last THEN o.selected ELSE last)
  BY <1>3, <1>5, LeastOfTwo
<1>7. selected = IF at # 0 THEN at ELSE IF o.selected <= last THEN o.selected ELSE last
  BY <1>6 DEF last
<1>8. selected \in Nat \ {0} /\ (Len(list) # 0 => selected \in DOMAIN list)
  <2> HIDE DEF selected
  <2>1. CASE at # 0
    <3>1. selected = at /\ at \in 1 .. Len(list)
      BY <1>1, <1>2, <1>7, <2>1
    <3> QED
      BY <1>1, <3>1
  <2>2. CASE at = 0
    <3>1. selected = IF o.selected <= last THEN o.selected ELSE last
      BY <1>7, <2>2
    <3>2. \A i \in Nat \ {0} : i <= Len(list) => i \in DOMAIN list
      BY <1>1
    <3>3. CASE o.selected <= last
      BY <1>3, <1>5, <3>1, <3>2, <3>3
    <3>4. CASE ~ (o.selected <= last)
      BY <1>3, <1>5, <3>1, <3>2, <3>4
    <3> QED
      BY <3>3, <3>4
  <2> QED
    BY <2>1, <2>2
<1>9. at # 0 => selected = at
  BY <1>7
<1> HIDE DEF selected
<1>10. LET offset == clampViewOffset(selected, o.viewOffset)
       IN  offset \in Nat /\ offset < selected /\ selected <= offset + MaxVisible
  BY <1>3, <1>8, ClampIs
<1>11. /\ new \in Views /\ new.list = list /\ new.selected = selected
       /\ new.viewOffset = clampViewOffset(selected, o.viewOffset)
       /\ SameChoice(new, o)
  BY <1>8, <1>10 DEF Views, SameChoice
<1>12. Reselected(o, list, keep) = new
  BY DEF Reselected, at, selected
<1>13. list # <<>> => Len(list) # 0
  BY EmptySeq
<1> HIDE DEF new
<1>14. InView(new)
  BY <1>8, <1>10, <1>11, <1>13 DEF InView
<1>15. at # 0 => selectedProcess(new) = keep
  BY <1>2, <1>9, <1>11 DEF selectedProcess
<1> QED
  BY <1>9, <1>11, <1>12, <1>14, <1>15 DEF at

-----------------------------------------------------------------------------
(* Reading the list again *)

LEMMA RowsAre ==
    ASSUME NEW ids \in SUBSET Procs, IsFiniteSet(ids), NEW st
    PROVE  LET rows == RowsOf(List(ids, st))
           IN  /\ rows \in SUBSET Row /\ IsFiniteSet(rows)
               /\ \A a, b \in rows : a.id = b.id => a = b
               /\ \A row \in rows : row.id \in ids
<1> DEFINE live == List(ids, st).live
           rows == RowsOf(List(ids, st))
           name == [row \in rows |-> row.id]
<1>1. rows = {[id |-> p, live |-> p \in live] : p \in ids}
  BY DEF RowsOf, List
<1> HIDE DEF live
<1>2. \A row \in rows : row = [id |-> row.id, live |-> row.id \in live] /\ row.id \in ids
  BY <1>1
<1> HIDE DEF rows
<1>3. rows \in SUBSET Row
  <2> SUFFICES ASSUME NEW row \in rows PROVE row \in Row
    OBVIOUS
  <2>1. row.id \in Procs /\ (row.id \in live) \in BOOLEAN
    BY <1>2
  <2>2. [id |-> row.id, live |-> row.id \in live] \in Row
    BY <2>1 DEF Row
  <2> QED
    BY <1>2, <2>2
<1>4. \A a, b \in rows : a.id = b.id => a = b
  BY <1>2
<1>5. name \in Injection(rows, ids)
  <2>1. name \in [rows -> ids]
    BY <1>2
  <2>2. \A a, b \in rows : name[a] = name[b] => a = b
    BY <1>4
  <2> HIDE DEF name
  <2> QED
    BY <2>1, <2>2 DEF Injection, IsInjective
<1>6. IsFiniteSet(rows)
  <2> HIDE DEF name
  <2> QED
    BY <1>5, FS_Injection
<1> QED
  BY <1>2, <1>3, <1>4, <1>6 DEF rows

LEMMA ReadIs ==
    ASSUME NEW ids \in SUBSET Procs, IsFiniteSet(ids), NEW st, NEW o \in Views
    PROVE  LET list == applyView(o, RowsOf(List(ids, st)))
           IN  list \in Seq(Row) /\ \A i \in DOMAIN list : list[i].id \in ids
<1> DEFINE rows == RowsOf(List(ids, st))
           list == applyView(o, rows)
<1>1. /\ rows \in SUBSET Row /\ IsFiniteSet(rows)
      /\ \A a, b \in rows : a.id = b.id => a = b
      /\ \A row \in rows : row.id \in ids
  BY RowsAre
<1> HIDE DEF rows
<1>2. o.sort \in {"status", "started", "name"}
  BY DEF Views
<1>3. list \in Seq(rows)
  BY <1>1, <1>2, AppliedIs
<1> HIDE DEF list
<1>4. \A i \in DOMAIN list : list[i] \in rows
  BY <1>3
<1>5. list \in Seq(Row)
  BY <1>1, <1>3
<1> QED
  BY <1>1, <1>4, <1>5 DEF list, rows

LEMMA RefreshIs ==
    ASSUME NEW ids \in SUBSET Procs, IsFiniteSet(ids), NEW st, NEW o \in Views, NEW preferred
    PROVE  LET new == refresh(o, preferred, RowsOf(List(ids, st)))
           IN  new \in Views /\ InView(new) /\ Shows(new, ids) /\ SameChoice(new, o)
<1> DEFINE rows == RowsOf(List(ids, st))
           list == applyView(o, rows)
           keep == IF preferred # Nobody THEN preferred
                   ELSE selectedProcess([o EXCEPT !.list = list])
           empty == [o EXCEPT !.list = <<>>, !.selected = 1, !.viewOffset = 0]
           new == refresh(o, preferred, rows)
<1>1. list \in Seq(Row) /\ \A i \in DOMAIN list : list[i].id \in ids
  BY ReadIs
<1>2. new = IF list = <<>> THEN empty ELSE Reselected(o, list, keep)
  BY DEF refresh
<1> HIDE DEF list, keep, new
<1>3. CASE list = <<>>
  <2>0. /\ empty \in Views /\ empty.list = <<>> /\ empty.selected = 1 /\ empty.viewOffset = 0
        /\ SameChoice(empty, o)
    <3>1. <<>> \in Seq(Row) /\ 1 \in Nat \ {0} /\ 0 \in Nat
      OBVIOUS
    <3> QED
      BY <3>1 DEF Views, SameChoice
  <2> HIDE DEF empty
  <2>2. InView(empty)
    BY <2>0, OverviewAssumption DEF InView
  <2>1. empty \in Views /\ InView(empty) /\ SameChoice(empty, o) /\ empty.list = <<>>
    BY <2>0, <2>2
  <2> HIDE DEF empty
  <2> QED
    BY <1>2, <1>3, <2>1 DEF Shows, new, rows
<1>4. CASE list # <<>>
  <2>1. new = Reselected(o, list, keep)
    BY <1>2, <1>4
  <2>2. new \in Views /\ InView(new) /\ new.list = list /\ SameChoice(new, o)
    BY <1>1, <2>1, ReselectedIs
  <2> QED
    BY <1>1, <2>2 DEF Shows, new, rows
<1> QED
  BY <1>3, <1>4

LEMMA ReapplyIs ==
    ASSUME OverviewInv, NEW o \in Views, o.list = overview.list, o.selected = overview.selected
    PROVE  LET new == reapply(o, RowsNow)
           IN  /\ new \in Views /\ InView(new) /\ Shows(new, known) /\ SameChoice(new, o)
               /\ IndexOf(new.list, selectedProcess(overview)) # 0 =>
                     selectedProcess(new) = selectedProcess(overview)
<1> DEFINE rows == RowsOf(List(known, status))
           list == applyView(o, rows)
           new == Reselected(o, list, selectedProcess(overview))
<1>1. known \in SUBSET Procs /\ IsFiniteSet(known)
  BY DEF OverviewInv, ManagerInv, ManagerTyped
<1>2. list \in Seq(Row) /\ \A i \in DOMAIN list : list[i].id \in known
  BY <1>1, ReadIs
<1>3. reapply(o, RowsNow) = new
  BY DEF reapply, Kept, selectedProcess, RowsNow, ListNow
<1> HIDE DEF list, rows
<1>4. /\ new \in Views /\ InView(new) /\ new.list = list /\ SameChoice(new, o)
      /\ IndexOf(list, selectedProcess(overview)) # 0 =>
            selectedProcess(new) = selectedProcess(overview)
  BY <1>2, ReselectedIs
<1> HIDE DEF new
<1>5. Shows(new, known)
  BY <1>2, <1>4 DEF Shows
<1> QED
  BY <1>3, <1>4, <1>5

(* A step of the manager is about one process. *)
LEMMA OneMoves ==
    ASSUME ManagerInv, [PromiseNext]_managerVars
    PROVE  \E p : /\ known' \subseteq known \cup {p}
                  /\ \A q \in Procs : q # p => status'[q] = status[q]
<1>1. status \in [Procs -> Statuses]
  BY DEF ManagerInv, ManagerTyped
<1>2. ASSUME NEW p, NEW st, status' = [status EXCEPT ![p] = st]
      PROVE  \A q \in Procs : q # p => status'[q] = status[q]
  BY <1>1, <1>2
<1>3. ASSUME UNCHANGED status, known' \subseteq known
      PROVE  \E p : known' \subseteq known \cup {p} /\ \A q \in Procs : q # p => status'[q] = status[q]
  BY <1>3
<1>4. ASSUME NEW p \in Procs, Begins(p) \/ BornDead(p)
      PROVE  known' \subseteq known \cup {p} /\ \A q \in Procs : q # p => status'[q] = status[q]
  BY <1>2, <1>4 DEF Begins, BornDead, Ends
<1>5. ASSUME NEW p \in Procs, NEW st, NEW o, Finishes(p, st, o)
      PROVE  known' \subseteq known \cup {p} /\ \A q \in Procs : q # p => status'[q] = status[q]
  BY <1>2, <1>5 DEF Finishes, Ends
<1>6. ASSUME NEW p \in Procs, NEW k \in Kills, Refused(k, p) \/ Failed(k, p) \/ Accepted(k, p)
      PROVE  known' \subseteq known \cup {p} /\ \A q \in Procs : q # p => status'[q] = status[q]
  <2>1. CASE Refused(k, p)
    BY <2>1 DEF Refused
  <2>2. ASSUME NEW st, Becomes(p, st)
        PROVE  known' \subseteq known \cup {p} /\ \A q \in Procs : q # p => status'[q] = status[q]
    BY <1>2, <2>2 DEF Becomes
  <2>3. CASE Failed(k, p)
    BY <2>2, <2>3 DEF Failed
  <2>4. CASE Accepted(k, p)
    BY <2>2, <2>4 DEF Accepted
  <2> QED
    BY <1>6, <2>1, <2>3, <2>4
<1>7. ASSUME NEW k \in Kills, TimesOut(k) \/ Succeeds(k)
      PROVE  \E p : known' \subseteq known \cup {p} /\ \A q \in Procs : q # p => status'[q] = status[q]
  BY <1>2, <1>7 DEF TimesOut, Succeeds, Becomes, Ends
<1>8. ASSUME (\E gone \in SUBSET known : Forgets(gone)) \/ Shutdown \/ UNCHANGED managerVars
      PROVE  UNCHANGED status /\ known' \subseteq known
  BY <1>8 DEF Forgets, Shutdown, managerVars
<1>9. CASE PromiseNext
  BY <1>3, <1>4, <1>5, <1>6, <1>7, <1>8, <1>9 DEF PromiseNext
<1> QED
  BY <1>3, <1>8, <1>9

(* The lists that a step of the manager shows are finite. *)
LEMMA StillFinite ==
    ASSUME ManagerInv, IsFiniteSet(known), [PromiseNext]_managerVars
    PROVE  /\ IsFiniteSet(known') /\ IsFiniteSet(known \cup Started)
           /\ known' \in SUBSET Procs /\ (known \cup Started) \in SUBSET Procs
<1>1. PICK p : /\ known' \subseteq known \cup {p}
               /\ \A q \in Procs : q # p => status'[q] = status[q]
  BY OneMoves
<1>2. IsFiniteSet(known \cup {p})
  BY FS_AddElement
<1>3. known' \in SUBSET (known \cup {p}) /\ (known \cup Started) \in SUBSET (known \cup {p})
  BY <1>1 DEF Started
<1>4. known' \in SUBSET Procs /\ (known \cup Started) \in SUBSET Procs
  BY ManagerOnward DEF ManagerInv, ManagerTyped, Started
<1> QED
  BY <1>2, <1>3, <1>4, FS_Subset

LEMMA HandledIs ==
    ASSUME NEW o \in Views, InView(o), NEW ids \in SUBSET Procs, IsFiniteSet(ids), NEW st,
           NEW event, event.list = List(ids, st)
    PROVE  LET new == handleChanged(o, event)
           IN  /\ new \in Views /\ InView(new) /\ SameChoice(new, o)
               /\ o.open => Shows(new, ids)
               /\ ~o.open => new = o
<1>1. CASE o.open
  BY <1>1, RefreshIs DEF handleChanged
<1>2. CASE ~o.open
  BY <1>2 DEF handleChanged, SameChoice
<1> QED
  BY <1>1, <1>2

(* After the handlers of a step the overview shows what is known then. *)
LEMMA HeardIs ==
    ASSUME OverviewInv, PromiseNext, NEW new, Heard(handleChanged, overview, new)
    PROVE  /\ new \in Views /\ InView(new) /\ SameChoice(new, overview)
           /\ Shows(new, known')
           /\ ~new.open => new.list = <<>> /\ new.mode = "normal"
<1> DEFINE ids == known \cup Started
           none == EndedNow = {}
           halfway == IF none THEN overview ELSE handleChanged(overview, EndEvent)
<1>1. /\ IsFiniteSet(known') /\ IsFiniteSet(ids) /\ known' \in SUBSET Procs /\ ids \in SUBSET Procs
  BY StillFinite DEF OverviewInv
<1>2. EndEvent.list = List(ids, status') /\ ListEvent.list = List(known', status')
  BY DEF EndEvent, ListEvent
<1>3. new = IF known' = (IF none THEN known ELSE ids) THEN halfway
            ELSE handleChanged(halfway, ListEvent)
  <2>1. EndEvent.gone = EndedNow
    BY DEF EndEvent
  <2> QED
    BY <2>1 DEF Heard
<1>4. overview \in Views /\ InView(overview) /\ Shows(overview, known)
  BY DEF OverviewInv
<1> HIDE DEF ids, none
<1>5. /\ halfway \in Views /\ InView(halfway) /\ SameChoice(halfway, overview)
      /\ overview.open => Shows(halfway, IF none THEN known ELSE ids)
      /\ ~overview.open => halfway = overview
  <2>1. CASE none
    BY <1>4, <2>1 DEF SameChoice
  <2>2. CASE ~none
    BY <1>1, <1>2, <1>4, <2>2, HandledIs
  <2> QED
    BY <2>1, <2>2
<1> HIDE DEF halfway
<1>6. /\ new \in Views /\ InView(new) /\ SameChoice(new, halfway)
      /\ halfway.open => Shows(new, known')
      /\ ~halfway.open => new = halfway
  <2>1. CASE known' = (IF none THEN known ELSE ids)
    BY <1>3, <1>5, <2>1 DEF SameChoice
  <2>2. CASE known' # (IF none THEN known ELSE ids)
    BY <1>1, <1>2, <1>3, <1>5, <2>2, HandledIs
  <2> QED
    BY <2>1, <2>2
<1>7. SameChoice(new, overview)
  BY <1>5, <1>6 DEF SameChoice
<1>8. ~overview.open => overview.list = <<>> /\ overview.mode = "normal"
  BY DEF OverviewInv
<1>9. Shows(new, known') /\ (~new.open => new.list = <<>> /\ new.mode = "normal")
  BY <1>5, <1>6, <1>7, <1>8 DEF SameChoice, Shows
<1> QED
  BY <1>6, <1>7, <1>9

-----------------------------------------------------------------------------
(* The steps *)

LEMMA NextIsOption ==
    /\ \A sort \in {"status", "started", "name"} :
          NextOf(Sorts, sort) \in {"status", "started", "name"}
    /\ \A filter \in {"all", "running", "finished"} :
          NextOf(Filters, filter) \in {"all", "running", "finished"}
<1>1. ASSUME NEW options, DOMAIN options = 1 .. 3, Len(options) = 3,
             NEW option, \E n \in 1 .. 3 : options[n] = option
      PROVE  NextOf(options, option) \in {options[1], options[2], options[3]}
  <2> DEFINE i == CHOOSE n \in DOMAIN options : options[n] = option
  <2>1. i \in 1 .. 3
    BY <1>1
  <2>2. NextOf(options, option) = options[(i % 3) + 1]
    BY <1>1 DEF NextOf
  <2> HIDE DEF i
  <2>3. (i % 3) + 1 \in 1 .. 3
    BY <2>1
  <2> QED
    BY <2>2, <2>3
<1>2. /\ DOMAIN Sorts = 1 .. 3 /\ Len(Sorts) = 3
      /\ Sorts[1] = "status" /\ Sorts[2] = "started" /\ Sorts[3] = "name"
  BY DEF Sorts
<1>3. /\ DOMAIN Filters = 1 .. 3 /\ Len(Filters) = 3
      /\ Filters[1] = "all" /\ Filters[2] = "running" /\ Filters[3] = "finished"
  BY DEF Filters
<1>4. ASSUME NEW sort \in {"status", "started", "name"}
      PROVE  NextOf(Sorts, sort) \in {"status", "started", "name"}
  <2>1. \E n \in 1 .. 3 : Sorts[n] = sort
    BY <1>2
  <2> QED
    BY <1>1, <1>2, <2>1
<1>5. ASSUME NEW filter \in {"all", "running", "finished"}
      PROVE  NextOf(Filters, filter) \in {"all", "running", "finished"}
  <2>1. \E n \in 1 .. 3 : Filters[n] = filter
    BY <1>3
  <2> QED
    BY <1>1, <1>3, <2>1
<1> QED
  BY <1>4, <1>5

(* What a step keeps when the manager rests and what it may do to the selection. *)
Keeps(o) ==
    overview.sort # o.sort \/ overview.filter # o.filter =>
        (overview.open /\ o.open =>
            LET p == selectedProcess(overview)
            IN  IndexOf(o.list, p) # 0 => selectedProcess(o) = p)

Sound(o, ids) ==
    /\ o \in Views /\ InView(o) /\ Shows(o, ids)
    /\ ~o.open => o.list = <<>> /\ o.mode = "normal"

LEMMA OverviewActs ==
    ASSUME OverviewInv, OverviewNext
    PROVE  Sound(overview', known') /\ Keeps(overview') /\ [PromiseNext]_managerVars
<1>1. /\ overview \in Views /\ InView(overview) /\ Shows(overview, known)
      /\ ~overview.open => overview.list = <<>> /\ overview.mode = "normal"
      /\ known \in SUBSET Procs /\ IsFiniteSet(known)
  BY DEF OverviewInv, ManagerInv, ManagerTyped
<1>2. CASE ListChanges
  <2>1. PromiseNext /\ Heard(handleChanged, overview, overview')
    BY <1>2 DEF ListChanges
  <2>2. Sound(overview', known') /\ SameChoice(overview', overview)
    BY <2>1, HeardIs DEF Sound
  <2> QED
    BY <2>1, <2>2 DEF SameChoice, Keeps
<1>3. ASSUME NEW p, openOverview(p)
      PROVE  Sound(overview', known') /\ Keeps(overview') /\ [PromiseNext]_managerVars
  <2> DEFINE o == [Closed EXCEPT !.open = TRUE]
  <2>1. o \in Views /\ o.open
    <3>1. Closed \in Views
      BY DEF Closed, Views, Nobody
    <3> QED
      BY <3>1 DEF Views
  <2>2. /\ overview' = refresh(o, p, RowsOf(List(known, status)))
        /\ ~overview.open /\ UNCHANGED managerVars
    BY <1>3 DEF openOverview, RowsNow, ListNow
  <2> HIDE DEF o
  <2>3. /\ overview' \in Views /\ InView(overview') /\ Shows(overview', known)
        /\ SameChoice(overview', o)
    BY <1>1, <2>1, <2>2, RefreshIs
  <2>4. known' = known /\ overview'.open
    BY <2>1, <2>2, <2>3 DEF SameChoice, managerVars
  <2> QED
    BY <2>2, <2>3, <2>4 DEF Sound, Keeps
<1>4. CASE closeOverview
  <2>1. overview' = Closed /\ UNCHANGED managerVars
    BY <1>4 DEF closeOverview
  <2>2. Closed \in Views /\ ~Closed.open /\ Closed.list = <<>> /\ Closed.mode = "normal"
    BY DEF Closed, Views, Nobody
  <2>3. InView(Closed)
    BY OverviewAssumption DEF InView, Closed
  <2> QED
    BY <2>1, <2>2, <2>3 DEF Sound, Keeps, Shows
(* Keys that read the list again, for a view that was chosen anew. *)
<1>5. ASSUME NEW o \in Views, o.list = overview.list, o.selected = overview.selected,
             o.open = overview.open, overview.open, overview' = reapply(o, RowsNow),
             UNCHANGED managerVars
      PROVE  Sound(overview', known') /\ Keeps(overview') /\ [PromiseNext]_managerVars
  <2>1. /\ overview' \in Views /\ InView(overview') /\ Shows(overview', known)
        /\ SameChoice(overview', o)
        /\ IndexOf(overview'.list, selectedProcess(overview)) # 0 =>
              selectedProcess(overview') = selectedProcess(overview)
    BY <1>5, ReapplyIs
  <2>2. known' = known /\ overview'.open
    BY <1>5, <2>1 DEF SameChoice, managerVars
  <2> QED
    BY <1>5, <2>1, <2>2 DEF Sound, Keeps
(* Keys that leave the list as it is. *)
<1>6. ASSUME NEW o \in Views, InView(o), o.list = overview.list, overview.open, o.open,
             o.sort = overview.sort, o.filter = overview.filter, overview' = o,
             UNCHANGED managerVars
      PROVE  Sound(overview', known') /\ Keeps(overview') /\ [PromiseNext]_managerVars
  <2>1. known' = known
    BY <1>6 DEF managerVars
  <2> QED
    BY <1>1, <1>6, <2>1 DEF Sound, Keeps, Shows
<1>7. ASSUME NEW delta \in {1, -1}, moveSelection(delta)
      PROVE  Sound(overview', known') /\ Keeps(overview') /\ [PromiseNext]_managerVars
  <2> DEFINE count == Len(overview.list)
             selected == ((overview.selected - 1 + delta + count) % count) + 1
             o == [overview EXCEPT !.selected = selected,
                      !.viewOffset = clampViewOffset(selected, overview.viewOffset)]
  <2>1. overview.list # <<>> /\ overview' = o /\ UNCHANGED managerVars
    BY <1>7 DEF moveSelection, OverviewKey
  <2>2. count \in Nat \ {0} /\ DOMAIN overview.list = 1 .. count
    <3>1. overview.list \in Seq(Row)
      BY <1>1 DEF Views
    <3> QED
      BY <2>1, <3>1, EmptySeq
  <2>3. selected \in 1 .. count
    <3>1. overview.selected \in 1 .. count
      BY <1>1, <2>1, <2>2 DEF InView
    <3> HIDE DEF count
    <3> DEFINE n == overview.selected - 1 + delta + count
    <3>2. n \in Nat
      BY <2>2, <3>1
    <3> HIDE DEF n
    <3>3. n % count \in 0 .. count - 1
      BY <2>2, <3>2
    <3> QED
      BY <2>2, <3>3 DEF n
  <2> HIDE DEF selected
  <2>4. selected \in Nat \ {0} /\ overview.viewOffset \in Nat
    BY <1>1, <2>2, <2>3 DEF Views
  <2>5. LET new == clampViewOffset(selected, overview.viewOffset)
        IN  new \in Nat /\ new < selected /\ selected <= new + MaxVisible
    BY <2>4, ClampIs
  <2>6. /\ o \in Views /\ o.list = overview.list /\ o.open = overview.open
        /\ o.sort = overview.sort /\ o.filter = overview.filter /\ o.selected = selected
        /\ overview.open
        /\ o.viewOffset = clampViewOffset(selected, overview.viewOffset)
    BY <1>1, <1>7, <2>4, <2>5 DEF Views, moveSelection, OverviewKey
  <2> HIDE DEF o
  <2>7. InView(o)
    BY <2>2, <2>3, <2>5, <2>6 DEF InView
  <2> QED
    BY <1>6, <2>1, <2>6, <2>7
<1>8. CASE cycleSort
  <2> DEFINE o == [overview EXCEPT !.sort = NextOf(Sorts, overview.sort)]
  <2>1. overview' = reapply(o, RowsNow) /\ overview.open /\ UNCHANGED managerVars
    BY <1>8 DEF cycleSort, OverviewKey
  <2>2. NextOf(Sorts, overview.sort) \in {"status", "started", "name"}
    BY <1>1, NextIsOption DEF Views
  <2>3. /\ o \in Views /\ o.list = overview.list /\ o.selected = overview.selected
        /\ o.open = overview.open
    BY <1>1, <2>2 DEF Views
  <2> HIDE DEF o
  <2> QED
    BY <1>5, <2>1, <2>3
<1>9. CASE cycleFilter
  <2> DEFINE o == [overview EXCEPT !.filter = NextOf(Filters, overview.filter)]
  <2>1. overview' = reapply(o, RowsNow) /\ overview.open /\ UNCHANGED managerVars
    BY <1>9 DEF cycleFilter, OverviewKey
  <2>2. NextOf(Filters, overview.filter) \in {"all", "running", "finished"}
    BY <1>1, NextIsOption DEF Views
  <2>3. /\ o \in Views /\ o.list = overview.list /\ o.selected = overview.selected
        /\ o.open = overview.open
    BY <1>1, <2>2 DEF Views
  <2> HIDE DEF o
  <2> QED
    BY <1>5, <2>1, <2>3
(* Keys that do not touch the list. *)
<1>10. ASSUME NEW o \in Views, o.list = overview.list, o.selected = overview.selected,
              o.viewOffset = overview.viewOffset, overview.open, o.open,
              o.sort = overview.sort, o.filter = overview.filter, overview' = o,
              UNCHANGED managerVars
       PROVE  Sound(overview', known') /\ Keeps(overview') /\ [PromiseNext]_managerVars
  BY <1>1, <1>6, <1>10 DEF InView
<1>11. CASE startQuickFilter
  <2> DEFINE o == [overview EXCEPT !.mode = "filter-typing"]
  <2>1. overview' = o /\ overview.open /\ UNCHANGED managerVars
    BY <1>11 DEF startQuickFilter, OverviewKey
  <2>2. /\ o \in Views /\ o.list = overview.list /\ o.selected = overview.selected
        /\ o.viewOffset = overview.viewOffset /\ o.open = overview.open
        /\ o.sort = overview.sort /\ o.filter = overview.filter
    BY <1>1 DEF Views
  <2> HIDE DEF o
  <2> QED
    BY <1>10, <2>1, <2>2
<1>12. ASSUME NEW quick \in BOOLEAN, SubmitFilter(quick)
       PROVE  Sound(overview', known') /\ Keeps(overview') /\ [PromiseNext]_managerVars
  <2> DEFINE o == [overview EXCEPT !.quick = quick, !.mode = "normal"]
  <2>1. overview' = reapply(o, RowsNow) /\ overview.open /\ UNCHANGED managerVars
    BY <1>1, <1>12 DEF SubmitFilter, Typing
  <2>2. /\ o \in Views /\ o.list = overview.list /\ o.selected = overview.selected
        /\ o.open = overview.open
    BY <1>1 DEF Views
  <2> HIDE DEF o
  <2> QED
    BY <1>5, <2>1, <2>2
<1>13. CASE EscapeFilter
  <2> DEFINE o == [overview EXCEPT !.quick = FALSE, !.mode = "normal"]
  <2>1. overview' = o /\ overview.open /\ UNCHANGED managerVars
    BY <1>1, <1>13 DEF EscapeFilter, Typing
  <2>2. /\ o \in Views /\ o.list = overview.list /\ o.selected = overview.selected
        /\ o.viewOffset = overview.viewOffset /\ o.open = overview.open
        /\ o.sort = overview.sort /\ o.filter = overview.filter
    BY <1>1 DEF Views
  <2> HIDE DEF o
  <2> QED
    BY <1>10, <2>1, <2>2
<1>14. CASE pinSelected
  <2> DEFINE p == selectedProcess(overview)
  <2>1. PICK ok \in BOOLEAN :
            OverviewKey([overview EXCEPT !.pinUnavailable = ~ok,
                !.pinned = IF ~ok THEN @ ELSE IF overview.pinned = p THEN Nobody ELSE p])
    BY <1>14 DEF pinSelected
  <2> DEFINE pinned == IF ~ok THEN overview.pinned
                       ELSE IF overview.pinned = p THEN Nobody ELSE p
             o == [overview EXCEPT !.pinUnavailable = ~ok, !.pinned = pinned]
  <2>2. overview' = o /\ overview.open /\ UNCHANGED managerVars
    BY <2>1 DEF OverviewKey
  <2>3. p \in Procs \cup {Nobody}
    <3>1. overview.list \in Seq(Row)
      BY <1>1 DEF Views
    <3>2. \A i \in DOMAIN overview.list : overview.list[i] \in Row
      BY <3>1
    <3>3. \A row \in Row : row.id \in Procs
      BY DEF Row
    <3> QED
      BY <3>2, <3>3 DEF selectedProcess
  <2>4. pinned \in Procs \cup {Nobody} /\ (~ok) \in BOOLEAN
    BY <1>1, <2>3 DEF Views
  <2> HIDE DEF pinned
  <2>5. /\ o \in Views /\ o.list = overview.list /\ o.selected = overview.selected
        /\ o.viewOffset = overview.viewOffset /\ o.open = overview.open
        /\ o.sort = overview.sort /\ o.filter = overview.filter
    BY <1>1, <2>4 DEF Views
  <2> HIDE DEF o
  <2> QED
    BY <1>10, <2>2, <2>5
<1> QED
  BY <1>2, <1>3, <1>4, <1>7, <1>8, <1>9, <1>11, <1>12, <1>13, <1>14 DEF OverviewNext

LEMMA OverviewStep ==
    ASSUME OverviewInv, [OverviewNext]_overviewVars
    PROVE  OverviewInv' /\ [Keeps(overview')]_overviewVars
<1>1. CASE OverviewNext
  <2>1. Sound(overview', known') /\ Keeps(overview') /\ [PromiseNext]_managerVars
    BY <1>1, OverviewActs
  <2>2. ManagerInv' /\ IsFiniteSet(known')
    BY <2>1, ManagerOnward, StillFinite DEF OverviewInv
  <2> QED
    BY <2>1, <2>2 DEF OverviewInv, Sound, InView, Shows
<1>2. CASE UNCHANGED overviewVars
  <2>1. UNCHANGED managerVars /\ overview' = overview /\ known' = known
    BY <1>2 DEF overviewVars, managerVars
  <2>2. ManagerInv'
    BY <2>1, ManagerOnward DEF OverviewInv
  <2> QED
    BY <1>2, <2>1, <2>2 DEF OverviewInv, InView, Shows
<1> QED
  BY <1>1, <1>2

LEMMA OverviewBegins == OverviewInit => OverviewInv
<1> SUFFICES ASSUME OverviewInit PROVE OverviewInv
  OBVIOUS
<1>1. ManagerInv /\ known = {} /\ overview = Closed
  BY ManagerBegins DEF OverviewInit, PromiseInit
<1>2. Closed \in Views /\ ~Closed.open /\ Closed.list = <<>> /\ Closed.mode = "normal"
  BY DEF Closed, Views, Nobody
<1>3. InView(Closed)
  BY OverviewAssumption DEF InView, Closed
<1> QED
  BY <1>1, <1>2, <1>3, FS_EmptySet DEF OverviewInv, Shows

(* What is known of the overview in every reachable state. *)
THEOREM OverviewInvariance == OverviewSpec => []OverviewInv
<1>1. OverviewInv /\ [OverviewNext]_overviewVars => OverviewInv'
  BY OverviewStep
<1> QED
  BY <1>1, OverviewBegins, PTL DEF OverviewSpec

(* Whatever starts, ends and goes away, and whatever was sorted and filtered:
   the selection is a row there is and inside the window, and every row is a
   process the manager knows. *)
THEOREM SelectionInView == OverviewSpec => []SelectionIsInView
<1>1. OverviewInv => SelectionIsInView
  BY DEF OverviewInv, InView, Shows, SelectionIsInView
<1> QED
  BY <1>1, OverviewInvariance, PTL

(* Sorting and filtering keep the selection on its process while it is listed. *)
THEOREM SelectionKept == OverviewSpec => ViewKeepsSelection
<1>1. OverviewInv /\ [OverviewNext]_overviewVars => [Keeps(overview')]_overviewVars
  BY OverviewStep
<1>2. [Keeps(overview')]_overviewVars =>
        [overview.sort # overview.sort' \/ overview.filter # overview.filter' =>
            (overview.open /\ overview'.open =>
                LET p == selectedProcess(overview)
                IN  IndexOf(overview'.list, p) # 0 => selectedProcess(overview') = p)]_overviewVars
  BY DEF Keeps
<1> QED
  BY <1>1, <1>2, OverviewInvariance, PTL DEF OverviewSpec, ViewKeepsSelection

-----------------------------------------------------------------------------
(* The overlay: what is kept of its viewers *)

InRank(S, R) ==
    [n \in 1 .. Cardinality(S) |-> CHOOSE x \in S : Cardinality(Earlier(S, R, x)) = n - 1]

(* A sorted set holds each of its members once. *)
LEMMA InRankIs ==
    ASSUME NEW S, IsFiniteSet(S), NEW R,
           \A x \in S : <<x, x>> \notin R,
           \A x, y \in S : x # y => <<x, y>> \in R \/ <<y, x>> \in R,
           \A x, y, z \in S : <<x, y>> \in R /\ <<y, z>> \in R => <<x, z>> \in R
    PROVE  LET list == InRank(S, R)
           IN  /\ list \in Seq(S) /\ Len(list) = Cardinality(S) /\ Cardinality(S) \in Nat
               /\ \A m, n \in DOMAIN list : list[m] = list[n] => m = n
               /\ \A x \in S : \E n \in DOMAIN list : list[n] = x
<1> DEFINE C == Cardinality(S)
           list == InRank(S, R)
           place == [x \in S |-> Cardinality(Earlier(S, R, x))]
<1>1. /\ C \in Nat
      /\ \A n \in 1 .. C : \E x \in S : place[x] = n - 1
  BY PlacesTaken
<1>2. \A x \in S : place[x] \in 0 .. C - 1
  BY PlacesTaken
<1>3. \A x, y \in S : place[x] = place[y] => x = y
  BY PlacesTaken
<1>4. list = [n \in 1 .. C |-> CHOOSE x \in S : place[x] = n - 1]
  <2>1. \A n : (CHOOSE x \in S : Cardinality(Earlier(S, R, x)) = n - 1)
                  = (CHOOSE x \in S : place[x] = n - 1)
    OBVIOUS
  <2> HIDE DEF place
  <2> QED
    BY <2>1 DEF InRank
<1> HIDE DEF place, C, list
<1>5. DOMAIN list = 1 .. C
  BY <1>4
<1>6. ASSUME NEW n \in 1 .. C PROVE list[n] \in S /\ place[list[n]] = n - 1
  <2>1. \E x \in S : place[x] = n - 1
    BY <1>1
  <2>2. list[n] = CHOOSE x \in S : place[x] = n - 1
    BY <1>4
  <2> QED
    BY <2>1, <2>2
<1>7. list \in Seq(S) /\ Len(list) = C
  <2>1. list \in [1 .. C -> S]
    BY <1>4, <1>6
  <2> QED
    BY <1>1, <2>1
<1>8. \A m, n \in 1 .. C : list[m] = list[n] => m = n
  <2> SUFFICES ASSUME NEW m \in 1 .. C, NEW n \in 1 .. C, list[m] = list[n] PROVE m = n
    OBVIOUS
  <2>1. m - 1 = n - 1
    BY <1>6
  <2> QED
    BY <1>1, <2>1
<1>9. ASSUME NEW x \in S PROVE \E n \in 1 .. C : list[n] = x
  <2> DEFINE n == place[x] + 1
  <2>1. n \in 1 .. C /\ n - 1 = place[x]
    BY <1>1, <1>2
  <2> HIDE DEF n
  <2>2. list[n] \in S /\ place[list[n]] = place[x]
    BY <1>6, <2>1
  <2> QED
    BY <1>3, <2>1, <2>2
<1> QED
  BY <1>1, <1>5, <1>7, <1>8, <1>9 DEF C, list

Ahead(a, b, live) == IF (a \in live) = (b \in live) THEN a > b ELSE a \in live

NthTab(ids, live, n) ==
    CHOOSE x \in ids : Cardinality({y \in ids : Ahead(y, x, live)}) = n - 1

TabsOf(ids, live) == [n \in 1 .. Cardinality(ids) |-> NthTab(ids, live, n)]

LEMMA TabsOfList ==
    ASSUME NEW ids \in SUBSET Procs, IsFiniteSet(ids), NEW live
    PROVE  TabsOf(ids, live) \in Seq(ids)
<1> DEFINE R == {pair \in ids \X ids : Ahead(pair[1], pair[2], live)}
<1>2. \A a \in ids : a \in Nat
  BY OverlayAssumption
<1>3. \A x, y \in ids : <<x, y>> \in R <=>
          \/ (x \in live <=> y \in live) /\ x > y
          \/ x \in live /\ y \notin live
  BY DEF Ahead
<1>4. \A x \in ids : Earlier(ids, R, x) = {y \in ids : Ahead(y, x, live)}
  BY DEF Earlier
<1> HIDE DEF R
<1>5. /\ \A x \in ids : <<x, x>> \notin R
      /\ \A x, y \in ids : x # y => <<x, y>> \in R \/ <<y, x>> \in R
      /\ \A x, y, z \in ids : <<x, y>> \in R /\ <<y, z>> \in R => <<x, z>> \in R
  BY <1>2, <1>3
<1>6. /\ Cardinality(ids) \in Nat
      /\ \A n \in 1 .. Cardinality(ids) :
            \E x \in ids : Cardinality(Earlier(ids, R, x)) = n - 1
  BY <1>5, PlacesTaken
<1> DEFINE tabs == TabsOf(ids, live)
<1>7. \A n \in 1 .. Cardinality(ids) : tabs[n] \in ids
  <2> TAKE n \in 1 .. Cardinality(ids)
  <2>1. \E x \in ids : Cardinality({y \in ids : Ahead(y, x, live)}) = n - 1
    BY <1>4, <1>6
  <2> QED
    BY <2>1 DEF TabsOf, NthTab
<1>8. DOMAIN tabs = 1 .. Cardinality(ids) /\ tabs = [n \in 1 .. Cardinality(ids) |-> tabs[n]]
  BY DEF TabsOf
<1> HIDE DEF tabs
<1> QED
  BY <1>6, <1>7, <1>8 DEF tabs

(* The tabs are processes of the list. *)
LEMMA TabsAre ==
    ASSUME NEW ids \in SUBSET Procs, IsFiniteSet(ids), NEW st
    PROVE  sortProcesses(List(ids, st)) \in Seq(ids)
<1>1. sortProcesses(List(ids, st)) = TabsOf(ids, List(ids, st).live)
  BY DEF sortProcesses, Ordered, List, Ahead, TabsOf, NthTab
<1> QED
  BY <1>1, TabsOfList

(* A viewer that got no event too many and, until the end of its process was
   reported, missed none. *)
Viewer ==
    [proc : Procs, missed : SUBSET {"after it"}, extra : {FALSE}, marked : BOOLEAN]

(* Viewers that are apart: one for a process, and not too many. *)
Stored(viewers) ==
    /\ viewers \in Seq(Viewer) /\ Len(viewers) <= MaxCachedViewers
    /\ \A i, j \in DOMAIN viewers : viewers[i].proc = viewers[j].proc => i = j

Among(viewers, p) == \E i \in DOMAIN viewers : viewers[i].proc = p

LEMMA ThoseAre ==
    ASSUME NEW viewers, Stored(viewers), NEW ids
    PROVE  LET those == Those(viewers, ids)
           IN  /\ Stored(those)
               /\ \A p \in ids : Among(viewers, p) => Among(those, p)
               /\ \A n \in DOMAIN those : \E i \in DOMAIN viewers : those[n] = viewers[i]
<1> DEFINE S == {i \in DOMAIN viewers : viewers[i].proc \in ids}
           R == {pair \in S \X S : pair[1] < pair[2]}
           places == InRank(S, R)
           those == [n \in DOMAIN places |-> viewers[places[n]]]
<1>1. /\ viewers \in Seq(Viewer) /\ Len(viewers) \in Nat /\ DOMAIN viewers = 1 .. Len(viewers)
      /\ Len(viewers) <= MaxCachedViewers
      /\ \A i, j \in DOMAIN viewers : viewers[i].proc = viewers[j].proc => i = j
  BY DEF Stored
<1>2. IsFiniteSet(1 .. Len(viewers)) /\ Cardinality(1 .. Len(viewers)) = Len(viewers)
  <2>1. 1 \in Int /\ Len(viewers) \in Int
    BY <1>1
  <2> QED
    BY <1>1, <2>1, FS_Interval
<1>3. S \in SUBSET (1 .. Len(viewers))
  BY <1>1
<1>4. /\ \A i \in S : i \in Nat /\ viewers[i].proc \in ids /\ i \in DOMAIN viewers
      /\ \A i \in DOMAIN viewers : viewers[i].proc \in ids => i \in S
      /\ \A i, j \in S : <<i, j>> \in R <=> i < j
  BY <1>1
<1>5. \A i \in S : Earlier(S, R, i) = {j \in S : j < i}
  BY DEF Earlier
<1>6. Those(viewers, ids) = those
  <2>1. \A n : (CHOOSE i \in S : Cardinality(Earlier(S, R, i)) = n - 1)
                  = (CHOOSE i \in S : Cardinality({j \in S : j < i}) = n - 1)
    BY <1>5
  <2>2. Ordered(S, LAMBDA i, j : i < j) =
          [n \in 1 .. Cardinality(S) |-> CHOOSE i \in S : Cardinality({j \in S : j < i}) = n - 1]
    BY DEF Ordered
  <2> HIDE DEF R
  <2>3. Ordered(S, LAMBDA i, j : i < j) = places
    BY <2>1, <2>2 DEF InRank
  <2> HIDE DEF places
  <2> QED
    BY <2>3 DEF Those
<1> HIDE DEF S, R
<1>7. /\ \A x \in S : <<x, x>> \notin R
      /\ \A x, y \in S : x # y => <<x, y>> \in R \/ <<y, x>> \in R
      /\ \A x, y, z \in S : <<x, y>> \in R /\ <<y, z>> \in R => <<x, z>> \in R
  BY <1>4
<1>8. IsFiniteSet(S) /\ Cardinality(S) <= Len(viewers)
  BY <1>2, <1>3, FS_Subset
<1>9. /\ places \in Seq(S) /\ Len(places) = Cardinality(S) /\ Cardinality(S) \in Nat
      /\ \A m, n \in DOMAIN places : places[m] = places[n] => m = n
      /\ \A i \in S : \E n \in DOMAIN places : places[n] = i
  BY <1>7, <1>8, InRankIs
<1> HIDE DEF places
<1>10. DOMAIN places = 1 .. Len(places) /\ \A n \in DOMAIN places : places[n] \in S
  BY <1>9
<1>11. /\ DOMAIN those = 1 .. Cardinality(S)
       /\ \A n \in DOMAIN those : those[n] = viewers[places[n]] /\ places[n] \in S
  BY <1>9, <1>10
<1>12. \A n \in DOMAIN those : those[n] \in Viewer
  <2>1. \A i \in DOMAIN viewers : viewers[i] \in Viewer
    BY <1>1
  <2> QED
    BY <1>4, <1>11, <2>1
<1>13. those \in Seq(Viewer) /\ Len(those) = Cardinality(S)
  <2>1. those = [n \in 1 .. Cardinality(S) |-> those[n]]
    BY <1>9, <1>10
  <2> HIDE DEF those
  <2> QED
    BY <1>9, <1>11, <1>12, <2>1
<1> HIDE DEF those
<1>14. Len(those) <= MaxCachedViewers
  BY <1>1, <1>8, <1>9, <1>13, OverlayAssumption
<1>15. \A m, n \in DOMAIN those : those[m].proc = those[n].proc => m = n
  BY <1>1, <1>4, <1>9, <1>10, <1>11
<1>16. ASSUME NEW p \in ids, Among(viewers, p) PROVE Among(those, p)
  <2>1. PICK i \in DOMAIN viewers : viewers[i].proc = p
    BY <1>16 DEF Among
  <2>2. PICK n \in DOMAIN places : places[n] = i
    BY <1>4, <1>9, <2>1
  <2> QED
    BY <1>9, <1>10, <1>11, <2>1, <2>2 DEF Among
<1> QED
  BY <1>4, <1>6, <1>11, <1>13, <1>14, <1>15, <1>16 DEF Stored

(* The new viewer is kept, whichever goes for it. *)
LEMMA CachedIs ==
    ASSUME NEW viewers, Stored(viewers), NEW new \in Viewer, ~Among(viewers, new.proc)
    PROVE  LET kept == Cached(Append(viewers, new))
           IN  Stored(kept) /\ Among(kept, new.proc)
<1> DEFINE more == Append(viewers, new)
           n == Len(more)
           first == Max({1, n - MaxCachedViewers + 1})
           kept == SubSeq(more, first, n)
<1>1. /\ viewers \in Seq(Viewer) /\ Len(viewers) \in Nat /\ DOMAIN viewers = 1 .. Len(viewers)
      /\ Len(viewers) <= MaxCachedViewers
      /\ \A i, j \in DOMAIN viewers : viewers[i].proc = viewers[j].proc => i = j
      /\ MaxCachedViewers \in Nat \ {0}
      /\ \A i \in DOMAIN viewers : viewers[i].proc # new.proc
  BY OverlayAssumption DEF Stored, Among
<1>2. /\ more \in Seq(Viewer) /\ n = Len(viewers) + 1 /\ DOMAIN more = 1 .. n
      /\ more[n] = new /\ \A i \in 1 .. Len(viewers) : more[i] = viewers[i]
  BY <1>1
<1>3. \A i, j \in 1 .. n : more[i].proc = more[j].proc => i = j
  <2> HIDE DEF more, n
  <2>1. \A i \in 1 .. n : i \in 1 .. Len(viewers) \/ i = n
    BY <1>1, <1>2
  <2>2. \A i \in 1 .. Len(viewers) : more[i].proc # more[n].proc
    BY <1>1, <1>2
  <2> QED
    BY <1>1, <1>2, <2>1, <2>2
<1>4. first = (IF 1 >= n - MaxCachedViewers + 1 THEN 1 ELSE n - MaxCachedViewers + 1)
  <2>1. 1 \in Int /\ n - MaxCachedViewers + 1 \in Int
    BY <1>1, <1>2
  <2> QED
    BY <2>1, GreatestOfTwo
<1> HIDE DEF more, n, first
<1>5. first \in 1 .. n /\ n \in Nat /\ n - first + 1 <= MaxCachedViewers /\ n - first + 1 \in 1 .. n
  <2>1. CASE 1 >= n - MaxCachedViewers + 1
    BY <1>1, <1>2, <1>4, <2>1
  <2>2. CASE ~ (1 >= n - MaxCachedViewers + 1)
    BY <1>1, <1>2, <1>4, <2>2
  <2> QED
    BY <2>1, <2>2
<1>6. \A i \in first .. n : more[i] \in Viewer
  <2>1. \A i \in first .. n : i \in DOMAIN more
    BY <1>2, <1>5
  <2> QED
    BY <1>2, <2>1
<1>7. /\ kept \in Seq(Viewer) /\ Len(kept) = n - first + 1
      /\ \A i \in 1 .. n - first + 1 : kept[i] = more[first + i - 1]
  <2>1. first \in Int /\ n \in Int /\ first <= n
    BY <1>5
  <2> HIDE DEF kept
  <2> QED
    BY <1>6, <2>1, SubSeqProperties DEF kept
<1> HIDE DEF kept
<1>8. DOMAIN kept = 1 .. n - first + 1
  BY <1>7
<1>9. \A i, j \in DOMAIN kept : kept[i].proc = kept[j].proc => i = j
  <2>1. \A i \in DOMAIN kept : first + i - 1 \in 1 .. n /\ kept[i] = more[first + i - 1]
    BY <1>5, <1>7, <1>8
  <2> SUFFICES ASSUME NEW i \in DOMAIN kept, NEW j \in DOMAIN kept, kept[i].proc = kept[j].proc
               PROVE  i = j
    OBVIOUS
  <2>2. first + i - 1 = first + j - 1
    BY <1>3, <2>1
  <2> QED
    BY <1>5, <1>8, <2>2
<1>10. Among(kept, new.proc)
  <2> DEFINE last == n - first + 1
  <2>1. last \in DOMAIN kept /\ first + last - 1 = n
    BY <1>5, <1>8
  <2>2. kept[last] = new
    BY <1>2, <1>7, <1>8, <2>1
  <2> QED
    BY <2>1, <2>2 DEF Among
<1>11. Cached(Append(viewers, new)) = kept
  BY DEF Cached, kept, more, n, first
<1> QED
  BY <1>5, <1>7, <1>9, <1>10, <1>11 DEF Stored

(* Viewers of the same processes, of which some are marked now. *)
LEMMA EditedIs ==
    ASSUME NEW viewers, Stored(viewers), NEW edited,
           edited = [i \in DOMAIN viewers |-> edited[i]],
           \A i \in DOMAIN viewers : edited[i] \in Viewer /\ edited[i].proc = viewers[i].proc
    PROVE  /\ Stored(edited) /\ DOMAIN edited = DOMAIN viewers
           /\ \A p : Among(viewers, p) => Among(edited, p)
<1>1. DOMAIN edited = DOMAIN viewers
  OBVIOUS
<1>2. /\ viewers \in Seq(Viewer) /\ Len(viewers) \in Nat /\ DOMAIN viewers = 1 .. Len(viewers)
      /\ Len(viewers) <= MaxCachedViewers
      /\ \A i, j \in DOMAIN viewers : viewers[i].proc = viewers[j].proc => i = j
  BY DEF Stored
<1>3. edited \in Seq(Viewer) /\ Len(edited) = Len(viewers)
  <2>1. edited \in [1 .. Len(viewers) -> Viewer]
    BY <1>2
  <2> QED
    BY <1>2, <2>1
<1>4. \A i, j \in DOMAIN edited : edited[i].proc = edited[j].proc => i = j
  BY <1>1, <1>2
<1> QED
  BY <1>1, <1>2, <1>3, <1>4 DEF Stored, Among

LEMMA StoredTyped ==
    ASSUME NEW viewers, Stored(viewers), NEW i \in DOMAIN viewers
    PROVE  /\ viewers[i] \in Viewer /\ viewers[i].proc \in Procs
           /\ viewers[i].missed \in SUBSET {"after it"} /\ viewers[i].extra = FALSE
           /\ viewers[i].marked \in BOOLEAN
<1>1. viewers[i] \in Viewer
  BY DEF Stored
<1> QED
  BY <1>1 DEF Viewer

-----------------------------------------------------------------------------
(* The overlay *)

Link == [proc : Procs, link : Links]

Overlays ==
    [open : BOOLEAN, tabs : Seq(Procs), selected : Nat \ {0}, autoHide : BOOLEAN,
     seen : BOOLEAN, link : Link \cup {Unlinked}, subs : SUBSET Link,
     onScreen : Procs \cup {NoTab}, viewers : Seq(Viewer), marked : SUBSET Procs]

(* One connection at most, to the process on the screen. *)
Tuned(o) ==
    \/ o.link = Unlinked /\ o.onScreen = NoTab /\ o.subs = {}
    \/ o.link \in Link /\ o.onScreen = o.link.proc /\ o.subs \subseteq {o.link}

(* The viewer on the screen is kept and knows of the matches. *)
Held(o) ==
    /\ Stored(o.viewers)
    /\ o.onScreen # NoTab =>
          /\ Among(o.viewers, o.onScreen)
          /\ o.onScreen \in o.marked =>
                \A i \in DOMAIN o.viewers : o.viewers[i].proc = o.onScreen => o.viewers[i].marked

InTune(o) ==
    /\ o \in Overlays /\ Tuned(o) /\ Held(o)
    /\ IF o.open THEN o.onScreen = Tab(o) ELSE o = Shut

Tabbed(o, ids) == \A i \in DOMAIN o.tabs : o.tabs[i] \in ids

(* It hears a process that was not reported ended. *)
Attentive(o, e) == o.onScreen # NoTab /\ e[o.onScreen] = 0 => o.link \in o.subs

(* What was started and still runs was not reported ended. *)
EndsLater == \A p \in Procs : status[p] \in {"absent", "running"} => ended[p] = 0

OverlayInv ==
    /\ ManagerInv /\ EndsLater /\ IsFiniteSet(known)
    /\ InTune(overlay) /\ Tabbed(overlay, known) /\ Attentive(overlay, ended)

LEMMA NoTabIsNone == NoTab \notin Procs
  BY OverlayAssumption DEF NoTab

LEMMA ShutIs ==
    /\ Shut \in Overlays /\ Shut.tabs = <<>> /\ Shut.viewers = <<>> /\ Shut.onScreen = NoTab
    /\ Shut.subs = {} /\ Shut.link = Unlinked /\ ~Shut.open
    /\ InTune(Shut) /\ [Shut EXCEPT !.subs = {}] = Shut
<1>1. /\ Shut.tabs = <<>> /\ Shut.viewers = <<>> /\ Shut.onScreen = NoTab /\ Shut.subs = {}
      /\ Shut.link = Unlinked /\ ~Shut.open
  BY DEF Shut
<1>2. Shut \in Overlays
  <2>1. <<>> \in Seq(Procs) /\ <<>> \in Seq(Viewer)
    OBVIOUS
  <2> QED
    BY <2>1 DEF Shut, Overlays
<1>3. Stored(<<>>)
  <2>1. <<>> \in Seq(Viewer) /\ Len(<<>>) = 0 /\ DOMAIN <<>> = {}
    OBVIOUS
  <2> QED
    BY <2>1, OverlayAssumption DEF Stored
<1>4. [Shut EXCEPT !.subs = {}] = Shut
  BY <1>1, <1>2 DEF Overlays
<1> QED
  BY <1>1, <1>2, <1>3, <1>4 DEF InTune, Tuned, Held

(* The viewer of a process that is looked at is there, and marked as the process is. *)
LEMMA ShownIs ==
    ASSUME NEW o, Stored(o.viewers), NEW p \in Procs, NEW b \in BOOLEAN
    PROVE  LET new == [proc |-> p, missed |-> {}, extra |-> FALSE, marked |-> FALSE]
               old == IF p \in ViewersOf(o) THEN o.viewers ELSE Cached(Append(o.viewers, new))
               shown == [i \in DOMAIN old |->
                           IF old[i].proc = p THEN [old[i] EXCEPT !.marked = @ \/ b] ELSE old[i]]
           IN  /\ Stored(shown) /\ Among(shown, p)
               /\ b => \A i \in DOMAIN shown : shown[i].proc = p => shown[i].marked
<1> DEFINE new == [proc |-> p, missed |-> {}, extra |-> FALSE, marked |-> FALSE]
           old == IF p \in ViewersOf(o) THEN o.viewers ELSE Cached(Append(o.viewers, new))
           shown == [i \in DOMAIN old |->
                       IF old[i].proc = p THEN [old[i] EXCEPT !.marked = @ \/ b] ELSE old[i]]
<1>1. p \in ViewersOf(o) <=> Among(o.viewers, p)
  BY DEF ViewersOf, Among
<1>2. new \in Viewer /\ new.proc = p
  BY DEF Viewer
<1> HIDE DEF new
<1>3. Stored(old) /\ Among(old, p)
  BY <1>1, <1>2, CachedIs
<1> HIDE DEF old
<1>4. \A i \in DOMAIN old : old[i] \in Viewer /\ old[i].marked \in BOOLEAN
  BY <1>3, StoredTyped
<1>5. \A i \in DOMAIN old :
          /\ shown[i] \in Viewer /\ shown[i].proc = old[i].proc
          /\ old[i].proc = p /\ b => shown[i].marked
  <2> SUFFICES ASSUME NEW i \in DOMAIN old
               PROVE  /\ shown[i] \in Viewer /\ shown[i].proc = old[i].proc
                      /\ old[i].proc = p /\ b => shown[i].marked
    OBVIOUS
  <2>1. CASE old[i].proc = p
    <3>1. shown[i] = [old[i] EXCEPT !.marked = @ \/ b]
      BY <2>1
    <3>2. (old[i].marked \/ b) \in BOOLEAN
      OBVIOUS
    <3>3. shown[i] = [old[i] EXCEPT !.marked = (old[i].marked \/ b)]
      BY <3>1
    <3> QED
      BY <1>4, <3>2, <3>3 DEF Viewer
  <2>2. CASE old[i].proc # p
    BY <1>4, <2>2
  <2> QED
    BY <2>1, <2>2
<1>6. shown = [i \in DOMAIN old |-> shown[i]]
  OBVIOUS
<1> HIDE DEF shown
<1>7. Stored(shown) /\ DOMAIN shown = DOMAIN old /\ Among(shown, p)
  BY <1>3, <1>5, <1>6, EditedIs
<1> QED
  BY <1>5, <1>7 DEF shown, old, new

LEMMA UnsubscribedIs ==
    ASSUME NEW o \in Overlays, Tuned(o)
    PROVE  LET u == Unsubscribed(o)
           IN  /\ u \in Overlays /\ u.link = Unlinked /\ u.onScreen = NoTab /\ u.subs = {}
               /\ u.open = o.open /\ u.tabs = o.tabs /\ u.selected = o.selected
               /\ u.autoHide = o.autoHide /\ u.viewers = o.viewers /\ u.marked = o.marked
<1>1. o.subs \ {o.link} = {}
  BY DEF Tuned
<1>2. Unsubscribed(o) = [o EXCEPT !.link = Unlinked, !.onScreen = NoTab, !.subs = {}]
  BY <1>1 DEF Unsubscribed
<1> QED
  BY <1>2 DEF Overlays

(* After it was subscribed to, the selected process is on the screen. *)
LEMMA SubscribedIs ==
    ASSUME NEW o \in Overlays, Tuned(o), Stored(o.viewers), o.open,
           NEW list, Tab(o) \in Procs, Tab(o) \in list.ids
    PROVE  LET new == subscribeToSelected(o, list)
           IN  /\ InTune(new) /\ new.open /\ new.onScreen = Tab(o) /\ new.link \in new.subs
               /\ new.tabs = o.tabs
<1> DEFINE u == Unsubscribed(o)
           p == Tab(o)
           link == [proc |-> p, link |-> CHOOSE l \in Links : \A s \in u.subs : s.link # l]
           made == [proc |-> p, missed |-> {}, extra |-> FALSE, marked |-> FALSE]
           b == p \in u.marked
           old == IF p \in ViewersOf(u) THEN u.viewers ELSE Cached(Append(u.viewers, made))
           shown == [i \in DOMAIN old |->
                       IF old[i].proc = p THEN [old[i] EXCEPT !.marked = @ \/ b] ELSE old[i]]
           new == [u EXCEPT !.link = link, !.subs = {link}, !.onScreen = p, !.viewers = shown]
<1>1. /\ u \in Overlays /\ u.link = Unlinked /\ u.onScreen = NoTab /\ u.subs = {}
      /\ u.open = o.open /\ u.tabs = o.tabs /\ u.selected = o.selected
      /\ u.autoHide = o.autoHide /\ u.viewers = o.viewers /\ u.marked = o.marked
  BY UnsubscribedIs
<1>2. subscribeToSelected(o, list) = new
  <2> DEFINE viewed == IF p \in ViewersOf(u) THEN u
                       ELSE [u EXCEPT !.viewers = Cached(Append(u.viewers, made))]
  <2>1. viewed.viewers = old /\ viewed.subs = {}
    BY <1>1 DEF Overlays
  <2>2. subscribeToSelected(o, list) =
          [viewed EXCEPT !.link = link, !.subs = viewed.subs \cup {link}, !.onScreen = p,
                         !.viewers = [i \in DOMAIN viewed.viewers |->
                             IF viewed.viewers[i].proc = p
                             THEN [viewed.viewers[i] EXCEPT !.marked = @ \/ b]
                             ELSE viewed.viewers[i]]]
    BY DEF subscribeToSelected, Subscribed, Viewers
  <2>3. subscribeToSelected(o, list) =
          [viewed EXCEPT !.link = link, !.subs = {link}, !.onScreen = p, !.viewers = shown]
    <3> HIDE DEF viewed, old, link, u
    <3>1. viewed.subs \cup {link} = {link}
      BY <2>1
    <3>2. [i \in DOMAIN viewed.viewers |->
             IF viewed.viewers[i].proc = p
             THEN [viewed.viewers[i] EXCEPT !.marked = @ \/ b]
             ELSE viewed.viewers[i]] = shown
      BY <2>1
    <3> HIDE DEF shown, b, p
    <3> QED
      BY <2>2, <3>1, <3>2
  <2> HIDE DEF link, shown, old, p, b
  <2>4. CASE p \in ViewersOf(u)
    <3>1. viewed = u
      BY <2>4
    <3> QED
      BY <2>3, <3>1
  <2>5. CASE p \notin ViewersOf(u)
    <3>1. viewed = [u EXCEPT !.viewers = Cached(Append(u.viewers, made))]
      BY <2>5
    <3> HIDE DEF viewed, made, u
    <3>2. [viewed EXCEPT !.link = link, !.subs = {link}, !.onScreen = p, !.viewers = shown] = new
      BY <1>1, <3>1 DEF Overlays
    <3> QED
      BY <2>3, <3>2
  <2> QED
    BY <2>4, <2>5
<1> HIDE DEF u
<1>3. link \in Link /\ link.proc = p
  <2>1. \E l \in Links : \A s \in u.subs : s.link # l
    BY <1>1 DEF Links
  <2> HIDE DEF p
  <2>2. (CHOOSE l \in Links : \A s \in u.subs : s.link # l) \in Links
    BY <2>1
  <2> QED
    BY <2>2 DEF Link, p
<1>4. /\ Stored(shown) /\ Among(shown, p)
      /\ b => \A i \in DOMAIN shown : shown[i].proc = p => shown[i].marked
  <2>1. Stored(u.viewers) /\ b \in BOOLEAN
    BY <1>1
  <2> HIDE DEF b, p
  <2> QED
    BY <2>1, ShownIs DEF p
<1> HIDE DEF link, shown, b
<1>5. shown \in Seq(Viewer)
  BY <1>4 DEF Stored
<1>6. /\ new \in Overlays /\ new.link = link /\ new.subs = {link} /\ new.onScreen = p
      /\ new.viewers = shown /\ new.open /\ new.tabs = o.tabs /\ new.selected = o.selected
      /\ new.marked = u.marked
  BY <1>1, <1>3, <1>5 DEF Overlays
<1> HIDE DEF new
<1>7. Tuned(new) /\ Held(new)
  BY <1>3, <1>4, <1>6 DEF Tuned, Held, b
<1>8. Tab(new) = p
  BY <1>6 DEF Tab
<1> QED
  BY <1>2, <1>6, <1>7, <1>8 DEF InTune

LEMMA PrunedIs ==
    ASSUME NEW o, InTune(o), o.open, NEW list
    PROVE  LET new == pruneRemovedProcesses(o, list)
           IN  /\ InTune(new) /\ new.open /\ new.onScreen = o.onScreen /\ new.link = o.link
               /\ new.subs = o.subs /\ new.tabs = o.tabs
<1> DEFINE ids == list.ids \cup {o.onScreen}
           viewers == Those(o.viewers, ids)
           marked == o.marked \cap (list.ids \cup {Tab(o)})
           new == [o EXCEPT !.viewers = viewers, !.marked = marked]
<1>1. /\ o \in Overlays /\ Tuned(o) /\ Held(o) /\ Stored(o.viewers) /\ o.onScreen = Tab(o)
  BY DEF InTune, Held
<1>2. /\ Stored(viewers)
      /\ Among(o.viewers, o.onScreen) => Among(viewers, o.onScreen)
      /\ \A n \in DOMAIN viewers : \E i \in DOMAIN o.viewers : viewers[n] = o.viewers[i]
  <2>1. o.onScreen \in ids
    OBVIOUS
  <2> HIDE DEF ids
  <2> QED
    BY <1>1, <2>1, ThoseAre
<1>3. viewers \in Seq(Viewer) /\ marked \in SUBSET Procs /\ marked \subseteq o.marked
  BY <1>1, <1>2 DEF Stored, Overlays
<1>4. pruneRemovedProcesses(o, list) = new
  BY DEF pruneRemovedProcesses
<1> HIDE DEF viewers, marked
<1>5. /\ new \in Overlays /\ new.viewers = viewers /\ new.marked = marked
      /\ new.open /\ new.onScreen = o.onScreen /\ new.link = o.link /\ new.subs = o.subs
      /\ new.tabs = o.tabs /\ new.selected = o.selected
  BY <1>1, <1>3 DEF Overlays
<1> HIDE DEF new
<1>6. Tuned(new) /\ Tab(new) = Tab(o)
  BY <1>1, <1>5 DEF Tuned, Tab
<1>7. Held(new)
  BY <1>1, <1>2, <1>3, <1>5 DEF Held
<1> QED
  BY <1>1, <1>4, <1>5, <1>6, <1>7 DEF InTune

(* Whatever the list and whatever was selected, a refresh shows a process of the
   list, if there is one, and listens to it. *)
LEMMA RefreshedIs ==
    ASSUME NEW o \in Overlays, Tuned(o), Stored(o.viewers), o.open, NEW preferred,
           NEW ids \in SUBSET Procs, IsFiniteSet(ids), NEW st
    PROVE  LET new == refreshProcesses(o, preferred, List(ids, st))
           IN  /\ InTune(new) /\ new.open /\ Tabbed(new, ids)
               /\ new.onScreen # NoTab => new.link \in new.subs /\ new.onScreen \in ids
<1> DEFINE list == List(ids, st)
           tabs == sortProcesses(list)
           seen == o.seen \/ list.running # {}
           taken == [o EXCEPT !.tabs = tabs, !.seen = seen]
           keep == IF preferred # NoTab THEN preferred ELSE Tab(taken)
           at == {i \in DOMAIN tabs : tabs[i] = keep}
           selected == IF at # {} THEN Max(at) ELSE Min({o.selected, Len(tabs)})
           empty == [taken EXCEPT !.selected = 1]
           full == [taken EXCEPT !.selected = selected]
           fresh == IF tabs = <<>> THEN Unsubscribed(empty) ELSE subscribeToSelected(full, list)
<1>1. tabs \in Seq(ids) /\ seen \in BOOLEAN /\ list.ids = ids
  BY TabsAre DEF List
<1>2. /\ tabs \in Seq(Procs) /\ Len(tabs) \in Nat /\ DOMAIN tabs = 1 .. Len(tabs)
      /\ \A i \in DOMAIN tabs : tabs[i] \in ids
  BY <1>1
<1>3. refreshProcesses(o, preferred, list) = pruneRemovedProcesses(fresh, list)
  <2>1. taken = [o EXCEPT !.tabs = tabs, !.seen = @ \/ list.running # {}]
    OBVIOUS
  <2> HIDE DEF tabs
  <2> QED
    BY <2>1 DEF refreshProcesses, tabs
<1> HIDE DEF tabs, seen, list
<1>4. /\ taken \in Overlays /\ taken.tabs = tabs /\ taken.link = o.link /\ taken.subs = o.subs
      /\ taken.onScreen = o.onScreen /\ taken.viewers = o.viewers /\ taken.open
  BY <1>1, <1>2 DEF Overlays
<1> HIDE DEF taken, keep
<1>5. CASE tabs = <<>>
  <2> HIDE DEF at, selected, full, fresh
  <2>1. /\ empty \in Overlays /\ empty.tabs = tabs /\ empty.selected = 1 /\ empty.link = o.link
        /\ empty.subs = o.subs /\ empty.onScreen = o.onScreen /\ empty.viewers = o.viewers
        /\ empty.open
    <3>1. 1 \in Nat \ {0}
      OBVIOUS
    <3>2. /\ DOMAIN empty = DOMAIN taken /\ empty.selected = 1
          /\ \A x \in DOMAIN taken : x # "selected" => empty[x] = taken[x]
      BY <1>4 DEF Overlays
    <3> QED
      BY <1>4, <3>1 DEF Overlays
  <2> HIDE DEF empty
  <2>2. Tuned(empty)
    BY <2>1 DEF Tuned
  <2>3. /\ fresh \in Overlays /\ fresh.link = Unlinked /\ fresh.onScreen = NoTab
        /\ fresh.subs = {} /\ fresh.open /\ fresh.tabs = <<>> /\ fresh.selected = 1
        /\ fresh.viewers = o.viewers
    BY <1>5, <2>1, <2>2, UnsubscribedIs DEF fresh
  <2>4. InTune(fresh)
    BY <2>3 DEF InTune, Tuned, Held, Tab
  <2>5. LET new == pruneRemovedProcesses(fresh, list)
        IN  InTune(new) /\ new.open /\ new.onScreen = NoTab /\ new.tabs = <<>>
    BY <2>3, <2>4, PrunedIs
  <2> QED
    BY <1>3, <2>5 DEF Tabbed, list
<1>6. CASE tabs # <<>>
  <2>1. Len(tabs) \in Nat \ {0} /\ o.selected \in Nat \ {0}
    BY <1>2, <1>6, EmptySeq DEF Overlays
  <2>2. at \in SUBSET (0 .. Len(tabs)) /\ at \in SUBSET (1 .. Len(tabs))
    BY <1>2
  <2> HIDE DEF at
  <2>3. at # {} => Max(at) \in at
    BY <1>2, <2>2, GreatestIs
  <2>4. Min({o.selected, Len(tabs)}) = (IF o.selected <= Len(tabs) THEN o.selected ELSE Len(tabs))
    BY <2>1, LeastOfTwo
  <2>5. selected \in 1 .. Len(tabs)
    <3>1. CASE at # {}
      BY <2>2, <2>3, <3>1
    <3>2. CASE at = {}
      BY <2>1, <2>4, <3>2
    <3> QED
      BY <3>1, <3>2
  <2> HIDE DEF selected
  <2>6. selected \in Nat \ {0}
    BY <2>1, <2>5
  <2>7. /\ full \in Overlays /\ full.tabs = tabs /\ full.selected = selected
        /\ full.link = o.link /\ full.subs = o.subs /\ full.onScreen = o.onScreen
        /\ full.viewers = o.viewers /\ full.open
    BY <1>4, <2>6 DEF Overlays
  <2> HIDE DEF full
  <2>8. Tuned(full) /\ Tab(full) \in ids
    BY <1>2, <2>5, <2>7 DEF Tuned, Tab
  <2>9. fresh = subscribeToSelected(full, list)
    BY <1>6
  <2> HIDE DEF fresh
  <2>10. /\ InTune(fresh) /\ fresh.open /\ fresh.onScreen = Tab(full)
         /\ fresh.link \in fresh.subs /\ fresh.tabs = tabs
    BY <1>1, <2>7, <2>8, <2>9, SubscribedIs
  <2> DEFINE new == pruneRemovedProcesses(fresh, list)
  <2>11. /\ InTune(new) /\ new.open /\ new.onScreen = Tab(full) /\ new.link \in new.subs
         /\ new.tabs = tabs
    BY <2>10, PrunedIs
  <2> HIDE DEF new
  <2>12. Tabbed(new, ids)
    BY <1>2, <2>11 DEF Tabbed
  <2> QED
    BY <1>3, <2>8, <2>11, <2>12 DEF new, list
<1> QED
  BY <1>5, <1>6

(* The core drops subscribers. *)
LEMMA DroppedIs ==
    ASSUME NEW o, InTune(o), NEW gone
    PROVE  LET new == [o EXCEPT !.subs = {s \in @ : s.proc \notin gone}]
           IN  /\ InTune(new) /\ new.onScreen = o.onScreen /\ new.tabs = o.tabs
               /\ o.link \in o.subs /\ o.onScreen \notin gone => new.link \in new.subs
<1> DEFINE subs == {s \in o.subs : s.proc \notin gone}
           new == [o EXCEPT !.subs = subs]
<1>1. o \in Overlays /\ Tuned(o) /\ Held(o) /\ subs \subseteq o.subs
  BY DEF InTune
<1>2. o.link \in o.subs /\ o.onScreen \notin gone => o.link \in subs
  <2>1. o.link \in o.subs => o.onScreen = o.link.proc
    BY <1>1 DEF Tuned
  <2> QED
    BY <2>1
<1> HIDE DEF subs
<1>3. /\ new \in Overlays /\ new.subs = subs /\ new.link = o.link /\ new.onScreen = o.onScreen
      /\ new.tabs = o.tabs /\ new.selected = o.selected /\ new.open = o.open
      /\ new.viewers = o.viewers /\ new.marked = o.marked
  BY <1>1 DEF Overlays
<1>4. ~o.open => new = Shut
  <2> SUFFICES ASSUME ~o.open PROVE new = Shut
    OBVIOUS
  <2>1. o = Shut
    BY DEF InTune
  <2>2. subs = {}
    BY <1>1, <2>1, ShutIs
  <2> QED
    BY <2>1, <2>2, ShutIs
<1>5. [o EXCEPT !.subs = {s \in @ : s.proc \notin gone}] = new
  BY DEF subs
<1> HIDE DEF new
<1>6. Tuned(new) /\ Held(new) /\ Tab(new) = Tab(o)
  BY <1>1, <1>3 DEF Tuned, Held, Tab
<1>7. InTune(new)
  BY <1>3, <1>4, <1>6 DEF InTune
<1> QED
  BY <1>2, <1>3, <1>5, <1>7

LEMMA DisposedIs ==
    ASSUME NEW o \in Overlays, Tuned(o)
    PROVE  Disposed(o) = Shut
<1>1. Unsubscribed(o).subs = {}
  BY UnsubscribedIs
<1> QED
  BY <1>1, ShutIs DEF Disposed

(* After a handler the overlay shows the list it was told of. *)
LEMMA ChangedIs ==
    ASSUME NEW o, InTune(o), NEW ids \in SUBSET Procs, IsFiniteSet(ids), NEW st,
           NEW event, event.list = List(ids, st)
    PROVE  LET new == Changed(o, event)
           IN  /\ InTune(new) /\ Tabbed(new, ids)
               /\ new.onScreen # NoTab =>
                     new.onScreen \in ids /\ (new.onScreen \notin event.gone => new.link \in new.subs)
<1> DEFINE fresh == refreshProcesses(o, NoTab, event.list)
           shown == IF ~o.open THEN o ELSE IF Hides(fresh, event) THEN Disposed(fresh) ELSE fresh
           new == [shown EXCEPT !.subs = {s \in @ : s.proc \notin event.gone}]
<1>1. Changed(o, event) = new
  BY DEF Changed
<1>2. /\ InTune(shown) /\ Tabbed(shown, ids)
      /\ shown.onScreen # NoTab => shown.link \in shown.subs /\ shown.onScreen \in ids
  <2>1. InTune(Shut) /\ Tabbed(Shut, ids) /\ Shut.onScreen = NoTab
    BY ShutIs DEF Tabbed
  <2>2. CASE ~o.open
    BY <2>1, <2>2 DEF InTune
  <2>3. CASE o.open
    <3>1. /\ InTune(fresh) /\ Tabbed(fresh, ids)
          /\ fresh.onScreen # NoTab => fresh.link \in fresh.subs /\ fresh.onScreen \in ids
      BY <2>3, RefreshedIs DEF InTune, Held
    <3> HIDE DEF fresh
    <3>2. Disposed(fresh) = Shut
      BY <3>1, DisposedIs DEF InTune
    <3> QED
      BY <2>1, <2>3, <3>1, <3>2
  <2> QED
    BY <2>2, <2>3
<1> HIDE DEF shown
<1>3. /\ InTune(new) /\ new.onScreen = shown.onScreen /\ new.tabs = shown.tabs
      /\ shown.link \in shown.subs /\ shown.onScreen \notin event.gone => new.link \in new.subs
  BY <1>2, DroppedIs
<1> HIDE DEF new
<1> QED
  BY <1>1, <1>2, <1>3 DEF Tabbed

-----------------------------------------------------------------------------
(* What the manager does to the dates of ends *)

LEMMA EndsCounted ==
    ASSUME ManagerInv, [PromiseNext]_managerVars
    PROVE  \A p \in Procs : ended'[p] # ended[p] => ended'[p] # 0
<1>1. ended \in [Procs -> Nat]
  BY DEF ManagerInv, ManagerTyped
<1>2. ASSUME NEW p, ended' = [ended EXCEPT ![p] = @ + 1]
      PROVE  \A q \in Procs : ended'[q] # ended[q] => ended'[q] # 0
  <2> SUFFICES ASSUME NEW q \in Procs, ended'[q] # ended[q] PROVE ended'[q] # 0
    OBVIOUS
  <2>1. ended'[q] = ended[q] + 1 /\ ended[q] \in Nat
    BY <1>1, <1>2
  <2> QED
    BY <2>1
<1>3. ASSUME NEW p, NEW st, NEW o, NEW reg, Ends(p, st, o, reg)
      PROVE  \A q \in Procs : ended'[q] # ended[q] => ended'[q] # 0
  BY <1>2, <1>3 DEF Ends
<1>4. ASSUME NEW p \in Procs, Begins(p) \/ BornDead(p)
      PROVE  \A q \in Procs : ended'[q] # ended[q] => ended'[q] # 0
  BY <1>3, <1>4 DEF Begins, BornDead
<1>5. ASSUME NEW p \in Procs, NEW st, NEW o, Finishes(p, st, o)
      PROVE  \A q \in Procs : ended'[q] # ended[q] => ended'[q] # 0
  BY <1>3, <1>5 DEF Finishes
<1>6. ASSUME NEW p \in Procs, NEW k \in Kills, Refused(k, p) \/ Failed(k, p) \/ Accepted(k, p)
      PROVE  \A q \in Procs : ended'[q] # ended[q] => ended'[q] # 0
  BY <1>6 DEF Refused, Failed, Accepted, Becomes
<1>7. ASSUME NEW k \in Kills, TimesOut(k) \/ Succeeds(k)
      PROVE  \A q \in Procs : ended'[q] # ended[q] => ended'[q] # 0
  BY <1>3, <1>7 DEF TimesOut, Succeeds, Becomes
<1>8. ASSUME (\E gone \in SUBSET known : Forgets(gone)) \/ Shutdown \/ UNCHANGED managerVars
      PROVE  UNCHANGED ended
  BY <1>8 DEF Forgets, Shutdown, managerVars
<1>9. CASE PromiseNext
  BY <1>4, <1>5, <1>6, <1>7, <1>8, <1>9 DEF PromiseNext
<1> QED
  BY <1>8, <1>9

LEMMA StillEndsLater ==
    ASSUME ManagerInv, EndsLater, [PromiseNext]_managerVars
    PROVE  EndsLater'
<1>1. Onward /\ status' \in [Procs -> Statuses]
  BY ManagerOnward DEF ManagerInv, ManagerTyped
<1> SUFFICES ASSUME NEW p \in Procs, status'[p] \in {"absent", "running"} PROVE ended'[p] = 0
  BY DEF EndsLater
<1>2. ended'[p] = ended[p]
  BY <1>1 DEF Onward, Finished
<1>3. status[p] \in {"absent", "running"}
  BY <1>1 DEF Onward
<1> QED
  BY <1>2, <1>3 DEF EndsLater

(* After the handlers of a step the overlay listens to a process of the list. *)
LEMMA OverlayHeardIs ==
    ASSUME OverlayInv, PromiseNext, NEW new, Heard(Changed, overlay, new)
    PROVE  InTune(new) /\ Tabbed(new, known') /\ Attentive(new, ended')
<1> DEFINE ids == known \cup Started
           none == EndedNow = {}
           halfway == IF none THEN overlay ELSE Changed(overlay, EndEvent)
<1>1. /\ IsFiniteSet(known') /\ IsFiniteSet(ids) /\ known' \in SUBSET Procs /\ ids \in SUBSET Procs
      /\ \A p \in Procs : ended'[p] # ended[p] => ended'[p] # 0
  BY StillFinite, EndsCounted DEF OverlayInv
<1>2. /\ EndEvent.list = List(ids, status') /\ ListEvent.list = List(known', status')
      /\ EndEvent.gone = EndedNow /\ ListEvent.gone = Procs \ known'
  BY DEF EndEvent, ListEvent
<1>3. new = IF known' = (IF none THEN known ELSE ids) THEN halfway
            ELSE Changed(halfway, ListEvent)
  BY <1>2 DEF Heard
<1>4. InTune(overlay) /\ Tabbed(overlay, known) /\ Attentive(overlay, ended)
  BY DEF OverlayInv
<1>5. \A p \in Procs : p \in EndedNow <=> ended'[p] # ended[p]
  BY DEF EndedNow
<1>6. \A o : InTune(o) => o.onScreen \in Procs \cup {NoTab}
  BY DEF InTune, Overlays
<1> HIDE DEF ids, none
<1>7. /\ InTune(halfway) /\ Tabbed(halfway, IF none THEN known ELSE ids) /\ Attentive(halfway, ended')
  <2>1. CASE none
    <3>1. halfway = overlay
      BY <2>1
    <3>2. Attentive(overlay, ended')
      BY <1>4, <1>5, <1>6, <2>1 DEF Attentive, none
    <3> QED
      BY <1>4, <2>1, <3>1, <3>2
  <2>2. CASE ~none
    <3>1. halfway = Changed(overlay, EndEvent)
      BY <2>2
    <3>2. /\ InTune(halfway) /\ Tabbed(halfway, ids)
          /\ halfway.onScreen # NoTab =>
                halfway.onScreen \in ids /\ (halfway.onScreen \notin EndedNow => halfway.link \in halfway.subs)
      BY <1>1, <1>2, <1>4, <3>1, ChangedIs
    <3> HIDE DEF halfway
    <3>3. Attentive(halfway, ended')
      BY <1>1, <1>5, <1>6, <3>2 DEF Attentive
    <3> QED
      BY <2>2, <3>2, <3>3
  <2> QED
    BY <2>1, <2>2
<1> HIDE DEF halfway
<1>8. CASE known' = (IF none THEN known ELSE ids)
  BY <1>3, <1>7, <1>8
<1>9. CASE known' # (IF none THEN known ELSE ids)
  <2>1. new = Changed(halfway, ListEvent)
    BY <1>3, <1>9
  <2>2. /\ InTune(new) /\ Tabbed(new, known')
        /\ new.onScreen # NoTab =>
              /\ new.onScreen \in known'
              /\ new.onScreen \notin Procs \ known' => new.link \in new.subs
    BY <1>1, <1>2, <1>7, <2>1, ChangedIs
  <2> QED
    BY <2>2 DEF Attentive
<1> QED
  BY <1>8, <1>9

-----------------------------------------------------------------------------
(* The steps of the overlay *)

(* How often the core tells the overlay of an output event of p: once at most,
   not at all when another process is on the screen, and certainly when p is on
   it and was not reported ended. *)
LEMMA ToldIs ==
    ASSUME NEW o, Tuned(o), Attentive(o, ended), o.onScreen # NoTab, NEW p
    PROVE  LET telling == Cardinality({s \in o.subs : s.proc = p})
           IN  /\ telling \in {0, 1}
               /\ o.onScreen # p => telling = 0
               /\ o.onScreen = p /\ ended[p] = 0 => telling = 1
<1> DEFINE heard == {s \in o.subs : s.proc = p}
<1>1. o.subs \subseteq {o.link} /\ o.onScreen = o.link.proc
  BY DEF Tuned
<1>2. o.onScreen # p => heard = {}
  BY <1>1
<1>3. o.onScreen = p /\ ended[p] = 0 => heard = {o.link}
  BY <1>1 DEF Attentive
<1>4. heard = {} \/ heard = {o.link}
  BY <1>1
<1>5. {o.link} # {} /\ Cardinality({}) = 0 /\ Cardinality({o.link}) = 1
  BY FS_EmptySet, FS_Singleton
<1> HIDE DEF heard
<1>6. /\ Cardinality(heard) \in {0, 1}
      /\ o.onScreen # p => Cardinality(heard) = 0
      /\ o.onScreen = p /\ ended[p] = 0 => Cardinality(heard) = 1
  BY <1>2, <1>3, <1>4, <1>5
<1> QED
  BY <1>6 DEF heard

(* What becomes of the viewer on the screen then. *)
LEMMA HeedsIs ==
    ASSUME NEW v \in Viewer, NEW p, NEW telling \in {0, 1},
           v.proc # p => telling = 0, v.proc = p /\ ended[p] = 0 => telling = 1
    PROVE  LET heeded == Heeds(v, p, telling)
           IN  /\ heeded \in Viewer /\ heeded.proc = v.proc /\ heeded.marked = v.marked
<1> DEFINE due == IF v.proc = p THEN 1 ELSE 0
           missed == IF telling < due
                     THEN v.missed \cup {IF ended[p] = 0 THEN "before the end" ELSE "after it"}
                     ELSE v.missed
           extra == v.extra \/ telling > due
<1>1. /\ v.missed \in SUBSET {"after it"} /\ v.extra = FALSE
      /\ v.proc \in Procs /\ v.marked \in BOOLEAN
  BY DEF Viewer
<1>2. ~ (telling > due) /\ (telling < due => ended[p] # 0)
  <2>1. CASE v.proc = p
    BY <2>1
  <2>2. CASE v.proc # p
    BY <2>2
  <2> QED
    BY <2>1, <2>2
<1> HIDE DEF due
<1>3. missed \in SUBSET {"after it"} /\ extra = FALSE
  BY <1>1, <1>2
<1>4. Heeds(v, p, telling) = [v EXCEPT !.missed = missed, !.extra = extra]
  BY DEF Heeds, due
<1> HIDE DEF missed, extra
<1> QED
  BY <1>1, <1>3, <1>4 DEF Viewer

LEMMA OutputIs ==
    ASSUME OverlayInv, NEW p \in Procs, Output(p)
    PROVE  /\ InTune(overlay') /\ overlay'.tabs = overlay.tabs
           /\ overlay'.onScreen = overlay.onScreen /\ overlay'.link = overlay.link
           /\ overlay'.subs = overlay.subs
<1> DEFINE o == overlay
           telling == Cardinality({s \in o.subs : s.proc = p})
           edited == [i \in DOMAIN o.viewers |->
                        IF o.viewers[i].proc = o.onScreen
                        THEN Heeds(o.viewers[i], p, telling) ELSE o.viewers[i]]
           new == [o EXCEPT !.viewers = edited]
<1>1. /\ o \in Overlays /\ Tuned(o) /\ Held(o) /\ Stored(o.viewers) /\ Attentive(o, ended)
      /\ o.open /\ o.onScreen = Tab(o)
  BY DEF OverlayInv, InTune, Held, Output
<1>2. overlay' = new
  BY DEF Output, Viewers
<1>3. o.onScreen # NoTab =>
          /\ telling \in {0, 1}
          /\ o.onScreen # p => telling = 0
          /\ o.onScreen = p /\ ended[p] = 0 => telling = 1
  BY <1>1, ToldIs
<1> HIDE DEF telling
<1>4. \A i \in DOMAIN o.viewers :
          /\ edited[i] \in Viewer /\ edited[i].proc = o.viewers[i].proc
          /\ edited[i].marked = o.viewers[i].marked
  <2> SUFFICES ASSUME NEW i \in DOMAIN o.viewers
               PROVE  /\ edited[i] \in Viewer /\ edited[i].proc = o.viewers[i].proc
                      /\ edited[i].marked = o.viewers[i].marked
    OBVIOUS
  <2>1. o.viewers[i] \in Viewer /\ o.viewers[i].proc \in Procs
    BY <1>1, StoredTyped
  <2>2. CASE o.viewers[i].proc = o.onScreen
    <3>1. /\ telling \in {0, 1} /\ (o.viewers[i].proc # p => telling = 0)
          /\ (o.viewers[i].proc = p /\ ended[p] = 0 => telling = 1)
      BY <1>3, <2>1, <2>2, NoTabIsNone
    <3>2. edited[i] = Heeds(o.viewers[i], p, telling)
      BY <2>2
    <3> QED
      BY <2>1, <3>1, <3>2, HeedsIs
  <2>3. CASE o.viewers[i].proc # o.onScreen
    BY <2>1, <2>3
  <2> QED
    BY <2>2, <2>3
<1>5. edited = [i \in DOMAIN o.viewers |-> edited[i]]
  OBVIOUS
<1> HIDE DEF edited
<1>6. /\ Stored(edited) /\ DOMAIN edited = DOMAIN o.viewers
      /\ \A q : Among(o.viewers, q) => Among(edited, q)
  BY <1>1, <1>4, <1>5, EditedIs
<1>7. /\ new \in Overlays /\ new.viewers = edited /\ new.marked = o.marked /\ new.open
      /\ new.tabs = o.tabs /\ new.selected = o.selected /\ new.onScreen = o.onScreen
      /\ new.link = o.link /\ new.subs = o.subs
  <2>1. edited \in Seq(Viewer)
    BY <1>6 DEF Stored
  <2> QED
    BY <1>1, <2>1 DEF Overlays
<1> HIDE DEF new
<1>8. Tuned(new) /\ Held(new) /\ Tab(new) = Tab(o)
  BY <1>1, <1>4, <1>6, <1>7 DEF Tuned, Held, Tab
<1> QED
  BY <1>1, <1>2, <1>7, <1>8 DEF InTune

LEMMA MatchedIs ==
    ASSUME OverlayInv, NEW p \in Procs, LogMatched(p)
    PROVE  /\ InTune(overlay') /\ overlay'.tabs = overlay.tabs
           /\ overlay'.onScreen = overlay.onScreen /\ overlay'.link = overlay.link
           /\ overlay'.subs = overlay.subs
<1> DEFINE o == overlay
           all == [i \in DOMAIN o.viewers |->
                     IF o.viewers[i].proc = o.onScreen
                     THEN [o.viewers[i] EXCEPT !.marked = TRUE] ELSE o.viewers[i]]
           viewers == IF Tab(o) = p /\ o.onScreen # NoTab THEN all ELSE o.viewers
           marked == o.marked \cup {p}
           new == [o EXCEPT !.marked = marked, !.viewers = viewers]
<1>1. /\ o \in Overlays /\ Tuned(o) /\ Held(o) /\ Stored(o.viewers)
      /\ o.open /\ o.onScreen = Tab(o)
  BY DEF OverlayInv, InTune, Held, LogMatched
<1>2. overlay' = new
  BY DEF LogMatched, Viewers
<1>3. /\ Stored(all) /\ DOMAIN all = DOMAIN o.viewers
      /\ \A q : Among(o.viewers, q) => Among(all, q)
      /\ \A i \in DOMAIN o.viewers : all[i].proc = o.viewers[i].proc
      /\ \A i \in DOMAIN o.viewers : all[i].proc = o.onScreen => all[i].marked
  <2>1. \A i \in DOMAIN o.viewers :
            /\ all[i] \in Viewer /\ all[i].proc = o.viewers[i].proc
            /\ o.viewers[i].proc = o.onScreen => all[i].marked
    <3> SUFFICES ASSUME NEW i \in DOMAIN o.viewers
                 PROVE  /\ all[i] \in Viewer /\ all[i].proc = o.viewers[i].proc
                        /\ o.viewers[i].proc = o.onScreen => all[i].marked
      OBVIOUS
    <3>1. o.viewers[i] \in Viewer
      BY <1>1, StoredTyped
    <3>2. CASE o.viewers[i].proc = o.onScreen
      BY <3>1, <3>2 DEF Viewer
    <3>3. CASE o.viewers[i].proc # o.onScreen
      BY <3>1, <3>3
    <3> QED
      BY <3>2, <3>3
  <2>2. all = [i \in DOMAIN o.viewers |-> all[i]]
    OBVIOUS
  <2> HIDE DEF all
  <2>3. Stored(all) /\ DOMAIN all = DOMAIN o.viewers
        /\ \A q : Among(o.viewers, q) => Among(all, q)
    BY <1>1, <2>1, <2>2, EditedIs
  <2> QED
    BY <2>1, <2>3
<1> HIDE DEF all
<1>4. /\ Stored(viewers)
      /\ o.onScreen # NoTab =>
            /\ Among(viewers, o.onScreen)
            /\ o.onScreen \in marked =>
                  \A i \in DOMAIN viewers : viewers[i].proc = o.onScreen => viewers[i].marked
  <2>1. CASE Tab(o) = p /\ o.onScreen # NoTab
    BY <1>1, <1>3, <2>1 DEF Held
  <2>2. CASE ~ (Tab(o) = p /\ o.onScreen # NoTab)
    <3>1. viewers = o.viewers /\ (o.onScreen # NoTab => o.onScreen # p)
      BY <1>1, <2>2
    <3> QED
      BY <1>1, <3>1 DEF Held
  <2> QED
    BY <2>1, <2>2
<1> HIDE DEF viewers
<1>5. /\ new \in Overlays /\ new.viewers = viewers /\ new.marked = marked /\ new.open
      /\ new.tabs = o.tabs /\ new.selected = o.selected /\ new.onScreen = o.onScreen
      /\ new.link = o.link /\ new.subs = o.subs
  <2>1. viewers \in Seq(Viewer)
    BY <1>4 DEF Stored
  <2> QED
    BY <1>1, <2>1 DEF Overlays
<1> HIDE DEF new, marked
<1>6. Tuned(new) /\ Held(new) /\ Tab(new) = Tab(o)
  BY <1>1, <1>4, <1>5 DEF Tuned, Held, Tab
<1> QED
  BY <1>1, <1>2, <1>5, <1>6 DEF InTune

LEMMA SelectIs ==
    ASSUME OverlayInv, NEW delta \in {1, -1}, selectRelative(delta)
    PROVE  /\ InTune(overlay') /\ overlay'.tabs = overlay.tabs
           /\ overlay'.link \in overlay'.subs
<1> DEFINE o == overlay
           count == Len(o.tabs)
           selected == ((o.selected - 1 + delta + count) % count) + 1
           moved == [o EXCEPT !.selected = selected]
<1>1. /\ o \in Overlays /\ Tuned(o) /\ Stored(o.viewers) /\ o.open /\ Tabbed(o, known)
      /\ count # 0 /\ overlay' = subscribeToSelected(moved, ListNow)
  BY DEF OverlayInv, InTune, Held, selectRelative
<1>2. o.tabs \in Seq(Procs) /\ o.selected \in Nat \ {0}
  BY <1>1 DEF Overlays
<1>3. count \in Nat \ {0} /\ DOMAIN o.tabs = 1 .. count
  BY <1>1, <1>2
<1>4. selected \in 1 .. count
  <2> HIDE DEF count
  <2> DEFINE n == o.selected - 1 + delta + count
  <2>1. n \in Nat
    BY <1>2, <1>3
  <2> HIDE DEF n
  <2>2. n % count \in 0 .. count - 1
    BY <1>3, <2>1
  <2> QED
    BY <1>3, <2>2 DEF n
<1> HIDE DEF selected
<1>5. /\ moved \in Overlays /\ moved.tabs = o.tabs /\ moved.selected = selected
      /\ moved.link = o.link /\ moved.subs = o.subs /\ moved.onScreen = o.onScreen
      /\ moved.viewers = o.viewers /\ moved.open
  <2>1. selected \in Nat \ {0}
    BY <1>3, <1>4
  <2> HIDE DEF count
  <2> QED
    BY <1>1, <2>1 DEF Overlays
<1> HIDE DEF moved
<1>6. Tuned(moved) /\ Tab(moved) \in known /\ Tab(moved) \in Procs /\ known = ListNow.ids
  <2>1. Tab(moved) = o.tabs[selected] /\ selected \in DOMAIN o.tabs
    BY <1>3, <1>4, <1>5 DEF Tab
  <2>2. Tuned(moved) /\ known = ListNow.ids
    BY <1>1, <1>5 DEF Tuned, ListNow, List
  <2> QED
    BY <1>1, <1>2, <2>1, <2>2 DEF Tabbed
<1> QED
  BY <1>1, <1>5, <1>6, SubscribedIs

LEMMA OpenIs ==
    ASSUME OverlayInv, NEW p, NEW autoHide \in BOOLEAN, openLogs(p, autoHide)
    PROVE  /\ InTune(overlay') /\ Tabbed(overlay', known)
           /\ overlay'.onScreen # NoTab => overlay'.link \in overlay'.subs
<1> DEFINE o == [Shut EXCEPT !.open = TRUE, !.autoHide = autoHide]
<1>1. overlay' = refreshProcesses(o, p, List(known, status))
  BY DEF openLogs, ListNow
<1>2. known \in SUBSET Procs /\ IsFiniteSet(known)
  BY DEF OverlayInv, ManagerInv, ManagerTyped
<1>3. /\ o \in Overlays /\ o.open /\ o.link = Unlinked /\ o.onScreen = NoTab /\ o.subs = {}
      /\ o.viewers = Shut.viewers
  <2>1. Shut \in Overlays /\ Shut.link = Unlinked /\ Shut.onScreen = NoTab /\ Shut.subs = {}
    BY ShutIs
  <2> QED
    BY <2>1 DEF Overlays
<1> HIDE DEF o
<1>4. Tuned(o) /\ Stored(o.viewers)
  BY <1>3, ShutIs DEF Tuned, InTune, Held
<1> QED
  BY <1>1, <1>2, <1>3, <1>4, RefreshedIs

LEMMA OverlayStep ==
    ASSUME OverlayInv, [OverlayNext]_overlayVars
    PROVE  OverlayInv'
<1>1. InTune(overlay) /\ Tabbed(overlay, known) /\ Attentive(overlay, ended)
  BY DEF OverlayInv
<1>2. ASSUME [PromiseNext]_managerVars,
             InTune(overlay') /\ Tabbed(overlay', known') /\ Attentive(overlay', ended')
      PROVE  OverlayInv'
  <2>1. ManagerInv' /\ EndsLater' /\ IsFiniteSet(known')
    BY <1>2, ManagerOnward, StillEndsLater, StillFinite DEF OverlayInv
  <2> QED
    BY <1>2, <2>1 DEF OverlayInv, InTune, Tabbed, Attentive
(* A step without the manager. *)
<1>3. ASSUME UNCHANGED managerVars, InTune(overlay'), Tabbed(overlay', known),
             Attentive(overlay', ended)
      PROVE  OverlayInv'
  <2>1. known' = known /\ ended' = ended
    BY <1>3 DEF managerVars
  <2> QED
    BY <1>2, <1>3, <2>1
<1>4. CASE Happens
  <2>1. PromiseNext /\ Heard(Changed, overlay, overlay')
    BY <1>4 DEF Happens
  <2> QED
    BY <1>2, <2>1, OverlayHeardIs
<1>5. ASSUME NEW p \in Procs, Output(p) PROVE OverlayInv'
  <2>1. UNCHANGED managerVars
    BY <1>5 DEF Output, Unmoved
  <2>2. InTune(overlay') /\ Tabbed(overlay', known) /\ Attentive(overlay', ended)
    BY <1>1, <1>5, OutputIs DEF Tabbed, Attentive
  <2> QED
    BY <1>3, <2>1, <2>2
<1>6. ASSUME NEW p \in Procs, LogMatched(p) PROVE OverlayInv'
  <2>1. UNCHANGED managerVars
    BY <1>6 DEF LogMatched, Unmoved
  <2>2. InTune(overlay') /\ Tabbed(overlay', known) /\ Attentive(overlay', ended)
    BY <1>1, <1>6, MatchedIs DEF Tabbed, Attentive
  <2> QED
    BY <1>3, <2>1, <2>2
<1>7. ASSUME NEW p, NEW autoHide \in BOOLEAN, openLogs(p, autoHide) PROVE OverlayInv'
  <2>1. UNCHANGED managerVars
    BY <1>7 DEF openLogs, Unmoved
  <2>2. InTune(overlay') /\ Tabbed(overlay', known) /\ Attentive(overlay', ended)
    BY <1>7, OpenIs DEF Attentive
  <2> QED
    BY <1>3, <2>1, <2>2
<1>8. CASE closeOverlay
  <2>1. UNCHANGED managerVars /\ overlay' = Shut
    BY <1>1, <1>8, DisposedIs DEF closeOverlay, Unmoved, InTune
  <2>2. InTune(Shut) /\ Tabbed(Shut, known) /\ Attentive(Shut, ended)
    BY ShutIs DEF Tabbed, Attentive
  <2> QED
    BY <1>3, <2>1, <2>2
<1>9. ASSUME NEW delta \in {1, -1}, selectRelative(delta) PROVE OverlayInv'
  <2>1. UNCHANGED managerVars
    BY <1>9 DEF selectRelative, Unmoved
  <2>2. InTune(overlay') /\ Tabbed(overlay', known) /\ Attentive(overlay', ended)
    BY <1>1, <1>9, SelectIs DEF Tabbed, Attentive
  <2> QED
    BY <1>3, <2>1, <2>2
<1>10. CASE UNCHANGED overlayVars
  <2>1. UNCHANGED managerVars /\ overlay' = overlay
    BY <1>10 DEF overlayVars, managerVars
  <2> QED
    BY <1>1, <1>3, <2>1
<1> QED
  BY <1>4, <1>5, <1>6, <1>7, <1>8, <1>9, <1>10 DEF OverlayNext

LEMMA OverlayBegins == OverlayInit => OverlayInv
<1> SUFFICES ASSUME OverlayInit PROVE OverlayInv
  OBVIOUS
<1>1. ManagerInv /\ EndsLater /\ known = {} /\ overlay = Shut
  BY ManagerBegins DEF OverlayInit, PromiseInit, EndsLater
<1>2. InTune(Shut) /\ Tabbed(Shut, known) /\ Attentive(Shut, ended)
  BY ShutIs DEF Tabbed, Attentive
<1> QED
  BY <1>1, <1>2, FS_EmptySet DEF OverlayInv

(* What is known of the overlay in every reachable state. *)
THEOREM OverlayInvariance == OverlaySpec => []OverlayInv
<1>1. OverlayInv /\ [OverlayNext]_overlayVars => OverlayInv'
  BY OverlayStep
<1> QED
  BY <1>1, OverlayBegins, PTL DEF OverlaySpec

(* Whatever tabs are looked at and whatever starts, ends and goes in between: the
   overlay listens to the process on its screen and to no other, hears it as long
   as it runs; no viewer got an event of another process or one twice, and none
   on the screen missed an event of its process before the end was reported. *)
THEOREM OverlayFollowed == OverlaySpec => []OverlayListens
<1>1. OverlayInv => OverlayHears
  <2> SUFFICES ASSUME OverlayInv PROVE OverlayHears
    OBVIOUS
  <2>1. /\ InTune(overlay) /\ Tuned(overlay) /\ Attentive(overlay, ended) /\ EndsLater
        /\ overlay.onScreen \in Procs \cup {NoTab}
    BY DEF OverlayInv, InTune, Overlays
  <2>2. Unlinked.proc = NoTab /\ Unlinked \notin Link
    BY DEF Unlinked, Link, Links
  <2>3. overlay.subs \subseteq {overlay.link} \ {Unlinked} /\ overlay.link.proc = overlay.onScreen
    BY <2>1, <2>2 DEF Tuned
  <2>4. overlay.open => overlay.onScreen = Tab(overlay)
    BY <2>1 DEF InTune
  <2>5. overlay.onScreen # NoTab /\ status[overlay.onScreen] = "running" =>
            overlay.link \in overlay.subs
    BY <2>1 DEF EndsLater, Attentive
  <2> QED
    BY <2>3, <2>4, <2>5 DEF OverlayHears
<1>2. OverlayInv => ViewersAreApart
  <2> SUFFICES ASSUME OverlayInv PROVE ViewersAreApart
    OBVIOUS
  <2>1. Held(overlay) /\ Stored(overlay.viewers)
    BY DEF OverlayInv, InTune, Held
  <2>2. \A i \in DOMAIN overlay.viewers :
            ~overlay.viewers[i].extra /\ "before the end" \notin overlay.viewers[i].missed
    <3> SUFFICES ASSUME NEW i \in DOMAIN overlay.viewers
                 PROVE  /\ ~overlay.viewers[i].extra
                        /\ "before the end" \notin overlay.viewers[i].missed
      OBVIOUS
    <3>1. /\ overlay.viewers[i].missed \in SUBSET {"after it"}
          /\ overlay.viewers[i].extra = FALSE
      BY <2>1, StoredTyped
    <3>2. "before the end" # "after it"
      OBVIOUS
    <3> QED
      BY <3>1, <3>2
  <2>3. overlay.onScreen # NoTab => overlay.onScreen \in ViewersOf(overlay)
    BY <2>1 DEF Held, Among, ViewersOf
  <2>4. \A i \in DOMAIN overlay.viewers : overlay.viewers[i].proc # NoTab
    BY <2>1, StoredTyped, NoTabIsNone
  <2> QED
    BY <2>1, <2>2, <2>3, <2>4 DEF ViewersAreApart, Held, Stored
<1> QED
  BY <1>1, <1>2, OverlayInvariance, PTL DEF OverlayListens
-----------------------------------------------------------------------------
(* The buffers of the views: what a buffer keeps is an end of it that keeps to
   the limits, and its bytes grow with its lines. *)

LEMMA BytesGrow ==
    ASSUME NEW lines \in Seq(Int), NEW more \in Seq(Int), IsPrefix(lines, more)
    PROVE  /\ Bytes(lines) \in Nat /\ Bytes(more) \in Nat /\ Len(lines) <= Len(more)
           /\ Bytes(lines) - Len(lines) <= Bytes(more) - Len(more)
           /\ Len(lines) <= Bytes(lines) /\ Bytes(lines) <= Bytes(more)
<1> DEFINE A == {i \in DOMAIN lines : lines[i] \in LongLines}
           B == {i \in DOMAIN more : more[i] \in LongLines}
<1>1. Len(lines) \in Nat /\ Len(more) \in Nat
      /\ DOMAIN lines = 1 .. Len(lines) /\ DOMAIN more = 1 .. Len(more)
  OBVIOUS
<1>2. Len(lines) <= Len(more) /\ \A i \in DOMAIN lines : i \in DOMAIN more /\ lines[i] = more[i]
  <2>1. Len(lines) <= Len(more) /\ \A i \in 1 .. Len(lines) : lines[i] = more[i]
    BY DEF IsPrefix
  <2> QED
    BY <1>1, <2>1
<1>3. A \in SUBSET (1 .. Len(lines)) /\ B \in SUBSET (1 .. Len(more)) /\ A \in SUBSET B
  BY <1>1, <1>2
<1>4. Bytes(lines) = Len(lines) + Cardinality(A) /\ Bytes(more) = Len(more) + Cardinality(B)
  BY DEF Bytes
<1> HIDE DEF A, B
<1>5. IsFiniteSet(B) /\ Cardinality(A) \in Nat /\ Cardinality(B) \in Nat
  <2>1. Cardinality(A) \in 0 .. Len(lines) /\ Cardinality(B) \in 0 .. Len(more)
    BY <1>1, <1>3, Ranks
  <2> QED
    BY <1>1, <1>3, <2>1, Ranks
<1>6. Cardinality(A) <= Cardinality(B)
  BY <1>3, <1>5, FS_Subset
<1> QED
  BY <1>1, <1>2, <1>4, <1>5, <1>6

Limited(lines, maxLines) ==
    Len(lines) <= maxLines /\ (Len(lines) > 1 => Bytes(lines) <= MaxBytes)

(* A sequence that ends another from its k-th element on. *)
IsEnd(end, k, lines) ==
    /\ k \in Nat \ {0} /\ end \in Seq(Int)
    /\ lines = <<>> => k = 1 /\ end = <<>>
    /\ lines # <<>> => k <= Len(lines)
    /\ Len(end) = Len(lines) - k + 1
    /\ \A j \in 1 .. Len(end) : end[j] = lines[j + k - 1]

LEMMA EndsFrom ==
    ASSUME NEW lines \in Seq(Int), NEW k \in Nat \ {0},
           IF lines = <<>> THEN k = 1 ELSE k <= Len(lines)
    PROVE  IsEnd(SubSeq(lines, k, Len(lines)), k, lines)
<1>1. Len(lines) \in Nat /\ \A i \in 1 .. Len(lines) : lines[i] \in Int
  BY ElementOfSeq, LenProperties
<1>2. lines = <<>> <=> Len(lines) = 0
  BY EmptySeq
<1>3. \A i \in k .. Len(lines) : lines[i] \in Int
  BY <1>1
<1> DEFINE end == SubSeq(lines, k, Len(lines))
           n == Len(lines)
<1>4. /\ end \in Seq(Int)
      /\ Len(end) = IF k <= n THEN n - k + 1 ELSE 0
      /\ \A j \in 1 .. n - k + 1 : end[j] = lines[k + j - 1]
  BY <1>1, <1>3, SubSeqProperties
<1> HIDE DEF end
<1>5. Len(end) = n - k + 1
  BY <1>1, <1>2, <1>4
<1>6. \A j \in 1 .. Len(end) : end[j] = lines[j + k - 1]
  <2> TAKE j \in 1 .. Len(end)
  <2>1. j \in 1 .. n - k + 1 /\ k + j - 1 = j + k - 1
    BY <1>1, <1>5
  <2> QED
    BY <1>4, <2>1
<1>7. lines = <<>> => end = <<>>
  BY <1>1, <1>2, <1>4, <1>5, EmptySeq
<1> QED
  BY <1>2, <1>4, <1>5, <1>6, <1>7 DEF IsEnd, end

LEMMA EndOfEnd ==
    ASSUME NEW lines \in Seq(Int), NEW mid, NEW end, NEW k, NEW l,
           IsEnd(mid, k, lines), IsEnd(end, l, mid)
    PROVE  IsEnd(end, k + l - 1, lines)
<1>1. /\ k \in Nat \ {0} /\ l \in Nat \ {0} /\ mid \in Seq(Int) /\ end \in Seq(Int)
      /\ Len(lines) \in Nat /\ Len(mid) \in Nat /\ Len(end) \in Nat
      /\ Len(mid) = Len(lines) - k + 1 /\ Len(end) = Len(mid) - l + 1
  BY LenProperties DEF IsEnd
<1>2. CASE lines = <<>>
  BY <1>2 DEF IsEnd
<1>3. CASE lines # <<>>
  <2>1. mid # <<>> /\ l <= Len(mid)
    <3>1. k <= Len(lines)
      BY <1>3 DEF IsEnd
    <3>2. mid # <<>>
      BY <1>1, <3>1, EmptySeq
    <3> QED
      BY <3>2 DEF IsEnd
  <2>2. \A j \in 1 .. Len(end) : end[j] = lines[j + (k + l - 1) - 1]
    <3> TAKE j \in 1 .. Len(end)
    <3>1. j + l - 1 \in 1 .. Len(mid) /\ (j + l - 1) + k - 1 = j + (k + l - 1) - 1
      BY <1>1
    <3>2. end[j] = mid[j + l - 1] /\ mid[j + l - 1] = lines[(j + l - 1) + k - 1]
      BY <3>1 DEF IsEnd
    <3> QED
      BY <3>1, <3>2
  <2> QED
    BY <1>1, <1>3, <2>1, <2>2 DEF IsEnd
<1> QED
  BY <1>2, <1>3

(* What an end holds was there. *)
LEMMA EndHolds ==
    ASSUME NEW lines \in Seq(Int), NEW end, NEW k, IsEnd(end, k, lines)
    PROVE  \A j \in DOMAIN end : \E i \in DOMAIN lines : end[j] = lines[i]
<1>1. /\ k \in Nat \ {0} /\ Len(lines) \in Nat /\ Len(end) \in Nat
      /\ Len(end) = Len(lines) - k + 1
      /\ DOMAIN end = 1 .. Len(end) /\ DOMAIN lines = 1 .. Len(lines)
  BY LenProperties DEF IsEnd
<1> TAKE j \in DOMAIN end
<1>2. j + k - 1 \in 1 .. Len(lines)
  BY <1>1
<1>3. end[j] = lines[j + k - 1]
  BY <1>1 DEF IsEnd
<1> QED
  BY <1>1, <1>2, <1>3

LEMMA NewestIs ==
    ASSUME NEW lines \in Seq(Int), NEW n \in Nat \ {0}
    PROVE  Len(Newest(lines, n)) <= n /\ \E k : IsEnd(Newest(lines, n), k, lines)
<1> DEFINE len == Len(lines)
           first == Max({1, len - n + 1})
<1>1. len \in Nat /\ (lines = <<>> <=> len = 0)
  BY EmptySeq, LenProperties
<1>2. first = IF 1 >= len - n + 1 THEN 1 ELSE len - n + 1
  BY <1>1, GreatestOfTwo
<1>3. /\ first \in Nat \ {0} /\ len - first + 1 <= n
      /\ IF lines = <<>> THEN first = 1 ELSE first <= len
  BY <1>1, <1>2
<1> HIDE DEF first
<1>4. IsEnd(Newest(lines, n), first, lines)
  BY <1>3, EndsFrom DEF Newest, first
<1>5. Len(Newest(lines, n)) = len - first + 1
  BY <1>4 DEF IsEnd
<1> QED
  BY <1>3, <1>4, <1>5

LEMMA TrimmedIs ==
    ASSUME NEW lines \in Seq(Int), NEW maxLines \in Nat \ {0}
    PROVE  /\ \E k : IsEnd(trimToBudget(lines, maxLines), k, lines)
           /\ Limited(trimToBudget(lines, maxLines), maxLines)
<1> DEFINE out == Newest(lines, maxLines)
           heavy == {i \in DOMAIN out : Bytes(SubSeq(out, i, Len(out))) > MaxBytes}
           kept == trimToBudget(lines, maxLines)
<1>4. PICK first : IsEnd(out, first, lines)
  BY NewestIs
<1>5. out \in Seq(Int) /\ Len(out) \in Nat /\ Len(out) <= maxLines /\ DOMAIN out = 1 .. Len(out)
  BY <1>4, NewestIs, LenProperties DEF IsEnd
<1>6. kept = IF heavy = {} THEN out
             ELSE SubSeq(out, Min({Max(heavy) + 1, Len(out)}), Len(out))
  BY DEF trimToBudget
<1>7. \A i \in DOMAIN out : i \notin heavy => ~(Bytes(SubSeq(out, i, Len(out))) > MaxBytes)
  OBVIOUS
<1>8. heavy \in SUBSET (0 .. Len(out)) /\ heavy \in SUBSET (1 .. Len(out))
  BY <1>5
<1> HIDE DEF out, heavy, kept
<1>14. Len(out) \in Nat
  BY <1>5
<1>9. MaxBytes \in Nat
  BY BufferAssumption
(* What is kept from the l-th line on, when that is not over budget or the last. *)
<1>10. ASSUME NEW l \in 1 .. Len(out), l = Len(out) \/ l \notin heavy,
              kept = SubSeq(out, l, Len(out))
       PROVE  (\E k : IsEnd(kept, k, lines)) /\ Limited(kept, maxLines)
  <2>1. l \in Nat \ {0} /\ out # <<>> /\ l <= Len(out)
    <3>1. l \in Nat \ {0} /\ l <= Len(out) /\ Len(out) # 0
      BY <1>14
    <3> QED
      BY <3>1, EmptySeq
  <2>2. IsEnd(kept, l, out)
    BY <1>5, <1>10, <2>1, EndsFrom
  <2>3. IsEnd(kept, first + l - 1, lines)
    BY <1>4, <2>2, EndOfEnd
  <2>4. kept \in Seq(Int) /\ Len(kept) = Len(out) - l + 1 /\ Len(kept) \in Nat
    BY <2>2, LenProperties DEF IsEnd
  <2>5. Len(kept) > 1 => Bytes(kept) <= MaxBytes
    <3> SUFFICES ASSUME Len(kept) > 1 PROVE Bytes(kept) <= MaxBytes
      OBVIOUS
    <3>1. l # Len(out)
      BY <1>14, <2>1, <2>4
    <3>2. ~(Bytes(kept) > MaxBytes)
      BY <1>5, <1>7, <1>10, <3>1
    <3>3. Bytes(kept) \in Nat
      <4>1. IsPrefix(kept, kept)
        BY <2>4 DEF IsPrefix
      <4> QED
        BY <2>4, <4>1, BytesGrow
    <3> QED
      BY <1>9, <3>2, <3>3
  <2> QED
    BY <1>5, <2>1, <2>3, <2>4, <2>5 DEF Limited
<1>11. CASE out = <<>>
  <2>1. heavy = {}
    BY <1>5, <1>8, <1>11
  <2>2. kept = out /\ Len(out) = 0
    BY <1>6, <1>11, <2>1
  <2>3. IsEnd(kept, first, lines)
    BY <1>4, <2>2
  <2>4. Limited(kept, maxLines)
    BY <2>2 DEF Limited
  <2> QED
    BY <2>3, <2>4 DEF kept
<1>12. CASE out # <<>> /\ heavy = {}
  <2>1. Len(out) >= 1 /\ 1 \in 1 .. Len(out)
    BY <1>5, <1>12, EmptySeq
  <2>2. SubSeq(out, 1, Len(out)) = out
    BY <1>5, SubSeqFull
  <2>3. kept = SubSeq(out, 1, Len(out)) /\ 1 \notin heavy
    BY <1>6, <1>12, <2>2
  <2> QED
    BY <1>10, <2>1, <2>3 DEF kept
<1>13. CASE heavy # {}
  <2> DEFINE last == Max(heavy)
             l == Min({last + 1, Len(out)})
  <2>1. last \in heavy /\ \A i \in heavy : last >= i
    BY <1>5, <1>8, <1>13, GreatestIs
  <2>2. last \in 1 .. Len(out)
    BY <1>8, <2>1
  <2> HIDE DEF last
  <2>3. last \in Int /\ Len(out) \in Int
    BY <1>5, <2>2
  <2>4. l = IF last + 1 <= Len(out) THEN last + 1 ELSE Len(out)
    BY <2>3, LeastOfTwo
  <2>5. l \in 1 .. Len(out) /\ (l = Len(out) \/ l = last + 1)
    BY <1>5, <2>2, <2>4
  <2>6. last + 1 \notin heavy
    BY <2>1, <2>3
  <2>7. kept = SubSeq(out, l, Len(out))
    BY <1>6, <1>13 DEF last
  <2> HIDE DEF l
  <2>8. l = Len(out) \/ l \notin heavy
    BY <2>5, <2>6
  <2> QED
    BY <1>10, <2>5, <2>7, <2>8 DEF kept
<1> QED
  BY <1>11, <1>12, <1>13 DEF kept

LEMMA AtLeastIs ==
    ASSUME NEW n \in Int
    PROVE  AtLeast0(n) = IF n >= 0 THEN n ELSE 0
<1>1. Max({0, n}) = IF 0 >= n THEN 0 ELSE n
  BY GreatestOfTwo
<1> QED
  BY <1>1 DEF AtLeast0

(* An event ends with its newest line; before it come lines of its own, and the
   note, which is of this event only. *)
LEMMA AppendedIs ==
    ASSUME NEW dropped \in Nat, NEW first \in Nat, NEW last \in Nat, first <= last
    PROVE  LET a == Appended(dropped, first, last)
           IN  /\ a \in Seq(Int) /\ Len(a) \in Nat \ {0} /\ a[Len(a)] = last
               /\ \A i \in DOMAIN a : a[i] = -last \/ (first <= a[i] /\ a[i] <= last)
<1> DEFINE own == [i \in 1 .. last - first + 1 |-> first + i - 1]
           n == last - first + 1
<1>1. n \in Nat \ {0}
  OBVIOUS
<1>2. own \in Seq(Int) /\ Len(own) = n /\ DOMAIN own = 1 .. n
      /\ \A i \in 1 .. n : own[i] = first + i - 1
  <2>1. \A i \in 1 .. n : first + i - 1 \in Int
    OBVIOUS
  <2> QED
    BY <1>1, <2>1
<1>3. own[n] = last /\ \A i \in 1 .. n : first <= own[i] /\ own[i] <= last
  BY <1>1, <1>2
<1> HIDE DEF own, n
<1>4. CASE dropped = 0
  <2>1. Appended(dropped, first, last) = own
    <3>1. Appended(dropped, first, last) = <<>> \o own
      BY <1>4 DEF Appended, own
    <3> QED
      BY <1>2, <3>1
  <2> QED
    BY <1>1, <1>2, <1>3, <2>1
<1>5. CASE dropped > 0
  <2> DEFINE a == <<-last>> \o own
  <2>1. Appended(dropped, first, last) = a
    BY <1>5 DEF Appended, own
  <2>2. /\ a \in Seq(Int) /\ Len(a) = 1 + n /\ a[1] = -last
        /\ \A i \in 2 .. 1 + n : a[i] = own[i - 1]
    <3>1. <<-last>> \in Seq(Int) /\ Len(<<-last>>) = 1 /\ <<-last>>[1] = -last
      OBVIOUS
    <3> QED
      BY <1>1, <1>2, <3>1, ConcatProperties
  <2> HIDE DEF a
  <2>3. DOMAIN a = 1 .. 1 + n /\ a[1 + n] = last
    <3>1. 1 + n \in 2 .. 1 + n /\ (1 + n) - 1 = n
      BY <1>1
    <3> QED
      BY <1>3, <2>2, <3>1
  <2>4. \A i \in 1 .. 1 + n : a[i] = -last \/ (first <= a[i] /\ a[i] <= last)
    <3> TAKE i \in 1 .. 1 + n
    <3>1. i = 1 \/ (i \in 2 .. 1 + n /\ i - 1 \in 1 .. n)
      BY <1>1
    <3> QED
      BY <1>3, <2>2, <3>1
  <2> QED
    BY <1>1, <2>1, <2>2, <2>3, <2>4
<1> QED
  BY <1>4, <1>5

Previews == [selected : BOOLEAN, lines : Seq(Int), offset : Nat]

(* The preview holds what an event carried or a refresh read, within its limits,
   and is scrolled to a line it has; no note in it is of a later event. *)
InBounds(v) ==
    /\ v \in Previews /\ Limited(v.lines, MaxPreviewLines)
    /\ v.offset <= AtLeast0(Len(v.lines) - 1)

PreviewInv ==
    /\ logged \in Nat /\ told \in Nat /\ told <= logged
    /\ InBounds(preview)
    /\ \A i \in DOMAIN preview.lines : -told <= preview.lines[i]

LEMMA PreviewConstants ==
    DefaultTail \in Nat \ {0} /\ MaxPreviewLines \in Nat \ {0} /\ PreviewHeight \in Nat \ {0}
BY PreviewAssumption

LEMMA RefreshedPreview ==
    ASSUME PreviewInv, NEW align
    PROVE  LET w == refreshPreview(preview, align)
           IN  /\ InBounds(w) /\ w.selected
               /\ \A i \in DOMAIN w.lines : -told <= w.lines[i]
<1> DEFINE all == [i \in 1 .. logged |-> i]
           tail == Newest(all, DefaultTail)
           lines == trimToBudget(tail, MaxPreviewLines)
           offset == IF align = "newest" \/ isFollowingTail(preview) THEN NewestPage(lines)
                     ELSE Min({preview.offset, AtLeast0(Len(lines) - 1)})
           w == refreshPreview(preview, align)
<1>1. logged \in Nat /\ told \in Nat /\ preview \in Previews
  BY DEF PreviewInv, InBounds
<1>2. all \in Seq(Int) /\ \A i \in DOMAIN all : 0 < all[i]
  BY <1>1
<1> HIDE DEF all
<1>3. PICK k : IsEnd(tail, k, all)
  BY <1>2, PreviewConstants, NewestIs
<1> HIDE DEF tail
<1>4. tail \in Seq(Int)
  BY <1>3 DEF IsEnd
<1>5. Limited(lines, MaxPreviewLines) /\ \E l : IsEnd(lines, l, tail)
  BY <1>4, PreviewConstants, TrimmedIs
<1>6. PICK l : IsEnd(lines, l, tail)
  BY <1>5
<1>7. w = [selected |-> TRUE, lines |-> lines, offset |-> offset]
  BY DEF refreshPreview, tail, all
<1> HIDE DEF lines
<1>8. lines \in Seq(Int) /\ Len(lines) \in Nat
  BY <1>6, LenProperties DEF IsEnd
<1>9. \A i \in DOMAIN lines : -told <= lines[i]
  <2> TAKE i \in DOMAIN lines
  <2>1. PICK j \in DOMAIN tail : lines[i] = tail[j]
    BY <1>4, <1>6, EndHolds
  <2>2. PICK n \in DOMAIN all : tail[j] = all[n]
    BY <1>2, <1>3, EndHolds
  <2>3. 0 < lines[i] /\ lines[i] \in Int
    BY <1>2, <1>8, <2>1, <2>2
  <2> QED
    BY <1>1, <2>3
<1>10. offset \in Nat /\ offset <= AtLeast0(Len(lines) - 1)
  <2>1. AtLeast0(Len(lines) - 1) = IF Len(lines) - 1 >= 0 THEN Len(lines) - 1 ELSE 0
    BY <1>8, AtLeastIs
  <2>2. NewestPage(lines) = IF Len(lines) - PreviewHeight >= 0
                            THEN Len(lines) - PreviewHeight ELSE 0
    BY <1>8, PreviewConstants, AtLeastIs DEF NewestPage
  <2>3. preview.offset \in Nat /\ AtLeast0(Len(lines) - 1) \in Nat
    BY <1>1, <1>8, <2>1 DEF Previews
  <2>4. Min({preview.offset, AtLeast0(Len(lines) - 1)})
            = IF preview.offset <= AtLeast0(Len(lines) - 1) THEN preview.offset
              ELSE AtLeast0(Len(lines) - 1)
    BY <2>3, LeastOfTwo
  <2> QED
    BY <1>8, <2>1, <2>2, <2>3, <2>4, PreviewConstants
<1> HIDE DEF offset
<1> QED
  BY <1>5, <1>7, <1>8, <1>9, <1>10 DEF InBounds, Previews

(* What a preview becomes by an event: the end of what it had and of what the
   event carried. *)
LEMMA ContinuedPreview ==
    ASSUME PreviewInv, NEW dropped \in Nat, told + dropped < logged
    PROVE  LET w == Continued(preview, Appended(dropped, told + dropped + 1, logged))
           IN  /\ InBounds(w) /\ w.selected = preview.selected
               /\ \A i \in DOMAIN w.lines : -logged <= w.lines[i]
               /\ Last(w.lines) = logged
               /\ IF isFollowingTail(preview) THEN w.offset = NewestPage(w.lines)
                  ELSE LET read == preview.lines[preview.offset + 1]
                       IN  \/ w.lines[w.offset + 1] = read
                           \/ w.offset = 0 /\ (read \in Range(w.lines) => Repeated(preview, read))
<1> DEFINE v == preview
           a == Appended(dropped, told + dropped + 1, logged)
           all == v.lines \o a
           kept == trimToBudget(all, MaxPreviewLines)
           m == Len(v.lines)
           l == Len(a)
           gone == RemovedFromHead(v, a, kept)
           offset == IF isFollowingTail(v) THEN NewestPage(kept)
                     ELSE Min({AtLeast0(v.offset - gone), AtLeast0(Len(kept) - 1)})
           w == Continued(v, a)
<1>1. /\ logged \in Nat /\ told \in Nat /\ told < logged
      /\ v \in Previews /\ v.lines \in Seq(Int) /\ v.offset \in Nat /\ m \in Nat
      /\ \A i \in 1 .. m : -told <= v.lines[i] /\ v.lines[i] \in Int
  <2>1. /\ logged \in Nat /\ told \in Nat /\ told < logged
        /\ v \in Previews /\ v.lines \in Seq(Int) /\ v.offset \in Nat
    BY DEF PreviewInv, InBounds, Previews
  <2>2. m \in Nat /\ DOMAIN v.lines = 1 .. m /\ \A i \in 1 .. m : v.lines[i] \in Int
    BY <2>1, LenProperties, ElementOfSeq
  <2> QED
    BY <2>1, <2>2 DEF PreviewInv
<1>2. /\ a \in Seq(Int) /\ l \in Nat \ {0} /\ DOMAIN a = 1 .. l /\ a[l] = logged
      /\ \A i \in 1 .. l : a[i] = -logged \/ (told < a[i] /\ a[i] <= logged)
  <2>1. told + dropped + 1 \in Nat /\ told + dropped + 1 <= logged
    BY <1>1
  <2>2. /\ a \in Seq(Int) /\ l \in Nat \ {0} /\ a[l] = logged
        /\ \A i \in DOMAIN a : a[i] = -logged \/ (told + dropped + 1 <= a[i] /\ a[i] <= logged)
    BY <1>1, <2>1, AppendedIs
  <2>3. DOMAIN a = 1 .. l /\ \A i \in 1 .. l : a[i] \in Int
    BY <2>2, ElementOfSeq, LenProperties
  <2> HIDE DEF a
  <2>4. \A i \in 1 .. l : told + dropped + 1 <= a[i] => told < a[i]
    BY <1>1, <2>3
  <2> QED
    BY <2>2, <2>3, <2>4
<1> HIDE DEF a
<1>3. /\ all \in Seq(Int) /\ Len(all) = m + l
      /\ \A i \in 1 .. m : all[i] = v.lines[i]
      /\ \A i \in m + 1 .. m + l : all[i] = a[i - m]
  BY <1>1, <1>2, ConcatProperties
<1> HIDE DEF all
<1>4. Limited(kept, MaxPreviewLines) /\ \E k : IsEnd(kept, k, all)
  BY <1>3, PreviewConstants, TrimmedIs
<1>5. PICK k : IsEnd(kept, k, all)
  BY <1>4
<1> HIDE DEF kept, m, l
<1>6. /\ k \in Nat \ {0} /\ k <= m + l /\ kept \in Seq(Int)
      /\ Len(kept) = m + l - k + 1 /\ Len(kept) \in Nat \ {0} /\ DOMAIN kept = 1 .. Len(kept)
      /\ \A j \in 1 .. Len(kept) : kept[j] = all[j + k - 1]
  <2>1. all # <<>>
    BY <1>1, <1>2, <1>3, EmptySeq
  <2>2. /\ k \in Nat \ {0} /\ k <= m + l /\ kept \in Seq(Int) /\ Len(kept) = m + l - k + 1
        /\ \A j \in 1 .. Len(kept) : kept[j] = all[j + k - 1]
    <3>1. /\ k \in Nat \ {0} /\ k <= Len(all) /\ kept \in Seq(Int)
          /\ Len(kept) = Len(all) - k + 1
          /\ \A j \in 1 .. Len(kept) : kept[j] = all[j + k - 1]
      BY <1>5, <2>1 DEF IsEnd
    <3>2. Len(all) = m + l
      BY <1>3
    <3>4. k \in Nat /\ k <= Len(all) /\ Len(kept) = Len(all) - k + 1
      BY <3>1, Zenon
    <3>5. m \in Nat /\ l \in Nat
      BY <1>1, <1>2
    <3>3. k <= m + l /\ Len(kept) = m + l - k + 1
      BY <3>2, <3>4, <3>5
    <3> QED
      BY <3>1, <3>3, Zenon
  <2>3. Len(kept) \in Nat \ {0}
    BY <1>1, <1>2, <2>2
  <2> QED
    BY <2>2, <2>3, LenProperties
(* The numbers. *)
<1>24. /\ m \in Nat /\ l \in Nat \ {0} /\ k \in Nat \ {0} /\ k <= m + l /\ v.offset \in Nat
       /\ Len(kept) = m + l - k + 1 /\ Len(kept) \in Nat \ {0}
  BY <1>1, <1>2, <1>6
<1>7. w = [v EXCEPT !.lines = kept, !.offset = offset]
  BY DEF Continued, kept, all
<1>8. kept[Len(kept)] = logged
  <2>1. /\ Len(kept) + k - 1 = m + l /\ Len(kept) \in 1 .. Len(kept)
        /\ m + l \in m + 1 .. m + l /\ (m + l) - m = l
    BY <1>24
  <2>2. kept[Len(kept)] = all[m + l]
    BY <1>6, <2>1
  <2>3. all[m + l] = a[l]
    BY <1>3, <2>1
  <2> QED
    BY <1>2, <2>2, <2>3
(* Where an element of what is kept comes from. *)
<1>9. \A j \in 1 .. Len(kept) : \/ \E i \in k .. m : kept[j] = v.lines[i]
                                \/ kept[j] = -logged
                                \/ told < kept[j] /\ kept[j] <= logged
  <2> TAKE j \in 1 .. Len(kept)
  <2>1. j + k - 1 \in k .. m + l /\ kept[j] = all[j + k - 1]
    BY <1>1, <1>2, <1>6
  <2>2. CASE j + k - 1 <= m
    <3>1. j + k - 1 \in k .. m /\ j + k - 1 \in 1 .. m
      BY <1>1, <1>6, <2>1, <2>2
    <3> QED
      BY <1>3, <2>1, <3>1
  <2>3. CASE j + k - 1 > m
    <3>1. j + k - 1 \in m + 1 .. m + l /\ (j + k - 1) - m \in 1 .. l
      BY <1>1, <1>2, <1>6, <2>1, <2>3
    <3> QED
      BY <1>2, <1>3, <2>1, <3>1
  <2> QED
    BY <1>1, <1>6, <2>2, <2>3
<1>10. \A j \in 1 .. Len(kept) : -logged <= kept[j]
  <2> TAKE j \in 1 .. Len(kept)
  <2>1. kept[j] \in Int
    BY <1>6, ElementOfSeq
  <2>2. ASSUME NEW i \in k .. m, kept[j] = v.lines[i] PROVE -logged <= kept[j]
    <3>1. i \in 1 .. m
      BY <1>1, <1>6
    <3> QED
      BY <1>1, <2>1, <2>2, <3>1
  <2> QED
    BY <1>1, <1>9, <2>1, <2>2
<1> DEFINE lastLine == AtLeast0(Len(kept) - 1)
<1>11. lastLine = Len(kept) - 1
  BY <1>6, AtLeastIs
<1>12. /\ gone \in Int /\ gone = IF m <= k - 1 THEN m ELSE k - 1
  <2>1. m + l - Len(kept) = k - 1
    BY <1>1, <1>2, <1>6
  <2>2. gone = Min({m, k - 1})
    BY <2>1 DEF RemovedFromHead, m, l
  <2> QED
    BY <1>1, <1>6, <2>2, LeastOfTwo
<1> HIDE DEF gone
<1> DEFINE moved == AtLeast0(v.offset - gone)
<1>13. moved = IF v.offset - gone >= 0 THEN v.offset - gone ELSE 0
  BY <1>1, <1>12, AtLeastIs
<1>14. Min({moved, lastLine}) = IF moved <= lastLine THEN moved ELSE lastLine
  <2>1. moved \in Int /\ lastLine \in Int
    BY <1>11, <1>12, <1>13, <1>24
  <2> QED
    BY <2>1, LeastOfTwo
<1>15. NewestPage(kept) = IF Len(kept) - PreviewHeight >= 0 THEN Len(kept) - PreviewHeight ELSE 0
  BY <1>6, PreviewConstants, AtLeastIs DEF NewestPage
<1>16. offset = IF isFollowingTail(v) THEN NewestPage(kept) ELSE Min({moved, lastLine})
  OBVIOUS
<1> HIDE DEF offset, moved, lastLine, w
<1>17. offset \in Nat /\ offset <= Len(kept) - 1
  BY <1>11, <1>12, <1>13, <1>14, <1>15, <1>16, <1>24, PreviewConstants
<1>18. w \in Previews /\ w.selected = v.selected /\ w.lines = kept /\ w.offset = offset
  BY <1>1, <1>6, <1>7, <1>17 DEF Previews
<1>19. InBounds(w)
  <2>1. w.offset <= AtLeast0(Len(w.lines) - 1)
    BY <1>11, <1>17, <1>18 DEF lastLine
  <2> QED
    BY <1>4, <1>18, <2>1 DEF InBounds
<1>20. Last(w.lines) = logged
  BY <1>8, <1>18 DEF Last
<1> DEFINE read == v.lines[v.offset + 1]
<1>21. ASSUME ~isFollowingTail(v)
       PROVE  \/ w.lines[w.offset + 1] = read
              \/ w.offset = 0 /\ (read \in Range(w.lines) => Repeated(v, read))
  <2>1. v.offset + 1 \in 1 .. m
    <3>1. v.offset < m - PreviewHeight
      BY <1>1, <1>21, PreviewConstants DEF isFollowingTail, m
    <3> QED
      BY <1>1, <3>1, PreviewConstants
  <2>2. CASE k - 1 <= v.offset
    <3>1. gone = k - 1 /\ moved = v.offset - (k - 1) /\ moved <= lastLine
      BY <1>11, <1>12, <1>13, <1>24, <2>1, <2>2
    <3>2. offset = v.offset - (k - 1)
      BY <1>14, <1>16, <1>21, <3>1
    <3>3. offset + 1 \in 1 .. Len(kept) /\ (offset + 1) + k - 1 = v.offset + 1
      BY <1>17, <1>24, <3>2
    <3>4. kept[offset + 1] = all[v.offset + 1]
      BY <1>6, <3>3
    <3>5. kept[offset + 1] = read
      BY <1>3, <2>1, <3>4
    <3> QED
      BY <1>18, <3>5
  <2>3. CASE k - 1 > v.offset
    <3>1. moved = 0 /\ moved <= lastLine
      BY <1>11, <1>12, <1>13, <1>24, <2>1, <2>3
    <3>2. offset = 0
      BY <1>14, <1>16, <1>21, <3>1
    <3>3. ASSUME read \in Range(w.lines) PROVE Repeated(v, read)
      <4>1. PICK j \in 1 .. Len(kept) : read = kept[j]
        BY <1>6, <1>18, <3>3 DEF Range
      <4>2. -told <= read /\ read \in Int
        BY <1>1, <2>1
      <4>3. CASE told < read
        BY <1>1, <4>2, <4>3 DEF Repeated
      <4>4. ASSUME NEW i \in k .. m, kept[j] = v.lines[i] PROVE Repeated(v, read)
        <5>1. i \in 1 .. m /\ i # v.offset + 1
          BY <1>1, <1>6, <2>1, <2>3
        <5>2. v.lines[i] = v.lines[v.offset + 1]
          BY <4>1, <4>4
        <5>3. DOMAIN v.lines = 1 .. m
          BY <1>1, LenProperties DEF m
        <5>4. ~IsInjective(v.lines)
          BY <2>1, <5>1, <5>2, <5>3 DEF IsInjective
        <5> QED
          BY <5>4 DEF Repeated
      <4>5. read # -logged
        BY <1>1, <4>2
      <4> QED
        BY <1>9, <4>1, <4>3, <4>4, <4>5
    <3> QED
      BY <1>18, <3>2, <3>3
  <2> QED
    BY <1>1, <1>6, <2>2, <2>3
<1>22. isFollowingTail(v) => w.offset = NewestPage(w.lines)
  BY <1>16, <1>18
<1>23. \A i \in DOMAIN w.lines : -logged <= w.lines[i]
  BY <1>6, <1>10, <1>18
<1> HIDE DEF read
<1> QED
  BY <1>18, <1>19, <1>20, <1>21, <1>22, <1>23 DEF read, w, a

(* A preview in bounds is trimmed, and scrolled to a line. *)
LEMMA InBoundsIs ==
    ASSUME NEW w, InBounds(w)
    PROVE  /\ Trimmed(w) /\ w.offset \in 0 .. AtLeast0(Len(w.lines) - 1)
           /\ w.offset \in Nat /\ AtLeast0(Len(w.lines) - 1) \in Nat /\ Len(w.lines) \in Nat
           /\ AtLeast0(Len(w.lines) - 1) = IF Len(w.lines) >= 1 THEN Len(w.lines) - 1 ELSE 0
<1>1. w.offset \in Nat /\ Len(w.lines) \in Nat /\ w.offset <= AtLeast0(Len(w.lines) - 1)
  <2>1. w.lines \in Seq(Int) /\ w.offset \in Nat
    BY DEF InBounds, Previews
  <2> QED
    BY <2>1, LenProperties DEF InBounds
<1>2. AtLeast0(Len(w.lines) - 1) = IF Len(w.lines) - 1 >= 0 THEN Len(w.lines) - 1 ELSE 0
  BY <1>1, AtLeastIs
<1>3. AtLeast0(Len(w.lines) - 1) = IF Len(w.lines) >= 1 THEN Len(w.lines) - 1 ELSE 0
  BY <1>1, <1>2
<1>4. Trimmed(w)
  BY DEF InBounds, Limited, Trimmed
<1> QED
  BY <1>1, <1>3, <1>4

(* A scroll goes to a line there is. *)
LEMMA ScrolledPreview ==
    ASSUME PreviewInv, NEW offset \in Int, ScrolledTo(offset), offset <= Len(preview.lines) - 1
           \/ offset <= 0
    PROVE  PreviewInv' /\ StaysPut
<1>1. preview' = [preview EXCEPT !.offset = AtLeast0(offset)] /\ UNCHANGED <<logged, told>>
  BY DEF ScrolledTo
<1>2. AtLeast0(offset) = IF offset >= 0 THEN offset ELSE 0
  BY AtLeastIs
<1>3. /\ preview \in Previews /\ Limited(preview.lines, MaxPreviewLines) /\ InBounds(preview)
      /\ Len(preview.lines) \in Nat
      /\ AtLeast0(Len(preview.lines) - 1)
            = IF Len(preview.lines) >= 1 THEN Len(preview.lines) - 1 ELSE 0
  BY InBoundsIs DEF PreviewInv, InBounds
<1>4. AtLeast0(offset) \in Nat /\ AtLeast0(offset) <= AtLeast0(Len(preview.lines) - 1)
  BY <1>2, <1>3
<1>5. preview' \in Previews /\ preview'.lines = preview.lines /\ preview'.offset = AtLeast0(offset)
  BY <1>1, <1>3, <1>4 DEF Previews
<1>6. InBounds(preview')
  BY <1>3, <1>4, <1>5 DEF InBounds
<1>7. PreviewInv'
  BY <1>1, <1>5, <1>6 DEF PreviewInv
<1> QED
  BY <1>1, <1>6, <1>7, InBoundsIs DEF StaysPut

LEMMA PreviewStep ==
    ASSUME PreviewInv, PreviewNext
    PROVE  PreviewInv' /\ StaysPut
<1>1. /\ logged \in Nat /\ told \in Nat /\ told <= logged /\ InBounds(preview)
      /\ \A i \in DOMAIN preview.lines : -told <= preview.lines[i]
      /\ preview \in Previews /\ preview.offset \in Nat /\ Len(preview.lines) \in Nat
  BY InBoundsIs DEF PreviewInv, InBounds
<1>2. ASSUME NEW align, Refresh(align) PROVE PreviewInv' /\ StaysPut
  <2>1. preview' = refreshPreview(preview, align) /\ UNCHANGED <<logged, told>>
    BY <1>2 DEF Refresh
  <2>2. InBounds(preview') /\ \A i \in DOMAIN preview'.lines : -told <= preview'.lines[i]
    BY <2>1, RefreshedPreview
  <2> QED
    BY <1>1, <2>1, <2>2, InBoundsIs DEF PreviewInv, StaysPut
<1>3. CASE Deselected
  <2>1. preview' = NoPreview /\ UNCHANGED <<logged, told>>
    BY <1>3 DEF Deselected
  <2>2. NoPreview \in Previews /\ NoPreview.lines = <<>> /\ NoPreview.offset = 0
    BY DEF NoPreview, Previews
  <2>3. Len(NoPreview.lines) = 0 /\ DOMAIN NoPreview.lines = {}
    BY <2>2
  <2>4. AtLeast0(Len(NoPreview.lines) - 1) = 0
    BY <2>3, AtLeastIs
  <2>5. Limited(NoPreview.lines, MaxPreviewLines)
    BY <2>3, PreviewConstants DEF Limited
  <2>6. InBounds(preview')
    BY <2>1, <2>2, <2>4, <2>5 DEF InBounds
  <2>7. \A i \in DOMAIN preview'.lines : -told' <= preview'.lines[i]
    BY <2>1, <2>3
  <2> QED
    BY <1>1, <2>1, <2>6, <2>7, InBoundsIs DEF PreviewInv, StaysPut
<1>4. CASE Logs
  <2>1. logged' = logged + 1 /\ UNCHANGED <<told, preview>>
    BY <1>4 DEF Logs
  <2> QED
    BY <1>1, <2>1, InBoundsIs DEF PreviewInv, StaysPut
<1>5. ASSUME NEW dropped \in 0 .. MaxLogged, OutputContinues(dropped) PROVE PreviewInv' /\ StaysPut
  <2>1. dropped \in Nat /\ told + dropped < logged /\ told' = logged /\ UNCHANGED logged
    BY <1>5 DEF OutputContinues
  <2>2. CASE preview.selected
    <3> DEFINE w == Continued(preview, Appended(dropped, told + dropped + 1, logged))
               read == preview.lines[preview.offset + 1]
    <3>1. preview' = w
      BY <1>5, <2>2 DEF OutputContinues
    <3>2. /\ InBounds(w) /\ Last(w.lines) = logged
          /\ \A i \in DOMAIN w.lines : -logged <= w.lines[i]
          /\ IF isFollowingTail(preview) THEN w.offset = NewestPage(w.lines)
             ELSE \/ w.lines[w.offset + 1] = read
                  \/ w.offset = 0 /\ (read \in Range(w.lines) => Repeated(preview, read))
      BY <2>1, ContinuedPreview
    <3> HIDE DEF w, read
    <3>3. PreviewInv'
      BY <1>1, <2>1, <3>1, <3>2 DEF PreviewInv
    <3>4. StaysPut
      BY <2>1, <3>1, <3>2, InBoundsIs DEF StaysPut, read
    <3> QED
      BY <3>3, <3>4
  <2>3. CASE ~preview.selected
    <3>1. preview' = preview
      BY <1>5, <2>3 DEF OutputContinues
    <3>2. \A i \in DOMAIN preview.lines : -logged <= preview.lines[i]
      <4> TAKE i \in DOMAIN preview.lines
      <4>1. preview.lines[i] \in Int /\ -told <= preview.lines[i]
        BY <1>1, ElementOfSeq DEF Previews
      <4> QED
        BY <1>1, <4>1
    <3> QED
      BY <1>1, <2>1, <2>3, <3>1, <3>2, InBoundsIs DEF PreviewInv, StaysPut
  <2> QED
    BY <2>2, <2>3
<1>6. ASSUME NEW delta \in {1, -1}, scrollPreview(delta) PROVE PreviewInv' /\ StaysPut
  <2> DEFINE n == Len(preview.lines) - 1
             offset == Min({n, preview.offset + delta})
  <2>1. n \in Int /\ preview.offset + delta \in Int
    BY <1>1
  <2>2. offset = IF n <= preview.offset + delta THEN n ELSE preview.offset + delta
    BY <2>1, LeastOfTwo
  <2>3. offset \in Int /\ offset <= Len(preview.lines) - 1
    BY <2>1, <2>2
  <2>4. ScrolledTo(offset)
    BY <1>6 DEF scrollPreview
  <2> HIDE DEF offset
  <2> QED
    BY <2>3, <2>4, ScrolledPreview
<1>7. CASE ScrolledTo(0)
  BY <1>7, ScrolledPreview
<1>8. CASE ScrolledTo(Len(preview.lines) - 1)
  <2>1. Len(preview.lines) - 1 \in Int
    BY <1>1
  <2> QED
    BY <1>8, <2>1, ScrolledPreview
<1> QED
  BY <1>2, <1>3, <1>4, <1>5, <1>6, <1>7, <1>8 DEF PreviewNext

LEMMA PreviewBegins == PreviewInit => PreviewInv
<1> SUFFICES ASSUME PreviewInit PROVE PreviewInv
  OBVIOUS
<1>1. logged \in Nat /\ told = logged /\ preview = NoPreview
  BY DEF PreviewInit
<1>2. NoPreview \in Previews /\ NoPreview.lines = <<>> /\ NoPreview.offset = 0
  BY DEF NoPreview, Previews
<1>3. Len(NoPreview.lines) = 0 /\ DOMAIN NoPreview.lines = {}
  BY <1>2
<1>4. AtLeast0(Len(NoPreview.lines) - 1) = 0
  BY <1>3, AtLeastIs
<1>5. Limited(NoPreview.lines, MaxPreviewLines)
  BY <1>3, PreviewConstants DEF Limited
<1> QED
  BY <1>1, <1>2, <1>3, <1>4, <1>5 DEF PreviewInv, InBounds

(* The inductive invariant of the preview: within its limits, scrolled to a line
   it has, and with no note of an event that is yet to come. *)
THEOREM PreviewInvariance == PreviewSpec => []PreviewInv
<1>1. PreviewInv /\ UNCHANGED previewVars => PreviewInv'
  BY DEF PreviewInv, previewVars
<1> QED
  BY <1>1, PreviewBegins, PreviewStep, PTL DEF PreviewSpec

(* Output moves the newest page on and leaves a reader elsewhere at his line
   (handleOutputChanged), whatever the limits on lines and bytes, however many
   lines of whatever size go at the head, and whatever refreshes came between. *)
THEOREM PreviewStays == PreviewSpec => PreviewStaysPut
<1>1. PreviewInv /\ UNCHANGED previewVars => PreviewInv'
  BY DEF PreviewInv, previewVars
<1>2. PreviewInv /\ [PreviewNext]_previewVars => [StaysPut]_previewVars
  BY PreviewStep
<1> QED
  BY <1>1, <1>2, PreviewBegins, PreviewStep, PTL DEF PreviewSpec, PreviewStaysPut

-----------------------------------------------------------------------------

-----------------------------------------------------------------------------
(* The viewer: what a rendering shows is what was asked for since the last. What
   is inductive says of each thing a reader may have done since then what it left
   for the next rendering: the anchor of a scroll, the target of a jump, the
   place of one who only let output come. *)

Readers ==
    [lines : Seq(Int), anchorEnd : Nat \cup {Nowhere}, follow : BOOLEAN,
     streamFilter : {"both", "stdout", "stderr"}, query : {"none", "hit", "miss"},
     current : Int, centerTarget : Nat \cup {Nowhere},
     wrap : BOOLEAN, narrow : BOOLEAN, rendered : BOOLEAN]

Screens ==
    [height : Nat, narrow : BOOLEAN, end : Nat, start : Nat, lines : Seq(Int)]

Doings == [scrolled : Int, jumped : BOOLEAN, appended : BOOLEAN, times : Nat]

(* Viewers of the same lines, that wrap alike. *)
SameLines(v, w) == v.lines = w.lines /\ v.streamFilter = w.streamFilter

SameWrap(v, w) == v.wrap = w.wrap /\ v.narrow = w.narrow

LEMMA VisibleIs ==
    ASSUME NEW v \in Readers
    PROVE  visibleLines(v) \in Seq(Int) /\ Len(visibleLines(v)) \in Nat
<1> DEFINE S == {i \in DOMAIN v.lines : Streamed(v, v.lines[i])}
<1>1. v.lines \in Seq(Int)
  BY DEF Readers
<1>2. S \in SUBSET DOMAIN v.lines
  OBVIOUS
<1>3. visibleLines(v) = Picked(v.lines, S)
  BY DEF visibleLines
<1> HIDE DEF S
<1>4. visibleLines(v) \in Seq(Int)
  BY <1>1, <1>2, <1>3, PickedIs
<1> QED
  BY <1>4, LenProperties

LEMMA SameVisible ==
    ASSUME NEW v, NEW w, SameLines(v, w)
    PROVE  visibleLines(v) = visibleLines(w)
<1> DEFINE S(x) == {i \in DOMAIN x.lines : Streamed(x, x.lines[i])}
<1>1. \A i : i \in S(v) <=> i \in S(w)
  BY DEF SameLines, Streamed
<1>2. S(v) = S(w)
  <2> HIDE DEF S
  <2> QED
    BY <1>1
<1>3. visibleLines(v) = Picked(v.lines, S(v)) /\ visibleLines(w) = Picked(w.lines, S(w))
  BY DEF visibleLines
<1> HIDE DEF S
<1> QED
  BY <1>2, <1>3 DEF SameLines

LEMMA RowsGrow ==
    ASSUME NEW v \in Readers, NEW lines \in Seq(Int), NEW more \in Seq(Int),
           IsPrefix(lines, more)
    PROVE  /\ RowCount(v, lines) \in Nat /\ RowCount(v, more) \in Nat
           /\ RowCount(v, lines) <= RowCount(v, more)
           /\ RowCount(v, lines) - Len(lines) <= RowCount(v, more) - Len(more)
<1>1. Len(lines) \in Nat /\ Len(more) \in Nat
  BY LenProperties
<1>2. /\ Bytes(lines) \in Nat /\ Bytes(more) \in Nat /\ Len(lines) <= Len(more)
      /\ Bytes(lines) - Len(lines) <= Bytes(more) - Len(more)
      /\ Bytes(lines) <= Bytes(more)
  BY BytesGrow
<1>3. CASE v.wrap /\ v.narrow
  <2>1. RowCount(v, lines) = Bytes(lines) /\ RowCount(v, more) = Bytes(more)
    BY <1>3 DEF RowCount
  <2> QED
    BY <1>1, <1>2, <2>1
<1>4. CASE ~(v.wrap /\ v.narrow)
  <2>1. RowCount(v, lines) = Len(lines) /\ RowCount(v, more) = Len(more)
    BY <1>4 DEF RowCount
  <2> QED
    BY <1>1, <1>2, <2>1
<1> QED
  BY <1>3, <1>4

LEMMA TotalIs ==
    ASSUME NEW v \in Readers
    PROVE  totalDisplayRows(v) \in Nat /\ totalDisplayRows(v) = RowCount(v, visibleLines(v))
<1>1. visibleLines(v) \in Seq(Int) /\ IsPrefix(visibleLines(v), visibleLines(v))
  BY VisibleIs DEF IsPrefix
<1> QED
  BY <1>1, RowsGrow DEF totalDisplayRows

LEMMA SameTotal ==
    ASSUME NEW v, NEW w, SameLines(v, w), SameWrap(v, w)
    PROVE  totalDisplayRows(v) = totalDisplayRows(w)
BY SameVisible DEF totalDisplayRows, RowCount, SameWrap

LEMMA MatchesAre ==
    ASSUME NEW v \in Readers
    PROVE  /\ Len(searchMatches(v)) \in Nat
           /\ DOMAIN searchMatches(v) = 1 .. Len(searchMatches(v))
           /\ (searchMatches(v) # <<>> => Len(searchMatches(v)) \in Nat \ {0})
           /\ \A n \in DOMAIN searchMatches(v) :
                 /\ searchMatches(v)[n] \in DOMAIN visibleLines(v)
                 /\ searchMatches(v)[n] \in Nat \ {0}
<1> DEFINE visible == visibleLines(v)
           ids == [i \in DOMAIN visible |-> i]
           S == {i \in DOMAIN visible : v.query = "hit" /\ visible[i] \in MatchingLines}
<1>1. visible \in Seq(Int) /\ Len(visible) \in Nat /\ DOMAIN visible = 1 .. Len(visible)
  BY VisibleIs, LenProperties
<1> HIDE DEF visible
<1>2. ids \in Seq(DOMAIN visible) /\ DOMAIN ids = DOMAIN visible
  BY <1>1
<1>3. S \in SUBSET DOMAIN ids
  BY <1>2
<1>4. searchMatches(v) = Picked(ids, S)
  BY DEF searchMatches, visible
<1> HIDE DEF ids, S
<1>5. searchMatches(v) \in Seq(DOMAIN visible)
  BY <1>2, <1>3, <1>4, PickedIs
<1>6. /\ Len(searchMatches(v)) \in Nat
      /\ DOMAIN searchMatches(v) = 1 .. Len(searchMatches(v))
      /\ (searchMatches(v) # <<>> => Len(searchMatches(v)) \in Nat \ {0})
  BY <1>5, LenProperties, EmptySeq
<1>7. \A n \in DOMAIN searchMatches(v) : searchMatches(v)[n] \in DOMAIN visible
  BY <1>5, <1>6, ElementOfSeq
<1> QED
  BY <1>1, <1>6, <1>7 DEF visible

LEMMA SameMatches ==
    ASSUME NEW v, NEW w, SameLines(v, w), v.query = w.query
    PROVE  searchMatches(v) = searchMatches(w)
<1> DEFINE M(visible, query) ==
             Picked([i \in DOMAIN visible |-> i],
                    {i \in DOMAIN visible : query = "hit" /\ visible[i] \in MatchingLines})
<1>1. searchMatches(v) = M(visibleLines(v), v.query) /\ searchMatches(w) = M(visibleLines(w), w.query)
  BY DEF searchMatches
<1>2. visibleLines(v) = visibleLines(w)
  BY SameVisible
<1> HIDE DEF M
<1> QED
  BY <1>1, <1>2

(* The row a visible line begins at is one of the rows. *)
LEMMA RowIs ==
    ASSUME NEW v \in Readers, NEW i \in DOMAIN visibleLines(v)
    PROVE  RowOf(v, i) \in 1 .. totalDisplayRows(v)
<1> DEFINE visible == visibleLines(v)
           before == SubSeq(visible, 1, i - 1)
<1>1. visible \in Seq(Int) /\ Len(visible) \in Nat /\ i \in 1 .. Len(visible)
  BY VisibleIs, LenProperties
<1>2. IsPrefix(visible, visible)
  BY <1>1 DEF IsPrefix
<1>3. totalDisplayRows(v) \in Nat /\ totalDisplayRows(v) = RowCount(v, visible)
  BY TotalIs
<1>4. i \in DOMAIN visible
  OBVIOUS
<1> HIDE DEF visible
<1>5. before \in Seq(Int) /\ Len(before) = i - 1 /\ IsPrefix(before, visible)
  <2>1. \A j \in 1 .. i - 1 : visible[j] \in Int
    BY <1>1, ElementOfSeq
  <2>2. /\ before \in Seq(Int)
        /\ Len(before) = IF 1 <= i - 1 THEN (i - 1) - 1 + 1 ELSE 0
        /\ \A j \in 1 .. (i - 1) - 1 + 1 : before[j] = visible[1 + j - 1]
    BY <1>1, <2>1, SubSeqProperties
  <2> HIDE DEF before
  <2>3. Len(before) = i - 1
    BY <1>1, <2>2
  <2>4. \A j \in 1 .. Len(before) : before[j] = visible[j]
    <3> TAKE j \in 1 .. Len(before)
    <3>1. j \in 1 .. (i - 1) - 1 + 1 /\ 1 + j - 1 = j
      BY <1>1, <2>3
    <3> QED
      BY <2>2, <3>1
  <2>5. Len(before) <= Len(visible)
    BY <1>1, <2>3
  <2> QED
    BY <2>2, <2>3, <2>4, <2>5 DEF IsPrefix
<1> HIDE DEF before
<1>6. /\ RowCount(v, before) \in Nat
      /\ RowCount(v, before) - (i - 1) <= RowCount(v, visible) - Len(visible)
      /\ Len(visible) <= RowCount(v, visible)
  <2>1. RowCount(v, before) \in Nat
        /\ RowCount(v, before) - Len(before) <= RowCount(v, visible) - Len(visible)
    BY <1>1, <1>5, RowsGrow
  <2>2. Len(visible) <= RowCount(v, visible)
    <3>1. Len(visible) <= Bytes(visible)
      BY <1>1, <1>2, BytesGrow
    <3> QED
      BY <1>1, <3>1 DEF RowCount
  <2> QED
    BY <1>5, <2>1, <2>2
<1>7. RowOf(v, i) = IF ~v.wrap THEN i ELSE RowCount(v, before) + 1
  BY <1>4 DEF RowOf, visible, before
<1> QED
  BY <1>1, <1>3, <1>6, <1>7

LEMMA SameRow ==
    ASSUME NEW v, NEW w, SameLines(v, w), SameWrap(v, w), NEW i
    PROVE  RowOf(v, i) = RowOf(w, i)
BY SameVisible DEF RowOf, RowCount, SameWrap

-----------------------------------------------------------------------------
(* What is inductive about the viewer *)

(* A screen that is full, or shows all the rows there are. *)
Window(s, total) == s.end <= total /\ (s.height <= s.end \/ s.end = total)

(* Just rendered. *)
Drawn(v, s) ==
    /\ s.lines = visibleLines(v) /\ s.narrow = v.narrow
    /\ visibleLines(v) # <<>> =>
         /\ v.centerTarget = Nowhere /\ Window(s, totalDisplayRows(v))
         /\ IF v.follow \/ v.anchorEnd = Nowhere THEN s.end = totalDisplayRows(v)
            ELSE v.anchorEnd = s.end

(* Scrolled since, by so much. *)
Scrolled(v, s, delta) ==
    visibleLines(v) # <<>> =>
        /\ ~v.follow /\ v.centerTarget = Nowhere /\ v.narrow = s.narrow
        /\ v.anchorEnd = Max({0, Min({totalDisplayRows(v), s.end - delta})})

(* Jumped to a match since. *)
Targeted(v) ==
    /\ ~v.follow /\ v.current \in DOMAIN searchMatches(v)
    /\ v.centerTarget = searchMatches(v)[v.current]

(* Nothing but output since. *)
Waiting(v, s) ==
    s.lines # <<>> =>
        /\ v.centerTarget = Nowhere /\ v.narrow = s.narrow
        /\ \/ v.follow \/ v.anchorEnd = Nowhere
           \/ v.anchorEnd = s.end /\ Window(s, RowCount(v, s.lines))

ReaderTyped ==
    arrived \in Nat /\ viewer \in Readers /\ screen \in Screens /\ did \in Doings

ReaderInv ==
    /\ ReaderTyped
    /\ screen.start = IF screen.end >= screen.height THEN screen.end - screen.height ELSE 0
    /\ did = Still => Drawn(viewer, screen)
    /\ did.scrolled # 0 /\ ~did.appended => Scrolled(viewer, screen, did.scrolled)
    /\ did.jumped /\ ~did.appended => Targeted(viewer)
    /\ did = Other => Waiting(viewer, screen)

LEMMA StillIs ==
    /\ Still \in Doings /\ Other \in Doings /\ Still # Other
    /\ Still.scrolled = 0 /\ ~Still.jumped /\ ~Still.appended /\ Still.times = 0
    /\ Other.scrolled = 0 /\ ~Other.jumped /\ Other.appended /\ Other.times = 0
<1>1. Still = [scrolled |-> 0, jumped |-> FALSE, appended |-> FALSE, times |-> 0]
  BY DEF Still, Doing
<1>2. Other = [scrolled |-> 0, jumped |-> FALSE, appended |-> TRUE, times |-> 0]
  BY DEF Other, Doing
<1>3. 0 \in Int /\ 0 \in Nat /\ FALSE \in BOOLEAN /\ TRUE \in BOOLEAN
  OBVIOUS
<1>4. Still \in Doings /\ Other \in Doings
  BY <1>1, <1>2, <1>3, Zenon DEF Doings
<1>5. Still.scrolled = 0 /\ ~Still.jumped /\ ~Still.appended /\ Still.times = 0
  BY <1>1
<1>6. Other.scrolled = 0 /\ ~Other.jumped /\ Other.appended /\ Other.times = 0
  BY <1>2
<1>7. Still # Other
  BY <1>5, <1>6, Zenon
<1> QED
  BY <1>4, <1>5, <1>6, <1>7

(* A key leaves what it says it did, and the screen alone. *)
LEMMA KeyKeeps ==
    ASSUME ReaderInv, NEW v \in Readers, NEW done \in Doings, ViewerKey(v, done),
           done.scrolled # 0 /\ ~done.appended => Scrolled(v, screen, done.scrolled),
           done.jumped /\ ~done.appended => Targeted(v)
    PROVE  ReaderInv' /\ did' # Still
<1>1. /\ viewer' = v /\ did' = [done EXCEPT !.times = did.times + 1]
      /\ UNCHANGED <<arrived, screen>>
  BY DEF ViewerKey
<1>2. did.times \in Nat
  BY DEF ReaderInv, ReaderTyped, Doings
<1>3. /\ did' \in Doings /\ did'.times # 0 /\ did'.scrolled = done.scrolled
      /\ did'.jumped = done.jumped /\ did'.appended = done.appended
  BY <1>1, <1>2 DEF Doings
<1>4. did' # Still /\ did' # Other
  BY <1>3, StillIs
<1>5. ReaderTyped'
  BY <1>1, <1>3 DEF ReaderInv, ReaderTyped
<1>6. /\ Still' = Still /\ Other' = Other
      /\ screen' = screen
  BY <1>1 DEF Still, Other
<1>7. did'.scrolled # 0 /\ ~did'.appended => Scrolled(v, screen, did'.scrolled)
  BY <1>3
<1>8. did'.jumped /\ ~did'.appended => Targeted(v)
  BY <1>3
<1>9. did'.scrolled # 0 /\ ~did'.appended => Scrolled(viewer, screen, did.scrolled)'
  BY <1>1, <1>7
<1>10. did'.jumped /\ ~did'.appended => Targeted(viewer)'
  BY <1>1, <1>8
<1>11. (screen.start = IF screen.end >= screen.height THEN screen.end - screen.height ELSE 0)'
  BY <1>6 DEF ReaderInv
<1> QED
  BY <1>4, <1>5, <1>6, <1>9, <1>10, <1>11 DEF ReaderInv

(* A key that neither scrolls nor jumps. *)
LEMMA OtherKey ==
    ASSUME ReaderInv, NEW v \in Readers, ViewerKey(v, Other)
    PROVE  ReaderInv' /\ did' # Still
BY StillIs, KeyKeeps

LEMMA AnchoredIs ==
    ASSUME NEW v \in Readers
    PROVE  LET w == Anchored(v)
           IN  /\ w \in Readers /\ ~w.follow /\ SameLines(w, v) /\ SameWrap(w, v)
               /\ w.anchorEnd \in Nat /\ w.query = v.query
               /\ w.centerTarget = v.centerTarget /\ w.narrow = v.narrow
               /\ w.anchorEnd = IF v.anchorEnd = Nowhere THEN totalDisplayRows(v) ELSE v.anchorEnd
<1> DEFINE anchor == IF v.anchorEnd = Nowhere THEN totalDisplayRows(v) ELSE v.anchorEnd
           w == [v EXCEPT !.follow = FALSE, !.anchorEnd = anchor]
<1>1. anchor \in Nat
  BY TotalIs DEF Readers, Nowhere
<1>2. Anchored(v) = w
  BY DEF Anchored
<1> HIDE DEF anchor
<1>3. w \in Readers
  BY <1>1 DEF Readers
<1>4. /\ ~w.follow /\ w.anchorEnd = anchor /\ SameLines(w, v) /\ SameWrap(w, v)
      /\ w.query = v.query /\ w.centerTarget = v.centerTarget /\ w.narrow = v.narrow
  BY DEF Readers, SameLines, SameWrap
<1> HIDE DEF w
<1> QED
  BY <1>1, <1>2, <1>3, <1>4 DEF anchor

LEMMA ScrollKeeps ==
    ASSUME ReaderInv, NEW delta \in Int, scrollBy(delta)
    PROVE  ReaderInv' /\ did' # Still
<1> DEFINE v == Anchored(viewer)
           total == totalDisplayRows(v)
           anchor == Max({0, Min({total, v.anchorEnd - delta})})
           w == [v EXCEPT !.anchorEnd = anchor]
           mine == did = Still /\ (viewer.follow => viewer.anchorEnd \in {Nowhere, screen.end})
           done == IF mine THEN Doing(delta, FALSE, FALSE) ELSE Other
<1>1. viewer \in Readers
  BY DEF ReaderInv, ReaderTyped
<1>2. /\ v \in Readers /\ ~v.follow /\ SameLines(v, viewer) /\ SameWrap(v, viewer)
      /\ v.anchorEnd \in Nat /\ v.centerTarget = viewer.centerTarget /\ v.narrow = viewer.narrow
      /\ v.anchorEnd = IF viewer.anchorEnd = Nowhere THEN totalDisplayRows(viewer)
                       ELSE viewer.anchorEnd
  BY <1>1, AnchoredIs
<1>3. ViewerKey(w, done)
  BY DEF scrollBy
<1> HIDE DEF v
<1>4. total \in Nat /\ total = totalDisplayRows(viewer)
  BY <1>1, <1>2, TotalIs, SameTotal
<1> HIDE DEF total
<1>5. anchor \in Nat
  <2>1. Min({total, v.anchorEnd - delta})
           = IF total <= v.anchorEnd - delta THEN total ELSE v.anchorEnd - delta
    BY <1>2, <1>4, LeastOfTwo
  <2>2. Min({total, v.anchorEnd - delta}) \in Int
    BY <1>2, <1>4, <2>1
  <2>3. anchor = IF 0 >= Min({total, v.anchorEnd - delta}) THEN 0
                 ELSE Min({total, v.anchorEnd - delta})
    BY <2>2, GreatestOfTwo
  <2> QED
    BY <2>2, <2>3
<1>6. w \in Readers
  <2> HIDE DEF anchor
  <2> QED
    BY <1>2, <1>5 DEF Readers
<1>7. done \in Doings /\ ~done.jumped
      /\ (done.scrolled # 0 /\ ~done.appended => mine /\ done.scrolled = delta)
  BY StillIs DEF Doings, Doing
<1>8. ASSUME mine PROVE Scrolled(w, screen, delta)
  <2>1. w.lines = v.lines /\ w.streamFilter = v.streamFilter /\ w.anchorEnd = anchor /\ ~w.follow
        /\ w.centerTarget = v.centerTarget /\ w.narrow = v.narrow /\ w.wrap = v.wrap
    <3> HIDE DEF anchor
    <3> QED
      BY <1>2 DEF Readers
  <2>2. SameLines(w, viewer) /\ SameWrap(w, viewer)
    BY <1>2, <2>1 DEF SameLines, SameWrap
  <2> HIDE DEF w
  <2>3. visibleLines(w) = visibleLines(viewer) /\ totalDisplayRows(w) = total
    BY <1>4, <2>2, SameVisible, SameTotal
  <2>4. Drawn(viewer, screen)
    BY <1>8 DEF ReaderInv
  <2>5. visibleLines(viewer) # <<>> => v.anchorEnd = screen.end
    BY <1>2, <1>8, <2>4 DEF Drawn
  <2>6. visibleLines(viewer) # <<>> => anchor = Max({0, Min({total, screen.end - delta})})
    BY <2>5
  <2> HIDE DEF anchor
  <2> QED
    BY <1>2, <2>1, <2>3, <2>4, <2>6 DEF Scrolled, Drawn
<1> HIDE DEF w, done, mine, anchor
<1> QED
  BY <1>3, <1>6, <1>7, <1>8, KeyKeeps

(* A key that jumps to a match, or finds none. *)
LEMMA JumpKeeps ==
    ASSUME ReaderInv, NEW v \in Readers, NEW jumped \in BOOLEAN, jumped => Targeted(v),
           ViewerKey(v, Doing(0, jumped, FALSE))
    PROVE  ReaderInv' /\ did' # Still
<1> DEFINE done == Doing(0, jumped, FALSE)
<1>1. done \in Doings /\ done.scrolled = 0 /\ (done.jumped <=> jumped)
  <2>1. done = [scrolled |-> 0, jumped |-> jumped, appended |-> FALSE, times |-> 0]
    BY Zenon DEF Doing
  <2> HIDE DEF done
  <2>2. 0 \in Int /\ 0 \in Nat /\ FALSE \in BOOLEAN
    OBVIOUS
  <2>3. done \in Doings
    BY <2>1, <2>2, Zenon DEF Doings
  <2>4. done.scrolled = 0
    BY <2>1, Zenon
  <2>5. done.jumped <=> jumped
    BY <2>1, Zenon
  <2> QED
    BY <2>3, <2>4, <2>5
<1> HIDE DEF done
<1>2. ViewerKey(v, done)
  BY DEF done
<1> QED
  BY <1>1, <1>2, KeyKeeps

LEMMA JumpedIs ==
    ASSUME NEW v \in Readers, NEW n \in DOMAIN searchMatches(v)
    PROVE  JumpedTo(v, n) \in Readers /\ Targeted(JumpedTo(v, n))
<1> DEFINE w == [v EXCEPT !.follow = FALSE, !.current = n, !.centerTarget = searchMatches(v)[n]]
<1>1. searchMatches(v)[n] \in Nat /\ n \in Int
  BY MatchesAre
<1>2. JumpedTo(v, n) = w
  BY DEF JumpedTo
<1>3. /\ w \in Readers /\ ~w.follow /\ w.current = n /\ w.centerTarget = searchMatches(v)[n]
      /\ SameLines(w, v) /\ w.query = v.query
  BY <1>1 DEF Readers, SameLines
<1> HIDE DEF w
<1>4. searchMatches(w) = searchMatches(v)
  BY <1>3, SameMatches
<1> QED
  BY <1>2, <1>3, <1>4 DEF Targeted

LEMMA RefreshedMatches ==
    ASSUME NEW v \in Readers
    PROVE  LET w == refreshMatches(v)
           IN  /\ w \in Readers /\ SameLines(w, v) /\ SameWrap(w, v)
               /\ w.query = v.query /\ w.anchorEnd = v.anchorEnd /\ w.follow = v.follow
               /\ w.centerTarget = v.centerTarget
<1> DEFINE n == Len(searchMatches(v))
           current == IF v.query = "none" THEN 0
                      ELSE IF v.current > n THEN Max({1, n}) ELSE v.current
           w == [v EXCEPT !.current = current]
<1>1. refreshMatches(v) = w
  BY DEF refreshMatches
<1>2. n \in Int /\ v.current \in Int
  BY MatchesAre DEF Readers
<1> HIDE DEF n
<1>3. Max({1, n}) \in Int
  BY <1>2, GreatestOfTwo
<1>4. current \in Int
  BY <1>2, <1>3
<1> HIDE DEF current
<1>5. /\ w \in Readers /\ SameLines(w, v) /\ SameWrap(w, v)
      /\ w.query = v.query /\ w.anchorEnd = v.anchorEnd /\ w.follow = v.follow
      /\ w.centerTarget = v.centerTarget
  BY <1>4 DEF Readers, SameLines, SameWrap
<1> HIDE DEF w
<1> QED
  BY <1>1, <1>5

LEMMA KeysKeep ==
    ASSUME ReaderInv,
           \/ scrollToTop \/ scrollToBottom \/ toggleFollow \/ toggleWrap \/ cycleStreamFilter
           \/ (\E query \in {"hit", "miss"} : setSearch(query)) \/ clearSearch
           \/ (\E forward \in BOOLEAN : Step(forward))
    PROVE  ReaderInv' /\ did' # Still
<1>1. viewer \in Readers /\ totalDisplayRows(viewer) \in Nat
  BY TotalIs DEF ReaderInv, ReaderTyped
<1>2. CASE scrollToTop
  <2> DEFINE w == [viewer EXCEPT !.follow = FALSE, !.anchorEnd = 0]
  <2>1. w \in Readers /\ ViewerKey(w, Other)
    BY <1>1, <1>2 DEF Readers, scrollToTop
  <2> HIDE DEF w
  <2> QED
    BY <2>1, OtherKey
<1>3. CASE scrollToBottom
  <2> DEFINE w == [viewer EXCEPT !.follow = FALSE, !.anchorEnd = totalDisplayRows(viewer)]
  <2>1. w \in Readers
    BY <1>1 DEF Readers
  <2>2. ViewerKey(w, Other)
    BY <1>3 DEF scrollToBottom
  <2> HIDE DEF w
  <2> QED
    BY <2>1, <2>2, OtherKey
<1>4. \A v \in Readers : Reanchored(v) \in Readers
  <2> TAKE v \in Readers
  <2> DEFINE anchor == IF v.follow THEN Nowhere ELSE totalDisplayRows(v)
  <2>1. anchor \in Nat \cup {Nowhere}
    BY TotalIs
  <2>2. Reanchored(v) = [v EXCEPT !.anchorEnd = anchor]
    BY DEF Reanchored
  <2> HIDE DEF anchor
  <2> QED
    BY <2>1, <2>2 DEF Readers
<1>5. CASE toggleFollow
  <2> DEFINE v == [viewer EXCEPT !.follow = ~@]
  <2>1. v \in Readers
    BY <1>1 DEF Readers
  <2>2. ViewerKey(Reanchored(v), Other)
    BY <1>5 DEF toggleFollow
  <2> HIDE DEF v
  <2> QED
    BY <1>4, <2>1, <2>2, OtherKey
<1>6. CASE toggleWrap
  <2> DEFINE v == [viewer EXCEPT !.wrap = ~@]
  <2>1. v \in Readers
    BY <1>1 DEF Readers
  <2>2. ViewerKey(Reanchored(v), Other)
    BY <1>6 DEF toggleWrap
  <2> HIDE DEF v
  <2> QED
    BY <1>4, <2>1, <2>2, OtherKey
<1>7. CASE cycleStreamFilter
  <2> DEFINE at == CHOOSE n \in 1 .. 3 : StreamFilters[n] = viewer.streamFilter
             v == [viewer EXCEPT !.streamFilter = StreamFilters[(at % 3) + 1]]
             w == [v EXCEPT !.anchorEnd = totalDisplayRows(v)]
  <2>1. \E n \in 1 .. 3 : StreamFilters[n] = viewer.streamFilter
    <3>1. StreamFilters[1] = "both" /\ StreamFilters[2] = "stdout" /\ StreamFilters[3] = "stderr"
      BY DEF StreamFilters
    <3>2. viewer.streamFilter \in {"both", "stdout", "stderr"}
      BY <1>1 DEF Readers
    <3> QED
      BY <3>1, <3>2
  <2>2. at \in 1 .. 3
    BY <2>1
  <2>3. ViewerKey(refreshMatches(w), Other)
    BY <1>7 DEF cycleStreamFilter
  <2> HIDE DEF at
  <2>4. (at % 3) + 1 \in 1 .. 3
    BY <2>2
  <2>5. StreamFilters[(at % 3) + 1] \in {"both", "stdout", "stderr"}
    BY <2>4 DEF StreamFilters
  <2>6. v \in Readers
    BY <1>1, <2>5 DEF Readers
  <2> HIDE DEF v
  <2>7. totalDisplayRows(v) \in Nat
    BY <2>6, TotalIs
  <2>8. w \in Readers
    BY <2>6, <2>7 DEF Readers
  <2> HIDE DEF w
  <2> QED
    BY <2>3, <2>8, RefreshedMatches, OtherKey
<1>8. ASSUME NEW query \in {"hit", "miss"}, setSearch(query) PROVE ReaderInv' /\ did' # Still
  <2> DEFINE u == [Anchored(viewer) EXCEPT !.query = query]
             v == refreshMatches(u)
             matches == searchMatches(v)
             w == IF matches = <<>> THEN [v EXCEPT !.current = 0] ELSE JumpedTo(v, Len(matches))
  <2>1. ViewerKey(w, Doing(0, matches # <<>>, FALSE))
    BY <1>8 DEF setSearch
  <2>2. u \in Readers
    BY <1>1, AnchoredIs DEF Readers
  <2> HIDE DEF u
  <2>3. v \in Readers
    BY <2>2, RefreshedMatches
  <2> HIDE DEF v
  <2>4. matches # <<>> => Len(matches) \in DOMAIN matches
    BY <2>3, MatchesAre
  <2>5. w \in Readers /\ (matches # <<>> => Targeted(w))
    <3>1. CASE matches = <<>>
      <4>1. [v EXCEPT !.current = 0] \in Readers
        BY <2>3 DEF Readers
      <4> QED
        BY <3>1, <4>1
    <3>2. CASE matches # <<>>
      BY <2>3, <2>4, <3>2, JumpedIs
    <3> QED
      BY <3>1, <3>2
  <2>6. (matches # <<>>) \in BOOLEAN
    OBVIOUS
  <2> HIDE DEF w, matches
  <2> QED
    BY <2>1, <2>5, <2>6, JumpKeeps
<1>9. CASE clearSearch
  <2> DEFINE w == [viewer EXCEPT !.query = "none", !.current = 0]
  <2> DEFINE u == [viewer EXCEPT !.query = "none"]
  <2>3. u \in Readers
    BY <1>1 DEF Readers
  <2>4. w = [u EXCEPT !.current = 0]
    BY <1>1 DEF Readers
  <2>2. ViewerKey(w, Other)
    BY <1>9 DEF clearSearch
  <2> HIDE DEF u, w
  <2>5. [u EXCEPT !.current = 0] \in Readers
    BY <2>3 DEF Readers
  <2>1. w \in Readers
    BY <2>4, <2>5
  <2> QED
    BY <2>1, <2>2, OtherKey
<1>10. ASSUME NEW forward \in BOOLEAN, Step(forward) PROVE ReaderInv' /\ did' # Still
  <2> DEFINE count == Len(searchMatches(viewer))
             at == viewer.current - 1
             n == IF forward THEN ((at + 1) % count) + 1 ELSE ((at - 1 + count) % count) + 1
  <2>1. count > 0 /\ ViewerKey(JumpedTo(viewer, n), Doing(0, TRUE, FALSE))
    BY <1>10 DEF Step
  <2>2. count \in Nat /\ viewer.current \in Int /\ DOMAIN searchMatches(viewer) = 1 .. count
    BY <1>1, MatchesAre DEF Readers
  <2> HIDE DEF count
  <2>3. count \in Nat \ {0} /\ at \in Int
    BY <2>1, <2>2
  <2> HIDE DEF at
  <2>4. (at + 1) % count \in 0 .. count - 1 /\ (at - 1 + count) % count \in 0 .. count - 1
    BY <2>3
  <2>5. n \in 1 .. count
    BY <2>3, <2>4
  <2> HIDE DEF n
  <2>6. JumpedTo(viewer, n) \in Readers /\ Targeted(JumpedTo(viewer, n))
    BY <1>1, <2>2, <2>5, JumpedIs
  <2> QED
    BY <2>1, <2>6, JumpKeeps
<1> QED
  BY <1>2, <1>3, <1>5, <1>6, <1>7, <1>8, <1>9, <1>10

(* Output that comes leaves a reader who does not follow where he was. *)
LEMMA AppendKeeps ==
    ASSUME ReaderInv, NEW n \in Nat, appendLines(n)
    PROVE  ReaderInv' /\ did' # Still
<1> DEFINE new == [i \in 1 .. n |-> arrived + i]
           lines == trimToBudget(viewer.lines \o new, MaxBufferLines)
           longer == [viewer EXCEPT !.lines = lines]
           grown == refreshMatches(longer)
           w == IF grown.follow THEN [grown EXCEPT !.anchorEnd = Nowhere] ELSE grown
<1>1. viewer \in Readers /\ viewer.lines \in Seq(Int) /\ arrived \in Nat /\ did \in Doings
  BY DEF ReaderInv, ReaderTyped, Readers
<1>2. /\ arrived' = arrived + n /\ viewer' = w /\ did' = [did EXCEPT !.appended = TRUE]
      /\ screen' = screen
  BY DEF appendLines
<1>3. new \in Seq(Int)
  <2>1. \A i \in 1 .. n : arrived + i \in Int
    BY <1>1
  <2> QED
    BY <2>1
<1>4. MaxBufferLines \in Nat \ {0}
  BY ViewerAssumption
<1> HIDE DEF new
<1>5. viewer.lines \o new \in Seq(Int)
  BY <1>1, <1>3, ConcatProperties
<1>6. \E k : IsEnd(lines, k, viewer.lines \o new)
  BY <1>4, <1>5, TrimmedIs
<1>7. lines \in Seq(Int)
  BY <1>6 DEF IsEnd
<1> HIDE DEF lines
<1>8. longer \in Readers /\ SameWrap(longer, viewer) /\ longer.anchorEnd = viewer.anchorEnd
      /\ longer.follow = viewer.follow /\ longer.centerTarget = viewer.centerTarget
  BY <1>1, <1>7 DEF Readers, SameWrap
<1> HIDE DEF longer
<1>9. grown \in Readers /\ SameWrap(grown, longer) /\ grown.anchorEnd = longer.anchorEnd
      /\ grown.follow = longer.follow /\ grown.centerTarget = longer.centerTarget
  BY <1>8, RefreshedMatches
<1> HIDE DEF grown
<1>10. /\ w \in Readers /\ w.wrap = viewer.wrap /\ w.narrow = viewer.narrow
       /\ w.follow = viewer.follow
       /\ w.centerTarget = viewer.centerTarget
       /\ w.follow \/ w.anchorEnd = viewer.anchorEnd
  <2>1. CASE grown.follow
    BY <1>8, <1>9, <2>1 DEF Readers, SameWrap
  <2>2. CASE ~grown.follow
    BY <1>8, <1>9, <2>2 DEF SameWrap
  <2> QED
    BY <2>1, <2>2
<1> HIDE DEF w
<1>11. /\ did' \in Doings /\ did'.appended /\ did'.scrolled = did.scrolled
       /\ did'.jumped = did.jumped /\ did'.times = did.times
  BY <1>1, <1>2 DEF Doings
<1>12. did' # Still
  BY <1>11, StillIs
<1>13. did' = Other => did = Still \/ did = Other
  <2> SUFFICES ASSUME did' = Other PROVE did = Still \/ did = Other
    OBVIOUS
  <2>1. did.scrolled = 0 /\ ~did.jumped /\ did.times = 0
    BY <1>11, StillIs
  <2>2. did = [scrolled |-> did.scrolled, jumped |-> did.jumped,
               appended |-> did.appended, times |-> did.times]
    BY <1>1 DEF Doings
  <2>3. did.jumped = FALSE /\ did.appended \in BOOLEAN
    BY <1>1, <2>1 DEF Doings
  <2> QED
    BY <2>1, <2>2, <2>3, Zenon DEF Still, Other, Doing
<1>14. RowCount(w, screen.lines) = RowCount(viewer, screen.lines)
  BY <1>10 DEF RowCount
<1>15. did' = Other => Waiting(w, screen)
  <2> SUFFICES ASSUME did' = Other, screen.lines # <<>>
               PROVE  /\ w.centerTarget = Nowhere /\ w.narrow = screen.narrow
                      /\ \/ w.follow \/ w.anchorEnd = Nowhere
                         \/ /\ w.anchorEnd = screen.end
                            /\ Window(screen, RowCount(w, screen.lines))
    BY DEF Waiting
  <2>1. CASE did = Still
    <3>1. Drawn(viewer, screen)
      BY <2>1 DEF ReaderInv
    <3>2. /\ viewer.centerTarget = Nowhere /\ Window(screen, RowCount(viewer, screen.lines))
          /\ screen.narrow = viewer.narrow
          /\ viewer.follow \/ viewer.anchorEnd = Nowhere \/ viewer.anchorEnd = screen.end
      BY <3>1 DEF Drawn, totalDisplayRows
    <3> QED
      BY <1>10, <1>14, <3>2
  <2>2. CASE did = Other
    <3>1. Waiting(viewer, screen)
      BY <2>2 DEF ReaderInv
    <3> QED
      BY <1>10, <1>14, <3>1 DEF Waiting
  <2> QED
    BY <1>13, <2>1, <2>2
<1>16. ReaderTyped'
  BY <1>1, <1>2, <1>10, <1>11 DEF ReaderInv, ReaderTyped
<1>17. (screen.start = IF screen.end >= screen.height THEN screen.end - screen.height ELSE 0)'
  BY <1>2 DEF ReaderInv
<1>18. (did = Other => Waiting(viewer, screen))'
  <2>1. Other' = Other
    BY DEF Other, Doing
  <2> QED
    BY <1>2, <1>15, <2>1
<1>19. did' # Still'
  <2>1. Still' = Still
    BY DEF Still, Doing
  <2> QED
    BY <1>12, <2>1
<1> QED
  BY <1>11, <1>12, <1>16, <1>17, <1>18, <1>19 DEF ReaderInv

-----------------------------------------------------------------------------
(* Rendering *)

(* A number moved between two others. *)
Between(n, low, high) == IF n < low THEN low ELSE IF high < n THEN high ELSE n

Lesser(a, b) == IF a <= b THEN a ELSE b

LEMMA ClampedIs ==
    ASSUME NEW n \in Int, NEW low \in Int, NEW high \in Int, low <= high
    PROVE  /\ Max({low, Min({n, high})}) = Between(n, low, high)
           /\ Min({high, Max({low, n})}) = Between(n, low, high)
           /\ Between(n, low, high) \in low .. high
<1>1. Min({n, high}) = (IF n <= high THEN n ELSE high) /\ Min({n, high}) \in Int
  BY LeastOfTwo
<1>2. Max({low, Min({n, high})}) = IF low >= Min({n, high}) THEN low ELSE Min({n, high})
  BY <1>1, GreatestOfTwo
<1>3. Max({low, n}) = (IF low >= n THEN low ELSE n) /\ Max({low, n}) \in Int
  BY GreatestOfTwo
<1>4. Min({high, Max({low, n})}) = IF high <= Max({low, n}) THEN high ELSE Max({low, n})
  BY <1>3, LeastOfTwo
<1> QED
  BY <1>1, <1>2, <1>3, <1>4 DEF Between

(* The last row shown: the anchor, between what fills a screen and all. *)
LEMMA ShownEndIs ==
    ASSUME NEW v \in Readers, NEW height \in Nat
    PROVE  LET total == totalDisplayRows(v)
               raw == IF v.follow \/ v.anchorEnd = Nowhere THEN total ELSE v.anchorEnd
           IN  /\ total \in Nat /\ raw \in Nat /\ Lesser(height, total) \in 0 .. total
               /\ ShownEnd(v, height) = Between(raw, Lesser(height, total), total)
               /\ ShownEnd(v, height) \in Lesser(height, total) .. total
<1> DEFINE total == totalDisplayRows(v)
           raw == IF v.follow \/ v.anchorEnd = Nowhere THEN total ELSE v.anchorEnd
<1>1. total \in Nat /\ raw \in Nat
  BY TotalIs DEF Readers, Nowhere
<1>2. ShownEnd(v, height) = Min({total, Max({Min({height, total}), raw})})
  BY DEF ShownEnd
<1> HIDE DEF total, raw
<1>3. Min({height, total}) = Lesser(height, total)
  BY <1>1, LeastOfTwo DEF Lesser
<1>4. Lesser(height, total) \in 0 .. total
  BY <1>1 DEF Lesser
<1> DEFINE low == Lesser(height, total)
<1>5. low \in Int /\ low <= total /\ raw \in Int /\ total \in Int
  BY <1>1, <1>4
<1> HIDE DEF low
<1>6. /\ Min({total, Max({low, raw})}) = Between(raw, low, total)
      /\ Between(raw, low, total) \in low .. total
  BY <1>5, ClampedIs
<1> QED
  BY <1>1, <1>2, <1>3, <1>4, <1>6 DEF total, raw, low

(* A match that is centered has its row before the anchor, by half a screen. *)
LEMMA CenteredIs ==
    ASSUME NEW v \in Readers, NEW height \in Nat \ {0}
    PROVE  LET w == Centered(v, height)
           IN  /\ w \in Readers /\ SameLines(w, v) /\ SameWrap(w, v)
               /\ w.follow = v.follow /\ w.centerTarget = Nowhere
               /\ v.centerTarget = Nowhere => w = v
               /\ v.centerTarget # Nowhere =>
                     w.anchorEnd = Lesser(totalDisplayRows(v),
                                          RowOf(v, v.centerTarget) + (height \div 2))
<1>1. CASE v.centerTarget = Nowhere
  BY <1>1 DEF Centered, SameLines, SameWrap
<1>2. CASE v.centerTarget # Nowhere
  <2> DEFINE row == RowOf(v, v.centerTarget)
             half == height \div 2
             anchor == Lesser(totalDisplayRows(v), row + half)
             w == [v EXCEPT !.centerTarget = Nowhere, !.anchorEnd = anchor]
  <2>1. v.centerTarget \in Nat /\ half \in Nat /\ totalDisplayRows(v) \in Nat
    BY <1>2, TotalIs DEF Readers
  <2>2. row \in Nat
    <3>1. CASE v.centerTarget \in DOMAIN visibleLines(v)
      <4>1. row \in 1 .. totalDisplayRows(v)
        BY <3>1, RowIs
      <4> QED
        BY <2>1, <4>1
    <3>2. CASE v.centerTarget \notin DOMAIN visibleLines(v)
      <4>1. row \in {v.centerTarget, 1}
        BY <3>2 DEF RowOf
      <4> QED
        BY <2>1, <4>1
    <3> QED
      BY <3>1, <3>2
  <2> HIDE DEF row, half
  <2>3. anchor \in Nat /\ anchor = Min({totalDisplayRows(v), row + half})
    BY <2>1, <2>2, LeastOfTwo DEF Lesser
  <2>4. Centered(v, height) = w
    BY <1>2, <2>3 DEF Centered, row, half
  <2> HIDE DEF anchor
  <2>5. /\ w \in Readers /\ SameLines(w, v) /\ SameWrap(w, v) /\ w.follow = v.follow
        /\ w.centerTarget = Nowhere /\ w.anchorEnd = anchor
    BY <2>3 DEF Readers, SameLines, SameWrap
  <2> HIDE DEF w
  <2> QED
    BY <1>2, <2>4, <2>5 DEF anchor, row, half
<1> QED
  BY <1>1, <1>2

(* What a rendering of lines is: the viewer it centers, whose end is shown, and
   to which that end is written back. *)
Rendering(height, narrow, sized, c, total) ==
    /\ sized = [viewer EXCEPT !.narrow = narrow, !.rendered = TRUE]
    /\ c = Centered(sized, height) /\ total = totalDisplayRows(sized)
    /\ sized \in Readers /\ SameLines(sized, viewer) /\ sized.wrap = viewer.wrap
    /\ sized.narrow = narrow /\ sized.follow = viewer.follow
    /\ sized.anchorEnd = viewer.anchorEnd /\ sized.centerTarget = viewer.centerTarget
    /\ sized.query = viewer.query
    /\ c \in Readers /\ SameLines(c, sized) /\ SameWrap(c, sized) /\ c.follow = viewer.follow
    /\ c.centerTarget = Nowhere /\ (viewer.centerTarget = Nowhere => c = sized)
    /\ viewer.centerTarget # Nowhere =>
          c.anchorEnd = Lesser(total, RowOf(sized, viewer.centerTarget) + (height \div 2))
    /\ total \in Nat /\ total = RowCount(sized, visibleLines(viewer))
    /\ screen'.end \in Nat /\ screen'.end \in Lesser(height, total) .. total
    /\ IF c.follow \/ c.anchorEnd = Nowhere
       THEN screen'.end = total /\ viewer' = c
       ELSE /\ screen'.end = Between(c.anchorEnd, Lesser(height, total), total)
            /\ viewer' = [c EXCEPT !.anchorEnd = screen'.end]
    /\ viewer' \in Readers /\ SameLines(viewer', sized) /\ SameWrap(viewer', sized)
    /\ viewer'.follow = viewer.follow /\ viewer'.centerTarget = Nowhere
    /\ IF c.follow \/ c.anchorEnd = Nowhere THEN viewer'.anchorEnd = c.anchorEnd
       ELSE viewer'.anchorEnd = screen'.end
    /\ screen'.start = IF screen'.end >= height THEN screen'.end - height ELSE 0
    /\ screen'.height = height /\ screen'.narrow = narrow
    /\ screen'.lines = visibleLines(viewer)

LEMMA SizedIs ==
    ASSUME ReaderTyped, NEW narrow \in BOOLEAN
    PROVE  LET sized == [viewer EXCEPT !.narrow = narrow, !.rendered = TRUE]
           IN  /\ sized \in Readers /\ SameLines(sized, viewer) /\ sized.wrap = viewer.wrap
               /\ (sized.narrow <=> narrow) /\ sized.follow = viewer.follow
               /\ sized.anchorEnd = viewer.anchorEnd
               /\ sized.centerTarget = viewer.centerTarget /\ sized.query = viewer.query
<1> DEFINE sized == [viewer EXCEPT !.narrow = narrow, !.rendered = TRUE]
<1>1. viewer \in Readers
  BY DEF ReaderTyped
<1>2. sized \in Readers
  BY <1>1 DEF Readers
<1>3. SameLines(sized, viewer) /\ sized.wrap = viewer.wrap /\ sized.follow = viewer.follow
      /\ sized.anchorEnd = viewer.anchorEnd
      /\ sized.centerTarget = viewer.centerTarget /\ sized.query = viewer.query
  BY <1>1 DEF Readers, SameLines
<1>4. sized.narrow <=> narrow
  BY <1>1 DEF Readers
<1> QED
  BY <1>2, <1>3, <1>4

LEMMA RenderIs ==
    ASSUME ReaderTyped, NEW height \in Nat \ {0}, NEW narrow \in BOOLEAN, Render(height, narrow),
           visibleLines(viewer) # <<>>
    PROVE  \E sized, c, total : Rendering(height, narrow, sized, c, total)
<1> DEFINE sized == [viewer EXCEPT !.narrow = narrow, !.rendered = TRUE]
           c == Centered(sized, height)
           total == totalDisplayRows(sized)
           end == ShownEnd(c, height)
<1>1. /\ sized \in Readers /\ SameLines(sized, viewer) /\ sized.wrap = viewer.wrap
      /\ (sized.narrow <=> narrow) /\ sized.follow = viewer.follow
      /\ sized.anchorEnd = viewer.anchorEnd
      /\ sized.centerTarget = viewer.centerTarget /\ sized.query = viewer.query
  BY SizedIs
<1>2. /\ viewer' = WrittenBack(c, end)
      /\ screen' = [height |-> height, narrow |-> narrow,
                    end |-> end, start |-> Max({0, end - height}), lines |-> visibleLines(viewer)]
  BY DEF Render
<1>3. sized = [viewer EXCEPT !.narrow = narrow, !.rendered = TRUE]
  OBVIOUS
<1> HIDE DEF sized
<1>4. /\ c \in Readers /\ SameLines(c, sized) /\ SameWrap(c, sized) /\ c.follow = sized.follow
      /\ c.centerTarget = Nowhere /\ (sized.centerTarget = Nowhere => c = sized)
      /\ sized.centerTarget # Nowhere =>
            c.anchorEnd = Lesser(total, RowOf(sized, sized.centerTarget) + (height \div 2))
  BY <1>1, CenteredIs
<1>5. c = Centered(sized, height)
  OBVIOUS
<1> HIDE DEF c
<1>6. total = totalDisplayRows(c) /\ total = RowCount(sized, visibleLines(viewer)) /\ total \in Nat
  <2>1. total = totalDisplayRows(c)
    BY <1>4, SameTotal
  <2>2. visibleLines(sized) = visibleLines(viewer)
    BY <1>1, SameVisible
  <2> QED
    BY <1>1, <2>1, <2>2, TotalIs
<1>7. total = totalDisplayRows(sized)
  OBVIOUS
<1> HIDE DEF total
<1> DEFINE raw == IF c.follow \/ c.anchorEnd = Nowhere THEN total ELSE c.anchorEnd
           low == Lesser(height, total)
<1>8. end \in Nat /\ end \in low .. total /\ end = Between(raw, low, total) /\ low \in 0 .. total
  <2>1. height \in Nat
    OBVIOUS
  <2>2. /\ totalDisplayRows(c) \in Nat
        /\ Lesser(height, totalDisplayRows(c)) \in 0 .. totalDisplayRows(c)
        /\ end \in Lesser(height, totalDisplayRows(c)) .. totalDisplayRows(c)
        /\ end = Between(IF c.follow \/ c.anchorEnd = Nowhere THEN totalDisplayRows(c)
                         ELSE c.anchorEnd,
                         Lesser(height, totalDisplayRows(c)), totalDisplayRows(c))
    BY <1>4, <2>1, ShownEndIs
  <2> HIDE DEF end
  <2>3. /\ end \in low .. total /\ end = Between(raw, low, total) /\ low \in 0 .. total
    BY <1>6, <2>2
  <2>4. end \in Nat
    BY <1>6, <2>3
  <2> QED
    BY <2>3, <2>4
<1>9. c.follow \/ c.anchorEnd = Nowhere => end = total
  BY <1>6, <1>8 DEF Between
<1>10. ~(c.follow \/ c.anchorEnd = Nowhere) => end = Between(c.anchorEnd, low, total)
  BY <1>8
<1> HIDE DEF end, low, raw
<1>11. /\ screen'.end = end /\ screen'.height = height /\ screen'.narrow = narrow
       /\ screen'.lines = visibleLines(viewer) /\ screen'.start = Max({0, end - height})
  BY <1>2, Zenon
<1>12. Max({0, end - height}) = IF end >= height THEN end - height ELSE 0
  <2>1. end - height \in Int
    BY <1>8
  <2>2. Max({0, end - height}) = IF 0 >= end - height THEN 0 ELSE end - height
    BY <2>1, GreatestOfTwo
  <2> QED
    BY <1>8, <2>2
<1>13. IF c.follow \/ c.anchorEnd = Nowhere THEN viewer' = c
       ELSE viewer' = [c EXCEPT !.anchorEnd = end]
  BY <1>2 DEF WrittenBack
<1>14. /\ viewer' \in Readers /\ SameLines(viewer', sized) /\ SameWrap(viewer', sized)
       /\ viewer'.follow = c.follow /\ viewer'.centerTarget = Nowhere
       /\ IF c.follow \/ c.anchorEnd = Nowhere THEN viewer'.anchorEnd = c.anchorEnd
          ELSE viewer'.anchorEnd = end
  <2>1. CASE c.follow \/ c.anchorEnd = Nowhere
    BY <1>4, <1>13, <2>1
  <2>2. CASE ~(c.follow \/ c.anchorEnd = Nowhere)
    <3> DEFINE w == [c EXCEPT !.anchorEnd = end]
    <3>1. viewer' = w
      BY <1>13, <2>2
    <3>2. w \in Readers
      BY <1>4, <1>8 DEF Readers
    <3>3. /\ w.lines = c.lines /\ w.streamFilter = c.streamFilter /\ w.wrap = c.wrap
          /\ w.narrow = c.narrow /\ w.follow = c.follow /\ w.centerTarget = c.centerTarget
          /\ w.anchorEnd = end
      BY <1>4 DEF Readers
    <3> HIDE DEF w
    <3> QED
      BY <1>4, <2>2, <3>1, <3>2, <3>3 DEF SameLines, SameWrap
  <2> QED
    BY <2>1, <2>2
<1>15. sized.narrow = narrow
  <2>1. sized.narrow \in BOOLEAN
    BY <1>1 DEF Readers
  <2> QED
    BY <1>1, <2>1, Zenon
<1>16. screen'.end \in Nat /\ screen'.end \in Lesser(height, total) .. total
  BY <1>8, <1>11 DEF low
<1>17. IF c.follow \/ c.anchorEnd = Nowhere
       THEN screen'.end = total /\ viewer' = c
       ELSE /\ screen'.end = Between(c.anchorEnd, Lesser(height, total), total)
            /\ viewer' = [c EXCEPT !.anchorEnd = screen'.end]
  BY <1>9, <1>10, <1>11, <1>13 DEF low
<1>18. /\ viewer.centerTarget = Nowhere => c = sized
       /\ viewer.centerTarget # Nowhere =>
            c.anchorEnd = Lesser(total, RowOf(sized, viewer.centerTarget) + (height \div 2))
  BY <1>1, <1>4
<1>19. screen'.start = IF screen'.end >= height THEN screen'.end - height ELSE 0
  BY <1>11, <1>12
<1>20. /\ viewer'.follow = viewer.follow
       /\ IF c.follow \/ c.anchorEnd = Nowhere THEN viewer'.anchorEnd = c.anchorEnd
          ELSE viewer'.anchorEnd = screen'.end
  BY <1>1, <1>4, <1>11, <1>14
<1>21. Rendering(height, narrow, sized, c, total)
  BY <1>1, <1>3, <1>4, <1>5, <1>6, <1>7, <1>11, <1>14, <1>15, <1>16, <1>17, <1>18, <1>19, <1>20,
     Zenon DEF Rendering
<1> QED
  BY <1>21

(* The screen is a window on the rows, and the anchor its end. *)
LEMMA RenderKeeps ==
    ASSUME ReaderInv, NEW height \in Nat \ {0}, NEW narrow \in BOOLEAN, Render(height, narrow)
    PROVE  ReaderInv'
<1>1. /\ viewer \in Readers /\ screen \in Screens /\ arrived \in Nat /\ ReaderTyped
      /\ did' = Still /\ arrived' = arrived
  BY DEF ReaderInv, ReaderTyped, Render
<1>2. Still' = Still /\ Other' = Other
  BY DEF Still, Other, Doing
<1>3. SUFFICES /\ viewer' \in Readers /\ screen' \in Screens
               /\ screen'.start = IF screen'.end >= screen'.height
                                  THEN screen'.end - screen'.height ELSE 0
               /\ Drawn(viewer', screen')
  <2>1. ReaderTyped'
    BY <1>1, <1>3, StillIs DEF ReaderTyped
  <2>2. did'.scrolled = 0 /\ ~did'.jumped /\ did' # Other
    BY <1>1, StillIs
  <2> QED
    BY <1>2, <1>3, <2>1, <2>2 DEF ReaderInv
<1>4. CASE visibleLines(viewer) = <<>>
  <2> DEFINE sized == [viewer EXCEPT !.narrow = narrow, !.rendered = TRUE]
             end == ShownEnd(sized, height)
  <2>1. /\ sized \in Readers /\ SameLines(sized, viewer) /\ (sized.narrow <=> narrow)
    BY <1>1, SizedIs
  <2>2. /\ viewer' = sized
        /\ screen' = [height |-> height, narrow |-> narrow, end |-> end,
                      start |-> Max({0, end - height}), lines |-> visibleLines(viewer)]
    BY <1>4 DEF Render
  <2> HIDE DEF sized
  <2>3. end \in Nat
    <3>1. /\ totalDisplayRows(sized) \in Nat /\ Lesser(height, totalDisplayRows(sized)) \in Nat
          /\ end \in Lesser(height, totalDisplayRows(sized)) .. totalDisplayRows(sized)
      BY <2>1, ShownEndIs
    <3> HIDE DEF end
    <3> QED
      BY <3>1
  <2> HIDE DEF end
  <2>4. Max({0, end - height}) = IF end >= height THEN end - height ELSE 0
    <3>1. end - height \in Int
      BY <2>3
    <3>2. Max({0, end - height}) = IF 0 >= end - height THEN 0 ELSE end - height
      BY <3>1, GreatestOfTwo
    <3> QED
      BY <2>3, <3>2
  <2>5. /\ screen'.end = end /\ screen'.height = height /\ screen'.narrow = narrow
        /\ screen'.lines = visibleLines(viewer) /\ screen'.start = Max({0, end - height})
    BY <2>2, Zenon
  <2>6. visibleLines(viewer') = visibleLines(viewer)
    BY <2>1, <2>2, SameVisible
  <2>7. screen' \in Screens
    <3>1. Max({0, end - height}) \in Nat /\ visibleLines(viewer) \in Seq(Int) /\ height \in Nat
      BY <1>1, <2>3, <2>4, VisibleIs
    <3> QED
      BY <2>2, <2>3, <3>1, Zenon DEF Screens
  <2>8. screen'.narrow = viewer'.narrow
    <3>1. viewer'.narrow \in BOOLEAN /\ (viewer'.narrow <=> narrow)
      BY <2>1, <2>2 DEF Readers
    <3> QED
      BY <2>5, <3>1, Zenon
  <2> QED
    BY <1>4, <2>1, <2>2, <2>4, <2>5, <2>6, <2>7, <2>8 DEF Drawn
<1>5. CASE visibleLines(viewer) # <<>>
  <2>1. PICK sized, c, total : Rendering(height, narrow, sized, c, total)
    BY <1>1, <1>5, RenderIs
  <2>2. /\ viewer' \in Readers /\ screen'.end \in Nat /\ total \in Nat
        /\ SameLines(viewer', sized) /\ SameWrap(viewer', sized) /\ SameLines(sized, viewer)
        /\ total = totalDisplayRows(sized) /\ sized.narrow = narrow
        /\ viewer'.centerTarget = Nowhere
    BY <2>1 DEF Rendering
  <2>3. /\ screen'.start = IF screen'.end >= height THEN screen'.end - height ELSE 0
        /\ screen'.height = height /\ screen'.narrow = narrow
        /\ screen'.lines = visibleLines(viewer)
        /\ screen'.end \in Lesser(height, total) .. total
    BY <2>1 DEF Rendering
  <2>4. /\ visibleLines(viewer') = visibleLines(viewer) /\ totalDisplayRows(viewer') = total
    BY <2>2, SameVisible, SameTotal
  <2>5. screen' \in Screens
    <3> DEFINE end == screen'.end
               start == screen'.start
    <3>1. screen' = [height |-> height, narrow |-> narrow, end |-> end,
                     start |-> start, lines |-> visibleLines(viewer)]
      BY <2>3 DEF Render
    <3>2. start \in Nat /\ end \in Nat /\ height \in Nat
      BY <2>2, <2>3
    <3>3. visibleLines(viewer) \in Seq(Int)
      BY <1>1, VisibleIs
    <3> HIDE DEF end, start
    <3> QED
      BY <3>1, <3>2, <3>3, Zenon DEF Screens
  <2>6. Window(screen', total)
    BY <2>2, <2>3 DEF Window, Lesser
  <2>7. IF viewer'.follow \/ viewer'.anchorEnd = Nowhere THEN screen'.end = total
        ELSE viewer'.anchorEnd = screen'.end
    <3>1. CASE c.follow \/ c.anchorEnd = Nowhere
      <4>1. viewer' = c /\ screen'.end = total
        BY <2>1, <3>1 DEF Rendering
      <4> QED
        BY <3>1, <4>1
    <3>2. CASE ~(c.follow \/ c.anchorEnd = Nowhere)
      <4>1. ~viewer'.follow /\ viewer'.anchorEnd = screen'.end
        BY <2>1, <3>2 DEF Rendering
      <4>2. viewer'.anchorEnd # Nowhere
        BY <2>2, <4>1 DEF Nowhere
      <4> QED
        BY <4>1, <4>2
    <3> QED
      BY <3>1, <3>2
  <2>8. screen'.narrow = viewer'.narrow
    BY <2>2, <2>3 DEF SameWrap
  <2> QED
    BY <2>2, <2>3, <2>4, <2>5, <2>6, <2>7, <2>8 DEF Drawn
<1> QED
  BY <1>4, <1>5

(* What was asked for since the last rendering is what this one shows. *)
LEMMA RenderFollows ==
    ASSUME ReaderInv, NEW height \in Nat \ {0}, NEW narrow \in BOOLEAN, Render(height, narrow),
           visibleLines(viewer) # <<>>
    PROVE  ScrollsAsAsked /\ MatchIsShown /\ OutputWaits /\ FooterAgrees
<1>1. ReaderTyped /\ viewer \in Readers /\ screen \in Screens
  BY DEF ReaderInv, ReaderTyped
<1>2. PICK sized, c, total : Rendering(height, narrow, sized, c, total)
  BY <1>1, RenderIs
<1> DEFINE low == Lesser(height, total)
           end == screen'.end
<1>3. /\ total \in Nat /\ total = totalDisplayRows(sized)
      /\ total = RowCount(sized, visibleLines(viewer))
      /\ sized \in Readers /\ SameLines(sized, viewer) /\ sized.wrap = viewer.wrap
      /\ sized.narrow = narrow /\ sized.follow = viewer.follow
      /\ sized.anchorEnd = viewer.anchorEnd /\ sized.query = viewer.query
  BY <1>2 DEF Rendering
<1>4. end \in Nat /\ end \in low .. total /\ low \in 0 .. total /\ height \in Nat \ {0}
      /\ (low = height \/ low = total)
  <2>1. end \in Nat /\ end \in low .. total
    BY <1>2 DEF Rendering
  <2> HIDE DEF end
  <2> QED
    BY <1>3, <2>1 DEF Lesser
<1>5. /\ screen'.start = IF end >= height THEN end - height ELSE 0
      /\ screen'.height = height /\ screen'.narrow = narrow
      /\ SameLines(viewer', sized) /\ SameWrap(viewer', sized) /\ viewer' \in Readers
      /\ viewer'.follow = viewer.follow
  BY <1>2 DEF Rendering
<1>6. ~c.follow /\ c.anchorEnd # Nowhere => end = Between(c.anchorEnd, low, total)
  BY <1>2 DEF Rendering
<1>7. viewer.centerTarget = Nowhere => c = sized
  BY <1>2 DEF Rendering
<1>8. c.follow = viewer.follow
  BY <1>2 DEF Rendering
<1> HIDE DEF low, end
<1>9. ASSUME did.scrolled # 0, ~did.appended, SameSize
      PROVE  end = Clamped(screen.end - did.scrolled,
                           Min({screen.height, totalDisplayRows(viewer)}),
                           totalDisplayRows(viewer))
  <2> DEFINE x == screen.end - did.scrolled
  <2>1. Scrolled(viewer, screen, did.scrolled)
    BY <1>9 DEF ReaderInv
  <2>2. /\ ~viewer.follow /\ viewer.centerTarget = Nowhere /\ viewer.narrow = screen.narrow
        /\ viewer.anchorEnd = Max({0, Min({totalDisplayRows(viewer), x})})
    BY <2>1 DEF Scrolled
  <2>3. x \in Int
    BY <1>1 DEF Screens, ReaderTyped, Doings
  <2>4. screen.height = height /\ screen.narrow = narrow
    BY <1>5, <1>9 DEF SameSize
  <2>5. totalDisplayRows(viewer) = total
    <3>1. SameWrap(sized, viewer)
      BY <1>3, <2>2, <2>4 DEF SameWrap
    <3> QED
      BY <1>3, <3>1, SameTotal
  <2> HIDE DEF x
  <2>6. Min({height, total}) = low
    BY <1>3, <1>4, LeastOfTwo DEF low, Lesser
  <2>7. viewer.anchorEnd = Between(x, 0, total)
    <3>1. Min({total, x}) = Min({x, total})
      <4>1. {total, x} = {x, total}
        OBVIOUS
      <4> QED
        BY <4>1
    <3>2. Max({0, Min({x, total})}) = Between(x, 0, total)
      <4>1. total \in Int /\ 0 \in Int /\ 0 <= total
        BY <1>3
      <4> QED
        BY <2>3, <4>1, ClampedIs
    <3> QED
      BY <2>2, <2>5, <3>1, <3>2
  <2>8. viewer.anchorEnd \in Nat
    BY <1>3, <2>3, <2>7 DEF Between
  <2>9. end = Between(viewer.anchorEnd, low, total)
    BY <1>3, <1>6, <1>7, <1>8, <2>2, <2>8 DEF Nowhere
  <2>10. end = Between(x, low, total)
    BY <1>3, <1>4, <2>3, <2>7, <2>9 DEF Between
  <2>11. Clamped(x, low, total) = Between(x, low, total)
    <3>1. total \in Int /\ low \in Int /\ low <= total
      BY <1>3, <1>4
    <3>2. Max({low, Min({x, total})}) = Between(x, low, total)
      BY <2>3, <3>1, ClampedIs
    <3> QED
      BY <3>2 DEF Clamped
  <2>12. Min({screen.height, totalDisplayRows(viewer)}) = low
    BY <2>4, <2>5, <2>6
  <2> QED
    BY <2>5, <2>10, <2>11, <2>12 DEF x
<1>10. ASSUME did.jumped, ~did.appended
       PROVE  RowOf(viewer', searchMatches(viewer)[viewer.current]) \in screen'.start + 1 .. end
  <2> DEFINE i == searchMatches(viewer)[viewer.current]
             row == RowOf(sized, i)
             half == height \div 2
  <2>1. ~viewer.follow /\ viewer.current \in DOMAIN searchMatches(viewer)
        /\ viewer.centerTarget = i
    BY <1>10 DEF ReaderInv, Targeted
  <2>2. i \in DOMAIN visibleLines(viewer) /\ i \in Nat \ {0}
    BY <1>1, <2>1, MatchesAre
  <2> HIDE DEF i
  <2>3. i \in DOMAIN visibleLines(sized)
    BY <1>3, <2>2, SameVisible
  <2>4. row \in 1 .. total
    BY <1>3, <2>3, RowIs
  <2>5. RowOf(viewer', i) = row
    BY <1>5, SameRow
  <2>6. viewer.centerTarget # Nowhere
    BY <2>1, <2>2 DEF Nowhere
  <2>7. c.anchorEnd = Lesser(total, row + half)
    BY <1>2, <2>1, <2>6 DEF Rendering
  <2>8. half \in Nat /\ half < height
    BY <1>4
  <2> HIDE DEF row, half
  <2>9. c.anchorEnd \in row .. row + half /\ c.anchorEnd # Nowhere
    BY <1>3, <2>4, <2>7, <2>8 DEF Lesser, Nowhere
  <2>10. end = Between(c.anchorEnd, low, total)
    BY <1>6, <1>8, <2>1, <2>9
  <2>11. c.anchorEnd \in Int /\ row \in Int
    BY <2>4, <2>9
  <2>12. row <= end
    BY <1>3, <1>4, <2>4, <2>9, <2>10, <2>11 DEF Between
  <2>13. end < row + height
    <3>1. end <= c.anchorEnd \/ end = low
      BY <1>3, <1>4, <2>10, <2>11 DEF Between
    <3>2. low <= height
      BY <1>3, <1>4 DEF low, Lesser
    <3> QED
      BY <1>3, <1>4, <2>4, <2>8, <2>9, <2>11, <3>1, <3>2
  <2>14. screen'.start < row
    BY <1>4, <1>5, <2>4, <2>13
  <2>15. screen'.start \in Int
    BY <1>4, <1>5
  <2>16. row \in screen'.start + 1 .. end
    BY <1>4, <2>11, <2>12, <2>14, <2>15
  <2> QED
    BY <2>5, <2>16 DEF i
<1>11. ASSUME did = Other, SameSize, ~viewer.follow, viewer.anchorEnd # Nowhere,
              screen.lines # <<>>, IsPrefix(screen.lines, visibleLines(viewer))
       PROVE  screen'.start = screen.start
  <2> DEFINE shown == RowCount(viewer, screen.lines)
  <2>1. Waiting(viewer, screen)
    BY <1>11 DEF ReaderInv
  <2>2. /\ viewer.centerTarget = Nowhere /\ viewer.narrow = screen.narrow
        /\ viewer.anchorEnd = screen.end /\ Window(screen, shown)
    BY <1>11, <2>1 DEF Waiting
  <2>3. screen.height = height /\ screen.narrow = narrow
    BY <1>5, <1>11 DEF SameSize
  <2>4. screen.lines \in Seq(Int) /\ screen.end \in Nat
    BY <1>1 DEF Screens
  <2>5. shown = RowCount(sized, screen.lines)
    BY <1>3, <2>2, <2>3 DEF RowCount
  <2>6. shown \in Nat /\ shown <= total
    <3>1. visibleLines(viewer) \in Seq(Int)
      BY <1>1, VisibleIs
    <3> HIDE DEF shown
    <3> QED
      BY <1>3, <1>11, <2>4, <2>5, <3>1, RowsGrow
  <2> HIDE DEF shown
  <2>7. end = Between(screen.end, low, total)
    BY <1>3, <1>6, <1>7, <1>8, <1>11, <2>2
  <2>8. screen.end <= shown /\ (height <= screen.end \/ screen.end = shown)
    BY <2>2, <2>3 DEF Window
  <2>9. screen.start = IF screen.end >= height THEN screen.end - height ELSE 0
    BY <2>3 DEF ReaderInv
  <2>10. low = IF height <= total THEN height ELSE total
    BY DEF low, Lesser
  <2>11. CASE height <= screen.end
    <3>1. end = screen.end
      BY <1>3, <1>4, <2>4, <2>6, <2>7, <2>8, <2>10, <2>11 DEF Between
    <3> QED
      BY <1>5, <2>9, <3>1
  <2>12. CASE screen.end < height
    <3>1. end <= height
      BY <1>3, <1>4, <2>4, <2>6, <2>7, <2>8, <2>10, <2>12 DEF Between
    <3>2. screen'.start = 0
      BY <1>4, <1>5, <3>1
    <3>3. screen.start = 0
      BY <1>4, <2>4, <2>9, <2>12
    <3> QED
      BY <3>2, <3>3
  <2> QED
    BY <1>4, <2>4, <2>11, <2>12
<1>12. ASSUME ~viewer'.follow PROVE FooterEnd(viewer') = end
  <2>1. totalDisplayRows(viewer') = total
    BY <1>3, <1>5, SameTotal
  <2>2. CASE viewer'.anchorEnd = Nowhere
    <3>1. c.follow \/ c.anchorEnd = Nowhere
      <4>1. ~(c.follow \/ c.anchorEnd = Nowhere) => viewer'.anchorEnd = end
        BY <1>2 DEF Rendering, end
      <4> QED
        BY <1>4, <2>2, <4>1 DEF Nowhere
    <3>2. end = total
      BY <1>2, <3>1 DEF Rendering, end
    <3> QED
      BY <2>1, <2>2, <3>2 DEF FooterEnd
  <2>3. CASE viewer'.anchorEnd # Nowhere
    <3>1. viewer'.anchorEnd = end
      <4>1. CASE c.follow \/ c.anchorEnd = Nowhere
        BY <1>2, <1>5, <1>8, <1>12, <2>3, <4>1 DEF Rendering
      <4>2. CASE ~(c.follow \/ c.anchorEnd = Nowhere)
        BY <1>2, <4>2 DEF Rendering, end
      <4> QED
        BY <4>1, <4>2
    <3>2. FooterEnd(viewer') = Min({total, Max({0, end})})
      BY <2>1, <2>3, <3>1 DEF FooterEnd
    <3>3. Min({total, Max({0, end})}) = Between(end, 0, total)
      <4>1. total \in Int /\ 0 \in Int /\ 0 <= total /\ end \in Int
        BY <1>3, <1>4
      <4> QED
        BY <4>1, ClampedIs
    <3>4. Between(end, 0, total) = end
      BY <1>3, <1>4 DEF Between
    <3> QED
      BY <3>2, <3>3, <3>4
  <2> QED
    BY <2>2, <2>3
<1> QED
  <2>1. ScrollsAsAsked
    BY <1>9 DEF ScrollsAsAsked, end
  <2>2. MatchIsShown
    BY <1>10 DEF MatchIsShown, end
  <2>3. OutputWaits
    BY <1>11 DEF OutputWaits
  <2>4. FooterAgrees
    BY <1>12 DEF FooterAgrees, end
  <2> QED
    BY <2>1, <2>2, <2>3, <2>4

LEMMA ReaderStep ==
    ASSUME ReaderInv, ViewerNext
    PROVE  ReaderInv' /\ FollowsReader
<1>1. ASSUME NEW height \in Heights, NEW narrow \in BOOLEAN, Render(height, narrow)
      PROVE  ReaderInv' /\ FollowsReader
  <2>1. height \in Nat \ {0}
    BY ViewerAssumption
  <2>2. ReaderInv'
    BY <1>1, <2>1, RenderKeeps
  <2>3. visibleLines(viewer) # <<>> =>
            ScrollsAsAsked /\ MatchIsShown /\ OutputWaits /\ FooterAgrees
    BY <1>1, <2>1, RenderFollows
  <2> QED
    BY <2>2, <2>3 DEF FollowsReader
<1>2. ASSUME ReaderInv' /\ did' # Still PROVE ReaderInv' /\ FollowsReader
  BY <1>2 DEF FollowsReader
<1>3. ASSUME NEW n \in 1 .. MaxShown, appendLines(n) PROVE ReaderInv' /\ FollowsReader
  <2>1. n \in Nat
    BY ViewerAssumption
  <2> QED
    BY <1>2, <1>3, <2>1, AppendKeeps
<1>4. ASSUME NEW h \in Heights, scrollBy(1) \/ scrollBy(-1) \/ scrollBy(h) \/ scrollBy(-h)
      PROVE  ReaderInv' /\ FollowsReader
  <2>1. h \in Int /\ -h \in Int /\ 1 \in Int /\ -1 \in Int
    BY ViewerAssumption
  <2> QED
    BY <1>2, <1>4, <2>1, ScrollKeeps
<1>5. ASSUME \/ scrollToTop \/ scrollToBottom \/ toggleFollow \/ toggleWrap \/ cycleStreamFilter
             \/ setSearch("hit") \/ setSearch("miss") \/ clearSearch
             \/ Step(TRUE) \/ Step(FALSE)
      PROVE  ReaderInv' /\ FollowsReader
  BY <1>2, <1>5, KeysKeep
<1> QED
  BY <1>1, <1>3, <1>4, <1>5 DEF ViewerNext

LEMMA ReaderBegins == ViewerInit => ReaderInv
<1> SUFFICES ASSUME ViewerInit PROVE ReaderInv
  OBVIOUS
<1> DEFINE first == [i \in 1 .. arrived |-> i]
           lines == trimToBudget(first, MaxBufferLines)
<1>1. arrived \in Nat /\ did = Other
  BY DEF ViewerInit
<1>2. viewer = [lines |-> lines, anchorEnd |-> Nowhere,
                follow |-> FollowByDefault, streamFilter |-> "both", query |-> "none", current |-> 0,
                centerTarget |-> Nowhere, wrap |-> FALSE, narrow |-> FALSE, rendered |-> FALSE]
  BY DEF ViewerInit, NewViewer
<1>3. screen = [height |-> 0, narrow |-> FALSE, end |-> 0, start |-> 0, lines |-> <<>>]
  BY DEF ViewerInit
<1>4. first \in Seq(Int)
  BY <1>1
<1>5. \E k : IsEnd(lines, k, first)
  BY <1>4, TrimmedIs, ViewerAssumption
<1>6. lines \in Seq(Int)
  BY <1>5 DEF IsEnd
<1> HIDE DEF lines
<1>7. FollowByDefault \in BOOLEAN
  BY ViewerAssumption
<1>8. viewer \in Readers
  BY <1>2, <1>6, <1>7 DEF Readers
<1>9. screen \in Screens
  BY <1>3 DEF Screens
<1>10. screen.start = (IF screen.end >= screen.height THEN screen.end - screen.height ELSE 0)
       /\ screen.lines = <<>>
  BY <1>3
<1> QED
  BY <1>1, <1>8, <1>9, <1>10, StillIs DEF ReaderInv, ReaderTyped, Waiting

(* The inductive invariant of the viewer: what a reader did since the last
   rendering is what he left for the next, and the anchor of one who does not
   follow is the end of the screen. *)
THEOREM ReaderInvariance == ViewerSpec => []ReaderInv
<1>1. ReaderInv /\ UNCHANGED viewerVars => ReaderInv'
  BY DEF ReaderInv, ReaderTyped, viewerVars, Drawn, Scrolled, Targeted, Waiting
<1> QED
  BY <1>1, ReaderBegins, ReaderStep, PTL DEF ViewerSpec

(* What a rendering of a viewer shows is what the reader asked for since the
   last (render and the keys of log-file-viewer.ts), for every size of terminal
   and of buffer, every mix of long lines and every search. *)
THEOREM ScreenFollows == ViewerSpec => ScreenFollowsReader
<1>1. ReaderInv /\ UNCHANGED viewerVars => ReaderInv'
  BY DEF ReaderInv, ReaderTyped, viewerVars, Drawn, Scrolled, Targeted, Waiting
<1>2. ReaderInv /\ [ViewerNext]_viewerVars => [FollowsReader]_viewerVars
  BY ReaderStep
<1> QED
  BY <1>1, <1>2, ReaderBegins, ReaderStep, PTL DEF ViewerSpec, ScreenFollowsReader

==================================================================================
