------------------------------ MODULE UpdateTool ------------------------------
(***************************************************************************)
(* process update (tools/update/index.ts) on one process: it renames it in *)
(* the manager, then edits its watches in the notification registry, and   *)
(* reports both. Either can be refused: an answer that says so, or an      *)
(* exception. The call runs to completion; between calls the process may   *)
(* stop, end, or lose its registration.                                    *)
(*                                                                         *)
(* A watch is a pattern and whom it is for; an item to remove names a      *)
(* pattern, for anyone or for one, or a place.                             *)
(***************************************************************************)
EXTENDS Places, Sequences, SequencesExt

CONSTANTS
    WatchLimit,  \* MAX_LOG_MATCHERS_PER_PROCESS
    MaxItems     \* bound of the model: the items of a call

ASSUME UpdateToolAssumption == WatchLimit \in Nat /\ MaxItems \in Nat

VARIABLES
    process,  \* the manager's record: its state and its name
    list,     \* the watches in the registry, or Unregistered
    reply     \* what the last call answered

updateVars == <<process, list, reply>>

(* What the caller did not give. *)
None == "none"

Unregistered == <<[pattern |-> None, on |-> None]>>
NewName == "web"
BlankName == "blank"

Watch(pattern, on) == [pattern |-> pattern, on |-> on]
Watches == {Watch("error", "turn"), Watch("error", "context"), Watch("ready", "turn")}

(* Blank patterns and broken regular expressions are refused. *)
BadItem == Watch("bad", "turn")

Place(i) == [at |-> i]
Anyones(pattern) == [pattern |-> pattern]
Removals == Watches \cup {Anyones("error"), BadItem} \cup {Place(i) : i \in 1 .. WatchLimit}

NoReply == [outcome |-> None]

Threw == [outcome |-> "threw"]

-----------------------------------------------------------------------------
(* matchesRemoveSpec; places are those of the list before the call. *)
Meant(watch, i, spec) ==
    IF "at" \in DOMAIN spec THEN spec.at = i
    ELSE /\ watch.pattern = spec.pattern
         /\ "on" \in DOMAIN spec => watch.on = spec.on

Remaining(watches, specs) ==
    Picked(watches, {i \in DOMAIN watches : \A n \in DOMAIN specs : ~Meant(watches[i], i, specs[n])})

(* applyWatchUpdate: the list it leaves; "threw" and "null" leave it alone. *)
applyWatchUpdate(watches, mode, items) ==
    LET bad == mode # "clear" /\ (items = <<>> \/ BadItem \in ToSet(items))
        edited == CASE mode = "append"  -> watches \o items
                    [] mode = "replace" -> items
                    [] mode = "remove"  -> Remaining(watches, items)
                    [] mode = "clear"   -> <<>>
    IN  IF bad THEN [result |-> "threw"]
        ELSE IF watches = Unregistered THEN [result |-> "null"]
        ELSE IF mode \in {"append", "replace"} /\ Len(edited) > WatchLimit THEN [result |-> "threw"]
        ELSE [result |-> "edited", watches |-> edited]

(* What a call is told to have added. *)
Applied_All(mode, before, after) ==
    IF mode \in {"append", "replace"} THEN after ELSE <<>>

Applied(mode, before, after) ==
    CASE mode = "append"  -> SubSeq(after, Len(before) + 1, Len(after))
      [] mode = "replace" -> after
      [] OTHER -> <<>>

Before == IF list = Unregistered THEN <<>> ELSE list

Report(ok, name, mode, applied, items) ==
    [outcome |-> IF ok THEN "ok" ELSE "failed",
     renamed |-> name = NewName /\ name # process.name,
     mode |-> mode, before |-> Before, applied |-> applied, items |-> items]

(* What a call refuses before it changes anything. *)
Refused(name) == process.state \notin {"running", "terminating"} \/ name = BlankName

executeUpdate(name, mode, items) ==
    LET edit == IF mode = None THEN [result |-> None]
                ELSE applyWatchUpdate(list, mode, items)
        renamed == IF name = None THEN process ELSE [process EXCEPT !.name = name]
    IN  \/ /\ Refused(name)
           /\ reply' = [Report(FALSE, None, None, <<>>, <<>>) EXCEPT !.before = <<>>]
           /\ UNCHANGED <<process, list>>
        \/ /\ ~Refused(name) /\ edit.result # "edited"
           /\ process' = renamed
           /\ reply' = IF edit.result = "threw" THEN Threw
                       ELSE Report(edit.result = None, name, mode, <<>>, Before)
           /\ UNCHANGED list
        \/ /\ ~Refused(name) /\ edit.result = "edited"
           /\ process' = renamed /\ list' = edit.watches
           /\ reply' = Report(TRUE, name, mode, Applied(mode, Before, edit.watches), edit.watches)

-----------------------------------------------------------------------------
(* The rest of the system: a stop is asked for, the process ends, and after its
   end it is unregistered. *)
Stops(state) ==
    /\ process.state = "running" \/ (process.state = "terminating" /\ state # "terminating")
    /\ process' = [process EXCEPT !.state = state]
    /\ UNCHANGED <<list, reply>>

Unregisters ==
    /\ list # Unregistered /\ list' = Unregistered
    /\ UNCHANGED <<process, reply>>

-----------------------------------------------------------------------------
UpdateInit ==
    /\ process = [state |-> "running", name |-> "api"]
    /\ \E items \in SeqOf(Watches, WatchLimit) : list = items
    /\ reply = NoReply

UpdateNext ==
    \/ executeUpdate(BlankName, "clear", <<>>)
    \/ \E name \in {None, NewName} :
          \/ executeUpdate(name, None, <<>>)
          \/ \E items \in SeqOf(Watches \cup {BadItem}, MaxItems) :
                executeUpdate(name, "append", items) \/ executeUpdate(name, "replace", items)
          \/ \E items \in SeqOf(Removals, MaxItems) : executeUpdate(name, "remove", items)
          \/ executeUpdate(name, "clear", <<>>)
    \/ \E state \in {"terminating", "exited"} : Stops(state)
    \/ Unregisters

UpdateSpec == UpdateInit /\ [][UpdateNext]_updateVars

-----------------------------------------------------------------------------
(* Properties *)

Answered == reply'.outcome \in {"ok", "failed"}

(* The list after a call is what the report says, and came from the list before
   as the mode says; no report, or one of failure, leaves it as it was. *)
ListIsReported ==
    IF Answered /\ reply'.outcome = "ok"
    THEN /\ reply'.items = (IF list' = Unregistered THEN <<>> ELSE list')
         /\ reply'.mode = "append" => list' = reply'.before \o reply'.applied
         /\ reply'.mode = "replace" => list' = reply'.applied
         /\ reply'.mode = "remove" =>
               \E kept \in SUBSET DOMAIN list : list' = Picked(list, kept)
    ELSE list' = list

(* The name changes only with a report of it, or when the watches that came
   with it were refused by an exception; it is not changed back then. *)
NameIsReported ==
    process'.name # process.name => reply' = Threw \/ reply'.renamed

(* The agent can trust what update tells it, whatever the process and its
   registration have come to since it last asked. *)
UpdateIsReported ==
    [][\/ process'.state # process.state
       \/ list # Unregistered /\ list' = Unregistered
       \/ ListIsReported /\ NameIsReported]_updateVars
===============================================================================
