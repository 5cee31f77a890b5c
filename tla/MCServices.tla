------------------------------- MODULE MCServices -------------------------------
(* Instances for TLC of the parts that share no state with the others: answers
   that come from a timer, rows and lines of the views, the tools' answers, the
   settings. One of them moves in a behaviour; service says which. *)
EXTENDS NotificationDelivery, KillRequest, LogLine, DockLines, OutputTool, UpdateTool,
        SettingsImport

VARIABLES
    service

Services == {"delivery", "requests", "text", "lines", "output", "update", "settings"}

(* An escape in a line of output takes six bytes when serialized. *)
SomeLines ==
    {[size |-> 1, weight |-> 1, matches |-> FALSE],
     [size |-> 5, weight |-> Escaped, matches |-> TRUE],
     [size |-> 45, weight |-> 1, matches |-> TRUE]}

lineVars == <<entries, recent>>

ServicesInit ==
    /\ service \in Services
    /\ Init /\ RequestInit /\ TextInit /\ LinesInit
    /\ OutputToolInit /\ UpdateInit /\ SettingsInit
    /\ service # "requests" => heard = FALSE
    /\ service # "update" => list = <<>>
    /\ service # "settings" => legacy = Absent /\ file = Absent

ServicesNext ==
    /\ \/ /\ service = "delivery" /\ Next
          /\ UNCHANGED <<requestVars, text, lineVars, written, updateVars, settingsVars>>
       \/ /\ service = "requests" /\ RequestNext
          /\ UNCHANGED <<vars, text, lineVars, written, updateVars, settingsVars>>
       \/ /\ service = "text" /\ TextNext
          /\ UNCHANGED <<vars, requestVars, lineVars, written, updateVars, settingsVars>>
       \/ /\ service = "lines" /\ LinesNext
          /\ UNCHANGED <<vars, requestVars, text, written, updateVars, settingsVars>>
       \/ /\ service = "output" /\ OutputToolNext
          /\ UNCHANGED <<vars, requestVars, text, lineVars, updateVars, settingsVars>>
       \/ /\ service = "update" /\ UpdateNext
          /\ UNCHANGED <<vars, requestVars, text, lineVars, written, settingsVars>>
       \/ /\ service = "settings" /\ SettingsNext
          /\ UNCHANGED <<vars, requestVars, text, lineVars, written, updateVars>>
    /\ UNCHANGED service

ServicesSpec ==
    /\ ServicesInit
    /\ [][ServicesNext]_<<service, vars, requestVars, text, lineVars, written, updateVars,
                          settingsVars>>
    /\ service = "delivery" => Fairness
    /\ service = "requests" => RequestFairness
=================================================================================
