------------------------------- MODULE MCSession -------------------------------
(* Instances for TLC of the parts of a session that work beside the manager:
   the watches of one process, and the views, each by itself with the manager
   or with the log of one process. One moves in a behaviour, part says which. *)
EXTENDS LogWatches, DockController, Overview, OverviewPreview, LogOverlay, LogFileViewer

CONSTANTS
    Parts  \* those that a run looks at

VARIABLES
    part

(* The order of names is not that of starts. *)
SomeRanks == <<2, 3, 1>>

(* Processes start one after the other, two for the dock and the rest for the
   lists; of the ways to end a success is to the views what a crash is; only
   the first is pinned from the overview, which never reads what is pinned but
   to pin it no more. *)
InOrder ==
    \A p \in Procs :
        /\ outcome'[p] # "success"
        /\ p > 1 /\ status'[p] # "absent" => status'[p - 1] # "absent"
        /\ p > 2 /\ part = "dock" => status'[p] = "absent"
        /\ p > 1 /\ part = "overview" => overview'.pinned # p

-----------------------------------------------------------------------------
SessionInit ==
    /\ part \in Parts
    /\ PromiseInit /\ dock = IF part = "dock" THEN HardRefreshed(Fresh) ELSE DockDisposed(Fresh)
    /\ WatchInit /\ OverviewInit /\ OverlayInit /\ PreviewInit /\ ViewerInit
    /\ part # "preview" => logged = 0
    /\ part # "viewer" => arrived = 0

SessionNext ==
    /\ \/ /\ part = "watches" /\ WatchNext
          /\ UNCHANGED <<managerVars, dock, overview, overlay, previewVars, viewerVars>>
       \/ /\ part = "dock" /\ DockNext /\ InOrder
          /\ UNCHANGED <<watchVars, overview, overlay, previewVars, viewerVars>>
       \/ /\ part = "overview" /\ OverviewNext /\ InOrder
          /\ UNCHANGED <<watchVars, dock, overlay, previewVars, viewerVars>>
       \/ /\ part = "overlay" /\ OverlayNext /\ InOrder
          /\ UNCHANGED <<watchVars, dock, overview, previewVars, viewerVars>>
       \/ /\ part = "preview" /\ PreviewNext
          /\ UNCHANGED <<watchVars, managerVars, dock, overview, overlay, viewerVars>>
       \/ /\ part = "viewer" /\ ViewerNext
          /\ UNCHANGED <<watchVars, managerVars, dock, overview, overlay, previewVars>>
    /\ UNCHANGED part

sessionVars ==
    <<watchVars, managerVars, dock, overview, overlay, previewVars, viewerVars, part>>

SessionSpec == SessionInit /\ [][SessionNext]_sessionVars
================================================================================
