--------------------------------- MODULE MCLog ---------------------------------
(* Instances for TLC of the log of one process, from the output to the views:
   of its four parts one moves in a behaviour, which part says. *)
EXTENDS ProcessOutput, ProcessLogStore, LogTail, LogSubscriptions

VARIABLE part

(* On stdout parts of lines, line ends alone and together, several lines at
   once; on stderr a line at a time. *)
SomeChunks ==
    [stdout |-> {<<"b">>, <<Return>>, <<Newline>>, <<Newline, Newline, "b">>},
     stderr |-> {<<"b", Newline>>}]

SomeFiles == <<"stdout", "combined">>

SomeCounts == 0 .. 4

(* Files of up to six bytes, and combined logs of up to three entries, some of
   which begin like a tag or end with a return. *)
SomeCharacters == {<<"b">>, <<Newline>>, <<Return>>, <<Lead, Trail>>, <<ErrTag>>}

SomeLines ==
    [type : {"stdout", "stderr"},
     text : {<<>>, <<"b">>, <<ErrTag>>, <<Return>>, <<"b", OutTag>>}]

-----------------------------------------------------------------------------
LogInit ==
    /\ part \in {"output", "store", "tail", "views"}
    /\ Init /\ StoreInit /\ SubscriptionInit /\ TailInit
    /\ part # "store" => present = {}

LogNext ==
    /\ \/ part = "output" /\ Next /\ UNCHANGED <<storeVars, tailVars, subscriptionVars>>
       \/ part = "store" /\ StoreNext /\ UNCHANGED <<vars, tailVars, subscriptionVars>>
       \/ part = "tail" /\ TailNext /\ UNCHANGED <<vars, storeVars, subscriptionVars>>
       \/ part = "views" /\ SubscriptionNext /\ UNCHANGED <<vars, storeVars, tailVars>>
    /\ UNCHANGED part

LogSpec ==
    /\ LogInit /\ [][LogNext]_<<vars, storeVars, tailVars, subscriptionVars, part>>
    /\ WF_vars(TimerFires) /\ WF_vars(Tock)

LogTypeOK == OutputTypeOK /\ StoreTypeOK
================================================================================
