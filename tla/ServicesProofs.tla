------------------------------ MODULE ServicesProofs ------------------------------
(***************************************************************************)
(* Parts that share no state with the others, for all their constants.      *)
(*                                                                         *)
(* The client of the overview never gives up on a stop that a handler is   *)
(* waiting out, whatever timeout it was given and however late the timers  *)
(* are: its own timer is due after the handler's, and the answer comes in  *)
(* a microtask that no timer overtakes.                                    *)
(*                                                                         *)
(* However many instances of Pi start in one directory, and whenever they  *)
(* crash, the settings there are imported once and then only migrated or   *)
(* chosen: a copy is filled by the one instance that created the file.     *)
(*                                                                         *)
(* Whatever the process and its registration have come to, and whatever    *)
(* was refused, what process update tells the agent is what it did.        *)
(***************************************************************************)
EXTENDS KillRequest, SettingsImport, UpdateTool, PlacesProofs, TLAPS

Results == {"not_found", "ok", "error", "timeout"}

(* Where a request stands: unheard, with a timer until it gives up; waited out
   by a handler that wakes before the client does; answered, the reply in a
   microtask; or done, with no timer left. *)
Standing(q) ==
    \/ q = Idle
    \/ /\ q.pc = "unheard" /\ q.wakesAt = NotYet /\ q.answer \in {"none", "unanswered"}
    \/ /\ q.pc = "waiting" /\ q.answer = "none"
       /\ q.wakesAt \in Nat /\ q.timer \in Nat /\ q.wakesAt < q.timer
    \/ /\ q.pc = "answered" /\ q.answer = "none" /\ q.wakesAt = NotYet
       /\ q.result \in Results
    \/ /\ q.pc = "done" /\ q.timer = NotYet /\ q.wakesAt = NotYet
       /\ q.result \in Results /\ q.answer = q.result

Request ==
    [pc : {"idle", "unheard", "waiting", "answered", "done"},
     wakesAt : Nat \cup {NotYet}, timer : Nat \cup {NotYet},
     result : Results \cup {"none"}, answer : Results \cup {"none", "unanswered"}]

RInv ==
    /\ requests \in [Requests -> Request] /\ clock \in Nat
    /\ \A r \in Requests : Standing(requests[r])

(* A step of one request needs looking at that request only. *)
LEMMA OneRequest ==
    ASSUME RInv, NEW r \in Requests, NEW q \in Request, Standing(q), Becomes(r, q),
           clock' \in Nat
    PROVE  RInv'
<1>1. requests'[r] = q /\ \A s \in Requests \ {r} : requests'[s] = requests[s]
  BY DEF RInv, Becomes
<1>2. requests' \in [Requests -> Request]
  BY DEF RInv, Becomes
<1> QED
  BY <1>1, <1>2 DEF RInv

(* The handler of a kill wakes before the client gives up on it. *)
LEMMA KillInv ==
    ASSUME RInv, NEW r \in Requests, NEW signal, NEW timeout \in Timeouts,
           requestKill(r, signal, timeout)
    PROVE  RInv'
<1> DEFINE due == clock + (timeout + Headroom)
           asked == [Idle EXCEPT !.pc = "unheard", !.timer = due]
           wake == clock + IF signal = "SIGKILL" THEN Grace ELSE timeout
<1>1. clock \in Nat /\ timeout \in Nat /\ due \in Nat /\ wake \in Nat /\ wake < due
  BY RequestAssumption DEF RInv
<1>2. clock' \in Nat
  BY <1>1 DEF requestKill
<1>3. \/ Becomes(r, asked)
      \/ \E result \in {"not_found", "ok", "error"} :
            Becomes(r, [asked EXCEPT !.pc = "answered", !.result = result])
      \/ Becomes(r, [asked EXCEPT !.pc = "waiting", !.wakesAt = wake])
  BY DEF requestKill, GivesUpAt, Patience
<1> HIDE DEF due, wake
<1>4. asked \in Request /\ Standing(asked)
  BY <1>1 DEF Idle, Request, Results, NotYet, Standing
<1>5. ASSUME NEW result \in {"not_found", "ok", "error"}
      PROVE  /\ [asked EXCEPT !.pc = "answered", !.result = result] \in Request
             /\ Standing([asked EXCEPT !.pc = "answered", !.result = result])
  BY <1>1, <1>5 DEF Idle, Request, Results, NotYet, Standing
<1>6. /\ [asked EXCEPT !.pc = "waiting", !.wakesAt = wake] \in Request
      /\ Standing([asked EXCEPT !.pc = "waiting", !.wakesAt = wake])
  BY <1>1 DEF Idle, Request, Results, NotYet, Standing
<1> QED
  BY <1>2, <1>3, <1>4, <1>5, <1>6, OneRequest

(* A pin is answered at once, or by nobody. *)
LEMMA PinInv ==
    ASSUME RInv, NEW r \in Requests, requestPin(r)
    PROVE  RInv'
<1> DEFINE done == [Idle EXCEPT !.pc = "done", !.result = "ok", !.answer = "ok"]
           unheard == [Idle EXCEPT !.pc = "unheard", !.timer = clock + PinTimeout]
<1>1. clock \in Nat /\ clock + PinTimeout \in Nat /\ clock' \in Nat
  BY RequestAssumption DEF RInv, requestPin
<1>2. Becomes(r, done) \/ Becomes(r, unheard)
  BY DEF requestPin, GivesUpAt
<1>3. done \in Request /\ Standing(done)
  BY DEF Idle, Request, Results, NotYet, Standing
<1>4. unheard \in Request /\ Standing(unheard)
  BY <1>1 DEF Idle, Request, Results, NotYet, Standing
<1> QED
  BY <1>1, <1>2, <1>3, <1>4, OneRequest

(* Who wakes has an answer to give. *)
LEMMA WakesInv ==
    ASSUME RInv, NEW r \in Requests, Wakes(r)
    PROVE  RInv'
<1>1. PICK result \in {"ok", "timeout"} :
          Becomes(r, [requests[r] EXCEPT !.pc = "answered", !.wakesAt = NotYet,
                                         !.result = result])
  BY DEF Wakes
<1> DEFINE q == [requests[r] EXCEPT !.pc = "answered", !.wakesAt = NotYet,
                                    !.result = result]
<1>2. requests[r] \in Request /\ requests[r].pc = "waiting" /\ clock' \in Nat
      /\ Standing(requests[r])
  BY DEF RInv, Wakes
<1>3. requests[r].answer = "none"
  BY <1>2 DEF Standing, Idle
<1>4. q \in Request
  BY <1>2 DEF Request, Results
<1>5. q.pc = "answered" /\ q.wakesAt = NotYet /\ q.result = result /\ q.answer = "none"
  BY <1>2, <1>3 DEF Request
<1>6. Standing(q)
  BY <1>5 DEF Standing, Results
<1> QED
  BY <1>1, <1>2, <1>4, <1>6, OneRequest

(* The reply of a request nobody answered before. *)
LEMMA RepliesInv ==
    ASSUME RInv, NEW r \in Requests, Replies(r)
    PROVE  RInv'
<1> DEFINE q == [requests[r] EXCEPT !.pc = "done", !.timer = NotYet,
                                    !.answer = requests[r].result]
<1>1. requests[r] \in Request /\ requests[r].pc = "answered" /\ clock' \in Nat
      /\ Standing(requests[r])
  BY DEF RInv, Replies
<1>2. /\ requests[r].answer = "none" /\ requests[r].wakesAt = NotYet
      /\ requests[r].result \in Results
  BY <1>1 DEF Standing, Idle
<1>3. Becomes(r, q)
  BY <1>2 DEF Replies, Settled
<1>4. q \in Request
  BY <1>1, <1>2 DEF Request
<1>5. /\ q.pc = "done" /\ q.timer = NotYet /\ q.wakesAt = NotYet
      /\ q.result = requests[r].result /\ q.answer = requests[r].result
  BY <1>1, <1>2 DEF Request
<1>6. Standing(q)
  BY <1>2, <1>5 DEF Standing
<1> QED
  BY <1>1, <1>3, <1>4, <1>6, OneRequest

(* Only a request that nobody heard has a timer that can fire: one that is
   waited for is overtaken by the handler's, an answered one by its reply. *)
LEMMA GivesUpInv ==
    ASSUME RInv, NEW r \in Requests, GivesUp(r)
    PROVE  RInv'
<1>1. /\ requests[r] \in Request /\ Standing(requests[r]) /\ clock' \in Nat
      /\ requests[r].timer # NotYet /\ requests[r].pc # "answered"
      /\ \A other \in Due : other # NotYet => requests[r].timer <= other
  BY DEF RInv, GivesUp, Fires
<1>2. requests[r].wakesAt \in Due
  BY DEF Due
<1>3. requests[r].pc = "unheard"
  BY <1>1, <1>2 DEF Standing, Idle, NotYet
<1>4. requests[r].wakesAt = NotYet /\ requests[r].answer \in {"none", "unanswered"}
  BY <1>1, <1>3 DEF Standing, Idle
<1> DEFINE q == [requests[r] EXCEPT !.timer = NotYet, !.answer = "unanswered"]
<1>5. Becomes(r, q)
  BY <1>4 DEF GivesUp, Settled
<1>6. q \in Request
  BY <1>1 DEF Request
<1>7. q.pc = "unheard" /\ q.wakesAt = NotYet /\ q.answer = "unanswered"
  BY <1>1, <1>3, <1>4 DEF Request
<1>8. Standing(q)
  BY <1>7 DEF Standing
<1> QED
  BY <1>1, <1>5, <1>6, <1>8, OneRequest

(* Every step. *)
LEMMA RequestStep == RInv /\ [RequestNext]_requestVars => RInv'
<1> SUFFICES ASSUME RInv, [RequestNext]_requestVars PROVE RInv'
  OBVIOUS
<1>1. CASE UNCHANGED <<requests, clock>>
  BY <1>1 DEF RInv
<1>2. CASE Passes
  BY <1>2 DEF Passes, RInv
<1>3. CASE Unheard \/ UNCHANGED requestVars
  BY <1>1, <1>3 DEF Unheard, requestVars
<1> QED
  BY <1>2, <1>3, KillInv, PinInv, WakesInv, RepliesInv, GivesUpInv DEF RequestNext

(* The standing of every request, for any number of them and any timeouts. *)
THEOREM RequestInvariance == RequestSpec => []RInv
<1>1. RequestInit => RInv
  BY DEF RequestInit, RInv, Standing, Idle, Request, Results, NotYet
<1>2. RInv /\ [RequestNext]_requestVars => RInv'
  BY RequestStep
<1> QED
  BY <1>1, <1>2, PTL DEF RequestSpec

(* A request that a handler heard gets the handler's answer. *)
THEOREM HandlerAnswers == RequestSpec => []HandlerIsWaitedFor
<1>1. RInv => HandlerIsWaitedFor
  <2> SUFFICES ASSUME RInv, NEW r \in Requests, Settled(r)
               PROVE  requests[r].answer = IF requests[r].pc = "unheard"
                                           THEN "unanswered" ELSE requests[r].result
    BY DEF HandlerIsWaitedFor
  <2>1. Standing(requests[r]) /\ requests[r].answer # "none"
    BY DEF RInv, Settled
  <2> QED
    BY <2>1 DEF Standing, Idle, Results
<1> QED
  BY <1>1, RequestInvariance, PTL

-----------------------------------------------------------------------------
(* Settings that can be loaded. Those of 0.9.4 have nothing newer: its
   migration would drop it. *)
Configs ==
    {config \in [is : {"config"}, version : {Unstamped, V0100, Current},
                 dock : {"unset", "hidden", "collapsed", "closed"},
                 shared : {"unset", "legacy", "chosen"},
                 newer : BOOLEAN, ended : BOOLEAN] :
        config.version = Unstamped => config.newer = FALSE}

Ups == [at : {"start", "read", "copy", "fill", "load", "ready"}, loaded : Configs,
        says : {"nothing", "invalid", "imported"}]

SettingsTyped ==
    /\ legacy \in {Absent, Invalid} \cup LegacyConfigs
    /\ file \in {Absent, Half} \cup Configs
    /\ pi \in [Instances -> Ups]
    /\ \A i \in Instances : pi[i].loaded.version = Current

(* What an instance has seen of the files: one that copies was told that its
   own copy is the first, and there is one such at most. *)
Seen(i) ==
    /\ pi[i].at = "read" => legacy # Absent
    /\ pi[i].at \in {"copy", "fill"} => legacy \in LegacyConfigs
    /\ pi[i].at = "fill" => file = Half
    /\ pi[i].says = "imported" => file \in Configs
    /\ pi[i].at = "load" /\ pi[i].says = "nothing" => legacy = Absent \/ file # Absent

SettingsInv ==
    /\ SettingsTyped
    /\ \A i \in Instances : Seen(i)
    /\ \A i, j \in Instances : pi[i].at = "fill" /\ pi[j].at = "fill" => i = j

(* A file is one thing or another. *)
LEMMA Kinds ==
    /\ \A config \in Configs : /\ config.is = "config"
                              /\ config \notin {Absent, Invalid, Half}
    /\ Absent.is # "config" /\ Half.is # "config" /\ Invalid.is # "config"
    /\ Absent # Half /\ Absent # Invalid /\ Invalid # Half
    /\ LegacyConfigs \subseteq Configs /\ Defaults \in Configs
    /\ Defaults.version = Current
<1>1. /\ Absent.is = "absent" /\ Half.is = "half" /\ Invalid.is = "invalid"
  BY DEF Absent, Half, Invalid
<1>2. \A config \in Configs : config.is = "config"
  BY DEF Configs
<1>3. ASSUME NEW version \in {Unstamped, V0100, Current},
             NEW dock \in {"unset", "hidden", "collapsed", "closed"},
             NEW shared \in {"unset", "legacy", "chosen"}
      PROVE  /\ Config(version, dock, shared, FALSE, TRUE) \in Configs
             /\ Config(version, dock, shared, FALSE, TRUE).version = version
  <2> DEFINE config == Config(version, dock, shared, FALSE, TRUE)
  <2>1. config \in [is : {"config"}, version : {Unstamped, V0100, Current},
                    dock : {"unset", "hidden", "collapsed", "closed"},
                    shared : {"unset", "legacy", "chosen"},
                    newer : BOOLEAN, ended : BOOLEAN]
    BY Zenon DEF Config
  <2>2. config.newer = FALSE
    BY Zenon DEF Config
  <2>3. config.version = version
    BY Zenon DEF Config
  <2> HIDE DEF config
  <2>4. config \in Configs
    BY <2>1, <2>2 DEF Configs
  <2> QED
    BY <2>3, <2>4 DEF config
<1>4. ASSUME NEW version \in {Unstamped, V0100, Current},
             NEW dock \in {"unset", "hidden", "collapsed", "closed"},
             NEW shared \in {"unset", "legacy", "chosen"}
      PROVE  /\ Config(version, dock, shared, FALSE, FALSE) \in Configs
             /\ Config(version, dock, shared, FALSE, FALSE).version = version
  <2> DEFINE config == Config(version, dock, shared, FALSE, FALSE)
  <2>1. config \in [is : {"config"}, version : {Unstamped, V0100, Current},
                    dock : {"unset", "hidden", "collapsed", "closed"},
                    shared : {"unset", "legacy", "chosen"},
                    newer : BOOLEAN, ended : BOOLEAN]
    BY Zenon DEF Config
  <2>2. config.newer = FALSE
    BY Zenon DEF Config
  <2>3. config.version = version
    BY Zenon DEF Config
  <2> HIDE DEF config
  <2>4. config \in Configs
    BY <2>1, <2>2 DEF Configs
  <2> QED
    BY <2>3, <2>4 DEF config
<1>5. LegacyConfigs \subseteq Configs
  <2> SUFFICES ASSUME NEW config \in LegacyConfigs PROVE config \in Configs
    OBVIOUS
  <2>1. PICK dock \in {"unset", "hidden", "collapsed"}, shared \in {"unset", "legacy"} :
            config = Config(Unstamped, dock, shared, FALSE, TRUE)
    BY DEF LegacyConfigs, Config
  <2>2. /\ dock \in {"unset", "hidden", "collapsed", "closed"}
        /\ shared \in {"unset", "legacy", "chosen"}
        /\ Unstamped \in {Unstamped, V0100, Current}
    OBVIOUS
  <2>3. Config(Unstamped, dock, shared, FALSE, TRUE) \in Configs
    BY <1>3, <2>2, Zenon
  <2> QED
    BY <2>1, <2>3, Zenon
<1>6. Defaults \in Configs /\ Defaults.version = Current
  BY <1>4 DEF Defaults
<1> QED
  BY <1>1, <1>2, <1>5, <1>6

(* A migration says the same in the current schema. *)
LEMMA MigratedIsSame ==
    ASSUME NEW config \in Configs
    PROVE  /\ Migrated(config) \in Configs /\ Migrated(config).version = Current
           /\ SameSettings(Migrated(config), config)
<1>1. CASE config.version = Current
  BY <1>1 DEF Migrated, SameSettings
<1>2. CASE config.version # Current /\ needsConfigV094ToV0100Migration(config)
  <2>1. config.version = Unstamped /\ config.dock = "hidden"
    BY <1>2 DEF Configs, needsConfigV094ToV0100Migration, Unstamped, V0100, Current
  <2> DEFINE new == Stamped(migrateConfigV094ToV0100(config))
  <2>2. /\ new.is = "config" /\ new.version = Current /\ new.dock = "closed"
        /\ new.shared = config.shared /\ new.newer = FALSE /\ new.ended = FALSE
        /\ new \in Configs
    BY <2>1 DEF Configs, Stamped, migrateConfigV094ToV0100
  <2>3. config.newer = FALSE
    BY <2>1 DEF Configs
  <2>4. Migrated(config) = new
    BY <1>2 DEF Migrated
  <2> HIDE DEF new
  <2> QED
    BY <2>1, <2>2, <2>3, <2>4 DEF SameSettings
<1>3. CASE config.version # Current /\ ~needsConfigV094ToV0100Migration(config)
  <2> DEFINE new == Stamped(config)
  <2>1. /\ new.version = Current /\ new.dock = config.dock /\ new.shared = config.shared
        /\ new.newer = config.newer /\ new.ended = config.ended
        /\ new \in Configs
    BY DEF Configs, Stamped, Unstamped, V0100, Current
  <2>2. Migrated(config) = new
    BY <1>3 DEF Migrated
  <2> HIDE DEF new
  <2> QED
    BY <2>1, <2>2 DEF SameSettings
<1> QED
  BY <1>1, <1>2, <1>3

(* A step of one instance that leaves the files alone. *)
LEMMA OneInstance ==
    ASSUME SettingsInv, NEW i \in Instances, NEW up \in Ups, UNCHANGED <<legacy, file>>,
           pi' = [pi EXCEPT ![i] = up], up.loaded.version = Current, up.at # "fill",
           up.at = "read" => legacy # Absent,
           up.at = "copy" => legacy \in LegacyConfigs,
           up.says = "imported" => file \in Configs,
           up.at = "load" /\ up.says = "nothing" => legacy = Absent \/ file # Absent
    PROVE  SettingsInv'
<1>1. pi'[i] = up /\ \A j \in Instances \ {i} : pi'[j] = pi[j]
  BY DEF SettingsInv, SettingsTyped
<1>2. SettingsTyped'
  BY <1>1 DEF SettingsInv, SettingsTyped
<1>3. \A j \in Instances : Seen(j)'
  BY <1>1 DEF SettingsInv, Seen
<1>4. (\A j, k \in Instances : pi[j].at = "fill" /\ pi[k].at = "fill" => j = k)'
  BY <1>1 DEF SettingsInv
<1> QED
  BY <1>2, <1>3, <1>4 DEF SettingsInv

(* How an instance looks when it moves, when it moves with a message, and when
   it has loaded something. *)
LEMMA Moved ==
    ASSUME SettingsTyped, NEW i \in Instances,
           NEW at \in {"start", "read", "copy", "fill", "load", "ready"}
    PROVE  LET up == [pi[i] EXCEPT !.at = at]
           IN  /\ up \in Ups /\ up.at = at
               /\ up.says = pi[i].says /\ up.loaded = pi[i].loaded
               /\ [pi EXCEPT ![i].at = at] = [pi EXCEPT ![i] = up]
<1>1. pi \in [Instances -> Ups] /\ pi[i] \in Ups
  BY DEF SettingsTyped
<1> QED
  BY <1>1 DEF Ups

LEMMA Finished ==
    ASSUME SettingsTyped, NEW i \in Instances, NEW message \in {"nothing", "invalid", "imported"},
           Finishes(i, message)
    PROVE  LET up == [pi[i] EXCEPT !.at = "load", !.says = message]
           IN  /\ up \in Ups /\ up.at = "load"
               /\ up.says = message /\ up.loaded = pi[i].loaded
               /\ pi' = [pi EXCEPT ![i] = up]
<1>1. pi \in [Instances -> Ups] /\ pi[i] \in Ups
  BY DEF SettingsTyped
<1> QED
  BY <1>1 DEF Ups, Finishes

LEMMA Loaded ==
    ASSUME SettingsTyped, NEW i \in Instances, NEW config \in Configs
    PROVE  LET up == [pi[i] EXCEPT !.at = "ready", !.loaded = config]
           IN  /\ up \in Ups /\ up.at = "ready"
               /\ up.says = pi[i].says /\ up.loaded = config
               /\ [pi EXCEPT ![i].at = "ready", ![i].loaded = config] = [pi EXCEPT ![i] = up]
<1>1. pi \in [Instances -> Ups] /\ pi[i] \in Ups
  BY DEF SettingsTyped
<1> QED
  BY <1>1 DEF Ups

(* Every step keeps what the instances have seen. *)
LEMMA SettingsStep ==
    ASSUME SettingsInv, [SettingsNext]_settingsVars
    PROVE  SettingsInv'
<1>1. SettingsTyped
  BY DEF SettingsInv
<1>2. ASSUME NEW i \in Instances PROVE pi[i] \in Ups /\ pi[i].loaded.version = Current /\ Seen(i)
  BY DEF SettingsInv, SettingsTyped
<1>3. ASSUME NEW i \in Instances, NEW message \in {"nothing", "invalid"},
             Finishes(i, message), UNCHANGED <<legacy, file>>,
             message = "nothing" => legacy = Absent \/ file # Absent
      PROVE  SettingsInv'
  <2> DEFINE up == [pi[i] EXCEPT !.at = "load", !.says = message]
  <2>1. /\ up \in Ups /\ up.at = "load" /\ up.says = message
        /\ up.loaded = pi[i].loaded /\ pi' = [pi EXCEPT ![i] = up]
    <3>1. message \in {"nothing", "invalid", "imported"}
      BY <1>3
    <3> QED
      BY <1>1, <1>3, <3>1, Finished
  <2> HIDE DEF up
  <2> QED
    BY <1>2, <1>3, <2>1, OneInstance
<1>4. ASSUME NEW i \in Instances, NEW at \in {"read", "copy"},
             pi' = [pi EXCEPT ![i].at = at], UNCHANGED <<legacy, file>>,
             at = "read" => legacy # Absent,
             at = "copy" => legacy \in LegacyConfigs
      PROVE  SettingsInv'
  <2> DEFINE up == [pi[i] EXCEPT !.at = at]
  <2>1. /\ up \in Ups /\ up.at = at /\ up.says = pi[i].says
        /\ up.loaded = pi[i].loaded /\ pi' = [pi EXCEPT ![i] = up]
    <3>1. at \in {"start", "read", "copy", "fill", "load", "ready"}
      BY <1>4
    <3> QED
      BY <1>1, <1>4, <3>1, Moved
  <2> HIDE DEF up
  <2>2. up.says = "imported" => file \in Configs
    BY <1>2, <2>1 DEF Seen
  <2> QED
    BY <1>2, <1>4, <2>1, <2>2, OneInstance
<1>5. ASSUME NEW i \in Instances, Looks(i) PROVE SettingsInv'
  <2>1. CASE legacy = Absent \/ file # Absent
    BY <1>3, <1>5, <2>1 DEF Looks
  <2>2. CASE legacy # Absent /\ file = Absent
    BY <1>4, <1>5, <2>2 DEF Looks
  <2> QED
    BY <2>1, <2>2
<1>6. ASSUME NEW i \in Instances, Validates(i) PROVE SettingsInv'
  <2>1. CASE legacy = Invalid
    BY <1>3, <1>6, <2>1 DEF Validates
  <2>2. CASE legacy # Invalid
    <3>1. legacy \in LegacyConfigs
      BY <1>1, <1>2, <1>6, <2>2 DEF Validates, Seen, SettingsTyped
    <3> QED
      BY <1>4, <1>6, <2>2, <3>1 DEF Validates
  <2> QED
    BY <2>1, <2>2
<1>7. ASSUME NEW i \in Instances, Creates(i) PROVE SettingsInv'
  <2>1. CASE file # Absent
    BY <1>3, <1>7, <2>1 DEF Creates, MayCreate
  <2>2. CASE file = Absent
    <3> DEFINE up == [pi[i] EXCEPT !.at = "fill"]
    <3>1. /\ up \in Ups /\ up.at = "fill" /\ up.says = pi[i].says
          /\ up.loaded = pi[i].loaded /\ pi' = [pi EXCEPT ![i] = up]
          /\ file' = Half /\ legacy' = legacy /\ legacy \in LegacyConfigs
      BY <1>1, <1>2, <1>7, <2>2, Moved DEF Creates, MayCreate, Seen
    <3> HIDE DEF up
    <3>2. \A j \in Instances : pi[j].at # "fill" /\ pi[j].says # "imported"
      BY <1>2, <2>2, Kinds DEF Seen
    <3>3. pi'[i] = up /\ \A j \in Instances \ {i} : pi'[j] = pi[j]
      BY <1>1, <3>1 DEF SettingsTyped
    <3>4. SettingsTyped'
      BY <1>1, <1>2, <3>1, <3>3 DEF SettingsTyped
    <3>5. \A j \in Instances : Seen(j)'
      BY <1>2, <3>1, <3>2, <3>3, Kinds DEF Seen
    <3>6. (\A j, k \in Instances : pi[j].at = "fill" /\ pi[k].at = "fill" => j = k)'
      BY <3>2, <3>3
    <3> QED
      BY <3>4, <3>5, <3>6 DEF SettingsInv
  <2> QED
    BY <2>1, <2>2
<1>8. ASSUME NEW i \in Instances, Fills(i) PROVE SettingsInv'
  <2> DEFINE up == [pi[i] EXCEPT !.at = "load", !.says = "imported"]
  <2>1. /\ up \in Ups /\ up.at = "load" /\ up.says = "imported"
        /\ up.loaded = pi[i].loaded /\ pi' = [pi EXCEPT ![i] = up]
        /\ file' = legacy /\ legacy' = legacy /\ legacy \in LegacyConfigs
    BY <1>1, <1>2, <1>8, Finished DEF Fills, Seen
  <2> HIDE DEF up
  <2>2. \A j \in Instances \ {i} : pi[j].at # "fill"
    BY <1>8 DEF Fills, SettingsInv
  <2>3. pi'[i] = up /\ \A j \in Instances \ {i} : pi'[j] = pi[j]
    BY <1>1, <2>1 DEF SettingsTyped
  <2>4. file' \in Configs
    BY <2>1, Kinds
  <2>5. SettingsTyped'
    BY <1>1, <1>2, <2>1, <2>3, <2>4 DEF SettingsTyped
  <2>6. \A j \in Instances : Seen(j)'
    BY <1>2, <2>1, <2>2, <2>3, <2>4, Kinds DEF Seen
  <2>7. (\A j, k \in Instances : pi[j].at = "fill" /\ pi[k].at = "fill" => j = k)'
    BY <2>1, <2>2, <2>3
  <2> QED
    BY <2>5, <2>6, <2>7 DEF SettingsInv
<1>9. ASSUME NEW i \in Instances, Loads(i) PROVE SettingsInv'
  <2> DEFINE settings == IF file.is = "config" THEN Migrated(file) ELSE Defaults
             up == [pi[i] EXCEPT !.at = "ready", !.loaded = settings]
  <2>1. file \in Configs <=> file.is = "config"
    BY <1>1, Kinds DEF SettingsTyped
  <2>2. settings \in Configs /\ settings.version = Current
    BY <2>1, MigratedIsSame, Kinds
  <2>3. /\ file' = (IF file \in Configs THEN settings ELSE file) /\ legacy' = legacy
        /\ pi' = [pi EXCEPT ![i].at = "ready", ![i].loaded = settings]
    BY <1>9, <2>1 DEF Loads
  <2> HIDE DEF settings
  <2>4. /\ up \in Ups /\ up.at = "ready" /\ up.says = pi[i].says
        /\ up.loaded = settings /\ pi' = [pi EXCEPT ![i] = up]
    BY <1>1, <2>2, <2>3, Loaded
  <2> HIDE DEF up
  <2>5. pi'[i] = up /\ \A j \in Instances \ {i} : pi'[j] = pi[j]
    BY <1>1, <2>4 DEF SettingsTyped
  <2>6. /\ file' \in {Absent, Half} \cup Configs
        /\ file \in Configs => file' \in Configs
        /\ file \notin Configs => file' = file
    BY <1>1, <2>2, <2>3 DEF SettingsTyped
  <2>7. SettingsTyped'
    BY <1>1, <1>2, <2>2, <2>3, <2>4, <2>5, <2>6 DEF SettingsTyped
  <2>8. \A j \in Instances : Seen(j)'
    <3>1. Seen(i)'
      BY <1>2, <2>4, <2>5, <2>6 DEF Seen
    <3>2. ASSUME NEW j \in Instances \ {i} PROVE Seen(j)'
      <4>1. Seen(j) /\ pi'[j] = pi[j]
        BY <1>2, <2>5
      <4>2. file = Half => file' = Half
        BY <2>6, Kinds
      <4> QED
        BY <2>3, <2>6, <4>1, <4>2, Kinds DEF Seen
    <3> QED
      BY <3>1, <3>2
  <2>9. (\A j, k \in Instances : pi[j].at = "fill" /\ pi[k].at = "fill" => j = k)'
    BY <2>4, <2>5 DEF SettingsInv
  <2> QED
    BY <2>7, <2>8, <2>9 DEF SettingsInv
<1>10. ASSUME NEW i \in Instances, Saves(i) PROVE SettingsInv'
  <2>1. PICK newer \in {pi[i].loaded.newer, TRUE} :
            pi' = [pi EXCEPT ![i].loaded = [@ EXCEPT !.shared = "chosen", !.newer = newer]]
    BY <1>10 DEF Saves
  <2> DEFINE settings == [pi[i].loaded EXCEPT !.shared = "chosen", !.newer = newer]
             up == [pi[i] EXCEPT !.loaded = settings]
  <2>2. pi[i] \in Ups /\ pi[i].loaded \in Configs /\ pi[i].loaded.version = Current
    BY <1>2 DEF Ups
  <2>3. newer \in BOOLEAN
    BY <2>1, <2>2 DEF Configs
  <2>4. settings \in Configs /\ settings.version = Current
    <3>1. Current # Unstamped
      BY DEF Current, Unstamped
    <3>2. settings.version = Current
      BY <2>2 DEF Configs
    <3>3. settings \in [is : {"config"}, version : {Unstamped, V0100, Current},
                       dock : {"unset", "hidden", "collapsed", "closed"},
                       shared : {"unset", "legacy", "chosen"},
                       newer : BOOLEAN, ended : BOOLEAN]
      BY <2>2, <2>3, ZenonT(30) DEF Configs
    <3> QED
      BY <3>1, <3>2, <3>3 DEF Configs
  <2> HIDE DEF settings
  <2>5. /\ up \in Ups /\ up.at = pi[i].at /\ up.says = pi[i].says /\ up.loaded = settings
    BY <2>2, <2>4 DEF Ups
  <2>6. pi' = [pi EXCEPT ![i] = up]
    BY <1>1, <2>1 DEF settings, SettingsTyped, Ups
  <2> HIDE DEF up
  <2>7. pi'[i] = up /\ \A j \in Instances \ {i} : pi'[j] = pi[j]
    BY <1>1, <2>6 DEF SettingsTyped
  <2>8. /\ file' \in Configs /\ legacy' = legacy /\ pi[i].at = "ready"
        /\ \A j \in Instances : pi[j].at # "fill"
    BY <1>10, <2>4, <2>5, <2>7 DEF Saves
  <2>9. SettingsTyped'
    BY <1>1, <2>4, <2>5, <2>6, <2>7, <2>8 DEF SettingsTyped
  <2>10. \A j \in Instances : Seen(j)'
    BY <1>2, <2>5, <2>7, <2>8, Kinds DEF Seen
  <2>11. (\A j, k \in Instances : pi[j].at = "fill" /\ pi[k].at = "fill" => j = k)'
    BY <2>5, <2>7, <2>8
  <2> QED
    BY <2>9, <2>10, <2>11 DEF SettingsInv
<1>11. ASSUME NEW i \in Instances, Restarts(i) PROVE SettingsInv'
  <2> DEFINE up == [at |-> "start", loaded |-> Defaults, says |-> "nothing"]
  <2>1. /\ up \in Ups /\ up.at = "start" /\ up.says = "nothing"
        /\ up.loaded.version = Current
    BY Kinds DEF Ups
  <2>2. pi' = [pi EXCEPT ![i] = up] /\ UNCHANGED <<legacy, file>>
    BY <1>11 DEF Restarts
  <2> HIDE DEF up
  <2> QED
    BY <2>1, <2>2, OneInstance
<1>12. ASSUME LegacySaves PROVE SettingsInv'
  <2>1. /\ legacy \in LegacyConfigs /\ legacy' \in LegacyConfigs
        /\ legacy # Absent /\ legacy' # Absent /\ UNCHANGED <<file, pi>>
    BY <1>12, Kinds DEF LegacySaves
  <2>2. SettingsTyped'
    BY <1>1, <2>1 DEF SettingsTyped
  <2>3. \A j \in Instances : Seen(j)'
    BY <1>2, <2>1 DEF Seen
  <2> QED
    BY <2>1, <2>2, <2>3 DEF SettingsInv
<1>13. CASE UNCHANGED settingsVars
  BY <1>13 DEF settingsVars, SettingsInv, SettingsTyped, Seen
<1> QED
  BY <1>5, <1>6, <1>7, <1>8, <1>9, <1>10, <1>11, <1>12, <1>13 DEF SettingsNext

LEMMA SettingsBegin == SettingsInit => SettingsInv
<1> SUFFICES ASSUME SettingsInit PROVE SettingsInv
  OBVIOUS
<1> DEFINE up == [at |-> "start", loaded |-> Defaults, says |-> "nothing"]
<1>1. /\ up \in Ups /\ up.at = "start" /\ up.says = "nothing"
      /\ up.loaded.version = Current
  BY Kinds DEF Ups
<1>2. pi = [i \in Instances |-> up]
  BY DEF SettingsInit
<1> HIDE DEF up
<1>3. file \in {Absent, Half} \cup Configs
  <2>1. /\ Config(Unstamped, "hidden", "chosen", FALSE, TRUE) \in Configs
        /\ Config(V0100, "closed", "chosen", FALSE, FALSE) \in Configs
        /\ Config(V0100, "hidden", "chosen", TRUE, FALSE) \in Configs
    BY DEF Config, Configs, Unstamped, V0100, Current
  <2> QED
    BY <2>1 DEF SettingsInit
<1>4. SettingsTyped
  BY <1>1, <1>2, <1>3 DEF SettingsTyped, SettingsInit
<1>5. \A i \in Instances : Seen(i) /\ pi[i].at # "fill"
  BY <1>1, <1>2 DEF Seen
<1> QED
  BY <1>4, <1>5 DEF SettingsInv

(* What is known of the settings in every reachable state. *)
THEOREM SettingsInvariance == SettingsSpec => []SettingsInv
<1>1. SettingsInv /\ [SettingsNext]_settingsVars => SettingsInv'
  BY SettingsStep
<1> QED
  BY <1>1, SettingsBegin, PTL DEF SettingsSpec

(* Every step leaves the settings what they were, or what the user chose. *)
LEMMA FileStays ==
    ASSUME SettingsInv, SettingsNext, file.is = "config", file' # file
    PROVE  /\ file'.is = "config"
           /\ SameSettings(file', file) \/ \E i \in Instances : Saves(i)
<1>1. file \in Configs /\ file # Absent
  BY Kinds DEF SettingsInv, SettingsTyped
<1>2. ASSUME NEW i \in Instances, Fills(i) PROVE FALSE
  BY <1>1, <1>2, Kinds DEF Fills, SettingsInv, Seen
<1>3. ASSUME NEW i \in Instances, Loads(i) PROVE file'.is = "config" /\ SameSettings(file', file)
  <2>1. file' = Migrated(file)
    BY <1>3 DEF Loads
  <2> QED
    BY <1>1, <2>1, MigratedIsSame, Kinds
<1>4. ASSUME NEW i \in Instances, Saves(i) PROVE file'.is = "config"
  <2>1. file' = pi'[i].loaded /\ pi'[i] \in Ups
    BY <1>4, SettingsStep DEF Saves, SettingsInv, SettingsTyped
  <2> QED
    BY <2>1, Kinds DEF Ups
<1>5. ASSUME NEW i \in Instances, Creates(i) PROVE FALSE
  BY <1>1, <1>5 DEF Creates, MayCreate
<1>6. ASSUME NEW i \in Instances, Looks(i) \/ Validates(i) \/ Restarts(i) PROVE FALSE
  BY <1>6 DEF Looks, Validates, Restarts
<1>7. ~LegacySaves
  BY DEF LegacySaves
<1> QED
  BY <1>2, <1>3, <1>4, <1>5, <1>6, <1>7 DEF SettingsNext

(* Only a load makes an instance ready, with what is in the file. *)
LEMMA LoadsSame ==
    ASSUME SettingsInv, SettingsNext, NEW i \in Instances
    PROVE  LoadsTheSettings(i)
<1> SUFFICES ASSUME pi'[i].at = "ready", pi[i].at = "load"
             PROVE  IF file.is = "config" THEN SameSettings(pi'[i].loaded, file)
                    ELSE \/ pi[i].says = "invalid" \/ legacy \in {Absent, Invalid}
                         \/ pi[i].says = "nothing" /\ file = Half
  BY DEF LoadsTheSettings
<1>1. /\ pi \in [Instances -> Ups] /\ Seen(i) /\ pi[i] \in Ups
      /\ legacy \in {Absent, Invalid} \cup LegacyConfigs
      /\ file \in {Absent, Half} \cup Configs
  BY DEF SettingsInv, SettingsTyped
<1>2. CASE Loads(i)
  <2>1. CASE file.is = "config"
    <3>1. file \in Configs
      BY <1>1, <2>1, Kinds
    <3>2. pi' = [pi EXCEPT ![i].at = "ready", ![i].loaded = Migrated(file)]
      BY <1>2, <2>1 DEF Loads
    <3>3. pi'[i].loaded = Migrated(file)
      BY <1>1, <3>2 DEF Ups
    <3> QED
      BY <2>1, <3>1, <3>3, MigratedIsSame
  <2>2. CASE file.is # "config"
    <3>1. file \in {Absent, Half}
      BY <1>1, <2>2, Kinds
    <3>2. pi[i].says \in {"nothing", "invalid"}
      BY <1>1, <2>2, Kinds DEF Seen, Ups
    <3> QED
      BY <1>1, <2>2, <3>1, <3>2 DEF Seen
  <2> QED
    BY <2>1, <2>2
<1>3. CASE ~Loads(i)
  <2>1. ASSUME NEW j \in Instances, j # i, \/ Looks(j) \/ Validates(j) \/ Creates(j) \/ Fills(j)
                                           \/ Loads(j) \/ Saves(j) \/ Restarts(j)
        PROVE  pi'[i] = pi[i]
    BY <1>1, <2>1 DEF Looks, Validates, Creates, Fills, Loads, Saves, Restarts, Finishes
  <2>2. ~(Looks(i) \/ Validates(i) \/ Creates(i) \/ Fills(i) \/ Saves(i))
    BY DEF Looks, Validates, Creates, Fills, Saves
  <2>3. ~Restarts(i)
    BY <1>1 DEF Restarts
  <2>4. LegacySaves => pi' = pi
    BY DEF LegacySaves
  <2>5. pi'[i] = pi[i]
    BY <1>3, <2>1, <2>2, <2>3, <2>4 DEF SettingsNext
  <2> QED
    BY <2>5
<1> QED
  BY <1>2, <1>3

(* Once there is a settings file, nothing but the user's choice changes what it
   says, and an instance loads what the file says, unless there was nothing to
   load, it was told what was wrong, or a copy is not whole. *)
THEOREM SettingsKept == SettingsSpec => SettingsAreKept
<1>1. SettingsInv /\ [SettingsNext]_settingsVars =>
        [FileIsKept /\ \A i \in Instances : LoadsTheSettings(i)]_settingsVars
  BY FileStays, LoadsSame DEF FileIsKept
<1> QED
  BY <1>1, SettingsInvariance, PTL DEF SettingsSpec, SettingsAreKept
-----------------------------------------------------------------------------
(* The watches of a process and what the agent is told of an edit of them: the
   list in the registry has only watches with a pattern, so that it is never
   taken for that of a process without a registration. *)

Record == [state : {"running", "terminating", "exited"}, name : {"api", NewName}]

UInv ==
    /\ process \in Record
    /\ list = Unregistered \/ list \in Seq(Watches)

LEMMA WatchesAreGiven ==
    ASSUME NEW watches \in Seq(Watches)
    PROVE  watches # Unregistered
<1>1. \A w \in Watches : w.pattern # None
  BY DEF Watches, Watch, None
<1>2. SUFFICES ASSUME watches = Unregistered PROVE FALSE
  OBVIOUS
<1>3. Len(Unregistered) = 1 /\ Unregistered[1].pattern = None
  BY DEF Unregistered
<1>4. watches[1] \in Watches
  <2>1. Len(watches) = 1
    BY <1>2, <1>3
  <2> QED
    BY <2>1, ElementOfSeq
<1> QED
  BY <1>1, <1>2, <1>3, <1>4

LEMMA InitUpdate ==
    ASSUME UpdateInit
    PROVE  UInv
<1>1. PICK n \in 0 .. WatchLimit : list \in [1 .. n -> Watches]
  BY DEF UpdateInit, SeqOf
<1>2. n \in Nat
  BY UpdateToolAssumption
<1>3. list \in Seq(Watches)
  BY <1>1, <1>2
<1>4. process \in Record
  BY DEF UpdateInit, Record
<1> QED
  BY <1>3, <1>4 DEF UInv

(* The items of a call that is not refused are watches. *)
LEMMA ItemsAreWatches ==
    ASSUME NEW items \in SeqOf(Watches \cup {BadItem}, MaxItems), BadItem \notin ToSet(items)
    PROVE  items \in Seq(Watches)
<1>1. PICK n \in 0 .. MaxItems : items \in [1 .. n -> Watches \cup {BadItem}]
  BY DEF SeqOf
<1>2. n \in Nat
  BY UpdateToolAssumption
<1>3. \A i \in 1 .. n : items[i] # BadItem
  BY <1>1 DEF ToSet
<1>4. items \in [1 .. n -> Watches]
  <2>1. \A i \in 1 .. n : items[i] \in Watches
    BY <1>1, <1>3
  <2> QED
    BY <1>1, <2>1
<1> QED
  BY <1>2, <1>4

(* What is left of a list is a part of it, in its order. *)
LEMMA RemainingIs ==
    ASSUME NEW watches \in Seq(Watches), NEW specs
    PROVE  /\ Remaining(watches, specs) \in Seq(Watches)
           /\ \E kept \in SUBSET DOMAIN watches : Remaining(watches, specs) = Picked(watches, kept)
<1> DEFINE kept == {i \in DOMAIN watches : \A n \in DOMAIN specs : ~Meant(watches[i], i, specs[n])}
<1>1. kept \in SUBSET DOMAIN watches
  OBVIOUS
<1>2. Remaining(watches, specs) = Picked(watches, kept)
  BY DEF Remaining
<1> HIDE DEF kept
<1>3. Picked(watches, kept) \in Seq(Watches)
  BY <1>1, PickedIs
<1> QED
  BY <1>1, <1>2, <1>3

(* An edit that was made: the list is registered, and what is left of it and
   what is reported follow from the mode. *)
Edit(mode, items, edited) ==
    /\ edited \in Seq(Watches)
    /\ mode = "append" => edited = list \o Applied(mode, Before, edited)
    /\ mode = "replace" => edited = Applied(mode, Before, edited)
    /\ mode = "remove" => \E kept \in SUBSET DOMAIN list : edited = Picked(list, kept)

LEMMA Edits ==
    ASSUME UInv, NEW mode \in {"append", "replace", "remove", "clear"}, NEW items,
           mode \in {"append", "replace"} => items \in SeqOf(Watches \cup {BadItem}, MaxItems),
           applyWatchUpdate(list, mode, items).result = "edited"
    PROVE  /\ list # Unregistered
           /\ Edit(mode, items, applyWatchUpdate(list, mode, items).watches)
<1> DEFINE edit == applyWatchUpdate(list, mode, items)
           bad == mode # "clear" /\ (items = <<>> \/ BadItem \in ToSet(items))
           edited == CASE mode = "append"  -> list \o items
                       [] mode = "replace" -> items
                       [] mode = "remove"  -> Remaining(list, items)
                       [] mode = "clear"   -> <<>>
<1>1. edit = IF bad THEN [result |-> "threw"]
             ELSE IF list = Unregistered THEN [result |-> "null"]
             ELSE IF mode \in {"append", "replace"} /\ Len(edited) > WatchLimit
                  THEN [result |-> "threw"]
             ELSE [result |-> "edited", watches |-> edited]
  BY DEF applyWatchUpdate
<1>2. edit.result = "edited"
  OBVIOUS
<1> HIDE DEF edit, edited
<1>3. ~bad /\ list # Unregistered /\ edit = [result |-> "edited", watches |-> edited]
  BY <1>1, <1>2
<1>4. list \in Seq(Watches) /\ Before = list
  BY <1>3 DEF UInv, Before
<1>5. ASSUME mode = "append" PROVE Edit(mode, items, edited)
  <2>1. items \in Seq(Watches)
    BY <1>3, <1>5, ItemsAreWatches
  <2>2. edited = list \o items
    BY <1>5 DEF edited
  <2>3. edited \in Seq(Watches) /\ SubSeq(edited, Len(list) + 1, Len(edited)) = items
    BY <1>4, <2>1, <2>2
  <2>4. Applied(mode, Before, edited) = items
    BY <1>4, <1>5, <2>3 DEF Applied
  <2> QED
    BY <1>5, <2>2, <2>3, <2>4 DEF Edit
<1>6. ASSUME mode = "replace" PROVE Edit(mode, items, edited)
  <2>1. items \in Seq(Watches)
    BY <1>3, <1>6, ItemsAreWatches
  <2>2. edited = items
    BY <1>6 DEF edited
  <2> QED
    BY <1>6, <2>1, <2>2 DEF Edit, Applied
<1>7. ASSUME mode = "remove" PROVE Edit(mode, items, edited)
  <2>1. edited = Remaining(list, items)
    BY <1>7 DEF edited
  <2> QED
    BY <1>4, <1>7, <2>1, RemainingIs DEF Edit
<1>8. ASSUME mode = "clear" PROVE Edit(mode, items, edited)
  <2>1. edited = <<>>
    BY <1>8 DEF edited
  <2> QED
    BY <1>8, <2>1 DEF Edit
<1>9. edit.watches = edited
  BY <1>3
<1> QED
  BY <1>3, <1>5, <1>6, <1>7, <1>8, <1>9 DEF edit

(* A call: the record it leaves, and what it tells. *)
LEMMA Calls ==
    ASSUME UInv, NEW name \in {None, NewName, BlankName},
           NEW mode \in {None, "append", "replace", "remove", "clear"}, NEW items,
           mode \in {"append", "replace"} => items \in SeqOf(Watches \cup {BadItem}, MaxItems),
           executeUpdate(name, mode, items)
    PROVE  UInv' /\ ListIsReported /\ NameIsReported
<1> DEFINE edit == IF mode = None THEN [result |-> None]
                   ELSE applyWatchUpdate(list, mode, items)
           renamed == IF name = None THEN process ELSE [process EXCEPT !.name = name]
           R(ok, m, applied, its) == Report(ok, name, m, applied, its)
<1>1. \/ /\ Refused(name)
         /\ reply' = [Report(FALSE, None, None, <<>>, <<>>) EXCEPT !.before = <<>>]
         /\ UNCHANGED <<process, list>>
      \/ /\ ~Refused(name) /\ edit.result # "edited"
         /\ process' = renamed
         /\ reply' = IF edit.result = "threw" THEN Threw
                     ELSE Report(edit.result = None, name, mode, <<>>, Before)
         /\ UNCHANGED list
      \/ /\ ~Refused(name) /\ edit.result = "edited"
         /\ process' = renamed /\ list' = edit.watches
         /\ reply' = Report(TRUE, name, mode, Applied(mode, Before, edit.watches), edit.watches)
  BY Zenon DEF executeUpdate
<1>2. edit.result = "edited" =>
         mode # None /\ list # Unregistered /\ Edit(mode, items, edit.watches)
  <2>1. CASE mode = None
    BY <2>1 DEF None
  <2>2. CASE mode # None
    BY <2>2, Edits
  <2> QED
    BY <2>1, <2>2
<1>3. edit.result = None => mode = None
  <2>1. mode # None => edit.result \in {"threw", "null", "edited"}
    BY DEF applyWatchUpdate
  <2> QED
    BY <2>1 DEF None
<1> HIDE DEF edit
<1>4. /\ process \in Record
      /\ ~Refused(name) => renamed \in Record
      /\ ~Refused(name) /\ renamed.name # process.name =>
            name = NewName /\ name # process.name
  <2>1. process \in Record /\ (~Refused(name) => name \in {None, NewName})
    BY DEF UInv, Refused
  <2> QED
    BY <2>1 DEF Record
<1>5. CASE Refused(name) /\ reply'.outcome = "failed" /\ UNCHANGED <<process, list>>
  BY <1>5 DEF UInv, ListIsReported, NameIsReported
<1>6. ASSUME ~Refused(name), edit.result # "edited", process' = renamed, UNCHANGED list,
             reply' = IF edit.result = "threw" THEN Threw
                      ELSE Report(edit.result = None, name, mode, <<>>, Before)
      PROVE  UInv' /\ ListIsReported /\ NameIsReported
  <2>1. NameIsReported
    BY <1>4, <1>6 DEF NameIsReported, Report, Refused
  <2>2. UInv'
    BY <1>4, <1>6 DEF UInv
  <2>3. ListIsReported
    <3>1. CASE edit.result = None
      <4>1. reply' = Report(TRUE, name, None, <<>>, Before)
        BY <1>3, <1>6, <3>1 DEF None
      <4>2. /\ reply'.items = Before /\ reply'.mode = None
        BY <4>1 DEF Report
      <4>3. mode = None /\ None \notin {"append", "replace", "remove"}
        BY <1>3, <3>1 DEF None
      <4> QED
        BY <1>6, <4>2, <4>3 DEF ListIsReported, Before
    <3>2. CASE edit.result = "threw"
      BY <1>6, <3>2 DEF ListIsReported, Threw, Answered
    <3>3. CASE edit.result # None /\ edit.result # "threw"
      BY <1>6, <3>3 DEF ListIsReported, Report, Answered
    <3> QED
      BY <3>1, <3>2, <3>3
  <2> QED
    BY <2>1, <2>2, <2>3
<1>7. ASSUME ~Refused(name), edit.result = "edited", process' = renamed, list' = edit.watches,
             reply' = Report(TRUE, name, mode, Applied(mode, Before, edit.watches), edit.watches)
      PROVE  UInv' /\ ListIsReported /\ NameIsReported
  <2>1. NameIsReported
    BY <1>4, <1>7 DEF NameIsReported, Report, Refused
  <2>2. list # Unregistered /\ Edit(mode, items, list')
    BY <1>2, <1>7
  <2>3. list' \in Seq(Watches)
    BY <2>2 DEF Edit
  <2>4. UInv'
    BY <1>4, <1>7, <2>3 DEF UInv
  <2>5. list' # Unregistered
    BY <2>3, WatchesAreGiven
  <2>6. /\ reply'.outcome = "ok" /\ reply'.items = list' /\ reply'.mode = mode
        /\ reply'.before = list /\ reply'.applied = Applied(mode, Before, list')
    BY <1>7, <2>2 DEF Report, Before
  <2>7. Before = list
    BY <2>2 DEF Before
  <2>8. ListIsReported
    <3>1. mode = "append" => list' = list \o Applied(mode, list, list')
      BY <2>2, <2>7 DEF Edit
    <3>2. mode = "replace" => list' = Applied(mode, list, list')
      BY <2>2, <2>7 DEF Edit
    <3>3. mode = "remove" => \E kept \in SUBSET DOMAIN list : list' = Picked(list, kept)
      BY <2>2, Zenon DEF Edit
    <3>4. reply'.applied = Applied(mode, list, list')
      BY <2>6, <2>7
    <3> QED
      BY <2>5, <2>6, <3>1, <3>2, <3>3, <3>4, Zenon DEF ListIsReported, Answered
  <2> QED
    BY <2>1, <2>4, <2>8
<1>8. reply'.outcome = "failed" \/ reply' # [Report(FALSE, None, None, <<>>, <<>>) EXCEPT !.before = <<>>]
  BY DEF Report
<1> QED
  BY <1>1, <1>5, <1>6, <1>7, <1>8, Zenon

(* The agent can trust what update tells it: the list after a call is what the
   report says and came from the one before as the mode says, a report of
   failure leaves it alone, and the name changes only with a report of it or
   with the exception that refused the watches, whatever the limit on watches
   and however many items a call has. *)
THEOREM UpdateTellsTheTruth == UpdateSpec => UpdateIsReported
<1> DEFINE A == \/ process'.state # process.state
                \/ list # Unregistered /\ list' = Unregistered
                \/ ListIsReported /\ NameIsReported
<1>1. UpdateInit => UInv
  BY InitUpdate
<1>2. UInv /\ [UpdateNext]_updateVars => UInv' /\ [A]_updateVars
  <2> SUFFICES ASSUME UInv, [UpdateNext]_updateVars PROVE UInv' /\ [A]_updateVars
    OBVIOUS
  <2>1. CASE UNCHANGED updateVars
    BY <2>1 DEF updateVars, UInv
  <2>2. ASSUME NEW state \in {"terminating", "exited"}, Stops(state) PROVE UInv' /\ A
    BY <2>2 DEF UInv, Stops, Record
  <2>3. CASE Unregisters
    BY <2>3 DEF UInv, Unregisters
  <2>4. CASE executeUpdate(BlankName, "clear", <<>>)
    BY <2>4, Calls
  <2>5. ASSUME NEW name \in {None, NewName}, executeUpdate(name, None, <<>>) PROVE UInv' /\ A
    <3>1. None \notin {"append", "replace"}
      BY DEF None
    <3> QED
      BY <2>5, <3>1, Calls
  <2>6. ASSUME NEW name \in {None, NewName},
               NEW items \in SeqOf(Watches \cup {BadItem}, MaxItems),
               executeUpdate(name, "append", items) \/ executeUpdate(name, "replace", items)
        PROVE  UInv' /\ A
    BY <2>6, Calls
  <2>7. ASSUME NEW name \in {None, NewName}, NEW items \in SeqOf(Removals, MaxItems),
               executeUpdate(name, "remove", items)
        PROVE  UInv' /\ A
    BY <2>7, Calls
  <2>8. ASSUME NEW name \in {None, NewName}, executeUpdate(name, "clear", <<>>) PROVE UInv' /\ A
    BY <2>8, Calls
  <2> HIDE DEF A
  <2> QED
    BY <2>1, <2>2, <2>3, <2>4, <2>5, <2>6, <2>7, <2>8 DEF UpdateNext
<1> QED
  BY <1>1, <1>2, PTL DEF UpdateSpec, UpdateIsReported
=============================================================================
