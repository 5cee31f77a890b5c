------------------------------ MODULE LogWatches ------------------------------
(***************************************************************************)
(* The log watches of one process: the list in the notification registry   *)
(* (notifications/registry.ts), which process update edits, and the        *)
(* compiled matchers of the notification service (notifications/service.ts *)
(* and log-matchers.ts), which catches up with the list only when output   *)
(* arrives and recognises a watch by its contents, not by its place.       *)
(*                                                                         *)
(* A key stands for all a watch consists of: pattern, mode, stream, repeat *)
(* and attention; two watches may have the same. Output is the set of keys *)
(* that some line of it matches. Serial numbers tell watches apart for the *)
(* properties; the code has none and no guard reads them.                  *)
(***************************************************************************)
EXTENDS Places, Sequences, SequencesExt

CONSTANTS
    Keys,       \* the contents watches may have
    Repeating,  \* the keys with repeat: true
    Cooldown,   \* LOG_MATCH_COOLDOWN_MS, in clock units
    MaxWatches, \* MAX_LOG_MATCHERS_PER_PROCESS
    MaxWatchTime, MaxUpdates, MaxAdded, MaxOutputs  \* bounds of the model

ASSUME WatchesAssumption ==
    /\ Repeating \subseteq Keys
    /\ Cooldown \in Nat /\ MaxWatches \in Nat
    /\ MaxWatchTime \in Nat /\ MaxUpdates \in Nat
    /\ MaxAdded \in Nat /\ MaxOutputs \in Nat

VARIABLES
    registered, \* the registry has a config for the process
    watches,    \* its logMatches
    revision, generation,
    compiled,   \* the service's ProcessMatcherState, or NoMatchers
    time, updates, outputs,
    added,      \* every watch there ever was: its key and epoch
    epoch,      \* how often the list was replaced or cleared
    firings,    \* every log_match emitted: serial and time
    missed      \* unfired watches a line matched without a log_match

registry == <<registered, watches, revision, generation>>
watchHistory == <<added, epoch, firings, missed>>
watchCounters == <<time, updates, outputs>>
watchVars == <<registry, compiled, watchHistory, watchCounters>>

NoMatchers == [matchers |-> <<>>, revision |-> -1, generation |-> -1]

Serials(seq) == {seq[i].serial : i \in DOMAIN seq}
Fired(s) == \E i \in DOMAIN firings : firings[i].serial = s

-----------------------------------------------------------------------------
(* The registry: process start and process update. *)

(* New watches with the given keys, numbered from the last. *)
NewWatches(keys) ==
    [i \in DOMAIN keys |-> [key |-> keys[i], serial |-> Len(added) + i]]

Adds(keys, e) ==
    /\ Len(added) + Len(keys) <= MaxAdded
    /\ added' = added \o [i \in DOMAIN keys |-> [key |-> keys[i], epoch |-> e]]

(* A longer list throws before anything is changed. *)
FitsLimit(n) == n <= MaxWatches

BumpedRevision == revision + 1

BumpedGeneration_Stuck == generation
BumpedGeneration == generation + 1

bumpRevision ==
    /\ updates < MaxUpdates /\ updates' = updates + 1
    /\ revision' = BumpedRevision

(* process start, once for an id. *)
register(keys) ==
    /\ revision = -1 /\ FitsLimit(Len(keys))
    /\ registered' = TRUE /\ watches' = NewWatches(keys)
    /\ revision' = 0 /\ generation' = 0
    /\ Adds(keys, epoch)
    /\ UNCHANGED <<compiled, epoch, firings, missed, watchCounters>>

appendWatches(keys) ==
    /\ registered /\ FitsLimit(Len(watches) + Len(keys))
    /\ watches' = watches \o NewWatches(keys)
    /\ bumpRevision /\ Adds(keys, epoch)
    /\ UNCHANGED <<registered, generation, compiled, epoch, firings, missed, time, outputs>>

replaceWatches(keys) ==
    /\ registered /\ FitsLimit(Len(keys))
    /\ watches' = NewWatches(keys)
    /\ bumpRevision /\ generation' = BumpedGeneration
    /\ epoch' = epoch + 1 /\ Adds(keys, epoch + 1)
    /\ UNCHANGED <<registered, compiled, firings, missed, time, outputs>>

clearWatches == replaceWatches(<<>>)

(* By index or by contents: any part of the list can be meant. *)
removeWatches(gone) ==
    /\ registered
    /\ watches' = Picked(watches, {i \in DOMAIN watches : watches[i].serial \notin gone})
    /\ bumpRevision
    /\ UNCHANGED <<registered, generation, compiled, watchHistory, time, outputs>>

-----------------------------------------------------------------------------
(* The service. *)

compileLogMatchers ==
    [i \in DOMAIN watches |->
        [key |-> watches[i].key, serial |-> watches[i].serial,
         fired |-> FALSE, lastMatchTime |-> 0]]

(* Where a list has a key. Among equals, the n-th inherits from the n-th. *)
Bucket(seq, key) == {i \in DOMAIN seq : seq[i].key = key}

Inherits_Fired(new, donor) == [new EXCEPT !.fired = donor.fired]

Inherits(new, donor) ==
    [new EXCEPT !.fired = donor.fired, !.lastMatchTime = donor.lastMatchTime]

preserveMatcherRuntimeState(prev) ==
    [i \in DOMAIN watches |->
        LET new == compileLogMatchers[i]
            bucket == Bucket(prev, new.key)
            n == Rank(Bucket(watches, new.key), i)
        IN  IF n <= Cardinality(bucket) THEN Inherits(new, prev[Nth(bucket, n)]) ELSE new]

(* The matchers that output meets; an empty list is forgotten at once. *)
syncMatcherState ==
    IF compiled # NoMatchers /\ compiled.revision = revision THEN compiled.matchers
    ELSE IF compiled # NoMatchers /\ compiled.generation = generation
         THEN preserveMatcherRuntimeState(compiled.matchers)
    ELSE compileLogMatchers

Silent(m) == m.fired /\ (m.key \in Repeating => time - m.lastMatchTime < Cooldown)

(* evaluateLogMatchers: each matcher fires at most once for an output. *)
Hits(m, lines) == m.key \in lines /\ ~Silent(m)

Evaluated(matchers, lines) ==
    [i \in DOMAIN matchers |->
        IF Hits(matchers[i], lines)
        THEN [matchers[i] EXCEPT !.fired = TRUE, !.lastMatchTime = time]
        ELSE matchers[i]]

Emitted(matchers, lines) ==
    LET hits == Picked(matchers, {i \in DOMAIN matchers : Hits(matchers[i], lines)})
    IN  [i \in DOMAIN hits |-> [serial |-> hits[i].serial, at |-> time]]

handleOutputChanged(lines) ==
    LET matchers == syncMatcherState
        emitted == Emitted(matchers, lines)
    IN  /\ registered /\ outputs < MaxOutputs
        /\ outputs' = outputs + 1
        /\ compiled' = IF matchers = <<>> THEN NoMatchers
                       ELSE [matchers |-> Evaluated(matchers, lines),
                             revision |-> revision, generation |-> generation]
        /\ firings' = firings \o emitted
        /\ missed' = missed \cup
              {s \in Serials(watches) \ Serials(emitted) :
                  added[s].key \in lines /\ ~Fired(s)}
        /\ UNCHANGED <<registry, added, epoch, time, updates>>

(* The end of the process is handled: cleanupMatcherState and unregister. *)
handleProcessEnded ==
    /\ registered /\ registered' = FALSE
    /\ watches' = <<>> /\ compiled' = NoMatchers
    /\ UNCHANGED <<revision, generation, watchHistory, watchCounters>>

WatchTock ==
    /\ time < MaxWatchTime /\ time' = time + 1
    /\ UNCHANGED <<registry, compiled, watchHistory, updates, outputs>>

-----------------------------------------------------------------------------
WatchInit ==
    /\ registered = FALSE /\ watches = <<>> /\ revision = -1 /\ generation = -1
    /\ compiled = NoMatchers
    /\ time = 0 /\ updates = 0 /\ outputs = 0
    /\ added = <<>> /\ epoch = 0 /\ firings = <<>> /\ missed = {}

WatchNext ==
    \/ \E keys \in SeqOf(Keys, MaxWatches + 1) :
          register(keys) \/ (keys # <<>> /\ (appendWatches(keys) \/ replaceWatches(keys)))
    \/ clearWatches
    \/ \E gone \in SUBSET Serials(watches) : removeWatches(gone)
    \/ \E lines \in SUBSET Keys : handleOutputChanged(lines)
    \/ handleProcessEnded \/ WatchTock

WatchSpec == WatchInit /\ [][WatchNext]_watchVars

-----------------------------------------------------------------------------
(* Properties *)

WatchTypeOK ==
    /\ registered \in BOOLEAN /\ Len(watches) <= MaxWatches
    /\ \A i \in DOMAIN watches : watches[i].key = added[watches[i].serial].key
    /\ revision >= generation /\ epoch \in Nat
    /\ compiled # NoMatchers => /\ registered
                          /\ Len(compiled.matchers) \in 1 .. MaxWatches
    /\ missed \subseteq DOMAIN added
    /\ \A i \in DOMAIN firings :
          firings[i].serial \in DOMAIN added /\ firings[i].at \in 0 .. time

(* Another watch with the same contents, in the same generation. *)
HasTwin(s) == \E t \in DOMAIN added \ {s} : added[t] = added[s]

(* However the list around it is edited between outputs, a watch that does not
   repeat fires at most once as long as it stays in the list - also beside
   others of the same contents. *)
OncePerWatch ==
    \A i, j \in DOMAIN firings :
        i # j /\ firings[i].serial = firings[j].serial
            => added[firings[i].serial].key \in Repeating

(* A repeating watch keeps its cooldown (docs/notifications.md:268) when the list
   is edited during it, unless it can be taken for another of the same contents.
   The skill knows of no cooldown: such a watch "fires on every match"
   (skills/pi-processes/SKILL.md:230). *)
CooldownIsKept ==
    \A i, j \in DOMAIN firings :
        i < j /\ firings[i].serial = firings[j].serial
            => \/ firings[j].at - firings[i].at >= Cooldown
               \/ HasTwin(firings[i].serial)

(* However the list is edited, no watch fires more often than it was asked to. *)
FiresAsOftenAsAsked == OncePerWatch /\ CooldownIsKept

(* The first output that matches a watch makes it fire; only the memory of
   another of the same contents, added since the list was last replaced or
   cleared, can silence it. *)
FirstMatchFires == \A s \in missed : HasTwin(s)

(* Once an update has taken a watch out of the list it does not fire, although
   the service hears of the update only with the next output. *)
OnlyListedFires ==
    [][\A i \in DOMAIN firings' \ DOMAIN firings :
          registered /\ firings'[i].serial \in Serials(watches)]_watchVars
===============================================================================
