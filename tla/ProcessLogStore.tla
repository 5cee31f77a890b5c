---------------------------- MODULE ProcessLogStore ----------------------------
(***************************************************************************)
(* The log files of one process (src/manager/process-log-store.ts): each   *)
(* is appended to under a cap that the store enforces with a size of its   *)
(* own counting, and emptied and restarted from a marker when the cap      *)
(* would be exceeded. Every call of the file system may fail, halfway too, *)
(* and the store goes on.                                                  *)
(*                                                                         *)
(* A file is its size and the sequence of its pieces: the marker, or an    *)
(* entry by its number over all files. One that failed halfway has left a  *)
(* piece that is not whole. The directory is explicit: it may hold the     *)
(* files of an earlier process of the same id.                             *)
(***************************************************************************)
EXTENDS Integers, Sequences, SequencesExt, FiniteSetsExt

CONSTANTS
    Files,       \* the log files, in the order in which they are created
    Cap,         \* maxFileBytes
    MarkerSize,  \* of a truncation marker
    Sizes,       \* the sizes of entries
    Largest,     \* of them
    MaxEntries, MaxFaults  \* bounds of the model

ASSUME StoreAssumption ==
    /\ Cap \in Nat /\ MarkerSize \in Nat \ {0}
    /\ Largest \in Nat \ {0} /\ Sizes \subseteq 1 .. Largest
    /\ MaxEntries \in Nat /\ MaxFaults \in Nat

VARIABLES
    logDir,     \* the store has its directory
    dirExists,  \* the directory is there
    present,    \* the files that are there
    disk,       \* their pieces
    fileSize,   \* their sizes
    fileBytes,  \* what the store counted, 0 when it has no entry
    entries,    \* how many entries it was asked to append
    faults,     \* how many calls failed that need not have
    spill,      \* bytes of a file that no counting can have seen
    torn,       \* the files emptied whose marker could not be written
    succeeded   \* the numbers of the entries each file received since it was new

storeVars == <<logDir, dirExists, present, disk, fileSize, fileBytes, entries, faults, spill, torn, succeeded>>

Names == Range(Files)
Marker == -1

Piece(what, whole) == [what |-> what, whole |-> whole]

(* The part of a piece that a failing write got to. *)
Part(what, bytes) == IF bytes = 0 THEN <<>> ELSE <<Piece(what, FALSE)>>

(* A call may fail for reasons of its own. *)
Fault == faults < MaxFaults /\ faults' = faults + 1

-----------------------------------------------------------------------------
(* ensureLogDir and three empty appends; one that fails ends the call before
   anything is counted. *)
Counted(f) == fileSize[f]

createLogs(made) ==
    /\ logDir' = TRUE /\ dirExists' = TRUE
    /\ present' = present \cup {Files[n] : n \in 1 .. made}
    /\ IF made = Len(Files)
       THEN fileBytes' = [f \in Names |-> Counted(f)] /\ UNCHANGED faults
       ELSE Fault /\ UNCHANGED fileBytes
    /\ UNCHANGED <<disk, fileSize, entries, spill, torn, succeeded>>

(* The entry would exceed the cap. *)
Full_AfterTheFact(f, size) == fileBytes[f] > Cap

Full(f, size) == fileBytes[f] + size > Cap

(* What is in the file when the entry's turn comes. *)
Base_Unmarked(f, size) == IF Full(f, size) THEN <<>> ELSE disk[f]

Base(f, size) ==
    IF Full(f, size) THEN <<Piece(Marker, TRUE)>> ELSE disk[f]

BaseSize(f, size) == IF Full(f, size) THEN MarkerSize ELSE fileSize[f]

BaseBytes(f, size) == IF Full(f, size) THEN MarkerSize ELSE fileBytes[f]

BaseSpill(f, size) == IF Full(f, size) THEN 0 ELSE spill[f]

BaseTorn(f, size) == IF Full(f, size) THEN torn \ {f} ELSE torn

(* Emptying needs the file, appending only its directory. *)
Reachable(f, size) == dirExists /\ (Full(f, size) => f \in present)

appendCapped(f, size) ==
    /\ Reachable(f, size)
    /\ present' = present \cup {f}
    /\ disk' = [disk EXCEPT ![f] = Append(Base(f, size), Piece(entries + 1, TRUE))]
    /\ fileSize' = [fileSize EXCEPT ![f] = BaseSize(f, size) + size]
    /\ fileBytes' = [fileBytes EXCEPT ![f] = BaseBytes(f, size) + size]
    /\ spill' = [spill EXCEPT ![f] = BaseSpill(f, size)]
    /\ torn' = BaseTorn(f, size)
    /\ succeeded' = [succeeded EXCEPT ![f] = @ \cup {entries + 1}]
    /\ UNCHANGED faults

(* The first call fails, as it must when there is nothing to call it on. *)
AppendFails(f, size) ==
    /\ IF Reachable(f, size) THEN Fault ELSE UNCHANGED faults
    /\ UNCHANGED <<present, disk, fileSize, fileBytes, spill, torn, succeeded>>

(* The file was emptied and the marker not written, or only a part of it. *)
MarkerFails(f, size) ==
    \E part \in 0 .. MarkerSize - 1 :
        /\ Full(f, size) /\ Reachable(f, size) /\ Fault
        /\ disk' = [disk EXCEPT ![f] = Part(Marker, part)]
        /\ fileSize' = [fileSize EXCEPT ![f] = part]
        /\ spill' = [spill EXCEPT ![f] = part]
        /\ torn' = torn \cup {f}
        /\ UNCHANGED <<present, fileBytes, succeeded>>

(* The entry is not written, or only a part of it. *)
EntryFails(f, size) ==
    \E part \in 0 .. size - 1 :
        /\ Reachable(f, size) /\ Fault
        /\ present' = present \cup {f}
        /\ disk' = [disk EXCEPT ![f] = Base(f, size) \o Part(entries + 1, part)]
        /\ fileSize' = [fileSize EXCEPT ![f] = BaseSize(f, size) + part]
        /\ fileBytes' = [fileBytes EXCEPT ![f] = BaseBytes(f, size)]
        /\ spill' = [spill EXCEPT ![f] = BaseSpill(f, size) + part]
        /\ torn' = BaseTorn(f, size)
        /\ UNCHANGED succeeded

(* An append to any path the store ever gave out, late ones too. *)
AppendEntry(f, size) ==
    /\ entries < MaxEntries /\ entries' = entries + 1
    /\ \/ appendCapped(f, size) \/ AppendFails(f, size)
       \/ MarkerFails(f, size) \/ EntryFails(f, size)
    /\ UNCHANGED <<logDir, dirExists>>

Removed(gone) ==
    /\ present' = present \ gone /\ torn' = torn \ gone
    /\ disk' = [f \in Names |-> IF f \in gone THEN <<>> ELSE disk[f]]
    /\ fileSize' = [f \in Names |-> IF f \in gone THEN 0 ELSE fileSize[f]]
    /\ succeeded' = [f \in Names |-> IF f \in gone THEN {} ELSE succeeded[f]]

(* The counts stay. *)
removeLogs(done) ==
    /\ Removed({Files[n] : n \in 1 .. done})
    /\ spill' = [f \in Names |-> IF f \notin present' THEN 0 ELSE spill[f]]
    /\ IF done = Len(Files) THEN UNCHANGED faults ELSE Fault
    /\ UNCHANGED <<logDir, dirExists, fileBytes, entries>>

(* Removing the directory may stop halfway; the counts are gone in any case. *)
cleanup(gone, left) ==
    /\ logDir /\ logDir' = FALSE
    /\ gone # Names => left
    /\ Removed(gone) /\ dirExists' = left
    /\ IF left THEN Fault ELSE UNCHANGED faults
    /\ fileBytes' = [f \in Names |-> 0]
    /\ spill' = [f \in Names |-> IF f \in gone THEN 0 ELSE fileSize[f]]
    /\ UNCHANGED entries

-----------------------------------------------------------------------------
(* An earlier process may have left its log, within the cap. *)
StoreInit ==
    /\ logDir = FALSE
    /\ fileSize \in [Names -> {0} \cup {size \in Sizes : size <= Cap}]
    /\ disk = [f \in Names |-> IF fileSize[f] = 0 THEN <<>> ELSE <<Piece(0, TRUE)>>]
    /\ present = {f \in Names : fileSize[f] > 0}
    /\ dirExists = (present # {})
    /\ fileBytes = [f \in Names |-> 0]
    /\ entries = 0 /\ faults = 0 /\ torn = {}
    /\ spill = fileSize
    /\ succeeded = [f \in Names |-> IF f \in present THEN {0} ELSE {}]

StoreNext ==
    \/ \E made \in 0 .. Len(Files) : createLogs(made)
    \/ \E f \in Names, size \in Sizes : AppendEntry(f, size)
    \/ \E done \in 0 .. Len(Files) : removeLogs(done)
    \/ \E gone \in SUBSET Names, left \in BOOLEAN : cleanup(gone, left)

StoreSpec == StoreInit /\ [][StoreNext]_storeVars

-----------------------------------------------------------------------------
(* Properties *)

StoreTypeOK ==
    /\ present \subseteq Names /\ torn \subseteq Names
    /\ \A f \in Names : (disk[f] # <<>>) = (fileSize[f] > 0)
    /\ \A f \in Names : disk[f] # <<>> => f \in present
    /\ present # {} => dirExists
    /\ logDir \in BOOLEAN /\ dirExists \in BOOLEAN
    /\ fileSize \in [Names -> Nat] /\ fileBytes \in [Names -> Nat]
    /\ spill \in [Names -> Nat] /\ faults \in Nat /\ entries \in Nat

(* Whatever fails and whatever is removed under the store's hands, a file
   outgrows the cap, or what one entry after the marker takes, by no more than
   the bytes the store never got to count: parts of failed writes and what a
   failed cleanup left. *)
CapIsKept ==
    \A f \in Names :
        \/ fileSize[f] <= Cap + spill[f]
        \/ fileSize[f] <= MarkerSize + Largest + spill[f]

(* The strengthening: the count is too low by no more than these bytes. *)
CountIsSafe == \A f \in Names : fileSize[f] <= fileBytes[f] + spill[f]

(* The places of whole entries among pieces, and the entries. *)
Kept(pieces) == {n \in DOMAIN pieces : pieces[n].whole /\ pieces[n].what # Marker}

Held(pieces) == {pieces[n].what : n \in Kept(pieces)}

(* A file holds the most recent entries it received, in order; when older ones
   were discarded and it holds anything, it begins with the marker, unless
   writing that very marker failed. *)
LossIsMarked ==
    \A f \in Names :
        /\ \A n, m \in Kept(disk[f]) : n < m => disk[f][n].what < disk[f][m].what
        /\ Held(disk[f]) \subseteq succeeded[f]
        /\ \A old \in Held(disk[f]), e \in succeeded[f] :
              old < e => e \in Held(disk[f])
        /\ disk[f] # <<>> /\ f \notin torn =>
              (Held(disk[f]) # succeeded[f] => disk[f][1].what = Marker)
===============================================================================
