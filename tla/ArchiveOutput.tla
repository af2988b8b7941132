---------------------------- MODULE ArchiveOutput ----------------------------
(***************************************************************************)
(* scripts/build_singbox_source_bundle.py, write_source_archive: putting   *)
(* the source archive in its place.  A builder locks the output, writes a  *)
(* staged file under a name of its own, keeps the archive that is there    *)
(* under a second link, renames the staged file over the output name and   *)
(* looks at the result; when that fails it renames the second link back.   *)
(*                                                                         *)
(* Several builders run in one directory, each of them may fail at any     *)
(* call, be interrupted between any two steps, or be killed, and somebody  *)
(* else may remove or replace the names they use.  A file is named by who  *)
(* wrote it: a builder's staged file is that builder, and stays so under   *)
(* every name it is linked at.                                             *)
(***************************************************************************)
EXTENDS Naturals

CONSTANTS
    Builders,       \* the processes that write the archive
    Previous,       \* the archive that was there before any of them
    Stranger,       \* a file put under one of the names by somebody else
    Absent,         \* no file
    MaxInterrupts,  \* bound: interrupts
    MaxCrashes,     \* bound: builders that are killed
    MaxTampers      \* bound: changes by somebody else

ASSUME OutputAssumption ==
    /\ {Previous, Stranger, Absent} \cap Builders = {}
    /\ Previous # Stranger /\ Absent \notin {Previous, Stranger}
    /\ MaxInterrupts \in Nat /\ MaxCrashes \in Nat /\ MaxTampers \in Nat

VARIABLES
    out,        \* the file under the output name
    tmp,        \* the file under the staged name of each builder
    old,        \* the file under the backup name of each builder
    whole,      \* builders whose staged file is written to its end
    lockFile,   \* the number of the lock file under its name
    lockedFile, \* the lock file each builder holds, 0 for none
    pc,
    kept,       \* the file each builder has opened as its backup
    replaced,   \* builders that have noted their rename
    published,  \* builders that have verified their archive
    outcome,    \* how each builder ended
    renames,    \* history: how many archives were put in place
    turn,       \* history: the place of each builder's archive among them
    cut,        \* history: builders interrupted between a rename and its note
    faults      \* how many interrupts, crashes and tampers there were

names == <<out, tmp, old>>
locks == <<lockFile, lockedFile>>
notes == <<kept, replaced, published>>
history == <<renames, turn, cut>>
vars == <<out, tmp, old, whole, lockFile, lockedFile, pc, kept, replaced, published,
          outcome, renames, turn, cut, faults>>

Files == Builders \cup {Previous, Stranger}
MainSteps == {"lock", "stage", "write", "sync", "checkLock", "checkStaged", "link", "open",
              "checkOld", "rename", "note", "verify", "confirm", "dropOld"}
Locations == MainSteps \cup
    {"idle", "rescue", "rollback", "dropStaged", "dropBackup", "unlock", "done", "killed"}

TypeOK ==
    /\ out \in Files \cup {Absent}
    /\ tmp \in [Builders -> Files \cup {Absent}]
    /\ old \in [Builders -> Files \cup {Absent}]
    /\ whole \subseteq Builders
    /\ lockFile \in 1..MaxTampers + 1
    /\ lockedFile \in [Builders -> 0..MaxTampers + 1]
    /\ pc \in [Builders -> Locations]
    /\ kept \in [Builders -> Files \cup {Absent}]
    /\ replaced \subseteq Builders
    /\ published \subseteq Builders
    /\ outcome \in [Builders -> {"none", "ok", "error"}]
    /\ renames \in Nat
    /\ turn \in [Builders -> Nat]
    /\ cut \subseteq Builders
    /\ faults \in [interrupts : 0..MaxInterrupts, crashes : 0..MaxCrashes,
                   tampers : 0..MaxTampers]

Init ==
    /\ out \in {Previous, Absent}
    /\ tmp = [b \in Builders |-> Absent]
    /\ old = [b \in Builders |-> Absent]
    /\ whole = {}
    /\ lockFile = 1
    /\ lockedFile = [b \in Builders |-> 0]
    /\ pc = [b \in Builders |-> "idle"]
    /\ kept = [b \in Builders |-> Absent]
    /\ replaced = {}
    /\ published = {}
    /\ outcome = [b \in Builders |-> "none"]
    /\ renames = 0
    /\ turn = [b \in Builders |-> 0]
    /\ cut = {}
    /\ faults = [interrupts |-> 0, crashes |-> 0, tampers |-> 0]

At(b, l) == pc[b] = l
Goto(b, l) == pc' = [pc EXCEPT ![b] = l]

(* An exception that leaves a step of the try block.                       *)
Fail(b) ==
    /\ pc[b] \in MainSteps \ {"open", "note"}
    /\ Goto(b, "rescue")
    /\ UNCHANGED <<names, whole, locks, notes, outcome, history, faults>>

-----------------------------------------------------------------------------
(* The lock and the staged file.                                           *)

Begin(b) ==
    /\ At(b, "idle")
    /\ Goto(b, "lock")
    /\ UNCHANGED <<names, whole, locks, notes, outcome, history, faults>>

(* Mutant: the lock is not asked for.                                      *)
TakeLockUnasked(b) ==
    /\ At(b, "lock")
    /\ Goto(b, "stage")
    /\ lockedFile' = [lockedFile EXCEPT ![b] = lockFile]
    /\ UNCHANGED <<names, whole, lockFile, notes, outcome, history, faults>>

LockFree == \A b \in Builders : lockedFile[b] # lockFile

(* flock without waiting: on the file that has the lock's name just now.   *)
TakeLock(b) ==
    /\ At(b, "lock")
    /\ IF LockFree
       THEN Goto(b, "stage") /\ lockedFile' = [lockedFile EXCEPT ![b] = lockFile]
       ELSE Goto(b, "rescue") /\ UNCHANGED lockedFile
    /\ UNCHANGED <<names, whole, lockFile, notes, outcome, history, faults>>

(* A fresh name, created exclusively.                                      *)
Stage(b) ==
    /\ At(b, "stage")
    /\ Goto(b, "write")
    /\ tmp' = [tmp EXCEPT ![b] = b]
    /\ UNCHANGED <<out, old, whole, locks, notes, outcome, history, faults>>

(* Mutant: a write that failed is taken for done.                          *)
WriteArchiveUnchecked(b) ==
    /\ At(b, "write")
    /\ Goto(b, "sync")
    /\ whole' \in {whole, whole \cup {b}}
    /\ UNCHANGED <<names, locks, notes, outcome, history, faults>>

WriteArchive(b) ==
    /\ At(b, "write")
    /\ Goto(b, "sync")
    /\ whole' = whole \cup {b}
    /\ UNCHANGED <<names, locks, notes, outcome, history, faults>>

SyncStaged(b) ==
    /\ At(b, "sync")
    /\ Goto(b, "checkLock")
    /\ UNCHANGED <<names, whole, locks, notes, outcome, history, faults>>

CheckLock(b) ==
    /\ At(b, "checkLock")
    /\ Goto(b, IF lockedFile[b] = lockFile THEN "checkStaged" ELSE "rescue")
    /\ UNCHANGED <<names, whole, locks, notes, outcome, history, faults>>

(* A name is a descriptor's file, and that file has no other name.         *)
Matches(name, b) == name = b /\ \A c \in Builders : old[c] # b

CheckStaged(b) ==
    /\ At(b, "checkStaged")
    /\ Goto(b, IF Matches(tmp[b], b) THEN "link" ELSE "rescue")
    /\ UNCHANGED <<names, whole, locks, notes, outcome, history, faults>>

-----------------------------------------------------------------------------
(* The backup of what is there, and the rename over it.                    *)

LinkBackup(b) ==
    /\ At(b, "link")
    /\ old' = [old EXCEPT ![b] = out]
    /\ Goto(b, IF out = Absent THEN "rename" ELSE "open")
    /\ UNCHANGED <<out, tmp, whole, locks, notes, outcome, history, faults>>

(* The link is opened and both names must still be the opened file; when   *)
(* they are not, or the open fails, the link is removed again.             *)
OpenBackup(b) ==
    /\ At(b, "open")
    /\ \/ /\ old[b] # Absent /\ out = old[b]
          /\ Goto(b, "checkOld")
          /\ kept' = [kept EXCEPT ![b] = old[b]]
          /\ UNCHANGED old
       \/ /\ Goto(b, "rescue")
          /\ old' = [old EXCEPT ![b] = Absent]
          /\ UNCHANGED kept
    /\ UNCHANGED <<out, tmp, whole, locks, replaced, published, outcome, history, faults>>

CheckBackup(b) ==
    /\ At(b, "checkOld")
    /\ Goto(b, IF out = kept[b] THEN "rename" ELSE "rescue")
    /\ UNCHANGED <<names, whole, locks, notes, outcome, history, faults>>

(* os.replace; it fails when the staged name has gone.                     *)
Rename(b) ==
    /\ At(b, "rename")
    /\ tmp[b] # Absent
    /\ Goto(b, "note")
    /\ out' = tmp[b]
    /\ tmp' = [tmp EXCEPT ![b] = Absent]
    /\ renames' = renames + 1
    /\ turn' = [turn EXCEPT ![b] = renames']
    /\ UNCHANGED <<old, whole, locks, notes, outcome, cut, faults>>

(* Mutant: whatever has the output name is noted as renamed.               *)
NoteRenameByName(b) ==
    /\ At(b, "note")
    /\ Goto(b, "verify")
    /\ replaced' = replaced \cup {out}
    /\ UNCHANGED <<names, whole, locks, kept, published, outcome, history, faults>>

NoteRename(b) ==
    /\ At(b, "note")
    /\ Goto(b, "verify")
    /\ replaced' = replaced \cup {b}
    /\ UNCHANGED <<names, whole, locks, kept, published, outcome, history, faults>>

(* The name is the staged file's and the file reads as it was written.     *)
VerifyPublished(b) ==
    /\ At(b, "verify")
    /\ Goto(b, IF Matches(out, b) /\ b \in whole THEN "confirm" ELSE "rescue")
    /\ UNCHANGED <<names, whole, locks, notes, outcome, history, faults>>

Confirm(b) ==
    /\ At(b, "confirm")
    /\ Goto(b, "dropOld")
    /\ published' = published \cup {b}
    /\ UNCHANGED <<names, whole, locks, kept, replaced, outcome, history, faults>>

UnlinkBackup(b) == old' = [old EXCEPT ![b] = IF @ = kept[b] THEN Absent ELSE @]

DropOld(b) ==
    /\ At(b, "dropOld")
    /\ UnlinkBackup(b)
    /\ Goto(b, "dropStaged")
    /\ outcome' = [outcome EXCEPT ![b] = "ok"]
    /\ UNCHANGED <<out, tmp, whole, locks, notes, history, faults>>

-----------------------------------------------------------------------------
(* The handler and the finally blocks.                                     *)

(* The output is only rolled back while it is still this builder's file.   *)
MayRollBack(b) ==
    /\ b \in replaced /\ b \notin published
    /\ kept[b] # Absent
    /\ Matches(out, b)

Rescue(b) ==
    /\ At(b, "rescue")
    /\ Goto(b, IF MayRollBack(b) THEN "rollback" ELSE "dropStaged")
    /\ outcome' = [outcome EXCEPT ![b] = "error"]
    /\ UNCHANGED <<names, whole, locks, notes, history, faults>>

(* The rename of the backup may fail, which is only noted.                 *)
RollBack(b) ==
    /\ At(b, "rollback")
    /\ Goto(b, "dropStaged")
    /\ \/ /\ old[b] # Absent
          /\ out' = old[b]
          /\ old' = [old EXCEPT ![b] = Absent]
       \/ UNCHANGED <<out, old>>
    /\ UNCHANGED <<tmp, whole, locks, notes, outcome, history, faults>>

(* Mutant: only a staged file that was renamed is removed.                 *)
DropStagedOnceRenamed(b) ==
    /\ At(b, "dropStaged")
    /\ Goto(b, "dropBackup")
    /\ tmp' = [tmp EXCEPT ![b] = IF b \in replaced /\ @ = b THEN Absent ELSE @]
    /\ UNCHANGED <<out, old, whole, locks, notes, outcome, history, faults>>

DropStaged(b) ==
    /\ At(b, "dropStaged")
    /\ Goto(b, "dropBackup")
    /\ tmp' = [tmp EXCEPT ![b] = IF b \notin published \cup replaced /\ @ = b THEN Absent ELSE @]
    /\ UNCHANGED <<out, old, whole, locks, notes, outcome, history, faults>>

(* Mutant: the backup is let go of in every case.                          *)
DropBackupAlways(b) ==
    /\ At(b, "dropBackup")
    /\ Goto(b, "unlock")
    /\ IF kept[b] # Absent THEN UnlinkBackup(b) ELSE UNCHANGED old
    /\ UNCHANGED <<out, tmp, whole, locks, notes, outcome, history, faults>>

(* Unless the rename is noted and not confirmed, the backup is let go of.  *)
DropBackup(b) ==
    /\ At(b, "dropBackup")
    /\ Goto(b, "unlock")
    /\ IF kept[b] # Absent /\ (b \in published \/ b \notin replaced)
       THEN UnlinkBackup(b) ELSE UNCHANGED old
    /\ UNCHANGED <<out, tmp, whole, locks, notes, outcome, history, faults>>

Unlock(b) ==
    /\ At(b, "unlock")
    /\ Goto(b, "done")
    /\ lockedFile' = [lockedFile EXCEPT ![b] = 0]
    /\ UNCHANGED <<names, whole, lockFile, notes, outcome, history, faults>>

-----------------------------------------------------------------------------
(* Faults.  The finally blocks are nested: each runs although the one      *)
(* before was interrupted.                                                 *)

AfterInterrupt(l) ==
    CASE l \in MainSteps -> "rescue"
      [] l \in {"rescue", "rollback"} -> "dropStaged"
      [] l = "dropStaged" -> "dropBackup"
      [] l = "dropBackup" -> "unlock"

Interrupt(b) ==
    /\ faults.interrupts < MaxInterrupts
    /\ pc[b] \in MainSteps \cup {"rescue", "rollback", "dropStaged", "dropBackup"}
    /\ faults' = [faults EXCEPT !.interrupts = @ + 1]
    /\ Goto(b, AfterInterrupt(pc[b]))
    /\ cut' = IF At(b, "note") THEN cut \cup {b} ELSE cut
    /\ outcome' = [outcome EXCEPT ![b] = "error"]
    /\ \/ UNCHANGED old
       \/ At(b, "open") /\ old' = [old EXCEPT ![b] = Absent]
    /\ UNCHANGED <<out, tmp, whole, locks, notes, renames, turn>>

(* Killed: the kernel closes its files and with them the lock.             *)
Crash(b) ==
    /\ faults.crashes < MaxCrashes
    /\ pc[b] \notin {"idle", "done", "killed"}
    /\ faults' = [faults EXCEPT !.crashes = @ + 1]
    /\ Goto(b, "killed")
    /\ lockedFile' = [lockedFile EXCEPT ![b] = 0]
    /\ UNCHANGED <<names, whole, lockFile, notes, outcome, history>>

(* Somebody else takes a name away or gives it to another file.            *)
Tamper ==
    /\ faults.tampers < MaxTampers
    /\ faults' = [faults EXCEPT !.tampers = @ + 1]
    /\ \/ out' \in {Stranger, Absent} \ {out} /\ UNCHANGED <<tmp, old, lockFile>>
       \/ \E b \in Builders, f \in {Stranger, Absent} :
            /\ tmp[b] # Absent
            /\ tmp' = [tmp EXCEPT ![b] = f]
            /\ UNCHANGED <<out, old, lockFile>>
       \/ \E b \in Builders :
            /\ old[b] # Absent
            /\ old' = [old EXCEPT ![b] = Absent]
            /\ UNCHANGED <<out, tmp, lockFile>>
       \/ lockFile' = lockFile + 1 /\ UNCHANGED names
    /\ UNCHANGED <<whole, lockedFile, pc, notes, outcome, history>>

-----------------------------------------------------------------------------
Step(b) ==
    \/ Begin(b) \/ TakeLock(b) \/ Stage(b) \/ WriteArchive(b) \/ SyncStaged(b)
    \/ CheckLock(b) \/ CheckStaged(b) \/ LinkBackup(b) \/ OpenBackup(b) \/ CheckBackup(b)
    \/ Rename(b) \/ NoteRename(b) \/ VerifyPublished(b) \/ Confirm(b) \/ DropOld(b)
    \/ Fail(b) \/ Rescue(b) \/ RollBack(b) \/ DropStaged(b) \/ DropBackup(b) \/ Unlock(b)

Next ==
    \/ \E b \in Builders : Step(b) \/ Interrupt(b) \/ Crash(b)
    \/ Tamper

Spec == Init /\ [][Next]_vars

-----------------------------------------------------------------------------
(* Whatever fails or dies, the output name never shows a file that a       *)
(* builder has not written to its end.                                     *)
OutputIsWhole == out \in Builders => out \in whole

(* The archive a builder has found is never lost while the builder runs,   *)
(* nor by its failure or its death: it is under the output name or still   *)
(* under the backup name.  A builder that confirmed its archive lets go of *)
(* it, and one interrupted between its rename and the note of it does, too. *)
OldIsRecoverable ==
    \A b \in Builders :
        /\ kept[b] # Absent /\ b \notin published \cup cut
        /\ lockedFile[b] # 0 \/ out = b
        /\ faults.tampers = 0
        => kept[b] \in {out, old[b]}

(* A build that reported success is only superseded by an archive that was *)
(* put in place later: nobody's rollback brings an earlier one back.       *)
SuccessIsNotUndone ==
    \A b \in Builders :
        outcome[b] = "ok" /\ faults.tampers = 0
        => out \in Builders /\ turn[out] >= turn[b]

(* A builder that ends without an interrupt and with nobody tampering      *)
(* leaves no staged file, and no backup link unless its rollback failed.   *)
NothingIsLeftBehind ==
    \A b \in Builders :
        At(b, "done") /\ faults.interrupts = 0 /\ faults.tampers = 0
        => tmp[b] = Absent /\ (old[b] # Absent => b \in replaced \ published)
=============================================================================
