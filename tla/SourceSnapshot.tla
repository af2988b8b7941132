--------------------------- MODULE SourceSnapshot ---------------------------
(***************************************************************************)
(* scripts/build_singbox_source_bundle.py: what goes into the source       *)
(* archive.  copy_public_tree copies the files of the Git index from the   *)
(* worktree into a private directory, main compares the two version pins   *)
(* with the digests they were frozen at, and add_tree reads the directory  *)
(* into the archive.  Developers write, stage and commit meanwhile, and    *)
(* the Go tools that vendor the dependencies run in the private directory  *)
(* between the two and may write there.  The vendored files, which enter   *)
(* the manifest like the others, are left out.                             *)
(*                                                                         *)
(* A file is two halves, written and read one at a time, and a stamp, its  *)
(* fingerprint of inode, size, mode and times: every change gives it a new *)
(* one.  The index has contents and a stamp as well, which also stands for *)
(* the fingerprint of .git; the one of the root directory is left out: it  *)
(* only makes the code notice more.                                        *)
(***************************************************************************)
EXTENDS Naturals, Sequences

CONSTANTS
    Files,      \* paths that may be tracked
    Pins,       \* VALIDATED_WORKTREE_PIN_PATHS: may differ from the index
    Stray,      \* a path that is not tracked
    Values,     \* what half of a file may hold
    Absent,     \* no such file
    Tree,       \* the files of the expected commit
    Frozen,     \* the pins as they were frozen
    MaxChanges, \* bound: changes to the worktree, the index and HEAD
    MaxWrites   \* bound: changes to the private directory

Contents == Values \X Values

ASSUME SnapshotAssumption ==
    /\ Pins \subseteq Files /\ Stray \notin Files
    /\ Absent \notin Contents
    /\ Tree \in [Files -> Contents]
    /\ Frozen \in [Pins -> Contents]
    /\ MaxChanges \in Nat /\ MaxWrites \in Nat

VARIABLES
    moved,      \* HEAD is not the expected commit
    index,      \* the Git index: the object of each path, and its stamp
    work,       \* the worktree
    private,    \* the files of the private directory
    names,      \* the stamp of the directory: which names it has
    changes,    \* changes so far
    writes,     \* changes to the private directory so far
    pc,
    pinned,     \* the stamp of the index that was opened
    entries,    \* the index as it was listed
    todo,       \* files that have yet to be copied, checked or archived
    file,       \* the file in progress
    mark,       \* its stamp when it was opened
    part,       \* what was read of it
    marks,      \* the stamps of the files that were copied
    manifest,   \* what was copied
    listed,     \* the stamp of the directory when its names were read
    archive,    \* what was archived
    midway      \* history: the worktree between the last copy and the first check

repository == <<moved, index, work, changes>>
directory == <<private, names, writes>>
progress == <<file, mark, part>>
vars == <<moved, index, work, private, names, changes, writes, pc, pinned, entries, todo,
          file, mark, part, marks, manifest, listed, archive, midway>>

Anything == Contents \cup {Absent}
Stamps == 0..MaxChanges + MaxWrites
Stamped == [data : Anything, stamp : Stamps]
Copying == {"copy", "read", "readMore", "verify", "reopen"}
Archiving == {"vendor", "archive", "add", "addMore", "addVerify"}
Locations == {"pin", "head", "staged", "list", "recheck", "headAgain", "stagedAgain",
              "pins", "done", "failed"} \cup Copying \cup Archiving

TypeOK ==
    /\ moved \in BOOLEAN
    /\ index \in [data : [Files -> Anything], stamp : Stamps]
    /\ work \in [Files -> Stamped]
    /\ private \in [Files \cup {Stray} -> Stamped]
    /\ changes \in 0..MaxChanges
    /\ writes \in 0..MaxWrites
    /\ {names, listed} \subseteq 0..MaxWrites
    /\ pc \in Locations
    /\ pinned \in Stamps
    /\ entries \in [Files -> Anything]
    /\ todo \subseteq Files \cup {Stray}
    /\ file \in Files \cup {Stray}
    /\ mark \in Stamps
    /\ part \in Anything
    /\ marks \in [Files -> Stamps]
    /\ manifest \in [Files -> Anything]
    /\ archive \in [Files -> Anything]
    /\ midway \in [Files -> Anything]

Nothing == [f \in Files |-> Absent]

(* The index is the expected commit's or has been worked on; the worktree  *)
(* has the frozen pins and may be edited from the first step on.           *)
Init ==
    /\ moved = FALSE
    /\ index = [data |-> Tree, stamp |-> 0]
    /\ work = [f \in Files |-> [data |-> IF f \in Pins THEN Frozen[f] ELSE Tree[f], stamp |-> 0]]
    /\ private = [f \in Files \cup {Stray} |-> [data |-> Absent, stamp |-> 0]]
    /\ names = 0
    /\ changes = 0
    /\ writes = 0
    /\ pc = "pin"
    /\ pinned = 0
    /\ entries = Nothing
    /\ todo = {}
    /\ file = Stray
    /\ mark = 0
    /\ part = Absent
    /\ marks = [f \in Files |-> 0]
    /\ manifest = Nothing
    /\ listed = 0
    /\ archive = Nothing
    /\ midway = Nothing

-----------------------------------------------------------------------------
(* Developers and Git commands they run; a checkout is several of these.   *)

Half(data, i, v) == IF data = Absent THEN <<v, v>> ELSE [data EXCEPT ![i] = v]

Change ==
    /\ changes < MaxChanges
    /\ pc \notin Archiving \cup {"pins", "done", "failed"}
    /\ changes' = changes + 1
    /\ UNCHANGED <<directory, pc, pinned, entries, todo, progress, marks, manifest,
                   listed, archive, midway>>

EditHalf(f) ==
    /\ Change
    /\ \E i \in {1, 2}, v \in Values :
          work' = [work EXCEPT ![f] = [data |-> Half(@.data, i, v), stamp |-> changes']]
    /\ UNCHANGED <<moved, index>>

Remove(f) ==
    /\ Change
    /\ work' = [work EXCEPT ![f] = [data |-> Absent, stamp |-> changes']]
    /\ UNCHANGED <<moved, index>>

(* git add, git rm and git reset of a path write a new index.              *)
StagePath(f) ==
    /\ Change
    /\ \E object \in {work[f].data, Tree[f], Absent} :
          index' = [data |-> [index.data EXCEPT ![f] = object], stamp |-> changes']
    /\ UNCHANGED <<moved, work>>

MoveHead ==
    /\ Change
    /\ moved' = ~moved
    /\ UNCHANGED <<index, work>>

(* The tools that run in the private directory: a new name or one less     *)
(* changes the directory as well.                                          *)
ToolWrites(f) ==
    /\ writes < MaxWrites
    /\ pc \in Archiving
    /\ writes' = writes + 1
    /\ \E data \in {Half(private[f].data, 2, v) : v \in Values} \cup {Absent} :
          /\ private' = [private EXCEPT ![f] = [data |-> data, stamp |-> MaxChanges + writes']]
          /\ names' = IF (data = Absent) = (private[f].data = Absent) THEN names ELSE writes'
    /\ UNCHANGED <<repository, pc, pinned, entries, todo, progress, marks, manifest,
                   listed, archive, midway>>

-----------------------------------------------------------------------------
(* The state of the repository.  A Git command runs between two checks of  *)
(* the pinned index, so that it has seen the index that was pinned.        *)

Goto(ok, next) == pc' = IF ok THEN next ELSE "failed"
IndexPinned == index.stamp = pinned

PinRepository ==
    /\ pc = "pin"
    /\ pc' = "head"
    /\ pinned' = index.stamp
    /\ UNCHANGED <<repository, directory, entries, todo, progress, marks, manifest,
                   listed, archive, midway>>

(* verify_expected_git_state, before the copy and again after it.          *)
VerifyHead ==
    /\ \/ pc = "head" /\ Goto(IndexPinned /\ ~moved, "staged")
       \/ pc = "headAgain" /\ Goto(IndexPinned /\ ~moved, "stagedAgain")
    /\ UNCHANGED <<repository, directory, pinned, entries, todo, progress, marks, manifest,
                   listed, archive, midway>>

VerifyStaged ==
    /\ \/ pc = "staged" /\ Goto(IndexPinned /\ index.data = Tree, "list")
       \/ pc = "stagedAgain" /\ Goto(IndexPinned /\ index.data = Tree, "pins")
    /\ UNCHANGED <<repository, directory, pinned, entries, todo, progress, marks, manifest,
                   listed, archive, midway>>

Tracked(list) == {f \in Files : list[f] # Absent}
AllPresent(S) == \A f \in S : work[f].data # Absent

ListIndex ==
    /\ pc = "list"
    /\ Goto(IndexPinned /\ AllPresent(Tracked(index.data)), "copy")
    /\ entries' = index.data
    /\ todo' = Tracked(index.data)
    /\ UNCHANGED <<repository, directory, pinned, progress, marks, manifest, listed, archive,
                   midway>>

-----------------------------------------------------------------------------
(* copy_public_entry, file by file.                                        *)

OpenSource(f) ==
    /\ pc = "copy"
    /\ f \in todo
    /\ Goto(work[f].data # Absent, "read")
    /\ file' = f
    /\ mark' = work[f].stamp
    /\ part' = Absent
    /\ UNCHANGED <<repository, directory, pinned, entries, todo, marks, manifest,
                   listed, archive, midway>>

(* Two reads; a file that was removed keeps what the descriptor has.       *)
(* Mutant: the second read knows no size.                                  *)
ReadSourceUnbounded ==
    /\ \/ /\ pc = "read"
          /\ pc' = "readMore"
          /\ part' = work[file].data
       \/ /\ pc = "readMore"
          /\ pc' = "verify"
          /\ part' = IF work[file].stamp = mark \/ Absent \in {part, work[file].data} THEN part
                     ELSE part \o work[file].data
    /\ UNCHANGED <<repository, directory, pinned, entries, todo, file, mark, marks, manifest,
                   listed, archive, midway>>

ReadSource ==
    /\ \/ /\ pc = "read"
          /\ pc' = "readMore"
          /\ part' = work[file].data
       \/ /\ pc = "readMore"
          /\ pc' = "verify"
          /\ part' = IF work[file].data = Absent THEN part
                     ELSE IF part = Absent THEN work[file].data
                     ELSE <<part[1], work[file].data[2]>>
    /\ UNCHANGED <<repository, directory, pinned, entries, todo, file, mark, marks, manifest,
                   listed, archive, midway>>

(* fstat of the descriptor, then the Git object of what was read.          *)
VerifySource ==
    /\ pc = "verify"
    /\ Goto(work[file].stamp = mark /\ (file \in Pins \/ part = entries[file]), "reopen")
    /\ UNCHANGED <<repository, directory, pinned, entries, todo, progress, marks, manifest,
                   listed, archive, midway>>

(* A copy of a file that changed is removed again.                         *)
ReopenSource ==
    /\ pc = "reopen"
    /\ Goto(work[file].stamp = mark, "copy")
    /\ todo' = todo \ {file}
    /\ marks' = [marks EXCEPT ![file] = mark]
    /\ manifest' = [manifest EXCEPT ![file] = part]
    /\ private' = IF work[file].stamp = mark
                  THEN [private EXCEPT ![file].data = part] ELSE private
    /\ UNCHANGED <<repository, names, writes, pinned, entries, progress, listed, archive, midway>>

-----------------------------------------------------------------------------
(* The second look: the same index, and every file as it was copied.       *)

ListAgain ==
    /\ pc = "copy"
    /\ todo = {}
    /\ Goto(IndexPinned /\ index.data = entries /\ AllPresent(Tracked(entries)), "recheck")
    /\ todo' = Tracked(entries)
    /\ midway' = [f \in Files |-> work[f].data]
    /\ UNCHANGED <<repository, directory, pinned, entries, progress, marks, manifest, listed,
                   archive>>

(* Mutant: a copied file only has to be there still.                       *)
RecheckPresence(f) ==
    /\ pc = "recheck"
    /\ f \in todo
    /\ Goto(work[f].data # Absent, "recheck")
    /\ todo' = todo \ {f}
    /\ UNCHANGED <<repository, directory, pinned, entries, progress, marks, manifest,
                   listed, archive, midway>>

Recheck(f) ==
    /\ pc = "recheck"
    /\ f \in todo
    /\ Goto(work[f].stamp = marks[f], "recheck")
    /\ todo' = todo \ {f}
    /\ UNCHANGED <<repository, directory, pinned, entries, progress, marks, manifest,
                   listed, archive, midway>>

Rechecked ==
    /\ pc = "recheck"
    /\ todo = {}
    /\ Goto(IndexPinned, "headAgain")
    /\ UNCHANGED <<repository, directory, pinned, entries, todo, progress, marks, manifest,
                   listed, archive, midway>>

(* main: the pins that were copied are the ones that were frozen.          *)
ComparePins ==
    /\ pc = "pins"
    /\ Goto(\A f \in Pins : manifest[f] = Frozen[f], "vendor")
    /\ UNCHANGED <<repository, directory, pinned, entries, todo, progress, marks, manifest,
                   listed, archive, midway>>

-----------------------------------------------------------------------------
(* archive_directory: every name of the directory must be in the manifest, *)
(* each file is read and compared, and in the end the directory must have  *)
(* the fingerprint it began with and every file of the manifest been seen. *)

Members == {f \in DOMAIN private : private[f].data # Absent}

ListMembers ==
    /\ pc = "vendor"
    /\ pc' = "archive"
    /\ todo' = Members
    /\ listed' = names
    /\ UNCHANGED <<repository, directory, pinned, entries, progress, marks, manifest,
                   archive, midway>>

OpenMember(f) ==
    /\ pc = "archive"
    /\ f \in todo
    /\ Goto(f \in Files /\ private[f].data # Absent, "add")
    /\ file' = f
    /\ mark' = private[f].stamp
    /\ part' = Absent
    /\ UNCHANGED <<repository, directory, pinned, entries, todo, marks, manifest,
                   listed, archive, midway>>

ReadMember ==
    /\ \/ /\ pc = "add"
          /\ pc' = "addMore"
          /\ part' = private[file].data
       \/ /\ pc = "addMore"
          /\ pc' = "addVerify"
          /\ part' = IF private[file].data = Absent THEN part
                     ELSE IF part = Absent THEN private[file].data
                     ELSE <<part[1], private[file].data[2]>>
    /\ UNCHANGED <<repository, directory, pinned, entries, todo, file, mark, marks, manifest,
                   listed, archive, midway>>

(* Mutant: what was archived is not compared.                              *)
VerifyMemberStamp ==
    /\ pc = "addVerify"
    /\ Goto(private[file].stamp = mark, "archive")
    /\ todo' = todo \ {file}
    /\ archive' = [archive EXCEPT ![file] = part]
    /\ UNCHANGED <<repository, directory, pinned, entries, progress, marks, manifest, listed,
                   midway>>

VerifyMember ==
    /\ pc = "addVerify"
    /\ Goto(private[file].stamp = mark /\ part = manifest[file], "archive")
    /\ todo' = todo \ {file}
    /\ archive' = [archive EXCEPT ![file] = part]
    /\ UNCHANGED <<repository, directory, pinned, entries, progress, marks, manifest, listed,
                   midway>>

ArchiveDone ==
    /\ pc = "archive"
    /\ todo = {}
    /\ Goto(names = listed /\ Tracked(archive) = Tracked(manifest), "done")
    /\ UNCHANGED <<repository, directory, pinned, entries, todo, progress, marks, manifest,
                   listed, archive, midway>>

Next ==
    \/ \E f \in Files : EditHalf(f) \/ Remove(f) \/ StagePath(f)
    \/ MoveHead
    \/ \E f \in Files \cup {Stray} : ToolWrites(f) \/ OpenMember(f)
    \/ PinRepository \/ VerifyHead \/ VerifyStaged \/ ListIndex
    \/ \E f \in Files : OpenSource(f) \/ Recheck(f)
    \/ ReadSource \/ VerifySource \/ ReopenSource \/ ListAgain \/ Rechecked \/ ComparePins
    \/ ListMembers \/ ReadMember \/ VerifyMember \/ ArchiveDone

Spec == Init /\ [][Next]_vars

-----------------------------------------------------------------------------
(* An archive holds exactly the expected commit's files, each as committed *)
(* and the pins as frozen, whatever was edited, staged or committed while  *)
(* it was made and whatever the tools wrote: no half-written file either.  *)
ArchiveIsTheCommit ==
    pc = "done" =>
        archive = [f \in Files |-> IF f \in Pins THEN Frozen[f] ELSE Tree[f]]

(* The copy is the worktree as it was at one instant, not a mixture of     *)
(* several, although the files are read one after the other.               *)
CopyIsOneInstant ==
    pc \in {"headAgain", "stagedAgain", "pins", "done"} \cup Archiving =>
        \A f \in Files : entries[f] # Absent => manifest[f] = midway[f]
=============================================================================
