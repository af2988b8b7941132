------------------------ MODULE SourceSnapshotProofs ------------------------
(***************************************************************************)
(* Proofs about SourceSnapshot, for any files, pins, contents and number   *)
(* of changes and writes.  The argument is about stamps: what was read of  *)
(* a file is the file's contents for as long as the file has the stamp it  *)
(* was opened at, and a stamp never returns.                               *)
(***************************************************************************)
EXTENDS SourceSnapshot, TLAPS

Reading == {"read", "readMore", "verify", "reopen"}
Adding == {"add", "addMore", "addVerify"}
Settled == {"headAgain", "stagedAgain", "pins", "done"} \cup Archiving
Listed == {"recheck"} \cup Copying \cup Settled

(* No stamp that was noted is newer than the last change.                  *)
StampInv ==
    /\ index.stamp <= changes /\ pinned <= changes
    /\ \A f \in Files : work[f].stamp <= changes /\ marks[f] <= changes
    /\ pc \in Reading => mark <= changes

(* Once it was compared, the pinned index is the commit.                   *)
IndexInv ==
    /\ pc \in {"list"} \cup Listed => (index.stamp = pinned => index.data = Tree)
    /\ pc \in Listed => entries = Tree

FileInv ==
    /\ pc \in Copying \cup {"recheck"} => todo \subseteq Files
    /\ pc \in Reading => file \in Files /\ file \in todo
    /\ pc \in Adding => file \in Files

(* What was read, while the file has the stamp it was opened at.           *)
PartInv ==
    /\ pc \in Reading \ {"read"} /\ work[file].stamp = mark => part = work[file].data
    /\ pc = "reopen" => file \in Pins \/ part = Tree[file]

(* What was copied: the committed object, and the file while it has its    *)
(* stamp.                                                                  *)
CopyInv ==
    \A f \in Files :
        /\ (pc \in Copying /\ f \notin todo) \/ pc \in {"recheck"} \cup Settled
           => f \in Pins \/ manifest[f] = Tree[f]
        /\ (pc \in Copying /\ f \notin todo) \/ pc = "recheck"
           => (work[f].stamp = marks[f] => manifest[f] = work[f].data)

(* A file that still has its stamp had it at the instant in the middle.    *)
MidwayInv ==
    \A f \in Files :
        /\ pc = "recheck" /\ work[f].stamp = marks[f] => midway[f] = work[f].data
        /\ (pc = "recheck" /\ f \notin todo) \/ pc \in Settled => manifest[f] = midway[f]

ArchiveInv ==
    /\ pc \notin Archiving \cup {"done", "failed"} => archive = Nothing
    /\ pc \in Archiving \cup {"done"} =>
          /\ \A f \in Pins : manifest[f] = Frozen[f]
          /\ \A f \in Files : archive[f] \in {Absent, manifest[f]}
    /\ pc = "done" => \A f \in Files : archive[f] # Absent

IInv == TypeOK /\ StampInv /\ IndexInv /\ FileInv /\ PartInv /\ CopyInv /\ MidwayInv /\ ArchiveInv

-----------------------------------------------------------------------------
(* Half a file written is a file.                                          *)
LEMMA HalfIsContents ==
    ASSUME NEW data \in Anything, NEW i \in {1, 2}, NEW v \in Values
    PROVE  Half(data, i, v) \in Contents
BY SnapshotAssumption DEF Half, Anything, Contents

(* Pieces of two readings are typed, and of two equal readings no mixture. *)
LEMMA PiecesAreContents ==
    ASSUME NEW a \in Contents, NEW b \in Contents
    PROVE  <<a[1], b[2]>> \in Contents /\ (a = b => <<a[1], b[2]>> = a)
BY DEF Contents

(* Every step of the developers, the tools and the builder keeps the types. *)
LEMMA TypeStep ==
    ASSUME TypeOK, FileInv, [Next]_vars
    PROVE  TypeOK'
<1>h. \A data \in Anything, i \in {1, 2}, v \in Values : Half(data, i, v) \in Anything
    BY HalfIsContents DEF Anything
<1>p. \A a, b \in Contents : <<a[1], b[2]>> \in Contents
    BY PiecesAreContents
<1> USE SnapshotAssumption DEF TypeOK, Anything, Stamped, Stamps, Locations, Copying,
          Archiving, repository, directory, progress
<1>1. ASSUME NEW f \in Files, EditHalf(f) PROVE TypeOK'
  <2>1. PICK i \in {1, 2}, v \in Values :
            work' = [work EXCEPT ![f] = [data |-> Half(@.data, i, v), stamp |-> changes']]
    BY <1>1 DEF EditHalf
  <2>2. Half(work[f].data, i, v) \in Anything
    BY <1>h
  <2>3. changes' \in 0..MaxChanges /\ changes' \in Stamps
    BY <1>1 DEF EditHalf, Change
  <2>4. work' \in [Files -> Stamped]
    BY <2>1, <2>2, <2>3
  <2> QED BY <1>1, <2>3, <2>4 DEF EditHalf, Change
<1>2. ASSUME NEW f \in Files, Remove(f) PROVE TypeOK'
    BY <1>2 DEF Remove, Change
<1>3. ASSUME NEW f \in Files, StagePath(f) PROVE TypeOK'
    BY <1>3 DEF StagePath, Change
<1>4. CASE MoveHead
    BY <1>4 DEF MoveHead, Change
<1>5. ASSUME NEW m \in Files \cup {Stray}, ToolWrites(m) PROVE TypeOK'
  <2>1. PICK data : /\ data \in {Half(private[m].data, 2, v) : v \in Values} \cup {Absent}
                    /\ private' = [private EXCEPT ![m] =
                                     [data |-> data, stamp |-> MaxChanges + writes']]
                    /\ names' = IF (data = Absent) = (private[m].data = Absent) THEN names
                                ELSE writes'
    BY <1>5 DEF ToolWrites
  <2>2. private[m].data \in Anything
    OBVIOUS
  <2>3. data \in Anything
    BY <2>1, <2>2, <1>h
  <2>4. writes' \in 0..MaxWrites /\ MaxChanges + writes' \in Stamps
    BY <1>5 DEF ToolWrites
  <2>5. private' \in [Files \cup {Stray} -> Stamped]
    BY <2>1, <2>3, <2>4
  <2>6. names' \in 0..MaxWrites
    BY <2>1, <2>4
  <2> QED BY <1>5, <2>4, <2>5, <2>6 DEF ToolWrites
<1>6. ASSUME NEW m \in Files \cup {Stray}, OpenMember(m) PROVE TypeOK'
    BY <1>6 DEF OpenMember, Goto
<1>7. CASE PinRepository
    BY <1>7 DEF PinRepository
<1>8. CASE VerifyHead
    BY <1>8 DEF VerifyHead, Goto, IndexPinned
<1>9. CASE VerifyStaged
    BY <1>9 DEF VerifyStaged, Goto, IndexPinned
<1>10. CASE ListIndex
    BY <1>10 DEF ListIndex, Goto, IndexPinned, Tracked
<1>11. ASSUME NEW f \in Files, OpenSource(f) PROVE TypeOK'
    BY <1>11 DEF OpenSource, Goto
<1>12. ASSUME NEW f \in Files, Recheck(f) PROVE TypeOK'
    BY <1>12 DEF Recheck, Goto
<1>13. CASE ReadSource
  <2>1. file \in Files => work[file].data \in Anything
    OBVIOUS
  <2>2. file \in Files
    BY <1>13 DEF ReadSource, FileInv, Reading
  <2>3. part' \in Anything
    BY <1>13, <1>p, <2>1, <2>2 DEF ReadSource
  <2> QED BY <1>13, <2>3 DEF ReadSource
<1>14. CASE VerifySource
    BY <1>14 DEF VerifySource, Goto
<1>15. CASE ReopenSource
    BY <1>15 DEF ReopenSource, Goto
<1>16. CASE ListAgain
    BY <1>16 DEF ListAgain, Goto, IndexPinned, Tracked
<1>17. CASE Rechecked
    BY <1>17 DEF Rechecked, Goto, IndexPinned
<1>18. CASE ComparePins
    BY <1>18 DEF ComparePins, Goto
<1>19. CASE ListMembers
    BY <1>19 DEF ListMembers, Members
<1>20. CASE ReadMember
  <2>1. private[file].data \in Anything
    OBVIOUS
  <2>2. part' \in Anything
    BY <1>20, <1>p, <2>1 DEF ReadMember
  <2> QED BY <1>20, <2>2 DEF ReadMember
<1>21. CASE VerifyMember
    BY <1>21 DEF VerifyMember, Goto
<1>22. CASE ArchiveDone
    BY <1>22 DEF ArchiveDone, Goto, Tracked
<1>23. CASE UNCHANGED vars
    BY <1>23 DEF vars, repository, directory, progress
<1> QED BY <1>1, <1>2, <1>3, <1>4, <1>5, <1>6, <1>7, <1>8, <1>9, <1>10, <1>11, <1>12,
          <1>13, <1>14, <1>15, <1>16, <1>17, <1>18, <1>19, <1>20, <1>21, <1>22, <1>23 DEF Next

(* A step that changes a file or the index gives it the newest stamp.      *)
LEMMA StampStep ==
    ASSUME TypeOK, [Next]_vars, StampInv
    PROVE  StampInv'
<1> USE SnapshotAssumption DEF TypeOK, Stamped, Stamps, StampInv, Reading, Copying,
          Archiving, repository, directory, progress
<1>1. ASSUME NEW f \in Files, EditHalf(f) PROVE StampInv'
    BY <1>1 DEF EditHalf, Change
<1>2. ASSUME NEW f \in Files, Remove(f) PROVE StampInv'
    BY <1>2 DEF Remove, Change
<1>3. ASSUME NEW f \in Files, StagePath(f) PROVE StampInv'
    BY <1>3 DEF StagePath, Change
<1>4. CASE MoveHead
    BY <1>4 DEF MoveHead, Change
<1>5. ASSUME NEW m \in Files \cup {Stray}, ToolWrites(m) PROVE StampInv'
    BY <1>5 DEF ToolWrites
<1>6. ASSUME NEW m \in Files \cup {Stray}, OpenMember(m) PROVE StampInv'
    BY <1>6 DEF OpenMember, Goto
<1>7. CASE PinRepository
    BY <1>7 DEF PinRepository
<1>8. CASE VerifyHead
    BY <1>8 DEF VerifyHead, Goto, IndexPinned
<1>9. CASE VerifyStaged
    BY <1>9 DEF VerifyStaged, Goto, IndexPinned
<1>10. CASE ListIndex
    BY <1>10 DEF ListIndex, Goto, IndexPinned, Tracked
<1>11. ASSUME NEW f \in Files, OpenSource(f) PROVE StampInv'
    BY <1>11 DEF OpenSource, Goto
<1>12. ASSUME NEW f \in Files, Recheck(f) PROVE StampInv'
    BY <1>12 DEF Recheck, Goto
<1>13. CASE ReadSource
    BY <1>13 DEF ReadSource
<1>14. CASE VerifySource
    BY <1>14 DEF VerifySource, Goto
<1>15. CASE ReopenSource
    BY <1>15 DEF ReopenSource, Goto
<1>16. CASE ListAgain
    BY <1>16 DEF ListAgain, Goto, IndexPinned, Tracked
<1>17. CASE Rechecked
    BY <1>17 DEF Rechecked, Goto, IndexPinned
<1>18. CASE ComparePins
    BY <1>18 DEF ComparePins, Goto
<1>19. CASE ListMembers
    BY <1>19 DEF ListMembers
<1>20. CASE ReadMember
    BY <1>20 DEF ReadMember
<1>21. CASE VerifyMember
    BY <1>21 DEF VerifyMember, Goto
<1>22. CASE ArchiveDone
    BY <1>22 DEF ArchiveDone, Goto, Tracked
<1>23. CASE UNCHANGED vars
    BY <1>23 DEF vars, repository, directory, progress
<1> QED BY <1>1, <1>2, <1>3, <1>4, <1>5, <1>6, <1>7, <1>8, <1>9, <1>10, <1>11, <1>12,
          <1>13, <1>14, <1>15, <1>16, <1>17, <1>18, <1>19, <1>20, <1>21, <1>22, <1>23 DEF Next

(* Nothing but a change of its stamp makes the pinned index another tree.  *)
LEMMA IndexStep ==
    ASSUME TypeOK, [Next]_vars, StampInv, IndexInv
    PROVE  IndexInv'
<1> USE SnapshotAssumption DEF TypeOK, Stamped, Stamps, StampInv, IndexInv, Copying,
          Archiving, Reading, Settled, Listed, repository, directory, progress
<1>1. ASSUME NEW f \in Files, EditHalf(f) PROVE IndexInv'
    BY <1>1 DEF EditHalf, Change
<1>2. ASSUME NEW f \in Files, Remove(f) PROVE IndexInv'
    BY <1>2 DEF Remove, Change
<1>3. ASSUME NEW f \in Files, StagePath(f) PROVE IndexInv'
    BY <1>3 DEF StagePath, Change
<1>4. CASE MoveHead
    BY <1>4 DEF MoveHead, Change
<1>5. ASSUME NEW m \in Files \cup {Stray}, ToolWrites(m) PROVE IndexInv'
    BY <1>5 DEF ToolWrites
<1>6. ASSUME NEW m \in Files \cup {Stray}, OpenMember(m) PROVE IndexInv'
    BY <1>6 DEF OpenMember, Goto
<1>7. CASE PinRepository
    BY <1>7 DEF PinRepository
<1>8. CASE VerifyHead
    BY <1>8 DEF VerifyHead, Goto, IndexPinned
<1>9. CASE VerifyStaged
    BY <1>9 DEF VerifyStaged, Goto, IndexPinned
<1>10. CASE ListIndex
    BY <1>10 DEF ListIndex, Goto, IndexPinned, Tracked
<1>11. ASSUME NEW f \in Files, OpenSource(f) PROVE IndexInv'
    BY <1>11 DEF OpenSource, Goto
<1>12. ASSUME NEW f \in Files, Recheck(f) PROVE IndexInv'
    BY <1>12 DEF Recheck, Goto
<1>13. CASE ReadSource
    BY <1>13 DEF ReadSource
<1>14. CASE VerifySource
    BY <1>14 DEF VerifySource, Goto
<1>15. CASE ReopenSource
    BY <1>15 DEF ReopenSource, Goto
<1>16. CASE ListAgain
    BY <1>16 DEF ListAgain, Goto, IndexPinned, Tracked
<1>17. CASE Rechecked
    BY <1>17 DEF Rechecked, Goto, IndexPinned
<1>18. CASE ComparePins
    BY <1>18 DEF ComparePins, Goto
<1>19. CASE ListMembers
    BY <1>19 DEF ListMembers
<1>20. CASE ReadMember
    BY <1>20 DEF ReadMember
<1>21. CASE VerifyMember
    BY <1>21 DEF VerifyMember, Goto
<1>22. CASE ArchiveDone
    BY <1>22 DEF ArchiveDone, Goto, Tracked
<1>23. CASE UNCHANGED vars
    BY <1>23 DEF vars, repository, directory, progress
<1> QED BY <1>1, <1>2, <1>3, <1>4, <1>5, <1>6, <1>7, <1>8, <1>9, <1>10, <1>11, <1>12,
          <1>13, <1>14, <1>15, <1>16, <1>17, <1>18, <1>19, <1>20, <1>21, <1>22, <1>23 DEF Next

(* The file in progress is one of the files that are left.                 *)
LEMMA FileStep ==
    ASSUME TypeOK, [Next]_vars, IndexInv, FileInv
    PROVE  FileInv'
<1> USE SnapshotAssumption DEF FileInv, IndexInv, Tracked, Adding, Copying, Archiving,
          Reading, Settled, Listed, repository, directory, progress
<1>1. ASSUME NEW f \in Files, EditHalf(f) PROVE FileInv'
    BY <1>1 DEF EditHalf, Change
<1>2. ASSUME NEW f \in Files, Remove(f) PROVE FileInv'
    BY <1>2 DEF Remove, Change
<1>3. ASSUME NEW f \in Files, StagePath(f) PROVE FileInv'
    BY <1>3 DEF StagePath, Change
<1>4. CASE MoveHead
    BY <1>4 DEF MoveHead, Change
<1>5. ASSUME NEW m \in Files \cup {Stray}, ToolWrites(m) PROVE FileInv'
    BY <1>5 DEF ToolWrites
<1>6. ASSUME NEW m \in Files \cup {Stray}, OpenMember(m) PROVE FileInv'
    BY <1>6 DEF OpenMember, Goto
<1>7. CASE PinRepository
    BY <1>7 DEF PinRepository
<1>8. CASE VerifyHead
    BY <1>8 DEF VerifyHead, Goto, IndexPinned
<1>9. CASE VerifyStaged
    BY <1>9 DEF VerifyStaged, Goto, IndexPinned
<1>10. CASE ListIndex
    BY <1>10 DEF ListIndex, Goto, IndexPinned, Tracked
<1>11. ASSUME NEW f \in Files, OpenSource(f) PROVE FileInv'
    BY <1>11 DEF OpenSource, Goto
<1>12. ASSUME NEW f \in Files, Recheck(f) PROVE FileInv'
    BY <1>12 DEF Recheck, Goto
<1>13. CASE ReadSource
    BY <1>13 DEF ReadSource
<1>14. CASE VerifySource
    BY <1>14 DEF VerifySource, Goto
<1>15. CASE ReopenSource
    BY <1>15 DEF ReopenSource, Goto
<1>16. CASE ListAgain
    BY <1>16 DEF ListAgain, Goto, IndexPinned, Tracked
<1>17. CASE Rechecked
    BY <1>17 DEF Rechecked, Goto, IndexPinned
<1>18. CASE ComparePins
    BY <1>18 DEF ComparePins, Goto
<1>19. CASE ListMembers
    BY <1>19 DEF ListMembers
<1>20. CASE ReadMember
    BY <1>20 DEF ReadMember
<1>21. CASE VerifyMember
    BY <1>21 DEF VerifyMember, Goto
<1>22. CASE ArchiveDone
    BY <1>22 DEF ArchiveDone, Goto, Tracked
<1>23. CASE UNCHANGED vars
    BY <1>23 DEF vars, repository, directory, progress
<1> QED BY <1>1, <1>2, <1>3, <1>4, <1>5, <1>6, <1>7, <1>8, <1>9, <1>10, <1>11, <1>12,
          <1>13, <1>14, <1>15, <1>16, <1>17, <1>18, <1>19, <1>20, <1>21, <1>22, <1>23 DEF Next

(* ReadSource puts no mixture together that the stamps would not betray.   *)
LEMMA PartStep ==
    ASSUME TypeOK, [Next]_vars, StampInv, IndexInv, FileInv, PartInv
    PROVE  PartInv'
<1>p. \A a, b \in Contents : a = b => <<a[1], b[2]>> = a
    BY PiecesAreContents
<1> USE SnapshotAssumption DEF TypeOK, Anything, Stamped, Stamps, StampInv, IndexInv,
          FileInv, PartInv, Copying, Archiving, Reading, Settled, Listed, repository,
          directory, progress
<1>1. ASSUME NEW f \in Files, EditHalf(f) PROVE PartInv'
    BY <1>1 DEF EditHalf, Change
<1>2. ASSUME NEW f \in Files, Remove(f) PROVE PartInv'
    BY <1>2 DEF Remove, Change
<1>3. ASSUME NEW f \in Files, StagePath(f) PROVE PartInv'
    BY <1>3 DEF StagePath, Change
<1>4. CASE MoveHead
    BY <1>4 DEF MoveHead, Change
<1>5. ASSUME NEW m \in Files \cup {Stray}, ToolWrites(m) PROVE PartInv'
    BY <1>5 DEF ToolWrites
<1>6. ASSUME NEW m \in Files \cup {Stray}, OpenMember(m) PROVE PartInv'
    BY <1>6 DEF OpenMember, Goto
<1>7. CASE PinRepository
    BY <1>7 DEF PinRepository
<1>8. CASE VerifyHead
    BY <1>8 DEF VerifyHead, Goto, IndexPinned
<1>9. CASE VerifyStaged
    BY <1>9 DEF VerifyStaged, Goto, IndexPinned
<1>10. CASE ListIndex
    BY <1>10 DEF ListIndex, Goto, IndexPinned, Tracked
<1>11. ASSUME NEW f \in Files, OpenSource(f) PROVE PartInv'
    BY <1>11 DEF OpenSource, Goto
<1>12. ASSUME NEW f \in Files, Recheck(f) PROVE PartInv'
    BY <1>12 DEF Recheck, Goto
<1>13. CASE ReadSource
  <2>1. CASE pc = "read"
    BY <1>13, <2>1 DEF ReadSource
  <2>2. CASE pc = "readMore"
    <3>1. pc' = "verify" /\ file \in Files /\ work' = work /\ file' = file /\ mark' = mark
      BY <1>13, <2>2 DEF ReadSource
    <3>2. SUFFICES ASSUME work[file].stamp = mark PROVE part' = work[file].data
      BY <3>1
    <3>3. part = work[file].data
      BY <2>2, <3>2
    <3>4. part' = part
      <4>1. CASE part = Absent
        BY <1>13, <2>2, <3>3, <4>1 DEF ReadSource
      <4>2. CASE part # Absent
        <5>1. part \in Contents
          BY <4>2
        <5>2. part' = <<part[1], part[2]>>
          BY <1>13, <2>2, <3>3, <4>2 DEF ReadSource
        <5> QED BY <5>1, <5>2, <1>p
      <4> QED BY <4>1, <4>2
    <3> QED BY <3>3, <3>4
  <2> QED BY <1>13, <2>1, <2>2 DEF ReadSource
<1>14. CASE VerifySource
    BY <1>14 DEF VerifySource, Goto
<1>15. CASE ReopenSource
    BY <1>15 DEF ReopenSource, Goto
<1>16. CASE ListAgain
    BY <1>16 DEF ListAgain, Goto, IndexPinned, Tracked
<1>17. CASE Rechecked
    BY <1>17 DEF Rechecked, Goto, IndexPinned
<1>18. CASE ComparePins
    BY <1>18 DEF ComparePins, Goto
<1>19. CASE ListMembers
    BY <1>19 DEF ListMembers
<1>20. CASE ReadMember
    BY <1>20 DEF ReadMember
<1>21. CASE VerifyMember
    BY <1>21 DEF VerifyMember, Goto
<1>22. CASE ArchiveDone
    BY <1>22 DEF ArchiveDone, Goto, Tracked
<1>23. CASE UNCHANGED vars
    BY <1>23 DEF vars, repository, directory, progress
<1> QED BY <1>1, <1>2, <1>3, <1>4, <1>5, <1>6, <1>7, <1>8, <1>9, <1>10, <1>11, <1>12,
          <1>13, <1>14, <1>15, <1>16, <1>17, <1>18, <1>19, <1>20, <1>21, <1>22, <1>23 DEF Next

(* ReopenSource adds a file to the copy that is as the index lists it.     *)
LEMMA CopyStep ==
    ASSUME TypeOK, [Next]_vars, StampInv, IndexInv, FileInv, PartInv, CopyInv
    PROVE  CopyInv'
<1> USE SnapshotAssumption DEF TypeOK, Anything, Stamped, Stamps, StampInv, IndexInv,
          FileInv, PartInv, CopyInv, Copying, Archiving, Reading, Settled, Listed,
          repository, directory, progress
<1>1. ASSUME NEW f \in Files, EditHalf(f) PROVE CopyInv'
    BY <1>1 DEF EditHalf, Change
<1>2. ASSUME NEW f \in Files, Remove(f) PROVE CopyInv'
    BY <1>2 DEF Remove, Change
<1>3. ASSUME NEW f \in Files, StagePath(f) PROVE CopyInv'
    BY <1>3 DEF StagePath, Change
<1>4. CASE MoveHead
    BY <1>4 DEF MoveHead, Change
<1>5. ASSUME NEW m \in Files \cup {Stray}, ToolWrites(m) PROVE CopyInv'
    BY <1>5 DEF ToolWrites
<1>6. ASSUME NEW m \in Files \cup {Stray}, OpenMember(m) PROVE CopyInv'
    BY <1>6 DEF OpenMember, Goto
<1>7. CASE PinRepository
    BY <1>7 DEF PinRepository
<1>8. CASE VerifyHead
    BY <1>8 DEF VerifyHead, Goto, IndexPinned
<1>9. CASE VerifyStaged
    BY <1>9 DEF VerifyStaged, Goto, IndexPinned
<1>10. CASE ListIndex
    BY <1>10 DEF ListIndex, Goto, IndexPinned, Tracked
<1>11. ASSUME NEW f \in Files, OpenSource(f) PROVE CopyInv'
    BY <1>11 DEF OpenSource, Goto
<1>12. ASSUME NEW f \in Files, Recheck(f) PROVE CopyInv'
    BY <1>12 DEF Recheck, Goto
<1>13. CASE ReadSource
    BY <1>13 DEF ReadSource
<1>14. CASE VerifySource
    BY <1>14 DEF VerifySource, Goto
<1>15. CASE ReopenSource
    BY <1>15 DEF ReopenSource, Goto
<1>16. CASE ListAgain
    BY <1>16 DEF ListAgain, Goto, IndexPinned, Tracked
<1>17. CASE Rechecked
    BY <1>17 DEF Rechecked, Goto, IndexPinned
<1>18. CASE ComparePins
    BY <1>18 DEF ComparePins, Goto
<1>19. CASE ListMembers
    BY <1>19 DEF ListMembers
<1>20. CASE ReadMember
    BY <1>20 DEF ReadMember
<1>21. CASE VerifyMember
    BY <1>21 DEF VerifyMember, Goto
<1>22. CASE ArchiveDone
    BY <1>22 DEF ArchiveDone, Goto, Tracked
<1>23. CASE UNCHANGED vars
    BY <1>23 DEF vars, repository, directory, progress
<1> QED BY <1>1, <1>2, <1>3, <1>4, <1>5, <1>6, <1>7, <1>8, <1>9, <1>10, <1>11, <1>12,
          <1>13, <1>14, <1>15, <1>16, <1>17, <1>18, <1>19, <1>20, <1>21, <1>22, <1>23 DEF Next

(* A file that Recheck accepts was as it was copied when ListAgain looked. *)
LEMMA MidwayStep ==
    ASSUME TypeOK, [Next]_vars, StampInv, IndexInv, FileInv, CopyInv, MidwayInv
    PROVE  MidwayInv'
<1> USE SnapshotAssumption DEF TypeOK, Stamped, Stamps, StampInv, IndexInv, FileInv,
          CopyInv, MidwayInv, Copying, Archiving, Reading, Settled, Listed, repository,
          directory, progress
<1>1. ASSUME NEW f \in Files, EditHalf(f) PROVE MidwayInv'
    BY <1>1 DEF EditHalf, Change
<1>2. ASSUME NEW f \in Files, Remove(f) PROVE MidwayInv'
    BY <1>2 DEF Remove, Change
<1>3. ASSUME NEW f \in Files, StagePath(f) PROVE MidwayInv'
    BY <1>3 DEF StagePath, Change
<1>4. CASE MoveHead
    BY <1>4 DEF MoveHead, Change
<1>5. ASSUME NEW m \in Files \cup {Stray}, ToolWrites(m) PROVE MidwayInv'
    BY <1>5 DEF ToolWrites
<1>6. ASSUME NEW m \in Files \cup {Stray}, OpenMember(m) PROVE MidwayInv'
    BY <1>6 DEF OpenMember, Goto
<1>7. CASE PinRepository
    BY <1>7 DEF PinRepository
<1>8. CASE VerifyHead
    BY <1>8 DEF VerifyHead, Goto, IndexPinned
<1>9. CASE VerifyStaged
    BY <1>9 DEF VerifyStaged, Goto, IndexPinned
<1>10. CASE ListIndex
    BY <1>10 DEF ListIndex, Goto, IndexPinned, Tracked
<1>11. ASSUME NEW f \in Files, OpenSource(f) PROVE MidwayInv'
    BY <1>11 DEF OpenSource, Goto
<1>12. ASSUME NEW f \in Files, Recheck(f) PROVE MidwayInv'
    BY <1>12 DEF Recheck, Goto
<1>13. CASE ReadSource
    BY <1>13 DEF ReadSource
<1>14. CASE VerifySource
    BY <1>14 DEF VerifySource, Goto
<1>15. CASE ReopenSource
    BY <1>15 DEF ReopenSource, Goto
<1>16. CASE ListAgain
    BY <1>16 DEF ListAgain, Goto, IndexPinned, Tracked
<1>17. CASE Rechecked
    BY <1>17 DEF Rechecked, Goto, IndexPinned
<1>18. CASE ComparePins
    BY <1>18 DEF ComparePins, Goto
<1>19. CASE ListMembers
    BY <1>19 DEF ListMembers
<1>20. CASE ReadMember
    BY <1>20 DEF ReadMember
<1>21. CASE VerifyMember
    BY <1>21 DEF VerifyMember, Goto
<1>22. CASE ArchiveDone
    BY <1>22 DEF ArchiveDone, Goto, Tracked
<1>23. CASE UNCHANGED vars
    BY <1>23 DEF vars, repository, directory, progress
<1> QED BY <1>1, <1>2, <1>3, <1>4, <1>5, <1>6, <1>7, <1>8, <1>9, <1>10, <1>11, <1>12,
          <1>13, <1>14, <1>15, <1>16, <1>17, <1>18, <1>19, <1>20, <1>21, <1>22, <1>23 DEF Next

(* VerifyMember archives what was copied, ArchiveDone all of it.           *)
LEMMA ArchiveStep ==
    ASSUME TypeOK, [Next]_vars, IndexInv, FileInv, CopyInv, ArchiveInv
    PROVE  ArchiveInv'
<1> USE SnapshotAssumption DEF TypeOK, IndexInv, FileInv, CopyInv, ArchiveInv, Adding,
          Nothing, Copying, Archiving, Reading, Settled, Listed, repository, directory,
          progress
<1>1. ASSUME NEW f \in Files, EditHalf(f) PROVE ArchiveInv'
    BY <1>1 DEF EditHalf, Change
<1>2. ASSUME NEW f \in Files, Remove(f) PROVE ArchiveInv'
    BY <1>2 DEF Remove, Change
<1>3. ASSUME NEW f \in Files, StagePath(f) PROVE ArchiveInv'
    BY <1>3 DEF StagePath, Change
<1>4. CASE MoveHead
    BY <1>4 DEF MoveHead, Change
<1>5. ASSUME NEW m \in Files \cup {Stray}, ToolWrites(m) PROVE ArchiveInv'
    BY <1>5 DEF ToolWrites
<1>6. ASSUME NEW m \in Files \cup {Stray}, OpenMember(m) PROVE ArchiveInv'
    BY <1>6 DEF OpenMember, Goto
<1>7. CASE PinRepository
    BY <1>7 DEF PinRepository
<1>8. CASE VerifyHead
    BY <1>8 DEF VerifyHead, Goto, IndexPinned
<1>9. CASE VerifyStaged
    BY <1>9 DEF VerifyStaged, Goto, IndexPinned
<1>10. CASE ListIndex
    BY <1>10 DEF ListIndex, Goto, IndexPinned, Tracked
<1>11. ASSUME NEW f \in Files, OpenSource(f) PROVE ArchiveInv'
    BY <1>11 DEF OpenSource, Goto
<1>12. ASSUME NEW f \in Files, Recheck(f) PROVE ArchiveInv'
    BY <1>12 DEF Recheck, Goto
<1>13. CASE ReadSource
    BY <1>13 DEF ReadSource
<1>14. CASE VerifySource
    BY <1>14 DEF VerifySource, Goto
<1>15. CASE ReopenSource
    BY <1>15 DEF ReopenSource, Goto
<1>16. CASE ListAgain
    BY <1>16 DEF ListAgain, Goto, IndexPinned, Tracked
<1>17. CASE Rechecked
    BY <1>17 DEF Rechecked, Goto, IndexPinned
<1>18. CASE ComparePins
    BY <1>18 DEF ComparePins, Goto
<1>19. CASE ListMembers
    BY <1>19 DEF ListMembers
<1>20. CASE ReadMember
    BY <1>20 DEF ReadMember
<1>21. CASE VerifyMember
    BY <1>21 DEF VerifyMember, Goto
<1>22. CASE ArchiveDone
    BY <1>22 DEF ArchiveDone, Goto, Tracked
<1>23. CASE UNCHANGED vars
    BY <1>23 DEF vars, repository, directory, progress
<1> QED BY <1>1, <1>2, <1>3, <1>4, <1>5, <1>6, <1>7, <1>8, <1>9, <1>10, <1>11, <1>12,
          <1>13, <1>14, <1>15, <1>16, <1>17, <1>18, <1>19, <1>20, <1>21, <1>22, <1>23 DEF Next

-----------------------------------------------------------------------------
(* The invariant holds before the builder's first step.                    *)
LEMMA InitHolds ==
    ASSUME Init
    PROVE  IInv
<1> USE SnapshotAssumption
<1>1. TypeOK
  <2>1. 0 \in Stamps /\ Absent \in Anything /\ Contents \subseteq Anything
    BY DEF Stamps, Anything
  <2>2. work \in [Files -> Stamped]
    <3>1. \A f \in Files : (IF f \in Pins THEN Frozen[f] ELSE Tree[f]) \in Anything
      BY <2>1
    <3> QED BY <2>1, <3>1 DEF Init, Stamped
  <2>3. index \in [data : [Files -> Anything], stamp : Stamps]
    BY <2>1 DEF Init
  <2>4. private \in [Files \cup {Stray} -> Stamped]
    <3>1. [data |-> Absent, stamp |-> 0] \in Stamped
      BY <2>1 DEF Stamped
    <3> QED BY <3>1 DEF Init
  <2>5. marks \in [Files -> Stamps] /\ pinned \in Stamps /\ mark \in Stamps
    BY <2>1 DEF Init
  <2>6. {entries, manifest, archive, midway} \subseteq [Files -> Anything] /\ part \in Anything
    BY <2>1 DEF Init, Nothing
  <2>7. /\ changes \in 0..MaxChanges /\ writes \in 0..MaxWrites
        /\ {names, listed} \subseteq 0..MaxWrites
    BY DEF Init
  <2>8. moved \in BOOLEAN /\ pc \in Locations
    BY Zenon DEF Init, Locations
  <2>9. todo \subseteq Files \cup {Stray} /\ file \in Files \cup {Stray}
    BY DEF Init
  <2> QED BY <2>2, <2>3, <2>4, <2>5, <2>6, <2>7, <2>8, <2>9 DEF TypeOK
<1>2. StampInv /\ IndexInv /\ FileInv
    BY DEF Init, StampInv, IndexInv, FileInv, Reading, Adding, Copying, Listed, Settled, Archiving
<1>3. PartInv /\ CopyInv /\ MidwayInv
    BY DEF Init, PartInv, CopyInv, MidwayInv, Reading, Copying, Settled, Archiving
<1>4. ArchiveInv
    BY DEF Init, ArchiveInv, Archiving
<1> QED BY <1>1, <1>2, <1>3, <1>4 DEF IInv

(* The invariant is inductive.                                             *)
LEMMA StepHolds ==
    ASSUME IInv, [Next]_vars
    PROVE  IInv'
<1>1. TypeOK /\ StampInv /\ IndexInv /\ FileInv /\ PartInv /\ CopyInv /\ MidwayInv /\ ArchiveInv
    BY DEF IInv
<1>2. TypeOK' /\ StampInv' /\ IndexInv' /\ FileInv'
    BY <1>1, TypeStep, StampStep, IndexStep, FileStep
<1>3. PartInv' /\ CopyInv' /\ MidwayInv' /\ ArchiveInv'
    BY <1>1, PartStep, CopyStep, MidwayStep, ArchiveStep
<1> QED BY <1>2, <1>3 DEF IInv

(* The invariant holds of every behaviour.                                 *)
THEOREM Invariant == Spec => []IInv
<1>1. Init => IInv
    BY InitHolds
<1>2. IInv /\ [Next]_vars => IInv'
    BY StepHolds
<1> QED BY <1>1, <1>2, PTL DEF Spec

(* The state of the copy and of the archive keeps its types, for any files *)
(* and any number of changes.                                              *)
THEOREM TypeCorrect == Spec => []TypeOK
<1>1. IInv => TypeOK
    BY DEF IInv
<1> QED BY <1>1, Invariant, PTL

(* copy_public_tree, the comparison of the pins and add_tree: however      *)
(* files, index, HEAD and private directory change meanwhile, an archive   *)
(* that is accepted is the expected commit with the frozen pins.           *)
THEOREM ArchiveIsExact == Spec => []ArchiveIsTheCommit
<1>1. IInv => ArchiveIsTheCommit
  <2>1. SUFFICES ASSUME IInv, pc = "done"
                 PROVE  archive = [f \in Files |-> IF f \in Pins THEN Frozen[f] ELSE Tree[f]]
    BY DEF ArchiveIsTheCommit
  <2>2. archive \in [Files -> Anything]
    BY <2>1 DEF IInv, TypeOK
  <2>3. \A f \in Files : archive[f] = manifest[f]
    BY <2>1 DEF IInv, ArchiveInv
  <2>4. \A f \in Pins : manifest[f] = Frozen[f]
    BY <2>1 DEF IInv, ArchiveInv
  <2>5. \A f \in Files \ Pins : manifest[f] = Tree[f]
    BY <2>1 DEF IInv, CopyInv, Settled
  <2> QED BY <2>2, <2>3, <2>4, <2>5
<1> QED BY <1>1, Invariant, PTL

(* copy_public_tree: files that are copied one after the other, each with  *)
(* its stamp unchanged at the end, are the worktree of one instant.        *)
THEOREM CopyIsAtomic == Spec => []CopyIsOneInstant
<1>1. IInv => CopyIsOneInstant
    BY DEF IInv, MidwayInv, CopyIsOneInstant, Settled
<1> QED BY <1>1, Invariant, PTL
=============================================================================
