------------------------- MODULE ArchiveOutputProofs -------------------------
(***************************************************************************)
(* TLAPS proofs about ArchiveOutput, for any number of builders, crashes,  *)
(* interrupts and changes by somebody else.                                *)
(***************************************************************************)
EXTENDS ArchiveOutput, TLAPS

NoTamper == faults.tampers = 0

(* A new lock file is a tampering: its number counts them.                 *)
Typed == TypeOK /\ lockFile <= faults.tampers + 1

(* Every file a builder has under some name is its own, and past the write *)
(* it is whole; so is whatever came under the output or a backup name.     *)
WholeInv ==
    /\ out \in Builders => out \in whole
    /\ \A b \in Builders :
          /\ tmp[b] \in {b, Stranger, Absent}
          /\ old[b] \in Builders => old[b] \in whole
          /\ pc[b] \in {"sync", "checkLock", "checkStaged", "link", "open", "checkOld", "rename"}
                => b \in whole

Untouched(b) ==
    /\ tmp[b] = Absent /\ old[b] = Absent /\ kept[b] = Absent
    /\ turn[b] = 0

(* Nobody touches the names without the lock, which one builder has.       *)
LockInv ==
    NoTamper =>
    /\ lockFile = 1
    /\ \A b, c \in Builders : lockedFile[b] = 1 /\ lockedFile[c] = 1 => b = c
    /\ \A b \in Builders :
          /\ lockedFile[b] \in {0, 1}
          /\ pc[b] \in (MainSteps \ {"lock"}) \cup {"rollback"} => lockedFile[b] = 1
          /\ lockedFile[b] = 0 /\ pc[b] \notin {"done", "killed"} => Untouched(b)
          /\ pc[b] \in {"done", "killed"} => lockedFile[b] = 0

BeforeRename == {"idle", "lock", "stage", "write", "sync", "checkLock", "checkStaged",
                 "link", "open", "checkOld", "rename"}
AfterRename == {"note", "verify", "confirm", "dropOld"}

(* Where each builder's archive is, by its location and its notes.         *)
PlaceInv ==
    NoTamper =>
    \A b \in Builders :
       /\ tmp[b] \in {b, Absent}
       /\ turn[b] > 0 => tmp[b] = Absent
       /\ turn[b] <= renames
       /\ out = b => turn[b] > 0
       /\ \A c \in Builders : old[c] = b => turn[b] > 0
       /\ pc[b] \in BeforeRename => turn[b] = 0 /\ outcome[b] = "none"
       /\ pc[b] \in AfterRename \cup {"rollback"} => out = b
       /\ pc[b] = "rescue" /\ turn[b] > 0 => out = b
       /\ b \in replaced \cup cut => turn[b] > 0
       /\ b \in published => b \in replaced
       /\ turn[b] > 0 /\ pc[b] \notin {"note", "killed"} => b \in replaced \cup cut
       /\ pc[b] \in {"verify", "confirm", "rollback"} => b \in replaced \ published
       /\ pc[b] = "note" => b \notin replaced \cup cut
       /\ pc[b] = "dropOld" => b \in published

(* A builder whose link may still be renamed back.                         *)
Critical(c) ==
    /\ pc[c] \in {"open", "checkOld", "rename", "note", "verify", "confirm", "rescue", "rollback"}
    /\ old[c] # Absent /\ c \notin published

(* What became of the archive that builder b found.                        *)
KeptInv ==
    NoTamper =>
    \A b \in Builders :
       /\ old[b] # b
       /\ pc[b] \in BeforeRename \ {"open", "checkOld", "rename"}
             => old[b] = Absent /\ kept[b] = Absent
       /\ pc[b] = "open" => kept[b] = Absent /\ old[b] = out
       /\ pc[b] \in {"checkOld", "rename"} => kept[b] = old[b] /\ old[b] = out
       /\ pc[b] \in {"rescue", "dropStaged", "dropBackup", "unlock"} /\ turn[b] = 0
             /\ kept[b] # Absent => kept[b] = out
       /\ kept[b] # Absent /\ turn[b] > 0 /\ b \notin published \cup cut =>
             /\ out = b \/ (\E c \in Builders : Critical(c) /\ old[c] = b) => kept[b] = old[b]
             /\ lockedFile[b] # 0 => kept[b] \in {out, old[b]}

(* File f is as late as every success.                                     *)
Supersedes(f) ==
    \A b \in Builders : outcome[b] = "ok" => f \in Builders /\ turn[f] >= turn[b]

(* So are the output and every link that may still be renamed back.        *)
SuccessInv ==
    NoTamper =>
    /\ Supersedes(out)
    /\ \A c \in Builders : Critical(c) => Supersedes(old[c])
    /\ \A b \in Builders :
          outcome[b] = "ok" => pc[b] \in {"dropStaged", "dropBackup", "unlock", "done", "killed"}

(* Without interrupts a link that is there is the one that was noted.      *)
CleanInv ==
    NoTamper /\ faults.interrupts = 0 =>
    \A b \in Builders :
       /\ pc[b] \in {"dropBackup", "unlock", "done"} => tmp[b] = Absent
       /\ pc[b] \notin {"open", "killed"} /\ old[b] # Absent => kept[b] = old[b]
       /\ pc[b] \in {"unlock", "done"} /\ old[b] # Absent => b \in replaced \ published

IInv ==
    /\ Typed /\ WholeInv /\ LockInv /\ PlaceInv /\ KeptInv
    /\ SuccessInv /\ CleanInv

(* The types are kept.                                                     *)
LEMMA TypeStep == Typed /\ [Next]_vars => Typed'
<1> SUFFICES ASSUME Typed, [Next]_vars PROVE Typed'
  OBVIOUS
<1> USE OutputAssumption
    DEF Typed, TypeOK, Locations, MainSteps, Files,
        At, Goto, names, locks, notes, history
<1>1. CASE UNCHANGED vars
  BY <1>1 DEF vars, names, locks, notes, history
<1>2. ASSUME NEW b \in Builders, Begin(b) PROVE Typed'
  BY <1>2 DEF Begin
<1>3. ASSUME NEW b \in Builders, TakeLock(b) PROVE Typed'
  BY <1>3 DEF TakeLock, LockFree
<1>4. ASSUME NEW b \in Builders, Stage(b) PROVE Typed'
  BY <1>4 DEF Stage
<1>5. ASSUME NEW b \in Builders, WriteArchive(b) PROVE Typed'
  BY <1>5 DEF WriteArchive
<1>6. ASSUME NEW b \in Builders, SyncStaged(b) PROVE Typed'
  BY <1>6 DEF SyncStaged
<1>7. ASSUME NEW b \in Builders, CheckLock(b) PROVE Typed'
  BY <1>7 DEF CheckLock
<1>8. ASSUME NEW b \in Builders, CheckStaged(b) PROVE Typed'
  BY <1>8 DEF CheckStaged, Matches
<1>9. ASSUME NEW b \in Builders, LinkBackup(b) PROVE Typed'
  BY <1>9 DEF LinkBackup
<1>10. ASSUME NEW b \in Builders, OpenBackup(b) PROVE Typed'
  BY <1>10 DEF OpenBackup
<1>11. ASSUME NEW b \in Builders, CheckBackup(b) PROVE Typed'
  BY <1>11 DEF CheckBackup
<1>12. ASSUME NEW b \in Builders, Rename(b) PROVE Typed'
  BY <1>12 DEF Rename
<1>13. ASSUME NEW b \in Builders, NoteRename(b) PROVE Typed'
  BY <1>13 DEF NoteRename
<1>14. ASSUME NEW b \in Builders, VerifyPublished(b) PROVE Typed'
  BY <1>14 DEF VerifyPublished, Matches
<1>15. ASSUME NEW b \in Builders, Confirm(b) PROVE Typed'
  BY <1>15 DEF Confirm
<1>16. ASSUME NEW b \in Builders, DropOld(b) PROVE Typed'
  BY <1>16 DEF DropOld, UnlinkBackup
<1>17. ASSUME NEW b \in Builders, Fail(b) PROVE Typed'
  BY <1>17 DEF Fail
<1>18. ASSUME NEW b \in Builders, Rescue(b) PROVE Typed'
  BY <1>18 DEF Rescue, MayRollBack, Matches
<1>19. ASSUME NEW b \in Builders, RollBack(b) PROVE Typed'
  BY <1>19 DEF RollBack
<1>20. ASSUME NEW b \in Builders, DropStaged(b) PROVE Typed'
  BY <1>20 DEF DropStaged
<1>21. ASSUME NEW b \in Builders, DropBackup(b) PROVE Typed'
  BY <1>21 DEF DropBackup, UnlinkBackup
<1>22. ASSUME NEW b \in Builders, Unlock(b) PROVE Typed'
  BY <1>22 DEF Unlock
<1>23. ASSUME NEW b \in Builders, Interrupt(b) PROVE Typed'
  BY <1>23 DEF Interrupt, AfterInterrupt
<1>24. ASSUME NEW b \in Builders, Crash(b) PROVE Typed'
  BY <1>24 DEF Crash
<1>25. CASE Tamper
  <2>1. faults' \in [interrupts : 0..MaxInterrupts, crashes : 0..MaxCrashes, tampers : 0..MaxTampers]
    BY <1>25 DEF Tamper
  <2>2. lockFile' \in 1..MaxTampers + 1 /\ lockedFile' \in [Builders -> 0..MaxTampers + 1]
    BY <1>25 DEF Tamper
  <2>3. out' \in Files \cup {Absent} /\ tmp' \in [Builders -> Files \cup {Absent}]
        /\ old' \in [Builders -> Files \cup {Absent}]
    BY <1>25 DEF Tamper
  <2> QED
    BY <1>25, <2>1, <2>2, <2>3 DEF Tamper
<1> QED
  BY <1>1, <1>2, <1>3, <1>4, <1>5, <1>6, <1>7, <1>8, <1>9, <1>10, <1>11, <1>12,
     <1>13, <1>14, <1>15, <1>16, <1>17, <1>18, <1>19, <1>20, <1>21, <1>22, <1>23, <1>24, <1>25 DEF Next, Step

(* Only a whole file is renamed to the output, and only files that had the *)
(* output name are linked and renamed back.                                *)
LEMMA WholeStep == TypeOK /\ WholeInv /\ [Next]_vars => WholeInv'
<1> SUFFICES ASSUME TypeOK, WholeInv, [Next]_vars PROVE WholeInv'
  OBVIOUS
<1> USE OutputAssumption
    DEF TypeOK, WholeInv, Files, MainSteps,
        At, Goto, names, locks, notes, history
<1>1. CASE UNCHANGED vars
  BY <1>1 DEF vars, names, locks, notes, history
<1>2. ASSUME NEW b \in Builders, Begin(b) PROVE WholeInv'
  BY <1>2 DEF Begin
<1>3. ASSUME NEW b \in Builders, TakeLock(b) PROVE WholeInv'
  BY <1>3 DEF TakeLock, LockFree
<1>4. ASSUME NEW b \in Builders, Stage(b) PROVE WholeInv'
  BY <1>4 DEF Stage
<1>5. ASSUME NEW b \in Builders, WriteArchive(b) PROVE WholeInv'
  BY <1>5 DEF WriteArchive
<1>6. ASSUME NEW b \in Builders, SyncStaged(b) PROVE WholeInv'
  BY <1>6 DEF SyncStaged
<1>7. ASSUME NEW b \in Builders, CheckLock(b) PROVE WholeInv'
  BY <1>7 DEF CheckLock
<1>8. ASSUME NEW b \in Builders, CheckStaged(b) PROVE WholeInv'
  BY <1>8 DEF CheckStaged, Matches
<1>9. ASSUME NEW b \in Builders, LinkBackup(b) PROVE WholeInv'
  BY <1>9 DEF LinkBackup
<1>10. ASSUME NEW b \in Builders, OpenBackup(b) PROVE WholeInv'
  BY <1>10 DEF OpenBackup
<1>11. ASSUME NEW b \in Builders, CheckBackup(b) PROVE WholeInv'
  BY <1>11 DEF CheckBackup
<1>12. ASSUME NEW b \in Builders, Rename(b) PROVE WholeInv'
  BY <1>12 DEF Rename
<1>13. ASSUME NEW b \in Builders, NoteRename(b) PROVE WholeInv'
  BY <1>13 DEF NoteRename
<1>14. ASSUME NEW b \in Builders, VerifyPublished(b) PROVE WholeInv'
  BY <1>14 DEF VerifyPublished, Matches
<1>15. ASSUME NEW b \in Builders, Confirm(b) PROVE WholeInv'
  BY <1>15 DEF Confirm
<1>16. ASSUME NEW b \in Builders, DropOld(b) PROVE WholeInv'
  BY <1>16 DEF DropOld, UnlinkBackup
<1>17. ASSUME NEW b \in Builders, Fail(b) PROVE WholeInv'
  BY <1>17 DEF Fail
<1>18. ASSUME NEW b \in Builders, Rescue(b) PROVE WholeInv'
  BY <1>18 DEF Rescue, MayRollBack, Matches
<1>19. ASSUME NEW b \in Builders, RollBack(b) PROVE WholeInv'
  BY <1>19 DEF RollBack
<1>20. ASSUME NEW b \in Builders, DropStaged(b) PROVE WholeInv'
  BY <1>20 DEF DropStaged
<1>21. ASSUME NEW b \in Builders, DropBackup(b) PROVE WholeInv'
  BY <1>21 DEF DropBackup, UnlinkBackup
<1>22. ASSUME NEW b \in Builders, Unlock(b) PROVE WholeInv'
  BY <1>22 DEF Unlock
<1>23. ASSUME NEW b \in Builders, Interrupt(b) PROVE WholeInv'
  BY <1>23 DEF Interrupt, AfterInterrupt
<1>24. ASSUME NEW b \in Builders, Crash(b) PROVE WholeInv'
  BY <1>24 DEF Crash
<1>25. CASE Tamper
  BY <1>25 DEF Tamper
<1> QED
  BY <1>1, <1>2, <1>3, <1>4, <1>5, <1>6, <1>7, <1>8, <1>9, <1>10, <1>11, <1>12,
     <1>13, <1>14, <1>15, <1>16, <1>17, <1>18, <1>19, <1>20, <1>21, <1>22, <1>23, <1>24, <1>25 DEF Next, Step

(* One builder at a time touches the names.                                *)
LEMMA LockStep == TypeOK /\ LockInv /\ [Next]_vars => LockInv'
<1> SUFFICES ASSUME TypeOK, LockInv, [Next]_vars PROVE LockInv'
  OBVIOUS
<1> USE OutputAssumption
    DEF TypeOK, LockInv, Untouched, NoTamper, MainSteps,
        At, Goto, names, locks, notes, history
<1>1. CASE UNCHANGED vars
  BY <1>1 DEF vars, names, locks, notes, history
<1>2. ASSUME NEW b \in Builders, Begin(b) PROVE LockInv'
  BY <1>2 DEF Begin
<1>3. ASSUME NEW b \in Builders, TakeLock(b) PROVE LockInv'
  BY <1>3 DEF TakeLock, LockFree
<1>4. ASSUME NEW b \in Builders, Stage(b) PROVE LockInv'
  BY <1>4 DEF Stage
<1>5. ASSUME NEW b \in Builders, WriteArchive(b) PROVE LockInv'
  BY <1>5 DEF WriteArchive
<1>6. ASSUME NEW b \in Builders, SyncStaged(b) PROVE LockInv'
  BY <1>6 DEF SyncStaged
<1>7. ASSUME NEW b \in Builders, CheckLock(b) PROVE LockInv'
  BY <1>7 DEF CheckLock
<1>8. ASSUME NEW b \in Builders, CheckStaged(b) PROVE LockInv'
  BY <1>8 DEF CheckStaged, Matches
<1>9. ASSUME NEW b \in Builders, LinkBackup(b) PROVE LockInv'
  BY <1>9 DEF LinkBackup
<1>10. ASSUME NEW b \in Builders, OpenBackup(b) PROVE LockInv'
  BY <1>10 DEF OpenBackup
<1>11. ASSUME NEW b \in Builders, CheckBackup(b) PROVE LockInv'
  BY <1>11 DEF CheckBackup
<1>12. ASSUME NEW b \in Builders, Rename(b) PROVE LockInv'
  BY <1>12 DEF Rename
<1>13. ASSUME NEW b \in Builders, NoteRename(b) PROVE LockInv'
  BY <1>13 DEF NoteRename
<1>14. ASSUME NEW b \in Builders, VerifyPublished(b) PROVE LockInv'
  BY <1>14 DEF VerifyPublished, Matches
<1>15. ASSUME NEW b \in Builders, Confirm(b) PROVE LockInv'
  BY <1>15 DEF Confirm
<1>16. ASSUME NEW b \in Builders, DropOld(b) PROVE LockInv'
  BY <1>16 DEF DropOld, UnlinkBackup
<1>17. ASSUME NEW b \in Builders, Fail(b) PROVE LockInv'
  BY <1>17 DEF Fail
<1>18. ASSUME NEW b \in Builders, Rescue(b) PROVE LockInv'
  BY <1>18 DEF Rescue, MayRollBack, Matches
<1>19. ASSUME NEW b \in Builders, RollBack(b) PROVE LockInv'
  BY <1>19 DEF RollBack
<1>20. ASSUME NEW b \in Builders, DropStaged(b) PROVE LockInv'
  BY <1>20 DEF DropStaged
<1>21. ASSUME NEW b \in Builders, DropBackup(b) PROVE LockInv'
  BY <1>21 DEF DropBackup, UnlinkBackup
<1>22. ASSUME NEW b \in Builders, Unlock(b) PROVE LockInv'
  BY <1>22 DEF Unlock
<1>23. ASSUME NEW b \in Builders, Interrupt(b) PROVE LockInv'
  BY <1>23 DEF Interrupt, AfterInterrupt
<1>24. ASSUME NEW b \in Builders, Crash(b) PROVE LockInv'
  BY <1>24 DEF Crash
<1>25. CASE Tamper
  BY <1>25 DEF Tamper
<1> QED
  BY <1>1, <1>2, <1>3, <1>4, <1>5, <1>6, <1>7, <1>8, <1>9, <1>10, <1>11, <1>12,
     <1>13, <1>14, <1>15, <1>16, <1>17, <1>18, <1>19, <1>20, <1>21, <1>22, <1>23, <1>24, <1>25 DEF Next, Step

(* Nobody but the holder of the lock moves the output.                     *)
LEMMA PlaceStep == IInv /\ [Next]_vars => PlaceInv'
<1> SUFFICES ASSUME IInv, [Next]_vars PROVE PlaceInv'
  OBVIOUS
<1> USE OutputAssumption
    DEF IInv, Typed, TypeOK, LockInv, Untouched, PlaceInv, KeptInv, BeforeRename, AfterRename,
       NoTamper, MainSteps,
        At, Goto, names, locks, notes, history
<1>1. CASE UNCHANGED vars
  BY <1>1 DEF vars, names, locks, notes, history
<1>2. ASSUME NEW b \in Builders, Begin(b) PROVE PlaceInv'
  BY <1>2 DEF Begin
<1>3. ASSUME NEW b \in Builders, TakeLock(b) PROVE PlaceInv'
  BY <1>3 DEF TakeLock, LockFree
<1>4. ASSUME NEW b \in Builders, Stage(b) PROVE PlaceInv'
  BY <1>4 DEF Stage
<1>5. ASSUME NEW b \in Builders, WriteArchive(b) PROVE PlaceInv'
  BY <1>5 DEF WriteArchive
<1>6. ASSUME NEW b \in Builders, SyncStaged(b) PROVE PlaceInv'
  BY <1>6 DEF SyncStaged
<1>7. ASSUME NEW b \in Builders, CheckLock(b) PROVE PlaceInv'
  BY <1>7 DEF CheckLock
<1>8. ASSUME NEW b \in Builders, CheckStaged(b) PROVE PlaceInv'
  BY <1>8 DEF CheckStaged, Matches
<1>9. ASSUME NEW b \in Builders, LinkBackup(b) PROVE PlaceInv'
  BY <1>9 DEF LinkBackup
<1>10. ASSUME NEW b \in Builders, OpenBackup(b) PROVE PlaceInv'
  BY <1>10 DEF OpenBackup
<1>11. ASSUME NEW b \in Builders, CheckBackup(b) PROVE PlaceInv'
  BY <1>11 DEF CheckBackup
<1>12. ASSUME NEW b \in Builders, Rename(b) PROVE PlaceInv'
  BY <1>12 DEF Rename
<1>13. ASSUME NEW b \in Builders, NoteRename(b) PROVE PlaceInv'
  BY <1>13 DEF NoteRename
<1>14. ASSUME NEW b \in Builders, VerifyPublished(b) PROVE PlaceInv'
  BY <1>14 DEF VerifyPublished, Matches
<1>15. ASSUME NEW b \in Builders, Confirm(b) PROVE PlaceInv'
  BY <1>15 DEF Confirm
<1>16. ASSUME NEW b \in Builders, DropOld(b) PROVE PlaceInv'
  BY <1>16 DEF DropOld, UnlinkBackup
<1>17. ASSUME NEW b \in Builders, Fail(b) PROVE PlaceInv'
  BY <1>17 DEF Fail
<1>18. ASSUME NEW b \in Builders, Rescue(b) PROVE PlaceInv'
  BY <1>18 DEF Rescue, MayRollBack, Matches
<1>19. ASSUME NEW b \in Builders, RollBack(b) PROVE PlaceInv'
  BY <1>19 DEF RollBack
<1>20. ASSUME NEW b \in Builders, DropStaged(b) PROVE PlaceInv'
  BY <1>20 DEF DropStaged
<1>21. ASSUME NEW b \in Builders, DropBackup(b) PROVE PlaceInv'
  BY <1>21 DEF DropBackup, UnlinkBackup
<1>22. ASSUME NEW b \in Builders, Unlock(b) PROVE PlaceInv'
  BY <1>22 DEF Unlock
<1>23. ASSUME NEW b \in Builders, Interrupt(b) PROVE PlaceInv'
  BY <1>23 DEF Interrupt, AfterInterrupt
<1>24. ASSUME NEW b \in Builders, Crash(b) PROVE PlaceInv'
  BY <1>24 DEF Crash
<1>25. CASE Tamper
  BY <1>25 DEF Tamper
<1> QED
  BY <1>1, <1>2, <1>3, <1>4, <1>5, <1>6, <1>7, <1>8, <1>9, <1>10, <1>11, <1>12,
     <1>13, <1>14, <1>15, <1>16, <1>17, <1>18, <1>19, <1>20, <1>21, <1>22, <1>23, <1>24, <1>25 DEF Next, Step

(* The archive that was found is linked or in place until a success.       *)
LEMMA KeptStep == IInv /\ [Next]_vars => KeptInv'
<1> SUFFICES ASSUME IInv, [Next]_vars PROVE KeptInv'
  OBVIOUS
<1> USE OutputAssumption
    DEF IInv, Typed, TypeOK, LockInv, Untouched, PlaceInv, KeptInv, Critical, BeforeRename,
       AfterRename, NoTamper, MainSteps,
        At, Goto, names, locks, notes, history
<1>1. CASE UNCHANGED vars
  BY <1>1 DEF vars, names, locks, notes, history
<1>2. ASSUME NEW b \in Builders, Begin(b) PROVE KeptInv'
  BY <1>2 DEF Begin
<1>3. ASSUME NEW b \in Builders, TakeLock(b) PROVE KeptInv'
  BY <1>3 DEF TakeLock, LockFree
<1>4. ASSUME NEW b \in Builders, Stage(b) PROVE KeptInv'
  BY <1>4 DEF Stage
<1>5. ASSUME NEW b \in Builders, WriteArchive(b) PROVE KeptInv'
  BY <1>5 DEF WriteArchive
<1>6. ASSUME NEW b \in Builders, SyncStaged(b) PROVE KeptInv'
  BY <1>6 DEF SyncStaged
<1>7. ASSUME NEW b \in Builders, CheckLock(b) PROVE KeptInv'
  BY <1>7 DEF CheckLock
<1>8. ASSUME NEW b \in Builders, CheckStaged(b) PROVE KeptInv'
  BY <1>8 DEF CheckStaged, Matches
<1>9. ASSUME NEW b \in Builders, LinkBackup(b) PROVE KeptInv'
  BY <1>9 DEF LinkBackup
<1>10. ASSUME NEW b \in Builders, OpenBackup(b) PROVE KeptInv'
  BY <1>10 DEF OpenBackup
<1>11. ASSUME NEW b \in Builders, CheckBackup(b) PROVE KeptInv'
  BY <1>11 DEF CheckBackup
<1>12. ASSUME NEW b \in Builders, Rename(b) PROVE KeptInv'
  BY <1>12 DEF Rename
<1>13. ASSUME NEW b \in Builders, NoteRename(b) PROVE KeptInv'
  BY <1>13 DEF NoteRename
<1>14. ASSUME NEW b \in Builders, VerifyPublished(b) PROVE KeptInv'
  BY <1>14 DEF VerifyPublished, Matches
<1>15. ASSUME NEW b \in Builders, Confirm(b) PROVE KeptInv'
  BY <1>15 DEF Confirm
<1>16. ASSUME NEW b \in Builders, DropOld(b) PROVE KeptInv'
  BY <1>16 DEF DropOld, UnlinkBackup
<1>17. ASSUME NEW b \in Builders, Fail(b) PROVE KeptInv'
  BY <1>17 DEF Fail
<1>18. ASSUME NEW b \in Builders, Rescue(b) PROVE KeptInv'
  BY <1>18 DEF Rescue, MayRollBack, Matches
<1>19. ASSUME NEW b \in Builders, RollBack(b) PROVE KeptInv'
  BY <1>19 DEF RollBack
<1>20. ASSUME NEW b \in Builders, DropStaged(b) PROVE KeptInv'
  BY <1>20 DEF DropStaged
<1>21. ASSUME NEW b \in Builders, DropBackup(b) PROVE KeptInv'
  BY <1>21 DEF DropBackup, UnlinkBackup
<1>22. ASSUME NEW b \in Builders, Unlock(b) PROVE KeptInv'
  BY <1>22 DEF Unlock
<1>23. ASSUME NEW b \in Builders, Interrupt(b) PROVE KeptInv'
  BY <1>23 DEF Interrupt, AfterInterrupt
<1>24. ASSUME NEW b \in Builders, Crash(b) PROVE KeptInv'
  BY <1>24 DEF Crash
<1>25. CASE Tamper
  BY <1>25 DEF Tamper
<1> QED
  BY <1>1, <1>2, <1>3, <1>4, <1>5, <1>6, <1>7, <1>8, <1>9, <1>10, <1>11, <1>12,
     <1>13, <1>14, <1>15, <1>16, <1>17, <1>18, <1>19, <1>20, <1>21, <1>22, <1>23, <1>24, <1>25 DEF Next, Step

(* A rollback brings back what its own builder replaced, and no success    *)
(* comes between the two.                                                  *)
LEMMA SuccessStep == IInv /\ [Next]_vars => SuccessInv'
<1> SUFFICES ASSUME IInv, [Next]_vars PROVE SuccessInv'
  OBVIOUS
<1> USE OutputAssumption
    DEF IInv, Typed, TypeOK, LockInv, Untouched, PlaceInv, KeptInv, SuccessInv, Supersedes,
       Critical, BeforeRename,
        AfterRename, NoTamper, MainSteps,
        At, Goto, names, locks, notes, history
<1>1. CASE UNCHANGED vars
  BY <1>1 DEF vars, names, locks, notes, history
<1>2. ASSUME NEW b \in Builders, Begin(b) PROVE SuccessInv'
  BY <1>2 DEF Begin
<1>3. ASSUME NEW b \in Builders, TakeLock(b) PROVE SuccessInv'
  BY <1>3 DEF TakeLock, LockFree
<1>4. ASSUME NEW b \in Builders, Stage(b) PROVE SuccessInv'
  BY <1>4 DEF Stage
<1>5. ASSUME NEW b \in Builders, WriteArchive(b) PROVE SuccessInv'
  BY <1>5 DEF WriteArchive
<1>6. ASSUME NEW b \in Builders, SyncStaged(b) PROVE SuccessInv'
  BY <1>6 DEF SyncStaged
<1>7. ASSUME NEW b \in Builders, CheckLock(b) PROVE SuccessInv'
  BY <1>7 DEF CheckLock
<1>8. ASSUME NEW b \in Builders, CheckStaged(b) PROVE SuccessInv'
  BY <1>8 DEF CheckStaged, Matches
<1>9. ASSUME NEW b \in Builders, LinkBackup(b) PROVE SuccessInv'
  BY <1>9 DEF LinkBackup
<1>10. ASSUME NEW b \in Builders, OpenBackup(b) PROVE SuccessInv'
  BY <1>10 DEF OpenBackup
<1>11. ASSUME NEW b \in Builders, CheckBackup(b) PROVE SuccessInv'
  BY <1>11 DEF CheckBackup
<1>12. ASSUME NEW b \in Builders, Rename(b) PROVE SuccessInv'
  BY <1>12 DEF Rename
<1>13. ASSUME NEW b \in Builders, NoteRename(b) PROVE SuccessInv'
  BY <1>13 DEF NoteRename
<1>14. ASSUME NEW b \in Builders, VerifyPublished(b) PROVE SuccessInv'
  BY <1>14 DEF VerifyPublished, Matches
<1>15. ASSUME NEW b \in Builders, Confirm(b) PROVE SuccessInv'
  BY <1>15 DEF Confirm
<1>16. ASSUME NEW b \in Builders, DropOld(b) PROVE SuccessInv'
  BY <1>16 DEF DropOld, UnlinkBackup
<1>17. ASSUME NEW b \in Builders, Fail(b) PROVE SuccessInv'
  BY <1>17 DEF Fail
<1>18. ASSUME NEW b \in Builders, Rescue(b) PROVE SuccessInv'
  BY <1>18 DEF Rescue, MayRollBack, Matches
<1>19. ASSUME NEW b \in Builders, RollBack(b) PROVE SuccessInv'
  BY <1>19 DEF RollBack
<1>20. ASSUME NEW b \in Builders, DropStaged(b) PROVE SuccessInv'
  BY <1>20 DEF DropStaged
<1>21. ASSUME NEW b \in Builders, DropBackup(b) PROVE SuccessInv'
  BY <1>21 DEF DropBackup, UnlinkBackup
<1>22. ASSUME NEW b \in Builders, Unlock(b) PROVE SuccessInv'
  BY <1>22 DEF Unlock
<1>23. ASSUME NEW b \in Builders, Interrupt(b) PROVE SuccessInv'
  BY <1>23 DEF Interrupt, AfterInterrupt
<1>24. ASSUME NEW b \in Builders, Crash(b) PROVE SuccessInv'
  BY <1>24 DEF Crash
<1>25. CASE Tamper
  BY <1>25 DEF Tamper
<1> QED
  BY <1>1, <1>2, <1>3, <1>4, <1>5, <1>6, <1>7, <1>8, <1>9, <1>10, <1>11, <1>12,
     <1>13, <1>14, <1>15, <1>16, <1>17, <1>18, <1>19, <1>20, <1>21, <1>22, <1>23, <1>24, <1>25 DEF Next, Step

(* The finally blocks remove what the steps before them have left.         *)
LEMMA CleanStep == IInv /\ [Next]_vars => CleanInv'
<1> SUFFICES ASSUME IInv, [Next]_vars PROVE CleanInv'
  OBVIOUS
<1> USE OutputAssumption
    DEF IInv, Typed, TypeOK, LockInv, Untouched, PlaceInv, KeptInv, CleanInv, BeforeRename,
       AfterRename, NoTamper,
        MainSteps,
        At, Goto, names, locks, notes, history
<1>1. CASE UNCHANGED vars
  BY <1>1 DEF vars, names, locks, notes, history
<1>2. ASSUME NEW b \in Builders, Begin(b) PROVE CleanInv'
  BY <1>2 DEF Begin
<1>3. ASSUME NEW b \in Builders, TakeLock(b) PROVE CleanInv'
  BY <1>3 DEF TakeLock, LockFree
<1>4. ASSUME NEW b \in Builders, Stage(b) PROVE CleanInv'
  BY <1>4 DEF Stage
<1>5. ASSUME NEW b \in Builders, WriteArchive(b) PROVE CleanInv'
  BY <1>5 DEF WriteArchive
<1>6. ASSUME NEW b \in Builders, SyncStaged(b) PROVE CleanInv'
  BY <1>6 DEF SyncStaged
<1>7. ASSUME NEW b \in Builders, CheckLock(b) PROVE CleanInv'
  BY <1>7 DEF CheckLock
<1>8. ASSUME NEW b \in Builders, CheckStaged(b) PROVE CleanInv'
  BY <1>8 DEF CheckStaged, Matches
<1>9. ASSUME NEW b \in Builders, LinkBackup(b) PROVE CleanInv'
  BY <1>9 DEF LinkBackup
<1>10. ASSUME NEW b \in Builders, OpenBackup(b) PROVE CleanInv'
  BY <1>10 DEF OpenBackup
<1>11. ASSUME NEW b \in Builders, CheckBackup(b) PROVE CleanInv'
  BY <1>11 DEF CheckBackup
<1>12. ASSUME NEW b \in Builders, Rename(b) PROVE CleanInv'
  BY <1>12 DEF Rename
<1>13. ASSUME NEW b \in Builders, NoteRename(b) PROVE CleanInv'
  BY <1>13 DEF NoteRename
<1>14. ASSUME NEW b \in Builders, VerifyPublished(b) PROVE CleanInv'
  BY <1>14 DEF VerifyPublished, Matches
<1>15. ASSUME NEW b \in Builders, Confirm(b) PROVE CleanInv'
  BY <1>15 DEF Confirm
<1>16. ASSUME NEW b \in Builders, DropOld(b) PROVE CleanInv'
  BY <1>16 DEF DropOld, UnlinkBackup
<1>17. ASSUME NEW b \in Builders, Fail(b) PROVE CleanInv'
  BY <1>17 DEF Fail
<1>18. ASSUME NEW b \in Builders, Rescue(b) PROVE CleanInv'
  BY <1>18 DEF Rescue, MayRollBack, Matches
<1>19. ASSUME NEW b \in Builders, RollBack(b) PROVE CleanInv'
  BY <1>19 DEF RollBack
<1>20. ASSUME NEW b \in Builders, DropStaged(b) PROVE CleanInv'
  BY <1>20 DEF DropStaged
<1>21. ASSUME NEW b \in Builders, DropBackup(b) PROVE CleanInv'
  BY <1>21 DEF DropBackup, UnlinkBackup
<1>22. ASSUME NEW b \in Builders, Unlock(b) PROVE CleanInv'
  BY <1>22 DEF Unlock
<1>23. ASSUME NEW b \in Builders, Interrupt(b) PROVE CleanInv'
  BY <1>23 DEF Interrupt, AfterInterrupt
<1>24. ASSUME NEW b \in Builders, Crash(b) PROVE CleanInv'
  BY <1>24 DEF Crash
<1>25. CASE Tamper
  BY <1>25 DEF Tamper
<1> QED
  BY <1>1, <1>2, <1>3, <1>4, <1>5, <1>6, <1>7, <1>8, <1>9, <1>10, <1>11, <1>12,
     <1>13, <1>14, <1>15, <1>16, <1>17, <1>18, <1>19, <1>20, <1>21, <1>22, <1>23, <1>24, <1>25 DEF Next, Step

LEMMA InitIInv == Init => IInv
  BY OutputAssumption DEF Init, IInv, Typed, TypeOK, Files, Locations, MainSteps, WholeInv,
     LockInv, Untouched, PlaceInv,
     BeforeRename, AfterRename, Critical, KeptInv, Supersedes, SuccessInv, CleanInv, NoTamper

LEMMA NextIInv == IInv /\ [Next]_vars => IInv'
  BY TypeStep, WholeStep, LockStep, PlaceStep, KeptStep, SuccessStep, CleanStep DEF IInv, Typed

LEMMA Inductive == Spec => []IInv
  BY InitIInv, NextIInv, PTL DEF Spec

(* The state of the output and of its builders keeps its types.            *)
THEOREM TypeCorrect == Spec => []TypeOK
<1>1. IInv => TypeOK
  BY DEF IInv, Typed
<1> QED
  BY <1>1, Inductive, PTL

(* The output name never shows a half-written archive, whatever fails,     *)
(* dies or tampers (write_source_archive renames what it has synced).      *)
THEOREM OutputAlwaysWhole == Spec => []OutputIsWhole
<1>1. IInv => OutputIsWhole
  BY DEF IInv, WholeInv, OutputIsWhole
<1> QED
  BY <1>1, Inductive, PTL

(* The archive that a builder found survives its failure and its death.    *)
THEOREM OldSurvives == Spec => []OldIsRecoverable
<1>1. IInv => OldIsRecoverable
  <2> SUFFICES ASSUME IInv, NEW b \in Builders, kept[b] # Absent, b \notin published \cup cut,
                      lockedFile[b] # 0 \/ out = b, faults.tampers = 0
               PROVE kept[b] \in {out, old[b]}
    BY DEF OldIsRecoverable
  <2> USE DEF IInv, Typed, TypeOK, KeptInv, PlaceInv, LockInv, NoTamper
  <2>1. CASE turn[b] > 0
    BY <2>1
  <2>2. CASE turn[b] = 0
    BY <2>2 DEF BeforeRename, AfterRename, Locations, MainSteps, Untouched
  <2> QED
    BY <2>1, <2>2
<1> QED
  BY <1>1, Inductive, PTL

(* Nobody's rollback takes a build back that has reported success.         *)
THEOREM SuccessStays == Spec => []SuccessIsNotUndone
<1>1. IInv => SuccessIsNotUndone
  BY DEF IInv, SuccessInv, Supersedes, NoTamper, SuccessIsNotUndone
<1> QED
  BY <1>1, Inductive, PTL

(* A builder that ends undisturbed leaves none of its names behind.        *)
THEOREM NamesAreCleaned == Spec => []NothingIsLeftBehind
<1>1. IInv => NothingIsLeftBehind
  BY DEF IInv, CleanInv, NoTamper, At, NothingIsLeftBehind
<1> QED
  BY <1>1, Inductive, PTL
=============================================================================
