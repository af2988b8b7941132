---------------------- MODULE LegacyRetirementProofs ----------------------
(***************************************************************************)
(* TLAPS proofs about LegacyRetirement, for any workflows, runs and        *)
(* operators and any number of reruns and failing calls.                   *)
(***************************************************************************)
EXTENDS LegacyRetirement, TLAPS

(* What an apply deletes is what it compared with its token.               *)
ApprovedInv ==
    \A o \in Operators :
        /\ pc[o] = "disable" \/ phase[o] = "disabled" => original[o] \in token[o]
        /\ pc[o] = "disable" => phase[o] = "apply"
        /\ pc[o] = "delete" => phase[o] = "disabled" /\ todo[o] \subseteq original[o]

(* Past its first read a verification knows that the paths are migrated,   *)
(* and a completed one that no run is left.                                *)
VerifiedInv ==
    \A o \in Operators :
        /\ pc[o] \in {"vCatalog", "vRuns", "vRepository", "verified"} => branch = "migrated"
        /\ pc[o] = "verified" => \A r \in RunIds : ~Exists(r)

Retired(w) == state[w] = "disabled" /\ RunsOf(w) = {}

(* What a snapshot that saw a workflow disabled tells about the present,   *)
(* although it was not read at once.                                       *)
SnapshotTells(o) ==
    /\ pc[o] \in {"runs", "read"} =>
          \A w \in Workflows :
             states[o][w] = "disabled" =>
                /\ state[w] = "disabled"
                /\ w \notin unread[o] /\ (\A x \in seen[o] : WorkflowOf[x.id] # w)
                      => RunsOf(w) = {}
    /\ pc[o] = "read" => unread[o] = {}
    /\ pc[o] = "write" => \A w \in Workflows : Retired(w)

SnapshotInv == \A o \in Operators : SnapshotTells(o)

(* Every step of the retirement keeps the types.                           *)
LEMMA NextTypeOK == TypeOK /\ [Next]_vars => TypeOK'
<1> SUFFICES ASSUME TypeOK, [Next]_vars PROVE TypeOK'
  OBVIOUS
<1> USE RetirementAssumption
    DEF TypeOK, Locations, Ended, Reading, Verifying, Phases, NotRead
<1>1. CASE UNCHANGED vars
  BY <1>1 DEF vars, github, script
<1>2. ASSUME NEW r \in RunIds, StartRun(r) PROVE TypeOK'
  BY <1>2 DEF StartRun, script
<1>3. ASSUME NEW r \in RunIds, CompleteRun(r) PROVE TypeOK'
  BY <1>3 DEF CompleteRun, script
<1>4. ASSUME NEW r \in RunIds, RerunRun(r) PROVE TypeOK'
  BY <1>4 DEF RerunRun, script
<1>5. ASSUME NEW w \in Workflows, DisableTakesEffect(w) PROVE TypeOK'
  BY <1>5 DEF DisableTakesEffect, script
<1>6. ASSUME NEW w \in Workflows, Reenable(w) PROVE TypeOK'
  BY <1>6 DEF Reenable, script
<1>7. CASE Migrate
  BY <1>7 DEF Migrate, script
<1>8. CASE RegisterReplacements
  BY <1>8 DEF RegisterReplacements, script
<1>9. ASSUME NEW o \in Operators, BeginPlan(o) PROVE TypeOK'
  BY <1>9 DEF BeginPlan, github, BeginSnapshot
<1>10. ASSUME NEW o \in Operators, BeginApply(o) PROVE TypeOK'
  BY <1>10 DEF BeginApply, github, BeginSnapshot
<1>11. ASSUME NEW o \in Operators, BeginVerify(o) PROVE TypeOK'
  BY <1>11 DEF BeginVerify, github
<1>12. ASSUME NEW o \in Operators, ApiFails(o) PROVE TypeOK'
  BY <1>12 DEF ApiFails, github, End
<1>13. ASSUME NEW o \in Operators, ReadPaths(o) PROVE TypeOK'
  BY <1>13 DEF ReadPaths, github
<1>14. ASSUME NEW o \in Operators, PathsRejected(o) PROVE TypeOK'
  BY <1>14 DEF PathsRejected, github, Reject, End
<1>15. ASSUME NEW o \in Operators, ReadCatalog(o) PROVE TypeOK'
  BY <1>15 DEF ReadCatalog, github
<1>16. ASSUME NEW o \in Operators, ReadRuns(o) PROVE TypeOK'
  BY <1>16 DEF ReadRuns, github, IsFirst, Listed, RunsOf, Exists
<1>17. ASSUME NEW o \in Operators, PrintPlan(o) PROVE TypeOK'
  BY <1>17 DEF PrintPlan, github, End, Ids
<1>18. ASSUME NEW o \in Operators, ApplyAccepted(o) PROVE TypeOK'
  BY <1>18 DEF ApplyAccepted, github, Approved, Read, Ids
<1>19. ASSUME NEW o \in Operators, ApplyRejected(o) PROVE TypeOK'
  BY <1>19 DEF ApplyRejected, github, Reject, End
<1>20. ASSUME NEW o \in Operators, Disable(o) PROVE TypeOK'
  <2>1. PICK w \in Workflows : Disable(o)!2!(w)
    BY <1>20 DEF Disable
  <2>2. CASE BeginSnapshot(o, "disabled")
    BY <1>20, <2>1, <2>2 DEF Disable, BeginSnapshot
  <2>3. CASE unread' = [unread EXCEPT ![o] = @ \ {w}] /\ UNCHANGED <<pc, phase, states, seen>>
    BY <1>20, <2>1, <2>3 DEF Disable
  <2> QED
    BY <2>1, <2>2, <2>3
<1>21. ASSUME NEW o \in Operators, DisableConfirmed(o) PROVE TypeOK'
  BY <1>21 DEF DisableConfirmed, github, Deletable, Read
<1>22. ASSUME NEW o \in Operators, DisableRejected(o) PROVE TypeOK'
  BY <1>22 DEF DisableRejected, github, Reject, End
<1>23. ASSUME NEW o \in Operators, DeleteRun(o) PROVE TypeOK'
  BY <1>23 DEF DeleteRun, github, IsFirst
<1>24. ASSUME NEW o \in Operators, DeleteRejected(o) PROVE TypeOK'
  BY <1>24 DEF DeleteRejected, github, Reject, End
<1>25. ASSUME NEW o \in Operators, DeletesDone(o) PROVE TypeOK'
  BY <1>25 DEF DeletesDone, github, BeginSnapshot
<1>26. ASSUME NEW o \in Operators, RetiredConfirmed(o) PROVE TypeOK'
  BY <1>26 DEF RetiredConfirmed, github, Read
<1>27. ASSUME NEW o \in Operators, RetiredRejected(o) PROVE TypeOK'
  BY <1>27 DEF RetiredRejected, github, Reject, End
<1>28. ASSUME NEW o \in Operators, WriteReceipt(o) PROVE TypeOK'
  BY <1>28 DEF WriteReceipt, github, End
<1>29. ASSUME NEW o \in Operators, VerifyPaths(o) PROVE TypeOK'
  BY <1>29 DEF VerifyPaths, github
<1>30. ASSUME NEW o \in Operators, VerifyPathsRejected(o) PROVE TypeOK'
  BY <1>30 DEF VerifyPathsRejected, github, Reject, End
<1>31. ASSUME NEW o \in Operators, VerifyCatalog(o) PROVE TypeOK'
  BY <1>31 DEF VerifyCatalog, github
<1>32. ASSUME NEW o \in Operators, VerifyCatalogRejected(o) PROVE TypeOK'
  BY <1>32 DEF VerifyCatalogRejected, github, Reject, End
<1>33. ASSUME NEW o \in Operators, VerifyRuns(o) PROVE TypeOK'
  BY <1>33 DEF VerifyRuns, github, IsFirst
<1>34. ASSUME NEW o \in Operators, VerifyRunsRejected(o) PROVE TypeOK'
  BY <1>34 DEF VerifyRunsRejected, github, Reject, End
<1>35. ASSUME NEW o \in Operators, VerifyRepository(o) PROVE TypeOK'
  BY <1>35 DEF VerifyRepository, github, End
<1>36. ASSUME NEW o \in Operators, VerifyRepositoryRejected(o) PROVE TypeOK'
  BY <1>36 DEF VerifyRepositoryRejected, github, Reject, End
<1> QED
  BY <1>1, <1>2, <1>3, <1>4, <1>5, <1>6, <1>7, <1>8, <1>9, <1>10, <1>11,
     <1>12, <1>13, <1>14, <1>15, <1>16, <1>17, <1>18, <1>19, <1>20, <1>21,
     <1>22, <1>23, <1>24, <1>25, <1>26, <1>27, <1>28, <1>29, <1>30, <1>31,
     <1>32, <1>33, <1>34, <1>35, <1>36
  DEF Next, Environment, Step

(* Type correctness: every variable of the retirement keeps its type.      *)
THEOREM TypeCorrect == Spec => []TypeOK
<1>1. Init => TypeOK
  <2> SUFFICES ASSUME Init PROVE TypeOK
    OBVIOUS
  <2>1. run \in [RunIds -> {"absent", "active", "completed", "deleted"}]
    BY DEF Init
  <2>2. states \in [Operators -> [Workflows -> {"active", "disabled"}]]
    BY DEF Init, NotRead
  <2>3. /\ token \in [Operators -> SUBSET (SUBSET RunIds)]
        /\ seen \in [Operators -> SUBSET [id : RunIds, status : {"active", "completed"}]]
    BY DEF Init
  <2>4. reruns \in 0..MaxReruns /\ reenables \in 0..MaxReenables /\ failures \in 0..MaxFailures
    BY RetirementAssumption DEF Init
  <2>5. pc \in [Operators -> Locations] /\ phase \in [Operators -> Phases]
    BY DEF Init, Locations, Ended, Phases
  <2> QED
    BY <2>1, <2>2, <2>3, <2>4, <2>5 DEF Init, TypeOK
<1> QED
  BY <1>1, NextTypeOK, PTL DEF Spec

(* Every step keeps what an apply is to delete within the plan of its      *)
(* token.                                                                  *)
LEMMA NextApproved == TypeOK /\ ApprovedInv /\ [Next]_vars => ApprovedInv'
<1> SUFFICES ASSUME TypeOK, ApprovedInv, [Next]_vars PROVE ApprovedInv'
  OBVIOUS
<1> USE DEF TypeOK, ApprovedInv, Ended
<1>1. CASE UNCHANGED vars
  BY <1>1 DEF vars, github, script
<1>2. ASSUME NEW r \in RunIds, StartRun(r) PROVE ApprovedInv'
  BY <1>2 DEF StartRun, script
<1>3. ASSUME NEW r \in RunIds, CompleteRun(r) PROVE ApprovedInv'
  BY <1>3 DEF CompleteRun, script
<1>4. ASSUME NEW r \in RunIds, RerunRun(r) PROVE ApprovedInv'
  BY <1>4 DEF RerunRun, script
<1>5. ASSUME NEW w \in Workflows, DisableTakesEffect(w) PROVE ApprovedInv'
  BY <1>5 DEF DisableTakesEffect, script
<1>6. ASSUME NEW w \in Workflows, Reenable(w) PROVE ApprovedInv'
  BY <1>6 DEF Reenable, script
<1>7. CASE Migrate
  BY <1>7 DEF Migrate, script
<1>8. CASE RegisterReplacements
  BY <1>8 DEF RegisterReplacements, script
<1>9. ASSUME NEW o \in Operators, BeginPlan(o) PROVE ApprovedInv'
  BY <1>9 DEF BeginPlan, github, BeginSnapshot
<1>10. ASSUME NEW o \in Operators, BeginApply(o) PROVE ApprovedInv'
  BY <1>10 DEF BeginApply, github, BeginSnapshot
<1>11. ASSUME NEW o \in Operators, BeginVerify(o) PROVE ApprovedInv'
  BY <1>11 DEF BeginVerify, github
<1>12. ASSUME NEW o \in Operators, ApiFails(o) PROVE ApprovedInv'
  BY <1>12 DEF ApiFails, github, End
<1>13. ASSUME NEW o \in Operators, ReadPaths(o) PROVE ApprovedInv'
  BY <1>13 DEF ReadPaths, github
<1>14. ASSUME NEW o \in Operators, PathsRejected(o) PROVE ApprovedInv'
  BY <1>14 DEF PathsRejected, github, Reject, End
<1>15. ASSUME NEW o \in Operators, ReadCatalog(o) PROVE ApprovedInv'
  BY <1>15 DEF ReadCatalog, github
<1>16. ASSUME NEW o \in Operators, ReadRuns(o) PROVE ApprovedInv'
  BY <1>16 DEF ReadRuns, github, IsFirst
<1>17. ASSUME NEW o \in Operators, PrintPlan(o) PROVE ApprovedInv'
  BY <1>17 DEF PrintPlan, github, End
<1>18. ASSUME NEW o \in Operators, ApplyAccepted(o) PROVE ApprovedInv'
  BY <1>18 DEF ApplyAccepted, github, Approved, Read
<1>19. ASSUME NEW o \in Operators, ApplyRejected(o) PROVE ApprovedInv'
  BY <1>19 DEF ApplyRejected, github, Reject, End
<1>20. ASSUME NEW o \in Operators, Disable(o) PROVE ApprovedInv'
  BY <1>20 DEF Disable, github, BeginSnapshot, IsFirst
<1>21. ASSUME NEW o \in Operators, DisableConfirmed(o) PROVE ApprovedInv'
  BY <1>21 DEF DisableConfirmed, github, Deletable, Read
<1>22. ASSUME NEW o \in Operators, DisableRejected(o) PROVE ApprovedInv'
  BY <1>22 DEF DisableRejected, github, Reject, End
<1>23. ASSUME NEW o \in Operators, DeleteRun(o) PROVE ApprovedInv'
  BY <1>23 DEF DeleteRun, github, IsFirst
<1>24. ASSUME NEW o \in Operators, DeleteRejected(o) PROVE ApprovedInv'
  BY <1>24 DEF DeleteRejected, github, Reject, End
<1>25. ASSUME NEW o \in Operators, DeletesDone(o) PROVE ApprovedInv'
  BY <1>25 DEF DeletesDone, github, BeginSnapshot
<1>26. ASSUME NEW o \in Operators, RetiredConfirmed(o) PROVE ApprovedInv'
  BY <1>26 DEF RetiredConfirmed, github, Read
<1>27. ASSUME NEW o \in Operators, RetiredRejected(o) PROVE ApprovedInv'
  BY <1>27 DEF RetiredRejected, github, Reject, End
<1>28. ASSUME NEW o \in Operators, WriteReceipt(o) PROVE ApprovedInv'
  BY <1>28 DEF WriteReceipt, github, End
<1>29. ASSUME NEW o \in Operators, VerifyPaths(o) PROVE ApprovedInv'
  BY <1>29 DEF VerifyPaths, github
<1>30. ASSUME NEW o \in Operators, VerifyPathsRejected(o) PROVE ApprovedInv'
  BY <1>30 DEF VerifyPathsRejected, github, Reject, End
<1>31. ASSUME NEW o \in Operators, VerifyCatalog(o) PROVE ApprovedInv'
  BY <1>31 DEF VerifyCatalog, github
<1>32. ASSUME NEW o \in Operators, VerifyCatalogRejected(o) PROVE ApprovedInv'
  BY <1>32 DEF VerifyCatalogRejected, github, Reject, End
<1>33. ASSUME NEW o \in Operators, VerifyRuns(o) PROVE ApprovedInv'
  BY <1>33 DEF VerifyRuns, github, IsFirst
<1>34. ASSUME NEW o \in Operators, VerifyRunsRejected(o) PROVE ApprovedInv'
  BY <1>34 DEF VerifyRunsRejected, github, Reject, End
<1>35. ASSUME NEW o \in Operators, VerifyRepository(o) PROVE ApprovedInv'
  BY <1>35 DEF VerifyRepository, github, End
<1>36. ASSUME NEW o \in Operators, VerifyRepositoryRejected(o) PROVE ApprovedInv'
  BY <1>36 DEF VerifyRepositoryRejected, github, Reject, End
<1> QED
  BY <1>1, <1>2, <1>3, <1>4, <1>5, <1>6, <1>7, <1>8, <1>9, <1>10, <1>11,
     <1>12, <1>13, <1>14, <1>15, <1>16, <1>17, <1>18, <1>19, <1>20, <1>21,
     <1>22, <1>23, <1>24, <1>25, <1>26, <1>27, <1>28, <1>29, <1>30, <1>31,
     <1>32, <1>33, <1>34, <1>35, <1>36
  DEF Next, Environment, Step

(* README.md:90-91, for any number of operators: a run is deleted only by  *)
(* an apply whose token is the one of a plan that lists it.                *)
THEOREM OnlyApprovedDeleted == Spec => DeletesOnlyApproved
<1> DEFINE Approving ==
       \A r \in RunIds : run[r] # "deleted" /\ run'[r] = "deleted" =>
          \E o \in Operators : pc[o] = "delete" /\ \E plan \in token[o] : r \in plan
<1>1. Init => ApprovedInv
  BY DEF Init, ApprovedInv
<1>2. TypeOK /\ ApprovedInv /\ [Next]_vars => [Approving]_vars
  <2> SUFFICES ASSUME TypeOK, ApprovedInv, Next, NEW r \in RunIds,
                      run[r] # "deleted", run'[r] = "deleted"
               PROVE  \E o \in Operators :
                         pc[o] = "delete" /\ \E plan \in token[o] : r \in plan
    OBVIOUS
  <2>1. ASSUME Environment PROVE FALSE
    BY <2>1 DEF TypeOK, Environment, StartRun, CompleteRun, RerunRun,
       DisableTakesEffect, Reenable, Migrate, RegisterReplacements
  <2>2. ASSUME NEW o \in Operators, ~DeleteRun(o),
               BeginPlan(o) \/ BeginApply(o) \/ BeginVerify(o) \/ ApiFails(o) \/ Step(o)
        PROVE  run' = run
    BY <2>2 DEF github,
       BeginPlan, BeginApply, BeginVerify, ApiFails, ReadPaths,
       PathsRejected, ReadCatalog, ReadRuns, PrintPlan, ApplyAccepted,
       ApplyRejected, Disable, DisableConfirmed, DisableRejected,
       DeleteRejected, DeletesDone, RetiredConfirmed, RetiredRejected,
       WriteReceipt, VerifyPaths, VerifyPathsRejected, VerifyCatalog,
       VerifyCatalogRejected, VerifyRuns, VerifyRunsRejected,
       VerifyRepository, VerifyRepositoryRejected, Step, Reject
  <2>3. PICK o \in Operators : DeleteRun(o)
    BY <2>1, <2>2 DEF Next
  <2> QED
    BY <2>3 DEF TypeOK, ApprovedInv, DeleteRun, IsFirst
<1> QED
  BY <1>1, <1>2, TypeCorrect, NextApproved, PTL DEF Spec, DeletesOnlyApproved

(* Every step keeps what a verification has found out.                     *)
LEMMA NextVerified == TypeOK /\ VerifiedInv /\ [Next]_vars => VerifiedInv'
<1> SUFFICES ASSUME TypeOK, VerifiedInv, [Next]_vars PROVE VerifiedInv'
  OBVIOUS
<1> USE DEF TypeOK, VerifiedInv, Exists, Ended
<1>1. CASE UNCHANGED vars
  BY <1>1 DEF vars, github, script
<1>2. ASSUME NEW r \in RunIds, StartRun(r) PROVE VerifiedInv'
  BY <1>2 DEF StartRun, script
<1>3. ASSUME NEW r \in RunIds, CompleteRun(r) PROVE VerifiedInv'
  BY <1>3 DEF CompleteRun, script
<1>4. ASSUME NEW r \in RunIds, RerunRun(r) PROVE VerifiedInv'
  BY <1>4 DEF RerunRun, script
<1>5. ASSUME NEW w \in Workflows, DisableTakesEffect(w) PROVE VerifiedInv'
  BY <1>5 DEF DisableTakesEffect, script
<1>6. ASSUME NEW w \in Workflows, Reenable(w) PROVE VerifiedInv'
  BY <1>6 DEF Reenable, script
<1>7. CASE Migrate
  BY <1>7 DEF Migrate, script
<1>8. CASE RegisterReplacements
  BY <1>8 DEF RegisterReplacements, script
<1>9. ASSUME NEW o \in Operators, BeginPlan(o) PROVE VerifiedInv'
  BY <1>9 DEF BeginPlan, github, BeginSnapshot
<1>10. ASSUME NEW o \in Operators, BeginApply(o) PROVE VerifiedInv'
  BY <1>10 DEF BeginApply, github, BeginSnapshot
<1>11. ASSUME NEW o \in Operators, BeginVerify(o) PROVE VerifiedInv'
  BY <1>11 DEF BeginVerify, github
<1>12. ASSUME NEW o \in Operators, ApiFails(o) PROVE VerifiedInv'
  BY <1>12 DEF ApiFails, github, End
<1>13. ASSUME NEW o \in Operators, ReadPaths(o) PROVE VerifiedInv'
  BY <1>13 DEF ReadPaths, github
<1>14. ASSUME NEW o \in Operators, PathsRejected(o) PROVE VerifiedInv'
  BY <1>14 DEF PathsRejected, github, Reject, End
<1>15. ASSUME NEW o \in Operators, ReadCatalog(o) PROVE VerifiedInv'
  BY <1>15 DEF ReadCatalog, github
<1>16. ASSUME NEW o \in Operators, ReadRuns(o) PROVE VerifiedInv'
  BY <1>16 DEF ReadRuns, github, IsFirst
<1>17. ASSUME NEW o \in Operators, PrintPlan(o) PROVE VerifiedInv'
  BY <1>17 DEF PrintPlan, github, End
<1>18. ASSUME NEW o \in Operators, ApplyAccepted(o) PROVE VerifiedInv'
  BY <1>18 DEF ApplyAccepted, github, Approved, Read
<1>19. ASSUME NEW o \in Operators, ApplyRejected(o) PROVE VerifiedInv'
  BY <1>19 DEF ApplyRejected, github, Reject, End
<1>20. ASSUME NEW o \in Operators, Disable(o) PROVE VerifiedInv'
  BY <1>20 DEF Disable, github, BeginSnapshot, IsFirst
<1>21. ASSUME NEW o \in Operators, DisableConfirmed(o) PROVE VerifiedInv'
  BY <1>21 DEF DisableConfirmed, github, Deletable, Read
<1>22. ASSUME NEW o \in Operators, DisableRejected(o) PROVE VerifiedInv'
  BY <1>22 DEF DisableRejected, github, Reject, End
<1>23. ASSUME NEW o \in Operators, DeleteRun(o) PROVE VerifiedInv'
  BY <1>23 DEF DeleteRun, github, IsFirst
<1>24. ASSUME NEW o \in Operators, DeleteRejected(o) PROVE VerifiedInv'
  BY <1>24 DEF DeleteRejected, github, Reject, End
<1>25. ASSUME NEW o \in Operators, DeletesDone(o) PROVE VerifiedInv'
  BY <1>25 DEF DeletesDone, github, BeginSnapshot
<1>26. ASSUME NEW o \in Operators, RetiredConfirmed(o) PROVE VerifiedInv'
  BY <1>26 DEF RetiredConfirmed, github, Read
<1>27. ASSUME NEW o \in Operators, RetiredRejected(o) PROVE VerifiedInv'
  BY <1>27 DEF RetiredRejected, github, Reject, End
<1>28. ASSUME NEW o \in Operators, WriteReceipt(o) PROVE VerifiedInv'
  BY <1>28 DEF WriteReceipt, github, End
<1>29. ASSUME NEW o \in Operators, VerifyPaths(o) PROVE VerifiedInv'
  BY <1>29 DEF VerifyPaths, github
<1>30. ASSUME NEW o \in Operators, VerifyPathsRejected(o) PROVE VerifiedInv'
  BY <1>30 DEF VerifyPathsRejected, github, Reject, End
<1>31. ASSUME NEW o \in Operators, VerifyCatalog(o) PROVE VerifiedInv'
  BY <1>31 DEF VerifyCatalog, github
<1>32. ASSUME NEW o \in Operators, VerifyCatalogRejected(o) PROVE VerifiedInv'
  BY <1>32 DEF VerifyCatalogRejected, github, Reject, End
<1>33. ASSUME NEW o \in Operators, VerifyRuns(o) PROVE VerifiedInv'
  BY <1>33 DEF VerifyRuns, github, IsFirst
<1>34. ASSUME NEW o \in Operators, VerifyRunsRejected(o) PROVE VerifiedInv'
  BY <1>34 DEF VerifyRunsRejected, github, Reject, End
<1>35. ASSUME NEW o \in Operators, VerifyRepository(o) PROVE VerifiedInv'
  BY <1>35 DEF VerifyRepository, github, End
<1>36. ASSUME NEW o \in Operators, VerifyRepositoryRejected(o) PROVE VerifiedInv'
  BY <1>36 DEF VerifyRepositoryRejected, github, Reject, End
<1> QED
  BY <1>1, <1>2, <1>3, <1>4, <1>5, <1>6, <1>7, <1>8, <1>9, <1>10, <1>11,
     <1>12, <1>13, <1>14, <1>15, <1>16, <1>17, <1>18, <1>19, <1>20, <1>21,
     <1>22, <1>23, <1>24, <1>25, <1>26, <1>27, <1>28, <1>29, <1>30, <1>31,
     <1>32, <1>33, <1>34, <1>35, <1>36
  DEF Next, Environment, Step

(* After a successful --verify no legacy run is left, whatever was enabled *)
(* again before the migration and whatever is rerun.                       *)
THEOREM VerifyProvesRetired == Spec => []VerifiedIsRetired
<1>1. Init => VerifiedInv
  BY DEF Init, VerifiedInv
<1>2. VerifiedInv => VerifiedIsRetired
  BY DEF VerifiedInv, VerifiedIsRetired
<1> QED
  BY <1>1, <1>2, TypeCorrect, NextVerified, PTL DEF Spec

(* A workflow that is disabled and not enabled again stays disabled, and   *)
(* once it has no run it gets none.                                        *)
LEMMA RetiredIsStable ==
    ASSUME reenables' = 0, TypeOK, [Next]_vars, NEW w \in Workflows, state[w] = "disabled"
    PROVE  state'[w] = "disabled" /\ (RunsOf(w) = {} => RunsOf(w)' = {})
<1> USE RetirementAssumption DEF TypeOK, RunsOf, Exists
<1>1. CASE UNCHANGED vars
  BY <1>1 DEF vars, github, script
<1>2. ASSUME NEW r \in RunIds, StartRun(r) PROVE state'[w] = "disabled" /\ (RunsOf(w) = {} => RunsOf(w)' = {})
  BY <1>2 DEF StartRun, script
<1>3. ASSUME NEW r \in RunIds, CompleteRun(r) PROVE state'[w] = "disabled" /\ (RunsOf(w) = {} => RunsOf(w)' = {})
  BY <1>3 DEF CompleteRun, script
<1>4. ASSUME NEW r \in RunIds, RerunRun(r) PROVE state'[w] = "disabled" /\ (RunsOf(w) = {} => RunsOf(w)' = {})
  BY <1>4 DEF RerunRun, script
<1>5. ASSUME NEW v \in Workflows, DisableTakesEffect(v) PROVE state'[w] = "disabled" /\ (RunsOf(w) = {} => RunsOf(w)' = {})
  BY <1>5 DEF DisableTakesEffect, script
<1>6. ASSUME NEW v \in Workflows, Reenable(v) PROVE state'[w] = "disabled" /\ (RunsOf(w) = {} => RunsOf(w)' = {})
  BY <1>6 DEF Reenable, script
<1>7. CASE Migrate
  BY <1>7 DEF Migrate, script
<1>8. CASE RegisterReplacements
  BY <1>8 DEF RegisterReplacements, script
<1>9. ASSUME NEW o \in Operators, BeginPlan(o) PROVE state'[w] = "disabled" /\ (RunsOf(w) = {} => RunsOf(w)' = {})
  BY <1>9 DEF BeginPlan, github, BeginSnapshot
<1>10. ASSUME NEW o \in Operators, BeginApply(o) PROVE state'[w] = "disabled" /\ (RunsOf(w) = {} => RunsOf(w)' = {})
  BY <1>10 DEF BeginApply, github, BeginSnapshot
<1>11. ASSUME NEW o \in Operators, BeginVerify(o) PROVE state'[w] = "disabled" /\ (RunsOf(w) = {} => RunsOf(w)' = {})
  BY <1>11 DEF BeginVerify, github
<1>12. ASSUME NEW o \in Operators, ApiFails(o) PROVE state'[w] = "disabled" /\ (RunsOf(w) = {} => RunsOf(w)' = {})
  BY <1>12 DEF ApiFails, github, End
<1>13. ASSUME NEW o \in Operators, ReadPaths(o) PROVE state'[w] = "disabled" /\ (RunsOf(w) = {} => RunsOf(w)' = {})
  BY <1>13 DEF ReadPaths, github
<1>14. ASSUME NEW o \in Operators, PathsRejected(o) PROVE state'[w] = "disabled" /\ (RunsOf(w) = {} => RunsOf(w)' = {})
  BY <1>14 DEF PathsRejected, github, Reject, End
<1>15. ASSUME NEW o \in Operators, ReadCatalog(o) PROVE state'[w] = "disabled" /\ (RunsOf(w) = {} => RunsOf(w)' = {})
  BY <1>15 DEF ReadCatalog, github
<1>16. ASSUME NEW o \in Operators, ReadRuns(o) PROVE state'[w] = "disabled" /\ (RunsOf(w) = {} => RunsOf(w)' = {})
  BY <1>16 DEF ReadRuns, github, IsFirst
<1>17. ASSUME NEW o \in Operators, PrintPlan(o) PROVE state'[w] = "disabled" /\ (RunsOf(w) = {} => RunsOf(w)' = {})
  BY <1>17 DEF PrintPlan, github, End
<1>18. ASSUME NEW o \in Operators, ApplyAccepted(o) PROVE state'[w] = "disabled" /\ (RunsOf(w) = {} => RunsOf(w)' = {})
  BY <1>18 DEF ApplyAccepted, github, Approved, Read
<1>19. ASSUME NEW o \in Operators, ApplyRejected(o) PROVE state'[w] = "disabled" /\ (RunsOf(w) = {} => RunsOf(w)' = {})
  BY <1>19 DEF ApplyRejected, github, Reject, End
<1>20. ASSUME NEW o \in Operators, Disable(o) PROVE state'[w] = "disabled" /\ (RunsOf(w) = {} => RunsOf(w)' = {})
  BY <1>20 DEF Disable, github, BeginSnapshot, IsFirst
<1>21. ASSUME NEW o \in Operators, DisableConfirmed(o) PROVE state'[w] = "disabled" /\ (RunsOf(w) = {} => RunsOf(w)' = {})
  BY <1>21 DEF DisableConfirmed, github, Deletable, Read
<1>22. ASSUME NEW o \in Operators, DisableRejected(o) PROVE state'[w] = "disabled" /\ (RunsOf(w) = {} => RunsOf(w)' = {})
  BY <1>22 DEF DisableRejected, github, Reject, End
<1>23. ASSUME NEW o \in Operators, DeleteRun(o) PROVE state'[w] = "disabled" /\ (RunsOf(w) = {} => RunsOf(w)' = {})
  BY <1>23 DEF DeleteRun, github, IsFirst
<1>24. ASSUME NEW o \in Operators, DeleteRejected(o) PROVE state'[w] = "disabled" /\ (RunsOf(w) = {} => RunsOf(w)' = {})
  BY <1>24 DEF DeleteRejected, github, Reject, End
<1>25. ASSUME NEW o \in Operators, DeletesDone(o) PROVE state'[w] = "disabled" /\ (RunsOf(w) = {} => RunsOf(w)' = {})
  BY <1>25 DEF DeletesDone, github, BeginSnapshot
<1>26. ASSUME NEW o \in Operators, RetiredConfirmed(o) PROVE state'[w] = "disabled" /\ (RunsOf(w) = {} => RunsOf(w)' = {})
  BY <1>26 DEF RetiredConfirmed, github, Read
<1>27. ASSUME NEW o \in Operators, RetiredRejected(o) PROVE state'[w] = "disabled" /\ (RunsOf(w) = {} => RunsOf(w)' = {})
  BY <1>27 DEF RetiredRejected, github, Reject, End
<1>28. ASSUME NEW o \in Operators, WriteReceipt(o) PROVE state'[w] = "disabled" /\ (RunsOf(w) = {} => RunsOf(w)' = {})
  BY <1>28 DEF WriteReceipt, github, End
<1>29. ASSUME NEW o \in Operators, VerifyPaths(o) PROVE state'[w] = "disabled" /\ (RunsOf(w) = {} => RunsOf(w)' = {})
  BY <1>29 DEF VerifyPaths, github
<1>30. ASSUME NEW o \in Operators, VerifyPathsRejected(o) PROVE state'[w] = "disabled" /\ (RunsOf(w) = {} => RunsOf(w)' = {})
  BY <1>30 DEF VerifyPathsRejected, github, Reject, End
<1>31. ASSUME NEW o \in Operators, VerifyCatalog(o) PROVE state'[w] = "disabled" /\ (RunsOf(w) = {} => RunsOf(w)' = {})
  BY <1>31 DEF VerifyCatalog, github
<1>32. ASSUME NEW o \in Operators, VerifyCatalogRejected(o) PROVE state'[w] = "disabled" /\ (RunsOf(w) = {} => RunsOf(w)' = {})
  BY <1>32 DEF VerifyCatalogRejected, github, Reject, End
<1>33. ASSUME NEW o \in Operators, VerifyRuns(o) PROVE state'[w] = "disabled" /\ (RunsOf(w) = {} => RunsOf(w)' = {})
  BY <1>33 DEF VerifyRuns, github, IsFirst
<1>34. ASSUME NEW o \in Operators, VerifyRunsRejected(o) PROVE state'[w] = "disabled" /\ (RunsOf(w) = {} => RunsOf(w)' = {})
  BY <1>34 DEF VerifyRunsRejected, github, Reject, End
<1>35. ASSUME NEW o \in Operators, VerifyRepository(o) PROVE state'[w] = "disabled" /\ (RunsOf(w) = {} => RunsOf(w)' = {})
  BY <1>35 DEF VerifyRepository, github, End
<1>36. ASSUME NEW o \in Operators, VerifyRepositoryRejected(o) PROVE state'[w] = "disabled" /\ (RunsOf(w) = {} => RunsOf(w)' = {})
  BY <1>36 DEF VerifyRepositoryRejected, github, Reject, End
<1> QED
  BY <1>1, <1>2, <1>3, <1>4, <1>5, <1>6, <1>7, <1>8, <1>9, <1>10, <1>11,
     <1>12, <1>13, <1>14, <1>15, <1>16, <1>17, <1>18, <1>19, <1>20, <1>21,
     <1>22, <1>23, <1>24, <1>25, <1>26, <1>27, <1>28, <1>29, <1>30, <1>31,
     <1>32, <1>33, <1>34, <1>35, <1>36
  DEF Next, Environment, Step

(* Every step keeps what a snapshot tells about the present.               *)
LEMMA NextSnapshot ==
    ASSUME reenables' = 0, TypeOK, SnapshotInv, [Next]_vars
    PROVE  SnapshotInv'
<1> SUFFICES ASSUME NEW p \in Operators PROVE SnapshotTells(p)'
  BY DEF SnapshotInv
<1>1. \A w \in Workflows : state[w] = "disabled" =>
         state'[w] = "disabled" /\ (RunsOf(w) = {} => RunsOf(w)' = {})
  BY RetiredIsStable
<1>2. SnapshotTells(p)
  BY DEF SnapshotInv
<1>3. ASSUME pc'[p] = pc[p], states'[p] = states[p], unread'[p] = unread[p],
             seen'[p] = seen[p]
      PROVE  SnapshotTells(p)'
  BY <1>1, <1>2, <1>3 DEF SnapshotTells, Retired
<1>4. ASSUME pc'[p] \notin {"runs", "read", "write"}
      PROVE  SnapshotTells(p)'
  BY <1>4 DEF SnapshotTells
<1>5. CASE UNCHANGED script
  BY <1>3, <1>5 DEF script
<1>6. ASSUME NEW o \in Operators, BeginPlan(o) PROVE SnapshotTells(p)'
  BY <1>3, <1>4, <1>6 DEF TypeOK, BeginPlan, BeginSnapshot
<1>7. ASSUME NEW o \in Operators, BeginApply(o) PROVE SnapshotTells(p)'
  BY <1>3, <1>4, <1>7 DEF TypeOK, BeginApply, BeginSnapshot
<1>8. ASSUME NEW o \in Operators, BeginVerify(o) PROVE SnapshotTells(p)'
  BY <1>3, <1>4, <1>8 DEF TypeOK, BeginVerify
<1>9. ASSUME NEW o \in Operators, ApiFails(o) PROVE SnapshotTells(p)'
  BY <1>3, <1>4, <1>9 DEF TypeOK, ApiFails, End
<1>10. ASSUME NEW o \in Operators, ReadPaths(o) PROVE SnapshotTells(p)'
  BY <1>3, <1>4, <1>10 DEF TypeOK, ReadPaths
<1>11. ASSUME NEW o \in Operators, PathsRejected(o) PROVE SnapshotTells(p)'
  BY <1>3, <1>4, <1>11 DEF TypeOK, PathsRejected, Reject, End
<1>12. ASSUME NEW o \in Operators, ReadCatalog(o) PROVE SnapshotTells(p)'
  <2>1. CASE o = p
    BY <1>12, <2>1 DEF TypeOK, ReadCatalog, github, SnapshotTells, RunsOf, Exists
  <2> QED
    BY <1>3, <1>12, <2>1 DEF TypeOK, ReadCatalog
<1>13. ASSUME NEW o \in Operators, ReadRuns(o) PROVE SnapshotTells(p)'
  <2>1. CASE o = p
    <3>1. PICK w \in Workflows : ReadRuns(o)!2!(w)
      BY <1>13 DEF ReadRuns
    <3>2. ASSUME NEW v \in Workflows, states'[p][v] = "disabled"
          PROVE  /\ state'[v] = "disabled"
                 /\ v \notin unread'[p] /\ (\A x \in seen'[p] : WorkflowOf[x.id] # v)
                       => RunsOf(v)' = {}
      <4>1. CASE v = w
        <5>1. states[p][v] = "disabled" /\ state' = state /\ run' = run
          BY <1>13, <2>1, <3>1, <3>2 DEF ReadRuns, github
        <5>2. state[v] = "disabled"
          BY <1>2, <1>13, <2>1, <5>1 DEF ReadRuns, SnapshotTells
        <5>3. ASSUME NEW r \in RunsOf(v)
              PROVE  \E x \in seen'[p] : WorkflowOf[x.id] = v
          <6>1. [id |-> r, status |-> run[r]] \in seen'[p]
            BY <2>1, <3>1, <4>1 DEF TypeOK, Listed
          <6> QED
            BY <6>1 DEF RunsOf
        <5> QED
          BY <1>1, <5>1, <5>2, <5>3
      <4>2. CASE v # w
        <5>1. states[p][v] = "disabled" /\ pc[p] = "runs" /\ state' = state
          BY <1>13, <2>1, <3>1, <3>2 DEF ReadRuns, github
        <5>2. seen[p] \subseteq seen'[p]
          BY <2>1, <3>1 DEF TypeOK
        <5>3. v \notin unread'[p] => v \notin unread[p]
          BY <2>1, <3>1, <4>2 DEF TypeOK
        <5> QED
          BY <1>1, <1>2, <5>1, <5>2, <5>3 DEF SnapshotTells
      <4> QED
        BY <4>1, <4>2
    <3> QED
      BY <1>13, <2>1, <3>1, <3>2 DEF TypeOK, ReadRuns, SnapshotTells, IsFirst
  <2> QED
    BY <1>3, <1>13, <2>1 DEF TypeOK, ReadRuns
<1>14. ASSUME NEW o \in Operators, PrintPlan(o) PROVE SnapshotTells(p)'
  BY <1>3, <1>4, <1>14 DEF TypeOK, PrintPlan, End
<1>15. ASSUME NEW o \in Operators, ApplyAccepted(o) PROVE SnapshotTells(p)'
  BY <1>3, <1>4, <1>15 DEF TypeOK, ApplyAccepted, Approved, Read
<1>16. ASSUME NEW o \in Operators, ApplyRejected(o) PROVE SnapshotTells(p)'
  BY <1>3, <1>4, <1>16 DEF TypeOK, ApplyRejected, Reject, End
<1>17. ASSUME NEW o \in Operators, Disable(o) PROVE SnapshotTells(p)'
  BY <1>3, <1>4, <1>17 DEF TypeOK, Disable, BeginSnapshot, IsFirst
<1>18. ASSUME NEW o \in Operators, DisableConfirmed(o) PROVE SnapshotTells(p)'
  BY <1>3, <1>4, <1>18 DEF TypeOK, DisableConfirmed, Deletable, Read
<1>19. ASSUME NEW o \in Operators, DisableRejected(o) PROVE SnapshotTells(p)'
  BY <1>3, <1>4, <1>19 DEF TypeOK, DisableRejected, Reject, End
<1>20. ASSUME NEW o \in Operators, DeleteRun(o) PROVE SnapshotTells(p)'
  BY <1>3, <1>4, <1>20 DEF TypeOK, DeleteRun
<1>21. ASSUME NEW o \in Operators, DeleteRejected(o) PROVE SnapshotTells(p)'
  BY <1>3, <1>4, <1>21 DEF TypeOK, DeleteRejected, Reject, End
<1>22. ASSUME NEW o \in Operators, DeletesDone(o) PROVE SnapshotTells(p)'
  BY <1>3, <1>4, <1>22 DEF TypeOK, DeletesDone, BeginSnapshot
<1>23. ASSUME NEW o \in Operators, RetiredConfirmed(o) PROVE SnapshotTells(p)'
  <2>1. CASE o = p
    BY <1>1, <1>2, <1>23, <2>1
    DEF TypeOK, RetiredConfirmed, Read, AllDisabled, SnapshotTells, Retired
  <2> QED
    BY <1>3, <1>23, <2>1 DEF TypeOK, RetiredConfirmed, Read
<1>24. ASSUME NEW o \in Operators, RetiredRejected(o) PROVE SnapshotTells(p)'
  BY <1>3, <1>4, <1>24 DEF TypeOK, RetiredRejected, Reject, End
<1>25. ASSUME NEW o \in Operators, WriteReceipt(o) PROVE SnapshotTells(p)'
  BY <1>3, <1>4, <1>25 DEF TypeOK, WriteReceipt, End
<1>26. ASSUME NEW o \in Operators, VerifyPaths(o) PROVE SnapshotTells(p)'
  BY <1>3, <1>4, <1>26 DEF TypeOK, VerifyPaths
<1>27. ASSUME NEW o \in Operators, VerifyPathsRejected(o) PROVE SnapshotTells(p)'
  BY <1>3, <1>4, <1>27 DEF TypeOK, VerifyPathsRejected, Reject, End
<1>28. ASSUME NEW o \in Operators, VerifyCatalog(o) PROVE SnapshotTells(p)'
  BY <1>3, <1>4, <1>28 DEF TypeOK, VerifyCatalog
<1>29. ASSUME NEW o \in Operators, VerifyCatalogRejected(o) PROVE SnapshotTells(p)'
  BY <1>3, <1>4, <1>29 DEF TypeOK, VerifyCatalogRejected, Reject, End
<1>30. ASSUME NEW o \in Operators, VerifyRuns(o) PROVE SnapshotTells(p)'
  BY <1>3, <1>4, <1>30 DEF TypeOK, VerifyRuns
<1>31. ASSUME NEW o \in Operators, VerifyRunsRejected(o) PROVE SnapshotTells(p)'
  BY <1>3, <1>4, <1>31 DEF TypeOK, VerifyRunsRejected, Reject, End
<1>32. ASSUME NEW o \in Operators, VerifyRepository(o) PROVE SnapshotTells(p)'
  BY <1>3, <1>4, <1>32 DEF TypeOK, VerifyRepository, End
<1>33. ASSUME NEW o \in Operators, VerifyRepositoryRejected(o) PROVE SnapshotTells(p)'
  BY <1>3, <1>4, <1>33 DEF TypeOK, VerifyRepositoryRejected, Reject, End
<1> QED
  BY <1>5, <1>6, <1>7, <1>8, <1>9, <1>10, <1>11, <1>12, <1>13, <1>14, <1>15,
     <1>16, <1>17, <1>18, <1>19, <1>20, <1>21, <1>22, <1>23, <1>24, <1>25,
     <1>26, <1>27, <1>28, <1>29, <1>30, <1>31, <1>32, <1>33
  DEF Next, Environment, Step, vars, script, StartRun, CompleteRun, RerunRun,
      DisableTakesEffect, Reenable, Migrate, RegisterReplacements

(* The count of workflows enabled again only grows.                        *)
LEMMA NoneEnabledYet == TypeOK /\ [Next]_vars /\ reenables' = 0 => reenables = 0
<1> SUFFICES ASSUME TypeOK, [Next]_vars, reenables' = 0 PROVE reenables = 0
  OBVIOUS
<1>1. reenables \in Nat
  BY RetirementAssumption DEF TypeOK
<1>2. ASSUME NEW w \in Workflows, Reenable(w) PROVE reenables = 0
  BY <1>1, <1>2 DEF Reenable
<1> QED
  BY <1>2 DEF github, script, vars,
       StartRun, CompleteRun, RerunRun, DisableTakesEffect, Migrate,
       RegisterReplacements, BeginPlan, BeginApply, BeginVerify, ApiFails, ReadPaths,
       PathsRejected, ReadCatalog, ReadRuns, PrintPlan, ApplyAccepted, ApplyRejected,
       Disable, DisableConfirmed, DisableRejected, DeleteRun, DeleteRejected, DeletesDone,
       RetiredConfirmed, RetiredRejected, WriteReceipt, VerifyPaths, VerifyPathsRejected,
       VerifyCatalog, VerifyCatalogRejected, VerifyRuns, VerifyRunsRejected,
       VerifyRepository, VerifyRepositoryRejected, Next, Environment, Step, Reject

(* The receipt is true from the moment it is written, for any number of    *)
(* operators, runs and failing calls, until somebody enables a legacy      *)
(* workflow again.                                                         *)
THEOREM ReceiptStaysTrue == Spec => []ReceiptIsTrue
<1> DEFINE Inv == (reenables = 0 => SnapshotInv) /\ ReceiptIsTrue
<1>1. Init => Inv
  BY DEF Init, SnapshotInv, SnapshotTells, ReceiptIsTrue
<1>2. TypeOK /\ Inv /\ [Next]_vars => (reenables = 0 => SnapshotInv)'
  BY NextSnapshot, NoneEnabledYet
<1>3. TypeOK /\ Inv /\ [Next]_vars => ReceiptIsTrue'
  <2> SUFFICES ASSUME TypeOK, Inv, [Next]_vars, receipt', reenables' = 0,
                      NEW w \in Workflows
               PROVE  (state[w] = "disabled" /\ RunsOf(w) = {})'
    BY DEF ReceiptIsTrue
  <2> reenables = 0 /\ SnapshotInv /\ ReceiptIsTrue
    BY NoneEnabledYet
  <2>1. CASE receipt
    BY <2>1, RetiredIsStable DEF ReceiptIsTrue
  <2>2. CASE ~receipt
    <3>1. PICK o \in Operators : WriteReceipt(o)
      BY <2>2 DEF github, script, vars,
       StartRun, CompleteRun, RerunRun, DisableTakesEffect, Reenable,
       Migrate, RegisterReplacements, BeginPlan, BeginApply,
       BeginVerify, ApiFails, ReadPaths, PathsRejected, ReadCatalog,
       ReadRuns, PrintPlan, ApplyAccepted, ApplyRejected, Disable,
       DisableConfirmed, DisableRejected, DeleteRun, DeleteRejected,
       DeletesDone, RetiredConfirmed, RetiredRejected, VerifyPaths,
       VerifyPathsRejected, VerifyCatalog, VerifyCatalogRejected,
       VerifyRuns, VerifyRunsRejected, VerifyRepository,
       VerifyRepositoryRejected, Next, Environment, Step, Reject,
       IsFirst
    <3> QED
      BY <3>1, RetiredIsStable DEF WriteReceipt, SnapshotInv, SnapshotTells, Retired
  <2> QED
    BY <2>1, <2>2
<1> QED
  BY <1>1, <1>2, <1>3, TypeCorrect, PTL DEF Spec
=============================================================================
