-------------------------- MODULE LegacyRetirement --------------------------
(***************************************************************************)
(* scripts/retire_legacy_workflows.py: the two-phase retirement of the     *)
(* legacy publisher workflows.  Operators run the script as a plan, as an  *)
(* apply with the token of a plan, or as a verification, while workflow    *)
(* runs start, complete and are rerun, GitHub applies a disable with some  *)
(* delay, and the migration of the workflow paths is pushed.               *)
(*                                                                         *)
(* A snapshot is not atomic: it is one read of the default branch, one of  *)
(* the workflow catalog and one of the runs of each workflow in turn.  Any *)
(* call may fail and end the script with what it has done so far.          *)
(***************************************************************************)
EXTENDS Naturals

CONSTANTS
    Workflows,      \* the legacy workflow identities, in LEGACY_PATHS order
    RunIds,         \* workflow runs that may come to exist
    WorkflowOf,     \* the workflow of each run
    Operators,      \* who runs the script
    MaxReenables,   \* bound: how often an administrator enables a workflow again
    MaxReruns,      \* bound: reruns of completed runs
    MaxFailures     \* bound: failing calls

ASSUME RetirementAssumption ==
    /\ Workflows \subseteq Nat
    /\ RunIds \subseteq Nat
    /\ WorkflowOf \in [RunIds -> Workflows]
    /\ MaxReenables \in Nat
    /\ MaxReruns \in Nat /\ MaxFailures \in Nat

VARIABLES
    branch,     \* workflow paths on the default branch: legacy or migrated
    registered, \* GitHub lists the replacement workflows as active
    state,      \* the state of each legacy workflow
    requested,  \* workflows whose disable GitHub has yet to apply
    run,        \* what became of each run
    receipt,    \* the receipt file exists
    reruns,     \* reruns so far
    reenables,  \* workflows enabled again so far
    failures,   \* failing calls so far
    pc,         \* where each operator's script is
    phase,      \* what the snapshot it takes is for
    token,      \* the plan (its run ids) whose token it was given, if any
    original,   \* the run ids of the snapshot it applies
    states,     \* the workflow states it has read
    unread,     \* workflows whose runs it has yet to read or to disable
    seen,       \* the runs it has read, with their status
    todo        \* the runs it has yet to delete

github == <<branch, registered, state, requested, run, reruns, reenables>>
script == <<pc, phase, token, original, states, unread, seen, todo>>
vars == <<branch, registered, state, requested, run, receipt, reruns, reenables, failures,
          pc, phase, token, original, states, unread, seen, todo>>

Ended == {"idle", "verified"}
Reading == {"paths", "catalog", "runs"}
Verifying == {"vPaths", "vCatalog", "vRuns", "vRepository"}
Locations == Ended \cup Reading \cup {"read", "disable", "delete", "write"} \cup Verifying
Phases == {"plan", "apply", "disabled", "retired", "verify"}

(* The runs GitHub lists: every one of them can be rerun once completed.   *)
Exists(r) == run[r] \in {"active", "completed"}
RunsOf(w) == {r \in RunIds : WorkflowOf[r] = w /\ Exists(r)}
Listed(w) == {[id |-> r, status |-> run[r]] : r \in RunsOf(w)}
Ids(list) == {x.id : x \in list}
IsFirst(x, S) == x \in S /\ \A y \in S : x <= y
AllCompleted(list) == \A x \in list : x.status = "completed"

TypeOK ==
    /\ branch \in {"legacy", "migrated"}
    /\ registered \in BOOLEAN
    /\ state \in [Workflows -> {"active", "disabled"}]
    /\ requested \subseteq Workflows
    /\ run \in [RunIds -> {"absent", "active", "completed", "deleted"}]
    /\ receipt \in BOOLEAN
    /\ reruns \in 0..MaxReruns
    /\ reenables \in 0..MaxReenables
    /\ failures \in 0..MaxFailures
    /\ pc \in [Operators -> Locations]
    /\ phase \in [Operators -> Phases]
    /\ token \in [Operators -> SUBSET (SUBSET RunIds)]
    /\ original \in [Operators -> SUBSET RunIds]
    /\ states \in [Operators -> [Workflows -> {"active", "disabled"}]]
    /\ unread \in [Operators -> SUBSET Workflows]
    /\ seen \in [Operators -> SUBSET [id : RunIds, status : {"active", "completed"}]]
    /\ todo \in [Operators -> SUBSET RunIds]

NotRead == [w \in Workflows |-> "active"]

(* Runs of the time before the retirement, active and completed ones.      *)
Init ==
    /\ branch = "legacy"
    /\ registered = FALSE
    /\ state = [w \in Workflows |-> "active"]
    /\ requested = {}
    /\ run \in [RunIds -> {"absent", "active", "completed"}]
    /\ receipt = FALSE
    /\ reruns = 0
    /\ reenables = 0
    /\ failures = 0
    /\ pc = [o \in Operators |-> "idle"]
    /\ phase = [o \in Operators |-> "plan"]
    /\ token = [o \in Operators |-> {}]
    /\ original = [o \in Operators |-> {}]
    /\ states = [o \in Operators |-> NotRead]
    /\ unread = [o \in Operators |-> {}]
    /\ seen = [o \in Operators |-> {}]
    /\ todo = [o \in Operators |-> {}]

-----------------------------------------------------------------------------
(* GitHub, developers and administrators.                                  *)

StartRun(r) ==
    /\ run[r] = "absent"
    /\ branch = "legacy"
    /\ state[WorkflowOf[r]] = "active"
    /\ run' = [run EXCEPT ![r] = "active"]
    /\ UNCHANGED <<branch, registered, state, requested, receipt, reruns, reenables, failures, script>>

CompleteRun(r) ==
    /\ run[r] = "active"
    /\ run' = [run EXCEPT ![r] = "completed"]
    /\ UNCHANGED <<branch, registered, state, requested, receipt, reruns, reenables, failures, script>>

RerunRun(r) ==
    /\ run[r] = "completed"
    /\ reruns < MaxReruns
    /\ reruns' = reruns + 1
    /\ run' = [run EXCEPT ![r] = "active"]
    /\ UNCHANGED <<branch, registered, state, requested, receipt, reenables, failures, script>>

DisableTakesEffect(w) ==
    /\ w \in requested
    /\ requested' = requested \ {w}
    /\ state' = [state EXCEPT ![w] = "disabled"]
    /\ UNCHANGED <<branch, registered, run, receipt, reruns, reenables, failures, script>>

Reenable(w) ==
    /\ reenables < MaxReenables
    /\ reenables' = reenables + 1
    /\ branch = "legacy"
    /\ state[w] = "disabled"
    /\ state' = [state EXCEPT ![w] = "active"]
    /\ UNCHANGED <<branch, registered, requested, run, receipt, reruns, failures, script>>

Migrate ==
    /\ branch = "legacy"
    /\ branch' = "migrated"
    /\ UNCHANGED <<registered, state, requested, run, receipt, reruns, reenables, failures, script>>

RegisterReplacements ==
    /\ branch = "migrated"
    /\ ~registered
    /\ registered' = TRUE
    /\ UNCHANGED <<branch, state, requested, run, receipt, reruns, reenables, failures, script>>

-----------------------------------------------------------------------------
(* The script.  When it ends it forgets what it has read; the operator     *)
(* keeps the token.  Only a successful --verify is told from other ends.   *)
End(o, how) ==
    /\ pc' = [pc EXCEPT ![o] = how]
    /\ phase' = [phase EXCEPT ![o] = "plan"]
    /\ original' = [original EXCEPT ![o] = {}]
    /\ states' = [states EXCEPT ![o] = NotRead]
    /\ unread' = [unread EXCEPT ![o] = {}]
    /\ seen' = [seen EXCEPT ![o] = {}]
    /\ todo' = [todo EXCEPT ![o] = {}]

Reject(o) ==
    /\ End(o, "idle")
    /\ UNCHANGED <<github, receipt, failures, token>>

(* A gh call fails, times out or answers nonsense, or the script is killed.*)
ApiFails(o) ==
    /\ pc[o] \notin Ended
    /\ failures < MaxFailures
    /\ failures' = failures + 1
    /\ End(o, "idle")
    /\ UNCHANGED <<github, receipt, token>>

(* collect_pre_migration_snapshot, step by step.                           *)
BeginSnapshot(o, p) ==
    /\ pc' = [pc EXCEPT ![o] = "paths"]
    /\ phase' = [phase EXCEPT ![o] = p]
    /\ states' = [states EXCEPT ![o] = NotRead]
    /\ unread' = [unread EXCEPT ![o] = {}]
    /\ seen' = [seen EXCEPT ![o] = {}]

BeginPlan(o) ==
    /\ pc[o] \in Ended
    /\ BeginSnapshot(o, "plan")
    /\ UNCHANGED <<github, receipt, failures, token, original, todo>>

BeginApply(o) ==
    /\ pc[o] \in Ended
    /\ token[o] # {}
    /\ BeginSnapshot(o, "apply")
    /\ UNCHANGED <<github, receipt, failures, token, original, todo>>

ReadPaths(o) ==
    /\ pc[o] = "paths"
    /\ branch = "legacy"
    /\ pc' = [pc EXCEPT ![o] = "catalog"]
    /\ UNCHANGED <<github, receipt, failures, phase, token, original, states, unread, seen, todo>>

PathsRejected(o) ==
    /\ pc[o] = "paths"
    /\ branch # "legacy"
    /\ Reject(o)

(* Mutant: a requested disable is taken for one that has taken effect.     *)
ReadCatalogOptimistic(o) ==
    /\ pc[o] = "catalog"
    /\ states' = [states EXCEPT ![o] =
                     [w \in Workflows |-> IF w \in requested THEN "disabled" ELSE state[w]]]
    /\ unread' = [unread EXCEPT ![o] = Workflows]
    /\ pc' = [pc EXCEPT ![o] = "runs"]
    /\ UNCHANGED <<github, receipt, failures, phase, token, original, seen, todo>>

ReadCatalog(o) ==
    /\ pc[o] = "catalog"
    /\ states' = [states EXCEPT ![o] = state]
    /\ unread' = [unread EXCEPT ![o] = Workflows]
    /\ pc' = [pc EXCEPT ![o] = "runs"]
    /\ UNCHANGED <<github, receipt, failures, phase, token, original, seen, todo>>

ReadRuns(o) ==
    /\ pc[o] = "runs"
    /\ \E w \in Workflows :
          /\ IsFirst(w, unread[o])
          /\ seen' = [seen EXCEPT ![o] = @ \cup Listed(w)]
          /\ unread' = [unread EXCEPT ![o] = @ \ {w}]
          /\ pc' = [pc EXCEPT ![o] = IF unread[o] = {w} THEN "read" ELSE "runs"]
    /\ UNCHANGED <<github, receipt, failures, phase, token, original, states, todo>>

(* A snapshot is used up.                                                  *)
Read(o, location) ==
    /\ pc' = [pc EXCEPT ![o] = location]
    /\ states' = [states EXCEPT ![o] = NotRead]
    /\ seen' = [seen EXCEPT ![o] = {}]

(* The plan's token: apply_token hashes the run ids of the snapshot.       *)
PrintPlan(o) ==
    /\ pc[o] = "read" /\ phase[o] = "plan"
    /\ token' = [token EXCEPT ![o] = {Ids(seen[o])}]
    /\ End(o, "idle")
    /\ UNCHANGED <<github, receipt, failures>>

(* Mutant: the token is not compared with the snapshot.                    *)
ApprovedAnyToken(o) == AllCompleted(seen[o])

(* Mutant: a workflow that is disabled already is not retired again.       *)
ApprovedOnce(o) ==
    /\ Ids(seen[o]) \in token[o]
    /\ AllCompleted(seen[o])
    /\ \A w \in Workflows : states[o][w] = "active"

(* retire: the token is the one of the exact snapshot, no run is active.   *)
Approved(o) == Ids(seen[o]) \in token[o] /\ AllCompleted(seen[o])

ApplyAccepted(o) ==
    /\ pc[o] = "read" /\ phase[o] = "apply"
    /\ Approved(o)
    /\ original' = [original EXCEPT ![o] = Ids(seen[o])]
    /\ unread' = [unread EXCEPT ![o] = Workflows]
    /\ Read(o, "disable")
    /\ UNCHANGED <<github, receipt, failures, phase, token, todo>>

ApplyRejected(o) ==
    /\ pc[o] = "read" /\ phase[o] = "apply"
    /\ ~Approved(o)
    /\ Reject(o)

(* Mutant: the position of a workflow is disabled for its id.              *)
DisableByPosition(o) ==
    /\ pc[o] = "disable"
    /\ \E w \in Workflows :
          /\ IsFirst(w, unread[o])
          /\ requested' = requested \cup {w - 1}
          /\ \/ unread[o] = {w} /\ BeginSnapshot(o, "disabled")
             \/ /\ unread[o] # {w}
                /\ unread' = [unread EXCEPT ![o] = @ \ {w}]
                /\ UNCHANGED <<pc, phase, states, seen>>
    /\ UNCHANGED <<branch, registered, state, run, reruns, reenables, receipt, failures,
                   token, original, todo>>

(* PUT .../disable of one workflow after the other, then a new snapshot.   *)
Disable(o) ==
    /\ pc[o] = "disable"
    /\ \E w \in Workflows :
          /\ IsFirst(w, unread[o])
          /\ requested' = requested \cup {w}
          /\ \/ unread[o] = {w} /\ BeginSnapshot(o, "disabled")
             \/ /\ unread[o] # {w}
                /\ unread' = [unread EXCEPT ![o] = @ \ {w}]
                /\ UNCHANGED <<pc, phase, states, seen>>
    /\ UNCHANGED <<branch, registered, state, run, reruns, reenables, receipt, failures,
                   token, original, todo>>

AllDisabled(o) == \A w \in Workflows : states[o][w] = "disabled"

(* What must hold before the first run is deleted.                         *)
Deletable(o) ==
    /\ AllDisabled(o)
    /\ Ids(seen[o]) = original[o]
    /\ AllCompleted(seen[o])

DisableConfirmed(o) ==
    /\ pc[o] = "read" /\ phase[o] = "disabled"
    /\ Deletable(o)
    /\ todo' = [todo EXCEPT ![o] = original[o]]
    /\ Read(o, "delete")
    /\ UNCHANGED <<github, receipt, failures, phase, token, original, unread>>

DisableRejected(o) ==
    /\ pc[o] = "read" /\ phase[o] = "disabled"
    /\ ~Deletable(o)
    /\ Reject(o)

(* DELETE of one run after the other; GitHub deletes completed runs only.  *)
DeleteRun(o) ==
    /\ pc[o] = "delete"
    /\ \E r \in RunIds :
          /\ IsFirst(r, todo[o])
          /\ run[r] = "completed"
          /\ run' = [run EXCEPT ![r] = "deleted"]
          /\ todo' = [todo EXCEPT ![o] = @ \ {r}]
    /\ UNCHANGED <<branch, registered, state, requested, reruns, reenables, receipt, failures,
                   pc, phase, token, original, states, unread, seen>>

DeleteRejected(o) ==
    /\ pc[o] = "delete"
    /\ \E r \in RunIds : IsFirst(r, todo[o]) /\ run[r] # "completed"
    /\ Reject(o)

DeletesDone(o) ==
    /\ pc[o] = "delete"
    /\ todo[o] = {}
    /\ BeginSnapshot(o, "retired")
    /\ UNCHANGED <<github, receipt, failures, token, original, todo>>

(* verify_pre_migration_retired on a third snapshot, then the receipt.     *)
RetiredConfirmed(o) ==
    /\ pc[o] = "read" /\ phase[o] = "retired"
    /\ AllDisabled(o) /\ seen[o] = {}
    /\ Read(o, "write")
    /\ UNCHANGED <<github, receipt, failures, phase, token, original, unread, todo>>

RetiredRejected(o) ==
    /\ pc[o] = "read" /\ phase[o] = "retired"
    /\ ~AllDisabled(o) \/ seen[o] # {}
    /\ Reject(o)

WriteReceipt(o) ==
    /\ pc[o] = "write"
    /\ receipt' = TRUE
    /\ End(o, "idle")
    /\ UNCHANGED <<github, failures, token>>

-----------------------------------------------------------------------------
(* verify_post_migration: the receipt, the default branch, the catalog,    *)
(* the runs of the captured workflows that are still listed, all runs.     *)
(* Without a receipt load_receipt ends the script before its first call.   *)
BeginVerify(o) ==
    /\ pc[o] \in Ended
    /\ receipt
    /\ pc' = [pc EXCEPT ![o] = "vPaths"]
    /\ phase' = [phase EXCEPT ![o] = "verify"]
    /\ UNCHANGED <<github, receipt, failures, token, original, states, unread, seen, todo>>

VerifyPaths(o) ==
    /\ pc[o] = "vPaths"
    /\ branch = "migrated"
    /\ pc' = [pc EXCEPT ![o] = "vCatalog"]
    /\ UNCHANGED <<github, receipt, failures, phase, token, original, states, unread, seen, todo>>

VerifyPathsRejected(o) ==
    /\ pc[o] = "vPaths"
    /\ branch # "migrated"
    /\ Reject(o)

(* GitHub may or may not list a workflow whose path is gone.               *)
VerifyCatalog(o) ==
    /\ pc[o] = "vCatalog"
    /\ registered
    /\ \E listed \in SUBSET Workflows :
          /\ \A w \in listed : state[w] = "disabled"
          /\ unread' = [unread EXCEPT ![o] = listed]
    /\ pc' = [pc EXCEPT ![o] = "vRuns"]
    /\ UNCHANGED <<github, receipt, failures, phase, token, original, states, seen, todo>>

VerifyCatalogRejected(o) ==
    /\ pc[o] = "vCatalog"
    /\ ~registered \/ \E w \in Workflows : state[w] # "disabled"
    /\ Reject(o)

VerifyRuns(o) ==
    /\ pc[o] = "vRuns"
    /\ \/ /\ unread[o] = {}
          /\ pc' = [pc EXCEPT ![o] = "vRepository"]
          /\ UNCHANGED unread
       \/ /\ \E w \in Workflows :
                /\ IsFirst(w, unread[o])
                /\ RunsOf(w) = {}
                /\ unread' = [unread EXCEPT ![o] = @ \ {w}]
          /\ UNCHANGED pc
    /\ UNCHANGED <<github, receipt, failures, phase, token, original, states, seen, todo>>

VerifyRunsRejected(o) ==
    /\ pc[o] = "vRuns"
    /\ \E w \in Workflows : IsFirst(w, unread[o]) /\ RunsOf(w) # {}
    /\ Reject(o)

(* Mutant: only the runs of listed workflows are looked at.                *)
VerifyRepositoryUnread(o) ==
    /\ pc[o] = "vRepository"
    /\ End(o, "verified")
    /\ UNCHANGED <<github, receipt, failures, token>>

VerifyRepository(o) ==
    /\ pc[o] = "vRepository"
    /\ \A r \in RunIds : ~Exists(r)
    /\ End(o, "verified")
    /\ UNCHANGED <<github, receipt, failures, token>>

VerifyRepositoryRejected(o) ==
    /\ pc[o] = "vRepository"
    /\ \E r \in RunIds : Exists(r)
    /\ Reject(o)

-----------------------------------------------------------------------------
Environment ==
    \/ \E r \in RunIds : StartRun(r) \/ CompleteRun(r) \/ RerunRun(r)
    \/ \E w \in Workflows : DisableTakesEffect(w) \/ Reenable(w)
    \/ Migrate \/ RegisterReplacements

Step(o) ==
    \/ ReadPaths(o) \/ PathsRejected(o) \/ ReadCatalog(o) \/ ReadRuns(o)
    \/ PrintPlan(o) \/ ApplyAccepted(o) \/ ApplyRejected(o)
    \/ Disable(o) \/ DisableConfirmed(o) \/ DisableRejected(o)
    \/ DeleteRun(o) \/ DeleteRejected(o) \/ DeletesDone(o)
    \/ RetiredConfirmed(o) \/ RetiredRejected(o) \/ WriteReceipt(o)
    \/ VerifyPaths(o) \/ VerifyPathsRejected(o)
    \/ VerifyCatalog(o) \/ VerifyCatalogRejected(o)
    \/ VerifyRuns(o) \/ VerifyRunsRejected(o)
    \/ VerifyRepository(o) \/ VerifyRepositoryRejected(o)

Next ==
    \/ Environment
    \/ \E o \in Operators : BeginPlan(o) \/ BeginApply(o) \/ BeginVerify(o) \/ ApiFails(o) \/ Step(o)

Spec == Init /\ [][Next]_vars

(* Scripts run on, runs come to an end, GitHub applies a disable, and the  *)
(* operators follow README.md: they plan and apply again until it is done. *)
FairSpec ==
    /\ Spec
    /\ \A r \in RunIds : WF_vars(CompleteRun(r))
    /\ \A w \in Workflows : WF_vars(DisableTakesEffect(w))
    /\ \A o \in Operators : WF_vars(Step(o)) /\ SF_vars(BeginPlan(o)) /\ SF_vars(BeginApply(o))

-----------------------------------------------------------------------------
(* The receipt's proof ("verifiedState", "verifiedRunCount": 0) is true    *)
(* from the moment it is written although it rests on reads made one after *)
(* the other: every workflow is disabled and no run of it is left, until   *)
(* somebody enables one again.                                             *)
ReceiptIsTrue ==
    receipt /\ reenables = 0 => \A w \in Workflows : state[w] = "disabled" /\ RunsOf(w) = {}

(* "deletes only their approved completed run IDs" (README.md:90-91): what *)
(* an apply deletes is in the plan whose token it was given, though other  *)
(* runs appear and another operator is at work.                            *)
DeletesOnlyApproved ==
    [][\A r \in RunIds : run[r] # "deleted" /\ run'[r] = "deleted" =>
          \E o \in Operators : pc[o] = "delete" /\ \E plan \in token[o] : r \in plan]_vars

(* After a successful --verify no legacy run is left that could be rerun,  *)
(* even if a workflow was enabled again after the receipt was written.     *)
VerifiedIsRetired ==
    \A o \in Operators : pc[o] = "verified" => \A r \in RunIds : ~Exists(r)

(* "A partial failure is recoverable by generating a fresh plan and token" *)
(* (README.md:95-96): whatever failed half way, planning and applying      *)
(* again leads to the receipt, unless the paths are migrated before.       *)
RetirementCompletes == <>(receipt \/ branch = "migrated")
=============================================================================
