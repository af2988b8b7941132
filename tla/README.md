# Verification of exitFy-cores

exitFy-cores wraps two proxy cores, Xray (through libXray) and sing-box, as
Android shared libraries with a two-function C ABI, and publishes them with two
hardened GitHub workflows. This directory models the parts of it that keep
state: the bridges, the workflows, the retirement of the legacy workflows, and
the scripts that run commands, copy the sources, hand a candidate over and put
an archive in place while other processes interfere. TLC checks the models on
small instances, and TLAPS proves for every value of the constants each safety
property that holds without a bound.

## The system

| Part | State | Operations | Works with |
|---|---|---|---|
| Xray bridge (`internal/bridge`, `cmd/exitfy-xray`) | mutex, `running`, `stopRequired` | `StartCore`, `StopCore`, `IsRunning` | libXray, which owns process-global state and answers over JSON |
| sing-box bridge (`singbox/internal/bridge`, `singbox/cmd/exitfy-sb`) | mutex, `instance`, `cancel`, `stopRequired` | the same | a Box, its factory, its context |
| Error redaction (`SafeError`, both bridges) | none | string to bounded, redacted string | every error that leaves the ABI |
| Release pipeline (`publish-*-core-v2.yml`) | `main`, releases and drafts, tags, workflow runs | build job: resolve, build, hand over; publish job: validate head, pin, draft, upload, poll, publish, verify | GitHub, upstream, developers, the other family's pipeline |
| Release-state decisions (`release_draft_state.py`, `release_head_state.py`, `verify_remote_release.py`, `verify_published_candidate.py`, `fetch_github_release_pages.sh`) | none | decide over the release list, the tag references and the head of `main` | called by both workflows |
| Manifests (`generate_*manifest.py`, `verify_*manifest.py`) | none | describe and verify an asset set | publish job |
| Candidate handoff (`candidate_handoff.py`) | a directory of files | create, verify | from the build job to the publish job; the sing-box manifest scripts |
| Legacy workflow retirement (`retire_legacy_workflows.py`) | workflows and runs on GitHub, a receipt | plan, apply with a token, verify | both workflows verify it |
| Bounded command capture (in three scripts) | a process group and its pipes | run, time out, terminate, reap | Git, Go, gh |
| Build inputs and pins (`verify_build_inputs.py`) | repository state, pin snapshot | assert, capture, verify | build job |
| Source-bundle builder (`build_singbox_source_bundle.py`) | a private copy of the worktree; a staged archive, a lock, a backup | copy, compare pins, vendor, archive; lock, stage, link, rename, roll back | Git, Go tools, developers, other builders |
| Source-bundle auditor | none | audit an archive | sing-box build |
| ELF verifier, public-tree audit, build scripts | none | parse, scan, compile | build jobs |

Hard behaviours: several JNI threads and native code that fails half way or
panics (the bridges); jobs that die between two side effects and are rerun,
alone or with the whole run, against a repository that moved on; two families
that share one branch and one publisher; a release list that shows drafts late,
or never to a read-only token; an upstream that withdraws a release; a
retirement that reads and changes GitHub one call at a time while runs appear;
process groups whose leader is gone while its children hold the pipes; files
that are edited, exchanged and put back between two reads; a builder that fails,
is interrupted or dies between two changes of names.

What makes each part correct:

* bridges: never two cores, never a core nobody can stop, no false answer to the
  caller, no call that hangs because an earlier one failed;
* pipeline: what is public is complete, was built from the commit it names, is
  pinned on `main` by that commit, never changes, appears once per tag and in
  upstream order; a stale draft never captures another run's candidate; reruns
  pick up what is there; every run ends;
* retirement: only approved runs are deleted, a receipt means that nothing is
  left to run again, a failure half way can be repaired by doing it again;
* command capture: no signal reaches a group that is not the command's, nothing
  of the command outlives the capture, accepted output is all the command wrote,
  every capture ends;
* source bundle: the archive is the expected commit with the frozen pins, its
  name shows a complete archive at any moment, and the earlier archive is not
  lost;
* handoff: what verification accepts of a file is what the file held, and what
  becomes public is what was attested.

`PROJECT.json` lists the hazards by source line with the properties that cover
them.

## Modules

| Module | Models |
|---|---|
| `CoreLifecycle` | the ABI's promise, abstractly: one core, owned from the moment a start reaches it until its end is confirmed |
| `XrayBridge` | `bridge.go` and `main.go` of the Xray core; libXray external |
| `SingboxBridge` | `bridge.go` and `main.go` of the sing-box core; Box and factory external |
| `XrayBridgeProofs`, `SingboxBridgeProofs` | theorems about the bridges |
| `ReleaseState` | the pure decisions of `release_draft_state.py` as operators |
| `ReleaseChannel` | what the publishers promise, abstractly: `main` grows, whole releases appear under new tags, nothing else changes |
| `ReleasePipeline` | both publisher workflows over one repository |
| `LegacyRetirement` | `retire_legacy_workflows.py`, several operators against a changing repository |
| `CommandCapture` | the three copies of the process-group capture against a command, a kernel and interrupts |
| `SourceSnapshot` | `build_singbox_source_bundle.py`: what goes into the archive |
| `ArchiveOutput` | `build_singbox_source_bundle.py`: how the archive gets its name |
| `CandidateHandoff` | `candidate_handoff.py` and the sing-box candidate's way to a public release |
| `ReleasePipelineProofs`, `LegacyRetirementProofs`, `CommandCaptureProofs`, `SourceSnapshotProofs`, `ArchiveOutputProofs`, `CandidateHandoffProofs` | theorems about these modules |
| `MC...` | instances for TLC, one per module with runs |

`CoreLifecycle` is implemented by both bridges and `ReleaseChannel` by
`ReleasePipeline`, which uses `ReleaseState`. The others meet at their ends:
`SourceSnapshot` is what happens before `ArchiveOutput`, whose archive is one of
the artifacts `CandidateHandoff` starts from, and its release is one publish job
of `ReleasePipeline` seen file by file. `CommandCapture` is below every script
that runs a command. They are not composed into one specification: none of them
reads the other's state while it runs, and the product would only be larger.

`PROJECT.json` ("map") gives the source lines of every definition. The two
workflows have the same structure, so `ReleasePipeline` models both with the
family as a parameter; where a step has a succeeding and a failing action, the
map points to the Xray workflow for the first and to the same step of the
sing-box workflow for the second. Operators commented "Mutant" are wrong
variants of the definition that follows them. No specification uses them; they
show that the properties can fail.

### XrayBridge

One `pc` per calling thread; a call is the lock acquisition, the checks, the
request to libXray and the code after it. `LibXrayRun` and `LibXrayStop` are the
environment: a success tells what happened, any other answer (rejection,
unreadable JSON, panic) may hide either outcome. A configuration is reduced to
the check that rejects it. `IsRunning` is exported by the package and not by the
C ABI; it is modelled because tests and embedding code call it. The
`json.Marshal` error paths of `Start` and `Stop` cannot be taken (the values are
strings) and are left out.

### SingboxBridge

The bridge owns objects, so the model names them: an *attempt* is the context
and the Box one call of `Start` creates. `box` says whether an attempt's Box is
closed (or was never made), built or up, `liveCtx` which contexts are not
cancelled. `NewCore` covers every result of the factory type, a Box together
with an error included, although `createCore` itself never returns that pair. A
factory that panics after it built a Box leaves it *lost*: the recover of `Start`
has no Box to close and can only cancel the context. A lost Box was never
started, does not count as open, and `NothingLeaks` asks that its context be
cancelled before the lock is free.
The three copies of the failure path in `Start` (factory error, start error,
recover) are the same sequence cancel, close, retain, and one set of actions.
`isOnlyClosed` is reduced to its two outcomes; a closed Box answers
`os.ErrClosed` when it is closed again.

### ReleasePipeline

A commit is its position on `main` and records the version of everything but the
pins (`src`) and the pinned upstream of each family. A release has an id, a tag
(family, upstream, revision), a target commit, a draft flag and its assets; the
content of an asset is the source version and the upstream it was built from,
and for the manifest the wrapper commit it names. So "the wrong bytes under the
right name" can be expressed and the checks of the workflow can detect it.

A run goes `queued`, `built`, `pin`, `confirm`, `list`, then `create` or
`reconcile`/`delete`, `select`, `upload`, `poll`, `flip`, `final`, and ends as
`done`, `skipped`, `failed` or `cancelled`. Every external side effect (push,
create, PATCH, each DELETE, each uploaded asset, publication) is a step of its
own, and `Crash` may end the job before any of them. The build job is one step:
it reads its inputs at the event commit in `Resolve`, nothing of what it does
afterwards touches shared state, and its failing is `Crash` of a queued run.
`RerunAll` repeats both jobs, `RerunPublish` only the publish job with the
earlier outputs. A rerun of failed jobs that would have to wait for its family's
group is modelled as one that is requested later. With two families at most two
publish jobs exist at a time, so the publisher's group never replaces a pending
job and no action does that. With `ListLag` a release list may leave out drafts of the tag.
`SelectUpload` follows `gh release upload`, which finds its release by tag.
There is no action for a failing final verification: `FinalNeverFails` shows
that it is never needed.

`ReleaseChannel` is the same system seen by those who only read `main`, the
public releases and the tags. Its releases have no ids and no draft flag
(`Shown`), and runs, pins in progress, drafts and uploads do not exist in it.
`ImplementsChannel` says that each step of a workflow is one of its three steps
or invisible: in particular the flip of a draft is one step that shows a whole
release, under a tag that no release has, together with the tag reference.

### LegacyRetirement

Every operator runs the script as a plan, an apply or a verification. A snapshot
is what the code makes of it, one read of the default branch, one of the catalog
and one of the runs of each workflow in turn; `phase` says which of the snapshots
of `retire` is being read. The token, a hash of host, repository, branch,
workflow and run ids, is the set of run ids it covers, the only part that can
change here; it does not cover the state of the runs, which is why `retire`
checks that separately. `requested` holds the disables GitHub has accepted and not yet
applied. `ApiFails` may end the script before any call, and a call that took
effect but whose answer is lost is that call followed by `ApiFails`. Reruns of
completed runs, new runs of enabled workflows, the migration push at any moment,
a receipt that is old when it is verified, and (up to `MaxReenables` times) a
workflow that is enabled again are the environment. GitHub is taken to delete completed
runs only and to start legacy runs only while the legacy paths are on the
default branch. The name of the default branch and the workflow ids do not
change in the model, so the comparisons of both always succeed; the fallback from
REST to GraphQL is one read; all operators share the tracked receipt.

### CommandCapture

One capture, in one of the three copies of the code (`copy`): `GitHubApi` of the
retirement script, `_run_bounded` of `verify_build_inputs.py` and
`bounded_command_output` of the bundle builder. `os` holds what the kernel
knows (the leader, its descendants in and out of the group, whether the group's
number belongs to somebody else by now, what is in the pipe), `pc` and `m` the
script. The locations `loop`, `probe`, `arbitrate`, `select` are the main loop,
`stop` to `settle` the end of the group, `resume`, `drain`, `finish` what follows
it, `handler` the clean-up after an exception. An action named after a copy
(`ApiArbitrates`, `BundleRefused`) is that copy's code where the copies differ.
`Interrupt` may come between any two steps; `Popen.wait` waits a second time
when it is interrupted, and is cut short by a second interrupt. The two pipes
are one pipe that holds one chunk, output is counted in chunks, and the pinned
executable's identity is a check that may fail.

The model made explicit what a reader of the three copies easily misses, and the
properties name these cases as their exceptions. With two interrupts in `inputs`
and `bundle` a group id that is already free may be signalled, and so may one in
`api` if another thread reaps the leader between the probe and the signal. `Popen.wait` reports 0 when another thread took
the child's status, so a failed command is accepted there. `inputs` accepts an
exit it first sees after the deadline. `bundle` kills the leader only if it
refuses the executable right after starting it.

### SourceSnapshot

`work` is the worktree, `index` the Git index, `private` the builder's directory.
A file is two halves read one after the other, and a stamp, its fingerprint. Developers
edit a file half by half, remove it, stage it or move `HEAD`; the Go tools write
into the private directory between the copy and the archive. `pc` follows `pin`,
`head`, `staged`, `list`, then per file `copy`, `read`, `readMore`, `verify`,
`reopen`, then `recheck` for all files, `headAgain`, `stagedAgain`, `pins`,
`vendor`, and per member `archive`, `add`, `addMore`, `addVerify`. The
history variable `midway` is the worktree at the instant between the last
copy and the first recheck. Every change is taken to change the fingerprint,
which holds with time stamps in nanoseconds. Vendored files and the fingerprint
of the root directory are left out.

### ArchiveOutput

Several builders of one output name. A file is named by who wrote it. `out`, `tmp`
and `old` say which file is under the output name and under each builder's
staged and backup name; `kept` is the descriptor of the backup, `replaced` and
`published` are the code's two notes. Every call of `write_source_archive` is a
step that may fail (`Fail`), be preceded by an interrupt or by the process's
death; then `rescue`, `rollback`, `dropStaged`, `dropBackup`, `unlock` are the
handler and the `finally` block. `Tamper` removes or replaces one of the names.

Two behaviours of the code are visible. An interrupt between `os.replace`
and `replaced = True` makes the `finally` block drop the backup of a build that
failed: the builders it happened to are in `cut`, and only they are exempt from
`OldIsRecoverable`. A build that fails after the rename leaves its own archive
in place when there was no previous one. Power loss (`fsync`) and renaming the
parent directory are not modelled.

### CandidateHandoff

The two jobs are one script, a sequence of steps on files (`Script`): create the
candidate directory, verify it twice more, generate and check the manifest,
verify, upload, compare the draft with the disk, publish, verify the public
release. `Open` and `Read` read the file at hand in pieces, as in
`SourceSnapshot`; the readers of `candidate_handoff.py` compare identities
afterwards (`Unchanged`), the manifest and upload tools do not. A digest stands
for the contents. `input` and `candidate` are the two directories, `record` what
the handoff lists, `listed` what the manifest will list and, as parsed, lists,
`remote` the release's assets. `ChangeInput` and `ChangeCandidate` are other
processes that write half of a file, remove or replace it at any moment; a loss
between the upload by one job and the download by the other counts as one.

No digest names the manifest. `candidate_handoff.py` only asks that it be a
stable file, and every later check parses the manifest that is on the disk at
that moment: `verify_singbox_manifest.py` compares it with the disk,
`verify_remote_release.py` compares the draft with it and
`verify_published_candidate.py` the public release. So the contents of that file
are a manifest (`Manifests`): whether its release tag and commits are this
run's, which the first check does not ask and the others do, and the digests it
lists; `Says` is what a parser takes from it, and a half that is `Absent` is
garbled. A manifest that another process puts in place is published if it agrees
with the draft.

What can be promised of a public release depends on how often its files are
changed, which `edits` counts. `PublicIsTheCandidate` says of every public
release, whatever was changed, that its manifest is well-formed, has this run's
pins and lists exactly the artifacts of the release, and that a core's recorded
digest is the one the ELF check attested. An artifact that is not the recorded
one got through in one of two ways. Without touching the manifest it takes three
changes: exchange the artifact before the manifest is generated or compared, put
it back for the verification after it, exchange it again for the upload. With
the manifest exchanged as well, one change is enough, after the last
verification and before the upload. Every check of the draft
passes in both; the verification of the public release passes too only if
the artifact is put back for it and exchanged once more, two changes more. The
bounds cannot be lowered. That the artifacts have different names, none that of a
document, is checked by `_family_contract`.

## Runs

| Run | Shows | Bounds |
|---|---|---|
| `xray_bridge` | one native instance, always owned; implements `CoreLifecycle`; every call returns | 3 threads: one in native code, one waiting, one arriving |
| `singbox_bridge` | one open Box, nothing leaks, `IsRunning` is truthful; implements `CoreLifecycle`; every call returns | 3 threads, 2 attempts: a second Box would need a second name |
| `release_families` | public releases are complete and pinned, the final check never fails; implements `ReleaseChannel` | one run of each family, one rerun, a developer commit, two upstream versions with withdrawal |
| `release_runs` | one public release per tag, no downgrade, a chosen tag was not chosen by an earlier run, every run ends | two runs of one family, one rerun, two upstream versions, lagging lists |
| `release_rerun` | **violation**, see below | two families, one rerun |
| `release_tags` | **violation**, see below | three runs, three reruns |
| `release_yank` | **violation**, see below | three runs, one rerun, withdrawal |
| `retirement` | only approved runs are deleted, a receipt is true until a workflow is enabled again, a verification leaves no legacy run, planning and applying again leads to the receipt | one operator, two workflows, two runs, one reenabling, one rerun, one failing call |
| `command_capture` | no foreign group is signalled, nothing survives, accepted output is sound, every capture ends | the three copies, one descendant, a limit of one chunk, two interrupts |
| `archive_output` | the name shows whole archives only, the old one is recoverable, no success is undone, nothing is left behind | three builders, two interrupts, one death, one change by others |
| `source_snapshot` | an archive is the commit with the frozen pins, its copy is one instant | one source file, one pin, three changes, two writes by the tools |
| `candidate_handoff` | what is accepted was in the file at once; what is public agrees with its manifest, and with the record unless the manifest was exchanged too | a source bundle, a core, one snapshot file, two changes, of which one can be an exchanged manifest that agrees with the other; the theorem covers more changes |

Why the bounds are enough. The bridge runs are unbounded but for the number of
threads and attempts: no counter has to be cut off. The pipeline's environment
is bounded by `MaxSrc`, `MaxUp`, `MaxReruns` and `Runs`, so it comes to rest and
deadlock checking is off in its configurations. `Epoch` is 10 instead of 1000,
which is larger than every run number and revision step that occurs, as 1000 is
meant to be. `PollLimit` is 2 instead of 6: a first, an again and a last
attempt. Several operators of the retirement are covered by its proofs. One
descendant can stay in the group, leave it, hold the pipe and outlive the
leader; a second one would only do one of these too. Two interrupts are what it
takes to cut `Popen.wait` short. Three builders are one that holds the lock, one
that is refused and one that comes later; with one change to the lock file two of
them are inside at once. Three changes are an edit between the copy and its
recheck, its undoing, and a commit; each of them can come in every order. The
captures, archives, snapshots and handoffs end, so deadlock checking is off there,
too. What is checked on these instances is proved without the bounds, with the
exceptions named under Proofs.

Fairness. Bridges: weak fairness of the steps inside a call (goroutines are
scheduled and native calls return; the code has no time limit for a native call
that hangs) and strong fairness of taking the lock, which the starvation mode of
`sync.Mutex` provides. Pipeline: strong fairness of each run's own steps, since
GitHub gives a free concurrency group to a waiting run and every step of a job has a
time limit. `EveryRunEnds` is checked with one family only; that a run which
holds its own family's group gets the publisher group from the other family's run is
not checked under fairness, since two families with reruns and lagging lists are too
large for TLC's liveness check. Retirement: runs complete, GitHub applies an accepted disable, the
script goes on, and the operator follows README.md and plans and applies again;
`RetirementCompletes` is relative to that, and to a migration that is not pushed
before the receipt exists. Command capture: weak fairness of the script's steps
and of the passing of time (deadline and drain period); nothing is assumed of
the command, which may never exit. No fairness is assumed of callers,
developers, upstream, crashes or reruns.

### Findings

* `RerunReusesDraft` (`release_rerun`). README.md:51 promises that a
  publisher-only rerun reuses its draft. If the other family's pin landed first
  and the run then pushed its own pin on top, `main` is the draft's wrapper
  commit but two commits past the event commit, and the head check refuses the
  rerun. The draft stays behind; only a new run can publish. This is the only way
  it happens (`RerunRefusedForOtherPin`), and it takes two families
  (`RerunReusesWithOneFamily`).
* `RunsChooseDistinctTags` (`release_tags`). The comment at
  `release_draft_state.py:221` claims distinct tags for distinct runs. Maximum
  plus offset is not injective when the public maximum grows between a run and
  its full rerun: a lower-numbered run, rerun in full, can arrive at the tag of a
  higher-numbered one. The direction the README claims, that a *later* run never
  meets an earlier run's tag, holds (`LaterRunsTagIsFree`), and the publisher
  rejects the collision when it meets a draft with another target. Without a
  full rerun the comment is true (`DistinctTags`).
* `NoDowngrade` (`release_yank`). The downgrade check is in the build job only.
  If upstream withdraws and restores a version, the rerun of an old publish job
  makes an older upstream public after a newer one. It takes both: without
  withdrawals (`release_runs`, `NeverOlder`) or without reruns of a publish job
  alone (`NeverOlderUnlessRerun`) it cannot happen.

## Proofs

`XrayBridgeProofs`, for any set of callers, from `NoCaller \notin Callers`:

* `TypeCorrect`, `OneInstance`, `InstanceOwned`, `ImplementsLifecycle`.
* The inductive invariant `IInv` adds to the properties what the code relies on
  without saying: only the holder of the lock is inside `Start` or
  `Stop`, a caller about to invoke libXray for a start has no native
  instance in front of it, `running` implies `stopRequired`, and a successful
  answer that is not yet processed determines `native`. Without the first two, two
  threads could stand in front of `LibXrayRun`.
* `StepSimulation` maps each action to a step of `CoreLifecycle` or a stutter
  with `engaged <- stopRequired`, `live <- native`.

`SingboxBridgeProofs`, for any callers and attempts, from the two assumptions of
the module:

* `TypeCorrect`, `OneOpenBox`, `NoLeak`, `RunningBoxUp`, `ImplementsLifecycle`.
* The inductive invariant says that every open Box and live context belongs to
  the retained instance or to the attempt of the lock's holder, that these two
  never coexist, and what the holder's locals are at each location.
* `StepSimulation` uses `Engaged` (an instance is retained, or a start has made
  its context) and `Live` (some Box is open); `LiveEngaged` relates the two.

`LegacyRetirementProofs`, for any workflows, runs, operators, reruns and failures,
from `RetirementAssumption` (identifiers are natural numbers, every run has a
workflow):

* `TypeCorrect`; `OnlyApprovedDeleted`, from `ApprovedInv`: what an apply is to
  delete stays within the snapshot it compared with its token;
  `VerifyProvesRetired`, from `VerifiedInv`: a verification past its first read
  knows that no legacy run can start, so its later reads stay true.
* `ReceiptStaysTrue`: the receipt is true until a workflow is enabled again.
  `RetiredIsStable` is the argument: a disabled workflow stays disabled, and
  once without runs remains so. Hence `SnapshotInv`: reads made one after the
  other, the catalog first, describe the present of every workflow they saw
  disabled. With a workflow enabled again the receipt may be stale, which is
  what `--verify` is for.

`ReleasePipelineProofs`, for any families, runs, assets, pushes, crashes and
reruns, and lists that hide any drafts, from `PipelineAssumption`:

* `TypeCorrect`, `PublicComplete`, `FinalHolds`, `OnePublic`, `PublicStays`.
* `ImplementsReleaseChannel`, step by step: `FlipPublishes` maps the flip of a
  draft to `Publish`, from what `DraftInv` knows of the draft and the tag;
  every other step leaves the public releases and the tags alone (`PublicStep`)
  and appends to `main` at most a commit.
* The inductive invariant adds three things. `OnePublisher`: the
  concurrency group admits one publish job. `HeadInv`: what a job knows of `main`
  from the checks it passed (its frozen head and its wrapper commit have the
  sources of its event commit, and the wrapper pins its upstream). `DraftInv`:
  a job that fills a draft works on its own tag, which is not public and points
  nowhere else, and past the poll the draft is the candidate. None of them is
  stated in the workflow; without `DraftInv` the final flip could make anything
  public.
* `TagsOfLaterRuns`, from `ReservedInv`: a chosen revision is at most the
  largest public one plus `Epoch` and the run number, so a later run, which
  has a larger number and sees no smaller maximum, chooses a larger one.
* `NeverOlder`, if upstream never withdraws (`~AllowYank`), from `PinInv`: the
  pins of `main` only grow, up to what upstream has, and a publish job's pin is
  at most its version. `release_yank` shows that the condition is needed.
* What the three findings depend on, as theorems with a condition on the
  behaviour (`[][NoRerunAll]_vars`, `[][NoRerunPublish]_vars`) under which every
  crash, push, lagging list and other rerun is still possible. `DistinctTags`: a
  waiting run is the last one triggered of its family (`OrderInv`), so no run
  resolves after a later one has (`ChosenInv`). `NeverOlderUnlessRerun`: one run
  of a family is at work (`OneOfFamily`), so what its build job compared stays
  true until it publishes (`LatestInv`). `RerunRefusedForOtherPin`: the head a
  job accepts is at most one commit past its event, its wrapper at most one past
  that, and the target of a draft with its tag is a wrapper commit it selected
  (`WrapperInv`), which needs that no other run has the tag.

`CommandCaptureProofs`, for any descendants, limit and number of interrupts, from
`CaptureAssumption`:

* `TypeCorrect`, `GroupIsGone`, `AcceptedSound`, `OnlyOwnGroup`.
* The invariant is about order: past the kill the leader runs no code
  of its own and its group is empty, and neither can change (`QuietInv`); the
  script reaps only what it has killed, so a leader that is reaped was quiet
  (`ReapInv`); `AcceptInv` relates what was read to the end of the pipe. That
  kill comes before reap is why the group's number cannot be somebody
  else's when it is signalled.

`SourceSnapshotProofs`, for any files, pins, contents, changes and writes:

* `TypeCorrect`, `ArchiveIsExact`, `CopyIsAtomic`.
* A stamp never returns (`StampInv`), so what was read of a file is the file's
  contents for as long as the file has the stamp it was opened at (`PartInv`,
  `CopyInv`), and a file that passes the recheck held what was copied at the
  instant between copying and rechecking (`MidwayInv`).

`ArchiveOutputProofs`, for any builders, interrupts, deaths and changes by others:

* `TypeCorrect`, `OutputAlwaysWhole`, `OldSurvives`, `SuccessStays`,
  `NamesAreCleaned`.
* `LockInv`: unless somebody replaces the lock file, one builder touches the
  names. `PlaceInv` says where a builder's archive is by its location and notes,
  `KeptInv` where the archive it found is, and `SuccessInv` that no backup
  which may still be renamed back is older than a success.

`CandidateHandoffProofs`, for any artifacts, snapshot and number of changes:

* `TypeCorrect`, `AcceptedIsWhole`, by the argument about stamps. Of the script
  that proof only needs that every step names a file of the directory it
  reads (`ScriptIsSteps`).
* `PublishedIsCandidate`, from the order of the script: which step is at which
  place is computed once for all numbers of artifacts and snapshot files (the
  lemmas on `Each` and on the script's parts), and says in which order a file
  is verified against the record, compared with the manifest, verified again,
  uploaded, verified and compared with the release. Somebody who wants another
  artifact to pass two of these comparisons must have it in place, put the
  recorded one back for the verification between them and exchange it again:
  `CycleInv` counts these changes along the script. `ManifestInv` says that the
  manifest lists what was compared with it for as long as nobody changes it, and
  `CompareInv` that the draft agreed with the manifest that became public.

Left to TLC: liveness (`EveryCallReturns`, `EveryRunEnds`, `RetirementCompletes`,
`EveryCaptureReturns`), which needs fairness and `ENABLED`.

## Not modelled

* Redaction of errors (`SafeError`) is a pure function of a string, made of
  regular expressions; its difficulty is in the expressions.
* The ELF verifier, the source-bundle auditor, the public-tree audit and the
  build scripts are sequential parsers, scanners and compiler calls: their
  difficulty is in data formats.
* The inside of the build job (compilation, tests, audits) is one step of the
  pipeline that succeeds or dies: it reads its inputs at the event commit and
  touches nothing shared.
* Of `verify_build_inputs.py` only the command capture is modelled. Its
  repository audit compares answers of Git with constants.
* Of the bundle builder the vendoring (a filter over the answers of the Go
  tools) and the tar and gzip layout are left out; of the manifests the formats
  of the fields, and the digests of the Xray manifest, which are made like the
  sing-box ones.

Sizes, hashes, JSON shapes, wording and logging are abstracted everywhere; a
malformed answer of GitHub is a step that fails.

## Plan

Done: the bridges, the release decisions and the pipeline, the retirement, the
command capture, the source bundle's contents and output, the handoff, and the
proofs about all of them. What would add most next:

1. The vendoring of the bundle builder, once its two passes over the module
   cache are to be compared with what Go reports.
2. Redaction and `isOnlyClosed` as functions against reference definitions.
