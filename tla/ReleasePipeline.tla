-------------------------- MODULE ReleasePipeline --------------------------
(***************************************************************************)
(* The two hardened publisher workflows (publish-xray-core-v2.yml and      *)
(* publish-singbox-core-v2.yml), which have the same structure, acting on  *)
(* one repository: its main branch, its releases and drafts, its tags.     *)
(*                                                                         *)
(* A run is one workflow run.  Its build job resolves the upstream version *)
(* and a wrapper revision and hands a candidate over; its publish job pins *)
(* the upstream on main, fills a draft and makes it public.  Runs of one   *)
(* family exclude each other, publish jobs exclude each other; developers, *)
(* upstream and the other family's build go on meanwhile.  A job may die   *)
(* before any step, and be rerun alone or with the whole run.  GitHub and  *)
(* git are external, modelled by what the workflows use of them.           *)
(*                                                                         *)
(* A commit of main is its position; it records the version of everything  *)
(* but the pins (src) and the upstream each family is pinned to (pin).     *)
(***************************************************************************)
EXTENDS ReleaseState, SequencesExt

CONSTANTS
    Families,       \* the core families that publish from this repository
    Runs,           \* run numbers; unique here, so unique in each family
    FamilyOf,       \* the family whose workflow each run belongs to
    AssetNames,     \* the asset names each family publishes
    Epoch,          \* WRAPPER_REVISION_EPOCH
    MaxRevision,    \* the largest revision next-revision may return
    PollLimit,      \* attempts to see the filled draft in the release list
    ListLag,        \* TRUE: the release list may not show a draft yet
    AllowYank,      \* TRUE: upstream may withdraw its latest release
    MaxSrc,         \* bound: developer commits
    MaxUp,          \* bound: upstream versions
    MaxReruns       \* bound: reruns of any kind

ASSUME PipelineAssumption ==
    /\ Runs \subseteq Nat \ {0}
    /\ FamilyOf \in [Runs -> Families]
    /\ DOMAIN AssetNames = Families
    /\ \A f \in Families : "manifest" \in AssetNames[f]
    /\ Epoch \in Nat /\ MaxRevision \in Nat
    /\ PollLimit \in Nat \ {0}
    /\ ListLag \in BOOLEAN /\ AllowYank \in BOOLEAN
    /\ MaxSrc \in Nat \ {0} /\ MaxUp \in Nat \ {0} /\ MaxReruns \in Nat

VARIABLES
    main,       \* the commits of the main branch
    upstream,   \* the latest stable upstream version of each family
    releases,   \* the repository's releases, drafts included
    lastId,     \* the last release id GitHub gave out
    gitTags,    \* the repository's tag references
    pc,         \* where each run is
    event,      \* GITHUB_SHA of each run
    force,      \* the force input of each run
    out,        \* outputs of the build job: upstream version and revision
    frozen,     \* the publish head the job validated
    wrapper,    \* the wrapper commit it selected
    target,     \* the release id it works on
    todo,       \* asset names still to delete or to upload
    attempt,    \* polls of the release list so far
    reruns,     \* reruns so far
    reserved    \* history: every tag a build job has chosen, with its run

github == <<main, upstream, releases, lastId, gitTags>>
publish == <<frozen, wrapper, target, todo, attempt>>
vars == <<main, upstream, releases, lastId, gitTags, pc, event, force, out,
          frozen, wrapper, target, todo, attempt, reruns, reserved>>

NoBuild == [up |-> 0, rev |-> 0]
BuildSteps == {"built"}
PublishSteps == {"pin", "confirm", "list", "create", "reconcile", "delete",
                 "select", "upload", "poll", "flip", "final"}
Stopped == {"done", "skipped", "failed", "cancelled"}
Locations == {"none", "queued"} \cup BuildSteps \cup PublishSteps \cup Stopped

Commit == [src : 1..MaxSrc, pin : [Families -> 1..MaxUp]]

TypeOK ==
    /\ main \in Seq(Commit) /\ Len(main) > 0
    /\ upstream \in [Families -> 1..MaxUp]
    /\ lastId \in Nat
    /\ \A q \in releases :
          /\ q.id \in 1..lastId
          /\ q.target \in 1..Len(main)
          /\ q.draft \in BOOLEAN
          /\ DOMAIN q.assets \subseteq AssetNames[q.tag.family]
    /\ \A g \in gitTags : g.commit \in 1..Len(main)
    /\ pc \in [Runs -> Locations]
    /\ event \in [Runs -> 0..Len(main)]
    /\ force \in [Runs -> BOOLEAN]
    /\ out \in [Runs -> [up : 0..MaxUp, rev : 0..MaxRevision]]
    /\ frozen \in [Runs -> 0..Len(main)]
    /\ wrapper \in [Runs -> 0..Len(main)]
    /\ target \in [Runs -> 0..lastId]
    /\ \A r \in Runs : todo[r] \subseteq AssetNames[FamilyOf[r]]
    /\ attempt \in [Runs -> 0..PollLimit]
    /\ reruns \in 0..MaxReruns

Init ==
    /\ main = <<[src |-> 1, pin |-> [f \in Families |-> 1]]>>
    /\ upstream = [f \in Families |-> 1]
    /\ releases = {}
    /\ lastId = 0
    /\ gitTags = {}
    /\ pc = [r \in Runs |-> "none"]
    /\ event = [r \in Runs |-> 0]
    /\ force = [r \in Runs |-> FALSE]
    /\ out = [r \in Runs |-> NoBuild]
    /\ frozen = [r \in Runs |-> 0]
    /\ wrapper = [r \in Runs |-> 0]
    /\ target = [r \in Runs |-> 0]
    /\ todo = [r \in Runs |-> {}]
    /\ attempt = [r \in Runs |-> 0]
    /\ reruns = 0
    /\ reserved = {}

-----------------------------------------------------------------------------
(* Developers and upstream.                                                *)

DevPush ==
    /\ Last(main).src < MaxSrc
    /\ main' = Append(main, [Last(main) EXCEPT !.src = @ + 1])
    /\ UNCHANGED <<upstream, releases, lastId, gitTags, pc, event, force, out,
                   publish, reruns, reserved>>

UpstreamRelease(f) ==
    /\ upstream[f] < MaxUp
    /\ upstream' = [upstream EXCEPT ![f] = @ + 1]
    /\ UNCHANGED <<main, releases, lastId, gitTags, pc, event, force, out,
                   publish, reruns, reserved>>

UpstreamYank(f) ==
    /\ AllowYank
    /\ upstream[f] > 1
    /\ upstream' = [upstream EXCEPT ![f] = @ - 1]
    /\ UNCHANGED <<main, releases, lastId, gitTags, pc, event, force, out,
                   publish, reruns, reserved>>

-----------------------------------------------------------------------------
(* Queueing.  A workflow's concurrency group runs one run of the family at *)
(* a time and keeps one waiting: a newer one takes the place of the older. *)

OfFamily(f) == {r \in Runs : FamilyOf[r] = f}
FamilyBusy(f) == \E r \in OfFamily(f) : pc[r] \in BuildSteps \cup PublishSteps
PublisherBusy == \E r \in Runs : pc[r] \in PublishSteps

Enqueue(r) ==
    pc' = [q \in Runs |->
              IF q = r THEN "queued"
              ELSE IF FamilyOf[q] = FamilyOf[r] /\ pc[q] = "queued" THEN "cancelled"
              ELSE pc[q]]

(* A push, the schedule or a dispatch (which alone may force) starts the   *)
(* next run of a family at the current head of main.                       *)
Trigger(r) ==
    /\ pc[r] = "none"
    /\ \A q \in OfFamily(FamilyOf[r]) : q < r => pc[q] # "none"
    /\ Enqueue(r)
    /\ event' = [event EXCEPT ![r] = Len(main)]
    /\ \E b \in BOOLEAN : force' = [force EXCEPT ![r] = b]
    /\ UNCHANGED <<github, out, publish, reruns, reserved>>

(* "Re-run all jobs": the event commit and the run number stay.            *)
RerunAll(r) ==
    /\ pc[r] \in Stopped
    /\ reruns < MaxReruns
    /\ reruns' = reruns + 1
    /\ Enqueue(r)
    /\ out' = [out EXCEPT ![r] = NoBuild]
    /\ UNCHANGED <<github, event, force, publish, reserved>>

(* "Re-run failed jobs" after the build job succeeded: its outputs and its *)
(* uploaded candidate are used again.                                      *)
RerunPublish(r) ==
    /\ pc[r] = "failed"
    /\ out[r] # NoBuild
    /\ ~FamilyBusy(FamilyOf[r])
    /\ reruns < MaxReruns
    /\ reruns' = reruns + 1
    /\ pc' = [pc EXCEPT ![r] = "built"]
    /\ UNCHANGED <<github, event, force, out, publish, reserved>>

(* A job is over; what it knew is gone.                                    *)
End(r, how) ==
    /\ pc' = [pc EXCEPT ![r] = how]
    /\ frozen' = [frozen EXCEPT ![r] = 0]
    /\ wrapper' = [wrapper EXCEPT ![r] = 0]
    /\ target' = [target EXCEPT ![r] = 0]
    /\ todo' = [todo EXCEPT ![r] = {}]
    /\ attempt' = [attempt EXCEPT ![r] = 0]

Fail(r) ==
    /\ End(r, "failed")
    /\ UNCHANGED <<github, event, force, out, reruns, reserved>>

(* The runner dies, a time limit hits, an API call fails, a test or an     *)
(* audit fails, an operator cancels: the publish job stops before its next *)
(* step, or the build job before it has handed a candidate over.           *)
Crash(r) ==
    /\ \/ pc[r] \in BuildSteps \cup PublishSteps
       \/ pc[r] = "queued" /\ ~FamilyBusy(FamilyOf[r])
    /\ Fail(r)

-----------------------------------------------------------------------------
(* The build job.                                                          *)

(* current_wrapper_candidates: the head, and its parent when the head only *)
(* changed the pins of other families.                                     *)
ForeignPinOnly(c, f) ==
    /\ c > 1
    /\ main[c].src = main[c - 1].src
    /\ main[c].pin[f] = main[c - 1].pin[f]
    /\ main[c].pin # main[c - 1].pin

WrapperCandidates(head, f) ==
    {head} \cup {c \in {head - 1} : ForeignPinOnly(head, f)}

(* What a build of upstream up from commit c puts into asset n; only the   *)
(* manifest names the wrapper commit.                                      *)
Content(c, up, w, n) ==
    [src |-> main[c].src, up |-> up, wrapper |-> IF n = "manifest" THEN w ELSE 0]

(* verify_remote_release: p is complete and its manifest names wrapper w.  *)
RemoteOk(p, w) ==
    /\ p.target = w
    /\ DOMAIN p.assets = AssetNames[p.tag.family]
    /\ p.assets["manifest"].up = p.tag.up
    /\ p.assets["manifest"].wrapper = w
    /\ \A n \in DOMAIN p.assets : /\ p.assets[n].src = p.assets["manifest"].src
                                  /\ p.assets[n].up = p.tag.up

(* The latest public release already stands for this head.                 *)
Current(r) ==
    \E p \in LatestPublished(releases, FamilyOf[r], upstream[FamilyOf[r]]) :
        \E w \in WrapperCandidates(event[r], FamilyOf[r]) :
            RemoteOk(p, w) /\ TagIs(gitTags, p.tag, w)

(* The build job's token sees public releases only.                        *)
Visible == {p \in releases : ~p.draft}
(* Mutant: the run number is left out of the revision.                     *)
ResolvedRevisionSharedByRuns(r) ==
    NextRevision({p \in releases : ~p.draft}, FamilyOf[r], upstream[FamilyOf[r]], Epoch + 1)

ResolvedRevision(r) ==
    NextRevision(Visible, FamilyOf[r], upstream[FamilyOf[r]], Epoch + r)

ResolveRejected(r) ==
    \/ IsDowngrade(Visible, FamilyOf[r], upstream[FamilyOf[r]])
    \/ ResolvedRevision(r) > MaxRevision

Resolve(r) ==
    /\ pc[r] = "queued"
    /\ ~FamilyBusy(FamilyOf[r])
    /\ ~ResolveRejected(r)
    /\ LET up == upstream[FamilyOf[r]]
           rev == ResolvedRevision(r)
       IN  \/ /\ Current(r) /\ ~force[r]
              /\ pc' = [pc EXCEPT ![r] = "skipped"]
              /\ UNCHANGED <<out, reserved>>
           \/ /\ ~Current(r) \/ force[r]
              /\ pc' = [pc EXCEPT ![r] = "built"]
              /\ out' = [out EXCEPT ![r] = [up |-> up, rev |-> rev]]
              /\ reserved' = reserved \cup {[run |-> r, tag |-> Tag(FamilyOf[r], up, rev)]}
    /\ UNCHANGED <<github, event, force, publish, reruns>>

ResolveFails(r) ==
    /\ pc[r] = "queued"
    /\ ~FamilyBusy(FamilyOf[r])
    /\ ResolveRejected(r)
    /\ Fail(r)

-----------------------------------------------------------------------------
(* The publish job, up to the wrapper commit.                              *)

RunTag(r) == Tag(FamilyOf[r], out[r].up, out[r].rev)

(* Mutant: the publish head is not compared with the event commit.         *)
FrozenHeadUnchecked(r) == TRUE

(* Mutant: a direct child with other own pins than the candidate's passes. *)
FrozenHeadOwnPinUnchecked(r) ==
    \/ Len(main) = event[r]
    \/ Len(main) = event[r] + 1 /\ Last(main).src = main[event[r]].src

(* "Validate frozen publish head": main is the event commit, or its direct *)
(* child, which changed the pins of exactly one family, and its own pins   *)
(* to the candidate's.                                                     *)
FrozenHeadOk(r) ==
    LET e == main[event[r]]
        h == Last(main)
        changed == {f \in Families : h.pin[f] # e.pin[f]}
    IN  \/ Len(main) = event[r]
        \/ /\ Len(main) = event[r] + 1
           /\ h.src = e.src
           /\ Cardinality(changed) = 1
           /\ FamilyOf[r] \in changed => h.pin[FamilyOf[r]] = out[r].up

Freeze(r) ==
    /\ pc[r] = "built"
    /\ ~PublisherBusy
    /\ FrozenHeadOk(r)
    /\ frozen' = [frozen EXCEPT ![r] = Len(main)]
    /\ pc' = [pc EXCEPT ![r] = "pin"]
    /\ UNCHANGED <<github, event, force, out, wrapper, target, todo, attempt, reruns, reserved>>

FreezeFails(r) ==
    /\ pc[r] = "built"
    /\ ~PublisherBusy
    /\ ~FrozenHeadOk(r)
    /\ Fail(r)

(* "Commit exact frozen pin": nothing to commit, or a fast-forward push.   *)
Pinned(r) == main[frozen[r]].pin[FamilyOf[r]] = out[r].up

KeepPin(r) ==
    /\ pc[r] = "pin"
    /\ Pinned(r)
    /\ wrapper' = [wrapper EXCEPT ![r] = frozen[r]]
    /\ pc' = [pc EXCEPT ![r] = "confirm"]
    /\ UNCHANGED <<github, event, force, out, frozen, target, todo, attempt, reruns, reserved>>

(* Mutant: the wrapper commit is one too far.                              *)
PushPinOffByOne(r) ==
    /\ pc[r] = "pin"
    /\ ~Pinned(r)
    /\ Len(main) = frozen[r]
    /\ main' = Append(main, [Last(main) EXCEPT !.pin[FamilyOf[r]] = out[r].up])
    /\ wrapper' = [wrapper EXCEPT ![r] = Len(main') + 1]
    /\ pc' = [pc EXCEPT ![r] = "confirm"]
    /\ UNCHANGED <<upstream, releases, lastId, gitTags, event, force, out,
                   frozen, target, todo, attempt, reruns, reserved>>

PushPin(r) ==
    /\ pc[r] = "pin"
    /\ ~Pinned(r)
    /\ Len(main) = frozen[r]
    /\ main' = Append(main, [Last(main) EXCEPT !.pin[FamilyOf[r]] = out[r].up])
    /\ wrapper' = [wrapper EXCEPT ![r] = Len(main')]
    /\ pc' = [pc EXCEPT ![r] = "confirm"]
    /\ UNCHANGED <<upstream, releases, lastId, gitTags, event, force, out,
                   frozen, target, todo, attempt, reruns, reserved>>

PushFails(r) ==
    /\ pc[r] = "pin"
    /\ ~Pinned(r)
    /\ Len(main) # frozen[r]
    /\ Fail(r)

ConfirmMain(r) ==
    /\ pc[r] = "confirm"
    /\ Len(main) = wrapper[r]
    /\ pc' = [pc EXCEPT ![r] = "list"]
    /\ UNCHANGED <<github, event, force, out, publish, reruns, reserved>>

ConfirmFails(r) ==
    /\ pc[r] = "confirm"
    /\ Len(main) # wrapper[r]
    /\ Fail(r)
-----------------------------------------------------------------------------
(* "Create verified draft and publish atomically".                         *)

Expected(r) == AssetNames[FamilyOf[r]]
CandidateAssets(r) ==
    [n \in Expected(r) |-> Content(event[r], out[r].up, wrapper[r], n)]

(* A release list: drafts that GitHub does not show yet may be missing.    *)
Lists(r) ==
    {releases \ hidden : hidden \in IF ListLag THEN SUBSET DraftsOf(releases, RunTag(r)) ELSE {{}}}

(* verify_published_candidate: p is this candidate, and so is its tag.     *)
PublishedOk(r, p) ==
    /\ ~p.draft
    /\ RemoteOk(p, wrapper[r])
    /\ p.assets = CandidateAssets(r)
    /\ TagIs(gitTags, RunTag(r), wrapper[r])

(* Mutant: any public release of the tag counts as this candidate.         *)
RecoverableUnverified(r, list) == Cardinality(PublishedOf(list, RunTag(r))) = 1

(* The listed public release of this tag is the candidate: nothing to do.  *)
Recoverable(r, list) ==
    /\ TagIsOrMissing(gitTags, RunTag(r), wrapper[r])
    /\ Cardinality(PublishedOf(list, RunTag(r))) = 1
    /\ DraftsOf(list, RunTag(r)) = {}
    /\ \A p \in PublishedOf(list, RunTag(r)) : PublishedOk(r, p)

(* Mutant: only the number of drafts is looked at.                         *)
PreparableByDraftCount(r, list) == Cardinality(DraftsOf(list, RunTag(r))) <= 1

(* The draft may be created, or the one that is there be used.             *)
Preparable(r, list) ==
    /\ TagIsOrMissing(gitTags, RunTag(r), wrapper[r])
    /\ PlanAllowed(list, RunTag(r), wrapper[r])

Goto(r, location) ==
    /\ pc' = [pc EXCEPT ![r] = location]
    /\ UNCHANGED <<event, force, out, frozen, wrapper, attempt, reruns, reserved>>

Recover(r) ==
    /\ pc[r] = "list"
    /\ \E list \in Lists(r) :
          /\ Recoverable(r, list)
          /\ \E p \in PublishedOf(list, RunTag(r)) : target' = [target EXCEPT ![r] = p.id]
    /\ Goto(r, "final")
    /\ UNCHANGED <<github, todo>>

PlanCreate(r) ==
    /\ pc[r] = "list"
    /\ \E list \in Lists(r) :
          Preparable(r, list) /\ DraftsOf(list, RunTag(r)) = {}
    /\ Goto(r, "create")
    /\ UNCHANGED <<github, target, todo>>

PlanReuse(r) ==
    /\ pc[r] = "list"
    /\ \E list \in Lists(r) :
          /\ Preparable(r, list)
          /\ \E d \in DraftsOf(list, RunTag(r)) :
                /\ target' = [target EXCEPT ![r] = d.id]
                /\ todo' = [todo EXCEPT ![r] = DOMAIN d.assets]
    /\ Goto(r, "reconcile")
    /\ UNCHANGED github

ListFails(r) ==
    /\ pc[r] = "list"
    /\ \E list \in Lists(r) : ~Recoverable(r, list) /\ ~Preparable(r, list)
    /\ Fail(r)

(* gh release create --draft.                                              *)
CreateDraft(r) ==
    /\ pc[r] = "create"
    /\ lastId' = lastId + 1
    /\ releases' = releases \cup {[id |-> lastId', tag |-> RunTag(r), target |-> wrapper[r],
                                   draft |-> TRUE, assets |-> <<>>]}
    /\ Goto(r, "select")
    /\ UNCHANGED <<main, upstream, gitTags, target, todo>>

(* One release is replaced by a changed one.                               *)
Update(old, new) ==
    /\ releases' = (releases \ {old}) \cup {new}
    /\ UNCHANGED <<main, upstream, lastId>>

(* PATCH of the title, the notes and draft=true.                           *)
ReconcileDraft(r) ==
    /\ pc[r] = "reconcile"
    /\ \E d \in releases :
          d.id = target[r] /\ Update(d, [d EXCEPT !.draft = TRUE])
    /\ Goto(r, "delete")
    /\ UNCHANGED <<gitTags, target, todo>>

(* DELETE of one asset the plan listed.                                    *)
DeleteAsset(r) ==
    /\ pc[r] = "delete"
    /\ \E n \in todo[r], d \in releases :
          /\ d.id = target[r]
          /\ Update(d, [d EXCEPT !.assets = Restrict(@, DOMAIN @ \ {n})])
          /\ todo' = [todo EXCEPT ![r] = @ \ {n}]
    /\ Goto(r, "delete")
    /\ UNCHANGED <<gitTags, target>>

DeletesDone(r) ==
    /\ pc[r] = "delete"
    /\ todo[r] = {}
    /\ Goto(r, "select")
    /\ UNCHANGED <<github, target, todo>>

(* gh release upload looks the tag up by itself: a public release of the   *)
(* tag if there is one, else a draft of the tag.                           *)
SelectUpload(r) ==
    /\ pc[r] = "select"
    /\ \E d \in IF PublishedOf(releases, RunTag(r)) # {} THEN PublishedOf(releases, RunTag(r))
                ELSE DraftsOf(releases, RunTag(r)) :
          target' = [target EXCEPT ![r] = d.id]
    /\ todo' = [todo EXCEPT ![r] = Expected(r)]
    /\ Goto(r, "upload")
    /\ UNCHANGED github

(* One asset of gh release upload --clobber.                               *)
UploadAsset(r) ==
    /\ pc[r] = "upload"
    /\ \E n \in todo[r], d \in releases :
          /\ d.id = target[r]
          /\ Update(d, [d EXCEPT !.assets =
                           [m \in DOMAIN @ \cup {n} |->
                               IF m = n THEN CandidateAssets(r)[n] ELSE @[m]]])
          /\ todo' = [todo EXCEPT ![r] = @ \ {n}]
    /\ Goto(r, "upload")
    /\ UNCHANGED <<gitTags, target>>

UploadsDone(r) ==
    /\ pc[r] = "upload"
    /\ todo[r] = {}
    /\ pc' = [pc EXCEPT ![r] = "poll"]
    /\ attempt' = [attempt EXCEPT ![r] = 1]
    /\ UNCHANGED <<github, event, force, out, frozen, wrapper, target, todo, reruns, reserved>>

(* The list shows the one filled draft, with the candidate's digests.      *)
PollReady(r) ==
    /\ pc[r] = "poll"
    /\ \E list \in Lists(r), d \in releases :
          /\ ReadyDraft(list, RunTag(r), wrapper[r], Expected(r), d)
          /\ RemoteOk(d, wrapper[r])
          /\ d.assets = CandidateAssets(r)
          /\ target' = [target EXCEPT ![r] = d.id]
    /\ Goto(r, "flip")
    /\ UNCHANGED <<github, todo>>

(* The draft, its assets or their sizes and digests do not show yet.       *)
NotShown(r) ==
    \E list \in Lists(r) :
        \/ DraftNotReady(list, RunTag(r), wrapper[r], Expected(r))
        \/ ListLag /\ \E d \in releases : ReadyDraft(list, RunTag(r), wrapper[r], Expected(r), d)

PollAgain(r) ==
    /\ pc[r] = "poll"
    /\ attempt[r] < PollLimit
    /\ NotShown(r)
    /\ attempt' = [attempt EXCEPT ![r] = @ + 1]
    /\ UNCHANGED <<github, pc, event, force, out, frozen, wrapper, target, todo, reruns, reserved>>

(* Mutant: the attempts start over.                                        *)
PollStartsOver(r) ==
    /\ pc[r] = "poll"
    /\ attempt[r] = PollLimit
    /\ NotShown(r)
    /\ attempt' = [attempt EXCEPT ![r] = 1]
    /\ UNCHANGED <<github, pc, event, force, out, frozen, wrapper, target, todo, reruns, reserved>>

PollGivesUp(r) ==
    /\ pc[r] = "poll"
    /\ attempt[r] = PollLimit
    /\ NotShown(r)
    /\ Fail(r)

(* The draft's identity or content is wrong: no retry.                     *)
PollFails(r) ==
    /\ pc[r] = "poll"
    /\ \E list \in Lists(r) :
          \/ ~PlanAllowed(list, RunTag(r), wrapper[r])
          \/ \E d \in releases : /\ ReadyDraft(list, RunTag(r), wrapper[r], Expected(r), d)
                                 /\ d.assets # CandidateAssets(r)
    /\ Fail(r)

(* PATCH draft=false.  GitHub creates the tag at the target if it is not   *)
(* there yet.                                                              *)
PublishDraft(r) ==
    /\ pc[r] = "flip"
    /\ \E d \in releases :
          /\ d.id = target[r]
          /\ Update(d, [d EXCEPT !.draft = FALSE])
          /\ gitTags' = IF TagRefs(gitTags, d.tag) # {} THEN gitTags
                        ELSE gitTags \cup {[tag |-> d.tag, commit |-> d.target]}
    /\ Goto(r, "final")
    /\ UNCHANGED <<target, todo>>

(* The live release, its manifest and its tag are read back and verified.  *)
FinalOk(r) == \E p \in releases : p.id = target[r] /\ PublishedOk(r, p)

FinalVerify(r) ==
    /\ pc[r] = "final"
    /\ FinalOk(r)
    /\ End(r, "done")
    /\ UNCHANGED <<github, event, force, out, reruns, reserved>>

Step(r) ==
    \/ Resolve(r) \/ ResolveFails(r)
    \/ Freeze(r) \/ FreezeFails(r)
    \/ KeepPin(r) \/ PushPin(r) \/ PushFails(r)
    \/ ConfirmMain(r) \/ ConfirmFails(r)
    \/ Recover(r) \/ PlanCreate(r) \/ PlanReuse(r) \/ ListFails(r)
    \/ CreateDraft(r) \/ ReconcileDraft(r) \/ DeleteAsset(r) \/ DeletesDone(r)
    \/ SelectUpload(r) \/ UploadAsset(r) \/ UploadsDone(r)
    \/ PollReady(r) \/ PollAgain(r) \/ PollGivesUp(r) \/ PollFails(r)
    \/ PublishDraft(r) \/ FinalVerify(r)

Next ==
    \/ DevPush
    \/ \E f \in Families : UpstreamRelease(f) \/ UpstreamYank(f)
    \/ \E r \in Runs : Trigger(r) \/ RerunAll(r) \/ RerunPublish(r) \/ Crash(r) \/ Step(r)

Spec == Init /\ [][Next]_vars

(* A job that can go on does, and a waiting job gets its concurrency group *)
(* in turn.  Nobody has to push, release, trigger or rerun.                *)
FairSpec == Spec /\ \A r \in Runs : SF_vars(Step(r))

-----------------------------------------------------------------------------
Public == {p \in releases : ~p.draft}

(* "verifies the complete asset set ... and only then makes the release    *)
(* public" (README.md:50-51): every public release has every asset of its  *)
(* family, all built from the sources and for the upstream of the commit   *)
(* it targets; its manifest names that commit, which pins that upstream,   *)
(* and the tag reference points to it.                                     *)
PublicIsComplete ==
    \A p \in Public :
        /\ p.assets = [n \in AssetNames[p.tag.family] |->
                          Content(p.target, p.tag.up, p.target, n)]
        /\ main[p.target].pin[p.tag.family] = p.tag.up
        /\ TagIs(gitTags, p.tag, p.target)

(* No history of crashes, reruns and lagging release lists makes a tag     *)
(* public twice, though a lagging list may lead to a second draft of it.   *)
OnePublicPerTag == \A p, q \in Public : p.tag = q.tag => p.id = q.id

(* The verification after publication never fails: it would report a bad   *)
(* release that is already public.                                         *)
FinalNeverFails == \A r \in Runs : pc[r] = "final" => FinalOk(r)

(* The public releases as users see them.                                  *)
Shown == {[tag |-> p.tag, target |-> p.target, assets |-> p.assets] : p \in Public}

Channel == INSTANCE ReleaseChannel WITH Commits <- Commit, public <- Shown, tags <- gitTags

(* "only then makes the release public" (README.md:50-51): the workflows   *)
(* implement ReleaseChannel.  Whatever drafts, lagging lists, crashes and  *)
(* reruns there are, users see whole releases appear, one at a time, each  *)
(* with its tag, which no release had before, and nothing else change.     *)
ImplementsChannel == Channel!Spec

(* A public release is never changed, hidden or removed again.             *)
PublicIsImmutable == [][Public \subseteq Public']_vars

(* "upstream downgrade is forbidden" (release_draft_state.py:262): what    *)
(* becomes public is never older than what is public already.              *)
NoDowngrade ==
    [][\A p \in Public' \ Public, q \in Public :
          p.tag.family = q.tag.family => p.tag.up >= q.tag.up]_vars
(* "prevents an invisible stale draft from capturing a later run's         *)
(* candidate tag" (README.md:55-57): the tag a build job chooses was never *)
(* chosen by an earlier run, whatever was published or rerun meanwhile.    *)
LaterRunsTagIsFree ==
    [][\A x \in reserved' \ reserved, y \in reserved :
          y.tag = x.tag => y.run >= x.run]_vars

(* Every run ends: no wait for a concurrency group, poll of the release    *)
(* list or sequence of failures keeps a run going.                         *)
EveryRunEnds ==
    \A r \in Runs : (pc[r] \in {"queued"} \cup BuildSteps \cup PublishSteps)
                        ~> (pc[r] \in Stopped)

(* "makes two different runs choose different tags even when an older      *)
(* draft is hidden from both of them" (release_draft_state.py:221-224).    *)
RunsChooseDistinctTags ==
    \A a, b \in reserved : a.tag = b.tag => a.run = b.run

(* "Publisher-only reruns empty and reuse their exact draft, retarget it   *)
(* to the same verified wrapper commit" (README.md:51-52): while main is   *)
(* still the wrapper commit of its draft, a rerun gets past the head check.*)
RerunReusesDraft ==
    \A r \in Runs :
        pc[r] = "built" /\ (\E d \in DraftsOf(releases, RunTag(r)) : d.target = Len(main))
            => FrozenHeadOk(r)
=============================================================================
