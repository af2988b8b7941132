------------------------ MODULE ReleasePipelineProofs ------------------------
(***************************************************************************)
(* TLAPS proofs about ReleasePipeline, for any families, runs and assets,  *)
(* any number of reruns, crashes and pushes, and release lists that hide   *)
(* any drafts.                                                             *)
(***************************************************************************)
EXTENDS ReleasePipeline, FiniteSetTheorems, TLAPS

-----------------------------------------------------------------------------
(* The types, in parts, with what TypeOK leaves open and the steps need.   *)

MainOK ==
    /\ main \in Seq(Commit) /\ Len(main) > 0
    /\ upstream \in [Families -> 1..MaxUp]

TagType == [family : Families, up : 1..MaxUp, rev : 0..MaxRevision]

IsRelease(q, ids, commits) ==
    /\ q = [id |-> q.id, tag |-> q.tag, target |-> q.target,
            draft |-> q.draft, assets |-> q.assets]
    /\ q.id \in 1..ids /\ q.tag \in TagType /\ q.target \in 1..commits
    /\ q.draft \in BOOLEAN
    /\ DOMAIN q.assets \subseteq AssetNames[q.tag.family]

ReleasesOK ==
    /\ lastId \in Nat
    /\ \A q \in releases : IsRelease(q, lastId, Len(main))
    /\ \A p, q \in releases : p.id = q.id => p = q
    /\ \A g \in gitTags : g = [tag |-> g.tag, commit |-> g.commit] /\ g.commit \in 1..Len(main)

JobsOK ==
    /\ pc \in [Runs -> Locations]
    /\ force \in [Runs -> BOOLEAN]
    /\ attempt \in [Runs -> 0..PollLimit]
    /\ reruns \in 0..MaxReruns

OutOK == out \in [Runs -> [up : 0..MaxUp, rev : 0..MaxRevision]]

RefsOK ==
    /\ event \in [Runs -> 0..Len(main)]
    /\ frozen \in [Runs -> 0..Len(main)]
    /\ wrapper \in [Runs -> 0..Len(main)]
    /\ target \in [Runs -> 0..lastId]

TodoOK ==
    /\ todo \in [Runs -> SUBSET UNION {AssetNames[f] : f \in Families}]
    /\ \A r \in Runs : todo[r] \subseteq AssetNames[FamilyOf[r]]

Typed == MainOK /\ ReleasesOK /\ JobsOK /\ OutOK /\ RefsOK /\ TodoOK

-----------------------------------------------------------------------------
(* The publisher's concurrency group.                                      *)
OnePublisher == \A r, s \in Runs : pc[r] \in PublishSteps /\ pc[s] \in PublishSteps => r = s

Active == BuildSteps \cup PublishSteps

(* What a job knows of main from the checks it has passed.                 *)
HeadOf(r) ==
    /\ pc[r] # "none" => event[r] > 0
    /\ pc[r] \in Active \/ out[r] # NoBuild => out[r].up > 0
    /\ pc[r] \in PublishSteps => frozen[r] > 0 /\ main[frozen[r]].src = main[event[r]].src
    /\ pc[r] \in PublishSteps \ {"pin"} =>
          /\ wrapper[r] > 0
          /\ main[wrapper[r]].src = main[event[r]].src
          /\ main[wrapper[r]].pin[FamilyOf[r]] = out[r].up

HeadInv == \A r \in Runs : HeadOf(r)

Drafting == {"create", "reconcile", "delete", "select", "upload", "poll", "flip"}

(* A job that fills a draft works on one of its tag, which is not public   *)
(* and does not point elsewhere; after the poll it is the candidate.       *)
DraftOf(r) ==
    /\ pc[r] \in Drafting =>
          /\ PublishedOf(releases, RunTag(r)) = {}
          /\ TagIsOrMissing(gitTags, RunTag(r), wrapper[r])
    /\ pc[r] \in {"reconcile", "delete", "upload", "flip"} =>
          \A d \in releases : d.id = target[r] => d.tag = RunTag(r)
    /\ pc[r] = "flip" =>
          \A d \in releases :
             d.id = target[r] => d.assets = CandidateAssets(r) /\ d.target = wrapper[r]

DraftInv == \A r \in Runs : DraftOf(r)

IInv ==
    /\ Typed /\ OnePublisher /\ HeadInv /\ DraftInv
    /\ PublicIsComplete /\ FinalNeverFails /\ OnePublicPerTag

(* The public revisions of one upstream version, as next-revision sees them. *)
PublicRevisions(f, up) ==
    {1} \cup {p.tag.rev : p \in {q \in Visible : q.tag.family = f /\ q.tag.up = up}}

-----------------------------------------------------------------------------
(* A bounded set of numbers has a maximum, which Max returns: the sets of  *)
(* what is above one of its elements have a smallest one.                  *)
LEMMA MaxOfBounded ==
    ASSUME NEW n \in Nat, NEW S \in SUBSET (0..n), S # {}
    PROVE  Max(S) \in S /\ \A y \in S : y <= Max(S)
<1> DEFINE Above(x) == {y \in 0..n : y > x}
           Aboves == {Above(x) : x \in S}
<1>1. IsFiniteSet(0..n)
  BY FS_Interval
<1>2. IsWellFoundedOn(StrictSubsetOrdering(0..n), SUBSET (0..n))
  BY <1>1, FS_StrictSubsetOrderingWellFounded, FS_FiniteSubsetsOfFinite
<1>3. Aboves \subseteq SUBSET (0..n) /\ Aboves # {}
  OBVIOUS
<1> HIDE DEF Aboves
<1>4. PICK least \in Aboves : \A other \in Aboves : <<other, least>> \notin StrictSubsetOrdering(0..n)
  BY <1>2, <1>3, WFMin
<1>5. PICK x \in S : least = Above(x)
  BY DEF Aboves
<1>6. ASSUME NEW y \in S, y > x PROVE FALSE
  <2>1. Above(y) \subseteq Above(x) /\ y \in Above(x) /\ y \notin Above(y)
    BY <1>6
  <2>2. Above(y) \in Aboves
    BY DEF Aboves
  <2>3. <<Above(y), Above(x)>> \in StrictSubsetOrdering(0..n)
    BY <2>1 DEF StrictSubsetOrdering
  <2> QED
    BY <2>2, <2>3, <1>4, <1>5
<1>7. \A y \in S : x >= y
  BY <1>6
<1>8. Max(S) \in S /\ \A y \in S : Max(S) >= y
  BY <1>7 DEF Max
<1> QED
  BY <1>8

(* The public revisions are bounded numbers, so they have a largest one.   *)
LEMMA RevisionBounds ==
    ASSUME ReleasesOK, NEW f, NEW up
    PROVE  /\ PublicRevisions(f, up) \subseteq Nat
           /\ Max(PublicRevisions(f, up)) \in PublicRevisions(f, up)
           /\ \A x \in PublicRevisions(f, up) : x <= Max(PublicRevisions(f, up))
<1> DEFINE S == PublicRevisions(f, up)
           n == MaxRevision + 1
<1>1. n \in Nat
  BY PipelineAssumption
<1>2. S \in SUBSET (0..n)
  BY <1>1, PipelineAssumption DEF PublicRevisions, Visible, ReleasesOK, IsRelease, TagType
<1>3. S # {}
  BY DEF PublicRevisions
<1> HIDE DEF S, n
<1>4. Max(S) \in S /\ \A y \in S : y <= Max(S)
  BY <1>1, <1>2, <1>3, MaxOfBounded
<1>5. S \subseteq Nat
  BY <1>1, <1>2
<1> QED
  BY <1>4, <1>5 DEF S

-----------------------------------------------------------------------------

(* The steps that change each variable.                                    *)
Frame ==
    /\ main' # main => DevPush \/ \E r \in Runs : PushPin(r)
    /\ upstream' # upstream => \E f \in Families : UpstreamRelease(f) \/ UpstreamYank(f)
    /\ releases' # releases =>
          \E r \in Runs : \/ CreateDraft(r) \/ ReconcileDraft(r) \/ DeleteAsset(r)
                          \/ UploadAsset(r) \/ PublishDraft(r)
    /\ lastId' # lastId => \E r \in Runs : CreateDraft(r)
    /\ gitTags' # gitTags => \E r \in Runs : PublishDraft(r)
    /\ event' # event => \E r \in Runs : Trigger(r)
    /\ force' # force => \E r \in Runs : Trigger(r)
    /\ out' # out => \E r \in Runs : RerunAll(r) \/ Resolve(r)
    /\ reserved' # reserved => \E r \in Runs : Resolve(r)
    /\ reruns' # reruns => \E r \in Runs : RerunAll(r) \/ RerunPublish(r)
    /\ frozen' # frozen => \E r \in Runs : Freeze(r) \/ \E how \in Stopped : End(r, how)
    /\ wrapper' # wrapper =>
          \E r \in Runs : KeepPin(r) \/ PushPin(r) \/ \E how \in Stopped : End(r, how)
    /\ target' # target =>
          \E r \in Runs : \/ Recover(r) \/ PlanReuse(r) \/ SelectUpload(r) \/ PollReady(r)
                          \/ \E how \in Stopped : End(r, how)
    /\ todo' # todo =>
          \E r \in Runs : \/ PlanReuse(r) \/ DeleteAsset(r) \/ SelectUpload(r) \/ UploadAsset(r)
                          \/ \E how \in Stopped : End(r, how)
    /\ attempt' # attempt =>
          \E r \in Runs : UploadsDone(r) \/ PollAgain(r) \/ \E how \in Stopped : End(r, how)

(* No other steps do.                                                      *)
LEMMA FrameOfStep == [Next]_vars => Frame
<1> SUFFICES ASSUME [Next]_vars PROVE Frame
  OBVIOUS
<1> USE DEF Frame, Stopped, github, publish
<1>1. CASE UNCHANGED vars
  BY <1>1 DEF vars
<1>2. CASE DevPush
  BY <1>2 DEF DevPush
<1>3. ASSUME NEW f \in Families, UpstreamRelease(f) PROVE Frame
  BY <1>3 DEF UpstreamRelease
<1>4. ASSUME NEW f \in Families, UpstreamYank(f) PROVE Frame
  BY <1>4 DEF UpstreamYank
<1>5. ASSUME NEW r \in Runs, Trigger(r) PROVE Frame
  BY <1>5 DEF Trigger, Enqueue
<1>6. ASSUME NEW r \in Runs, RerunAll(r) PROVE Frame
  BY <1>6 DEF RerunAll, Enqueue
<1>7. ASSUME NEW r \in Runs, RerunPublish(r) PROVE Frame
  BY <1>7 DEF RerunPublish
<1>8. ASSUME NEW r \in Runs, Crash(r) PROVE Frame
  BY <1>8 DEF Crash, Fail, End
<1>9. ASSUME NEW r \in Runs, Resolve(r) PROVE Frame
  BY <1>9 DEF Resolve
<1>10. ASSUME NEW r \in Runs, ResolveFails(r) PROVE Frame
  BY <1>10 DEF ResolveFails, Fail, End
<1>11. ASSUME NEW r \in Runs, Freeze(r) PROVE Frame
  BY <1>11 DEF Freeze, FrozenHeadOk
<1>12. ASSUME NEW r \in Runs, FreezeFails(r) PROVE Frame
  BY <1>12 DEF FreezeFails, Fail, End
<1>13. ASSUME NEW r \in Runs, KeepPin(r) PROVE Frame
  BY <1>13 DEF KeepPin, Pinned
<1>14. ASSUME NEW r \in Runs, PushPin(r) PROVE Frame
  BY <1>14 DEF PushPin
<1>15. ASSUME NEW r \in Runs, PushFails(r) PROVE Frame
  BY <1>15 DEF PushFails, Fail, End
<1>16. ASSUME NEW r \in Runs, ConfirmMain(r) PROVE Frame
  BY <1>16 DEF ConfirmMain
<1>17. ASSUME NEW r \in Runs, ConfirmFails(r) PROVE Frame
  BY <1>17 DEF ConfirmFails, Fail, End
<1>18. ASSUME NEW r \in Runs, Recover(r) PROVE Frame
  BY <1>18 DEF Recover, Goto
<1>19. ASSUME NEW r \in Runs, PlanCreate(r) PROVE Frame
  BY <1>19 DEF PlanCreate, Goto
<1>20. ASSUME NEW r \in Runs, PlanReuse(r) PROVE Frame
  BY <1>20 DEF PlanReuse, Goto
<1>21. ASSUME NEW r \in Runs, ListFails(r) PROVE Frame
  BY <1>21 DEF ListFails, Fail, End
<1>22. ASSUME NEW r \in Runs, CreateDraft(r) PROVE Frame
  BY <1>22 DEF CreateDraft, Goto
<1>23. ASSUME NEW r \in Runs, ReconcileDraft(r) PROVE Frame
  BY <1>23 DEF ReconcileDraft, Goto, Update
<1>24. ASSUME NEW r \in Runs, DeleteAsset(r) PROVE Frame
  BY <1>24 DEF DeleteAsset, Goto, Update
<1>25. ASSUME NEW r \in Runs, DeletesDone(r) PROVE Frame
  BY <1>25 DEF DeletesDone, Goto
<1>26. ASSUME NEW r \in Runs, SelectUpload(r) PROVE Frame
  BY <1>26 DEF SelectUpload, Goto
<1>27. ASSUME NEW r \in Runs, UploadAsset(r) PROVE Frame
  BY <1>27 DEF UploadAsset, Goto, Update
<1>28. ASSUME NEW r \in Runs, UploadsDone(r) PROVE Frame
  BY <1>28 DEF UploadsDone
<1>29. ASSUME NEW r \in Runs, PollReady(r) PROVE Frame
  BY <1>29 DEF PollReady, Goto
<1>30. ASSUME NEW r \in Runs, PollAgain(r) PROVE Frame
  BY <1>30 DEF PollAgain
<1>31. ASSUME NEW r \in Runs, PollGivesUp(r) PROVE Frame
  BY <1>31 DEF PollGivesUp, Fail, End
<1>32. ASSUME NEW r \in Runs, PollFails(r) PROVE Frame
  BY <1>32 DEF PollFails, Fail, End
<1>33. ASSUME NEW r \in Runs, PublishDraft(r) PROVE Frame
  BY <1>33 DEF PublishDraft, Goto, Update
<1>34. ASSUME NEW r \in Runs, FinalVerify(r) PROVE Frame
  BY <1>34 DEF FinalVerify, End
<1> QED
  BY <1>1, <1>2, <1>3, <1>4, <1>5, <1>6, <1>7, <1>8, <1>9, <1>10, <1>11, <1>12, <1>13,
     <1>14, <1>15, <1>16, <1>17, <1>18, <1>19, <1>20, <1>21, <1>22, <1>23, <1>24, <1>25,
     <1>26, <1>27, <1>28, <1>29, <1>30, <1>31, <1>32, <1>33, <1>34 DEF Next, Step

-----------------------------------------------------------------------------
(* Types.                                                                  *)

(* main only grows.                                                        *)
LEMMA MainStep ==
    ASSUME MainOK, OutOK, JobsOK, HeadInv, [Next]_vars
    PROVE  /\ MainOK'
           /\ Len(main) <= Len(main')
           /\ \A i \in 1..Len(main) : main'[i] = main[i]
<1> USE PipelineAssumption DEF MainOK
<1>1. Frame
  BY FrameOfStep
<1>2. upstream' \in [Families -> 1..MaxUp]
  BY <1>1 DEF Frame, UpstreamRelease, UpstreamYank
<1>3. ASSUME NEW c \in Commit, main' = Append(main, c)
      PROVE  /\ main' \in Seq(Commit) /\ Len(main') > 0 /\ Len(main) <= Len(main')
             /\ \A i \in 1..Len(main) : main'[i] = main[i]
  BY <1>3
<1>4. Last(main) \in Commit
  BY DEF Last
<1>5. CASE DevPush
  <2>1. Last(main).src < MaxSrc
    BY <1>5 DEF DevPush
  <2>2. Last(main).src + 1 \in 1..MaxSrc
    BY <1>4, <2>1 DEF Commit
  <2>3. [Last(main) EXCEPT !.src = @ + 1] \in Commit
    BY <1>4, <2>2 DEF Commit
  <2> QED
    BY <1>2, <1>3, <1>5, <2>3 DEF DevPush
<1>6. ASSUME NEW r \in Runs, PushPin(r)
      PROVE  /\ main' \in Seq(Commit) /\ Len(main') > 0 /\ Len(main) <= Len(main')
             /\ \A i \in 1..Len(main) : main'[i] = main[i]
  <2>1. pc[r] = "pin"
    BY <1>6 DEF PushPin
  <2>2. out[r].up > 0
    BY <2>1 DEF HeadInv, HeadOf, Active, PublishSteps
  <2>3. out[r].up \in 1..MaxUp
    <3> HIDE PipelineAssumption
    <3>1. out[r] \in [up : 0..MaxUp, rev : 0..MaxRevision]
      BY DEF OutOK
    <3>2. out[r].up \in 0..MaxUp
      BY <3>1
    <3> QED
      BY <2>2, <3>2
  <2>4. [Last(main) EXCEPT !.pin[FamilyOf[r]] = out[r].up] \in Commit
    BY <1>4, <2>3 DEF Commit
  <2> QED
    BY <1>3, <1>6, <2>4 DEF PushPin
<1> QED
  BY <1>1, <1>2, <1>5, <1>6 DEF Frame

(* A draft is created under a new id, and one release changes at a time.   *)
LEMMA ReleasesStep ==
    ASSUME Typed, HeadInv, DraftInv, [Next]_vars
    PROVE  ReleasesOK'
<1> USE PipelineAssumption DEF ReleasesOK
<1>1. Frame
  BY FrameOfStep
<1>2. lastId \in Nat /\ Len(main) \in Nat /\ Len(main') \in Nat /\ Len(main) <= Len(main')
  BY MainStep DEF Typed, MainOK
<1>3. ASSUME NEW q, NEW ids \in Nat, ids >= lastId, IsRelease(q, lastId, Len(main))
      PROVE  IsRelease(q, ids, Len(main'))
  BY <1>2, <1>3 DEF IsRelease
<1>4. CASE UNCHANGED <<releases, gitTags, lastId>>
  BY <1>2, <1>3, <1>4 DEF Typed
<1>5. ASSUME NEW r \in Runs, CreateDraft(r) PROVE ReleasesOK'
  <2> DEFINE d == [id |-> lastId', tag |-> RunTag(r), target |-> wrapper[r],
                   draft |-> TRUE, assets |-> <<>>]
  <2>1. pc[r] = "create" /\ lastId' = lastId + 1 /\ releases' = releases \cup {d}
        /\ UNCHANGED <<main, gitTags>>
    BY <1>5 DEF CreateDraft
  <2>2. out[r].up > 0 /\ wrapper[r] > 0
    BY <2>1 DEF HeadInv, HeadOf, Active, PublishSteps
  <2>3. RunTag(r) \in TagType /\ wrapper[r] \in 1..Len(main)
    BY <1>2, <2>2 DEF Typed, OutOK, RefsOK, RunTag, Tag, TagType
  <2>4. IsRelease(d, lastId', Len(main'))
    BY <1>2, <2>1, <2>3 DEF IsRelease
  <2>5. \A q \in releases : q.id # d.id /\ IsRelease(q, lastId', Len(main'))
    BY <1>2, <1>3, <2>1 DEF Typed, IsRelease
  <2>6. \A q \in releases' : q \in releases \/ q = d
    BY <2>1
  <2>7. \A q \in releases' : IsRelease(q, lastId', Len(main'))
    BY <2>4, <2>5, <2>6
  <2>8. \A p, q \in releases' : p.id = q.id => p = q
    BY <2>5, <2>6 DEF Typed
  <2> HIDE DEF d
  <2> QED
    BY <1>2, <2>1, <2>7, <2>8 DEF Typed
<1>6. ASSUME NEW d \in releases, NEW e, IsRelease(e, lastId, Len(main)), e.id = d.id, Update(d, e),
             \A g \in gitTags' : g \in gitTags \/ g = [tag |-> d.tag, commit |-> d.target]
      PROVE  ReleasesOK'
  <2>1. d.target \in 1..Len(main)
    BY DEF Typed, IsRelease
  <2>2. \A g \in gitTags' : g = [tag |-> g.tag, commit |-> g.commit] /\ g.commit \in 1..Len(main)
    BY <1>6, <2>1 DEF Typed
  <2> QED
    BY <1>2, <1>6, <2>2 DEF Typed, Update
<1>7. ASSUME NEW r \in Runs, ReconcileDraft(r) PROVE ReleasesOK'
  <2>1. PICK d \in releases : Update(d, [d EXCEPT !.draft = TRUE])
    BY <1>7 DEF ReconcileDraft
  <2>2. IsRelease(d, lastId, Len(main))
    BY DEF Typed
  <2> DEFINE e == [id |-> d.id, tag |-> d.tag, target |-> d.target,
                   draft |-> TRUE, assets |-> d.assets]
  <2>3. \A b : [d EXCEPT !.draft = b] = [id |-> d.id, tag |-> d.tag, target |-> d.target,
                                          draft |-> b, assets |-> d.assets]
    BY <2>2 DEF IsRelease
  <2>4. [d EXCEPT !.draft = TRUE] = e
    BY <2>3
  <2>5. IsRelease(e, lastId, Len(main)) /\ e.id = d.id
    BY <2>2 DEF IsRelease
  <2> HIDE DEF e
  <2> QED
    BY <1>6, <1>7, <2>1, <2>4, <2>5 DEF ReconcileDraft
<1>8. ASSUME NEW r \in Runs, DeleteAsset(r) PROVE ReleasesOK'
  <2>1. PICK n \in todo[r], d \in releases :
           Update(d, [d EXCEPT !.assets = Restrict(@, DOMAIN @ \ {n})])
    BY <1>8 DEF DeleteAsset
  <2> DEFINE e == [d EXCEPT !.assets = Restrict(@, DOMAIN @ \ {n})]
  <2>2. IsRelease(e, lastId, Len(main)) /\ e.id = d.id
    BY DEF Typed, IsRelease, Restrict
  <2> QED
    BY <1>6, <1>8, <2>1, <2>2 DEF DeleteAsset
<1>9. ASSUME NEW r \in Runs, UploadAsset(r) PROVE ReleasesOK'
  <2>1. PICK n \in todo[r], d \in releases :
           /\ d.id = target[r]
           /\ Update(d, [d EXCEPT !.assets = [m \in DOMAIN @ \cup {n} |->
                                        IF m = n THEN CandidateAssets(r)[n] ELSE @[m]]])
    BY <1>9 DEF UploadAsset
  <2> DEFINE a == [m \in DOMAIN d.assets \cup {n} |->
                      IF m = n THEN CandidateAssets(r)[n] ELSE d.assets[m]]
             e == [id |-> d.id, tag |-> d.tag, target |-> d.target,
                   draft |-> d.draft, assets |-> a]
  <2>2. d.tag = RunTag(r)
    BY <1>9, <2>1 DEF UploadAsset, DraftInv, DraftOf
  <2>3. n \in AssetNames[d.tag.family]
    BY <2>2 DEF RunTag, Tag, Typed, TodoOK
  <2>4. IsRelease(d, lastId, Len(main))
    BY DEF Typed
  <2>5. DOMAIN a \subseteq AssetNames[d.tag.family]
    BY <2>3, <2>4 DEF IsRelease
  <2>6. [d EXCEPT !.assets = [m \in DOMAIN @ \cup {n} |->
                                 IF m = n THEN CandidateAssets(r)[n] ELSE @[m]]] = e
    BY <2>4 DEF IsRelease
  <2> HIDE DEF a
  <2>7. IsRelease(e, lastId, Len(main)) /\ e.id = d.id
    BY <2>4, <2>5 DEF IsRelease
  <2> HIDE DEF e
  <2> QED
    BY <1>6, <1>9, <2>1, <2>6, <2>7 DEF UploadAsset
<1>10. ASSUME NEW r \in Runs, PublishDraft(r) PROVE ReleasesOK'
  <2>1. PICK d \in releases :
          /\ Update(d, [d EXCEPT !.draft = FALSE])
          /\ gitTags' = IF TagRefs(gitTags, d.tag) # {} THEN gitTags
                        ELSE gitTags \cup {[tag |-> d.tag, commit |-> d.target]}
    BY <1>10 DEF PublishDraft
  <2>2. IsRelease(d, lastId, Len(main))
    BY DEF Typed
  <2> DEFINE e == [id |-> d.id, tag |-> d.tag, target |-> d.target,
                   draft |-> FALSE, assets |-> d.assets]
  <2>3. \A b : [d EXCEPT !.draft = b] = [id |-> d.id, tag |-> d.tag, target |-> d.target,
                                          draft |-> b, assets |-> d.assets]
    BY <2>2 DEF IsRelease
  <2>4. [d EXCEPT !.draft = FALSE] = e
    BY <2>3
  <2>5. IsRelease(e, lastId, Len(main)) /\ e.id = d.id
    BY <2>2 DEF IsRelease
  <2> HIDE DEF e
  <2> QED
    BY <1>6, <2>1, <2>4, <2>5
<1> QED
  BY <1>1, <1>4, <1>5, <1>7, <1>8, <1>9, <1>10 DEF Frame

(* Jobs move along their locations, and a publish job only starts alone.   *)
LEMMA JobsStep == JobsOK /\ OnePublisher /\ [Next]_vars => (JobsOK /\ OnePublisher)'
<1> SUFFICES ASSUME JobsOK, OnePublisher, [Next]_vars PROVE (JobsOK /\ OnePublisher)'
  OBVIOUS
<1> USE PipelineAssumption DEF JobsOK, OnePublisher, Locations, BuildSteps,
        PublishSteps, Stopped
<1>1. CASE UNCHANGED vars
  BY <1>1 DEF vars, github, publish
<1>2. CASE DevPush
  BY <1>2 DEF DevPush, publish
<1>3. ASSUME NEW f \in Families, UpstreamRelease(f) PROVE (JobsOK /\ OnePublisher)'
  BY <1>3 DEF UpstreamRelease, publish
<1>4. ASSUME NEW f \in Families, UpstreamYank(f) PROVE (JobsOK /\ OnePublisher)'
  BY <1>4 DEF UpstreamYank, publish
<1>5. ASSUME NEW r \in Runs, Trigger(r) PROVE (JobsOK /\ OnePublisher)'
  BY <1>5 DEF Trigger, Enqueue, github, publish
<1>6. ASSUME NEW r \in Runs, RerunAll(r) PROVE (JobsOK /\ OnePublisher)'
  BY <1>6 DEF RerunAll, Enqueue, github, publish
<1>7. ASSUME NEW r \in Runs, RerunPublish(r) PROVE (JobsOK /\ OnePublisher)'
  BY <1>7 DEF RerunPublish, github, publish
<1>8. ASSUME NEW r \in Runs, Crash(r) PROVE (JobsOK /\ OnePublisher)'
  BY <1>8 DEF Crash, Fail, End, github, publish
<1>9. ASSUME NEW r \in Runs, Resolve(r) PROVE (JobsOK /\ OnePublisher)'
  BY <1>9 DEF Resolve, github, publish
<1>10. ASSUME NEW r \in Runs, ResolveFails(r) PROVE (JobsOK /\ OnePublisher)'
  BY <1>10 DEF ResolveFails, Fail, End, github, publish
<1>11. ASSUME NEW r \in Runs, Freeze(r) PROVE (JobsOK /\ OnePublisher)'
  BY <1>11 DEF Freeze, FrozenHeadOk, github, publish, PublisherBusy
<1>12. ASSUME NEW r \in Runs, FreezeFails(r) PROVE (JobsOK /\ OnePublisher)'
  BY <1>12 DEF FreezeFails, Fail, End, github, publish
<1>13. ASSUME NEW r \in Runs, KeepPin(r) PROVE (JobsOK /\ OnePublisher)'
  BY <1>13 DEF KeepPin, Pinned, github, publish
<1>14. ASSUME NEW r \in Runs, PushPin(r) PROVE (JobsOK /\ OnePublisher)'
  BY <1>14 DEF PushPin, github, publish
<1>15. ASSUME NEW r \in Runs, PushFails(r) PROVE (JobsOK /\ OnePublisher)'
  BY <1>15 DEF PushFails, Fail, End, github, publish
<1>16. ASSUME NEW r \in Runs, ConfirmMain(r) PROVE (JobsOK /\ OnePublisher)'
  BY <1>16 DEF ConfirmMain, github, publish
<1>17. ASSUME NEW r \in Runs, ConfirmFails(r) PROVE (JobsOK /\ OnePublisher)'
  BY <1>17 DEF ConfirmFails, Fail, End, github, publish
<1>18. ASSUME NEW r \in Runs, Recover(r) PROVE (JobsOK /\ OnePublisher)'
  BY <1>18 DEF Recover, Goto, github, publish
<1>19. ASSUME NEW r \in Runs, PlanCreate(r) PROVE (JobsOK /\ OnePublisher)'
  BY <1>19 DEF PlanCreate, Goto, github, publish
<1>20. ASSUME NEW r \in Runs, PlanReuse(r) PROVE (JobsOK /\ OnePublisher)'
  BY <1>20 DEF PlanReuse, Goto, github, publish
<1>21. ASSUME NEW r \in Runs, ListFails(r) PROVE (JobsOK /\ OnePublisher)'
  BY <1>21 DEF ListFails, Fail, End, github, publish
<1>22. ASSUME NEW r \in Runs, CreateDraft(r) PROVE (JobsOK /\ OnePublisher)'
  BY <1>22 DEF CreateDraft, Goto, github, publish
<1>23. ASSUME NEW r \in Runs, ReconcileDraft(r) PROVE (JobsOK /\ OnePublisher)'
  BY <1>23 DEF ReconcileDraft, Goto, Update, github, publish
<1>24. ASSUME NEW r \in Runs, DeleteAsset(r) PROVE (JobsOK /\ OnePublisher)'
  BY <1>24 DEF DeleteAsset, Goto, Update, github, publish
<1>25. ASSUME NEW r \in Runs, DeletesDone(r) PROVE (JobsOK /\ OnePublisher)'
  BY <1>25 DEF DeletesDone, Goto, github, publish
<1>26. ASSUME NEW r \in Runs, SelectUpload(r) PROVE (JobsOK /\ OnePublisher)'
  BY <1>26 DEF SelectUpload, Goto, github, publish
<1>27. ASSUME NEW r \in Runs, UploadAsset(r) PROVE (JobsOK /\ OnePublisher)'
  BY <1>27 DEF UploadAsset, Goto, Update, github, publish
<1>28. ASSUME NEW r \in Runs, UploadsDone(r) PROVE (JobsOK /\ OnePublisher)'
  BY <1>28 DEF UploadsDone, github, publish
<1>29. ASSUME NEW r \in Runs, PollReady(r) PROVE (JobsOK /\ OnePublisher)'
  BY <1>29 DEF PollReady, Goto, github, publish
<1>30. ASSUME NEW r \in Runs, PollAgain(r) PROVE (JobsOK /\ OnePublisher)'
  <2>1. pc' = pc /\ force' = force /\ reruns' = reruns
    BY <1>30 DEF PollAgain
  <2>2. attempt[r] + 1 \in 0..PollLimit /\ attempt' = [attempt EXCEPT ![r] = @ + 1]
    BY <1>30 DEF PollAgain
  <2> QED
    BY <2>1, <2>2
<1>31. ASSUME NEW r \in Runs, PollGivesUp(r) PROVE (JobsOK /\ OnePublisher)'
  BY <1>31 DEF PollGivesUp, Fail, End, github, publish
<1>32. ASSUME NEW r \in Runs, PollFails(r) PROVE (JobsOK /\ OnePublisher)'
  BY <1>32 DEF PollFails, Fail, End, github, publish
<1>33. ASSUME NEW r \in Runs, PublishDraft(r) PROVE (JobsOK /\ OnePublisher)'
  BY <1>33 DEF PublishDraft, Goto, Update, github, publish
<1>34. ASSUME NEW r \in Runs, FinalVerify(r) PROVE (JobsOK /\ OnePublisher)'
  BY <1>34 DEF FinalVerify, End, github, publish
<1> QED
  BY <1>1, <1>2, <1>3, <1>4, <1>5, <1>6, <1>7, <1>8, <1>9, <1>10, <1>11, <1>12, <1>13,
     <1>14, <1>15, <1>16, <1>17, <1>18, <1>19, <1>20, <1>21, <1>22, <1>23, <1>24, <1>25,
     <1>26, <1>27, <1>28, <1>29, <1>30, <1>31, <1>32, <1>33, <1>34 DEF Next, Step

(* A build job gets an upstream version and a revision within its limit.   *)
LEMMA OutStep ==
    ASSUME MainOK, ReleasesOK, OutOK, [Next]_vars
    PROVE  OutOK'
<1> USE DEF OutOK
<1>1. Frame
  BY FrameOfStep
<1>2. CASE out' = out
  BY <1>2
<1>3. ASSUME NEW r \in Runs, RerunAll(r) PROVE OutOK'
  BY <1>3, PipelineAssumption DEF RerunAll, NoBuild
<1>4. ASSUME NEW r \in Runs, Resolve(r) PROVE OutOK'
  <2> DEFINE up == upstream[FamilyOf[r]]
             revisions == PublicRevisions(FamilyOf[r], up)
  <2>1. Max(revisions) \in Nat
    BY RevisionBounds
  <2>2. ResolvedRevision(r) = Epoch + r + Max(revisions)
    BY DEF ResolvedRevision, NextRevision, PublicRevisions
  <2>3. ResolvedRevision(r) \in 0..MaxRevision
    BY <1>4, <2>1, <2>2, PipelineAssumption DEF Resolve, ResolveRejected
  <2>4. up \in 0..MaxUp
    BY PipelineAssumption DEF MainOK
  <2> QED
    BY <1>4, <2>3, <2>4 DEF Resolve
<1> QED
  BY <1>1, <1>2, <1>3, <1>4 DEF Frame

(* Jobs refer to commits and releases that exist.                          *)
LEMMA RefsStep ==
    ASSUME Typed, HeadInv, [Next]_vars
    PROVE  RefsOK'
<1> USE DEF RefsOK
<1>1. Frame
  BY FrameOfStep
<1>2. Len(main) \in Nat /\ Len(main') \in Nat /\ Len(main) <= Len(main')
  BY MainStep DEF Typed, MainOK
<1>3. lastId \in Nat /\ lastId' \in Nat /\ lastId <= lastId'
  BY <1>1 DEF Typed, ReleasesOK, Frame, CreateDraft
<1>4. event' \in [Runs -> 0..Len(main')]
  <2>1. ASSUME NEW r \in Runs, Trigger(r) PROVE event' \in [Runs -> 0..Len(main')]
    BY <2>1, <1>2 DEF Typed, Trigger, github
  <2>2. CASE event' = event
    BY <2>2, <1>2 DEF Typed
  <2> QED
    BY <1>1, <2>1, <2>2 DEF Frame
<1>5. ASSUME NEW r \in Runs, NEW how, End(r, how)
      PROVE  /\ frozen' \in [Runs -> 0..Len(main')] /\ wrapper' \in [Runs -> 0..Len(main')]
             /\ target' \in [Runs -> 0..lastId']
  BY <1>2, <1>3, <1>5 DEF Typed, End
<1>6. frozen' \in [Runs -> 0..Len(main')]
  BY <1>1, <1>2, <1>5 DEF Typed, Frame, Freeze
<1>7. wrapper' \in [Runs -> 0..Len(main')]
  <2>1. ASSUME NEW r \in Runs, KeepPin(r) PROVE wrapper' \in [Runs -> 0..Len(main')]
    BY <2>1, <1>2 DEF Typed, KeepPin, github
  <2>2. ASSUME NEW r \in Runs, PushPin(r) PROVE wrapper' \in [Runs -> 0..Len(main')]
    BY <2>2, <1>2 DEF Typed, PushPin
  <2>3. CASE wrapper' = wrapper
    BY <2>3, <1>2 DEF Typed
  <2> QED
    BY <1>1, <1>5, <2>1, <2>2, <2>3 DEF Frame
<1>8. \A q \in releases : q.id \in 0..lastId'
  BY <1>3 DEF Typed, ReleasesOK, IsRelease
<1>9. target' \in [Runs -> 0..lastId']
  <2>1. CASE target' = target
    BY <2>1, <1>3 DEF Typed
  <2>2. ASSUME NEW r \in Runs, Recover(r) PROVE target' \in [Runs -> 0..lastId']
    BY <2>2, <1>3, <1>8 DEF Typed, Recover, Lists, PublishedOf
  <2>3. ASSUME NEW r \in Runs, PlanReuse(r) PROVE target' \in [Runs -> 0..lastId']
    BY <2>3, <1>3, <1>8 DEF Typed, PlanReuse, Lists, DraftsOf
  <2>4. ASSUME NEW r \in Runs, SelectUpload(r) PROVE target' \in [Runs -> 0..lastId']
    BY <2>4, <1>3, <1>8 DEF Typed, SelectUpload, PublishedOf, DraftsOf
  <2>5. ASSUME NEW r \in Runs, PollReady(r) PROVE target' \in [Runs -> 0..lastId']
    BY <2>5, <1>3, <1>8 DEF Typed, PollReady
  <2> QED
    BY <1>1, <1>5, <2>1, <2>2, <2>3, <2>4, <2>5 DEF Frame
<1> QED
  BY <1>4, <1>6, <1>7, <1>9

(* What is left to delete or to upload are assets of the job's family.     *)
LEMMA TodoStep ==
    ASSUME Typed, [Next]_vars
    PROVE  TodoOK'
<1> USE PipelineAssumption DEF TodoOK
<1>1. Frame
  BY FrameOfStep
<1>2. CASE todo' = todo
  BY <1>2 DEF Typed
<1>3. ASSUME NEW r \in Runs, NEW s \in SUBSET AssetNames[FamilyOf[r]],
             todo' = [todo EXCEPT ![r] = s]
      PROVE  TodoOK'
  BY <1>3 DEF Typed
<1>4. ASSUME NEW r \in Runs, PlanReuse(r) PROVE TodoOK'
  <2>1. PICK d \in releases : d.tag = RunTag(r) /\ todo' = [todo EXCEPT ![r] = DOMAIN d.assets]
    BY <1>4 DEF PlanReuse, Lists, DraftsOf
  <2>2. DOMAIN d.assets \subseteq AssetNames[FamilyOf[r]]
    BY <2>1 DEF Typed, ReleasesOK, IsRelease, RunTag, Tag
  <2> QED
    BY <1>3, <2>1, <2>2
<1>5. ASSUME NEW r \in Runs, DeleteAsset(r) PROVE TodoOK'
  BY <1>3, <1>5 DEF DeleteAsset, Typed
<1>6. ASSUME NEW r \in Runs, SelectUpload(r) PROVE TodoOK'
  BY <1>3, <1>6 DEF SelectUpload, Expected
<1>7. ASSUME NEW r \in Runs, UploadAsset(r) PROVE TodoOK'
  BY <1>3, <1>7 DEF UploadAsset, Typed
<1>8. ASSUME NEW r \in Runs, NEW how, End(r, how) PROVE TodoOK'
  BY <1>3, <1>8 DEF End
<1> QED
  BY <1>1, <1>2, <1>4, <1>5, <1>6, <1>7, <1>8 DEF Frame

(* main only grows, and a job that goes on has compared it.                *)
LEMMA HeadStep == Typed /\ HeadInv /\ [Next]_vars => HeadInv'
<1> SUFFICES ASSUME Typed, HeadInv, [Next]_vars PROVE HeadInv'
  OBVIOUS
<1>a. /\ pc \in [Runs -> Locations] /\ out \in [Runs -> [up : 0..MaxUp, rev : 0..MaxRevision]]
      /\ event \in [Runs -> 0..Len(main)] /\ frozen \in [Runs -> 0..Len(main)]
      /\ wrapper \in [Runs -> 0..Len(main)] /\ upstream \in [Families -> 1..MaxUp]
  BY DEF Typed, JobsOK, OutOK, RefsOK, MainOK
<1>b. /\ Len(main) \in Nat /\ Len(main) > 0 /\ Len(main') \in Nat /\ Len(main) <= Len(main')
      /\ \A i \in 1..Len(main) : main'[i] = main[i]
  BY MainStep DEF Typed, MainOK
<1>c. ASSUME NEW s \in Runs, pc'[s] = pc[s], event'[s] = event[s], out'[s] = out[s],
             frozen'[s] = frozen[s], wrapper'[s] = wrapper[s]
      PROVE  HeadOf(s)'
  <2>1. HeadOf(s) /\ (pc[s] \in PublishSteps => pc[s] # "none")
    BY DEF HeadInv, PublishSteps
  <2>2. /\ event[s] > 0 => main'[event[s]] = main[event[s]]
        /\ frozen[s] > 0 => main'[frozen[s]] = main[frozen[s]]
        /\ wrapper[s] > 0 => main'[wrapper[s]] = main[wrapper[s]]
    BY <1>a, <1>b
  <2> QED
    BY <1>c, <2>1, <2>2 DEF HeadOf
<1>d. main \in Seq(Commit)
  BY DEF Typed, MainOK
<1>e. \A r \in Runs : upstream[FamilyOf[r]] > 0
  BY <1>a, PipelineAssumption
<1>f. ASSUME NEW r \in Runs, Resolve(r)
      PROVE  \/ pc' = [pc EXCEPT ![r] = "skipped"] /\ out' = out
             \/ \E rev : /\ pc' = [pc EXCEPT ![r] = "built"]
                         /\ out' = [out EXCEPT ![r] = [up |-> upstream[FamilyOf[r]], rev |-> rev]]
  BY <1>f DEF Resolve
<1> USE <1>a, <1>b
<1> USE PipelineAssumption DEF HeadInv, HeadOf, Active, PublishSteps, BuildSteps,
        Stopped
<1>1. CASE UNCHANGED vars
  BY <1>1 DEF vars, github, publish
<1>2. CASE DevPush
  <2>1. UNCHANGED <<pc, event, out, frozen, wrapper>>
    BY <1>2 DEF DevPush, publish
  <2> QED
    BY <1>c, <2>1
<1>3. ASSUME NEW f \in Families, UpstreamRelease(f) PROVE HeadInv'
  BY <1>3 DEF UpstreamRelease, publish
<1>4. ASSUME NEW f \in Families, UpstreamYank(f) PROVE HeadInv'
  BY <1>4 DEF UpstreamYank, publish
<1>5. ASSUME NEW r \in Runs, Trigger(r) PROVE HeadInv'
  BY <1>5 DEF Trigger, Enqueue, github, publish
<1>6. ASSUME NEW r \in Runs, RerunAll(r) PROVE HeadInv'
  BY <1>6 DEF RerunAll, Enqueue, github, publish
<1>7. ASSUME NEW r \in Runs, RerunPublish(r) PROVE HeadInv'
  BY <1>7 DEF RerunPublish, github, publish
<1>8. ASSUME NEW r \in Runs, Crash(r) PROVE HeadInv'
  BY <1>8 DEF Crash, Fail, End, github, publish
<1>9. ASSUME NEW r \in Runs, Resolve(r) PROVE HeadInv'
  <2>1. upstream[FamilyOf[r]] > 0
    BY <1>e
  <2>2. \/ pc' = [pc EXCEPT ![r] = "skipped"] /\ out' = out
        \/ \E rev : /\ pc' = [pc EXCEPT ![r] = "built"]
                    /\ out' = [out EXCEPT ![r] = [up |-> upstream[FamilyOf[r]], rev |-> rev]]
    BY <1>9, <1>f
  <2>3. UNCHANGED <<main, event, frozen, wrapper>> /\ pc[r] = "queued"
    BY <1>9 DEF Resolve, github, publish
  <2>4. ASSUME NEW s \in Runs \ {r} PROVE HeadOf(s)'
    <3>1. pc'[s] = pc[s] /\ out'[s] = out[s]
      BY <2>2
    <3> QED
      BY <1>c, <2>3, <3>1
  <2>5. event[r] > 0
    BY <2>3
  <2>6. /\ pc'[r] \in {"skipped", "built"} /\ event'[r] = event[r]
        /\ pc'[r] = "built" \/ out'[r] # NoBuild => out'[r].up > 0
    BY <2>1, <2>2, <2>3
  <2>7. HeadOf(r)'
    BY <2>5, <2>6
  <2> QED
    BY <2>4, <2>7
<1>10. ASSUME NEW r \in Runs, ResolveFails(r) PROVE HeadInv'
  BY <1>10 DEF ResolveFails, Fail, End, github, publish
<1>11. ASSUME NEW r \in Runs, Freeze(r) PROVE HeadInv'
  <2>1. main[Len(main)].src = main[event[r]].src /\ out[r].up > 0 /\ event[r] > 0
    BY <1>11 DEF Freeze, FrozenHeadOk, Last
  <2> QED
    BY <1>11, <2>1 DEF Freeze, github
<1>12. ASSUME NEW r \in Runs, FreezeFails(r) PROVE HeadInv'
  BY <1>12 DEF FreezeFails, Fail, End, github, publish
<1>13. ASSUME NEW r \in Runs, KeepPin(r) PROVE HeadInv'
  BY <1>13 DEF KeepPin, Pinned, github, publish
<1>14. ASSUME NEW r \in Runs, PushPin(r) PROVE HeadInv'
  <2>1. main[Len(main)] \in Commit /\ FamilyOf[r] \in Families
    BY <1>d, PipelineAssumption
  <2>2. /\ Len(main) = frozen[r] /\ pc[r] = "pin"
        /\ main' = Append(main, [main[Len(main)] EXCEPT !.pin[FamilyOf[r]] = out[r].up])
        /\ wrapper' = [wrapper EXCEPT ![r] = Len(main')] /\ pc' = [pc EXCEPT ![r] = "confirm"]
        /\ UNCHANGED <<event, out, frozen>>
    BY <1>14 DEF PushPin, Last
  <2>3. /\ Len(main') = Len(main) + 1
        /\ main'[Len(main) + 1].src = main[Len(main)].src
        /\ main'[Len(main) + 1].pin[FamilyOf[r]] = out[r].up
    BY <1>d, <2>1, <2>2 DEF Commit
  <2>4. /\ event[r] > 0 /\ out[r].up > 0
        /\ main[Len(main)].src = main[event[r]].src
    BY <2>2
  <2>5. /\ event'[r] > 0 /\ out'[r].up > 0 /\ frozen'[r] > 0
        /\ main'[frozen'[r]].src = main'[event'[r]].src
    BY <2>2, <2>4
  <2>6. /\ wrapper'[r] > 0
        /\ main'[wrapper'[r]].src = main'[event'[r]].src
        /\ main'[wrapper'[r]].pin[FamilyOf[r]] = out'[r].up
    BY <2>2, <2>3, <2>4
  <2>7. HeadOf(r)'
    BY <2>2, <2>5, <2>6
  <2>8. ASSUME NEW s \in Runs, s # r PROVE HeadOf(s)'
    <3>1. pc'[s] = pc[s] /\ wrapper'[s] = wrapper[s]
      BY <2>2, <2>8
    <3> QED
      BY <1>c, <2>2, <3>1
  <2> QED
    BY <2>7, <2>8
<1>15. ASSUME NEW r \in Runs, PushFails(r) PROVE HeadInv'
  BY <1>15 DEF PushFails, Fail, End, github, publish
<1>16. ASSUME NEW r \in Runs, ConfirmMain(r) PROVE HeadInv'
  BY <1>16 DEF ConfirmMain, github, publish
<1>17. ASSUME NEW r \in Runs, ConfirmFails(r) PROVE HeadInv'
  BY <1>17 DEF ConfirmFails, Fail, End, github, publish
<1>18. ASSUME NEW r \in Runs, Recover(r) PROVE HeadInv'
  BY <1>18 DEF Recover, Goto, github, publish
<1>19. ASSUME NEW r \in Runs, PlanCreate(r) PROVE HeadInv'
  BY <1>19 DEF PlanCreate, Goto, github, publish
<1>20. ASSUME NEW r \in Runs, PlanReuse(r) PROVE HeadInv'
  BY <1>20 DEF PlanReuse, Goto, github, publish
<1>21. ASSUME NEW r \in Runs, ListFails(r) PROVE HeadInv'
  BY <1>21 DEF ListFails, Fail, End, github, publish
<1>22. ASSUME NEW r \in Runs, CreateDraft(r) PROVE HeadInv'
  BY <1>22 DEF CreateDraft, Goto, github, publish
<1>23. ASSUME NEW r \in Runs, ReconcileDraft(r) PROVE HeadInv'
  BY <1>23, SMTT(30) DEF ReconcileDraft, Goto, Update, github, publish
<1>24. ASSUME NEW r \in Runs, DeleteAsset(r) PROVE HeadInv'
  BY <1>24, SMTT(30) DEF DeleteAsset, Goto, Update, github, publish
<1>25. ASSUME NEW r \in Runs, DeletesDone(r) PROVE HeadInv'
  BY <1>25 DEF DeletesDone, Goto, github, publish
<1>26. ASSUME NEW r \in Runs, SelectUpload(r) PROVE HeadInv'
  BY <1>26 DEF SelectUpload, Goto, github, publish
<1>27. ASSUME NEW r \in Runs, UploadAsset(r) PROVE HeadInv'
  BY <1>27, SMTT(30) DEF UploadAsset, Goto, Update, github, publish
<1>28. ASSUME NEW r \in Runs, UploadsDone(r) PROVE HeadInv'
  BY <1>28 DEF UploadsDone, github, publish
<1>29. ASSUME NEW r \in Runs, PollReady(r) PROVE HeadInv'
  BY <1>29 DEF PollReady, Goto, github, publish
<1>30. ASSUME NEW r \in Runs, PollAgain(r) PROVE HeadInv'
  BY <1>30 DEF PollAgain, github, publish
<1>31. ASSUME NEW r \in Runs, PollGivesUp(r) PROVE HeadInv'
  BY <1>31 DEF PollGivesUp, Fail, End, github, publish
<1>32. ASSUME NEW r \in Runs, PollFails(r) PROVE HeadInv'
  BY <1>32 DEF PollFails, Fail, End, github, publish
<1>33. ASSUME NEW r \in Runs, PublishDraft(r) PROVE HeadInv'
  BY <1>33, SMTT(30) DEF PublishDraft, Goto, Update, github, publish
<1>34. ASSUME NEW r \in Runs, FinalVerify(r) PROVE HeadInv'
  BY <1>34 DEF FinalVerify, End, github, publish
<1> QED
  BY <1>1, <1>2, <1>3, <1>4, <1>5, <1>6, <1>7, <1>8, <1>9, <1>10, <1>11, <1>12, <1>13,
     <1>14, <1>15, <1>16, <1>17, <1>18, <1>19, <1>20, <1>21, <1>22, <1>23, <1>24, <1>25,
     <1>26, <1>27, <1>28, <1>29, <1>30, <1>31, <1>32, <1>33, <1>34 DEF Next, Step

-----------------------------------------------------------------------------
(* What holds for the one publish job.                                     *)

(* A step of others: they neither touch the releases and tags while this   *)
(* job publishes, nor what the job knows.                                  *)
Idle(s) ==
    /\ UNCHANGED <<releases, gitTags>>
    /\ pc'[s] = pc[s] /\ event'[s] = event[s] /\ out'[s] = out[s]
    /\ wrapper'[s] = wrapper[s] /\ target'[s] = target[s]

Proceeds(s) ==
    \/ Freeze(s) \/ KeepPin(s) \/ PushPin(s) \/ ConfirmMain(s)
    \/ Recover(s) \/ PlanCreate(s) \/ PlanReuse(s)
    \/ CreateDraft(s) \/ ReconcileDraft(s) \/ DeleteAsset(s) \/ DeletesDone(s)
    \/ SelectUpload(s) \/ UploadAsset(s) \/ UploadsDone(s)
    \/ PollReady(s) \/ PollAgain(s) \/ PublishDraft(s)

(* While a job publishes, either it proceeds or nothing of its changes.    *)
LEMMA PublisherSteps ==
    ASSUME JobsOK, OutOK, RefsOK, OnePublisher, [Next]_vars,
           NEW s \in Runs, pc'[s] \in PublishSteps
    PROVE  Idle(s) \/ Proceeds(s)
<1>a. /\ pc \in [Runs -> Locations] /\ out \in [Runs -> [up : 0..MaxUp, rev : 0..MaxRevision]]
      /\ event \in [Runs -> 0..Len(main)] /\ frozen \in [Runs -> 0..Len(main)]
      /\ wrapper \in [Runs -> 0..Len(main)] /\ target \in [Runs -> 0..lastId]
  BY DEF JobsOK, OutOK, RefsOK
<1>b. \A r \in Runs : pc[r] \in PublishSteps /\ pc[s] \in PublishSteps => r = s
  BY DEF OnePublisher
<1> USE <1>a, <1>b DEF PublishSteps, BuildSteps, Stopped
<1>1. CASE UNCHANGED vars
  BY <1>1 DEF vars, Idle
<1>2. CASE DevPush
  BY <1>2 DEF DevPush, publish, Idle
<1>3. ASSUME NEW f \in Families, UpstreamRelease(f) PROVE Idle(s) \/ Proceeds(s)
  BY <1>3 DEF UpstreamRelease, publish, Idle
<1>4. ASSUME NEW f \in Families, UpstreamYank(f) PROVE Idle(s) \/ Proceeds(s)
  BY <1>4 DEF UpstreamYank, publish, Idle
<1>5. ASSUME NEW r \in Runs, Trigger(r) PROVE Idle(s) \/ Proceeds(s)
  BY <1>5 DEF Trigger, Enqueue, github, publish, Idle, Proceeds
<1>6. ASSUME NEW r \in Runs, RerunAll(r) PROVE Idle(s) \/ Proceeds(s)
  BY <1>6 DEF RerunAll, Enqueue, github, publish, Idle, Proceeds
<1>7. ASSUME NEW r \in Runs, RerunPublish(r) PROVE Idle(s) \/ Proceeds(s)
  BY <1>7 DEF RerunPublish, github, publish, Idle, Proceeds
<1>8. ASSUME NEW r \in Runs, Crash(r) PROVE Idle(s) \/ Proceeds(s)
  BY <1>8 DEF Crash, Fail, End, github, publish, Idle, Proceeds
<1>9. ASSUME NEW r \in Runs, Resolve(r) PROVE Idle(s) \/ Proceeds(s)
  BY <1>9 DEF Resolve, github, publish, Idle, Proceeds
<1>10. ASSUME NEW r \in Runs, ResolveFails(r) PROVE Idle(s) \/ Proceeds(s)
  BY <1>10 DEF ResolveFails, Fail, End, github, publish, Idle, Proceeds
<1>11. ASSUME NEW r \in Runs, Freeze(r) PROVE Idle(s) \/ Proceeds(s)
  BY <1>11 DEF Freeze, FrozenHeadOk, github, publish, Idle, Proceeds
<1>12. ASSUME NEW r \in Runs, FreezeFails(r) PROVE Idle(s) \/ Proceeds(s)
  BY <1>12 DEF FreezeFails, Fail, End, github, publish, Idle, Proceeds
<1>13. ASSUME NEW r \in Runs, KeepPin(r) PROVE Idle(s) \/ Proceeds(s)
  BY <1>13 DEF KeepPin, Pinned, github, publish, Idle, Proceeds
<1>14. ASSUME NEW r \in Runs, PushPin(r) PROVE Idle(s) \/ Proceeds(s)
  BY <1>14 DEF PushPin, github, publish, Idle, Proceeds
<1>15. ASSUME NEW r \in Runs, PushFails(r) PROVE Idle(s) \/ Proceeds(s)
  BY <1>15 DEF PushFails, Fail, End, github, publish, Idle, Proceeds
<1>16. ASSUME NEW r \in Runs, ConfirmMain(r) PROVE Idle(s) \/ Proceeds(s)
  BY <1>16 DEF ConfirmMain, github, publish, Idle, Proceeds
<1>17. ASSUME NEW r \in Runs, ConfirmFails(r) PROVE Idle(s) \/ Proceeds(s)
  BY <1>17 DEF ConfirmFails, Fail, End, github, publish, Idle, Proceeds
<1>18. ASSUME NEW r \in Runs, Recover(r) PROVE Idle(s) \/ Proceeds(s)
  BY <1>18 DEF Recover, Goto, github, publish, Idle, Proceeds
<1>19. ASSUME NEW r \in Runs, PlanCreate(r) PROVE Idle(s) \/ Proceeds(s)
  BY <1>19 DEF PlanCreate, Goto, github, publish, Idle, Proceeds
<1>20. ASSUME NEW r \in Runs, PlanReuse(r) PROVE Idle(s) \/ Proceeds(s)
  BY <1>20 DEF PlanReuse, Goto, github, publish, Idle, Proceeds
<1>21. ASSUME NEW r \in Runs, ListFails(r) PROVE Idle(s) \/ Proceeds(s)
  BY <1>21 DEF ListFails, Fail, End, github, publish, Idle, Proceeds
<1>22. ASSUME NEW r \in Runs, CreateDraft(r) PROVE Idle(s) \/ Proceeds(s)
  BY <1>22 DEF CreateDraft, Goto, github, publish, Idle, Proceeds
<1>23. ASSUME NEW r \in Runs, ReconcileDraft(r) PROVE Idle(s) \/ Proceeds(s)
  BY <1>23 DEF ReconcileDraft, Goto, Update, github, publish, Idle, Proceeds
<1>24. ASSUME NEW r \in Runs, DeleteAsset(r) PROVE Idle(s) \/ Proceeds(s)
  BY <1>24 DEF DeleteAsset, Goto, Update, github, publish, Idle, Proceeds
<1>25. ASSUME NEW r \in Runs, DeletesDone(r) PROVE Idle(s) \/ Proceeds(s)
  BY <1>25 DEF DeletesDone, Goto, github, publish, Idle, Proceeds
<1>26. ASSUME NEW r \in Runs, SelectUpload(r) PROVE Idle(s) \/ Proceeds(s)
  BY <1>26 DEF SelectUpload, Goto, github, publish, Idle, Proceeds
<1>27. ASSUME NEW r \in Runs, UploadAsset(r) PROVE Idle(s) \/ Proceeds(s)
  BY <1>27, ZenonT(30) DEF UploadAsset, Goto, Update, github, publish, Idle, Proceeds
<1>28. ASSUME NEW r \in Runs, UploadsDone(r) PROVE Idle(s) \/ Proceeds(s)
  BY <1>28 DEF UploadsDone, github, publish, Idle, Proceeds
<1>29. ASSUME NEW r \in Runs, PollReady(r) PROVE Idle(s) \/ Proceeds(s)
  BY <1>29 DEF PollReady, Goto, github, publish, Idle, Proceeds
<1>30. ASSUME NEW r \in Runs, PollAgain(r) PROVE Idle(s) \/ Proceeds(s)
  BY <1>30 DEF PollAgain, github, publish, Idle, Proceeds
<1>31. ASSUME NEW r \in Runs, PollGivesUp(r) PROVE Idle(s) \/ Proceeds(s)
  BY <1>31 DEF PollGivesUp, Fail, End, github, publish, Idle, Proceeds
<1>32. ASSUME NEW r \in Runs, PollFails(r) PROVE Idle(s) \/ Proceeds(s)
  BY <1>32 DEF PollFails, Fail, End, github, publish, Idle, Proceeds
<1>33. ASSUME NEW r \in Runs, PublishDraft(r) PROVE Idle(s) \/ Proceeds(s)
  BY <1>33 DEF PublishDraft, Goto, Update, github, publish, Idle, Proceeds
<1>34. ASSUME NEW r \in Runs, FinalVerify(r) PROVE Idle(s) \/ Proceeds(s)
  BY <1>34 DEF FinalVerify, End, github, publish, Idle, Proceeds
<1> QED
  BY <1>1, <1>2, <1>3, <1>4, <1>5, <1>6, <1>7, <1>8, <1>9, <1>10, <1>11, <1>12, <1>13,
     <1>14, <1>15, <1>16, <1>17, <1>18, <1>19, <1>20, <1>21, <1>22, <1>23, <1>24, <1>25,
     <1>26, <1>27, <1>28, <1>29, <1>30, <1>31, <1>32, <1>33, <1>34 DEF Next, Step

(* What a job's candidate consists of does not change while it publishes.  *)
LEMMA CandidateStays ==
    ASSUME Typed, HeadInv, [Next]_vars, NEW s \in Runs, pc[s] # "none",
           event'[s] = event[s], out'[s] = out[s], wrapper'[s] = wrapper[s]
    PROVE  CandidateAssets(s)' = CandidateAssets(s) /\ RunTag(s)' = RunTag(s)
<1>1. event[s] \in 1..Len(main)
  BY DEF HeadInv, HeadOf, Typed, RefsOK, MainOK
<1>2. main'[event[s]] = main[event[s]]
  BY <1>1, MainStep DEF Typed
<1> QED
  BY <1>2 DEF CandidateAssets, Expected, Content, RunTag, Tag

(* A release list only misses drafts.                                      *)
LEMMA ListsMissDrafts ==
    ASSUME NEW r \in Runs, NEW list \in Lists(r), NEW tag
    PROVE  list \subseteq releases /\ PublishedOf(list, tag) = PublishedOf(releases, tag)
BY DEF Lists, PublishedOf, DraftsOf

Fills(s) ==
    \/ PlanCreate(s) \/ PlanReuse(s)
    \/ CreateDraft(s) \/ ReconcileDraft(s) \/ DeleteAsset(s) \/ DeletesDone(s)
    \/ SelectUpload(s) \/ UploadAsset(s) \/ UploadsDone(s)
    \/ PollReady(s) \/ PollAgain(s)

(* No step makes the draft that a job works on public, or the job's tag    *)
(* point elsewhere, before the job itself does.                            *)
LEMMA DraftStep ==
    ASSUME Typed, OnePublisher, HeadInv, DraftInv, [Next]_vars
    PROVE  DraftInv'
<1> SUFFICES ASSUME NEW s \in Runs, pc'[s] \in Drafting PROVE DraftOf(s)'
  BY DEF DraftInv, DraftOf, Drafting
<1>1. pc \in [Runs -> Locations] /\ target \in [Runs -> 0..lastId]
  BY DEF Typed, JobsOK, RefsOK
<1>2. Idle(s) \/ Fills(s)
  <2>1. Idle(s) \/ Proceeds(s)
    BY PublisherSteps DEF Typed, Drafting, PublishSteps
  <2>2. ASSUME \/ Freeze(s) \/ KeepPin(s) \/ PushPin(s) \/ ConfirmMain(s)
               \/ Recover(s) \/ PublishDraft(s)
        PROVE  pc'[s] \notin Drafting
    BY <1>1, <2>2 DEF Drafting, Freeze, KeepPin, PushPin, ConfirmMain, Recover, PublishDraft,
       Goto
  <2> QED
    BY <2>1, <2>2 DEF Proceeds, Fills
<1>3. /\ pc[s] # "none" /\ event'[s] = event[s] /\ out'[s] = out[s] /\ wrapper'[s] = wrapper[s]
  BY <1>2 DEF Idle, Fills, Drafting, PlanCreate, PlanReuse, CreateDraft, ReconcileDraft,
     DeleteAsset,
              DeletesDone, SelectUpload, UploadAsset, UploadsDone, PollReady, PollAgain, Goto
<1>4. CandidateAssets(s)' = CandidateAssets(s) /\ RunTag(s)' = RunTag(s)
  BY <1>3, CandidateStays
<1>5. DraftOf(s)
  BY DEF DraftInv
<1>6. \A p, q \in releases : p.id = q.id => p = q
  BY DEF Typed, ReleasesOK
<1>7. CASE Idle(s)
  BY <1>3, <1>4, <1>5, <1>7 DEF Idle, DraftOf
<1>8. CASE PlanCreate(s)
  <2>1. pc'[s] = "create" /\ UNCHANGED <<releases, gitTags>>
    BY <1>1, <1>8 DEF PlanCreate, Goto, github
  <2>2. PublishedOf(releases, RunTag(s)) = {} /\ TagIsOrMissing(gitTags, RunTag(s), wrapper[s])
    BY <1>8, ListsMissDrafts DEF PlanCreate, Preparable, PlanAllowed
  <2> QED
    BY <1>3, <1>4, <2>1, <2>2 DEF DraftOf
<1>9. CASE PlanReuse(s)
  <2>1. PICK list \in Lists(s) :
          /\ Preparable(s, list)
          /\ \E d \in DraftsOf(list, RunTag(s)) : target' = [target EXCEPT ![s] = d.id]
    BY <1>9 DEF PlanReuse
  <2>2. PublishedOf(releases, RunTag(s)) = {} /\ TagIsOrMissing(gitTags, RunTag(s), wrapper[s])
    BY <2>1, ListsMissDrafts DEF Preparable, PlanAllowed
  <2>3. PICK d \in releases : d.tag = RunTag(s) /\ target'[s] = d.id
    BY <1>1, <2>1, ListsMissDrafts DEF DraftsOf
  <2>4. pc'[s] = "reconcile" /\ UNCHANGED <<releases, gitTags>>
    BY <1>1, <1>9 DEF PlanReuse, Goto, github
  <2> QED
    BY <1>3, <1>4, <1>6, <2>2, <2>3, <2>4 DEF DraftOf
<1>10. CASE CreateDraft(s)
  <2>1. /\ pc[s] = "create" /\ pc'[s] = "select" /\ gitTags' = gitTags
        /\ \E d : d.draft /\ releases' = releases \cup {d}
    <3> DEFINE d == [id |-> lastId', tag |-> RunTag(s), target |-> wrapper[s],
                     draft |-> TRUE, assets |-> <<>>]
    <3>1. d.draft
      OBVIOUS
    <3>2. releases' = releases \cup {d}
      BY <1>10 DEF CreateDraft
    <3> HIDE DEF d
    <3>3. \E x : x.draft /\ releases' = releases \cup {x}
      BY <3>1, <3>2
    <3> QED
      BY <1>1, <1>10, <3>3 DEF CreateDraft, Goto
  <2>2. PublishedOf(releases', RunTag(s)) = PublishedOf(releases, RunTag(s))
    BY <2>1 DEF PublishedOf
  <2> QED
    BY <1>3, <1>4, <1>5, <2>1, <2>2 DEF DraftOf, Drafting
<1>11. ASSUME NEW d \in releases, NEW e, d.id = target[s], e.id = d.id, e.tag = d.tag,
              d.tag = RunTag(s) /\ d.draft => e.draft, Update(d, e), gitTags' = gitTags, target' = target,
              pc[s] \in {"reconcile", "delete", "upload"}, pc'[s] \in {"delete", "upload"}
       PROVE  DraftOf(s)'
  <2>1. d.tag = RunTag(s) /\ PublishedOf(releases, RunTag(s)) = {}
        /\ TagIsOrMissing(gitTags, RunTag(s), wrapper[s])
    BY <1>5, <1>11 DEF DraftOf, Drafting
  <2>2. e.draft
    BY <1>11, <2>1 DEF PublishedOf
  <2>3. \A p \in releases' : (p \in releases /\ p # d) \/ p = e
    BY <1>11 DEF Update
  <2>4. PublishedOf(releases', RunTag(s)) = {}
    BY <2>1, <2>2, <2>3 DEF PublishedOf
  <2>5. \A p \in releases' : p.id = target[s] => p.tag = RunTag(s)
    BY <1>6, <1>11, <2>1, <2>3
  <2> QED
    BY <1>3, <1>4, <1>11, <2>1, <2>4, <2>5 DEF DraftOf
<1>12. \A d \in releases : d = [id |-> d.id, tag |-> d.tag, target |-> d.target,
                                draft |-> d.draft, assets |-> d.assets]
  BY DEF Typed, ReleasesOK, IsRelease
<1>13. CASE ReconcileDraft(s)
  <2>1. PICK d \in releases : d.id = target[s] /\ Update(d, [d EXCEPT !.draft = TRUE])
    BY <1>13 DEF ReconcileDraft
  <2>2. \A b : [d EXCEPT !.draft = b] = [id |-> d.id, tag |-> d.tag, target |-> d.target,
                                         draft |-> b, assets |-> d.assets]
    BY <1>12
  <2> DEFINE e == [id |-> d.id, tag |-> d.tag, target |-> d.target, draft |-> TRUE, assets |-> d.assets]
  <2>3. Update(d, e) /\ e.id = d.id /\ e.tag = d.tag /\ e.draft
    BY <2>1, <2>2
  <2> HIDE DEF e
  <2>4. pc[s] = "reconcile" /\ pc'[s] = "delete" /\ gitTags' = gitTags /\ target' = target
    BY <1>1, <1>13 DEF ReconcileDraft, Goto
  <2> QED
    BY <1>11, <2>1, <2>3, <2>4
<1>14. CASE DeleteAsset(s)
  <2>1. PICK n \in todo[s], d \in releases :
          d.id = target[s] /\ Update(d, [d EXCEPT !.assets = Restrict(@, DOMAIN @ \ {n})])
    BY <1>14 DEF DeleteAsset
  <2> DEFINE e == [d EXCEPT !.assets = Restrict(@, DOMAIN @ \ {n})]
  <2>2. e.id = d.id /\ e.tag = d.tag /\ e.draft = d.draft
    BY <1>12
  <2> HIDE DEF e
  <2>3. Update(d, e)
    BY <2>1 DEF e
  <2>4. pc[s] = "delete" /\ pc'[s] = "delete" /\ gitTags' = gitTags /\ target' = target
    BY <1>1, <1>14 DEF DeleteAsset, Goto
  <2> QED
    BY <1>11, <2>1, <2>2, <2>3, <2>4
<1>15. CASE UploadAsset(s)
  <2>1. PICK n \in todo[s], d \in releases :
          /\ d.id = target[s]
          /\ Update(d, [d EXCEPT !.assets = [m \in DOMAIN @ \cup {n} |->
                                        IF m = n THEN CandidateAssets(s)[n] ELSE @[m]]])
    BY <1>15 DEF UploadAsset
  <2> DEFINE e == [d EXCEPT !.assets = [m \in DOMAIN @ \cup {n} |->
                                        IF m = n THEN CandidateAssets(s)[n] ELSE @[m]]]
  <2>2. e.id = d.id /\ e.tag = d.tag /\ e.draft = d.draft
    BY <1>12
  <2> HIDE DEF e
  <2>3. Update(d, e)
    BY <2>1 DEF e
  <2>4. pc[s] = "upload" /\ pc'[s] = "upload" /\ gitTags' = gitTags /\ target' = target
    BY <1>1, <1>15 DEF UploadAsset, Goto
  <2> QED
    BY <1>11, <2>1, <2>2, <2>3, <2>4
<1>16. CASE DeletesDone(s) \/ UploadsDone(s)
  <2>1. /\ pc[s] \in {"delete", "upload"} /\ pc'[s] \in {"select", "poll"}
        /\ UNCHANGED <<releases, gitTags>>
    BY <1>1, <1>16 DEF DeletesDone, UploadsDone, Goto, github
  <2> QED
    BY <1>3, <1>4, <1>5, <2>1 DEF DraftOf, Drafting
<1>17. CASE PollAgain(s)
  BY <1>3, <1>4, <1>5, <1>17 DEF PollAgain, github, DraftOf
<1>18. CASE SelectUpload(s)
  <2>1. /\ pc[s] = "select" /\ pc'[s] = "upload" /\ UNCHANGED <<releases, gitTags>>
        /\ \E d \in releases : d.tag = RunTag(s) /\ target'[s] = d.id
    BY <1>1, <1>18 DEF SelectUpload, Goto, github, PublishedOf, DraftsOf
  <2>2. \A d \in releases' : d.id = target'[s] => d.tag = RunTag(s)'
    BY <1>4, <1>6, <2>1
  <2> QED
    BY <1>3, <1>4, <1>5, <2>1, <2>2 DEF DraftOf, Drafting
<1>19. CASE PollReady(s)
  <2>1. PICK list \in Lists(s), d \in releases :
          /\ ReadyDraft(list, RunTag(s), wrapper[s], Expected(s), d)
          /\ d.assets = CandidateAssets(s)
          /\ target' = [target EXCEPT ![s] = d.id]
    BY <1>19 DEF PollReady
  <2>2. d.tag = RunTag(s) /\ d.target = wrapper[s] /\ target'[s] = d.id
    BY <1>1, <2>1 DEF ReadyDraft, PlanAllowed, DraftsOf
  <2>3. pc[s] = "poll" /\ pc'[s] = "flip" /\ UNCHANGED <<releases, gitTags>>
    BY <1>1, <1>19 DEF PollReady, Goto, github
  <2> QED
    BY <1>3, <1>4, <1>5, <1>6, <2>1, <2>2, <2>3 DEF DraftOf, Drafting
<1> QED
  BY <1>2, <1>7, <1>8, <1>9, <1>10, <1>13, <1>14, <1>15, <1>16, <1>17, <1>18, <1>19 DEF Fills

-----------------------------------------------------------------------------
(* What is public.                                                         *)

(* The one change of the public releases: a run's draft, which holds its   *)
(* candidate, becomes public.                                              *)
Flips(r, d, e) ==
    /\ PublishDraft(r) /\ d.id = target[r] /\ d.tag = RunTag(r)
    /\ d.assets = CandidateAssets(r) /\ d.target = wrapper[r]
    /\ e = [id |-> d.id, tag |-> d.tag, target |-> d.target, draft |-> FALSE, assets |-> d.assets]
    /\ releases' = (releases \ {d}) \cup {e}
    /\ Public' = Public \cup {e}
    /\ gitTags' = IF TagRefs(gitTags, d.tag) # {} THEN gitTags
                  ELSE gitTags \cup {[tag |-> d.tag, commit |-> d.target]}

(* A job's flip makes its draft public as it is.                           *)
LEMMA FlipStep ==
    ASSUME Typed, DraftInv, NEW r \in Runs, PublishDraft(r)
    PROVE  \E d \in releases : \E e : Flips(r, d, e)
<1>1. PICK d \in releases :
        /\ d.id = target[r]
        /\ Update(d, [d EXCEPT !.draft = FALSE])
        /\ gitTags' = IF TagRefs(gitTags, d.tag) # {} THEN gitTags
                      ELSE gitTags \cup {[tag |-> d.tag, commit |-> d.target]}
  BY DEF PublishDraft
<1>2. \A b : [d EXCEPT !.draft = b] = [id |-> d.id, tag |-> d.tag, target |-> d.target,
                                       draft |-> b, assets |-> d.assets]
  BY DEF Typed, ReleasesOK, IsRelease
<1> DEFINE e == [id |-> d.id, tag |-> d.tag, target |-> d.target, draft |-> FALSE, assets |-> d.assets]
<1>3. releases' = (releases \ {d}) \cup {e}
  BY <1>1, <1>2 DEF Update
<1>4. pc[r] = "flip"
  BY DEF PublishDraft
<1>5. /\ d.tag = RunTag(r) /\ PublishedOf(releases, RunTag(r)) = {}
      /\ d.assets = CandidateAssets(r) /\ d.target = wrapper[r]
  BY <1>1, <1>4 DEF DraftInv, DraftOf, Drafting
<1>6. d.draft /\ ~e.draft
  BY <1>5 DEF PublishedOf
<1>7. Public' = Public \cup {e}
  <2> HIDE DEF e
  <2> QED
    BY <1>3, <1>6 DEF Public
<1>8. Flips(r, d, e)
  BY <1>1, <1>3, <1>5, <1>7 DEF Flips
<1> QED
  BY <1>8

(* Every other step leaves the public releases alone.                      *)
LEMMA PublicStep ==
    ASSUME Typed, DraftInv, [Next]_vars
    PROVE  \/ UNCHANGED <<Public, gitTags>>
           \/ \E r \in Runs, d \in releases : \E e : Flips(r, d, e)
<1>1. Frame
  BY FrameOfStep
<1>2. \A d \in releases : d = [id |-> d.id, tag |-> d.tag, target |-> d.target,
                               draft |-> d.draft, assets |-> d.assets]
  BY DEF Typed, ReleasesOK, IsRelease
<1>3. \A p, q \in releases : p.id = q.id => p = q
  BY DEF Typed, ReleasesOK
<1>4. CASE releases' = releases /\ gitTags' = gitTags
  BY <1>4 DEF Public
<1>5. ASSUME NEW r \in Runs, CreateDraft(r) PROVE UNCHANGED <<Public, gitTags>>
  <2> DEFINE d == [id |-> lastId', tag |-> RunTag(r), target |-> wrapper[r],
                   draft |-> TRUE, assets |-> <<>>]
  <2>1. d.draft
    OBVIOUS
  <2>2. releases' = releases \cup {d} /\ gitTags' = gitTags
    BY <1>5 DEF CreateDraft
  <2> HIDE DEF d
  <2> QED
    BY <2>1, <2>2 DEF Public
<1>6. ASSUME NEW r \in Runs, pc[r] \in {"reconcile", "delete", "upload"}, NEW d \in releases, NEW e,
             d.id = target[r], Update(d, e), d.draft => e.draft, gitTags' = gitTags
      PROVE  UNCHANGED <<Public, gitTags>>
  <2>1. d.tag = RunTag(r) /\ PublishedOf(releases, RunTag(r)) = {}
    BY <1>6 DEF DraftInv, DraftOf, Drafting
  <2>2. d.draft
    BY <2>1 DEF PublishedOf
  <2> QED
    BY <1>6, <2>2 DEF Public, Update
<1>7. ASSUME NEW r \in Runs, ReconcileDraft(r) PROVE UNCHANGED <<Public, gitTags>>
  <2>1. PICK d \in releases : d.id = target[r] /\ Update(d, [d EXCEPT !.draft = TRUE])
    BY <1>7 DEF ReconcileDraft
  <2>2. \A b : [d EXCEPT !.draft = b] = [id |-> d.id, tag |-> d.tag, target |-> d.target,
                                         draft |-> b, assets |-> d.assets]
    BY <1>2
  <2> DEFINE e == [id |-> d.id, tag |-> d.tag, target |-> d.target, draft |-> TRUE, assets |-> d.assets]
  <2>3. Update(d, e) /\ e.draft
    BY <2>1, <2>2
  <2> HIDE DEF e
  <2>4. pc[r] = "reconcile" /\ gitTags' = gitTags
    BY <1>7 DEF ReconcileDraft
  <2> QED
    BY <1>6, <2>1, <2>3, <2>4
<1>8. ASSUME NEW r \in Runs, DeleteAsset(r) PROVE UNCHANGED <<Public, gitTags>>
  <2>1. PICK n \in todo[r], d \in releases :
          d.id = target[r] /\ Update(d, [d EXCEPT !.assets = Restrict(@, DOMAIN @ \ {n})])
    BY <1>8 DEF DeleteAsset
  <2> DEFINE e == [d EXCEPT !.assets = Restrict(@, DOMAIN @ \ {n})]
  <2>2. e.draft = d.draft
    BY <1>2
  <2> HIDE DEF e
  <2>3. Update(d, e)
    BY <2>1 DEF e
  <2>4. pc[r] = "delete" /\ gitTags' = gitTags
    BY <1>8 DEF DeleteAsset
  <2> QED
    BY <1>6, <2>1, <2>2, <2>3, <2>4
<1>9. ASSUME NEW r \in Runs, UploadAsset(r) PROVE UNCHANGED <<Public, gitTags>>
  <2>1. PICK n \in todo[r], d \in releases :
          /\ d.id = target[r]
          /\ Update(d, [d EXCEPT !.assets = [m \in DOMAIN @ \cup {n} |->
                                        IF m = n THEN CandidateAssets(r)[n] ELSE @[m]]])
    BY <1>9 DEF UploadAsset
  <2> DEFINE e == [d EXCEPT !.assets = [m \in DOMAIN @ \cup {n} |->
                                        IF m = n THEN CandidateAssets(r)[n] ELSE @[m]]]
  <2>2. e.draft = d.draft
    BY <1>2
  <2> HIDE DEF e
  <2>3. Update(d, e)
    BY <2>1 DEF e
  <2>4. pc[r] = "upload" /\ gitTags' = gitTags
    BY <1>9 DEF UploadAsset
  <2> QED
    BY <1>6, <2>1, <2>2, <2>3, <2>4
<1>10. ASSUME NEW r \in Runs, PublishDraft(r)
       PROVE  \E d \in releases : \E e : Flips(r, d, e)
  BY <1>10, FlipStep
<1> QED
  BY <1>1, <1>4, <1>5, <1>7, <1>8, <1>9, <1>10 DEF Frame

(* GitHub's tag after the flip is the wrapper commit.                      *)
LEMMA FlipTag ==
    ASSUME NEW r \in Runs, DraftOf(r), NEW d, NEW e, Flips(r, d, e)
    PROVE  TagIs(gitTags', RunTag(r), wrapper[r])
<1>1. pc[r] = "flip"
  BY DEF Flips, PublishDraft
<1>2. TagIsOrMissing(gitTags, RunTag(r), wrapper[r])
  BY <1>1 DEF DraftOf, Drafting
<1>3. CASE TagRefs(gitTags, RunTag(r)) # {}
  BY <1>2, <1>3 DEF Flips, TagIsOrMissing
<1>4. CASE TagRefs(gitTags, RunTag(r)) = {}
  <2> DEFINE g == [tag |-> RunTag(r), commit |-> wrapper[r]]
  <2>1. gitTags' = gitTags \cup {g}
    BY <1>4 DEF Flips
  <2>2. g.tag = RunTag(r)
    OBVIOUS
  <2>3. TagIs(gitTags', RunTag(r), wrapper[r]) = (TagRefs(gitTags', RunTag(r)) = {g})
    BY DEF TagIs
  <2> HIDE DEF g
  <2> QED
    BY <1>4, <2>1, <2>2, <2>3 DEF TagRefs
<1> QED
  BY <1>3, <1>4

(* A tag that points to one commit goes on doing so.                       *)
LEMMA TagStays ==
    ASSUME Typed, DraftInv, [Next]_vars, NEW tag, NEW commit, TagIs(gitTags, tag, commit)
    PROVE  TagIs(gitTags', tag, commit)
<1>1. TagRefs(gitTags, tag) # {}
  BY DEF TagIs
<1>2. ASSUME NEW r \in Runs, NEW d, NEW e, Flips(r, d, e), gitTags' # gitTags
      PROVE  TagRefs(gitTags', tag) = TagRefs(gitTags, tag)
  <2> DEFINE g == [tag |-> d.tag, commit |-> d.target]
  <2>1. TagRefs(gitTags, d.tag) = {} /\ gitTags' = gitTags \cup {g} /\ g.tag = d.tag
    BY <1>2 DEF Flips
  <2>2. d.tag # tag
    BY <1>1, <2>1
  <2> HIDE DEF g
  <2> QED
    BY <2>1, <2>2 DEF TagRefs
<1> QED
  BY <1>2, PublicStep DEF TagIs

(* A release becomes public with the sources and the pin of its commit.    *)
LEMMA CompleteStep ==
    ASSUME Typed, HeadInv, DraftInv, PublicIsComplete, [Next]_vars
    PROVE  PublicIsComplete'
<1>1. /\ Len(main) <= Len(main') /\ \A i \in 1..Len(main) : main'[i] = main[i]
  BY MainStep DEF Typed
<1>2. ASSUME NEW p \in Public
      PROVE  /\ p.assets = [n \in AssetNames[p.tag.family] |->
                               Content(p.target, p.tag.up, p.target, n)']
             /\ main'[p.target].pin[p.tag.family] = p.tag.up
             /\ TagIs(gitTags', p.tag, p.target)
  <2>1. p.target \in 1..Len(main)
    BY DEF Public, Typed, ReleasesOK, IsRelease
  <2>2. main'[p.target] = main[p.target]
    BY <1>1, <2>1
  <2>3. \A n : Content(p.target, p.tag.up, p.target, n)' = Content(p.target, p.tag.up, p.target, n)
    BY <2>2 DEF Content
  <2>4. TagIs(gitTags', p.tag, p.target)
    BY TagStays DEF PublicIsComplete
  <2> QED
    BY <2>2, <2>3, <2>4 DEF PublicIsComplete
<1>3. ASSUME NEW r \in Runs, NEW d \in releases, NEW e, Flips(r, d, e)
      PROVE  /\ e.assets = [n \in AssetNames[e.tag.family] |->
                               Content(e.target, e.tag.up, e.target, n)']
             /\ main'[e.target].pin[e.tag.family] = e.tag.up
             /\ TagIs(gitTags', e.tag, e.target)
  <2>1. /\ e.tag = RunTag(r) /\ e.target = wrapper[r] /\ e.assets = CandidateAssets(r)
        /\ pc[r] = "flip"
    BY <1>3 DEF Flips, PublishDraft
  <2>2. /\ wrapper[r] > 0 /\ event[r] > 0
        /\ main[wrapper[r]].src = main[event[r]].src
        /\ main[wrapper[r]].pin[FamilyOf[r]] = out[r].up
    BY <2>1 DEF HeadInv, HeadOf, PublishSteps
  <2>3. wrapper[r] \in 1..Len(main) /\ event[r] \in 1..Len(main)
    BY <2>2 DEF Typed, RefsOK, MainOK
  <2>4. main'[wrapper[r]] = main[wrapper[r]]
    BY <1>1, <2>3
  <2>5. RunTag(r).family = FamilyOf[r] /\ RunTag(r).up = out[r].up
    BY DEF RunTag, Tag
  <2>6. /\ e.target = wrapper[r] /\ e.tag.family = FamilyOf[r] /\ e.tag.up = out[r].up
        /\ main'[e.target].src = main[event[r]].src
    BY <2>1, <2>2, <2>4, <2>5
  <2>7. \A n : Content(e.target, e.tag.up, e.target, n)'
               = Content(event[r], out[r].up, wrapper[r], n)
    BY <2>6 DEF Content
  <2>8. e.assets = [n \in AssetNames[e.tag.family] |-> Content(e.target, e.tag.up, e.target, n)']
    BY <2>1, <2>6, <2>7 DEF CandidateAssets, Expected
  <2>9. TagIs(gitTags', RunTag(r), wrapper[r])
    BY <1>3, FlipTag DEF DraftInv
  <2> QED
    BY <2>1, <2>2, <2>4, <2>6, <2>8, <2>9
<1>4. \A p \in Public' : p \in Public \/ \E r \in Runs, d \in releases : Flips(r, d, p)
  BY PublicStep DEF Flips
<1> QED
  BY <1>2, <1>3, <1>4 DEF PublicIsComplete

(* A tag of a draft that becomes public was not public.                    *)
LEMMA OnePublicStep ==
    ASSUME Typed, DraftInv, OnePublicPerTag, [Next]_vars
    PROVE  OnePublicPerTag'
<1>1. ASSUME NEW r \in Runs, NEW d \in releases, NEW e, Flips(r, d, e)
      PROVE  \A p \in Public : p.tag # e.tag
  <2>1. e.tag = RunTag(r) /\ pc[r] = "flip"
    BY <1>1 DEF Flips, PublishDraft
  <2>2. PublishedOf(releases, RunTag(r)) = {}
    BY <2>1 DEF DraftInv, DraftOf, Drafting
  <2> QED
    BY <2>1, <2>2 DEF Public, PublishedOf
<1>2. CASE UNCHANGED Public
  BY <1>2 DEF OnePublicPerTag
<1>3. ASSUME NEW r \in Runs, NEW d \in releases, NEW e, Flips(r, d, e)
      PROVE  OnePublicPerTag'
  <2>1. Public' = Public \cup {e}
    BY <1>3 DEF Flips
  <2> QED
    BY <1>1, <1>3, <2>1 DEF OnePublicPerTag
<1> QED
  BY <1>2, <1>3, PublicStep

(* What the job verifies after publication is what it has just made public *)
(* or, on recovery, has just verified.                                     *)
LEMMA FinalStep ==
    ASSUME Typed, OnePublisher, HeadInv, DraftInv, FinalNeverFails, [Next]_vars
    PROVE  FinalNeverFails'
<1> SUFFICES ASSUME NEW s \in Runs, pc'[s] = "final" PROVE FinalOk(s)'
  BY DEF FinalNeverFails
<1>1. pc \in [Runs -> Locations] /\ target \in [Runs -> 0..lastId]
  BY DEF Typed, JobsOK, RefsOK
<1>2. Idle(s) \/ Recover(s) \/ PublishDraft(s)
  <2>1. Idle(s) \/ Proceeds(s)
    BY PublisherSteps DEF Typed, PublishSteps
  <2>2. ASSUME \/ Freeze(s) \/ KeepPin(s) \/ PushPin(s) \/ ConfirmMain(s) \/ PlanCreate(s) \/ PlanReuse(s)
               \/ CreateDraft(s) \/ ReconcileDraft(s) \/ DeleteAsset(s) \/ DeletesDone(s)
               \/ SelectUpload(s) \/ UploadAsset(s) \/ UploadsDone(s) \/ PollReady(s) \/ PollAgain(s)
        PROVE  pc'[s] # "final"
    BY <1>1, <2>2 DEF Freeze, KeepPin, PushPin, ConfirmMain, PlanCreate, PlanReuse, CreateDraft,
       ReconcileDraft, DeleteAsset, DeletesDone, SelectUpload, UploadAsset, UploadsDone, PollReady,
       PollAgain, Goto
  <2> QED
    BY <2>1, <2>2 DEF Proceeds
<1>3. /\ pc[s] # "none" /\ event'[s] = event[s] /\ out'[s] = out[s] /\ wrapper'[s] = wrapper[s]
  BY <1>2 DEF Idle, Recover, PublishDraft, Goto
<1>4. CandidateAssets(s)' = CandidateAssets(s) /\ RunTag(s)' = RunTag(s)
  BY <1>3, CandidateStays
<1>5. ASSUME NEW p \in releases, PublishedOk(s, p), p.id = target'[s], UNCHANGED <<releases, gitTags>>
      PROVE  FinalOk(s)'
  BY <1>3, <1>4, <1>5 DEF FinalOk, PublishedOk
<1>6. CASE Idle(s)
  <2>1. pc[s] = "final" /\ target'[s] = target[s] /\ UNCHANGED <<releases, gitTags>>
    BY <1>6 DEF Idle
  <2>2. PICK p \in releases : p.id = target[s] /\ PublishedOk(s, p)
    BY <2>1 DEF FinalNeverFails, FinalOk
  <2> QED
    BY <1>5, <2>1, <2>2
<1>7. CASE Recover(s)
  <2>1. PICK list \in Lists(s) :
          /\ Recoverable(s, list)
          /\ \E p \in PublishedOf(list, RunTag(s)) : target' = [target EXCEPT ![s] = p.id]
    BY <1>7 DEF Recover
  <2>2. PICK p \in PublishedOf(list, RunTag(s)) : target' = [target EXCEPT ![s] = p.id]
    BY <2>1
  <2>3. p \in releases /\ PublishedOk(s, p) /\ target'[s] = p.id
    BY <1>1, <2>1, <2>2, ListsMissDrafts DEF Recoverable, PublishedOf
  <2>4. UNCHANGED <<releases, gitTags>>
    BY <1>7 DEF Recover, github
  <2> QED
    BY <1>5, <2>3, <2>4
<1>8. CASE PublishDraft(s)
  <2>1. PICK d \in releases : \E x : Flips(s, d, x)
    BY <1>8, FlipStep
  <2>2. PICK e : Flips(s, d, e)
    BY <2>1
  <2>3. /\ e \in releases' /\ ~e.draft /\ e.id = target[s] /\ e.tag = RunTag(s)
        /\ e.target = wrapper[s] /\ e.assets = CandidateAssets(s)
    BY <2>2 DEF Flips
  <2>4. TagIs(gitTags', RunTag(s), wrapper[s])
    BY <2>2, FlipTag DEF DraftInv
  <2>5. RunTag(s).family = FamilyOf[s] /\ RunTag(s).up = out[s].up
    BY DEF RunTag, Tag
  <2>6. /\ DOMAIN e.assets = AssetNames[FamilyOf[s]] /\ "manifest" \in DOMAIN e.assets
        /\ \A n \in DOMAIN e.assets : e.assets[n] = Content(event[s], out[s].up, wrapper[s], n)
    BY <2>3, PipelineAssumption DEF CandidateAssets, Expected
  <2>7. RemoteOk(e, wrapper[s])
    <3>1. \A n : /\ Content(event[s], out[s].up, wrapper[s], n).src = main[event[s]].src
                 /\ Content(event[s], out[s].up, wrapper[s], n).up = out[s].up
      BY DEF Content
    <3>2. Content(event[s], out[s].up, wrapper[s], "manifest").wrapper = wrapper[s]
      BY DEF Content
    <3>3. /\ \A n \in DOMAIN e.assets :
                e.assets[n].src = main[event[s]].src /\ e.assets[n].up = out[s].up
          /\ e.assets["manifest"].wrapper = wrapper[s]
      BY <2>6, <3>1, <3>2
    <3> QED
      BY <2>3, <2>5, <2>6, <3>3 DEF RemoteOk
  <2>8. target'[s] = target[s]
    BY <1>8 DEF PublishDraft
  <2> QED
    BY <1>3, <1>4, <2>3, <2>4, <2>7, <2>8 DEF FinalOk, PublishedOk, RemoteOk
<1> QED
  BY <1>2, <1>6, <1>7, <1>8

-----------------------------------------------------------------------------
(* The invariant and its theorems.                                         *)

LEMMA InitIInv == Init => IInv
<1> SUFFICES ASSUME Init PROVE IInv
  OBVIOUS
<1> USE PipelineAssumption DEF Init
<1>1. MainOK
  <2>1. [src |-> 1, pin |-> [f \in Families |-> 1]] \in Commit
    BY DEF Commit
  <2> QED
    BY <2>1 DEF MainOK
<1>2. ReleasesOK /\ RefsOK /\ TodoOK
  BY <1>1 DEF ReleasesOK, RefsOK, TodoOK, MainOK
<1>3. JobsOK /\ OutOK
  BY DEF JobsOK, OutOK, NoBuild, Locations
<1>4. OnePublisher /\ DraftInv
  BY DEF OnePublisher, PublishSteps, DraftInv, DraftOf, Drafting
<1>5. HeadInv
  BY DEF HeadInv, HeadOf, Active, BuildSteps, PublishSteps, NoBuild
<1>6. PublicIsComplete /\ FinalNeverFails /\ OnePublicPerTag
  BY DEF PublicIsComplete, FinalNeverFails, OnePublicPerTag, Public
<1> QED
  BY <1>1, <1>2, <1>3, <1>4, <1>5, <1>6 DEF IInv, Typed

LEMMA NextIInv == IInv /\ [Next]_vars => IInv'
<1> SUFFICES ASSUME IInv, [Next]_vars PROVE IInv'
  OBVIOUS
<1> USE DEF IInv
<1>1. MainOK' /\ ReleasesOK' /\ RefsOK' /\ TodoOK' /\ OutOK'
  BY MainStep, ReleasesStep, RefsStep, TodoStep, OutStep DEF Typed
<1>2. JobsOK' /\ OnePublisher'
  BY JobsStep DEF Typed
<1>3. HeadInv' /\ DraftInv'
  BY HeadStep, DraftStep
<1>4. PublicIsComplete' /\ FinalNeverFails' /\ OnePublicPerTag'
  BY CompleteStep, FinalStep, OnePublicStep
<1> QED
  BY <1>1, <1>2, <1>3, <1>4 DEF Typed

LEMMA Inductive == Spec => []IInv
<1> QED
  BY InitIInv, NextIInv, PTL DEF Spec

(* The variables keep their types: commits, releases and assets that jobs  *)
(* refer to exist, and no attempt or rerun exceeds its limit.              *)
THEOREM TypeCorrect == Spec => []TypeOK
<1>1. IInv => TypeOK
  BY DEF IInv, Typed, MainOK, ReleasesOK, IsRelease, JobsOK, OutOK, RefsOK, TodoOK, TypeOK
<1> QED
  BY <1>1, Inductive, PTL

(* Whatever the other family, developers, crashes and reruns do meanwhile, *)
(* a release is public only when complete: every asset built from the      *)
(* sources and for the pin of the commit that it, its manifest and its tag *)
(* name ("only then makes the release public", README.md:50-51).           *)
THEOREM PublicComplete == Spec => []PublicIsComplete
<1> QED
  BY Inductive, PTL DEF IInv

(* The verification after publication, which could only report a bad       *)
(* release, has nothing to report.                                         *)
THEOREM FinalHolds == Spec => []FinalNeverFails
<1> QED
  BY Inductive, PTL DEF IInv

(* A lagging release list may lead to two drafts of a tag, never to two    *)
(* public releases of it.                                                  *)
THEOREM OnePublic == Spec => []OnePublicPerTag
<1> QED
  BY Inductive, PTL DEF IInv

(* The clobbering upload, the reconciliation and the deletion of a draft   *)
(* never meet a public release: what is public stays as it is.             *)
THEOREM PublicStays == Spec => PublicIsImmutable
<1>1. IInv /\ [Next]_vars => [Public \subseteq Public']_vars
  <2> SUFFICES ASSUME IInv, [Next]_vars PROVE Public \subseteq Public'
    OBVIOUS
  <2> QED
    BY PublicStep DEF IInv, Flips
<1> QED
  BY <1>1, Inductive, PTL DEF PublicIsImmutable, Spec

-----------------------------------------------------------------------------
(* Tags of later runs.                                                     *)

(* A tag chosen once lies within the reach of its run from what is public. *)
ReservedInv ==
    \A y \in reserved :
        /\ y.run \in Runs /\ y.tag.rev \in Nat
        /\ y.tag.rev <= Epoch + y.run + Max(PublicRevisions(y.tag.family, y.tag.up))

LEMMA ReservedStep ==
    ASSUME IInv, ReservedInv, [Next]_vars
    PROVE  /\ ReservedInv'
           /\ \A x \in reserved' \ reserved, y \in reserved : y.tag = x.tag => y.run >= x.run
<1> USE PipelineAssumption
<1>1. ReleasesOK /\ ReleasesOK'
  BY NextIInv DEF IInv, Typed
<1>2. ASSUME NEW f, NEW up
      PROVE  /\ Max(PublicRevisions(f, up)) \in Nat /\ Max(PublicRevisions(f, up)') \in Nat
             /\ Max(PublicRevisions(f, up)) <= Max(PublicRevisions(f, up)')
  <2> DEFINE S == PublicRevisions(f, up)
             T == PublicRevisions(f, up)'
             n == MaxRevision + 1
  <2>1. n \in Nat
    OBVIOUS
  <2>2. T \in SUBSET (0..n) /\ T # {}
    BY <1>1 DEF PublicRevisions, Visible, ReleasesOK, IsRelease, TagType
  <2>3. S \subseteq T
    BY PublicStep DEF IInv, Flips, PublicRevisions, Visible, Public
  <2>4. S \subseteq Nat /\ Max(S) \in S
    BY <1>1, RevisionBounds
  <2> HIDE DEF S, T, n
  <2>5. Max(T) \in T /\ \A y \in T : y <= Max(T)
    BY <2>1, <2>2, MaxOfBounded
  <2>6. T \subseteq Nat
    BY <2>1, <2>2
  <2>7. Max(S) \in Nat /\ Max(T) \in Nat /\ Max(S) <= Max(T)
    BY <2>3, <2>4, <2>5, <2>6
  <2> QED
    BY <2>7 DEF S, T
<1>3. ASSUME NEW y \in reserved
      PROVE  /\ y.run \in Runs /\ y.tag.rev \in Nat
             /\ y.tag.rev <= Epoch + y.run + Max(PublicRevisions(y.tag.family, y.tag.up)')
  <2>1. /\ Max(PublicRevisions(y.tag.family, y.tag.up)) \in Nat
        /\ Max(PublicRevisions(y.tag.family, y.tag.up)') \in Nat
        /\ Max(PublicRevisions(y.tag.family, y.tag.up)) <= Max(PublicRevisions(y.tag.family, y.tag.up)')
    BY <1>2
  <2>2. /\ y.run \in Runs /\ y.tag.rev \in Nat
        /\ y.tag.rev <= Epoch + y.run + Max(PublicRevisions(y.tag.family, y.tag.up))
    BY DEF ReservedInv
  <2>3. y.run \in Nat /\ Epoch \in Nat
    BY <2>2
  <2> QED
    BY <2>1, <2>2, <2>3
<1>4. CASE reserved' = reserved
  BY <1>3, <1>4 DEF ReservedInv
<1>5. ASSUME NEW r \in Runs, Resolve(r), reserved' # reserved
      PROVE  /\ ReservedInv'
             /\ \A x \in reserved' \ reserved, y \in reserved : y.tag = x.tag => y.run >= x.run
  <2> DEFINE f == FamilyOf[r]
  <2>1. PICK up : up = upstream[f]
    OBVIOUS
  <2>2. PICK m : m = Max(PublicRevisions(f, up)) /\ m \in Nat
    BY <1>2
  <2> DEFINE x == [run |-> r, tag |-> Tag(f, up, Epoch + r + m)]
  <2>3. ResolvedRevision(r) = Epoch + r + m
    BY <2>1, <2>2 DEF ResolvedRevision, NextRevision, PublicRevisions
  <2>4. reserved' = reserved \cup {x} /\ UNCHANGED releases
    BY <1>5, <2>1, <2>3 DEF Resolve, github
  <2>5. x.run = r /\ x.tag.family = f /\ x.tag.up = up /\ x.tag.rev = Epoch + r + m /\ r \in Nat
    BY DEF Tag
  <2>6. Max(PublicRevisions(f, up)') = m
    BY <2>2, <2>4 DEF PublicRevisions, Visible
  <2>7. ASSUME NEW y \in reserved, y.tag = x.tag PROVE y.run >= r
    <3>1. y.tag.rev <= Epoch + y.run + m /\ y.run \in Nat
      BY <2>2, <2>5, <2>7 DEF ReservedInv
    <3> QED
      BY <2>2, <2>5, <2>7, <3>1
  <2> HIDE DEF x, f
  <2>8. \A y \in reserved' : y \in reserved \/ y = x
    BY <2>4
  <2>9. x.run \in Runs /\ x.tag.rev \in Nat /\ x.tag.rev <= Epoch + x.run + m
    BY <2>2, <2>5
  <2>10. Max(PublicRevisions(x.tag.family, x.tag.up)') = m
    BY <2>5, <2>6
  <2>11. ReservedInv'
    BY <1>3, <2>8, <2>9, <2>10 DEF ReservedInv
  <2> QED
    BY <2>5, <2>7, <2>8, <2>11
<1>6. reserved' # reserved => \E r \in Runs : Resolve(r)
  BY FrameOfStep DEF Frame
<1> QED
  BY <1>4, <1>5, <1>6

(* "prevents an invisible stale draft from capturing a later run's         *)
(* candidate tag" (README.md:55-57): however many drafts a list hides, no  *)
(* run chooses a tag that a run with a smaller number chose.               *)
THEOREM TagsOfLaterRuns == Spec => LaterRunsTagIsFree
<1>1. Init => ReservedInv
  BY DEF Init, ReservedInv
<1>2. IInv /\ ReservedInv /\ [Next]_vars =>
        /\ ReservedInv'
        /\ [\A x \in reserved' \ reserved, y \in reserved : y.tag = x.tag => y.run >= x.run]_vars
  BY ReservedStep
<1> QED
  BY <1>1, <1>2, Inductive, PTL DEF LaterRunsTagIsFree, Spec

-----------------------------------------------------------------------------
(* Downgrades.                                                             *)

(* Unless upstream withdraws a release, the pins of main only grow, up to  *)
(* what upstream has, and those of a publish job's main up to its version. *)
PinInv ==
    /\ \A f \in Families :
          /\ \A i, j \in 1..Len(main) : i <= j => main[i].pin[f] <= main[j].pin[f]
          /\ main[Len(main)].pin[f] <= upstream[f]
    /\ \A r \in Runs :
          /\ pc[r] \in Active \/ out[r] # NoBuild =>
                /\ main[event[r]].pin[FamilyOf[r]] <= out[r].up
                /\ out[r].up <= upstream[FamilyOf[r]]
          /\ pc[r] \in PublishSteps => main[Len(main)].pin[FamilyOf[r]] <= out[r].up

Unbuilt == \A r \in Runs : pc[r] = "none" => out[r] = NoBuild

(* A run has built or publishes for the commit and the version that it     *)
(* resolved.                                                               *)
BuiltOf(s) ==
    /\ pc'[s] = "none" => pc[s] = "none" /\ out'[s] = out[s]
    /\ pc'[s] \in Active \/ out'[s] # NoBuild =>
          Resolve(s) \/ (/\ pc[s] \in Active \/ out[s] # NoBuild
                        /\ out'[s] = out[s] /\ event'[s] = event[s])

(* Only resolving starts a build or gives it outputs.                      *)
LEMMA BuiltStep ==
    ASSUME JobsOK, OutOK, RefsOK, Unbuilt, [Next]_vars, NEW s \in Runs
    PROVE  BuiltOf(s)
<1>a. /\ pc \in [Runs -> Locations] /\ out \in [Runs -> [up : 0..MaxUp, rev : 0..MaxRevision]]
      /\ event \in [Runs -> 0..Len(main)] /\ \A r \in Runs : pc[r] = "none" => out[r] = NoBuild
  BY DEF JobsOK, OutOK, RefsOK, Unbuilt
<1> USE <1>a DEF Active, PublishSteps, BuildSteps, Stopped
<1>1. CASE UNCHANGED vars
  BY <1>1 DEF vars, BuiltOf
<1>2. CASE DevPush
  BY <1>2 DEF DevPush, publish, BuiltOf
<1>3. ASSUME NEW f \in Families, UpstreamRelease(f) PROVE BuiltOf(s)
  BY <1>3 DEF UpstreamRelease, publish, BuiltOf
<1>4. ASSUME NEW f \in Families, UpstreamYank(f) PROVE BuiltOf(s)
  BY <1>4 DEF UpstreamYank, publish, BuiltOf
<1>5. ASSUME NEW r \in Runs, Trigger(r) PROVE BuiltOf(s)
  BY <1>5 DEF Trigger, Enqueue, github, publish, BuiltOf
<1>6. ASSUME NEW r \in Runs, RerunAll(r) PROVE BuiltOf(s)
  BY <1>6 DEF RerunAll, Enqueue, github, publish, BuiltOf
<1>7. ASSUME NEW r \in Runs, RerunPublish(r) PROVE BuiltOf(s)
  BY <1>7 DEF RerunPublish, github, publish, BuiltOf
<1>8. ASSUME NEW r \in Runs, Crash(r) PROVE BuiltOf(s)
  BY <1>8 DEF Crash, Fail, End, github, publish, BuiltOf
<1>9. ASSUME NEW r \in Runs, Resolve(r) PROVE BuiltOf(s)
  BY <1>9 DEF Resolve, github, publish, BuiltOf
<1>10. ASSUME NEW r \in Runs, ResolveFails(r) PROVE BuiltOf(s)
  BY <1>10 DEF ResolveFails, Fail, End, github, publish, BuiltOf
<1>11. ASSUME NEW r \in Runs, Freeze(r) PROVE BuiltOf(s)
  BY <1>11 DEF Freeze, FrozenHeadOk, github, publish, BuiltOf
<1>12. ASSUME NEW r \in Runs, FreezeFails(r) PROVE BuiltOf(s)
  BY <1>12 DEF FreezeFails, Fail, End, github, publish, BuiltOf
<1>13. ASSUME NEW r \in Runs, KeepPin(r) PROVE BuiltOf(s)
  BY <1>13 DEF KeepPin, Pinned, github, publish, BuiltOf
<1>14. ASSUME NEW r \in Runs, PushPin(r) PROVE BuiltOf(s)
  BY <1>14 DEF PushPin, github, publish, BuiltOf
<1>15. ASSUME NEW r \in Runs, PushFails(r) PROVE BuiltOf(s)
  BY <1>15 DEF PushFails, Fail, End, github, publish, BuiltOf
<1>16. ASSUME NEW r \in Runs, ConfirmMain(r) PROVE BuiltOf(s)
  BY <1>16 DEF ConfirmMain, github, publish, BuiltOf
<1>17. ASSUME NEW r \in Runs, ConfirmFails(r) PROVE BuiltOf(s)
  BY <1>17 DEF ConfirmFails, Fail, End, github, publish, BuiltOf
<1>18. ASSUME NEW r \in Runs, Recover(r) PROVE BuiltOf(s)
  BY <1>18 DEF Recover, Goto, github, publish, BuiltOf
<1>19. ASSUME NEW r \in Runs, PlanCreate(r) PROVE BuiltOf(s)
  BY <1>19 DEF PlanCreate, Goto, github, publish, BuiltOf
<1>20. ASSUME NEW r \in Runs, PlanReuse(r) PROVE BuiltOf(s)
  BY <1>20 DEF PlanReuse, Goto, github, publish, BuiltOf
<1>21. ASSUME NEW r \in Runs, ListFails(r) PROVE BuiltOf(s)
  BY <1>21 DEF ListFails, Fail, End, github, publish, BuiltOf
<1>22. ASSUME NEW r \in Runs, CreateDraft(r) PROVE BuiltOf(s)
  BY <1>22 DEF CreateDraft, Goto, github, publish, BuiltOf
<1>23. ASSUME NEW r \in Runs, ReconcileDraft(r) PROVE BuiltOf(s)
  BY <1>23 DEF ReconcileDraft, Goto, Update, github, publish, BuiltOf
<1>24. ASSUME NEW r \in Runs, DeleteAsset(r) PROVE BuiltOf(s)
  BY <1>24 DEF DeleteAsset, Goto, Update, github, publish, BuiltOf
<1>25. ASSUME NEW r \in Runs, DeletesDone(r) PROVE BuiltOf(s)
  BY <1>25 DEF DeletesDone, Goto, github, publish, BuiltOf
<1>26. ASSUME NEW r \in Runs, SelectUpload(r) PROVE BuiltOf(s)
  BY <1>26 DEF SelectUpload, Goto, github, publish, BuiltOf
<1>27. ASSUME NEW r \in Runs, UploadAsset(r) PROVE BuiltOf(s)
  BY <1>27 DEF UploadAsset, Goto, Update, github, publish, BuiltOf
<1>28. ASSUME NEW r \in Runs, UploadsDone(r) PROVE BuiltOf(s)
  BY <1>28 DEF UploadsDone, github, publish, BuiltOf
<1>29. ASSUME NEW r \in Runs, PollReady(r) PROVE BuiltOf(s)
  BY <1>29 DEF PollReady, Goto, github, publish, BuiltOf
<1>30. ASSUME NEW r \in Runs, PollAgain(r) PROVE BuiltOf(s)
  BY <1>30 DEF PollAgain, github, publish, BuiltOf
<1>31. ASSUME NEW r \in Runs, PollGivesUp(r) PROVE BuiltOf(s)
  BY <1>31 DEF PollGivesUp, Fail, End, github, publish, BuiltOf
<1>32. ASSUME NEW r \in Runs, PollFails(r) PROVE BuiltOf(s)
  BY <1>32 DEF PollFails, Fail, End, github, publish, BuiltOf
<1>33. ASSUME NEW r \in Runs, PublishDraft(r) PROVE BuiltOf(s)
  BY <1>33 DEF PublishDraft, Goto, Update, github, publish, BuiltOf
<1>34. ASSUME NEW r \in Runs, FinalVerify(r) PROVE BuiltOf(s)
  BY <1>34 DEF FinalVerify, End, github, publish, BuiltOf
<1> QED
  BY <1>1, <1>2, <1>3, <1>4, <1>5, <1>6, <1>7, <1>8, <1>9, <1>10, <1>11, <1>12, <1>13,
     <1>14, <1>15, <1>16, <1>17, <1>18, <1>19, <1>20, <1>21, <1>22, <1>23, <1>24, <1>25,
     <1>26, <1>27, <1>28, <1>29, <1>30, <1>31, <1>32, <1>33, <1>34 DEF Next, Step

LEMMA PinStep ==
    ASSUME ~AllowYank, IInv, Unbuilt, PinInv, [Next]_vars
    PROVE  PinInv' /\ Unbuilt'
<1>1. Frame
  BY FrameOfStep
<1>2. /\ Len(main) \in Nat /\ Len(main) > 0 /\ main \in Seq(Commit)
      /\ \A i \in 1..Len(main), f \in Families : main[i].pin[f] \in Nat
      /\ \A f \in Families : upstream[f] \in Nat
  <2>1. \A i \in 1..Len(main) : main[i] \in Commit
    BY DEF IInv, Typed, MainOK
  <2> QED
    BY <2>1 DEF IInv, Typed, MainOK, Commit
<1>3. /\ pc \in [Runs -> Locations] /\ out \in [Runs -> [up : 0..MaxUp, rev : 0..MaxRevision]]
      /\ event \in [Runs -> 0..Len(main)]
  BY DEF IInv, Typed, JobsOK, OutOK, RefsOK
<1>4. ASSUME NEW c \in Commit, main' = Append(main, c), upstream' = upstream,
             \A f \in Families : main[Len(main)].pin[f] <= c.pin[f] /\ c.pin[f] <= upstream[f]
      PROVE  /\ \A f \in Families :
                    /\ \A i, j \in 1..Len(main') : i <= j => main'[i].pin[f] <= main'[j].pin[f]
                    /\ main'[Len(main')].pin[f] <= upstream'[f]
             /\ main'[Len(main')] = c
  <2>1. /\ Len(main') = Len(main) + 1 /\ main'[Len(main) + 1] = c
        /\ \A i \in 1..Len(main) : main'[i] = main[i]
    BY <1>2, <1>4
  <2>2. ASSUME NEW f \in Families, NEW i \in 1..Len(main'), NEW j \in 1..Len(main'), i <= j
        PROVE  main'[i].pin[f] <= main'[j].pin[f]
    <3>1. CASE j \in 1..Len(main)
      BY <1>2, <2>1, <2>2, <3>1 DEF PinInv
    <3>2. CASE j = Len(main) + 1 /\ i \in 1..Len(main)
      <4>1. main[i].pin[f] <= main[Len(main)].pin[f]
        BY <1>2, <3>2 DEF PinInv
      <4>2. c.pin[f] \in Nat
        BY <1>4 DEF Commit
      <4>3. main[i].pin[f] \in Nat /\ main[Len(main)].pin[f] \in Nat
        BY <1>2, <3>2
      <4> QED
        BY <1>4, <2>1, <3>2, <4>1, <4>2, <4>3
    <3>3. CASE i = Len(main) + 1 /\ j = Len(main) + 1
      BY <2>1, <3>3 DEF Commit
    <3> QED
      BY <1>2, <2>1, <2>2, <3>1, <3>2, <3>3
  <2> QED
    BY <1>4, <2>1, <2>2
<1>5. \A f \in Families : upstream'[f] \in Nat /\ upstream[f] <= upstream'[f]
  <2>1. CASE upstream' = upstream
    BY <1>2, <2>1
  <2>2. ASSUME NEW g \in Families, UpstreamRelease(g)
        PROVE  upstream' = [upstream EXCEPT ![g] = @ + 1]
    BY <2>2 DEF UpstreamRelease
  <2> QED
    BY <1>1, <1>2, <2>1, <2>2 DEF Frame, UpstreamYank, IInv, Typed, MainOK
<1>6. ASSUME main' = main, NEW f \in Families
      PROVE  /\ \A i, j \in 1..Len(main') : i <= j => main'[i].pin[f] <= main'[j].pin[f]
             /\ main'[Len(main')].pin[f] <= upstream'[f]
  BY <1>2, <1>5, <1>6 DEF PinInv
<1>7. ASSUME DevPush
      PROVE  /\ \A f \in Families :
                    /\ \A i, j \in 1..Len(main') : i <= j => main'[i].pin[f] <= main'[j].pin[f]
                    /\ main'[Len(main')].pin[f] <= upstream'[f]
             /\ main'[Len(main')].pin = main[Len(main)].pin
             /\ UNCHANGED <<pc, out, event>>
  <2> DEFINE c == [Last(main) EXCEPT !.src = @ + 1]
  <2>1. main' = Append(main, c) /\ upstream' = upstream /\ UNCHANGED <<pc, out, event>>
        /\ Last(main).src < MaxSrc
    BY <1>7 DEF DevPush
  <2>2. Last(main) = main[Len(main)] /\ main[Len(main)] \in Commit
    BY <1>2 DEF Last
  <2>3. c.pin = main[Len(main)].pin /\ c \in Commit
    <3>1. /\ Last(main).pin \in [Families -> 1..MaxUp] /\ Last(main).src \in 1..MaxSrc
          /\ c = [src |-> Last(main).src + 1, pin |-> Last(main).pin]
      BY <2>2 DEF Commit
    <3>2. Last(main).src + 1 \in 1..MaxSrc
      BY <2>1, <3>1, PipelineAssumption
    <3> QED
      BY <2>2, <3>1, <3>2 DEF Commit
  <2>4. \A f \in Families : main[Len(main)].pin[f] <= c.pin[f] /\ c.pin[f] <= upstream[f]
    BY <1>2, <2>3 DEF PinInv
  <2> HIDE DEF c
  <2> QED
    BY <1>4, <2>1, <2>3, <2>4
<1>8. ASSUME NEW r \in Runs, PushPin(r)
      PROVE  /\ \A f \in Families :
                    /\ \A i, j \in 1..Len(main') : i <= j => main'[i].pin[f] <= main'[j].pin[f]
                    /\ main'[Len(main')].pin[f] <= upstream'[f]
             /\ main'[Len(main')].pin[FamilyOf[r]] = out[r].up
             /\ UNCHANGED <<out, event>> /\ pc[r] \in PublishSteps
             /\ \A s \in Runs \ {r} : pc'[s] = pc[s]
  <2> DEFINE c == [Last(main) EXCEPT !.pin[FamilyOf[r]] = out[r].up]
  <2>1. /\ main' = Append(main, c) /\ upstream' = upstream /\ UNCHANGED <<out, event>>
        /\ pc[r] \in PublishSteps /\ \A s \in Runs \ {r} : pc'[s] = pc[s]
    BY <1>3, <1>8 DEF PushPin, PublishSteps
  <2>2. Last(main) = main[Len(main)] /\ main[Len(main)] \in Commit
    BY <1>2 DEF Last
  <2>3. FamilyOf[r] \in Families
    BY PipelineAssumption
  <2>4. out[r].up > 0 /\ out[r].up \in 0..MaxUp
    BY <1>3, <2>1 DEF IInv, HeadInv, HeadOf, Active
  <2>5. c \in Commit /\ c.pin = [main[Len(main)].pin EXCEPT ![FamilyOf[r]] = out[r].up]
    BY <2>2, <2>3, <2>4 DEF Commit
  <2>6. main[Len(main)].pin[FamilyOf[r]] <= out[r].up /\ out[r].up <= upstream[FamilyOf[r]]
    BY <2>1 DEF PinInv, Active
  <2>7. main[Len(main)].pin \in [Families -> 1..MaxUp]
    BY <2>2 DEF Commit
  <2> HIDE DEF c
  <2>8. \A f \in Families : c.pin[f] = IF f = FamilyOf[r] THEN out[r].up ELSE main[Len(main)].pin[f]
    BY <2>5, <2>7
  <2>9. ASSUME NEW f \in Families PROVE main[Len(main)].pin[f] <= c.pin[f] /\ c.pin[f] <= upstream[f]
    <3>1. main[Len(main)].pin[f] <= main[Len(main)].pin[f] /\ main[Len(main)].pin[f] <= upstream[f]
      BY <1>2 DEF PinInv
    <3> QED
      BY <2>6, <2>8, <3>1
  <2>10. main'[Len(main')] = c
    BY <1>4, <2>1, <2>5, <2>9
  <2> QED
    BY <1>4, <2>1, <2>3, <2>5, <2>8, <2>9, <2>10
<1>9. ASSUME NEW f \in Families
      PROVE  /\ \A i, j \in 1..Len(main') : i <= j => main'[i].pin[f] <= main'[j].pin[f]
             /\ main'[Len(main')].pin[f] <= upstream'[f]
  BY <1>1, <1>6, <1>7, <1>8 DEF Frame
<1>10. ASSUME NEW s \in Runs PROVE BuiltOf(s)
  BY BuiltStep DEF IInv, Typed
<1>11. ASSUME NEW i \in 1..Len(main) PROVE main'[i] = main[i]
  BY MainStep DEF IInv, Typed
<1>12. ASSUME NEW s \in Runs, pc'[s] \in Active \/ out'[s] # NoBuild
       PROVE  /\ main'[event'[s]].pin[FamilyOf[s]] <= out'[s].up
              /\ out'[s].up <= upstream'[FamilyOf[s]]
  <2>1. FamilyOf[s] \in Families
    BY PipelineAssumption
  <2>2. CASE Resolve(s)
    <3>1. /\ event'[s] = event[s] /\ pc[s] = "queued" /\ main' = main /\ upstream' = upstream
          /\ (out' = out /\ pc'[s] = "skipped") \/ out'[s].up = upstream[FamilyOf[s]]
      BY <1>3, <2>2 DEF Resolve, github
    <3>2. event[s] \in 1..Len(main)
      <4>1. event[s] > 0
        BY <3>1 DEF IInv, HeadInv, HeadOf
      <4>2. event[s] \in 0..Len(main) /\ Len(main) \in Nat
        BY <1>2, <1>3
      <4> QED
        BY <4>1, <4>2
    <3>3. CASE out'[s].up = upstream[FamilyOf[s]]
      <4>1. main[event[s]].pin[FamilyOf[s]] <= main[Len(main)].pin[FamilyOf[s]]
            /\ main[Len(main)].pin[FamilyOf[s]] <= upstream[FamilyOf[s]]
        BY <1>2, <2>1, <3>2 DEF PinInv
      <4>2. /\ main[event[s]].pin[FamilyOf[s]] \in Nat /\ main[Len(main)].pin[FamilyOf[s]] \in Nat
            /\ upstream[FamilyOf[s]] \in Nat
        BY <1>2, <2>1, <3>2
      <4> QED
        BY <3>1, <3>3, <4>1, <4>2
    <3>4. CASE out' = out /\ pc'[s] = "skipped"
      BY <1>12, <3>1, <3>4 DEF PinInv, Active, BuildSteps, PublishSteps
    <3> QED
      BY <3>1, <3>3, <3>4
  <2>3. CASE ~Resolve(s)
    <3>1. /\ pc[s] \in Active \/ out[s] # NoBuild
          /\ out'[s] = out[s] /\ event'[s] = event[s]
      BY <1>10, <1>12, <2>3 DEF BuiltOf
    <3>2. main[event[s]].pin[FamilyOf[s]] <= out[s].up /\ out[s].up <= upstream[FamilyOf[s]]
      BY <3>1 DEF PinInv
    <3>3. pc[s] # "none"
      BY <3>1 DEF Unbuilt, Active, BuildSteps, PublishSteps
    <3>4. event[s] \in 1..Len(main)
      BY <1>2, <1>3, <3>3 DEF IInv, HeadInv, HeadOf
    <3>5. main'[event[s]] = main[event[s]]
      BY <1>11, <3>4
    <3>6. out[s].up \in Nat
      BY <1>3
    <3> QED
      BY <1>2, <1>5, <2>1, <3>1, <3>2, <3>5, <3>6
  <2> QED
    BY <2>2, <2>3
<1>13. ASSUME NEW s \in Runs, pc'[s] \in PublishSteps
       PROVE  main'[Len(main')].pin[FamilyOf[s]] <= out'[s].up
  <2>1. Idle(s) \/ Proceeds(s)
    BY <1>13, PublisherSteps DEF IInv, Typed
  <2>2. out'[s] = out[s] /\ pc[s] \in Active
    BY <1>13, <2>1 DEF Active, BuildSteps, PublishSteps, Idle, Proceeds, Freeze, KeepPin,
       PushPin,
       ConfirmMain, Recover, PlanCreate, PlanReuse, CreateDraft, ReconcileDraft, DeleteAsset, DeletesDone,
       SelectUpload, UploadAsset, UploadsDone, PollReady, PollAgain, PublishDraft, Goto
  <2>3. FamilyOf[s] \in Families
    BY PipelineAssumption
  <2>4. pc[s] \in PublishSteps => main[Len(main)].pin[FamilyOf[s]] <= out[s].up
    BY DEF PinInv
  <2>5. CASE Freeze(s)
    <3>1. main' = main /\ FrozenHeadOk(s) /\ pc[s] = "built"
      BY <2>5 DEF Freeze, github
    <3>2. main[event[s]].pin[FamilyOf[s]] <= out[s].up
      BY <2>2 DEF PinInv
    <3>3. Last(main) = main[Len(main)]
      BY <1>2 DEF Last
    <3>4. out[s].up \in Nat
      BY <1>3
    <3>5. \/ main[Len(main)].pin[FamilyOf[s]] = main[event[s]].pin[FamilyOf[s]]
          \/ main[Len(main)].pin[FamilyOf[s]] = out[s].up
      BY <2>3, <3>1, <3>3 DEF FrozenHeadOk
    <3> QED
      BY <2>2, <3>1, <3>2, <3>4, <3>5
  <2>6. CASE ~Freeze(s)
    <3>1. pc[s] \in PublishSteps
      BY <1>13, <2>1, <2>6 DEF PublishSteps, Idle, Proceeds, KeepPin, PushPin,
         ConfirmMain, Recover, PlanCreate, PlanReuse, CreateDraft, ReconcileDraft, DeleteAsset, DeletesDone,
         SelectUpload, UploadAsset, UploadsDone, PollReady, PollAgain, PublishDraft
    <3>2. CASE main' = main
      BY <2>2, <2>4, <3>1, <3>2
    <3>3. CASE DevPush
      BY <1>7, <2>2, <2>4, <3>1, <3>3
    <3>4. ASSUME NEW r \in Runs, PushPin(r)
          PROVE  main'[Len(main')].pin[FamilyOf[s]] <= out'[s].up
      <4>1. r = s
        BY <1>8, <3>1, <3>4 DEF IInv, OnePublisher
      <4>2. out[s].up \in Nat
        BY <1>3
      <4> QED
        BY <1>8, <2>2, <3>4, <4>1, <4>2
    <3> QED
      BY <1>1, <3>2, <3>3, <3>4 DEF Frame
  <2> QED
    BY <2>5, <2>6
<1>14. PinInv'
  BY <1>9, <1>12, <1>13 DEF PinInv, Active
<1>15. Unbuilt'
  BY <1>10 DEF BuiltOf, Unbuilt
<1> QED
  BY <1>14, <1>15

(* "upstream downgrade is forbidden" (release_draft_state.py:262): unless  *)
(* upstream withdraws a release, what becomes public is never older than   *)
(* what the family has public, whatever order its runs end in.             *)
THEOREM NeverOlder ==
    ASSUME ~AllowYank
    PROVE  Spec => NoDowngrade
<1>1. Init => PinInv /\ Unbuilt
  BY PipelineAssumption DEF Init, PinInv, Unbuilt, Active, BuildSteps, PublishSteps
<1>2. IInv /\ PinInv /\ Unbuilt /\ [Next]_vars => PinInv' /\ Unbuilt'
  BY PinStep
<1>3. IInv /\ PinInv /\ [Next]_vars =>
        [\A p \in Public' \ Public, q \in Public :
            p.tag.family = q.tag.family => p.tag.up >= q.tag.up]_vars
  <2> SUFFICES ASSUME IInv, PinInv, [Next]_vars,
                      NEW p \in Public' \ Public, NEW q \in Public, p.tag.family = q.tag.family
               PROVE  p.tag.up >= q.tag.up
    OBVIOUS
  <2>1. PICK r \in Runs, d \in releases : Flips(r, d, p)
    BY PublicStep DEF IInv, Flips
  <2>2. pc[r] \in PublishSteps /\ p.tag = RunTag(r)
    BY <2>1 DEF Flips, PublishDraft, PublishSteps
  <2>3. main[Len(main)].pin[FamilyOf[r]] <= out[r].up
    BY <2>2 DEF PinInv
  <2>4. p.tag.family = FamilyOf[r] /\ p.tag.up = out[r].up /\ FamilyOf[r] \in Families
    BY <2>2, PipelineAssumption DEF RunTag, Tag
  <2>5. q.target \in 1..Len(main) /\ main[q.target].pin[FamilyOf[r]] = q.tag.up
    BY <2>4 DEF IInv, PublicIsComplete, Public, Typed, ReleasesOK, IsRelease
  <2>6. Len(main) \in 1..Len(main) /\ q.target <= Len(main)
    BY <2>5 DEF IInv, Typed, MainOK
  <2>7. q.tag.up <= main[Len(main)].pin[FamilyOf[r]]
    BY <2>4, <2>5, <2>6 DEF PinInv
  <2>8. /\ main[Len(main)].pin[FamilyOf[r]] \in Nat /\ out[r].up \in Nat /\ q.tag.up \in Nat
    <3>1. main[Len(main)] \in Commit /\ main[q.target] \in Commit
      BY <2>5, <2>6 DEF IInv, Typed, MainOK
    <3> QED
      BY <2>4, <2>5, <3>1, SMTT(30) DEF Commit, IInv, Typed, OutOK
  <2> QED
    BY <2>3, <2>4, <2>7, <2>8
<1> QED
  BY <1>1, <1>2, <1>3, Inductive, PTL DEF NoDowngrade, Spec

-----------------------------------------------------------------------------
(* Reruns.  "Re-run all jobs" gives a number to a run again, and "Re-run   *)
(* failed jobs" starts a publish job without a build job.                  *)

NoRerunAll == \A r \in Runs : ~RerunAll(r)
NoRerunPublish == \A r \in Runs : ~RerunPublish(r)

Waiting == {"none", "queued"}

(* A run waits as before, or it is triggered or rerun; it leaves "none"    *)
(* when it is triggered; and it starts when it is resolved or its publish  *)
(* job is rerun.                                                           *)
MoveOf(s) ==
    /\ pc'[s] \in Waiting => pc[s] = pc'[s] \/ Trigger(s) \/ RerunAll(s)
    /\ pc[s] = "none" => pc'[s] = "none" \/ Trigger(s)
    /\ pc'[s] \in Active => pc[s] \in Active \/ Resolve(s) \/ RerunPublish(s)

(* Nothing else moves a run so.                                            *)
LEMMA MoveStep ==
    ASSUME JobsOK, [Next]_vars, NEW s \in Runs
    PROVE  MoveOf(s)
<1>a. pc \in [Runs -> Locations]
  BY DEF JobsOK
<1> USE <1>a DEF Waiting, Active, PublishSteps, BuildSteps, Stopped
<1>1. CASE UNCHANGED vars
  BY <1>1 DEF vars, MoveOf
<1>2. CASE DevPush
  BY <1>2 DEF DevPush, publish, MoveOf
<1>3. ASSUME NEW f \in Families, UpstreamRelease(f) PROVE MoveOf(s)
  BY <1>3 DEF UpstreamRelease, publish, MoveOf
<1>4. ASSUME NEW f \in Families, UpstreamYank(f) PROVE MoveOf(s)
  BY <1>4 DEF UpstreamYank, publish, MoveOf
<1>5. ASSUME NEW r \in Runs, Trigger(r) PROVE MoveOf(s)
  BY <1>5 DEF Trigger, Enqueue, github, publish, MoveOf
<1>6. ASSUME NEW r \in Runs, RerunAll(r) PROVE MoveOf(s)
  BY <1>6 DEF RerunAll, Enqueue, github, publish, MoveOf
<1>7. ASSUME NEW r \in Runs, RerunPublish(r) PROVE MoveOf(s)
  BY <1>7 DEF RerunPublish, github, publish, MoveOf
<1>8. ASSUME NEW r \in Runs, Crash(r) PROVE MoveOf(s)
  BY <1>8 DEF Crash, Fail, End, github, publish, MoveOf
<1>9. ASSUME NEW r \in Runs, Resolve(r) PROVE MoveOf(s)
  BY <1>9 DEF Resolve, github, publish, MoveOf
<1>10. ASSUME NEW r \in Runs, ResolveFails(r) PROVE MoveOf(s)
  BY <1>10 DEF ResolveFails, Fail, End, github, publish, MoveOf
<1>11. ASSUME NEW r \in Runs, Freeze(r) PROVE MoveOf(s)
  BY <1>11 DEF Freeze, FrozenHeadOk, github, publish, MoveOf
<1>12. ASSUME NEW r \in Runs, FreezeFails(r) PROVE MoveOf(s)
  BY <1>12 DEF FreezeFails, Fail, End, github, publish, MoveOf
<1>13. ASSUME NEW r \in Runs, KeepPin(r) PROVE MoveOf(s)
  BY <1>13 DEF KeepPin, Pinned, github, publish, MoveOf
<1>14. ASSUME NEW r \in Runs, PushPin(r) PROVE MoveOf(s)
  BY <1>14 DEF PushPin, github, publish, MoveOf
<1>15. ASSUME NEW r \in Runs, PushFails(r) PROVE MoveOf(s)
  BY <1>15 DEF PushFails, Fail, End, github, publish, MoveOf
<1>16. ASSUME NEW r \in Runs, ConfirmMain(r) PROVE MoveOf(s)
  BY <1>16 DEF ConfirmMain, github, publish, MoveOf
<1>17. ASSUME NEW r \in Runs, ConfirmFails(r) PROVE MoveOf(s)
  BY <1>17 DEF ConfirmFails, Fail, End, github, publish, MoveOf
<1>18. ASSUME NEW r \in Runs, Recover(r) PROVE MoveOf(s)
  BY <1>18 DEF Recover, Goto, github, publish, MoveOf
<1>19. ASSUME NEW r \in Runs, PlanCreate(r) PROVE MoveOf(s)
  BY <1>19 DEF PlanCreate, Goto, github, publish, MoveOf
<1>20. ASSUME NEW r \in Runs, PlanReuse(r) PROVE MoveOf(s)
  BY <1>20 DEF PlanReuse, Goto, github, publish, MoveOf
<1>21. ASSUME NEW r \in Runs, ListFails(r) PROVE MoveOf(s)
  BY <1>21 DEF ListFails, Fail, End, github, publish, MoveOf
<1>22. ASSUME NEW r \in Runs, CreateDraft(r) PROVE MoveOf(s)
  BY <1>22 DEF CreateDraft, Goto, github, publish, MoveOf
<1>23. ASSUME NEW r \in Runs, ReconcileDraft(r) PROVE MoveOf(s)
  BY <1>23 DEF ReconcileDraft, Goto, Update, github, publish, MoveOf
<1>24. ASSUME NEW r \in Runs, DeleteAsset(r) PROVE MoveOf(s)
  BY <1>24 DEF DeleteAsset, Goto, Update, github, publish, MoveOf
<1>25. ASSUME NEW r \in Runs, DeletesDone(r) PROVE MoveOf(s)
  BY <1>25 DEF DeletesDone, Goto, github, publish, MoveOf
<1>26. ASSUME NEW r \in Runs, SelectUpload(r) PROVE MoveOf(s)
  BY <1>26 DEF SelectUpload, Goto, github, publish, MoveOf
<1>27. ASSUME NEW r \in Runs, UploadAsset(r) PROVE MoveOf(s)
  BY <1>27 DEF UploadAsset, Goto, Update, github, publish, MoveOf
<1>28. ASSUME NEW r \in Runs, UploadsDone(r) PROVE MoveOf(s)
  BY <1>28 DEF UploadsDone, github, publish, MoveOf
<1>29. ASSUME NEW r \in Runs, PollReady(r) PROVE MoveOf(s)
  BY <1>29 DEF PollReady, Goto, github, publish, MoveOf
<1>30. ASSUME NEW r \in Runs, PollAgain(r) PROVE MoveOf(s)
  BY <1>30 DEF PollAgain, github, publish, MoveOf
<1>31. ASSUME NEW r \in Runs, PollGivesUp(r) PROVE MoveOf(s)
  BY <1>31 DEF PollGivesUp, Fail, End, github, publish, MoveOf
<1>32. ASSUME NEW r \in Runs, PollFails(r) PROVE MoveOf(s)
  BY <1>32 DEF PollFails, Fail, End, github, publish, MoveOf
<1>33. ASSUME NEW r \in Runs, PublishDraft(r) PROVE MoveOf(s)
  BY <1>33 DEF PublishDraft, Goto, Update, github, publish, MoveOf
<1>34. ASSUME NEW r \in Runs, FinalVerify(r) PROVE MoveOf(s)
  BY <1>34 DEF FinalVerify, End, github, publish, MoveOf
<1> QED
  BY <1>1, <1>2, <1>3, <1>4, <1>5, <1>6, <1>7, <1>8, <1>9, <1>10, <1>11, <1>12, <1>13,
     <1>14, <1>15, <1>16, <1>17, <1>18, <1>19, <1>20, <1>21, <1>22, <1>23, <1>24, <1>25,
     <1>26, <1>27, <1>28, <1>29, <1>30, <1>31, <1>32, <1>33, <1>34 DEF Next, Step

(* A run that waits or was never triggered is the last one of its family   *)
(* that was, unless all jobs of a run are rerun.                           *)
OrderInv ==
    \A r, s \in Runs :
        FamilyOf[r] = FamilyOf[s] /\ r < s /\ pc[r] \in Waiting => pc[s] = "none"

(* Only a run that was resolved has chosen a tag, of its family.           *)
ChosenInv ==
    \A y \in reserved :
        y.run \in Runs /\ y.tag.family = FamilyOf[y.run] /\ pc[y.run] \notin Waiting

(* A step that changes nothing is not a rerun.                             *)
LEMMA NoRerunStep ==
    ASSUME JobsOK, [NoRerunAll]_vars, NEW r \in Runs
    PROVE  ~RerunAll(r)
<1>1. reruns \in Nat
  BY PipelineAssumption DEF JobsOK
<1>2. RerunAll(r) => reruns' # reruns
  BY <1>1 DEF RerunAll
<1> QED
  BY <1>2 DEF NoRerunAll, vars

LEMMA OrderStep ==
    ASSUME JobsOK, OrderInv, ChosenInv, [Next]_vars, [NoRerunAll]_vars
    PROVE  OrderInv' /\ ChosenInv'
<1>1. pc \in [Runs -> Locations] /\ Runs \subseteq Nat
  BY PipelineAssumption DEF JobsOK
<1>2. ASSUME NEW r \in Runs, NEW s \in Runs, FamilyOf[r] = FamilyOf[s], r < s, pc'[r] \in Waiting
      PROVE  pc'[s] = "none"
  <2>1. MoveOf(r) /\ MoveOf(s) /\ ~RerunAll(r)
    BY MoveStep, NoRerunStep
  <2>2. CASE Trigger(r)
    <3>1. pc[r] = "none" /\ pc[s] = "none"
      BY <1>2, <2>2 DEF Trigger, OrderInv, Waiting
    <3>2. pc'[s] = pc[s]
      BY <1>1, <1>2, <2>2, <3>1 DEF Trigger, Enqueue
    <3> QED
      BY <3>1, <3>2
  <2>3. CASE ~Trigger(r)
    <3>1. pc[r] = pc'[r] /\ pc[s] = "none"
      BY <1>2, <2>1, <2>3 DEF MoveOf, OrderInv
    <3>2. ASSUME Trigger(s) PROVE FALSE
      <4>1. pc[r] # "none" /\ pc'[r] = IF pc[r] = "queued" THEN "cancelled" ELSE pc[r]
        BY <1>1, <1>2, <3>2 DEF Trigger, Enqueue, OfFamily
      <4> QED
        BY <1>2, <3>1, <4>1 DEF Waiting
    <3> QED
      BY <2>1, <3>1, <3>2 DEF MoveOf
  <2> QED
    BY <2>2, <2>3
<1>3. ASSUME NEW y \in reserved'
      PROVE  y.run \in Runs /\ y.tag.family = FamilyOf[y.run] /\ pc'[y.run] \notin Waiting
  <2>1. CASE y \in reserved
    <3>1. y.run \in Runs /\ y.tag.family = FamilyOf[y.run] /\ pc[y.run] \notin Waiting
      BY <2>1 DEF ChosenInv
    <3>2. MoveOf(y.run) /\ ~RerunAll(y.run)
      BY <3>1, MoveStep, NoRerunStep
    <3>3. ~Trigger(y.run)
      BY <3>1 DEF Trigger, Waiting
    <3> QED
      BY <3>1, <3>2, <3>3 DEF MoveOf
  <2>2. CASE y \notin reserved
    <3>1. PICK r \in Runs : Resolve(r)
      BY <2>2, FrameOfStep DEF Frame
    <3> DEFINE t == Tag(FamilyOf[r], upstream[FamilyOf[r]], ResolvedRevision(r))
    <3>2. y = [run |-> r, tag |-> t] /\ pc' = [pc EXCEPT ![r] = "built"]
      BY <2>2, <3>1 DEF Resolve
    <3>3. t.family = FamilyOf[r]
      BY DEF Tag
    <3> HIDE DEF t
    <3> QED
      BY <1>1, <3>2, <3>3 DEF Waiting
  <2> QED
    BY <2>1, <2>2
<1> QED
  BY <1>2, <1>3 DEF OrderInv, ChosenInv

(* A run that resolves has no later run beside it, and an earlier one did  *)
(* not choose its tag.                                                     *)
LEMMA DistinctStep ==
    ASSUME IInv, ReservedInv, OrderInv, ChosenInv, RunsChooseDistinctTags, [Next]_vars
    PROVE  RunsChooseDistinctTags'
<1>1. ASSUME NEW r \in Runs, Resolve(r), NEW x \in reserved' \ reserved, NEW y \in reserved,
             y.tag = x.tag
      PROVE  y.run = x.run
  <2>1. y.run >= x.run
    BY <1>1, ReservedStep
  <2> DEFINE t == Tag(FamilyOf[r], upstream[FamilyOf[r]], ResolvedRevision(r))
  <2>2. x = [run |-> r, tag |-> t]
    BY <1>1 DEF Resolve
  <2>3. t.family = FamilyOf[r]
    BY DEF Tag
  <2> HIDE DEF t
  <2>4. y.run \in Runs /\ FamilyOf[r] = FamilyOf[y.run] /\ pc[y.run] \notin Waiting
    BY <1>1, <2>2, <2>3 DEF ChosenInv
  <2>5. pc[r] \in Waiting
    BY <1>1 DEF Resolve, Waiting
  <2>6. ~(r < y.run)
    BY <2>4, <2>5 DEF OrderInv, Waiting
  <2>7. r \in Nat /\ y.run \in Nat
    BY <2>4, PipelineAssumption
  <2> QED
    BY <2>1, <2>2, <2>6, <2>7
<1>2. ASSUME NEW r \in Runs, Resolve(r)
      PROVE  \A x, y \in reserved' \ reserved : x = y
  BY <1>2 DEF Resolve
<1>3. reserved' # reserved => \E r \in Runs : Resolve(r)
  BY FrameOfStep DEF Frame
<1> QED
  BY <1>1, <1>2, <1>3 DEF RunsChooseDistinctTags

LEMMA DistinctInductive ==
    Spec /\ [][NoRerunAll]_vars => [](OrderInv /\ ChosenInv /\ RunsChooseDistinctTags)
<1>1. Init => ReservedInv /\ OrderInv /\ ChosenInv /\ RunsChooseDistinctTags
  BY DEF Init, ReservedInv, OrderInv, ChosenInv, RunsChooseDistinctTags
<1>2. IInv /\ ReservedInv /\ OrderInv /\ ChosenInv /\ RunsChooseDistinctTags
        /\ [Next]_vars /\ [NoRerunAll]_vars =>
            (ReservedInv /\ OrderInv /\ ChosenInv /\ RunsChooseDistinctTags)'
  BY OrderStep, ReservedStep, DistinctStep DEF IInv, Typed
<1> QED
  BY <1>1, <1>2, Inductive, PTL DEF Spec

(* "makes two different runs choose different tags even when an older      *)
(* draft is hidden from both of them" (release_draft_state.py:221-224): so *)
(* it is as long as nobody reruns all jobs of a run.                       *)
THEOREM DistinctTags == Spec /\ [][NoRerunAll]_vars => []RunsChooseDistinctTags
BY DistinctInductive, PTL

(* A family's concurrency group lets one of its runs work.                 *)
OneOfFamily ==
    \A r, s \in Runs : pc[r] \in Active /\ pc[s] \in Active /\ FamilyOf[r] = FamilyOf[s] => r = s

(* A run whose build job compared the releases publishes nothing older     *)
(* than what its family has public, because nobody else of it publishes.   *)
LatestInv ==
    \A r \in Runs, q \in Public :
        pc[r] \in Active /\ q.tag.family = FamilyOf[r] => q.tag.up <= out[r].up

LEMMA OneOfFamilyStep ==
    ASSUME JobsOK, OneOfFamily, [Next]_vars
    PROVE  OneOfFamily'
<1>1. pc \in [Runs -> Locations]
  BY DEF JobsOK
<1>2. ASSUME NEW r \in Runs, NEW s \in Runs, pc'[r] \in Active, pc'[s] \in Active,
             FamilyOf[r] = FamilyOf[s], Resolve(r) \/ RerunPublish(r)
      PROVE  r = s
  <2>1. ~FamilyBusy(FamilyOf[r]) /\ \A q \in Runs \ {r} : pc'[q] = pc[q]
    BY <1>1, <1>2 DEF Resolve, RerunPublish
  <2> QED
    BY <1>2, <2>1 DEF FamilyBusy, OfFamily, Active
<1>3. \A r \in Runs : MoveOf(r)
  BY MoveStep
<1> QED
  BY <1>2, <1>3 DEF OneOfFamily, MoveOf

LEMMA LatestStep ==
    ASSUME IInv, Unbuilt, OneOfFamily, LatestInv, [Next]_vars, [NoRerunPublish]_vars
    PROVE  LatestInv'
<1>1. pc \in [Runs -> Locations] /\ out \in [Runs -> [up : 0..MaxUp, rev : 0..MaxRevision]]
      /\ reruns \in Nat
  BY PipelineAssumption DEF IInv, Typed, JobsOK, OutOK
<1>2. ASSUME NEW r \in Runs, NEW q \in Public', pc'[r] \in Active, q.tag.family = FamilyOf[r]
      PROVE  q.tag.up <= out'[r].up
  <2>1. MoveOf(r) /\ BuiltOf(r)
    BY MoveStep, BuiltStep DEF IInv, Typed
  <2>2. ~RerunPublish(r)
    BY <1>1 DEF RerunPublish, NoRerunPublish, vars
  <2>3. CASE Resolve(r)
    <3>1. /\ ~IsDowngrade(Visible, FamilyOf[r], upstream[FamilyOf[r]])
          /\ UNCHANGED releases
          /\ pc'[r] = "skipped" \/ out'[r].up = upstream[FamilyOf[r]]
      BY <1>1, <2>3 DEF Resolve, ResolveRejected, github
    <3>2. out'[r].up = upstream[FamilyOf[r]]
      BY <1>2, <3>1 DEF Active, BuildSteps, PublishSteps
    <3>3. q \in Visible /\ ~q.draft
      BY <1>2, <3>1 DEF Visible, Public
    <3>4. ~(q.tag.up > upstream[FamilyOf[r]])
      BY <1>2, <3>1, <3>3 DEF IsDowngrade
    <3>5. q.tag.up \in Nat /\ upstream[FamilyOf[r]] \in Nat
      BY <3>3, PipelineAssumption
         DEF Visible, IInv, Typed, ReleasesOK, IsRelease, TagType, MainOK
    <3> QED
      BY <3>2, <3>4, <3>5
  <2>4. CASE ~Resolve(r)
    <3>1. pc[r] \in Active /\ out'[r] = out[r]
      BY <1>2, <2>1, <2>2, <2>4 DEF MoveOf, BuiltOf
    <3>2. CASE q \in Public
      BY <1>2, <3>1, <3>2 DEF LatestInv
    <3>3. CASE q \notin Public
      <4>1. PICK s \in Runs, d \in releases : Flips(s, d, q)
        BY <1>2, <3>3, PublicStep DEF IInv, Flips
      <4>2. pc[s] \in Active /\ q.tag = RunTag(s)
        BY <4>1 DEF Flips, PublishDraft, Active, PublishSteps
      <4>3. q.tag.family = FamilyOf[s] /\ q.tag.up = out[s].up
        BY <4>2 DEF RunTag, Tag
      <4>4. r = s
        BY <1>2, <3>1, <4>2, <4>3 DEF OneOfFamily
      <4> QED
        BY <1>1, <3>1, <4>3, <4>4
    <3> QED
      BY <3>2, <3>3
  <2> QED
    BY <2>3, <2>4
<1> QED
  BY <1>2 DEF LatestInv

LEMMA UnbuiltStep == IInv /\ Unbuilt /\ [Next]_vars => Unbuilt'
<1> SUFFICES ASSUME IInv, Unbuilt, [Next]_vars, NEW s \in Runs, pc'[s] = "none"
             PROVE  out'[s] = NoBuild
  BY DEF Unbuilt
<1>1. BuiltOf(s)
  BY BuiltStep DEF IInv, Typed
<1> QED
  BY <1>1 DEF BuiltOf, Unbuilt

(* "upstream downgrade is forbidden" (release_draft_state.py:262): even if *)
(* upstream withdraws releases, nothing older than what the family has     *)
(* public becomes public, as long as nobody reruns a publish job alone.    *)
THEOREM NeverOlderUnlessRerun == Spec /\ [][NoRerunPublish]_vars => NoDowngrade
<1>1. Init => Unbuilt /\ OneOfFamily /\ LatestInv
  BY DEF Init, Unbuilt, OneOfFamily, LatestInv, Active, BuildSteps, PublishSteps, Public
<1>2. IInv /\ Unbuilt /\ OneOfFamily /\ LatestInv /\ [Next]_vars /\ [NoRerunPublish]_vars =>
        (Unbuilt /\ OneOfFamily /\ LatestInv)'
  BY UnbuiltStep, OneOfFamilyStep, LatestStep DEF IInv, Typed
<1>3. IInv /\ LatestInv /\ [Next]_vars =>
        [\A p \in Public' \ Public, q \in Public :
            p.tag.family = q.tag.family => p.tag.up >= q.tag.up]_vars
  <2> SUFFICES ASSUME IInv, LatestInv, [Next]_vars,
                      NEW p \in Public' \ Public, NEW q \in Public, p.tag.family = q.tag.family
               PROVE  p.tag.up >= q.tag.up
    OBVIOUS
  <2>1. PICK r \in Runs, d \in releases : Flips(r, d, p)
    BY PublicStep DEF IInv, Flips
  <2>2. pc[r] \in Active /\ p.tag = RunTag(r)
    BY <2>1 DEF Flips, PublishDraft, Active, PublishSteps
  <2>3. p.tag.family = FamilyOf[r] /\ p.tag.up = out[r].up
    BY <2>2 DEF RunTag, Tag
  <2>4. q.tag.up <= p.tag.up
    BY <2>2, <2>3 DEF LatestInv
  <2>5. p.tag.up \in Nat /\ q.tag.up \in Nat
    <3>1. out[r] \in [up : 0..MaxUp, rev : 0..MaxRevision]
      BY DEF IInv, Typed, OutOK
    <3>2. q.tag \in TagType
      BY DEF Public, IInv, Typed, ReleasesOK, IsRelease
    <3> QED
      BY <2>3, <3>1, <3>2 DEF TagType
  <2> QED
    BY <2>4, <2>5
<1> QED
  BY <1>1, <1>2, <1>3, Inductive, PTL DEF NoDowngrade, Spec

-----------------------------------------------------------------------------
(* What a rerun of a publish job finds.                                    *)

ChangedPins(m, i, j) == {f \in Families : m[j].pin[f] # m[i].pin[f]}

(* The commit after e in m only changed the pins of one other family.      *)
OtherPinAfter(m, e, f) ==
    /\ e + 1 <= Len(m)
    /\ m[e + 1].src = m[e].src
    /\ Cardinality(ChangedPins(m, e, e + 1)) = 1
    /\ f \notin ChangedPins(m, e, e + 1)

(* What a job of family f that built up from e accepts as head c of m, and *)
(* what it selects as its wrapper commit.                                  *)
Accepted(m, e, f, up, c) ==
    \/ c = e
    \/ /\ c = e + 1
       /\ m[c].src = m[e].src
       /\ Cardinality(ChangedPins(m, e, c)) = 1
       /\ f \in ChangedPins(m, e, c) => m[c].pin[f] = up

Selected(m, e, f, up, c) ==
    Accepted(m, e, f, up, c) \/ (c = e + 2 /\ OtherPinAfter(m, e, f))

(* A commit that was accepted or selected stays so when main grows.        *)
LEMMA SelectedStays ==
    ASSUME NEW m, NEW n, Len(m) \in Nat, Len(n) \in Nat, Len(m) <= Len(n),
           \A i \in 1..Len(m) : n[i] = m[i],
           NEW e \in 1..Len(m), NEW c \in 1..Len(m), NEW f, NEW up
    PROVE  /\ Accepted(m, e, f, up, c) => Accepted(n, e, f, up, c)
           /\ Selected(m, e, f, up, c) => Selected(n, e, f, up, c)
<1>1. n[e] = m[e] /\ n[c] = m[c] /\ (e + 1 <= Len(m) => n[e + 1] = m[e + 1])
  OBVIOUS
<1>2. ChangedPins(n, e, c) = ChangedPins(m, e, c)
  BY <1>1 DEF ChangedPins
<1>3. e + 1 <= Len(m) => ChangedPins(n, e, e + 1) = ChangedPins(m, e, e + 1)
  BY <1>1 DEF ChangedPins
<1>4. Accepted(m, e, f, up, c) => Accepted(n, e, f, up, c)
  BY <1>1, <1>2 DEF Accepted
<1>5. OtherPinAfter(m, e, f) => OtherPinAfter(n, e, f)
  BY <1>1, <1>3 DEF OtherPinAfter
<1> QED
  BY <1>4, <1>5 DEF Selected

(* A pin commit on an accepted head that lacks the pin is selected.        *)
LEMMA PinnedIsSelected ==
    ASSUME NEW m \in Seq(Commit), Len(m) > 0, NEW e \in 1..Len(m), NEW f \in Families,
           NEW up \in 1..MaxUp, Accepted(m, e, f, up, Len(m)), m[Len(m)].pin[f] # up
    PROVE  Selected(Append(m, [m[Len(m)] EXCEPT !.pin[f] = up]), e, f, up, Len(m) + 1)
<1> DEFINE c == [m[Len(m)] EXCEPT !.pin[f] = up]
           n == Append(m, c)
<1>1. m[Len(m)] \in Commit /\ Len(m) \in Nat
  OBVIOUS
<1>2. /\ c.src = m[Len(m)].src /\ c.pin[f] = up
      /\ \A g \in Families \ {f} : c.pin[g] = m[Len(m)].pin[g]
  BY <1>1 DEF Commit
<1>3. /\ Len(n) = Len(m) + 1 /\ n[Len(m) + 1] = c /\ \A i \in 1..Len(m) : n[i] = m[i]
  BY <1>1
<1> HIDE DEF c, n
<1>4. CASE Len(m) = e
  <2>1. n[e] = m[e] /\ n[e + 1] = c
    BY <1>3, <1>4
  <2>2. ChangedPins(n, e, e + 1) = {f}
    BY <1>2, <1>4, <2>1 DEF ChangedPins
  <2>3. Cardinality({f}) = 1
    BY FS_Singleton
  <2>4. Accepted(n, e, f, up, e + 1)
    BY <1>2, <1>4, <2>1, <2>2, <2>3 DEF Accepted
  <2> QED
    BY <1>4, <2>4 DEF Selected, n, c
<1>5. CASE Len(m) = e + 1
  <2>1. n[e] = m[e] /\ n[e + 1] = m[e + 1]
    BY <1>1, <1>3, <1>5
  <2>2. ChangedPins(n, e, e + 1) = ChangedPins(m, e, e + 1)
    BY <2>1 DEF ChangedPins
  <2>3. /\ m[e + 1].src = m[e].src /\ Cardinality(ChangedPins(m, e, e + 1)) = 1
        /\ f \notin ChangedPins(m, e, e + 1)
    BY <1>5 DEF Accepted
  <2>4. OtherPinAfter(n, e, f)
    BY <1>3, <1>5, <2>1, <2>2, <2>3 DEF OtherPinAfter
  <2>5. Len(m) + 1 = e + 2
    BY <1>5
  <2> QED
    BY <2>4, <2>5 DEF Selected, n, c
<1> QED
  BY <1>4, <1>5 DEF Accepted

(* The head check of the publish job.                                      *)
LEMMA FrozenIsAccepted ==
    ASSUME MainOK, NEW r \in Runs
    PROVE  FrozenHeadOk(r) <=> Accepted(main, event[r], FamilyOf[r], out[r].up, Len(main))
<1>1. Last(main) = main[Len(main)]
  BY DEF Last
<1>2. FamilyOf[r] \in Families
  BY PipelineAssumption
<1> QED
  BY <1>1, <1>2 DEF FrozenHeadOk, Accepted, ChangedPins

Takes(r, c) == Accepted(main, event[r], FamilyOf[r], out[r].up, c)
Selects(r, c) == Selected(main, event[r], FamilyOf[r], out[r].up, c)

(* A job's head is accepted and its wrapper commit selected; and so is the *)
(* target of every release with the tag that the run chose.                *)
WrapperInv ==
    /\ \A r \in Runs :
          /\ pc[r] \in PublishSteps => Takes(r, frozen[r])
          /\ pc[r] \in PublishSteps \ {"pin"} => Selects(r, wrapper[r])
    /\ \A r \in Runs, d \in releases :
          out[r] # NoBuild /\ d.tag = RunTag(r) => Selects(r, d.target)

(* The outputs of a build are on record with its run, and so is every tag  *)
(* that has a release.                                                     *)
TagsInv ==
    /\ \A r \in Runs : out[r] # NoBuild => [run |-> r, tag |-> RunTag(r)] \in reserved
    /\ \A d \in releases : \E y \in reserved : y.tag = d.tag

(* A release was there before with its tag and target, or it is the draft  *)
(* that a job creates.                                                     *)
LEMMA TargetsStay ==
    ASSUME ReleasesOK, [Next]_vars, NEW d \in releases'
    PROVE  \/ \E q \in releases : q.tag = d.tag /\ q.target = d.target
           \/ \E r \in Runs : CreateDraft(r) /\ d.tag = RunTag(r) /\ d.target = wrapper[r]
<1>1. Frame
  BY FrameOfStep
<1>2. \A q \in releases : q = [id |-> q.id, tag |-> q.tag, target |-> q.target,
                               draft |-> q.draft, assets |-> q.assets]
  BY DEF ReleasesOK, IsRelease
<1>3. ASSUME NEW q \in releases, NEW e, e.tag = q.tag, e.target = q.target, Update(q, e)
      PROVE  \E p \in releases : p.tag = d.tag /\ p.target = d.target
  BY <1>3 DEF Update
<1>4. ASSUME NEW q \in releases, NEW b
      PROVE  LET e == [q EXCEPT !.draft = b] IN e.tag = q.tag /\ e.target = q.target
  BY <1>2
<1>5. ASSUME NEW q \in releases, NEW a
      PROVE  LET e == [q EXCEPT !.assets = a] IN e.tag = q.tag /\ e.target = q.target
  BY <1>2
<1>6. ASSUME NEW r \in Runs, CreateDraft(r), d \notin releases
      PROVE  d.tag = RunTag(r) /\ d.target = wrapper[r]
  BY <1>6 DEF CreateDraft
<1>7. ASSUME NEW r \in Runs, ReconcileDraft(r) \/ PublishDraft(r)
      PROVE  \E p \in releases : p.tag = d.tag /\ p.target = d.target
  <2>1. PICK q \in releases, b \in BOOLEAN : Update(q, [q EXCEPT !.draft = b])
    BY <1>7 DEF ReconcileDraft, PublishDraft
  <2> QED
    BY <1>3, <1>4, <2>1
<1>8. ASSUME NEW r \in Runs, DeleteAsset(r)
      PROVE  \E p \in releases : p.tag = d.tag /\ p.target = d.target
  <2>1. PICK n \in todo[r], q \in releases :
           Update(q, [q EXCEPT !.assets = Restrict(@, DOMAIN @ \ {n})])
    BY <1>8 DEF DeleteAsset
  <2> QED
    BY <1>3, <1>5, <2>1
<1>9. ASSUME NEW r \in Runs, UploadAsset(r)
      PROVE  \E p \in releases : p.tag = d.tag /\ p.target = d.target
  <2>1. PICK n \in todo[r], q \in releases :
           Update(q, [q EXCEPT !.assets = [m \in DOMAIN @ \cup {n} |->
                                        IF m = n THEN CandidateAssets(r)[n] ELSE @[m]]])
    BY <1>9 DEF UploadAsset
  <2> QED
    BY <1>3, <1>5, <2>1
<1>10. CASE d \in releases
  BY <1>10
<1>11. CASE d \notin releases
  <2>1. releases' # releases
    BY <1>11
  <2> QED
    BY <1>1, <1>6, <1>7, <1>8, <1>9, <1>11, <2>1 DEF Frame
<1> QED
  BY <1>10, <1>11

LEMMA TagsStep ==
    ASSUME IInv, Unbuilt, TagsInv, [Next]_vars
    PROVE  TagsInv'
<1>1. reserved \subseteq reserved'
  BY FrameOfStep DEF Frame, Resolve
<1>2. out \in [Runs -> [up : 0..MaxUp, rev : 0..MaxRevision]]
  BY DEF IInv, Typed, OutOK
<1>3. ASSUME NEW r \in Runs, out'[r] # NoBuild
      PROVE  [run |-> r, tag |-> RunTag(r)'] \in reserved'
  <2>1. CASE out'[r] = out[r]
    <3>1. RunTag(r)' = RunTag(r)
      BY <2>1 DEF RunTag
    <3> QED
      BY <1>1, <1>3, <2>1, <3>1 DEF TagsInv
  <2>2. CASE out'[r] # out[r]
    <3>1. BuiltOf(r)
      BY BuiltStep DEF IInv, Typed
    <3>2. Resolve(r)
      BY <1>3, <2>2, <3>1 DEF BuiltOf
    <3>3. PICK up, rev : /\ out' = [out EXCEPT ![r] = [up |-> up, rev |-> rev]]
                         /\ reserved' = reserved \cup {[run |-> r, tag |-> Tag(FamilyOf[r], up, rev)]}
      BY <2>2, <3>2 DEF Resolve
    <3>4. RunTag(r)' = Tag(FamilyOf[r], up, rev)
      BY <1>2, <3>3 DEF RunTag
    <3> QED
      BY <3>3, <3>4
  <2> QED
    BY <2>1, <2>2
<1>4. ASSUME NEW d \in releases'
      PROVE  \E y \in reserved' : y.tag = d.tag
  <2>1. CASE \E q \in releases : q.tag = d.tag /\ q.target = d.target
    BY <1>1, <2>1 DEF TagsInv
  <2>2. ASSUME NEW r \in Runs, CreateDraft(r), d.tag = RunTag(r)
        PROVE  \E y \in reserved' : y.tag = d.tag
    <3>1. out[r].up > 0
      BY <2>2 DEF CreateDraft, IInv, HeadInv, HeadOf, Active, PublishSteps
    <3>2. out[r] # NoBuild
      BY <3>1 DEF NoBuild
    <3>3. [run |-> r, tag |-> RunTag(r)] \in reserved
      BY <3>2 DEF TagsInv
    <3> QED
      BY <1>1, <2>2, <3>3
  <2>3. ReleasesOK
    BY DEF IInv, Typed
  <2> QED
    BY <2>1, <2>2, <2>3, TargetsStay
<1> QED
  BY <1>3, <1>4 DEF TagsInv

(* A job's head, then its wrapper commit, then the target of its draft.    *)
LEMMA WrapperStep ==
    ASSUME IInv, Unbuilt, ChosenInv, RunsChooseDistinctTags, TagsInv, WrapperInv, [Next]_vars,
           RunsChooseDistinctTags', TagsInv'
    PROVE  WrapperInv'
<1>1. Frame
  BY FrameOfStep
<1>2. /\ pc \in [Runs -> Locations] /\ out \in [Runs -> [up : 0..MaxUp, rev : 0..MaxRevision]]
      /\ event \in [Runs -> 0..Len(main)] /\ frozen \in [Runs -> 0..Len(main)]
      /\ wrapper \in [Runs -> 0..Len(main)]
  BY DEF IInv, Typed, JobsOK, OutOK, RefsOK
<1>3. /\ main \in Seq(Commit) /\ Len(main) \in Nat /\ Len(main') \in Nat /\ Len(main) > 0
      /\ Len(main) <= Len(main') /\ \A i \in 1..Len(main) : main'[i] = main[i]
  BY MainStep DEF IInv, Typed, MainOK
<1>4. ASSUME NEW s \in Runs, pc[s] # "none" PROVE event[s] \in 1..Len(main)
  <2>1. event[s] > 0
    BY <1>4 DEF IInv, HeadInv, HeadOf
  <2> QED
    BY <1>2, <1>3, <2>1
<1>5. ASSUME NEW s \in Runs, pc[s] # "none", event'[s] = event[s], out'[s] = out[s],
             NEW c \in 1..Len(main)
      PROVE  /\ Takes(s, c) => Accepted(main', event'[s], FamilyOf[s], out'[s].up, c)
             /\ Selects(s, c) => Selected(main', event'[s], FamilyOf[s], out'[s].up, c)
  <2>1. event[s] \in 1..Len(main)
    BY <1>4, <1>5
  <2> QED
    BY <1>3, <1>5, <2>1, SelectedStays DEF Takes, Selects
<1>6. ASSUME NEW s \in Runs, pc'[s] \in PublishSteps
      PROVE  /\ Idle(s) \/ Proceeds(s)
             /\ pc[s] \in Active /\ pc[s] # "none" /\ event'[s] = event[s] /\ out'[s] = out[s]
  <2>1. Idle(s) \/ Proceeds(s)
    BY <1>6, PublisherSteps DEF IInv, Typed
  <2> QED
    BY <1>6, <2>1 DEF Active, BuildSteps, PublishSteps, Idle, Proceeds, Freeze, KeepPin, PushPin,
       ConfirmMain, Recover, PlanCreate, PlanReuse, CreateDraft, ReconcileDraft, DeleteAsset, DeletesDone,
       SelectUpload, UploadAsset, UploadsDone, PollReady, PollAgain, PublishDraft, Goto
<1>7. ASSUME NEW s \in Runs, pc'[s] \in PublishSteps
      PROVE  Accepted(main', event'[s], FamilyOf[s], out'[s].up, frozen'[s])
  <2>1. CASE Freeze(s)
    <3>1. FrozenHeadOk(s) /\ main' = main /\ frozen'[s] = Len(main)
      BY <1>2, <2>1 DEF Freeze, github
    <3>2. Accepted(main, event[s], FamilyOf[s], out[s].up, Len(main))
      BY <3>1, FrozenIsAccepted DEF IInv, Typed
    <3> QED
      BY <1>6, <1>7, <3>1, <3>2
  <2>2. CASE ~Freeze(s)
    <3>1. pc[s] \in PublishSteps
      BY <1>6, <1>7, <2>2 DEF PublishSteps, Idle, Proceeds, KeepPin, PushPin,
         ConfirmMain, Recover, PlanCreate, PlanReuse, CreateDraft, ReconcileDraft, DeleteAsset, DeletesDone,
         SelectUpload, UploadAsset, UploadsDone, PollReady, PollAgain, PublishDraft
    <3>2. ASSUME NEW r \in Runs, NEW how \in Stopped, End(r, how) PROVE frozen'[s] = frozen[s]
      <4>1. r # s
        BY <1>2, <1>7, <3>2 DEF End, Stopped, PublishSteps
      <4> QED
        BY <1>2, <3>2, <4>1 DEF End
    <3>3. ASSUME NEW r \in Runs, Freeze(r) PROVE frozen'[s] = frozen[s]
      BY <1>2, <2>2, <3>3 DEF Freeze
    <3>4. frozen'[s] = frozen[s]
      BY <1>1, <3>2, <3>3 DEF Frame
    <3>5. frozen[s] > 0
      BY <3>1 DEF IInv, HeadInv, HeadOf
    <3>6. frozen[s] \in 1..Len(main)
      BY <1>2, <1>3, <3>5
    <3>7. Takes(s, frozen[s])
      BY <3>1 DEF WrapperInv
    <3> QED
      BY <1>5, <1>6, <1>7, <3>4, <3>6, <3>7
  <2> QED
    BY <2>1, <2>2
<1>8. ASSUME NEW s \in Runs, pc[s] \in PublishSteps, wrapper[s] > 0 PROVE wrapper[s] \in 1..Len(main)
  BY <1>2, <1>3, <1>8
<1>9. ASSUME NEW s \in Runs, pc'[s] \in PublishSteps \ {"pin"}
      PROVE  Selected(main', event'[s], FamilyOf[s], out'[s].up, wrapper'[s])
  <2>1. event'[s] = event[s] /\ out'[s] = out[s] /\ pc[s] # "none"
    BY <1>6, <1>9
  <2>2. CASE KeepPin(s)
    <3>1. wrapper'[s] = frozen[s] /\ pc[s] \in PublishSteps /\ main' = main
      BY <1>2, <2>2 DEF KeepPin, PublishSteps, github
    <3>2. Takes(s, frozen[s])
      BY <3>1 DEF WrapperInv
    <3> QED
      BY <2>1, <3>1, <3>2 DEF Takes, Selected
  <2>3. CASE PushPin(s)
    <3>1. /\ pc[s] \in PublishSteps /\ ~Pinned(s) /\ Len(main) = frozen[s]
          /\ main' = Append(main, [main[Len(main)] EXCEPT !.pin[FamilyOf[s]] = out[s].up])
          /\ wrapper'[s] = Len(main')
      BY <1>2, <2>3 DEF PushPin, PublishSteps, Last
    <3>2. Accepted(main, event[s], FamilyOf[s], out[s].up, Len(main))
      BY <3>1 DEF WrapperInv, Takes
    <3>3. out[s].up > 0 /\ out[s].up \in 0..MaxUp
      BY <1>2, <3>1 DEF IInv, HeadInv, HeadOf, Active
    <3>4. out[s].up \in 1..MaxUp /\ FamilyOf[s] \in Families /\ event[s] \in 1..Len(main)
      BY <1>4, <2>1, <3>3, PipelineAssumption
    <3>5. main[Len(main)].pin[FamilyOf[s]] # out[s].up
      BY <3>1 DEF Pinned
    <3>6. Selected(main', event[s], FamilyOf[s], out[s].up, Len(main) + 1)
      BY <1>3, <3>1, <3>2, <3>4, <3>5, PinnedIsSelected
    <3>7. Len(main') = Len(main) + 1
      BY <1>3, <3>1
    <3> QED
      BY <2>1, <3>1, <3>6, <3>7
  <2>4. CASE ~KeepPin(s) /\ ~PushPin(s)
    <3>1. pc[s] \in PublishSteps \ {"pin"} /\ wrapper'[s] = wrapper[s]
      <4>1. CASE Idle(s)
        BY <1>9, <4>1 DEF Idle
      <4>2. CASE Proceeds(s)
        <5>1. pc[s] \in PublishSteps \ {"pin"}
          BY <1>2, <1>9, <2>4, <4>2 DEF PublishSteps, Proceeds, Freeze, ConfirmMain,
             Recover, PlanCreate, PlanReuse, CreateDraft, ReconcileDraft, DeleteAsset, DeletesDone,
             SelectUpload, UploadAsset, UploadsDone, PollReady, PollAgain, PublishDraft
        <5>2. wrapper' = wrapper
          BY <2>4, <4>2 DEF Proceeds, Freeze, publish,
             ConfirmMain, Recover, PlanCreate, PlanReuse, CreateDraft, ReconcileDraft, DeleteAsset, DeletesDone,
             SelectUpload, UploadAsset, UploadsDone, PollReady, PollAgain, PublishDraft, Goto
        <5> QED
          BY <5>1, <5>2
      <4> QED
        BY <1>6, <1>9, <4>1, <4>2
    <3>2. wrapper[s] > 0 /\ Selects(s, wrapper[s])
      BY <3>1 DEF IInv, HeadInv, HeadOf, WrapperInv
    <3> QED
      BY <1>5, <1>8, <2>1, <3>1, <3>2
  <2> QED
    BY <2>2, <2>3, <2>4
<1>10. ASSUME NEW r \in Runs, NEW d \in releases', out'[r] # NoBuild, d.tag = RunTag(r)'
       PROVE  Selected(main', event'[r], FamilyOf[r], out'[r].up, d.target)
  <2>1. BuiltOf(r)
    BY BuiltStep DEF IInv, Typed
  <2>2. CASE out'[r] = out[r]
    <3>1. pc[r] # "none"
      BY <1>10, <2>2 DEF Unbuilt
    <3>2. event'[r] = event[r] /\ RunTag(r)' = RunTag(r)
      BY <1>10, <2>1, <2>2 DEF BuiltOf, Resolve, RunTag
    <3>3. ASSUME NEW q \in releases, q.tag = d.tag, q.target = d.target
          PROVE  Selected(main', event'[r], FamilyOf[r], out'[r].up, d.target)
      <4>1. Selects(r, d.target)
        BY <1>10, <2>2, <3>2, <3>3 DEF WrapperInv
      <4>2. d.target \in 1..Len(main)
        BY <3>3 DEF IInv, Typed, ReleasesOK, IsRelease
      <4> QED
        BY <1>5, <2>2, <3>1, <3>2, <4>1, <4>2
    <3>4. ASSUME NEW s \in Runs, CreateDraft(s), d.tag = RunTag(s), d.target = wrapper[s]
          PROVE  Selected(main', event'[r], FamilyOf[r], out'[r].up, d.target)
      <4>1. pc[s] \in PublishSteps \ {"pin"}
        BY <3>4 DEF CreateDraft, PublishSteps
      <4>2. out[s].up > 0 /\ wrapper[s] > 0 /\ Selects(s, wrapper[s])
        BY <4>1 DEF IInv, HeadInv, HeadOf, Active, WrapperInv
      <4>3. out[s] # NoBuild
        BY <4>2 DEF NoBuild
      <4>4. /\ [run |-> r, tag |-> RunTag(r)] \in reserved
            /\ [run |-> s, tag |-> RunTag(s)] \in reserved
        BY <1>10, <2>2, <4>3 DEF TagsInv
      <4>5. r = s
        BY <1>10, <3>2, <3>4, <4>4 DEF RunsChooseDistinctTags
      <4> QED
        BY <1>5, <1>8, <2>2, <3>1, <3>2, <3>4, <4>1, <4>2, <4>5
    <3>5. ReleasesOK
      BY DEF IInv, Typed
    <3> QED
      BY <3>3, <3>4, <3>5, TargetsStay
  <2>3. CASE out'[r] # out[r]
    <3>1. Resolve(r)
      BY <1>10, <2>1, <2>3 DEF BuiltOf
    <3>2. d \in releases /\ pc[r] \in Waiting /\ reserved \subseteq reserved'
      BY <1>10, <3>1 DEF Resolve, github, Waiting
    <3>3. PICK y \in reserved : y.tag = d.tag
      BY <3>2 DEF TagsInv
    <3>4. y.run # r
      BY <3>2, <3>3 DEF ChosenInv
    <3>5. [run |-> r, tag |-> RunTag(r)'] \in reserved'
      BY <1>10 DEF TagsInv
    <3>6. y.run = r
      BY <1>10, <3>2, <3>3, <3>5 DEF RunsChooseDistinctTags
    <3> QED
      BY <3>4, <3>6
  <2> QED
    BY <2>2, <2>3
<1> QED
  BY <1>7, <1>9, <1>10 DEF WrapperInv, Takes, Selects

(* The head that a rerun finds is the wrapper commit of its draft, yet the *)
(* head check refuses it.                                                  *)
Refused(r) ==
    /\ pc[r] = "built"
    /\ \E d \in DraftsOf(releases, RunTag(r)) : d.target = Len(main)
    /\ ~FrozenHeadOk(r)

(* There is one reason for that: between the event commit and the run's    *)
(* own pin commit, which is the head, another family's pins were changed.  *)
RefusedForOtherPin ==
    \A r \in Runs :
        Refused(r) => Len(main) = event[r] + 2 /\ OtherPinAfter(main, event[r], FamilyOf[r])

(* "Publisher-only reruns empty and reuse their exact draft" (README.md:   *)
(* 51-52): unless all jobs of some run were rerun, the head check refuses  *)
(* the wrapper commit of a rerun's own draft for that reason only.         *)
THEOREM RerunRefusedForOtherPin == Spec /\ [][NoRerunAll]_vars => []RefusedForOtherPin
<1>1. Init => Unbuilt /\ TagsInv /\ WrapperInv
  BY DEF Init, Unbuilt, TagsInv, WrapperInv, PublishSteps
<1>2. IInv /\ (OrderInv /\ ChosenInv /\ RunsChooseDistinctTags) /\ Unbuilt /\ TagsInv /\ WrapperInv
        /\ [Next]_vars /\ (OrderInv /\ ChosenInv /\ RunsChooseDistinctTags)' =>
            (Unbuilt /\ TagsInv /\ WrapperInv)'
  <2> SUFFICES ASSUME IInv, ChosenInv, RunsChooseDistinctTags, Unbuilt, TagsInv, WrapperInv,
                      [Next]_vars, RunsChooseDistinctTags'
               PROVE  (Unbuilt /\ TagsInv /\ WrapperInv)'
    OBVIOUS
  <2>1. Unbuilt'
    BY UnbuiltStep
  <2>2. TagsInv'
    BY TagsStep
  <2>3. WrapperInv'
    BY <2>2, WrapperStep
  <2> QED
    BY <2>1, <2>2, <2>3
<1>3. IInv /\ WrapperInv => RefusedForOtherPin
  <2> SUFFICES ASSUME IInv, WrapperInv, NEW r \in Runs, Refused(r)
               PROVE  Len(main) = event[r] + 2 /\ OtherPinAfter(main, event[r], FamilyOf[r])
    BY DEF RefusedForOtherPin
  <2>1. out[r].up > 0
    BY DEF Refused, IInv, HeadInv, HeadOf, Active, BuildSteps
  <2>2. out[r] # NoBuild
    BY <2>1 DEF NoBuild
  <2>3. Selects(r, Len(main))
    BY <2>2 DEF Refused, DraftsOf, WrapperInv
  <2>4. ~Takes(r, Len(main))
    BY FrozenIsAccepted DEF Refused, Takes, IInv, Typed
  <2> QED
    BY <2>3, <2>4 DEF Selects, Takes, Selected
<1> QED
  BY <1>1, <1>2, <1>3, Inductive, DistinctInductive, PTL DEF Spec

(* With one family the rerun always reuses its draft.                      *)
THEOREM RerunReusesWithOneFamily ==
    ASSUME \A f, g \in Families : f = g
    PROVE  Spec /\ [][NoRerunAll]_vars => []RerunReusesDraft
<1>1. RefusedForOtherPin => RerunReusesDraft
  <2> SUFFICES ASSUME RefusedForOtherPin, NEW r \in Runs, Refused(r) PROVE FALSE
    BY DEF RerunReusesDraft, Refused
  <2>1. OtherPinAfter(main, event[r], FamilyOf[r]) /\ FamilyOf[r] \in Families
    BY PipelineAssumption DEF RefusedForOtherPin
  <2>2. ChangedPins(main, event[r], event[r] + 1) = {}
    BY <2>1 DEF OtherPinAfter, ChangedPins
  <2>3. Cardinality(ChangedPins(main, event[r], event[r] + 1)) = 0
    BY <2>2, FS_EmptySet
  <2> QED
    BY <2>1, <2>3 DEF OtherPinAfter
<1> QED
  BY <1>1, RerunRefusedForOtherPin, PTL


-----------------------------------------------------------------------------
(* What users see.                                                         *)

(* A public release as users see it.                                       *)
ShownAs(p) == [tag |-> p.tag, target |-> p.target, assets |-> p.assets]

(* A job's flip publishes its draft, under a tag that nothing public has.  *)
LEMMA FlipPublishes ==
    ASSUME IInv, IInv', NEW r \in Runs, NEW d \in releases, NEW e, Flips(r, d, e)
    PROVE  Channel!Publish(ShownAs(e))
<1> DEFINE p == ShownAs(e)
<1>1. p.tag = e.tag /\ p.target = e.target /\ p.assets = e.assets
  BY DEF ShownAs
<1>2. e \in Public' /\ e.tag = RunTag(r) /\ e.target = wrapper[r] /\ main' = main
  BY DEF Flips, PublishDraft, Update
<1>3. /\ PublishedOf(releases, RunTag(r)) = {}
      /\ TagIsOrMissing(gitTags, RunTag(r), wrapper[r])
  BY DEF Flips, PublishDraft, IInv, DraftInv, DraftOf, Drafting
<1>4. \A q \in Shown : q.tag # p.tag
  BY <1>1, <1>2, <1>3 DEF Shown, Public, PublishedOf
<1>5. Shown' = Shown \cup {p}
  BY DEF Flips, Shown, ShownAs
<1>6. gitTags' = gitTags \cup {[tag |-> p.tag, commit |-> p.target]}
  <2>1. CASE TagRefs(gitTags, RunTag(r)) = {}
    BY <1>1, <1>2, <2>1 DEF Flips
  <2>2. CASE TagRefs(gitTags, RunTag(r)) # {}
    <3>1. [tag |-> RunTag(r), commit |-> wrapper[r]] \in gitTags
      BY <1>3, <2>2 DEF TagIsOrMissing, TagIs, TagRefs
    <3>2. gitTags' = gitTags
      BY <2>2 DEF Flips
    <3> QED
      BY <1>1, <1>2, <3>1, <3>2
  <2> QED
    BY <2>1, <2>2
<1>7. p.target \in 1..Len(main) /\ p.tag.family \in Families
  BY <1>1, <1>2 DEF IInv, Typed, ReleasesOK, IsRelease, TagType, Public
<1>8. /\ e.assets = [n \in AssetNames[e.tag.family] |->
                        [src |-> main[e.target].src, up |-> e.tag.up,
                         wrapper |-> IF n = "manifest" THEN e.target ELSE 0]]
      /\ main[e.target].pin[e.tag.family] = e.tag.up
  BY <1>2 DEF IInv, PublicIsComplete, Content
<1>9. Channel!Complete(p)
  BY <1>1, <1>7, <1>8 DEF Channel!Complete
<1> HIDE DEF p
<1>10. Channel!Publish(p)
  BY <1>2, <1>4, <1>5, <1>6, <1>9 DEF Channel!Publish
<1> QED
  BY <1>10 DEF p

(* Every other step extends main or shows nothing.                         *)
LEMMA ChannelStep == IInv /\ IInv' /\ [Next]_vars => [Channel!Next]_(Channel!vars)
<1> SUFFICES ASSUME IInv, IInv', [Next]_vars PROVE [Channel!Next]_(Channel!vars)
  OBVIOUS
<1>1. ASSUME NEW r \in Runs, NEW d \in releases, NEW e, Flips(r, d, e)
      PROVE  Channel!Next
  <2>1. Channel!Publish(ShownAs(e))
    BY <1>1, FlipPublishes
  <2>2. ShownAs(e) \in Shown'
    BY <1>1 DEF Flips, Shown, ShownAs
  <2> QED
    BY <2>1, <2>2 DEF Channel!Next
<1>2. CASE UNCHANGED <<Public, gitTags>>
  <2>1. Shown' = Shown
    BY <1>2 DEF Shown
  <2>2. CASE main' = main
    BY <1>2, <2>1, <2>2 DEF Channel!vars
  <2>3. CASE main' # main
    <3>1. PICK c : main' = Append(main, c)
      BY <2>3, FrameOfStep DEF Frame, DevPush, PushPin
    <3>2. main \in Seq(Commit) /\ main' \in Seq(Commit)
      BY DEF IInv, Typed, MainOK
    <3>3. c = main'[Len(main) + 1] /\ Len(main') = Len(main) + 1
      BY <3>1, <3>2
    <3>4. c \in Commit
      BY <3>2, <3>3
    <3>5. Channel!Extend
      BY <1>2, <2>1, <3>1, <3>4 DEF Channel!Extend
    <3> QED
      BY <3>5 DEF Channel!Next
  <2> QED
    BY <2>2, <2>3
<1> QED
  BY <1>1, <1>2, PublicStep DEF IInv

(* "only then makes the release public" (README.md:50-51): for any number  *)
(* of runs, reruns and crashes, and lists that hide any drafts, users see  *)
(* whole releases appear, each at once and with a tag of its own.          *)
THEOREM ImplementsReleaseChannel == Spec => ImplementsChannel
<1>1. Init => Channel!Init
  <2> SUFFICES ASSUME Init PROVE Channel!Init
    OBVIOUS
  <2>1. main = <<main[1]>> /\ main[1] \in Commit
    BY PipelineAssumption DEF Init, Commit
  <2>2. Shown = {} /\ gitTags = {}
    BY DEF Init, Shown, Public
  <2> QED
    BY <2>1, <2>2 DEF Channel!Init
<1>2. IInv /\ IInv' /\ [Next]_vars => [Channel!Next]_(Channel!vars)
  BY ChannelStep
<1> QED
  BY <1>1, <1>2, Inductive, PTL DEF Spec, ImplementsChannel, Channel!Spec
=============================================================================
