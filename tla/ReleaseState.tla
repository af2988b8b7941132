--------------------------- MODULE ReleaseState ---------------------------
(***************************************************************************)
(* The pure decisions of scripts/release_draft_state.py and of the jq      *)
(* filters around it, over a release list as the GitHub API returns it: a  *)
(* set of records with a tag, a target commit, a draft flag and the assets *)
(* uploaded so far (a function from asset names to contents).  A tag       *)
(* <family>-<upstream>-w<rev> is the record of its three parts.            *)
(***************************************************************************)
EXTENDS Naturals, FiniteSets, FiniteSetsExt

Tag(f, up, rev) == [family |-> f, up |-> up, rev |-> rev]

(* Mutant: a public release is taken for no match at all.                  *)
PublishedOfNothing(releases, tag) == {}

(* _exact_matches: the drafts and the public releases of one exact tag.    *)
DraftsOf(releases, tag) == {d \in releases : d.tag = tag /\ d.draft}
PublishedOf(releases, tag) == {p \in releases : p.tag = tag /\ ~p.draft}

(* prepare_plan raises unless the tag is not public, has at most one draft *)
(* and that draft targets the expected wrapper commit.                     *)
PlanAllowed(releases, tag, commit) ==
    /\ PublishedOf(releases, tag) = {}
    /\ Cardinality(DraftsOf(releases, tag)) <= 1
    /\ \A d \in DraftsOf(releases, tag) : d.target = commit

(* verified_ready_draft returns the draft: exactly the expected assets.    *)
ReadyDraft(releases, tag, commit, expected, d) ==
    /\ PlanAllowed(releases, tag, commit)
    /\ d \in DraftsOf(releases, tag)
    /\ DOMAIN d.assets = expected

(* verified_ready_draft raises DraftNotReady: exit status 75, try again.   *)
DraftNotReady(releases, tag, commit, expected) ==
    /\ PlanAllowed(releases, tag, commit)
    /\ \A d \in DraftsOf(releases, tag) :
          DOMAIN d.assets \subseteq expected /\ DOMAIN d.assets # expected

(* next_wrapper_revision: the largest listed revision of this upstream,    *)
(* plus the offset of the run.                                             *)
NextRevision(releases, f, up, offset) ==
    offset + Max({1} \cup {r.tag.rev : r \in {q \in releases : q.tag.family = f /\ q.tag.up = up}})

(* ensure_not_downgrade raises when a newer upstream is already public.    *)
IsDowngrade(releases, f, up) ==
    \E p \in releases : ~p.draft /\ p.tag.family = f /\ p.tag.up > up

(* verify_tag_references, with and without --allow-missing.                *)
TagRefs(gitTags, tag) == {g \in gitTags : g.tag = tag}
TagIs(gitTags, tag, commit) == TagRefs(gitTags, tag) = {[tag |-> tag, commit |-> commit]}
TagIsOrMissing(gitTags, tag, commit) ==
    TagRefs(gitTags, tag) = {} \/ TagIs(gitTags, tag, commit)

(* The last public release of one upstream, by wrapper revision.           *)
LatestPublished(releases, f, up) ==
    LET public == {p \in releases : ~p.draft /\ p.tag.family = f /\ p.tag.up = up}
    IN  {p \in public : \A q \in public : q.tag.rev <= p.tag.rev}
=============================================================================
