--------------------------- MODULE ReleaseChannel ---------------------------
(***************************************************************************)
(* What the publishers promise to those who only see the repository's main *)
(* branch, its public releases and its tags: main is only extended, and a  *)
(* release appears at once, complete, under a tag that had none, together  *)
(* with the tag, which points to the commit of main that it was built from *)
(* and that pins its upstream.  Nothing of it ever changes or goes away.   *)
(* ReleasePipeline is shown to implement this module.                      *)
(***************************************************************************)
EXTENDS Naturals, Sequences

CONSTANTS
    Families,       \* the core families
    AssetNames,     \* the asset names each family publishes
    Commits         \* what a commit may be: sources and pinned upstreams

VARIABLES
    main,       \* the commits of the main branch
    public,     \* the public releases: tag, target commit and assets
    tags        \* the tag references

vars == <<main, public, tags>>

Init ==
    /\ \E c \in Commits : main = <<c>>
    /\ public = {}
    /\ tags = {}

(* A developer's or a publisher's commit.                                  *)
Extend ==
    /\ \E c \in Commits : main' = Append(main, c)
    /\ UNCHANGED <<public, tags>>

(* A release is what its commit and its tag say; the manifest names them.  *)
Complete(p) ==
    /\ p.target \in 1..Len(main)
    /\ p.tag.family \in Families
    /\ main[p.target].pin[p.tag.family] = p.tag.up
    /\ p.assets = [n \in AssetNames[p.tag.family] |->
                      [src |-> main[p.target].src, up |-> p.tag.up,
                       wrapper |-> IF n = "manifest" THEN p.target ELSE 0]]

Publish(p) ==
    /\ \A q \in public : q.tag # p.tag
    /\ Complete(p)
    /\ public' = public \cup {p}
    /\ tags' = tags \cup {[tag |-> p.tag, commit |-> p.target]}
    /\ UNCHANGED main

Next == Extend \/ \E p \in public' : Publish(p)

Spec == Init /\ [][Next]_vars
=============================================================================
