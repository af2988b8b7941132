-------------------------- MODULE CandidateHandoff --------------------------
(***************************************************************************)
(* scripts/candidate_handoff.py and the way a sing-box candidate takes     *)
(* with it, from the build job's output to a public release: create copies *)
(* the artifacts, the ELF attestation and the pin snapshot into a          *)
(* directory and writes their digests into the handoff; the publisher      *)
(* verifies the directory against the digest of that handoff before every  *)
(* use, adds the manifest, uploads, compares the draft with the disk,      *)
(* publishes and verifies the public release.                              *)
(*                                                                         *)
(* Other processes change files meanwhile.  A file is two halves, read one *)
(* after the other, and a stamp: its identity in the sense of _identity.   *)
(* A digest stands for the contents.  The contents Original are the ones   *)
(* that the attestation, the snapshot's digest and the handoff's digest    *)
(* name; what the handoff says is in record.  The manifest is named by no  *)
(* digest: whatever is under its name is parsed, so that what it says is   *)
(* part of its contents.  The upload of the directory by one job and its   *)
(* download by the other are no step: if they lose something, that is a    *)
(* change like the others.                                                 *)
(***************************************************************************)
EXTENDS Naturals, SequencesExt

CONSTANTS
    Artifacts,  \* the names to publish, sorted
    Cores,      \* the ones that the attestation names
    Snapshot,   \* SNAPSHOT_FILES
    Stray,      \* a name that has no place in the directory
    Values,     \* what half of a file may hold
    Original,   \* the contents that were attested, frozen or recorded
    Absent,     \* no such file
    MaxChanges  \* bound: changes by others

Contents == Values \X Values
Anything == Contents \cup {Absent}
Given == ToSet(Artifacts \o Snapshot) \cup {"attestation"}
Names == Given \cup {"handoff", "manifest", Stray}
Root == Given \cup {"handoff"}

(* A manifest: the release tag and the commits (pins: they are this run's) *)
(* and the digest of the source bundle come before the digests of the      *)
(* cores.  A half that is Absent is garbled.  What no check compares, the  *)
(* Go version for one, is left out.                                        *)
FirstHalf == [pins : BOOLEAN, lists : [ToSet(Artifacts) \ Cores -> Contents]]
SecondHalf == [Cores -> Contents]
Manifests == (FirstHalf \cup {Absent}) \X (SecondHalf \cup {Absent})

Parses(data) == data \in FirstHalf \X SecondHalf
Says(data) ==
    [f \in ToSet(Artifacts) |-> IF f \in Cores THEN data[2][f] ELSE data[1].lists[f]]
Written(listing) ==
    <<[pins |-> TRUE, lists |-> [f \in ToSet(Artifacts) \ Cores |-> listing[f]]],
      [f \in Cores |-> listing[f]]>>

Holds(f) == IF f = "manifest" THEN Manifests ELSE Contents

(* The artifacts have different names, and none has that of a document; no *)
(* file of the snapshot is called like the manifest.                       *)
ASSUME HandoffAssumption ==
    /\ Artifacts \in Seq(STRING) /\ Snapshot \in Seq(STRING)
    /\ Cores \subseteq ToSet(Artifacts)
    /\ IsInjective(Artifacts)
    /\ ToSet(Artifacts) \cap {"attestation", "handoff", "manifest"} = {}
    /\ "manifest" \notin ToSet(Snapshot)
    /\ Original \in Contents /\ Absent \notin Contents \cup Manifests
    /\ MaxChanges \in Nat

-----------------------------------------------------------------------------
(* What the two jobs do, in order.                                         *)

Step(op, file) == [op |-> op, file |-> file]
Each(op, files) == [i \in DOMAIN files |-> Step(op, files[i])]

(* Every artifact is copied, and its copy read again.                      *)
Copies ==
    [i \in 1..2 * Len(Artifacts) |->
        IF i % 2 = 1 THEN Step("copy", Artifacts[(i + 1) \div 2])
                     ELSE Step("recheck", Artifacts[i \div 2])]

(* create_handoff, before it verifies what it made.                        *)
Creation ==
    Each("take", <<"attestation">> \o Snapshot)
    \o <<Step("mkdir", Stray)>>
    \o Copies
    \o Each("write", <<"attestation">> \o Snapshot \o <<"handoff">>)

(* verify_handoff; extra is <<"manifest">> with --allow-final-manifest.    *)
Verification(extra) ==
    <<Step("names", IF extra = <<>> THEN "handoff" ELSE "manifest")>>
    \o Each("check", extra \o <<"handoff">> \o Snapshot \o <<"attestation">> \o Artifacts)
    \o <<Step("names", IF extra = <<>> THEN "handoff" ELSE "manifest")>>

(* Generate and verify final manifest, without the last verification.      *)
Manifest ==
    Each("list", Artifacts)
    \o <<Step("writeManifest", "manifest"), Step("parse", "manifest")>>
    \o Each("confirm", Artifacts)

(* Create verified draft and publish atomically.                           *)
Publication ==
    Each("upload", Artifacts \o <<"manifest">>)
    \o <<Step("remote", "manifest")>>
    \o Each("digest", Artifacts \o <<"manifest">>)
    \o <<Step("publish", Stray)>>

(* verify_published_candidate, then verify_remote_release.                 *)
Live ==
    Verification(<<"manifest">>)
    \o Each("live", <<"manifest">> \o Artifacts)
    \o <<Step("remote", "manifest")>>

Script ==
    Creation \o Verification(<<>>)
    \o Verification(<<>>) \o Verification(<<>>) \o Manifest
    \o Verification(<<"manifest">>) \o Publication \o Live

-----------------------------------------------------------------------------
VARIABLES
    input,      \* what the build left: dist, the attestation, the snapshot
    candidate,  \* the candidate directory
    changes,    \* changes by others so far
    edits,      \* history: how many of them were to each file of the candidate
    at,         \* position in the script
    pc,         \* progress with the file at hand
    mark,       \* its identity when it was opened
    part,       \* what was read of it
    had,        \* history: what it has held since it was opened
    seen,       \* what create took
    record,     \* what the handoff lists
    listed,     \* what the manifest will list and then, as parsed, lists
    remote,     \* the assets of the release
    public      \* the release is no longer a draft

files == <<input, candidate, changes, edits>>
reading == <<mark, part, had>>
results == <<seen, record, listed, remote, public>>
vars == <<files, at, pc, reading, results>>

Stored == Contents \cup Manifests \cup {Absent}
Stamped == [data : Stored, stamp : 0..MaxChanges]
IsKept(data, f) == data \in Holds(f) \cup {Absent}

TypeOK ==
    /\ input \in [Given -> Stamped]
    /\ candidate \in [Names -> Stamped]
    /\ \A f \in Given : IsKept(input[f].data, f)
    /\ \A f \in Names : IsKept(candidate[f].data, f)
    /\ changes \in 0..MaxChanges
    /\ edits \in [Names -> 0..MaxChanges]
    /\ at \in 1..Len(Script) + 1
    /\ pc \in {"ready", "half", "rest", "read", "failed"}
    /\ mark \in 0..MaxChanges
    /\ pc \in {"half", "rest", "read"} => part \in Holds(Script[at].file)
    /\ pc \in {"ready", "failed"} => part = Absent
    /\ had \subseteq Stored
    /\ {seen, record} \subseteq [Given -> Anything]
    /\ listed \in [ToSet(Artifacts) -> Contents]
    /\ remote \in [ToSet(Artifacts) \cup {"manifest"} -> Stored]
    /\ \A f \in DOMAIN remote : IsKept(remote[f], f)
    /\ public \in BOOLEAN

Init ==
    /\ input = [f \in Given |-> [data |-> Original, stamp |-> 0]]
    /\ candidate = [f \in Names |-> [data |-> Absent, stamp |-> 0]]
    /\ changes = 0
    /\ edits = [f \in Names |-> 0]
    /\ at = 1
    /\ pc = "ready"
    /\ mark = 0
    /\ part = Absent
    /\ had = {}
    /\ seen = [f \in Given |-> Absent]
    /\ record = [f \in Given |-> Absent]
    /\ listed = [f \in ToSet(Artifacts) |-> Original] \* not read before it is set
    /\ remote = [f \in ToSet(Artifacts) \cup {"manifest"} |-> Absent]
    /\ public = FALSE

Running == at <= Len(Script) /\ pc # "failed"
Op == Script[at].op
File == Script[at].file

(* The directory in which the step at hand reads.                          *)
FromInput == Op \in {"take", "copy"}
Here == IF FromInput THEN input[File] ELSE candidate[File]

-----------------------------------------------------------------------------
(* Another process writes to a file, removes it or puts another in its     *)
(* place.  Of the input only the files count that are still to be read.    *)

Changed(f) == [data : Holds(f) \cup {Absent}, stamp : {changes + 1}]

Change(f, isInput) ==
    /\ Running
    /\ changes < MaxChanges
    /\ changes' = changes + 1
    /\ had' = IF pc # "ready" /\ f = File /\ isInput = FromInput
              THEN had \cup {IF isInput THEN input'[f].data ELSE candidate'[f].data} ELSE had
    /\ UNCHANGED <<at, pc, mark, part, results>>

ChangeInput(f) ==
    /\ \E k \in at..Len(Creation) : Creation[k] \in {Step("take", f), Step("copy", f)}
    /\ \E entry \in Changed(f) : input' = [input EXCEPT ![f] = entry]
    /\ UNCHANGED <<candidate, edits>>
    /\ Change(f, TRUE)

ChangeCandidate(f) ==
    /\ at > 1 + Len(Snapshot) + 1
    /\ \E entry \in Changed(f) : candidate' = [candidate EXCEPT ![f] = entry]
    /\ edits' = [edits EXCEPT ![f] = @ + 1]
    /\ UNCHANGED input
    /\ Change(f, FALSE)

-----------------------------------------------------------------------------
(* Reading a file.  The readers of candidate_handoff compare its identity  *)
(* before, in and after the read; the other tools just read.               *)

Advance(ok) ==
    /\ at' = IF ok THEN at + 1 ELSE at
    /\ pc' = IF ok THEN "ready" ELSE "failed"
    /\ mark' = 0
    /\ part' = Absent
    /\ had' = {}

Stable == {"take", "copy", "recheck", "check", "live"}
Plain == {"list", "parse", "confirm", "upload", "remote", "digest"}

Open ==
    /\ Running /\ pc = "ready"
    /\ Op \in Stable \cup Plain
    /\ pc' = IF Here.data = Absent THEN "failed" ELSE "half"
    /\ mark' = Here.stamp
    /\ part' = Here.data
    /\ had' = {Here.data}
    /\ UNCHANGED <<files, at, results>>

(* Mutant: what was added to the file meanwhile is read as well.           *)
ReadOn ==
    /\ Running
    /\ \/ /\ pc = "half"
          /\ pc' = "rest"
          /\ part' = IF Here.data = Absent THEN part ELSE <<Here.data[1], part[2]>>
       \/ /\ pc = "rest"
          /\ pc' = "read"
          /\ part' = IF Here.data = Absent THEN part ELSE IF Here.stamp = mark THEN <<part[1], Here.data[2]>>
                     ELSE part \o Here.data
    /\ UNCHANGED <<files, at, mark, had, results>>

(* A file that was removed keeps what the descriptor has.                  *)
Read ==
    /\ Running
    /\ \/ /\ pc = "half"
          /\ pc' = "rest"
          /\ part' = IF Here.data = Absent THEN part ELSE <<Here.data[1], part[2]>>
       \/ /\ pc = "rest"
          /\ pc' = "read"
          /\ part' = IF Here.data = Absent THEN part ELSE <<part[1], Here.data[2]>>
    /\ UNCHANGED <<files, at, mark, had, results>>

Reads(op) == Running /\ pc = "read" /\ Op = op
Does(op) == Running /\ pc = "ready" /\ Op = op

(* Mutant: the identity is not compared after the read.                    *)
UnchangedSize == Here.data # Absent

Unchanged == Here.data # Absent /\ Here.stamp = mark

-----------------------------------------------------------------------------
(* create_handoff.                                                         *)

(* The attestation and the snapshot must be the ones that were announced.  *)
Take ==
    /\ Reads("take")
    /\ Advance(Unchanged /\ part = Original)
    /\ seen' = [seen EXCEPT ![File] = part]
    /\ UNCHANGED <<files, record, listed, remote, public>>

MakeDirectory ==
    /\ Does("mkdir")
    /\ Advance(TRUE)
    /\ UNCHANGED <<files, results>>

Put(file, data) ==
    candidate' = [candidate EXCEPT ![file] = [data |-> data, stamp |-> changes]]

(* O_EXCL refuses to write over a file that is there, and a file that      *)
(* could not be copied is removed again.                                   *)
PutNew(data, ok) ==
    IF ok /\ candidate[File].data = Absent
    THEN Put(File, data) /\ Advance(TRUE)
    ELSE UNCHANGED candidate /\ Advance(FALSE)

(* _copy_regular up to its check of the source.                            *)
Copy ==
    /\ Reads("copy")
    /\ PutNew(part, Unchanged)
    /\ seen' = [seen EXCEPT ![File] = part]
    /\ UNCHANGED <<input, changes, edits, record, listed, remote, public>>

(* The copy is read again, and a core must be the attested one.            *)
Recheck ==
    /\ Reads("recheck")
    /\ Advance(Unchanged /\ part = seen[File] /\ (File \in Cores => part = Original))
    /\ UNCHANGED <<files, results>>

Write ==
    /\ Does("write")
    /\ PutNew(Original, TRUE)
    /\ record' = IF File = "handoff" THEN seen ELSE record
    /\ UNCHANGED <<input, changes, edits, seen, listed, remote, public>>

-----------------------------------------------------------------------------
(* verify_handoff.  Its comparisons are made file by file here, and at the *)
(* end of the reads in the code.                                           *)

Expected(last) == Root \cup {last}

CheckNames ==
    /\ Does("names")
    /\ Advance({f \in Names : candidate[f].data # Absent} = Expected(File))
    /\ UNCHANGED <<files, results>>

(* The final manifest only has to be a stable file.                        *)
Recorded(file) ==
    CASE file = "manifest" -> TRUE
      [] file = "handoff" -> part = Original
      [] OTHER -> /\ part = record[file]
                  /\ file \in Cores \cup ToSet(Snapshot) => part = Original

Check ==
    /\ Reads("check")
    /\ Advance(Unchanged /\ Recorded(File))
    /\ UNCHANGED <<files, results>>

-----------------------------------------------------------------------------
(* The manifest: its digests are taken from the disk, and whatever         *)
(* manifest is on the disk then is parsed and compared with the disk.      *)

ListArtifact ==
    /\ Reads("list")
    /\ Advance(TRUE)
    /\ listed' = [listed EXCEPT ![File] = part]
    /\ UNCHANGED <<files, seen, record, remote, public>>

WriteManifest ==
    /\ Does("writeManifest")
    /\ Advance(TRUE)
    /\ Put("manifest", Written(listed))
    /\ UNCHANGED <<input, changes, edits, results>>

(* The pins only have to be well-formed.                                   *)
ParseManifest ==
    /\ Reads("parse")
    /\ Advance(Parses(part))
    /\ listed' = IF Parses(part) THEN Says(part) ELSE listed
    /\ UNCHANGED <<files, seen, record, remote, public>>

Confirm ==
    /\ Reads("confirm")
    /\ Advance(part = listed[File])
    /\ UNCHANGED <<files, results>>

-----------------------------------------------------------------------------
(* The release.  Every check is of the draft against the disk.             *)

Upload ==
    /\ Reads("upload")
    /\ Advance(TRUE)
    /\ remote' = [remote EXCEPT ![File] = part]
    /\ UNCHANGED <<files, seen, record, listed, public>>

(* verify_remote_release, with the manifest that is on the disk now.       *)
ContractOk ==
    /\ Parses(part) /\ part[1].pins
    /\ remote["manifest"] = part
    /\ \A f \in ToSet(Artifacts) : remote[f] = Says(part)[f]

(* Mutant: only the manifest is compared.                                  *)
VerifyRemoteManifest ==
    /\ Reads("remote")
    /\ Advance(Parses(part) /\ part[1].pins /\ remote["manifest"] = part)
    /\ UNCHANGED <<files, results>>

VerifyRemote ==
    /\ Reads("remote")
    /\ Advance(ContractOk)
    /\ UNCHANGED <<files, results>>

CompareDigest ==
    /\ Reads("digest")
    /\ Advance(part = remote[File])
    /\ UNCHANGED <<files, results>>

Publish ==
    /\ Does("publish")
    /\ Advance(TRUE)
    /\ public' = TRUE
    /\ UNCHANGED <<files, seen, record, listed, remote>>

VerifyLive ==
    /\ Reads("live")
    /\ Advance(Unchanged /\ part = remote[File] /\ (File = "manifest" => ContractOk))
    /\ UNCHANGED <<files, results>>

Next ==
    \/ \E f \in Given : ChangeInput(f)
    \/ \E f \in Names : ChangeCandidate(f)
    \/ Open \/ Read \/ Take \/ MakeDirectory \/ Copy \/ Recheck \/ Write
    \/ CheckNames \/ Check \/ ListArtifact \/ WriteManifest \/ ParseManifest \/ Confirm
    \/ Upload \/ VerifyRemote \/ CompareDigest \/ Publish \/ VerifyLive

Spec == Init /\ [][Next]_vars

-----------------------------------------------------------------------------
(* What candidate_handoff accepts of a file is what the file held at one   *)
(* instant while it was read, never a mixture, although it reads piece by  *)
(* piece a file that others write, remove or replace.                      *)
ReadsAreWhole ==
    [][Running /\ Op \in Stable /\ at' = at + 1 => part \in had]_vars

(* A public release has a manifest of this run that lists exactly the      *)
(* artifacts of the release; and these are the source that create_handoff  *)
(* recorded and the cores that the ELF check attested, although files of   *)
(* the candidate directory are changed, exchanged and put back between     *)
(* their verification and their uses, and nothing names the manifest's own *)
(* bytes.  An artifact can get past all of that only if it was changed     *)
(* three times (exchanged, put back for the verification, exchanged again) *)
(* or if the manifest was changed with it.  If the verification of the     *)
(* public release passed as well, it was changed twice more.               *)
Changes(f, n) == edits[f] >= n + 2 \/ (edits[f] >= n /\ edits["manifest"] >= 1)

PublicIsTheCandidate ==
    public =>
        /\ Parses(remote["manifest"]) /\ remote["manifest"][1].pins
        /\ \A f \in ToSet(Artifacts) :
              /\ remote[f] = Says(remote["manifest"])[f]
              /\ f \in Cores => record[f] = Original
              /\ remote[f] # record[f] => Changes(f, IF at > Len(Script) THEN 3 ELSE 1)
=============================================================================
