----------------------- MODULE CandidateHandoffProofs -----------------------
(***************************************************************************)
(* Proofs about CandidateHandoff, for any artifacts, snapshot and number   *)
(* of changes.                                                             *)
(*                                                                         *)
(* What was read of a file is what the file holds for as long as the file  *)
(* has the stamp it was opened at, and a stamp never returns.  Of the      *)
(* script this needs that every step names a file of the directory it      *)
(* reads.                                                                  *)
(*                                                                         *)
(* What is published needs the order of the script: the last verification  *)
(* of a file before the manifest, the comparison with the manifest, the    *)
(* verification after it, the upload, the verification of the public       *)
(* release and the comparison with it.  Between each two of them the       *)
(* contents of a file have to be exchanged once to get past the next.  The *)
(* manifest lists what the comparison compared with for as long as nobody  *)
(* else changes it; if somebody does, the first two exchanges are spared.  *)
(***************************************************************************)
EXTENDS CandidateHandoff, SequenceTheorems, TLAPS

(* A step of the two jobs names a file of the directory it reads.          *)
Ops ==
    {"take", "mkdir", "copy", "recheck", "write", "names", "check", "list", "writeManifest",
     "parse", "confirm", "upload", "remote", "digest", "publish", "live"}
Steps ==
    {s \in [op : Ops, file : Names] :
        /\ s.op \in {"take", "copy"} => s.file \in Given
        /\ s.op = "write" => s.file \in Root}

Reading == {"half", "rest", "read"}

(* No stamp that was noted is newer than the last change.                  *)
StampInv ==
    /\ mark <= changes
    /\ \A f \in Given : input[f].stamp <= changes
    /\ \A f \in Names : candidate[f].stamp <= changes /\ edits[f] <= changes

(* What was read, while the file has the stamp it was opened at.           *)
PartInv ==
    /\ pc \in Reading => at <= Len(Script)
    /\ pc \in Reading /\ Here.stamp = mark => part = Here.data /\ part \in had

IInv == TypeOK /\ StampInv /\ PartInv

-----------------------------------------------------------------------------
(* The script.                                                             *)

LEMMA NamesAreGiven ==
    /\ Artifacts \in Seq(Given) /\ Snapshot \in Seq(Given) /\ "attestation" \in Given
    /\ Given \subseteq Root /\ Root \subseteq Names /\ "manifest" \notin Root
    /\ {"handoff", "manifest", Stray} \subseteq Names
<1>1. Len(Artifacts) \in Nat /\ Len(Snapshot) \in Nat
    BY HandoffAssumption
<1>2. Artifacts \o Snapshot \in Seq(STRING)
      /\ Len(Artifacts \o Snapshot) = Len(Artifacts) + Len(Snapshot)
      /\ \A i \in 1..Len(Artifacts) + Len(Snapshot) : (Artifacts \o Snapshot)[i] =
             IF i <= Len(Artifacts) THEN Artifacts[i] ELSE Snapshot[i - Len(Artifacts)]
    BY HandoffAssumption, ConcatProperties
<1>3. \A i \in 1..Len(Artifacts) + Len(Snapshot) : (Artifacts \o Snapshot)[i] \in Given
    BY <1>2 DEF Given, ToSet
<1>4. ASSUME NEW i \in 1..Len(Artifacts) PROVE Artifacts[i] \in Given
  <2>1. i \in 1..Len(Artifacts) + Len(Snapshot) /\ i <= Len(Artifacts)
      BY <1>1
  <2> QED BY <2>1, <1>2, <1>3
<1>5. ASSUME NEW i \in 1..Len(Snapshot) PROVE Snapshot[i] \in Given
  <2>1. /\ Len(Artifacts) + i \in 1..Len(Artifacts) + Len(Snapshot)
        /\ ~(Len(Artifacts) + i <= Len(Artifacts))
        /\ Len(Artifacts) + i - Len(Artifacts) = i
      BY <1>1
  <2>2. (Artifacts \o Snapshot)[Len(Artifacts) + i] = Snapshot[i]
      BY <2>1, <1>2
  <2> QED BY <2>1, <2>2, <1>3
<1>6. Artifacts \in Seq(Given)
    BY <1>1, <1>4, HandoffAssumption
<1>7. Snapshot \in Seq(Given)
    BY <1>1, <1>5, HandoffAssumption
<1>8. "manifest" \notin Root
  <2>1. ASSUME NEW i \in 1..Len(Artifacts) + Len(Snapshot), (Artifacts \o Snapshot)[i] = "manifest"
        PROVE  FALSE
    <3>1. CASE i <= Len(Artifacts)
      <4>1. i \in 1..Len(Artifacts) /\ Artifacts[i] = "manifest"
          BY <1>1, <1>2, <2>1, <3>1
      <4>2. "manifest" \in ToSet(Artifacts)
          BY <4>1, HandoffAssumption DEF ToSet
      <4> QED BY <4>2, HandoffAssumption
    <3>2. CASE ~(i <= Len(Artifacts))
      <4> DEFINE j == i - Len(Artifacts)
      <4>1. j \in 1..Len(Snapshot) /\ Snapshot[j] = "manifest"
          BY <1>1, <1>2, <2>1, <3>2
      <4>2. "manifest" \in ToSet(Snapshot)
          BY <4>1, HandoffAssumption DEF ToSet
      <4> QED BY <4>2, HandoffAssumption
    <3> QED BY <3>1, <3>2
  <2>2. "manifest" \notin ToSet(Artifacts \o Snapshot)
      BY <1>2, <2>1 DEF ToSet
  <2> QED BY <2>2 DEF Root, Given
<1> QED BY <1>6, <1>7, <1>8 DEF Given, Root, Names

LEMMA StepIsStep ==
    /\ \A f \in Given : Step("take", f) \in Steps /\ Step("copy", f) \in Steps
    /\ \A f \in Root : Step("write", f) \in Steps
    /\ \A f \in Names :
          /\ Step("mkdir", f) \in Steps /\ Step("recheck", f) \in Steps
          /\ Step("names", f) \in Steps
          /\ Step("check", f) \in Steps /\ Step("list", f) \in Steps
          /\ Step("writeManifest", f) \in Steps /\ Step("parse", f) \in Steps
          /\ Step("confirm", f) \in Steps /\ Step("upload", f) \in Steps
          /\ Step("remote", f) \in Steps /\ Step("digest", f) \in Steps
          /\ Step("publish", f) \in Steps /\ Step("live", f) \in Steps
<1>1. \A op \in Ops, f \in Names :
         (op \in {"take", "copy"} => f \in Given) /\ (op = "write" => f \in Root)
         => Step(op, f) \in Steps
    BY DEF Step, Steps
<1>2. /\ \A f \in Given : Step("take", f) \in Steps /\ Step("copy", f) \in Steps
      /\ \A f \in Root : Step("write", f) \in Steps
    BY <1>1, NamesAreGiven DEF Ops
<1> QED BY <1>1, <1>2 DEF Ops

LEMMA EachIsSteps ==
    ASSUME NEW op, NEW S, NEW names \in Seq(S), \A f \in S : Step(op, f) \in Steps
    PROVE  Each(op, names) \in Seq(Steps)
<1>1. Len(names) \in Nat /\ DOMAIN names = 1..Len(names)
    OBVIOUS
<1>2. \A i \in 1..Len(names) : Step(op, names[i]) \in Steps
    BY ElementOfSeq
<1> QED BY <1>1, <1>2 DEF Each

LEMMA CopiesAreSteps == Copies \in Seq(Steps)
<1>1. Len(Artifacts) \in Nat /\ DOMAIN Artifacts = 1..Len(Artifacts)
    BY HandoffAssumption
<1>2. \A i \in 1..2 * Len(Artifacts) :
         /\ i % 2 = 1 => (i + 1) \div 2 \in 1..Len(Artifacts)
         /\ i % 2 # 1 => i \div 2 \in 1..Len(Artifacts)
    BY <1>1
<1>3. \A i \in 1..Len(Artifacts) : Artifacts[i] \in Given /\ Artifacts[i] \in Names
    BY NamesAreGiven, ElementOfSeq
<1>4. \A i \in 1..Len(Artifacts) :
         Step("copy", Artifacts[i]) \in Steps /\ Step("recheck", Artifacts[i]) \in Steps
    BY <1>3, StepIsStep
<1>5. \A i \in 1..2 * Len(Artifacts) : Copies[i] \in Steps
    BY <1>2, <1>4 DEF Copies
<1>6. 2 * Len(Artifacts) \in Nat /\ Copies = [i \in 1..2 * Len(Artifacts) |-> Copies[i]]
    BY <1>1 DEF Copies
<1> QED BY <1>5, <1>6

(* Sequences of steps, one after the other.                                *)
LEMMA Joined ==
    ASSUME NEW s \in Seq(Steps), NEW t \in Seq(Steps)
    PROVE  s \o t \in Seq(Steps)
BY ConcatProperties

LEMMA NamesAreSequences ==
    /\ Artifacts \in Seq(Names) /\ Snapshot \in Seq(Names)
    /\ <<"attestation">> \in Seq(Names) /\ <<"handoff">> \in Seq(Names)
    /\ <<"manifest">> \in Seq(Names)
    /\ <<"attestation">> \o Snapshot \in Seq(Given)
    /\ (<<"attestation">> \o Snapshot) \o <<"handoff">> \in Seq(Root)
<1>1. Artifacts \in Seq(Names) /\ Snapshot \in Seq(Names)
    BY NamesAreGiven, SeqMonotonic DEF Names
<1>2. "attestation" \in Names /\ "handoff" \in Names /\ "manifest" \in Names
    BY NamesAreGiven
<1>3. <<"attestation">> \in Seq(Given)
    BY NamesAreGiven
<1>4. <<"attestation">> \o Snapshot \in Seq(Given)
    BY <1>3, NamesAreGiven, ConcatProperties
<1>5. <<"attestation">> \o Snapshot \in Seq(Root) /\ <<"handoff">> \in Seq(Root)
    BY <1>4, NamesAreGiven, SeqMonotonic DEF Root
<1>6. (<<"attestation">> \o Snapshot) \o <<"handoff">> \in Seq(Root)
    BY <1>5, ConcatProperties
<1> QED BY <1>1, <1>2, <1>4, <1>6

LEMMA CreationIsSteps == Creation \in Seq(Steps)
<1>1. Each("take", <<"attestation">> \o Snapshot) \in Seq(Steps)
    BY NamesAreSequences, StepIsStep, EachIsSteps, Zenon
<1>2. Step("mkdir", Stray) \in Steps
    BY NamesAreGiven, StepIsStep
<1>3. <<Step("mkdir", Stray)>> \in Seq(Steps)
    BY <1>2
<1>5. Each("write", (<<"attestation">> \o Snapshot) \o <<"handoff">>) \in Seq(Steps)
    BY NamesAreSequences, StepIsStep, EachIsSteps, Zenon
<1>6. Each("take", <<"attestation">> \o Snapshot) \o <<Step("mkdir", Stray)>> \in Seq(Steps)
    BY <1>1, <1>3, Joined
<1>7. (Each("take", <<"attestation">> \o Snapshot) \o <<Step("mkdir", Stray)>>) \o Copies
         \in Seq(Steps)
    BY <1>6, CopiesAreSteps, Joined
<1> QED BY <1>5, <1>7, Joined DEF Creation

(* Two sequences, one after the other, element by element.                 *)
LEMMA Parts ==
    ASSUME NEW S, NEW s \in Seq(S), NEW t \in Seq(S)
    PROVE  /\ s \o t \in Seq(S) /\ Len(s \o t) = Len(s) + Len(t)
           /\ Len(s) \in Nat /\ Len(t) \in Nat
           /\ \A i \in 1..Len(s) : (s \o t)[i] = s[i]
           /\ \A i \in 1..Len(t) : (s \o t)[Len(s) + i] = t[i]
           /\ \A i \in 1..Len(s \o t) :
                 (i \in 1..Len(s)) \/ (i - Len(s) \in 1..Len(t) /\ i = Len(s) + (i - Len(s)))
<1> DEFINE m == Len(s)
           n == Len(t)
<1>1. m \in Nat /\ n \in Nat
    BY LenProperties
<1>2. /\ s \o t \in Seq(S) /\ Len(s \o t) = m + n
      /\ \A i \in 1..m + n : (s \o t)[i] = IF i <= m THEN s[i] ELSE t[i - m]
    BY ConcatProperties
<1> HIDE DEF m, n
<1>3. \A i \in 1..m : i \in 1..m + n /\ i <= m
    BY <1>1
<1>4. \A i \in 1..n : m + i \in 1..m + n /\ ~(m + i <= m) /\ m + i - m = i
    BY <1>1
<1>5. \A i \in 1..m + n : (i \in 1..m) \/ (i - m \in 1..n /\ i = m + (i - m))
    BY <1>1
<1>6. \A i \in 1..m : (s \o t)[i] = s[i]
    BY <1>2, <1>3
<1>7. ASSUME NEW i \in 1..n PROVE (s \o t)[m + i] = t[i]
  <2>1. (s \o t)[m + i] = IF m + i <= m THEN s[m + i] ELSE t[(m + i) - m]
      BY <1>2, <1>4
  <2>2. ~(m + i <= m) /\ (m + i) - m = i
      BY <1>1
  <2> QED BY <2>1, <2>2, Zenon
<1> QED BY <1>1, <1>2, <1>5, <1>6, <1>7 DEF m, n

LEMMA One ==
    ASSUME NEW step \in Steps
    PROVE  <<step>> \in Seq(Steps) /\ Len(<<step>>) = 1 /\ <<step>>[1] = step
OBVIOUS

(* Two parts that only do certain things make a whole that only does them.  *)
LEMMA OpsJoined ==
    ASSUME NEW s \in Seq(Steps), NEW t \in Seq(Steps), NEW P,
           \A i \in 1..Len(s) : s[i].op \in P, \A i \in 1..Len(t) : t[i].op \in P
    PROVE  \A i \in 1..Len(s \o t) : (s \o t)[i].op \in P
<1> SUFFICES ASSUME NEW i \in 1..Len(s \o t) PROVE (s \o t)[i].op \in P
    OBVIOUS
<1>1. CASE i \in 1..Len(s)
    BY <1>1, Parts
<1>2. ASSUME i - Len(s) \in 1..Len(t), i = Len(s) + (i - Len(s)) PROVE (s \o t)[i].op \in P
  <2> DEFINE j == i - Len(s)
  <2>1. j \in 1..Len(t) /\ i = Len(s) + j
      BY <1>2
  <2> HIDE DEF j
  <2>2. (s \o t)[Len(s) + j] = t[j]
      BY <2>1, Parts
  <2> QED BY <2>1, <2>2
<1> QED BY <1>1, <1>2, Parts

LEMMA EachName ==
    ASSUME NEW op \in Ops \ {"take", "copy", "write"}, NEW names \in Seq(Names)
    PROVE  /\ Each(op, names) \in Seq(Steps)
           /\ Len(Each(op, names)) = Len(names) /\ Len(names) \in Nat
           /\ \A i \in 1..Len(names) : Each(op, names)[i] = Step(op, names[i])
           /\ \A i \in 1..Len(names) : Each(op, names)[i].op = op
           /\ \A i \in 1..Len(names) : Each(op, names)[i].file = names[i]
<1>1. \A f \in Names : Step(op, f) \in Steps
    BY DEF Step, Steps
<1>2. Each(op, names) \in Seq(Steps)
    BY <1>1, EachIsSteps, Zenon
<1> QED BY <1>2 DEF Each, Step

(* What verify_handoff does, and where it checks each artifact.            *)
LEMMA VerificationElements ==
    ASSUME NEW extra \in {<<>>, <<"manifest">>}
    PROVE  /\ Verification(extra) \in Seq(Steps)
           /\ Len(Verification(extra)) = Len(extra) + Len(Artifacts) + Len(Snapshot) + 4
           /\ Len(extra) \in Nat
           /\ \A i \in 1..Len(Verification(extra)) :
                 Verification(extra)[i].op \in {"names", "check"}
           /\ \A i \in 1..Len(Artifacts) :
                 Verification(extra)[Len(extra) + Len(Snapshot) + 3 + i]
                     = Step("check", Artifacts[i])
<1> DEFINE last == Step("names", IF extra = <<>> THEN "handoff" ELSE "manifest")
           files1 == extra \o <<"handoff">>
           files2 == files1 \o Snapshot
           files3 == files2 \o <<"attestation">>
           files4 == files3 \o Artifacts
           checks == Each("check", files4)
           one == <<last>>
           front == one \o checks
           V == Verification(extra)
<1>1. extra \in Seq(Names) /\ Len(extra) \in Nat
    BY NamesAreSequences, EmptySeq
<1>2. Len(Snapshot) \in Nat /\ Len(Artifacts) \in Nat
    BY HandoffAssumption
<1>3. files1 \in Seq(Names) /\ Len(files1) = Len(extra) + 1
    BY <1>1, NamesAreSequences, Parts
<1> HIDE DEF files1
<1>4. files2 \in Seq(Names) /\ Len(files2) = Len(files1) + Len(Snapshot)
    BY <1>3, NamesAreSequences, Parts
<1> HIDE DEF files2
<1>5. files3 \in Seq(Names) /\ Len(files3) = Len(files2) + 1
  <2>1. Len(<<"attestation">>) = 1
      OBVIOUS
  <2>2. files3 \in Seq(Names) /\ Len(files3) = Len(files2) + Len(<<"attestation">>)
      BY <1>4, NamesAreSequences, Parts, Zenon
  <2> QED BY <2>1, <2>2
<1> HIDE DEF files3
<1>6. /\ files4 \in Seq(Names) /\ Len(files4) = Len(files3) + Len(Artifacts)
      /\ \A i \in 1..Len(Artifacts) : files4[Len(files3) + i] = Artifacts[i]
  <2>1. Artifacts \in Seq(Names) /\ files3 \in Seq(Names)
      BY <1>5, NamesAreSequences
  <2>2. files4 \in Seq(Names) /\ Len(files4) = Len(files3) + Len(Artifacts)
      BY <2>1, Parts, Zenon
  <2>3. \A i \in 1..Len(Artifacts) : (files3 \o Artifacts)[Len(files3) + i] = Artifacts[i]
      BY <2>1, Parts
  <2> QED BY <2>2, <2>3
<1> HIDE DEF files4
<1>7. /\ checks \in Seq(Steps) /\ Len(checks) = Len(files4)
      /\ \A i \in 1..Len(files4) : checks[i] = Step("check", files4[i]) /\ checks[i].op = "check"
  <2>1. "check" \in Ops \ {"take", "copy", "write"}
      BY DEF Ops
  <2>2. checks \in Seq(Steps) /\ Len(checks) = Len(files4)
      BY <2>1, <1>6, EachName, Zenon
  <2>3. \A i \in 1..Len(files4) : checks[i] = Step("check", files4[i])
      BY <1>6 DEF Each
  <2>4. \A i \in 1..Len(files4) : checks[i].op = "check"
      BY <2>1, <1>6, EachName, Zenon
  <2> QED BY <2>2, <2>3, <2>4
<1>8. /\ last \in Steps /\ last.op = "names"
  <2>1. last \in Steps
      BY NamesAreGiven, StepIsStep
  <2> QED BY <2>1 DEF Step
<1> HIDE DEF last, checks
<1>9. one \in Seq(Steps) /\ Len(one) = 1 /\ one[1] = last /\ \A i \in 1..Len(one) : one[i].op = "names"
    BY <1>8, One
<1>10. V = (one \o checks) \o one
    BY DEF Verification, last, checks, files4, files3, files2, files1
<1> HIDE DEF one, V
<1>11. /\ front \in Seq(Steps) /\ Len(front) = 1 + Len(files4)
       /\ \A i \in 1..Len(files4) : front[1 + i] = checks[i]
    BY <1>7, <1>9, Parts
<1>12. \A i \in 1..Len(front) : front[i].op \in {"names", "check"}
    BY <1>7, <1>9, OpsJoined
<1> HIDE DEF front
<1>13. V = front \o one
    BY <1>10 DEF front
<1>14. /\ V \in Seq(Steps) /\ Len(V) = Len(front) + Len(one)
       /\ \A i \in 1..Len(front) : V[i] = front[i]
    BY <1>9, <1>11, <1>13, Parts, Zenon
<1>15. \A i \in 1..Len(V) : V[i].op \in {"names", "check"}
    BY <1>9, <1>11, <1>12, <1>13, OpsJoined
<1>16. ASSUME NEW i \in 1..Len(Artifacts)
       PROVE  V[Len(extra) + Len(Snapshot) + 3 + i] = Step("check", Artifacts[i])
  <2> DEFINE j == Len(files3) + i
  <2>1. j \in 1..Len(files4) /\ 1 + j \in 1..Len(front)
        /\ Len(extra) + Len(Snapshot) + 3 + i = 1 + j
      BY <1>1, <1>2, <1>3, <1>4, <1>5, <1>6, <1>11
  <2>2. files4[j] = Artifacts[i]
      BY <1>6
  <2> HIDE DEF j
  <2>3. V[1 + j] = front[1 + j] /\ front[1 + j] = checks[j] /\ checks[j] = Step("check", files4[j])
      BY <2>1, <1>7, <1>11, <1>14
  <2> QED BY <2>1, <2>2, <2>3
<1>17. Len(V) = Len(extra) + Len(Artifacts) + Len(Snapshot) + 4
    BY <1>1, <1>2, <1>3, <1>4, <1>5, <1>6, <1>9, <1>11, <1>14
<1> QED BY <1>1, <1>14, <1>15, <1>16, <1>17 DEF V

(* The artifacts are listed, then the manifest is written and read, and    *)
(* then the artifacts are compared with it.                                *)
LEMMA ManifestElements ==
    /\ Manifest \in Seq(Steps) /\ Len(Manifest) = 2 * Len(Artifacts) + 2
    /\ \A i \in 1..Len(Artifacts) :
          /\ Manifest[i] = Step("list", Artifacts[i])
          /\ Manifest[Len(Artifacts) + 2 + i] = Step("confirm", Artifacts[i])
    /\ Manifest[Len(Artifacts) + 1] = Step("writeManifest", "manifest")
    /\ Manifest[Len(Artifacts) + 2] = Step("parse", "manifest")
<1> DEFINE lists == Each("list", Artifacts)
           two == <<Step("writeManifest", "manifest"), Step("parse", "manifest")>>
           confirms == Each("confirm", Artifacts)
           front == lists \o two
           n == Len(Artifacts)
<1>0. Artifacts \in Seq(Names) /\ n \in Nat
    BY NamesAreSequences, HandoffAssumption
<1>1. "list" \in Ops \ {"take", "copy", "write"} /\ "confirm" \in Ops \ {"take", "copy", "write"}
    BY DEF Ops
<1>2. /\ lists \in Seq(Steps) /\ Len(lists) = n
      /\ \A i \in 1..n : lists[i] = Step("list", Artifacts[i])
      /\ \A i \in 1..n : lists[i].op = "list"
  <2> USE <1>0, <1>1, EachName
  <2>1. lists \in Seq(Steps) /\ Len(lists) = n
      BY Zenon
  <2>2. \A i \in 1..n : lists[i].op = "list"
      BY Zenon
  <2>3. \A i \in 1..n : lists[i] = Step("list", Artifacts[i])
      BY DEF Each
  <2> QED BY <2>1, <2>2, <2>3
<1>3. /\ confirms \in Seq(Steps) /\ Len(confirms) = n
      /\ \A i \in 1..n : confirms[i] = Step("confirm", Artifacts[i])
  <2>1. confirms \in Seq(Steps) /\ Len(confirms) = n
      BY <1>0, <1>1, EachName, Zenon
  <2>2. \A i \in 1..n : confirms[i] = Step("confirm", Artifacts[i])
      BY <1>0 DEF Each
  <2> QED BY <2>1, <2>2
<1>4. /\ two \in Seq(Steps) /\ Len(two) = 2
      /\ two[1] = Step("writeManifest", "manifest") /\ two[2] = Step("parse", "manifest")
  <2>1. Step("writeManifest", "manifest") \in Steps /\ Step("parse", "manifest") \in Steps
      BY NamesAreGiven, StepIsStep
  <2> QED BY <2>1
<1> HIDE DEF lists, two, confirms
<1>5. /\ front \in Seq(Steps) /\ Len(front) = n + 2
      /\ \A i \in 1..n : front[i] = lists[i]
      /\ front[n + 1] = two[1] /\ front[n + 2] = two[2]
  <2>1. /\ front \in Seq(Steps) /\ Len(front) = Len(lists) + Len(two)
        /\ \A i \in 1..Len(lists) : front[i] = lists[i]
        /\ \A i \in 1..Len(two) : front[Len(lists) + i] = two[i]
    <3>1. lists \in Seq(Steps) /\ two \in Seq(Steps)
        BY <1>2, <1>4
    <3> QED BY ONLY <3>1, Parts
  <2>2. ASSUME NEW i \in 1..2 PROVE front[n + i] = two[i]
      BY <2>1, <1>2, <1>4
  <2> QED BY <2>1, <2>2, <1>2, <1>4
<1>7. Manifest = front \o confirms
    BY DEF Manifest, lists, two, confirms
<1> HIDE DEF front
<1>8. /\ Manifest \in Seq(Steps) /\ Len(Manifest) = Len(front) + n
      /\ \A i \in 1..Len(front) : Manifest[i] = front[i]
      /\ \A i \in 1..n : Manifest[Len(front) + i] = confirms[i]
  <2>1. /\ front \o confirms \in Seq(Steps)
        /\ Len(front \o confirms) = Len(front) + Len(confirms)
        /\ \A i \in 1..Len(front) : (front \o confirms)[i] = front[i]
        /\ \A i \in 1..Len(confirms) : (front \o confirms)[Len(front) + i] = confirms[i]
    <3>1. front \in Seq(Steps) /\ confirms \in Seq(Steps)
        BY <1>3, <1>5
    <3> QED BY ONLY <3>1, Parts
  <2> QED BY <2>1, <1>3, <1>7
<1>9. ASSUME NEW i \in 1..n
      PROVE  /\ Manifest[i] = Step("list", Artifacts[i])
             /\ Manifest[n + 2 + i] = Step("confirm", Artifacts[i])
  <2>1. i \in 1..Len(front)
      BY <1>0, <1>5
  <2> QED BY <2>1, <1>2, <1>3, <1>5, <1>8
<1>10. Manifest[n + 1] = two[1] /\ Manifest[n + 2] = two[2]
  <2>1. n + 1 \in 1..Len(front) /\ n + 2 \in 1..Len(front)
      BY <1>0, <1>5
  <2> QED BY <2>1, <1>5, <1>8
<1>11. Len(Manifest) = 2 * n + 2
    BY <1>0, <1>5, <1>8
<1> QED BY <1>4, <1>8, <1>9, <1>10, <1>11

(* The release is uploaded and compared before it is published.            *)
LEMMA PublicationElements ==
    /\ Publication \in Seq(Steps) /\ Len(Publication) = 2 * Len(Artifacts) + 4
    /\ \A i \in 1..Len(Artifacts) : Publication[i] = Step("upload", Artifacts[i])
    /\ Publication[Len(Artifacts) + 1] = Step("upload", "manifest")
    /\ Publication[Len(Artifacts) + 2] = Step("remote", "manifest")
    /\ \A i \in 1..Len(Publication) :
          i > Len(Artifacts) + 2 => Publication[i].op \in {"digest", "publish"}
<1> DEFINE manifest == <<"manifest">>
           names == Artifacts \o manifest
           uploads == Each("upload", names)
           remotes == <<Step("remote", "manifest")>>
           digests == Each("digest", names)
           flip == <<Step("publish", Stray)>>
           tail == digests \o flip
           front == uploads \o remotes
           n == Len(Artifacts)
<1>1. Artifacts \in Seq(Names) /\ n \in Nat
    BY NamesAreSequences, HandoffAssumption
<1>2. /\ names \in Seq(Names) /\ Len(names) = n + 1 /\ names[n + 1] = "manifest"
      /\ \A i \in 1..n : names[i] = Artifacts[i]
  <2>1. manifest \in Seq(Names) /\ Len(manifest) = 1 /\ manifest[1] = "manifest"
      BY NamesAreSequences
  <2> HIDE DEF manifest
  <2>2. /\ names \in Seq(Names) /\ Len(names) = Len(Artifacts) + Len(manifest)
        /\ \A i \in 1..Len(Artifacts) : names[i] = Artifacts[i]
        /\ \A i \in 1..Len(manifest) : names[Len(Artifacts) + i] = manifest[i]
    <3>1. Artifacts \in Seq(Names) /\ manifest \in Seq(Names)
        BY <1>1, <2>1
    <3> QED BY ONLY <3>1, Parts
  <2>3. names[n + 1] = manifest[1]
      BY <2>1, <2>2
  <2> QED BY <2>1, <2>2, <2>3
<1> HIDE DEF names
<1>3. "upload" \in Ops \ {"take", "copy", "write"} /\ "digest" \in Ops \ {"take", "copy", "write"}
    BY DEF Ops
<1>4. /\ uploads \in Seq(Steps) /\ Len(uploads) = n + 1
      /\ \A i \in 1..n : uploads[i] = Step("upload", Artifacts[i])
      /\ uploads[n + 1] = Step("upload", "manifest")
  <2>1. uploads \in Seq(Steps) /\ Len(uploads) = Len(names)
      BY <1>2, <1>3, EachName, Zenon
  <2>2. \A i \in 1..n + 1 : uploads[i] = Step("upload", names[i])
      BY <1>2 DEF Each
  <2>3. n + 1 \in 1..n + 1 /\ \A i \in 1..n : i \in 1..n + 1
      BY <1>1
  <2> QED BY <2>1, <2>2, <2>3, <1>2
<1>5. /\ digests \in Seq(Steps) /\ Len(digests) = n + 1
      /\ \A i \in 1..Len(digests) : digests[i].op \in {"digest", "publish"}
  <2>1. digests \in Seq(Steps) /\ Len(digests) = Len(names)
      BY <1>2, <1>3, EachName, Zenon
  <2>2. \A i \in 1..Len(names) : digests[i].op = "digest"
      BY <1>2 DEF Each, Step
  <2> QED BY <2>1, <2>2, <1>2
<1>6. Step("remote", "manifest") \in Steps /\ Step("publish", Stray) \in Steps
    BY NamesAreGiven, StepIsStep
<1>7. /\ remotes \in Seq(Steps) /\ Len(remotes) = 1 /\ remotes[1] = Step("remote", "manifest")
      /\ flip \in Seq(Steps) /\ Len(flip) = 1
      /\ \A i \in 1..Len(flip) : flip[i].op \in {"digest", "publish"}
    BY <1>6 DEF Step
<1> HIDE DEF uploads, remotes, digests, flip
<1>8. tail \in Seq(Steps) /\ Len(tail) = n + 2
      /\ \A i \in 1..Len(tail) : tail[i].op \in {"digest", "publish"}
  <2>1. tail \in Seq(Steps) /\ Len(tail) = Len(digests) + Len(flip)
      BY <1>5, <1>7, Parts
  <2>2. \A i \in 1..Len(tail) : tail[i].op \in {"digest", "publish"}
      BY <1>5, <1>7, OpsJoined
  <2> QED BY <2>1, <2>2, <1>1, <1>5, <1>7
<1>9. /\ front \in Seq(Steps) /\ Len(front) = n + 2
      /\ \A i \in 1..n + 1 : front[i] = uploads[i]
      /\ front[n + 2] = Step("remote", "manifest")
  <2>1. /\ front \in Seq(Steps) /\ Len(front) = Len(uploads) + Len(remotes)
        /\ \A i \in 1..Len(uploads) : front[i] = uploads[i]
        /\ \A i \in 1..Len(remotes) : front[Len(uploads) + i] = remotes[i]
    <3>1. uploads \in Seq(Steps) /\ remotes \in Seq(Steps)
        BY <1>4, <1>7
    <3> QED BY ONLY <3>1, Parts
  <2>2. front[Len(uploads) + 1] = remotes[1]
      BY <2>1, <1>7
  <2>3. Len(uploads) + 1 = n + 2
      BY <1>1, <1>4
  <2> QED BY <2>1, <2>2, <2>3, <1>1, <1>4, <1>7
<1>10. Publication = front \o tail
  <2>1. (front \o digests) \o flip = front \o (digests \o flip)
    <3>1. front \in Seq(Steps) /\ digests \in Seq(Steps) /\ flip \in Seq(Steps)
        BY <1>5, <1>7, <1>9
    <3> HIDE DEF front
    <3> QED BY ONLY <3>1, ConcatAssociative
  <2> QED BY <2>1 DEF Publication, names, uploads, remotes, digests, flip
<1> HIDE DEF front, tail
<1>11. /\ Publication \in Seq(Steps) /\ Len(Publication) = Len(front) + Len(tail)
       /\ \A i \in 1..Len(front) : Publication[i] = front[i]
       /\ \A i \in 1..Len(tail) : Publication[Len(front) + i] = tail[i]
  <2>1. front \in Seq(Steps) /\ tail \in Seq(Steps)
      BY <1>8, <1>9
  <2> QED BY ONLY <2>1, <1>10, Parts
<1>12. \A i \in 1..n + 2 : Publication[i] = front[i]
    BY <1>9, <1>11
<1>13. \A i \in 1..n : Publication[i] = Step("upload", Artifacts[i])
  <2>1. \A i \in 1..n : i \in 1..n + 1 /\ i \in 1..n + 2
      BY <1>1
  <2> QED BY <2>1, <1>4, <1>9, <1>12
<1>14. /\ Publication[n + 1] = Step("upload", "manifest")
       /\ Publication[n + 2] = Step("remote", "manifest")
  <2>1. n + 1 \in 1..n + 1 /\ n + 1 \in 1..n + 2 /\ n + 2 \in 1..n + 2
      BY <1>1
  <2> QED BY <2>1, <1>4, <1>9, <1>12
<1>15. ASSUME NEW i \in 1..Len(Publication), i > n + 2
       PROVE  Publication[i].op \in {"digest", "publish"}
  <2> DEFINE j == i - (n + 2)
  <2>1. j \in 1..Len(tail) /\ i = Len(front) + j
      BY <1>1, <1>8, <1>9, <1>11, <1>15
  <2> HIDE DEF j
  <2>2. Publication[Len(front) + j] = tail[j]
      BY <2>1, <1>11
  <2> QED BY <2>1, <2>2, <1>8
<1>16. Len(Publication) = 2 * n + 4
    BY <1>1, <1>8, <1>9, <1>11
<1> QED BY <1>11, <1>13, <1>14, <1>15, <1>16

(* The live verification checks every artifact once more and compares it   *)
(* with the release.                                                       *)
LEMMA LiveElements ==
    /\ Live \in Seq(Steps) /\ Len(Live) = 2 * Len(Artifacts) + Len(Snapshot) + 7
    /\ \A i \in 1..Len(Live) : Live[i].op \in {"names", "check", "live", "remote"}
    /\ \A i \in 1..Len(Artifacts) :
          /\ Live[Len(Snapshot) + 4 + i] = Step("check", Artifacts[i])
          /\ Live[Len(Artifacts) + Len(Snapshot) + 6 + i] = Step("live", Artifacts[i])
<1> DEFINE final == Verification(<<"manifest">>)
           manifest == <<"manifest">>
           names == manifest \o Artifacts
           lives == Each("live", names)
           remotes == <<Step("remote", "manifest")>>
           some == {"names", "check", "live", "remote"}
           n == Len(Artifacts)
           m == Len(Snapshot)
           front == final \o lives
<1>0. n \in Nat /\ m \in Nat /\ Artifacts \in Seq(Names)
    BY NamesAreSequences, HandoffAssumption
<1>1. /\ final \in Seq(Steps) /\ Len(final) = n + m + 5
      /\ \A i \in 1..Len(final) : final[i].op \in some
      /\ \A i \in 1..n : final[m + 4 + i] = Step("check", Artifacts[i])
  <2>1. Len(manifest) = 1
      OBVIOUS
  <2>2. \A i \in 1..n : Len(manifest) + m + 3 + i = m + 4 + i
      BY <1>0, <2>1
  <2>3. \A i \in 1..n : final[Len(manifest) + m + 3 + i] = Step("check", Artifacts[i])
      BY VerificationElements
  <2>4. \A i \in 1..n : final[m + 4 + i] = Step("check", Artifacts[i])
      BY <2>2, <2>3
  <2>5. final \in Seq(Steps) /\ Len(final) = Len(manifest) + n + m + 4
      BY VerificationElements
  <2>6. \A i \in 1..Len(final) : final[i].op \in some
      BY VerificationElements
  <2> QED BY <1>0, <2>1, <2>4, <2>5, <2>6
<1> HIDE DEF final
<1>2. /\ names \in Seq(Names) /\ Len(names) = n + 1
      /\ \A i \in 1..n : names[1 + i] = Artifacts[i]
  <2>1. manifest \in Seq(Names) /\ Len(manifest) = 1
      BY NamesAreSequences
  <2> HIDE DEF manifest
  <2>2. /\ names \in Seq(Names) /\ Len(names) = Len(manifest) + Len(Artifacts)
        /\ \A i \in 1..Len(Artifacts) : names[Len(manifest) + i] = Artifacts[i]
    <3>1. manifest \in Seq(Names) /\ Artifacts \in Seq(Names)
        BY <1>0, <2>1
    <3> QED BY ONLY <3>1, Parts
  <2> QED BY <1>0, <2>1, <2>2
<1> HIDE DEF names
<1>3. "live" \in Ops \ {"take", "copy", "write"}
    BY DEF Ops
<1>4. /\ lives \in Seq(Steps) /\ Len(lives) = n + 1
      /\ \A i \in 1..Len(lives) : lives[i].op \in some
      /\ \A i \in 1..n : lives[1 + i] = Step("live", Artifacts[i])
  <2>1. lives \in Seq(Steps) /\ Len(lives) = Len(names)
      BY <1>2, <1>3, EachName, Zenon
  <2>2. \A i \in 1..Len(names) : lives[i].op = "live"
      BY <1>2, <1>3, EachName, Zenon
  <2>3. \A i \in 1..Len(names) : lives[i] = Step("live", names[i])
      BY <1>2 DEF Each
  <2>4. \A i \in 1..n : 1 + i \in 1..Len(names)
      BY <1>0, <1>2
  <2> QED BY <1>2, <2>1, <2>2, <2>3, <2>4
<1>5. Step("remote", "manifest") \in Steps
    BY NamesAreGiven, StepIsStep
<1>6. /\ remotes \in Seq(Steps) /\ Len(remotes) = 1
      /\ \A i \in 1..Len(remotes) : remotes[i].op \in some
    BY <1>5 DEF Step
<1> HIDE DEF lives, remotes, some
<1>7. /\ front \in Seq(Steps) /\ Len(front) = Len(final) + Len(lives)
      /\ \A i \in 1..Len(final) : front[i] = final[i]
      /\ \A i \in 1..Len(lives) : front[Len(final) + i] = lives[i]
      /\ \A i \in 1..Len(front) : front[i].op \in some
  <2>1. final \in Seq(Steps) /\ lives \in Seq(Steps)
      BY <1>1, <1>4
  <2>2. /\ front \in Seq(Steps) /\ Len(front) = Len(final) + Len(lives)
        /\ \A i \in 1..Len(final) : front[i] = final[i]
        /\ \A i \in 1..Len(lives) : front[Len(final) + i] = lives[i]
      BY ONLY <2>1, Parts
  <2>3. \A i \in 1..Len(front) : front[i].op \in some
      BY <1>1, <1>4, OpsJoined
  <2> QED BY <2>2, <2>3
<1> HIDE DEF front
<1>8. /\ front \o remotes \in Seq(Steps) /\ Len(front \o remotes) = Len(front) + Len(remotes)
      /\ \A i \in 1..Len(front) : (front \o remotes)[i] = front[i]
      /\ \A i \in 1..Len(front \o remotes) : (front \o remotes)[i].op \in some
  <2>1. front \in Seq(Steps) /\ remotes \in Seq(Steps)
      BY <1>6, <1>7
  <2>2. /\ front \o remotes \in Seq(Steps) /\ Len(front \o remotes) = Len(front) + Len(remotes)
        /\ \A i \in 1..Len(front) : (front \o remotes)[i] = front[i]
      BY ONLY <2>1, Parts
  <2>3. \A i \in 1..Len(front \o remotes) : (front \o remotes)[i].op \in some
      BY <1>6, <1>7, OpsJoined
  <2> QED BY <2>2, <2>3
<1>9. Live = front \o remotes
    BY DEF Live, front, final, names, lives, remotes
<1>10. ASSUME NEW i \in 1..n
       PROVE  /\ Live[m + 4 + i] = Step("check", Artifacts[i])
              /\ Live[n + m + 6 + i] = Step("live", Artifacts[i])
  <2>1. /\ m + 4 + i \in 1..Len(final) /\ m + 4 + i \in 1..Len(front)
        /\ n + m + 6 + i = Len(final) + (1 + i) /\ n + m + 6 + i \in 1..Len(front)
        /\ 1 + i \in 1..Len(lives)
      BY <1>0, <1>1, <1>4, <1>7
  <2>2. Live[m + 4 + i] = final[m + 4 + i]
      BY <2>1, <1>7, <1>8, <1>9
  <2>3. Live[n + m + 6 + i] = front[Len(final) + (1 + i)]
      BY <2>1, <1>8, <1>9
  <2> QED BY <2>1, <2>2, <2>3, <1>1, <1>4, <1>7
<1>11. Len(Live) = 2 * n + m + 7
    BY <1>0, <1>1, <1>4, <1>6, <1>7, <1>8, <1>9
<1> QED BY <1>8, <1>9, <1>10, <1>11 DEF some

Once == Verification(<<>>)
Final == Verification(<<"manifest">>)
Head1 == (Creation \o Once) \o Once
Head2 == Head1 \o Once
Head3 == Head2 \o Manifest
Head4 == Head3 \o Final
Head5 == Head4 \o Publication

(* Where the manifest is written and read and where the draft is compared  *)
(* with it; and for the artifact with index i, the last verification       *)
(* before the manifest, the comparison with the manifest, the verification *)
(* after it, the upload, and the verification and the comparison of the    *)
(* public release.                                                         *)
Writing == Len(Head2) + Len(Artifacts) + 1
Parsing == Len(Head2) + Len(Artifacts) + 2
Compared == Len(Head4) + Len(Artifacts) + 2
Verified(i) == Len(Head1) + Len(Snapshot) + 3 + i
Confirming(i) == Len(Head2) + Len(Artifacts) + 2 + i
Reverified(i) == Len(Head3) + Len(Snapshot) + 4 + i
Uploading(i) == Len(Head4) + i
LiveVerified(i) == Len(Head5) + Len(Snapshot) + 4 + i
LiveCompared(i) == Len(Head5) + Len(Artifacts) + Len(Snapshot) + 6 + i

LEMMA PartsAreSteps ==
    /\ Once \in Seq(Steps) /\ Final \in Seq(Steps) /\ Manifest \in Seq(Steps)
    /\ Publication \in Seq(Steps) /\ Live \in Seq(Steps)
    /\ Head1 \in Seq(Steps) /\ Head2 \in Seq(Steps) /\ Head3 \in Seq(Steps)
    /\ Head4 \in Seq(Steps) /\ Head5 \in Seq(Steps) /\ Script = Head5 \o Live
<1>1. Once \in Seq(Steps) /\ Final \in Seq(Steps)
    BY VerificationElements DEF Once, Final
<1>2. Creation \o Once \in Seq(Steps)
    BY <1>1, CreationIsSteps, Joined
<1>3. Head1 \in Seq(Steps)
    BY <1>1, <1>2, Joined DEF Head1
<1>4. Head2 \in Seq(Steps)
    BY <1>1, <1>3, Joined DEF Head2
<1>5. Head3 \in Seq(Steps)
    BY <1>4, ManifestElements, Joined DEF Head3
<1>6. Head4 \in Seq(Steps)
    BY <1>1, <1>5, Joined DEF Head4
<1>7. Head5 \in Seq(Steps)
    BY <1>6, PublicationElements, Joined DEF Head5
<1>8. Script = Head5 \o Live
    BY Zenon DEF Script, Head5, Head4, Head3, Head2, Head1, Once, Final
<1> QED BY <1>1, <1>3, <1>4, <1>5, <1>6, <1>7, <1>8, ManifestElements, PublicationElements, LiveElements

(* What a sequence of steps has in two places, before and after more.      *)
LEMMA Before ==
    ASSUME NEW s \in Seq(Steps), NEW t \in Seq(Steps)
    PROVE  /\ Len(s \o t) = Len(s) + Len(t) /\ Len(s) \in Nat /\ Len(t) \in Nat
           /\ \A i \in 1..Len(s) : (s \o t)[i] = s[i]
BY Parts

LEMMA After ==
    ASSUME NEW s \in Seq(Steps), NEW t \in Seq(Steps), NEW i \in 1..Len(t)
    PROVE  (s \o t)[Len(s) + i] = t[i] /\ Len(s) + i \in 1..Len(s \o t)
<1>1. (s \o t)[Len(s) + i] = t[i] /\ Len(s \o t) = Len(s) + Len(t)
    BY Parts
<1>2. Len(s) \in Nat /\ Len(t) \in Nat
    BY Parts
<1> QED BY <1>1, <1>2

LEMMA Lengths ==
    /\ Len(Head1) \in Nat /\ Len(Artifacts) \in Nat /\ Len(Snapshot) \in Nat /\ Len(Live) \in Nat
    /\ Len(Head2) = Len(Head1) + (Len(Artifacts) + Len(Snapshot) + 4)
    /\ Len(Head3) = Len(Head2) + (2 * Len(Artifacts) + 2)
    /\ Len(Head4) = Len(Head3) + (Len(Artifacts) + Len(Snapshot) + 5)
    /\ Len(Head5) = Len(Head4) + (2 * Len(Artifacts) + 4)
    /\ Len(Script) = Len(Head5) + Len(Live)
    /\ Len(Once) = Len(Artifacts) + Len(Snapshot) + 4
    /\ Len(Final) = Len(Artifacts) + Len(Snapshot) + 5
    /\ Len(Manifest) = 2 * Len(Artifacts) + 2 /\ Len(Publication) = 2 * Len(Artifacts) + 4
    /\ Len(Live) = 2 * Len(Artifacts) + Len(Snapshot) + 7
<1>1. Len(Artifacts) \in Nat /\ Len(Snapshot) \in Nat
    BY HandoffAssumption
<1>2. Len(<<>>) = 0 /\ Len(<<"manifest">>) = 1
    OBVIOUS
<1>3. /\ Len(Once) = Len(<<>>) + Len(Artifacts) + Len(Snapshot) + 4
      /\ Len(Final) = Len(<<"manifest">>) + Len(Artifacts) + Len(Snapshot) + 4
    BY VerificationElements DEF Once, Final
<1>4. Len(Once) = Len(Artifacts) + Len(Snapshot) + 4
      /\ Len(Final) = Len(Artifacts) + Len(Snapshot) + 5
    BY <1>1, <1>2, <1>3
<1>5. Len(Manifest) = 2 * Len(Artifacts) + 2 /\ Len(Publication) = 2 * Len(Artifacts) + 4
    BY ManifestElements, PublicationElements
<1>6. Len(Head1) \in Nat /\ Len(Head2) = Len(Head1) + Len(Once)
    BY PartsAreSteps, Before DEF Head2
<1>7. Len(Head3) = Len(Head2) + Len(Manifest)
    BY PartsAreSteps, Before DEF Head3
<1>8. Len(Head4) = Len(Head3) + Len(Final)
    BY PartsAreSteps, Before DEF Head4
<1>9. Len(Head5) = Len(Head4) + Len(Publication)
    BY PartsAreSteps, Before DEF Head5
<1>10. Len(Script) = Len(Head5) + Len(Live) /\ Len(Live) \in Nat
    BY PartsAreSteps, Before
<1>11. Len(Live) = 2 * Len(Artifacts) + Len(Snapshot) + 7
    BY LiveElements
<1> QED BY <1>1, <1>4, <1>5, <1>6, <1>7, <1>8, <1>9, <1>10, <1>11

(* The script after the second verification, part by part.                 *)
LEMMA ScriptParts ==
    /\ \A i \in 1..Len(Once) : Script[Len(Head1) + i] = Once[i]
    /\ \A i \in 1..Len(Manifest) : Script[Len(Head2) + i] = Manifest[i]
    /\ \A i \in 1..Len(Final) : Script[Len(Head3) + i] = Final[i]
    /\ \A i \in 1..Len(Publication) : Script[Len(Head4) + i] = Publication[i]
    /\ \A i \in 1..Len(Live) : Script[Len(Head5) + i] = Live[i]
<1>5. \A i \in 1..Len(Head5) : Script[i] = Head5[i]
    BY PartsAreSteps, Before
<1>4. \A i \in 1..Len(Head4) : Script[i] = Head4[i]
  <2>1. \A i \in 1..Len(Head4) : Head5[i] = Head4[i]
      BY PartsAreSteps, Before DEF Head5
  <2>2. \A i \in 1..Len(Head4) : i \in 1..Len(Head5)
      BY Lengths
  <2> QED BY <2>1, <2>2, <1>5
<1>3. \A i \in 1..Len(Head3) : Script[i] = Head3[i]
  <2>1. \A i \in 1..Len(Head3) : Head4[i] = Head3[i]
      BY PartsAreSteps, Before DEF Head4
  <2>2. \A i \in 1..Len(Head3) : i \in 1..Len(Head4)
      BY Lengths
  <2> QED BY <2>1, <2>2, <1>4
<1>2. \A i \in 1..Len(Head2) : Script[i] = Head2[i]
  <2>1. \A i \in 1..Len(Head2) : Head3[i] = Head2[i]
      BY PartsAreSteps, Before DEF Head3
  <2>2. \A i \in 1..Len(Head2) : i \in 1..Len(Head3)
      BY Lengths
  <2> QED BY <2>1, <2>2, <1>3
<1>6. ASSUME NEW i \in 1..Len(Once) PROVE Script[Len(Head1) + i] = Once[i]
  <2>1. Head2[Len(Head1) + i] = Once[i] /\ Len(Head1) + i \in 1..Len(Head2)
      BY PartsAreSteps, After DEF Head2
  <2> QED BY <2>1, <1>2
<1>7. ASSUME NEW i \in 1..Len(Manifest) PROVE Script[Len(Head2) + i] = Manifest[i]
  <2>1. Head3[Len(Head2) + i] = Manifest[i] /\ Len(Head2) + i \in 1..Len(Head3)
      BY PartsAreSteps, After DEF Head3
  <2> QED BY <2>1, <1>3
<1>8. ASSUME NEW i \in 1..Len(Final) PROVE Script[Len(Head3) + i] = Final[i]
  <2>1. Head4[Len(Head3) + i] = Final[i] /\ Len(Head3) + i \in 1..Len(Head4)
      BY PartsAreSteps, After DEF Head4
  <2> QED BY <2>1, <1>4
<1>9. ASSUME NEW i \in 1..Len(Publication) PROVE Script[Len(Head4) + i] = Publication[i]
  <2>1. Head5[Len(Head4) + i] = Publication[i] /\ Len(Head4) + i \in 1..Len(Head5)
      BY PartsAreSteps, After DEF Head5
  <2> QED BY <2>1, <1>5
<1>10. ASSUME NEW i \in 1..Len(Live) PROVE Script[Len(Head5) + i] = Live[i]
    BY PartsAreSteps, After
<1> QED BY <1>6, <1>7, <1>8, <1>9, <1>10

(* Every step of the script is a step on a file of the right directory.    *)
LEMMA ScriptIsSteps ==
    /\ Script \in Seq(Steps) /\ Len(Script) \in Nat
    /\ \A i \in 1..Len(Script) : Script[i] \in Steps
<1>1. Script \in Seq(Steps)
    BY PartsAreSteps, Joined
<1> QED BY <1>1, ElementOfSeq, LenProperties

(* The steps that these positions name.                                    *)
LEMMA ScriptAt ==
    /\ \A i \in 1..Len(Artifacts) :
          /\ Script[Verified(i)] = Step("check", Artifacts[i])
          /\ Script[Confirming(i)] = Step("confirm", Artifacts[i])
          /\ Script[Reverified(i)] = Step("check", Artifacts[i])
          /\ Script[Uploading(i)] = Step("upload", Artifacts[i])
          /\ Script[LiveVerified(i)] = Step("check", Artifacts[i])
          /\ Script[LiveCompared(i)] = Step("live", Artifacts[i])
    /\ Script[Writing] = Step("writeManifest", "manifest")
    /\ Script[Parsing] = Step("parse", "manifest")
    /\ Script[Compared] = Step("remote", "manifest")
<1> DEFINE n == Len(Artifacts)
           m == Len(Snapshot)
<1>0. n \in Nat /\ m \in Nat /\ Len(<<>>) = 0 /\ Len(<<"manifest">>) = 1
    BY HandoffAssumption
<1>1. ASSUME NEW i \in 1..n PROVE Script[Verified(i)] = Step("check", Artifacts[i])
  <2> DEFINE j == m + 3 + i
  <2>1. j \in 1..Len(Once) /\ Verified(i) = Len(Head1) + j /\ Len(<<>>) + m + 3 + i = j
      BY <1>0, Lengths DEF Verified
  <2>2. Once[Len(<<>>) + m + 3 + i] = Step("check", Artifacts[i])
      BY VerificationElements DEF Once
  <2> HIDE DEF j
  <2> QED BY <2>1, <2>2, ScriptParts
<1>2. ASSUME NEW i \in 1..n PROVE Script[Confirming(i)] = Step("confirm", Artifacts[i])
  <2> DEFINE j == n + 2 + i
  <2>1. j \in 1..Len(Manifest) /\ Confirming(i) = Len(Head2) + j
      BY <1>0, Lengths DEF Confirming
  <2>2. Manifest[j] = Step("confirm", Artifacts[i])
      BY ManifestElements
  <2> HIDE DEF j
  <2> QED BY <2>1, <2>2, ScriptParts
<1>3. ASSUME NEW i \in 1..n PROVE Script[Reverified(i)] = Step("check", Artifacts[i])
  <2> DEFINE j == m + 4 + i
  <2>1. /\ j \in 1..Len(Final) /\ Reverified(i) = Len(Head3) + j
        /\ Len(<<"manifest">>) + m + 3 + i = j
      BY <1>0, Lengths DEF Reverified
  <2>2. Final[Len(<<"manifest">>) + m + 3 + i] = Step("check", Artifacts[i])
      BY VerificationElements DEF Final
  <2> HIDE DEF j
  <2> QED BY <2>1, <2>2, ScriptParts
<1>4. ASSUME NEW i \in 1..n PROVE Script[Uploading(i)] = Step("upload", Artifacts[i])
  <2>1. i \in 1..Len(Publication) /\ Uploading(i) = Len(Head4) + i
      BY <1>0, Lengths DEF Uploading
  <2> QED BY <2>1, PublicationElements, ScriptParts
<1>5. Script[Compared] = Step("remote", "manifest")
  <2> DEFINE j == n + 2
  <2>1. j \in 1..Len(Publication) /\ Compared = Len(Head4) + j
      BY <1>0, Lengths DEF Compared
  <2>2. Publication[j] = Step("remote", "manifest")
      BY PublicationElements
  <2> HIDE DEF j
  <2> QED BY <2>1, <2>2, ScriptParts
<1>6. /\ Script[Writing] = Step("writeManifest", "manifest")
      /\ Script[Parsing] = Step("parse", "manifest")
  <2> DEFINE j == n + 1
             k == n + 2
  <2>1. /\ j \in 1..Len(Manifest) /\ Writing = Len(Head2) + j
        /\ k \in 1..Len(Manifest) /\ Parsing = Len(Head2) + k
      BY <1>0, Lengths DEF Writing, Parsing
  <2>2. /\ Manifest[j] = Step("writeManifest", "manifest")
        /\ Manifest[k] = Step("parse", "manifest")
      BY ManifestElements
  <2> HIDE DEF j, k
  <2> QED BY <2>1, <2>2, ScriptParts
<1>7. ASSUME NEW i \in 1..n
      PROVE  /\ Script[LiveVerified(i)] = Step("check", Artifacts[i])
             /\ Script[LiveCompared(i)] = Step("live", Artifacts[i])
  <2> DEFINE j == m + 4 + i
             k == n + m + 6 + i
  <2>1. /\ j \in 1..Len(Live) /\ LiveVerified(i) = Len(Head5) + j
        /\ k \in 1..Len(Live) /\ LiveCompared(i) = Len(Head5) + k
      BY <1>0, Lengths DEF LiveVerified, LiveCompared
  <2>2. Live[j] = Step("check", Artifacts[i]) /\ Live[k] = Step("live", Artifacts[i])
      BY LiveElements
  <2> HIDE DEF j, k
  <2> QED BY <2>1, <2>2, ScriptParts
<1> QED BY <1>1, <1>2, <1>3, <1>4, <1>5, <1>6, <1>7

(* What the script does after the second verification, and where.          *)
LEMMA ScriptTail ==
    ASSUME NEW k \in 1..Len(Script), k > Len(Head1)
    PROVE  /\ Script[k].op \notin {"take", "mkdir", "copy", "recheck", "write"}
           /\ Script[k].op = "list" => k < Writing
           /\ Script[k].op = "writeManifest" => k = Writing
           /\ Script[k].op = "parse" => k = Parsing
           /\ Script[k].op = "upload" =>
                 \/ \E i \in 1..Len(Artifacts) : k = Uploading(i)
                 \/ k = Len(Head4) + Len(Artifacts) + 1 /\ Script[k].file = "manifest"
           /\ Script[k].op = "publish" => k > Compared
<1> DEFINE n == Len(Artifacts)
           good == /\ Script[k].op \notin {"take", "mkdir", "copy", "recheck", "write"}
                   /\ Script[k].op = "list" => k < Writing
                   /\ Script[k].op = "writeManifest" => k = Writing
                   /\ Script[k].op = "parse" => k = Parsing
                   /\ Script[k].op = "upload" =>
                         \/ \E i \in 1..n : k = Uploading(i)
                         \/ k = Len(Head4) + n + 1 /\ Script[k].file = "manifest"
                   /\ Script[k].op = "publish" => k > Compared
<1>1. CASE k <= Len(Head2)
  <2> DEFINE j == k - Len(Head1)
  <2>1. j \in 1..Len(Once) /\ k = Len(Head1) + j
      BY <1>1, Lengths
  <2> HIDE DEF j
  <2>2. Script[k].op \in {"names", "check"}
      BY <2>1, ScriptParts, VerificationElements DEF Once
  <2> QED BY <2>2
<1>2. CASE k > Len(Head2) /\ k <= Len(Head3)
  <2> DEFINE j == k - Len(Head2)
  <2>1. j \in 1..Len(Manifest) /\ k = Len(Head2) + j
      BY <1>2, Lengths
  <2> HIDE DEF j
  <2>2. Script[k] = Manifest[j]
      BY <2>1, ScriptParts
  <2>n. /\ n \in Nat /\ Len(Head2) \in Nat
        /\ j \in 1..n \/ j = n + 1 \/ j = n + 2 \/ (j - (n + 2) \in 1..n /\ j = n + 2 + (j - (n + 2)))
    <3>1. n \in Nat /\ j \in 1..2 * n + 2 /\ Len(Head2) \in Nat
        BY <2>1, Lengths
    <3> HIDE DEF n
    <3> QED BY <3>1
  <2>3. CASE j \in 1..n
    <3>1. Script[k].op = "list" /\ k < Writing
      <4>1. Script[k] = Step("list", Artifacts[j])
          BY <2>2, <2>3, ManifestElements
      <4>2. k < Writing
          BY <2>1, <2>3, <2>n DEF Writing
      <4> QED BY <4>1, <4>2 DEF Step
    <3> QED BY <3>1
  <2>4. CASE j = n + 1
    <3>1. Script[k].op = "writeManifest" /\ k = Writing
      <4>1. Script[k] = Step("writeManifest", "manifest")
          BY <2>2, <2>4, ManifestElements
      <4>2. k = Writing
          BY <2>1, <2>4, <2>n DEF Writing
      <4> QED BY <4>1, <4>2 DEF Step
    <3> QED BY <3>1
  <2>5. CASE j = n + 2
    <3>1. Script[k].op = "parse" /\ k = Parsing
      <4>1. Script[k] = Step("parse", "manifest")
          BY <2>2, <2>5, ManifestElements
      <4>2. k = Parsing
          BY <2>1, <2>5, <2>n DEF Parsing
      <4> QED BY <4>1, <4>2 DEF Step
    <3> QED BY <3>1
  <2>6. CASE j - (n + 2) \in 1..n /\ j = n + 2 + (j - (n + 2))
    <3> DEFINE h == j - (n + 2)
    <3>1. h \in 1..n /\ j = n + 2 + h
        BY <2>6
    <3> HIDE DEF h
    <3>2. Script[k] = Step("confirm", Artifacts[h])
        BY <2>2, <3>1, ManifestElements
    <3>3. Script[k].op = "confirm"
        BY <3>2 DEF Step
    <3> QED BY <3>3
  <2> QED BY <2>n, <2>3, <2>4, <2>5, <2>6
<1>3. CASE k > Len(Head3) /\ k <= Len(Head4)
  <2> DEFINE j == k - Len(Head3)
  <2>1. j \in 1..Len(Final) /\ k = Len(Head3) + j
      BY <1>3, Lengths
  <2> HIDE DEF j
  <2>2. Script[k].op \in {"names", "check"}
      BY <2>1, ScriptParts, VerificationElements DEF Final
  <2> QED BY <2>2
<1>4. CASE k > Len(Head4) /\ k <= Len(Head5)
  <2> DEFINE j == k - Len(Head4)
  <2>1. j \in 1..Len(Publication) /\ k = Len(Head4) + j
      BY <1>4, Lengths
  <2> HIDE DEF j
  <2>n. n \in Nat /\ j \in Nat /\ (j \in 1..n \/ j = n + 1 \/ j = n + 2 \/ j > n + 2)
    <3>1. n \in Nat /\ j \in Nat /\ 1 <= j
        BY <2>1, Lengths
    <3> HIDE DEF n
    <3> QED BY <3>1
  <2>2. Script[k] = Publication[j]
      BY <2>1, ScriptParts
  <2>3. CASE j \in 1..n
    <3>1. Script[k].op = "upload" /\ k = Uploading(j)
      <4>1. Script[k] = Step("upload", Artifacts[j])
          BY <2>2, <2>3, PublicationElements
      <4> QED BY <4>1, <2>1 DEF Step, Uploading
    <3> QED BY <3>1, <2>3
  <2>4. CASE j = n + 1
    <3>1. Script[k].op = "upload" /\ Script[k].file = "manifest" /\ k = Len(Head4) + n + 1
        BY <2>1, <2>2, <2>4, <2>n, Lengths, PublicationElements DEF Step
    <3> QED BY <3>1
  <2>5. CASE j = n + 2
    <3>1. Script[k].op = "remote"
        BY <2>2, <2>5, PublicationElements DEF Step
    <3> QED BY <3>1
  <2>6. CASE j > n + 2
    <3>1. Script[k].op \in {"digest", "publish"}
        BY <2>1, <2>2, <2>6, PublicationElements
    <3>2. k > Compared
        BY <2>1, <2>6, <2>n, Lengths DEF Compared
    <3> QED BY <3>1, <3>2
  <2> QED BY <2>n, <2>3, <2>4, <2>5, <2>6
<1>5. CASE k > Len(Head5)
  <2> DEFINE j == k - Len(Head5)
  <2>1. j \in 1..Len(Live) /\ k = Len(Head5) + j
      BY <1>5, Lengths
  <2> HIDE DEF j
  <2>2. Script[k].op \in {"names", "check", "live", "remote"}
      BY <2>1, ScriptParts, LiveElements
  <2> QED BY <2>2
<1> QED BY <1>1, <1>2, <1>3, <1>4, <1>5, Lengths

-----------------------------------------------------------------------------
(* Files.                                                                  *)

LEMMA KeptIsStored ==
    ASSUME NEW data, NEW f, IsKept(data, f)
    PROVE  data \in Stored
BY DEF IsKept, Holds, Stored

(* Every file but the manifest is no manifest.                             *)
LEMMA GivenHolds ==
    /\ \A f \in Root : Holds(f) = Contents
    /\ \A f \in ToSet(Artifacts) : Holds(f) = Contents
    /\ \A f : Absent \notin Holds(f)
BY NamesAreGiven, HandoffAssumption DEF Holds

(* What another process leaves is a file, and its stamp is new.            *)
LEMMA ChangedIsStamped ==
    ASSUME NEW f, changes \in 0..MaxChanges, changes < MaxChanges,
           NEW entry \in Changed(f)
    PROVE  entry \in Stamped /\ IsKept(entry.data, f) /\ entry.stamp = changes + 1
<1>1. changes + 1 \in 0..MaxChanges
    BY HandoffAssumption
<1>2. IsKept(entry.data, f) /\ entry.stamp = changes + 1
      /\ entry = [data |-> entry.data, stamp |-> entry.stamp]
    BY DEF Changed, IsKept
<1> QED BY <1>1, <1>2, KeptIsStored DEF Stamped

(* The file of the step at hand.                                           *)
LEMMA FileAtHand ==
    ASSUME TypeOK, at <= Len(Script)
    PROVE  /\ Op \in Ops /\ File \in Names
           /\ FromInput => File \in Given
           /\ Op = "write" => File \in Root
           /\ Here \in Stamped /\ IsKept(Here.data, File)
<1>1. at \in 1..Len(Script)
    BY ScriptIsSteps DEF TypeOK
<1>2. Script[at] \in Steps
    BY <1>1, ScriptIsSteps
<1>3. /\ Op \in Ops /\ File \in Names /\ (FromInput => File \in Given)
      /\ Op = "write" => File \in Root
    BY <1>2 DEF Steps, Op, File, FromInput
<1> QED BY <1>3 DEF Here, TypeOK

(* A job's step that ends its work on a file keeps what is not the file's. *)
LEMMA AdvanceStep ==
    ASSUME TypeOK, Running, NEW ok \in BOOLEAN, Advance(ok)
    PROVE  /\ at' \in 1..Len(Script) + 1 /\ pc' \in {"ready", "failed"}
           /\ mark' = 0 /\ part' = Absent /\ had' \subseteq Stored
BY ScriptIsSteps DEF TypeOK, Running, Advance

(* The file was left alone or written by a job.                            *)
Replaced(f) ==
    \/ candidate'[f] = candidate[f]
    \/ candidate'[f].stamp = changes /\ IsKept(candidate'[f].data, f)

(* What a job writes is a file with the current stamp.                     *)
LEMMA PutStep ==
    ASSUME TypeOK, NEW data, NEW file, IsKept(data, file), Put(file, data)
    PROVE  /\ candidate' \in [Names -> Stamped]
           /\ \A f \in Names : Replaced(f)
<1>1. [data |-> data, stamp |-> changes] \in Stamped
    BY KeptIsStored DEF TypeOK, Stamped
<1> QED BY <1>1 DEF TypeOK, Put, Replaced

-----------------------------------------------------------------------------
(* What one step changes of the files and of the reading.                  *)

(* A step of the jobs other than Open and Read.                            *)
Working ==
    /\ changes' = changes /\ edits' = edits /\ input' = input
    /\ at' \in 1..Len(Script) + 1 /\ pc' \in {"ready", "failed"}
    /\ mark' = 0 /\ part' = Absent /\ had' \subseteq Stored
    /\ candidate' \in [Names -> Stamped]
    /\ \A f \in Names : Replaced(f)
    /\ {seen', record'} \subseteq [Given -> Anything]
    /\ listed' \in [ToSet(Artifacts) -> Contents]
    /\ remote' \in [ToSet(Artifacts) \cup {"manifest"} -> Stored]
    /\ \A f \in DOMAIN remote' : IsKept(remote'[f], f)
    /\ public' \in BOOLEAN

Work ==
    \/ Take \/ MakeDirectory \/ Copy \/ Recheck \/ Write
    \/ CheckNames \/ Check \/ ListArtifact \/ WriteManifest \/ ParseManifest \/ Confirm
    \/ Upload \/ VerifyRemote \/ CompareDigest \/ Publish \/ VerifyLive

LEMMA PutNewStep ==
    ASSUME TypeOK, Running, NEW data, IsKept(data, File), NEW ok \in BOOLEAN, PutNew(data, ok)
    PROVE  /\ at' \in 1..Len(Script) + 1 /\ pc' \in {"ready", "failed"}
           /\ mark' = 0 /\ part' = Absent /\ had' \subseteq Stored
           /\ candidate' \in [Names -> Stamped]
           /\ \A f \in Names : Replaced(f)
<1>1. CASE ok /\ candidate[File].data = Absent
    BY <1>1, AdvanceStep, PutStep DEF PutNew
<1>2. CASE ~(ok /\ candidate[File].data = Absent)
  <2>1. Advance(FALSE) /\ candidate' = candidate
      BY <1>2 DEF PutNew
  <2> QED BY <2>1, AdvanceStep DEF TypeOK, Replaced
<1> QED BY <1>1, <1>2

LEMMA SaysIsListing ==
    /\ \A data : Parses(data) => Says(data) \in [ToSet(Artifacts) -> Contents]
    /\ \A listing \in [ToSet(Artifacts) -> Contents] :
          Written(listing) \in Manifests /\ Says(Written(listing)) = listing
<1>1. ASSUME NEW data, Parses(data) PROVE Says(data) \in [ToSet(Artifacts) -> Contents]
  <2>1. data[1].lists \in [ToSet(Artifacts) \ Cores -> Contents] /\ data[2] \in [Cores -> Contents]
      BY <1>1 DEF Parses, FirstHalf, SecondHalf
  <2> QED BY <2>1 DEF Says
<1>2. ASSUME NEW listing \in [ToSet(Artifacts) -> Contents]
      PROVE  Written(listing) \in Manifests /\ Says(Written(listing)) = listing
  <2>1. [pins |-> TRUE, lists |-> [f \in ToSet(Artifacts) \ Cores |-> listing[f]]] \in FirstHalf
      BY DEF FirstHalf
  <2>2. [f \in Cores |-> listing[f]] \in SecondHalf
      BY HandoffAssumption DEF SecondHalf
  <2>3. Written(listing) \in Manifests
      BY <2>1, <2>2 DEF Written, Manifests
  <2>4. /\ Written(listing)[1].lists = [f \in ToSet(Artifacts) \ Cores |-> listing[f]]
        /\ Written(listing)[2] = [f \in Cores |-> listing[f]]
      BY DEF Written
  <2>5. \A f \in ToSet(Artifacts) : Says(Written(listing))[f] = listing[f]
      BY <2>4 DEF Says
  <2>6. Says(Written(listing)) = listing
      BY <2>5 DEF Says
  <2> QED BY <2>3, <2>6
<1> QED BY <1>1, <1>2

LEMMA WorkStep ==
    ASSUME TypeOK, PartInv, Work
    PROVE  Working
<1> USE DEF files, results
<1>o. Original \in Contents
    BY HandoffAssumption
<1>p. ASSUME pc = "read"
      PROVE  /\ part \in Holds(File) /\ IsKept(part, File)
             /\ File \in Given \cup ToSet(Artifacts) => part \in Contents /\ part \in Anything
  <2>1. part \in Holds(File)
      BY <1>p DEF TypeOK, File
  <2> QED BY <2>1, GivenHolds DEF IsKept, Root, Anything
<1>a. TypeOK => /\ candidate' = candidate => \A f \in Names : Replaced(f)
                /\ remote' = remote => \A f \in DOMAIN remote' : IsKept(remote'[f], f)
    BY DEF TypeOK, Replaced
<1>1. ASSUME Take PROVE Working
  <2>1. Running /\ Advance(Unchanged /\ part = Original) /\ File \in Given
      BY <1>1, FileAtHand DEF Take, Reads, Running, FromInput
  <2>2. part \in Anything
      BY <1>1, <1>p, <2>1 DEF Take, Reads
  <2> QED BY <1>1, <2>1, <2>2, AdvanceStep, <1>a DEF Take, Working, TypeOK
<1>2. ASSUME MakeDirectory PROVE Working
  <2>1. Running /\ Advance(TRUE)
      BY <1>2 DEF MakeDirectory, Does
  <2> QED BY <1>2, <2>1, AdvanceStep, <1>a DEF MakeDirectory, Working, TypeOK
<1>3. ASSUME Copy PROVE Working
  <2>1. Running /\ PutNew(part, Unchanged) /\ File \in Given /\ Unchanged \in BOOLEAN
      BY <1>3, FileAtHand DEF Copy, Reads, Running, FromInput, Unchanged
  <2>2. part \in Anything /\ IsKept(part, File)
      BY <1>3, <1>p, <2>1 DEF Copy, Reads
  <2> QED BY <1>3, <2>1, <2>2, PutNewStep, <1>a DEF Copy, Working, TypeOK
<1>4. ASSUME Recheck PROVE Working
  <2>1. Running
        /\ Advance(Unchanged /\ part = seen[File] /\ (File \in Cores => part = Original))
      BY <1>4 DEF Recheck, Reads
  <2> QED BY <1>4, <2>1, AdvanceStep, <1>a DEF Recheck, Working, TypeOK
<1>5. ASSUME Write PROVE Working
  <2>1. Running /\ PutNew(Original, TRUE) /\ File \in Root
      BY <1>5, FileAtHand DEF Write, Does, Running
  <2>2. IsKept(Original, File)
      BY <1>o, <2>1, GivenHolds DEF IsKept
  <2> QED BY <1>5, <2>1, <2>2, PutNewStep, <1>a DEF Write, Working, TypeOK
<1>6. ASSUME CheckNames PROVE Working
  <2>1. Running /\ Advance({f \in Names : candidate[f].data # Absent} = Expected(File))
      BY <1>6 DEF CheckNames, Does
  <2> QED BY <1>6, <2>1, AdvanceStep, <1>a DEF CheckNames, Working, TypeOK
<1>7. ASSUME Check PROVE Working
  <2>1. Running /\ Advance(Unchanged /\ Recorded(File))
      BY <1>7 DEF Check, Reads
  <2> QED BY <1>7, <2>1, AdvanceStep, <1>a DEF Check, Working, TypeOK
<1>8. ASSUME ListArtifact PROVE Working
  <2>1. Running /\ Advance(TRUE) /\ (File \in ToSet(Artifacts) => part \in Contents)
      BY <1>8, <1>p DEF ListArtifact, Reads
  <2>2. listed' \in [ToSet(Artifacts) -> Contents]
      BY <1>8, <2>1 DEF ListArtifact, TypeOK
  <2> QED BY <1>8, <2>1, <2>2, AdvanceStep, <1>a DEF ListArtifact, Working, TypeOK
<1>9. ASSUME WriteManifest PROVE Working
  <2>1. Running /\ Advance(TRUE) /\ Put("manifest", Written(listed))
      BY <1>9 DEF WriteManifest, Does
  <2>2. IsKept(Written(listed), "manifest")
      BY SaysIsListing DEF TypeOK, IsKept, Holds
  <2> QED BY <1>9, <2>1, <2>2, AdvanceStep, PutStep, <1>a DEF WriteManifest, Working, TypeOK
<1>10. ASSUME ParseManifest PROVE Working
  <2>1. Running /\ Advance(Parses(part)) /\ Parses(part) \in BOOLEAN
      BY <1>10 DEF ParseManifest, Reads, Parses
  <2>2. listed' \in [ToSet(Artifacts) -> Contents]
      BY <1>10, SaysIsListing DEF ParseManifest, TypeOK
  <2> QED BY <1>10, <2>1, <2>2, AdvanceStep, <1>a DEF ParseManifest, Working, TypeOK
<1>11. ASSUME Confirm PROVE Working
  <2>1. Running /\ Advance(part = listed[File])
      BY <1>11 DEF Confirm, Reads
  <2> QED BY <1>11, <2>1, AdvanceStep, <1>a DEF Confirm, Working, TypeOK
<1>12. ASSUME Upload PROVE Working
  <2>1. Running /\ Advance(TRUE) /\ IsKept(part, File) /\ part \in Stored
      BY <1>12, <1>p, KeptIsStored DEF Upload, Reads
  <2>2. /\ remote' \in [ToSet(Artifacts) \cup {"manifest"} -> Stored]
        /\ \A f \in DOMAIN remote' : IsKept(remote'[f], f)
      BY <1>12, <2>1 DEF Upload, TypeOK
  <2> QED BY <1>12, <2>1, <2>2, AdvanceStep, <1>a DEF Upload, Working, TypeOK
<1>13. ASSUME VerifyRemote PROVE Working
  <2>1. Running /\ Advance(ContractOk) /\ ContractOk \in BOOLEAN
      BY <1>13 DEF VerifyRemote, Reads, ContractOk
  <2> QED BY <1>13, <2>1, AdvanceStep, <1>a DEF VerifyRemote, Working, TypeOK
<1>14. ASSUME CompareDigest PROVE Working
  <2>1. Running /\ Advance(part = remote[File])
      BY <1>14 DEF CompareDigest, Reads
  <2> QED BY <1>14, <2>1, AdvanceStep, <1>a DEF CompareDigest, Working, TypeOK
<1>15. ASSUME Publish PROVE Working
  <2>1. Running /\ Advance(TRUE)
      BY <1>15 DEF Publish, Does
  <2> QED BY <1>15, <2>1, AdvanceStep, <1>a DEF Publish, Working, TypeOK
<1>16. ASSUME VerifyLive PROVE Working
  <2>1. Running /\ Advance(Unchanged /\ part = remote[File] /\ (File = "manifest" => ContractOk))
      BY <1>16 DEF VerifyLive, Reads
  <2> QED BY <1>16, <2>1, AdvanceStep, <1>a DEF VerifyLive, Working, TypeOK
<1> QED BY <1>1, <1>2, <1>3, <1>4, <1>5, <1>6, <1>7, <1>8, <1>9, <1>10, <1>11, <1>12, <1>13,
           <1>14, <1>15, <1>16 DEF Work

-----------------------------------------------------------------------------
(* The invariant.                                                          *)

LEMMA InitHolds ==
    ASSUME Init
    PROVE  IInv
<1>1. /\ 0 \in 0..MaxChanges /\ 1 \in 1..Len(Script) + 1
      /\ Original \in Contents /\ Original \in Stored /\ Absent \in Stored /\ Absent \in Anything
      /\ \A f : IsKept(Absent, f)
      /\ \A f \in Given : IsKept(Original, f)
    BY HandoffAssumption, ScriptIsSteps, GivenHolds DEF Anything, Stored, IsKept, Root
<1>2. /\ input \in [Given -> Stamped] /\ candidate \in [Names -> Stamped]
      /\ changes \in 0..MaxChanges /\ mark \in 0..MaxChanges
      /\ edits \in [Names -> 0..MaxChanges]
    BY <1>1 DEF Init, Stamped
<1>3. TypeOK
    BY <1>1, <1>2 DEF Init, TypeOK
<1>4. StampInv /\ PartInv
    BY DEF Init, StampInv, PartInv, Reading
<1> QED BY <1>3, <1>4 DEF IInv

(* Another process changes a file of the input or of the candidate.        *)
LEMMA ChangeStep ==
    ASSUME IInv, \/ \E f \in Given : ChangeInput(f)
                 \/ \E f \in Names : ChangeCandidate(f)
    PROVE  IInv'
<1> USE DEF IInv
<1>1. /\ Running /\ changes < MaxChanges /\ changes' = changes + 1
      /\ UNCHANGED <<at, pc, mark, part, results>>
    BY DEF ChangeInput, ChangeCandidate, Change
<1>2. changes \in 0..MaxChanges /\ changes' \in 0..MaxChanges /\ mark \in 0..MaxChanges
    BY <1>1, HandoffAssumption DEF TypeOK
<1>3. File \in Names /\ (FromInput => File \in Given) /\ Here \in Stamped
    BY <1>1, FileAtHand DEF Running
<1>4. /\ input' \in [Given -> Stamped] /\ candidate' \in [Names -> Stamped]
      /\ \A f \in Given : input'[f] = input[f] \/ input'[f].stamp = changes'
      /\ \A f \in Names : candidate'[f] = candidate[f] \/ candidate'[f].stamp = changes'
      /\ \A f \in Given : IsKept(input'[f].data, f)
      /\ \A f \in Names : IsKept(candidate'[f].data, f)
      /\ had' \subseteq Stored
      /\ edits' \in [Names -> 0..MaxChanges]
      /\ \A f \in Names : edits'[f] <= changes'
  <2>0. \A f \in Names : edits[f] \in 0..MaxChanges /\ edits[f] <= changes
      BY DEF TypeOK, StampInv
  <2>1. ASSUME NEW f \in Given, ChangeInput(f) PROVE <1>4!:
    <3>1. PICK entry \in Changed(f) : input' = [input EXCEPT ![f] = entry]
        BY <2>1 DEF ChangeInput
    <3>2. entry \in Stamped /\ IsKept(entry.data, f) /\ entry.stamp = changes'
        BY <1>1, <1>2, ChangedIsStamped
    <3>3. candidate' = candidate /\ input' \in [Given -> Stamped]
        BY <2>1, <3>1, <3>2 DEF ChangeInput, TypeOK
    <3>4. input'[f].data \in Stored
        BY <3>3 DEF Stamped
    <3>5. had' = had \/ had' = had \cup {input'[f].data}
        BY <2>1 DEF ChangeInput, Change
    <3>6. edits' = edits
        BY <2>1 DEF ChangeInput
    <3>7. \A g \in Names : edits'[g] <= changes'
        BY <3>6, <2>0, <1>1, <1>2, HandoffAssumption
    <3> QED BY <3>1, <3>2, <3>3, <3>4, <3>5, <3>6, <3>7 DEF TypeOK
  <2>2. ASSUME NEW f \in Names, ChangeCandidate(f) PROVE <1>4!:
    <3>1. PICK entry \in Changed(f) : candidate' = [candidate EXCEPT ![f] = entry]
        BY <2>2 DEF ChangeCandidate
    <3>2. entry \in Stamped /\ IsKept(entry.data, f) /\ entry.stamp = changes'
        BY <1>1, <1>2, ChangedIsStamped
    <3>3. input' = input /\ candidate' \in [Names -> Stamped]
        BY <2>2, <3>1, <3>2 DEF ChangeCandidate, TypeOK
    <3>4. candidate'[f].data \in Stored
        BY <3>3 DEF Stamped
    <3>5. had' = had \/ had' = had \cup {candidate'[f].data}
        BY <2>2 DEF ChangeCandidate, Change
    <3>6. edits' = [edits EXCEPT ![f] = @ + 1]
        BY <2>2 DEF ChangeCandidate
    <3>7. \A g \in Names : edits'[g] <= changes' /\ edits'[g] \in 0..MaxChanges
        BY <3>6, <2>0, <1>1, <1>2, HandoffAssumption DEF TypeOK
    <3>8. edits' \in [Names -> 0..MaxChanges]
        BY <3>6, <3>7 DEF TypeOK
    <3> QED BY <3>1, <3>2, <3>3, <3>4, <3>5, <3>7, <3>8 DEF TypeOK
  <2> QED BY <2>1, <2>2
<1>5. TypeOK'
    BY <1>1, <1>2, <1>4 DEF TypeOK, results
<1>6. StampInv'
  <2>1. mark' = mark /\ changes \in Nat /\ mark \in Nat /\ mark <= changes'
      BY <1>1, <1>2, HandoffAssumption DEF StampInv
  <2>2. ASSUME NEW f \in Given PROVE input'[f].stamp <= changes'
    <3>1. input[f].stamp \in Nat /\ input[f].stamp <= changes
        BY HandoffAssumption DEF StampInv, TypeOK, Stamped
    <3>2. input[f].stamp <= changes'
        BY <3>1, <2>1, <1>1
    <3> QED BY <3>2, <2>1, <1>1, <1>4
  <2>3. ASSUME NEW f \in Names PROVE candidate'[f].stamp <= changes'
    <3>1. candidate[f].stamp \in Nat /\ candidate[f].stamp <= changes
        BY HandoffAssumption DEF StampInv, TypeOK, Stamped
    <3>2. candidate[f].stamp <= changes'
        BY <3>1, <2>1, <1>1
    <3> QED BY <3>2, <2>1, <1>1, <1>4
  <2> QED BY <2>1, <2>2, <2>3, <1>4 DEF StampInv
<1>7. had \subseteq had'
    BY DEF ChangeInput, ChangeCandidate, Change
<1>8. Here' = Here \/ Here'.stamp = changes'
  <2>1. Here' = IF FromInput THEN input'[File] ELSE candidate'[File]
      BY <1>1 DEF Here, FromInput, Op, File
  <2> QED BY <2>1, <1>3, <1>4 DEF Here
<1>9. PartInv'
  <2>1. mark' = mark /\ mark # changes' /\ part' = part /\ pc' = pc /\ at' = at
      BY <1>1, <1>2, HandoffAssumption DEF StampInv
  <2>2. ASSUME (Here').stamp = mark PROVE Here' = Here
      BY <2>1, <2>2, <1>8
  <2> QED BY <2>1, <2>2, <1>7 DEF PartInv
<1> QED BY <1>5, <1>6, <1>9

LEMMA OpenStep ==
    ASSUME IInv, Open
    PROVE  IInv'
<1> USE DEF IInv
<1>1. Here \in Stamped /\ IsKept(Here.data, File) /\ Running
    BY FileAtHand DEF Running, Open
<1>2. UNCHANGED <<files, at, results>> /\ mark' = Here.stamp /\ part' = Here.data
      /\ had' = {Here.data} /\ pc' = IF Here.data = Absent THEN "failed" ELSE "half"
    BY DEF Open
<1>3. Here' = Here
    BY <1>2 DEF Here, FromInput, Op, File, files
<1>4. TypeOK'
  <2>1. pc' = "half" => part' \in Holds(File)
      BY <1>1, <1>2 DEF IsKept
  <2> QED BY <1>1, <1>2, <2>1 DEF TypeOK, Stamped, files, results, File
<1>5. Here.stamp <= changes
  <2>1. Op \in Ops /\ File \in Names /\ (FromInput => File \in Given)
      BY <1>1, FileAtHand DEF Running
  <2> QED BY <2>1 DEF Here, StampInv
<1>6. StampInv'
    BY <1>2, <1>5 DEF StampInv, files
<1>7. PartInv'
    BY <1>1, <1>2, <1>3 DEF PartInv, Running, Reading
<1> QED BY <1>4, <1>6, <1>7

LEMMA ReadStep ==
    ASSUME IInv, Read
    PROVE  IInv'
<1> USE DEF IInv
<1>1. IsKept(Here.data, File) /\ Running
    BY FileAtHand DEF Running, Read
<1>2. /\ UNCHANGED <<files, at, mark, had, results>>
      /\ pc \in {"half", "rest"} /\ pc' \in {"rest", "read"}
      /\ \/ part' = part
         \/ Here.data # Absent /\ part' = <<Here.data[1], part[2]>>
         \/ Here.data # Absent /\ part' = <<part[1], Here.data[2]>>
    BY DEF Read
<1>3. Here' = Here
    BY <1>2 DEF Here, FromInput, Op, File, files
<1>4. part \in Holds(File)
    BY <1>2 DEF TypeOK, File
<1>5. part' \in Holds(File) /\ (part = Here.data => part' = part)
  <2>1. CASE part' = part
      BY <2>1, <1>4
  <2>2. CASE Here.data # Absent /\ part' # part
    <3>1. Here.data \in Holds(File)
        BY <1>1, <2>2 DEF IsKept
    <3>2. PICK S, T : Holds(File) = S \X T
        BY DEF Holds, Contents, Manifests
    <3> QED BY <3>1, <3>2, <1>2, <1>4, <2>2
  <2> QED BY <2>1, <2>2, <1>2
<1>6. TypeOK'
    BY <1>2, <1>5 DEF TypeOK, File, files, results
<1>7. StampInv'
    BY <1>2 DEF StampInv, files
<1>8. PartInv'
    BY <1>1, <1>2, <1>3, <1>5 DEF PartInv, Reading, Running
<1> QED BY <1>6, <1>7, <1>8

LEMMA WorkKeeps ==
    ASSUME IInv, Work
    PROVE  IInv'
<1>1. Working
    BY WorkStep DEF IInv
<1>2. TypeOK'
  <2>1. \A f \in Names : IsKept(candidate'[f].data, f)
      BY <1>1 DEF IInv, TypeOK, Working, Replaced
  <2>2. \A f \in Given : IsKept(input'[f].data, f)
      BY <1>1 DEF IInv, TypeOK, Working
  <2>3. 0 \in 0..MaxChanges
      BY HandoffAssumption
  <2> QED BY <1>1, <2>1, <2>2, <2>3 DEF IInv, TypeOK, Working
<1>3. StampInv'
  <2>1. changes \in Nat /\ 0 <= changes
      BY HandoffAssumption DEF IInv, TypeOK
  <2>2. \A f \in Names : candidate'[f].stamp <= changes
      BY <1>1, <2>1 DEF IInv, StampInv, Working, Replaced
  <2> QED BY <1>1, <2>1, <2>2 DEF IInv, StampInv, Working
<1>4. PartInv'
    BY <1>1 DEF PartInv, Reading, Working
<1> QED BY <1>2, <1>3, <1>4 DEF IInv

LEMMA StutterKeeps ==
    ASSUME IInv, UNCHANGED vars
    PROVE  IInv'
<1>1. Here' = Here
    BY DEF vars, files, Here, FromInput, Op, File
<1> QED BY <1>1 DEF IInv, TypeOK, StampInv, PartInv, vars, files, reading, results

(* The invariant of the copying, the verifications and the publication.    *)
THEOREM Invariant == Spec => []IInv
<1>1. Init => IInv
    BY InitHolds
<1>2. IInv /\ [Next]_vars => IInv'
  <2> SUFFICES ASSUME IInv, [Next]_vars PROVE IInv'
      OBVIOUS
  <2>1. CASE \E f \in Given : ChangeInput(f)
      BY <2>1, ChangeStep
  <2>2. CASE \E f \in Names : ChangeCandidate(f)
      BY <2>2, ChangeStep
  <2>3. CASE Open
      BY <2>3, OpenStep
  <2>4. CASE Read
      BY <2>4, ReadStep
  <2>5. CASE Work
      BY <2>5, WorkKeeps
  <2>6. CASE UNCHANGED vars
      BY <2>6, StutterKeeps
  <2> QED BY <2>1, <2>2, <2>3, <2>4, <2>5, <2>6 DEF Next, Work
<1> QED BY <1>1, <1>2, PTL DEF Spec

(* The state of the two jobs and of the files keeps its types.             *)
THEOREM TypeCorrect == Spec => []TypeOK
BY Invariant, PTL DEF IInv

(* For any number of files and changes by others, what candidate_handoff   *)
(* accepts of a file, in create as in every verification, is what the file *)
(* held at one instant while it was read.                                  *)
THEOREM AcceptedIsWhole == Spec => ReadsAreWhole
<1>1. IInv /\ [Next]_vars
      => [Running /\ Op \in Stable /\ at' = at + 1 => part \in had]_vars
  <2> SUFFICES ASSUME IInv, [Next]_vars, Running, Op \in Stable, at' = at + 1
               PROVE  part \in had
      OBVIOUS
  <2>1. at \in Nat /\ at # at + 1
      BY ScriptIsSteps DEF IInv, TypeOK
  <2>2. CASE pc = "read" /\ Unchanged
      BY <2>2 DEF IInv, PartInv, Reading, Unchanged
  <2>3. ASSUME at' = at PROVE FALSE
      BY <2>1, <2>3
  <2>4. CASE Take \/ Recheck \/ Check \/ VerifyLive
      BY <2>4, <2>2, <2>3 DEF Take, Recheck, Check, VerifyLive, Reads, Advance
  <2>5. CASE Copy
      BY <2>5, <2>2, <2>3 DEF Copy, PutNew, Reads, Advance
  <2>6. CASE \/ MakeDirectory \/ Write \/ CheckNames \/ ListArtifact \/ WriteManifest
             \/ ParseManifest \/ Confirm \/ Upload \/ VerifyRemote \/ CompareDigest \/ Publish
      BY <2>6 DEF MakeDirectory, Write, CheckNames, ListArtifact, WriteManifest, ParseManifest,
                  Confirm, Upload, VerifyRemote, CompareDigest, Publish, Does, Reads, Stable
  <2>7. CASE \/ \E f \in Given : ChangeInput(f)
             \/ \E f \in Names : ChangeCandidate(f)
             \/ Open \/ Read \/ UNCHANGED vars
      BY <2>3, <2>7 DEF ChangeInput, ChangeCandidate, Change, Open, Read, vars
  <2> QED BY <2>4, <2>5, <2>6, <2>7 DEF Next
<1> QED BY <1>1, Invariant, PTL DEF Spec, ReadsAreWhole

-----------------------------------------------------------------------------
(* What is published.                                                      *)

Places == 1..Len(Artifacts)

LEMMA ArtifactNames ==
    ASSUME NEW i \in Places
    PROVE  /\ Artifacts[i] \in ToSet(Artifacts) /\ Artifacts[i] \in Given /\ Artifacts[i] \in Names
           /\ Artifacts[i] \notin {"attestation", "handoff", "manifest"}
           /\ \A j \in Places : Artifacts[j] = Artifacts[i] => j = i
<1>1. Artifacts[i] \in ToSet(Artifacts)
    BY HandoffAssumption DEF Places, ToSet
<1>2. Artifacts[i] \in Given /\ Artifacts[i] \in Names
    BY NamesAreGiven, ElementOfSeq DEF Places
<1>3. \A j \in Places : Artifacts[j] = Artifacts[i] => j = i
    BY HandoffAssumption DEF Places, IsInjective
<1> QED BY <1>1, <1>2, <1>3, HandoffAssumption

(* The order of these places in the script.                                *)
LEMMA Ordered ==
    /\ Len(Head1) \in Nat /\ Writing \in Nat /\ Parsing \in Nat /\ Compared \in Nat
    /\ Len(Head1) + 1 < Writing /\ Writing < Parsing /\ Parsing < Compared
    /\ Compared < Len(Script) /\ Len(Script) \in Nat
    /\ \A i \in Places :
          /\ Verified(i) \in Nat /\ Confirming(i) \in Nat /\ Reverified(i) \in Nat
          /\ Uploading(i) \in Nat /\ LiveVerified(i) \in Nat /\ LiveCompared(i) \in Nat
          /\ Len(Head1) + 1 < Verified(i) /\ Verified(i) < Writing
          /\ Parsing < Confirming(i) /\ Confirming(i) < Reverified(i)
          /\ Reverified(i) < Uploading(i) /\ Uploading(i) < Compared
          /\ Compared < LiveVerified(i) /\ LiveVerified(i) < LiveCompared(i)
          /\ LiveCompared(i) <= Len(Script)
<1>1. ASSUME NEW i \in Places
      PROVE  /\ Verified(i) \in Nat /\ Confirming(i) \in Nat /\ Reverified(i) \in Nat
             /\ Uploading(i) \in Nat /\ LiveVerified(i) \in Nat /\ LiveCompared(i) \in Nat
             /\ Len(Head1) + 1 < Verified(i) /\ Verified(i) < Writing
             /\ Parsing < Confirming(i) /\ Confirming(i) < Reverified(i)
    BY Lengths DEF Places, Verified, Writing, Parsing, Confirming, Reverified, Uploading,
       LiveVerified, LiveCompared
<1>2. ASSUME NEW i \in Places
      PROVE  /\ Reverified(i) < Uploading(i) /\ Uploading(i) < Compared
             /\ Compared < LiveVerified(i) /\ LiveVerified(i) < LiveCompared(i)
             /\ LiveCompared(i) <= Len(Script)
    BY Lengths DEF Places, Reverified, Uploading, Compared, LiveVerified, LiveCompared
<1>3. /\ Len(Head1) \in Nat /\ Writing \in Nat /\ Parsing \in Nat /\ Compared \in Nat
      /\ Len(Head1) + 1 < Writing /\ Writing < Parsing /\ Parsing < Compared
      /\ Compared < Len(Script) /\ Len(Script) \in Nat
    BY Lengths DEF Writing, Parsing, Compared
<1> QED BY <1>1, <1>2, <1>3

(* What a step of the jobs does after the second verification: to the      *)
(* artifact with index i and to the manifest.                              *)
WorkedOn(i) ==
    LET f == Artifacts[i] IN
    /\ candidate'[f] = candidate[f]
    /\ at # Uploading(i) => remote'[f] = remote[f]
    /\ at = Uploading(i) => pc = "read" /\ remote'[f] = part
    /\ at \in {Verified(i), Reverified(i), LiveVerified(i)} /\ at' = at + 1 =>
          candidate[f].data = record[f] /\ (f \in Cores => record[f] = Original)
    /\ at = Confirming(i) /\ at' = at + 1 => pc = "read" /\ part = listed[f]
    /\ at = LiveCompared(i) /\ at' = at + 1 => pc = "read" /\ part = remote[f]

WorkedOnManifest ==
    /\ at = Writing => listed' = listed /\ candidate'["manifest"].data = Written(listed)
    /\ at > Writing => candidate'["manifest"] = candidate["manifest"]
    /\ at = Parsing => listed' = listed \/ (pc = "read" /\ listed' = Says(part))
    /\ at > Parsing => listed' = listed
    /\ at = Compared /\ at' = at + 1 =>
          /\ pc = "read" /\ Parses(part) /\ part[1].pins /\ remote["manifest"] = part
          /\ \A f \in ToSet(Artifacts) : remote[f] = Says(part)[f]
    /\ at >= Compared => remote' = remote

Worked ==
    /\ at \in 1..Len(Script) /\ at' \in {at, at + 1} /\ pc' \notin Reading
    /\ record' = record /\ edits' = edits
    /\ \A i \in Places : WorkedOn(i)
    /\ WorkedOnManifest
    /\ public' # public => at > Compared

LEMMA WorkInTail ==
    ASSUME IInv, Work, at > Len(Head1)
    PROVE  Worked
<1>1. Running /\ at \in 1..Len(Script) /\ at \in Nat /\ at # at + 1
  <2>1. Running
      BY DEF Work, Take, MakeDirectory, Copy, Recheck, Write, CheckNames, Check, ListArtifact,
         WriteManifest, ParseManifest, Confirm, Upload, VerifyRemote, CompareDigest, Publish,
         VerifyLive, Reads, Does
  <2> QED BY <2>1, ScriptIsSteps DEF IInv, TypeOK, Running
<1>2. /\ Op \notin {"take", "mkdir", "copy", "recheck", "write"}
      /\ Op = "list" => at < Writing
      /\ Op = "writeManifest" => at = Writing
      /\ Op = "parse" => at = Parsing
      /\ Op = "upload" =>
            \/ \E i \in Places : at = Uploading(i)
            \/ at = Len(Head4) + Len(Artifacts) + 1 /\ File = "manifest"
      /\ Op = "publish" => at > Compared
    BY <1>1, ScriptTail DEF Op, File, Places
<1>3. /\ \A i \in Places :
            /\ at \in {Verified(i), Reverified(i), LiveVerified(i)} =>
                  Op = "check" /\ File = Artifacts[i]
            /\ at = Confirming(i) => Op = "confirm" /\ File = Artifacts[i]
            /\ at = Uploading(i) => Op = "upload" /\ File = Artifacts[i]
            /\ at = LiveCompared(i) => Op = "live" /\ File = Artifacts[i]
      /\ at = Writing => Op = "writeManifest"
      /\ at = Parsing => Op = "parse"
      /\ at = Compared => Op = "remote"
  <2>1. \A op, file : Script[at] = Step(op, file) => Op = op /\ File = file
      BY DEF Op, File, Step
  <2>2. ASSUME NEW i \in Places
        PROVE  /\ at \in {Verified(i), Reverified(i), LiveVerified(i)} =>
                     Script[at] = Step("check", Artifacts[i])
               /\ at = Confirming(i) => Script[at] = Step("confirm", Artifacts[i])
               /\ at = Uploading(i) => Script[at] = Step("upload", Artifacts[i])
               /\ at = LiveCompared(i) => Script[at] = Step("live", Artifacts[i])
      BY ScriptAt DEF Places
  <2>3. /\ at = Writing => Script[at] = Step("writeManifest", "manifest")
        /\ at = Parsing => Script[at] = Step("parse", "manifest")
        /\ at = Compared => Script[at] = Step("remote", "manifest")
      BY ScriptAt
  <2> QED BY <2>1, <2>2, <2>3
<1> USE DEF files, results
<1>6. ASSUME CheckNames \/ Check \/ Confirm \/ VerifyRemote \/ CompareDigest \/ VerifyLive
      PROVE  Worked
  <2> USE DEF CheckNames, Check, Confirm, VerifyRemote, CompareDigest, VerifyLive
  <2>1. UNCHANGED <<candidate, edits, record, listed, remote, public>>
      BY <1>6
  <2>2. /\ Op \in {"names", "check", "confirm", "remote", "digest", "live"}
        /\ Op = "check" => Check
        /\ Op = "confirm" => Confirm
        /\ Op = "remote" => VerifyRemote
        /\ Op = "live" => VerifyLive
      BY <1>6 DEF Reads, Does
  <2>3. at' \in {at, at + 1} /\ pc' \notin Reading
      BY <1>6 DEF Advance, Reading
  <2>4. ASSUME NEW i \in Places, at \in {Verified(i), Reverified(i), LiveVerified(i)}, at' = at + 1
        PROVE  /\ candidate[Artifacts[i]].data = record[Artifacts[i]]
               /\ Artifacts[i] \in Cores => record[Artifacts[i]] = Original
    <3>1. Op = "check" /\ File = Artifacts[i] /\ Check
        BY <1>3, <2>2, <2>4
    <3>2. pc = "read" /\ Unchanged /\ Recorded(File)
        BY <1>1, <2>4, <3>1 DEF Advance, Reads
    <3>3. part = record[File] /\ (File \in Cores => part = Original)
        BY <3>1, <3>2, ArtifactNames DEF Recorded
    <3>4. Here = candidate[File]
        BY <3>1 DEF Here, FromInput
    <3>5. part = candidate[File].data
        BY <3>2, <3>4 DEF IInv, PartInv, Reading, Unchanged
    <3> QED BY <3>1, <3>3, <3>5
  <2>5. ASSUME NEW i \in Places, at = Confirming(i), at' = at + 1
        PROVE  pc = "read" /\ part = listed[Artifacts[i]]
    <3>1. Confirm /\ File = Artifacts[i]
        BY <1>3, <2>2, <2>5
    <3> QED BY <1>1, <2>5, <3>1 DEF Advance, Reads
  <2>6. ASSUME NEW i \in Places, at = LiveCompared(i), at' = at + 1
        PROVE  pc = "read" /\ part = remote[Artifacts[i]]
    <3>1. VerifyLive /\ File = Artifacts[i]
        BY <1>3, <2>2, <2>6
    <3> QED BY <1>1, <2>6, <3>1 DEF Advance, Reads
  <2>7. ASSUME at = Compared, at' = at + 1
        PROVE  /\ pc = "read" /\ Parses(part) /\ part[1].pins /\ remote["manifest"] = part
               /\ \A f \in ToSet(Artifacts) : remote[f] = Says(part)[f]
    <3>1. VerifyRemote
        BY <1>3, <2>2, <2>7
    <3> QED BY <1>1, <2>7, <3>1 DEF Advance, Reads, ContractOk
  <2>8. \A i \in Places : WorkedOn(i)
    <3>1. \A i \in Places : at # Uploading(i)
        BY <1>3, <2>2
    <3> QED BY <2>1, <2>4, <2>5, <2>6, <3>1 DEF WorkedOn
  <2>9. WorkedOnManifest
      BY <1>3, <2>1, <2>2, <2>7 DEF WorkedOnManifest
  <2> QED BY <1>1, <2>1, <2>3, <2>8, <2>9 DEF Worked
<1>s. ASSUME Op \in {"list", "writeManifest", "parse", "publish"}, NEW i \in Places
      PROVE  /\ at \notin {Verified(i), Reverified(i), LiveVerified(i)}
             /\ at # Confirming(i) /\ at # Uploading(i) /\ at # LiveCompared(i)
    BY <1>3, <1>s
<1>7. ASSUME ListArtifact PROVE Worked
  <2>1. /\ Op = "list" /\ at' = at + 1 /\ pc' = "ready"
        /\ UNCHANGED <<candidate, edits, record, remote, public>>
      BY <1>7 DEF ListArtifact, Reads, Advance
  <2>2. at < Writing /\ at < Parsing /\ at < Compared
      BY <1>1, <1>2, <2>1, Ordered
  <2>3. WorkedOnManifest
      BY <1>1, <2>2, Ordered DEF WorkedOnManifest
  <2> QED BY <1>1, <1>s, <2>1, <2>3 DEF Worked, WorkedOn, Reading
<1>8. ASSUME WriteManifest PROVE Worked
  <2>1. /\ Op = "writeManifest" /\ at' = at + 1 /\ pc' = "ready"
        /\ candidate' = [candidate EXCEPT !["manifest"] =
                            [data |-> Written(listed), stamp |-> changes]]
        /\ UNCHANGED <<edits, record, listed, remote, public>>
      BY <1>8 DEF WriteManifest, Does, Advance, Put
  <2>2. at = Writing /\ at < Parsing /\ at < Compared
      BY <1>1, <1>2, <2>1, Ordered
  <2>3. /\ \A i \in Places : candidate'[Artifacts[i]] = candidate[Artifacts[i]]
        /\ candidate'["manifest"].data = Written(listed)
    <3>1. candidate \in [Names -> Stamped] /\ "manifest" \in Names
        BY NamesAreGiven DEF IInv, TypeOK
    <3> QED BY <2>1, <3>1, ArtifactNames
  <2>4. WorkedOnManifest
      BY <1>1, <2>1, <2>2, <2>3, Ordered DEF WorkedOnManifest
  <2> QED BY <1>1, <1>s, <2>1, <2>3, <2>4 DEF Worked, WorkedOn, Reading
<1>9. ASSUME ParseManifest PROVE Worked
  <2>1. /\ Op = "parse" /\ pc = "read" /\ at' \in {at, at + 1} /\ pc' \notin Reading
        /\ listed' = listed \/ listed' = Says(part)
        /\ UNCHANGED <<candidate, edits, record, remote, public>>
      BY <1>9 DEF ParseManifest, Reads, Advance, Reading
  <2>2. at = Parsing /\ at > Writing /\ at < Compared
      BY <1>1, <1>2, <2>1, Ordered
  <2>3. WorkedOnManifest
      BY <1>1, <2>1, <2>2, Ordered DEF WorkedOnManifest
  <2> QED BY <1>1, <1>s, <2>1, <2>3 DEF Worked, WorkedOn
<1>10. ASSUME Upload PROVE Worked
  <2>1. /\ Op = "upload" /\ pc = "read" /\ at' = at + 1 /\ pc' = "ready"
        /\ remote' = [remote EXCEPT ![File] = part]
        /\ UNCHANGED <<candidate, edits, record, listed, public>>
      BY <1>10 DEF Upload, Reads, Advance
  <2>2. remote \in [ToSet(Artifacts) \cup {"manifest"} -> Stored]
      BY DEF IInv, TypeOK
  <2>3. \A i \in Places : /\ at \notin {Verified(i), Reverified(i), LiveVerified(i)}
                          /\ at # Confirming(i) /\ at # LiveCompared(i)
      BY <1>3, <2>1
  <2>4. at < Compared
    <3>1. Len(Head4) + Len(Artifacts) + 1 < Compared
        BY Lengths DEF Compared
    <3> QED BY <1>2, <2>1, <3>1, Ordered
  <2>5. \A i \in Places : /\ at # Uploading(i) => Artifacts[i] # File
                          /\ at = Uploading(i) => Artifacts[i] = File
    <3>1. \A i \in Places : at = Uploading(i) => Artifacts[i] = File
        BY <1>3
    <3>2. CASE \E j \in Places : at = Uploading(j)
        BY <3>1, <3>2, ArtifactNames
    <3>3. CASE File = "manifest"
        BY <3>1, <3>3, ArtifactNames
    <3> QED BY <1>2, <2>1, <3>1, <3>2, <3>3
  <2>6. \A i \in Places : /\ at # Uploading(i) => remote'[Artifacts[i]] = remote[Artifacts[i]]
                          /\ at = Uploading(i) => remote'[Artifacts[i]] = part
      BY <2>1, <2>2, <2>5, ArtifactNames
  <2>7. WorkedOnManifest
      BY <1>1, <1>3, <2>1, <2>4, Ordered DEF WorkedOnManifest
  <2> QED BY <1>1, <2>1, <2>3, <2>6, <2>7 DEF Worked, WorkedOn, Reading
<1>11. ASSUME Publish PROVE Worked
  <2>1. /\ Op = "publish" /\ at' = at + 1 /\ pc' = "ready"
        /\ UNCHANGED <<candidate, edits, record, listed, remote>>
      BY <1>11 DEF Publish, Does, Advance
  <2>2. at > Compared
      BY <1>2, <2>1
  <2>3. WorkedOnManifest
      BY <1>1, <1>3, <2>1, <2>2, Ordered DEF WorkedOnManifest
  <2> QED BY <1>1, <1>s, <2>1, <2>2, <2>3 DEF Worked, WorkedOn, Reading
<1>12. ~(Take \/ MakeDirectory \/ Copy \/ Recheck \/ Write)
    BY <1>2 DEF Take, MakeDirectory, Copy, Recheck, Write, Reads, Does
<1> QED BY <1>6, <1>7, <1>8, <1>9, <1>10, <1>11, <1>12 DEF Work

LEMMA CreationElements ==
    \A i \in 1..Len(Creation) : Creation[i].op \in Ops \ {"publish"}
<1> DEFINE some == Ops \ {"publish"}
           takes == Each("take", <<"attestation">> \o Snapshot)
           mkdir == <<Step("mkdir", Stray)>>
           names == <<"attestation">> \o Snapshot \o <<"handoff">>
           writes == Each("write", names)
<1>1. /\ takes \in Seq(Steps)
      /\ \A i \in 1..Len(takes) : takes[i].op \in some
  <2>1. takes \in Seq(Steps)
      BY NamesAreSequences, StepIsStep, EachIsSteps, Zenon
  <2>2. \A i \in 1..Len(takes) : takes[i].op = "take"
      BY NamesAreSequences DEF Each, Step
  <2> QED BY <2>1, <2>2 DEF Ops
<1>2. /\ mkdir \in Seq(Steps)
      /\ \A i \in 1..Len(mkdir) : mkdir[i].op \in some
  <2>1. Step("mkdir", Stray) \in Steps
      BY NamesAreGiven, StepIsStep
  <2> QED BY <2>1 DEF Step, Ops
<1>3. \A i \in 1..Len(Copies) : Copies[i].op \in some
  <2>1. \A i \in 1..Len(Copies) : Copies[i].op \in {"copy", "recheck"}
    <3>1. 2 * Len(Artifacts) \in Nat
        BY HandoffAssumption
    <3>2. Len(Copies) = 2 * Len(Artifacts)
        BY <3>1 DEF Copies
    <3> QED BY <3>2 DEF Copies, Step
  <2> QED BY <2>1 DEF Ops
<1>4. names \in Seq(Root)
    BY NamesAreSequences
<1>5. /\ writes \in Seq(Steps)
      /\ \A i \in 1..Len(writes) : writes[i].op \in some
  <2> HIDE DEF names
  <2>2. writes \in Seq(Steps)
      BY <1>4, StepIsStep, EachIsSteps, Zenon
  <2>3. \A i \in 1..Len(writes) : writes[i].op = "write"
      BY <1>4 DEF Each, Step
  <2> QED BY <2>2, <2>3 DEF Ops
<1>6. Creation = ((takes \o mkdir) \o Copies) \o writes
    BY DEF Creation
<1> HIDE DEF takes, mkdir, writes, some
<1>7. /\ takes \o mkdir \in Seq(Steps)
      /\ \A i \in 1..Len(takes \o mkdir) : (takes \o mkdir)[i].op \in some
    BY <1>1, <1>2, Joined, OpsJoined
<1> DEFINE front == (takes \o mkdir) \o Copies
<1>8. /\ front \in Seq(Steps)
      /\ \A i \in 1..Len(front) : front[i].op \in some
    BY <1>3, <1>7, CopiesAreSteps, Joined, OpsJoined
<1> HIDE DEF front
<1>9. \A i \in 1..Len(front \o writes) : (front \o writes)[i].op \in some
    BY <1>5, <1>8, OpsJoined
<1> QED BY <1>6, <1>9 DEF front, some

(* The script publishes only after it has compared the draft.              *)
LEMMA PublishedAfter ==
    \A k \in 1..Len(Script) : Script[k].op = "publish" => k > Compared
<1> SUFFICES ASSUME NEW k \in 1..Len(Script), Script[k].op = "publish" PROVE k > Compared
    OBVIOUS
<1>1. CASE k > Len(Head1)
    BY <1>1, ScriptTail
<1>2. CASE k <= Len(Head1)
  <2> DEFINE some == Ops \ {"publish"}
  <2>1. \A i \in 1..Len(Creation) : Creation[i].op \in some
      BY CreationElements
  <2>2. \A i \in 1..Len(Once) : Once[i].op \in some
    <3>1. \A i \in 1..Len(Once) : Once[i].op \in {"names", "check"}
        BY VerificationElements DEF Once
    <3> QED BY <3>1 DEF Ops
  <2> HIDE DEF some
  <2>3. /\ Creation \o Once \in Seq(Steps)
        /\ \A i \in 1..Len(Creation \o Once) : (Creation \o Once)[i].op \in some
      BY <2>1, <2>2, CreationIsSteps, PartsAreSteps, Joined, OpsJoined
  <2>4. \A i \in 1..Len(Head1) : Head1[i].op \in some
      BY <2>2, <2>3, PartsAreSteps, OpsJoined DEF Head1
  <2>5. k \in 1..Len(Head1) /\ k \in 1..Len(Head2) /\ k \in 1..Len(Head3) /\ k \in 1..Len(Head4)
        /\ k \in 1..Len(Head5)
      BY <1>2, Lengths
  <2>6. Script[k] = Head5[k] /\ Head5[k] = Head4[k] /\ Head4[k] = Head3[k]
      BY <2>5, PartsAreSteps, Before DEF Head5, Head4
  <2>7. Head3[k] = Head2[k] /\ Head2[k] = Head1[k]
      BY <2>5, PartsAreSteps, Before DEF Head3, Head2
  <2>8. Script[k].op \in some
      BY <2>4, <2>5, <2>6, <2>7
  <2> QED BY <2>8 DEF some
<1> QED BY <1>1, <1>2, Lengths

(* The jobs take one step of the script at a time.                         *)
LEMMA OneStep ==
    ASSUME IInv, [Next]_vars
    PROVE  /\ at' \in {at, at + 1}
           /\ public' # public => at > Compared
<1>1. CASE \/ \E f \in Given : ChangeInput(f)
           \/ \E f \in Names : ChangeCandidate(f)
           \/ Open \/ Read \/ UNCHANGED vars
    BY <1>1 DEF ChangeInput, ChangeCandidate, Change, Open, Read, vars, results
<1>2. CASE Copy \/ Write
    BY <1>2 DEF Copy, Write, PutNew, Advance
<1>3. CASE Publish
  <2>1. at \in 1..Len(Script) /\ Op = "publish"
      BY <1>3, ScriptIsSteps DEF Publish, Does, Running, IInv, TypeOK
  <2>2. at > Compared
      BY <2>1, PublishedAfter DEF Op
  <2> QED BY <1>3, <2>2 DEF Publish, Advance
<1>4. CASE \/ Take \/ MakeDirectory \/ Recheck \/ CheckNames \/ Check \/ ListArtifact
           \/ WriteManifest \/ ParseManifest \/ Confirm \/ Upload \/ VerifyRemote \/ CompareDigest
           \/ VerifyLive
    BY <1>4 DEF Take, MakeDirectory, Recheck, CheckNames, Check, ListArtifact, WriteManifest,
       ParseManifest, Confirm, Upload, VerifyRemote, CompareDigest, VerifyLive, Advance, results
<1> QED BY <1>1, <1>2, <1>3, <1>4 DEF Next

(* The file no longer has what the handoff says of it.                     *)
Away(f) == candidate[f].data # record[f]

(* After n changes that others needed before: what the file has now, and   *)
(* what was read of it or is said of it now, needs one more or two.        *)
Owes(f, n) == edits[f] >= n /\ (Away(f) => edits[f] >= n + 1)
Exchanged(f, n) == edits[f] >= n + 1 /\ (~Away(f) => edits[f] >= n + 2)

(* What the changes to one artifact were needed for so far: to be          *)
(* confirmed with other contents and put back for the verification after   *)
(* that, to be uploaded with other contents and put back for the           *)
(* verification of the public release, and to be compared with the others. *)
Listings(f) == IF listed[f] # record[f] THEN 2 ELSE 0
Uploads(f) == Listings(f) + IF remote[f] # record[f] THEN 2 ELSE 0

Cycle(i) ==
    LET f == Artifacts[i] IN
    /\ at > Verified(i) => (f \in Cores => record[f] = Original)
    /\ at > Verified(i) /\ at <= Confirming(i) => Owes(f, 0)
    /\ at = Confirming(i) /\ pc \in Reading /\ part # record[f] => Exchanged(f, 0)
    /\ at > Confirming(i) /\ at <= Reverified(i) =>
          Owes(f, 0) /\ (listed[f] # record[f] => Exchanged(f, 0))
    /\ at > Reverified(i) /\ at <= Uploading(i) => Owes(f, Listings(f))
    /\ at = Uploading(i) /\ pc \in Reading /\ part # record[f] => Exchanged(f, Listings(f))
    /\ at > Uploading(i) /\ at <= LiveVerified(i) =>
          Owes(f, Listings(f)) /\ (remote[f] # record[f] => Exchanged(f, Listings(f)))
    /\ at > LiveVerified(i) /\ at <= LiveCompared(i) => Owes(f, Uploads(f))
    /\ at = LiveCompared(i) /\ pc \in Reading /\ part # record[f] => Exchanged(f, Uploads(f))
    /\ at > LiveCompared(i) /\ remote[f] # record[f] => edits[f] >= Uploads(f) + 1

(* Of every artifact.                                                      *)
CycleInv == \A i \in Places : Cycle(i)

(* As long as nobody else changes the manifest, it lists what was parsed.  *)
ManifestInv ==
    at > Writing /\ edits["manifest"] = 0 =>
        /\ candidate["manifest"].data = Written(listed)
        /\ at \in {Parsing, Compared} /\ pc \in Reading => part = Written(listed)

(* Of the comparison of the draft with the manifest.                       *)
CompareInv ==
    /\ at > Compared =>
          /\ Parses(remote["manifest"]) /\ remote["manifest"][1].pins
          /\ \A f \in ToSet(Artifacts) :
                /\ remote[f] = Says(remote["manifest"])[f]
                /\ edits["manifest"] = 0 => remote[f] = listed[f]
    /\ public => at > Compared

(* Where a file of the candidate is read.                                  *)
ReadAt(f) == {k \in 1..Len(Script) : Script[k].file = f /\ Script[k].op \notin {"take", "copy"}}

(* What any other step does, seen from one file.                           *)
Aside(f) ==
    /\ UNCHANGED <<at, record, listed, remote, public>>
    /\ \/ edits'[f] = edits[f] + 1 /\ UNCHANGED <<pc, part>>
       \/ /\ candidate'[f] = candidate[f] /\ edits'[f] = edits[f]
          /\ at \in ReadAt(f) /\ pc' \in Reading =>
                \A d : part' # d => candidate[f].data # d \/ (pc \in Reading /\ part # d)

LEMMA OtherSteps ==
    ASSUME IInv, [Next]_vars, ~Work, NEW f \in Names
    PROVE  Aside(f)
<1>1. CASE \E g \in Given : ChangeInput(g)
    BY <1>1 DEF ChangeInput, Change, Aside, results
<1>2. CASE \E g \in Names : ChangeCandidate(g)
  <2>1. PICK g \in Names : ChangeCandidate(g)
      BY <1>2
  <2>2. PICK entry \in Changed(g) : candidate' = [candidate EXCEPT ![g] = entry]
      BY <2>1 DEF ChangeCandidate
  <2>3. /\ edits' = [edits EXCEPT ![g] = @ + 1]
        /\ UNCHANGED <<at, pc, part, record, listed, remote, public>>
      BY <2>1 DEF ChangeCandidate, Change, results
  <2>4. candidate \in [Names -> Stamped] /\ edits \in [Names -> 0..MaxChanges]
      BY DEF IInv, TypeOK
  <2>5. CASE f = g
      BY <2>3, <2>4, <2>5 DEF Aside
  <2>6. CASE f # g
    <3>1. candidate'[f] = candidate[f] /\ edits'[f] = edits[f]
        BY <2>2, <2>3, <2>4, <2>6
    <3> QED BY <2>3, <3>1 DEF Aside
  <2> QED BY <2>5, <2>6
<1>3. CASE Open \/ Read
  <2>1. Running /\ UNCHANGED <<candidate, edits, at, record, listed, remote, public>>
      BY <1>3 DEF Open, Read, files, results
  <2>2. ASSUME at \in ReadAt(f), pc' \in Reading, NEW d, part' # d
        PROVE  candidate[f].data # d \/ (pc \in Reading /\ part # d)
    <3>1. File = f /\ Here = candidate[f]
        BY <2>2 DEF ReadAt, Here, FromInput, File, Op
    <3>2. CASE Open
        BY <2>2, <3>1, <3>2 DEF Open
    <3>3. CASE Read
      <4>1. part \in Holds(File) /\ pc \in Reading
          BY <3>3 DEF Read, IInv, TypeOK, Reading, File
      <4>2. /\ \/ part' = part
               \/ Here.data # Absent /\ part' = <<Here.data[1], part[2]>>
               \/ Here.data # Absent /\ part' = <<part[1], Here.data[2]>>
          BY <3>3 DEF Read
      <4>3. part = <<part[1], part[2]>>
          BY <4>1 DEF Holds, Contents, Manifests
      <4>4. CASE part # d
          BY <4>1, <4>4
      <4>5. CASE part = d
        <5>1. Here.data # part
            BY <2>2, <4>2, <4>3, <4>5
        <5> QED BY <3>1, <4>5, <5>1
      <4> QED BY <4>4, <4>5
    <3> QED BY <1>3, <3>2, <3>3
  <2> QED BY <2>1, <2>2 DEF Aside
<1>4. CASE UNCHANGED vars
    BY <1>4 DEF vars, files, results, reading, Aside
<1> QED BY <1>1, <1>2, <1>3, <1>4 DEF Next, Work

LEMMA ReadPlaces ==
    /\ \A i \in Places : {Confirming(i), Uploading(i), LiveCompared(i)} \subseteq ReadAt(Artifacts[i])
    /\ {Parsing, Compared} \subseteq ReadAt("manifest")
<1>1. ASSUME NEW i \in Places, NEW k \in {Confirming(i), Uploading(i), LiveCompared(i)}
      PROVE  k \in ReadAt(Artifacts[i])
  <2>1. k \in 1..Len(Script)
      BY Ordered
  <2>2. \E op \in {"confirm", "upload", "live"} : Script[k] = Step(op, Artifacts[i])
      BY ScriptAt DEF Places
  <2> QED BY <2>1, <2>2 DEF ReadAt, Step
<1>2. ASSUME NEW k \in {Parsing, Compared} PROVE k \in ReadAt("manifest")
  <2>1. k \in 1..Len(Script)
      BY Ordered
  <2>2. \E op \in {"parse", "remote"} : Script[k] = Step(op, "manifest")
      BY ScriptAt
  <2> QED BY <2>1, <2>2 DEF ReadAt, Step
<1> QED BY <1>1, <1>2

(* Neither kind of step needs a change less than the invariant says.       *)
LEMMA AsideKeeps ==
    ASSUME IInv, NEW i \in Places, Cycle(i), Aside(Artifacts[i])
    PROVE  Cycle(i)'
<1> DEFINE f == Artifacts[i]
<1>1. edits[f] \in Nat
    BY ArtifactNames, HandoffAssumption DEF IInv, TypeOK
<1>2. /\ UNCHANGED <<at, record, listed, remote>>
      /\ Listings(f)' = Listings(f) /\ Uploads(f)' = Uploads(f)
      /\ Listings(f) \in Nat /\ Uploads(f) \in Nat
    BY DEF Aside, Listings, Uploads
<1>3. ASSUME NEW n \in Nat
      PROVE  /\ Owes(f, n) => Owes(f, n)'
             /\ Exchanged(f, n) => Exchanged(f, n)'
             /\ at \in ReadAt(f) /\ Owes(f, n) /\ pc' \in Reading /\ part' # record[f]
                /\ (pc \in Reading /\ part # record[f] => Exchanged(f, n)) => Exchanged(f, n)'
  <2>1. CASE edits'[f] = edits[f] + 1 /\ UNCHANGED <<pc, part>>
      BY <1>1, <2>1 DEF Owes, Exchanged
  <2>2. CASE /\ candidate'[f] = candidate[f] /\ edits'[f] = edits[f]
             /\ at \in ReadAt(f) /\ pc' \in Reading =>
                   \A d : part' # d => candidate[f].data # d \/ (pc \in Reading /\ part # d)
    <3>1. Away(f)' <=> Away(f)
        BY <1>2, <2>2 DEF Away
    <3>2. at \in ReadAt(f) /\ pc' \in Reading /\ part' # record[f] =>
             Away(f) \/ (pc \in Reading /\ part # record[f])
        BY <2>2 DEF Away
    <3> QED BY <1>1, <2>2, <3>1, <3>2 DEF Owes, Exchanged
  <2> QED BY <2>1, <2>2 DEF Aside
<1>4. edits'[f] >= edits[f] /\ edits'[f] \in Nat
    BY <1>1 DEF Aside
<1>5. {Confirming(i), Uploading(i), LiveCompared(i)} \subseteq ReadAt(f)
    BY ReadPlaces
<1>6. /\ Verified(i) < Confirming(i) /\ Reverified(i) < Uploading(i)
      /\ LiveVerified(i) < LiveCompared(i)
      /\ Verified(i) \in Nat /\ Reverified(i) \in Nat /\ LiveVerified(i) \in Nat
      /\ Confirming(i) \in Nat /\ Uploading(i) \in Nat /\ LiveCompared(i) \in Nat
    BY Ordered
<1> DEFINE x == Listings(f)
           y == Uploads(f)
<1>7. /\ Owes(f, 0) => Owes(f, 0)'
      /\ Exchanged(f, 0) => Exchanged(f, 0)'
      /\ Owes(f, x) => Owes(f, Listings(f))'
      /\ Exchanged(f, x) => Exchanged(f, Listings(f))'
      /\ Owes(f, y) => Owes(f, Uploads(f))'
      /\ Exchanged(f, y) => Exchanged(f, Uploads(f))'
  <2>1. PICK n \in Nat : n = Listings(f)
      BY <1>2
  <2>2. PICK m \in Nat : m = Uploads(f)
      BY <1>2
  <2>3. (Owes(f, Listings(f))' <=> Owes(f, n)') /\ (Exchanged(f, Listings(f))' <=> Exchanged(f, n)')
      BY <1>2, <2>1 DEF Owes, Exchanged
  <2>4. (Owes(f, Uploads(f))' <=> Owes(f, m)') /\ (Exchanged(f, Uploads(f))' <=> Exchanged(f, m)')
      BY <1>2, <2>2 DEF Owes, Exchanged
  <2> QED BY <1>3, <2>1, <2>2, <2>3, <2>4
<1>8. ASSUME at \in ReadAt(f), pc' \in Reading, part' # record[f]
      PROVE  /\ Owes(f, 0) /\ (pc \in Reading /\ part # record[f] => Exchanged(f, 0))
                => Exchanged(f, 0)'
             /\ Owes(f, x) /\ (pc \in Reading /\ part # record[f] => Exchanged(f, x))
                => Exchanged(f, Listings(f))'
             /\ Owes(f, y) /\ (pc \in Reading /\ part # record[f] => Exchanged(f, y))
                => Exchanged(f, Uploads(f))'
  <2>1. PICK n \in Nat : n = Listings(f)
      BY <1>2
  <2>2. PICK m \in Nat : m = Uploads(f)
      BY <1>2
  <2>3. Exchanged(f, Listings(f))' <=> Exchanged(f, n)'
      BY <1>2, <2>1 DEF Exchanged
  <2>4. Exchanged(f, Uploads(f))' <=> Exchanged(f, m)'
      BY <1>2, <2>2 DEF Exchanged
  <2> QED BY <1>3, <1>8, <2>1, <2>2, <2>3, <2>4
<1> HIDE DEF f, x, y
<1>9. at' > Verified(i) => (f \in Cores => record'[f] = Original)
    BY <1>2 DEF Cycle, f
<1>10. at' > Verified(i) /\ at' <= Confirming(i) => Owes(f, 0)'
    BY <1>2, <1>7 DEF Cycle, f
<1>11. at' = Confirming(i) /\ pc' \in Reading /\ part' # record'[f] => Exchanged(f, 0)'
  <2>1. at = Confirming(i) => at > Verified(i) /\ at <= Confirming(i) /\ at \in ReadAt(f)
      BY <1>5, <1>6
  <2> QED BY <1>2, <1>8, <2>1 DEF Cycle, f
<1>12. at' > Confirming(i) /\ at' <= Reverified(i) =>
           Owes(f, 0)' /\ (listed'[f] # record'[f] => Exchanged(f, 0)')
    BY <1>2, <1>7 DEF Cycle, f
<1>13. at' > Reverified(i) /\ at' <= Uploading(i) => Owes(f, Listings(f))'
    BY <1>2, <1>7 DEF Cycle, f, x
<1>14. at' = Uploading(i) /\ pc' \in Reading /\ part' # record'[f] => Exchanged(f, Listings(f))'
  <2>1. at = Uploading(i) => at > Reverified(i) /\ at <= Uploading(i) /\ at \in ReadAt(f)
      BY <1>5, <1>6
  <2> QED BY <1>2, <1>8, <2>1 DEF Cycle, f, x
<1>15. at' > Uploading(i) /\ at' <= LiveVerified(i) =>
           Owes(f, Listings(f))' /\ (remote'[f] # record'[f] => Exchanged(f, Listings(f))')
    BY <1>2, <1>7 DEF Cycle, f, x
<1>16. at' > LiveVerified(i) /\ at' <= LiveCompared(i) => Owes(f, Uploads(f))'
    BY <1>2, <1>7 DEF Cycle, f, y
<1>17. at' = LiveCompared(i) /\ pc' \in Reading /\ part' # record'[f] => Exchanged(f, Uploads(f))'
  <2>1. at = LiveCompared(i) => at > LiveVerified(i) /\ at <= LiveCompared(i) /\ at \in ReadAt(f)
      BY <1>5, <1>6
  <2> QED BY <1>2, <1>8, <2>1 DEF Cycle, f, y
<1>18. at' > LiveCompared(i) /\ remote'[f] # record'[f] => edits'[f] >= Uploads(f)' + 1
    BY <1>1, <1>2, <1>4 DEF Cycle, f
<1> QED BY <1>9, <1>10, <1>11, <1>12, <1>13, <1>14, <1>15, <1>16, <1>17, <1>18 DEF Cycle, f

LEMMA WorkedKeeps ==
    ASSUME IInv, NEW i \in Places, Cycle(i), Worked
    PROVE  Cycle(i)'
<1> DEFINE f == Artifacts[i]
           e == edits[f]
<1>1. e \in Nat /\ at \in Nat
    BY ArtifactNames, ScriptIsSteps, HandoffAssumption DEF IInv, TypeOK
<1>2. /\ Parsing \in Nat
      /\ Verified(i) \in Nat /\ Confirming(i) \in Nat /\ Reverified(i) \in Nat
      /\ Uploading(i) \in Nat /\ LiveVerified(i) \in Nat /\ LiveCompared(i) \in Nat
      /\ Verified(i) < Confirming(i) /\ Parsing < Confirming(i) /\ Confirming(i) < Reverified(i)
      /\ Reverified(i) < Uploading(i) /\ Uploading(i) < LiveVerified(i)
      /\ LiveVerified(i) < LiveCompared(i)
    BY Ordered
<1>3. /\ at' \in {at, at + 1} /\ pc' \notin Reading /\ record' = record
      /\ candidate'[f] = candidate[f] /\ edits'[f] = edits[f]
      /\ at > Parsing => listed' = listed
      /\ at # Uploading(i) => remote'[f] = remote[f]
      /\ at = Uploading(i) => pc \in Reading /\ remote'[f] = part
      /\ at \in {Verified(i), Reverified(i), LiveVerified(i)} /\ at' = at + 1 =>
            ~Away(f) /\ (f \in Cores => record[f] = Original)
      /\ at = Confirming(i) /\ at' = at + 1 => pc \in Reading /\ part = listed[f]
      /\ at = LiveCompared(i) /\ at' = at + 1 => pc \in Reading /\ part = remote[f]
    BY DEF Worked, WorkedOn, WorkedOnManifest, Away, Reading
<1>4. /\ Away(f)' <=> Away(f)
      /\ \A n : (edits'[f] >= n /\ (Away(f)' => edits'[f] >= n + 1)) <=> Owes(f, n)
      /\ \A n : (edits'[f] >= n + 1 /\ (~Away(f)' => edits'[f] >= n + 2)) <=> Exchanged(f, n)
    BY <1>3 DEF Away, Owes, Exchanged
<1>5. /\ Owes(f, 0)' <=> Owes(f, 0)
      /\ Exchanged(f, 0)' <=> Exchanged(f, 0)
      /\ Owes(f, Listings(f))' <=> Owes(f, Listings(f)')
      /\ Exchanged(f, Listings(f))' <=> Exchanged(f, Listings(f)')
      /\ Owes(f, Uploads(f))' <=> Owes(f, Uploads(f)')
    BY <1>4 DEF Owes, Exchanged
<1>6. /\ at > Parsing => Listings(f)' = Listings(f)
      /\ at > Parsing /\ at # Uploading(i) => Uploads(f)' = Uploads(f)
    BY <1>3 DEF Listings, Uploads
<1>7. \A k \in {Verified(i), Confirming(i), Reverified(i), Uploading(i), LiveVerified(i),
                LiveCompared(i)} :
         /\ at' > k => at > k \/ (at = k /\ at' = at + 1)
         /\ at' <= k => at <= k
    BY <1>1, <1>2, <1>3
<1>8. at' > Verified(i) => (f \in Cores => record'[f] = Original)
    BY <1>3, <1>7 DEF Cycle
<1>9. at' > Verified(i) /\ at' <= Confirming(i) => Owes(f, 0)'
  <2>1. ~Away(f) => Owes(f, 0)
      BY <1>1 DEF Owes
  <2> QED BY <1>3, <1>5, <1>7, <2>1 DEF Cycle
<1>10. at' > Confirming(i) /\ at' <= Reverified(i) =>
           Owes(f, 0)' /\ (listed'[f] # record'[f] => Exchanged(f, 0)')
  <2>1. CASE at > Confirming(i) /\ at <= Reverified(i)
    <3>1. listed' = listed
        BY <1>1, <1>2, <1>3, <2>1
    <3> QED BY <1>3, <1>5, <2>1, <3>1 DEF Cycle
  <2>2. CASE at = Confirming(i) /\ at' = at + 1
    <3>1. listed' = listed /\ at > Verified(i) /\ at <= Confirming(i)
        BY <1>1, <1>2, <1>3, <2>2
    <3> QED BY <1>3, <1>5, <2>2, <3>1 DEF Cycle
  <2> QED BY <1>7, <2>1, <2>2
<1>11. at' > Reverified(i) /\ at' <= Uploading(i) => Owes(f, Listings(f))'
  <2>1. CASE at > Reverified(i) /\ at <= Uploading(i)
    <3>1. Listings(f)' = Listings(f)
        BY <1>1, <1>2, <1>6, <2>1
    <3> QED BY <1>5, <2>1, <3>1 DEF Cycle
  <2>2. CASE at = Reverified(i) /\ at' = at + 1
    <3>1. Listings(f)' = Listings(f) /\ at > Confirming(i) /\ at <= Reverified(i)
        BY <1>1, <1>2, <1>6, <2>2
    <3>2. ~Away(f) /\ (listed[f] # record[f] => Exchanged(f, 0))
        BY <1>3, <2>2, <3>1 DEF Cycle
    <3>3. Owes(f, Listings(f))
        BY <1>1, <3>2 DEF Owes, Exchanged, Listings
    <3> QED BY <1>5, <3>1, <3>3
  <2> QED BY <1>7, <2>1, <2>2
<1>12. at' > Uploading(i) /\ at' <= LiveVerified(i) =>
           Owes(f, Listings(f))' /\ (remote'[f] # record'[f] => Exchanged(f, Listings(f))')
  <2>1. CASE at > Uploading(i) /\ at <= LiveVerified(i)
    <3>1. Listings(f)' = Listings(f) /\ at # Uploading(i)
        BY <1>1, <1>2, <1>6, <2>1
    <3> QED BY <1>3, <1>5, <2>1, <3>1 DEF Cycle
  <2>2. CASE at = Uploading(i) /\ at' = at + 1
    <3>1. Listings(f)' = Listings(f) /\ at > Reverified(i) /\ at <= Uploading(i)
        BY <1>1, <1>2, <1>6, <2>2
    <3> QED BY <1>3, <1>5, <2>2, <3>1 DEF Cycle
  <2> QED BY <1>7, <2>1, <2>2
<1>13. at' > LiveVerified(i) /\ at' <= LiveCompared(i) => Owes(f, Uploads(f))'
  <2>1. CASE at > LiveVerified(i) /\ at <= LiveCompared(i)
    <3>1. Uploads(f)' = Uploads(f)
        BY <1>1, <1>2, <1>6, <2>1
    <3> QED BY <1>5, <2>1, <3>1 DEF Cycle
  <2>2. CASE at = LiveVerified(i) /\ at' = at + 1
    <3>1. Uploads(f)' = Uploads(f) /\ at > Uploading(i) /\ at <= LiveVerified(i)
        BY <1>1, <1>2, <1>6, <2>2
    <3>2. /\ ~Away(f) /\ Owes(f, Listings(f))
          /\ remote[f] # record[f] => Exchanged(f, Listings(f))
        BY <1>3, <2>2, <3>1 DEF Cycle
    <3>3. Owes(f, Uploads(f))
        BY <1>1, <3>2 DEF Owes, Exchanged, Uploads, Listings
    <3> QED BY <1>5, <3>1, <3>3
  <2> QED BY <1>7, <2>1, <2>2
<1>14. at' > LiveCompared(i) /\ remote'[f] # record'[f] => edits'[f] >= Uploads(f)' + 1
  <2>1. at' > LiveCompared(i) => Uploads(f)' = Uploads(f) /\ at # Uploading(i)
      BY <1>1, <1>2, <1>6, <1>7
  <2>2. CASE at > LiveCompared(i)
      BY <1>3, <2>1, <2>2 DEF Cycle
  <2>3. CASE at = LiveCompared(i) /\ at' = at + 1
      BY <1>3, <2>1, <2>3 DEF Cycle, Exchanged
  <2> QED BY <1>7, <2>2, <2>3
<1> QED BY <1>3, <1>8, <1>9, <1>10, <1>11, <1>12, <1>13, <1>14 DEF Cycle

LEMMA CycleKeeps ==
    ASSUME IInv, [Next]_vars, CycleInv
    PROVE  CycleInv'
<1> SUFFICES ASSUME NEW i \in Places PROVE Cycle(i)'
    BY DEF CycleInv, Places
<1>1. Cycle(i)
    BY DEF CycleInv
<1>2. CASE at > Len(Head1)
  <2>1. CASE Work
      BY <1>1, <1>2, <2>1, WorkInTail, WorkedKeeps
  <2>2. CASE ~Work
      BY <1>1, <2>2, OtherSteps, AsideKeeps, ArtifactNames
  <2> QED BY <2>1, <2>2
<1>3. CASE ~(at > Len(Head1))
  <2>1. at \in Nat /\ at' \in {at, at + 1}
      BY OneStep, ScriptIsSteps DEF IInv, TypeOK
  <2>2. Len(Head1) \in Nat /\ at' <= Len(Head1) + 1
      BY <1>3, <2>1, Ordered
  <2>3. \A k \in {Verified(i), Confirming(i), Reverified(i), Uploading(i), LiveVerified(i),
                  LiveCompared(i)} : k \in Nat /\ Len(Head1) + 1 < k
      BY <2>2, Ordered
  <2>4. \A k \in {Verified(i), Confirming(i), Reverified(i), Uploading(i), LiveVerified(i),
                  LiveCompared(i)} : ~(at' > k) /\ at' # k
      BY <2>1, <2>2, <2>3
  <2> QED BY <2>4 DEF Cycle
<1> QED BY <1>2, <1>3

LEMMA ManifestKeeps ==
    ASSUME IInv, [Next]_vars, ManifestInv
    PROVE  ManifestInv'
<1>1. /\ at \in Nat /\ at' \in {at, at + 1} /\ edits["manifest"] \in Nat /\ "manifest" \in Names
      /\ Len(Head1) \in Nat /\ Writing \in Nat /\ Parsing \in Nat /\ Compared \in Nat
      /\ Len(Head1) + 1 < Writing /\ Writing < Parsing /\ Parsing < Compared
  <2>1. "manifest" \in Names
      BY NamesAreGiven
  <2> QED BY <2>1, OneStep, Ordered, ScriptIsSteps, HandoffAssumption DEF IInv, TypeOK
<1> SUFFICES ASSUME at' > Writing, edits'["manifest"] = 0
             PROVE  /\ candidate'["manifest"].data = Written(listed')
                    /\ at' \in {Parsing, Compared} /\ pc' \in Reading => part' = Written(listed')
    BY DEF ManifestInv
<1>2. CASE Work
  <2>1. Worked /\ at >= Writing
      BY <1>1, <1>2, WorkInTail
  <2>2. pc' \notin Reading /\ edits["manifest"] = 0
      BY <2>1 DEF Worked
  <2>3. CASE at = Writing
      BY <2>1, <2>2, <2>3 DEF Worked, WorkedOnManifest
  <2>4. CASE at > Writing /\ at # Parsing
    <3>1. listed' = listed /\ candidate'["manifest"] = candidate["manifest"]
      <4>1. CASE at > Parsing
          BY <2>1, <2>4, <4>1 DEF Worked, WorkedOnManifest
      <4>2. CASE at < Parsing
        <5>1. at = Writing + 1 /\ Parsing = Writing + 1
            BY <1>1, <2>4, <4>2 DEF Writing, Parsing
        <5> QED BY <1>1, <4>2, <5>1
      <4> QED BY <1>1, <2>4, <4>1, <4>2
    <3> QED BY <2>2, <2>4, <3>1 DEF ManifestInv
  <2>5. CASE at = Parsing
    <3>1. /\ candidate'["manifest"] = candidate["manifest"]
          /\ listed' = listed \/ (pc = "read" /\ listed' = Says(part))
        BY <1>1, <2>1, <2>5 DEF Worked, WorkedOnManifest
    <3>2. /\ candidate["manifest"].data = Written(listed)
          /\ pc = "read" => part = Written(listed)
        BY <1>1, <2>2, <2>5 DEF ManifestInv, Reading
    <3>3. listed \in [ToSet(Artifacts) -> Contents]
        BY DEF IInv, TypeOK
    <3>4. listed' = listed
        BY <3>1, <3>2, <3>3, SaysIsListing
    <3> QED BY <2>2, <3>1, <3>2, <3>4
  <2> QED BY <1>1, <2>1, <2>3, <2>4, <2>5
<1>3. CASE ~Work
  <2>1. Aside("manifest")
      BY <1>1, <1>3, OtherSteps
  <2>2. edits'["manifest"] # edits["manifest"] + 1
      BY <1>1
  <2>4. /\ UNCHANGED <<at, listed>> /\ edits["manifest"] = 0
        /\ candidate'["manifest"] = candidate["manifest"]
        /\ at \in ReadAt("manifest") /\ pc' \in Reading =>
              \A d : part' # d => candidate["manifest"].data # d \/ (pc \in Reading /\ part # d)
      BY <2>1, <2>2, Zenon DEF Aside
  <2>3. /\ candidate["manifest"].data = Written(listed)
        /\ at \in {Parsing, Compared} /\ pc \in Reading => part = Written(listed)
      BY <2>4 DEF ManifestInv
  <2> QED BY <2>3, <2>4, ReadPlaces
<1> QED BY <1>2, <1>3

LEMMA CompareKeeps ==
    ASSUME IInv, [Next]_vars, ManifestInv, CompareInv
    PROVE  CompareInv'
<1>1. /\ at \in Nat /\ at' \in {at, at + 1} /\ Compared \in Nat /\ Len(Head1) \in Nat
      /\ Writing \in Nat /\ Parsing \in Nat
      /\ Len(Head1) < Compared /\ Writing < Compared /\ Parsing < Compared
  <2>1. at \in Nat
      BY ScriptIsSteps DEF IInv, TypeOK
  <2> QED BY <2>1, OneStep, Ordered
<1>2. ASSUME public' PROVE at' > Compared
  <2>1. CASE public' = public
    <3>1. public
        BY <1>2, <2>1
    <3> QED BY <1>1, <3>1 DEF CompareInv
  <2>2. CASE public' # public
      BY <1>1, <2>2, OneStep
  <2> QED BY <2>1, <2>2
<1>3. ASSUME at' > Compared
      PROVE  /\ Parses(remote'["manifest"]) /\ remote'["manifest"][1].pins
             /\ \A f \in ToSet(Artifacts) :
                   /\ remote'[f] = Says(remote'["manifest"])[f]
                   /\ edits'["manifest"] = 0 => remote'[f] = listed'[f]
  <2>1. /\ at >= Compared /\ at > Len(Head1) /\ at > Parsing /\ at > Writing
        /\ at = Compared => at' = at + 1
      BY <1>1, <1>3
  <2>2. CASE Work
    <3>1. /\ UNCHANGED <<edits, listed, remote>>
          /\ at = Compared =>
                /\ pc = "read" /\ Parses(part) /\ part[1].pins /\ remote["manifest"] = part
                /\ \A f \in ToSet(Artifacts) : remote[f] = Says(part)[f]
        BY <2>1, <2>2, WorkInTail DEF Worked, WorkedOnManifest
    <3>2. CASE at = Compared
      <4>1. edits["manifest"] = 0 => part = Written(listed)
          BY <2>1, <3>1, <3>2 DEF ManifestInv, Reading
      <4>2. listed \in [ToSet(Artifacts) -> Contents]
          BY DEF IInv, TypeOK
      <4>3. edits["manifest"] = 0 => Says(part) = listed
          BY <4>1, <4>2, SaysIsListing
      <4> QED BY <3>1, <3>2, <4>3
    <3>3. CASE at > Compared
        BY <3>1, <3>3 DEF CompareInv
    <3> QED BY <1>1, <2>1, <3>2, <3>3
  <2>3. CASE ~Work
    <3>1. Aside("manifest")
        BY <2>3, OtherSteps, NamesAreGiven
    <3>2. /\ UNCHANGED <<at, listed, remote>>
          /\ edits'["manifest"] = 0 => edits["manifest"] = 0
      <4>1. edits["manifest"] \in Nat
          BY NamesAreGiven, HandoffAssumption DEF IInv, TypeOK
      <4> QED BY <3>1, <4>1 DEF Aside
    <3> QED BY <1>3, <3>2 DEF CompareInv
  <2> QED BY <2>2, <2>3
<1> QED BY <1>2, <1>3 DEF CompareInv

(* For any number of files and of changes by others, a public release has  *)
(* a manifest of this run that lists exactly the artifacts of the release, *)
(* although nothing names the bytes of the manifest; and an artifact of it *)
(* that is not the one that create_handoff recorded was changed three      *)
(* times in the candidate directory, or the manifest was changed with it;  *)
(* twice more if the verification of the public release passed.            *)
THEOREM PublishedIsCandidate == Spec => []PublicIsTheCandidate
<1> DEFINE Inv == CycleInv /\ ManifestInv /\ CompareInv
<1>1. Init => Inv
  <2>1. ASSUME Init PROVE Inv
    <3>1. at = 1 /\ pc = "ready" /\ public = FALSE
        BY <2>1 DEF Init
    <3>2. ~(at > Compared) /\ ~(at > Writing)
        BY <3>1, Ordered
    <3>3. ASSUME NEW i \in Places PROVE Cycle(i)
      <4>1. \A k \in {Verified(i), Confirming(i), Reverified(i), Uploading(i), LiveVerified(i),
                      LiveCompared(i)} : ~(at > k) /\ at # k
        <5>1. \A k \in {Verified(i), Confirming(i), Reverified(i), Uploading(i), LiveVerified(i),
                        LiveCompared(i)} : k \in Nat /\ Len(Head1) + 1 < k
            BY Ordered
        <5> QED BY <3>1, <5>1, Ordered
      <4> QED BY <4>1 DEF Cycle
    <3> QED BY <3>1, <3>2, <3>3 DEF CycleInv, ManifestInv, CompareInv
  <2> QED BY <2>1
<1>2. IInv /\ Inv /\ [Next]_vars => Inv'
    BY CycleKeeps, ManifestKeeps, CompareKeeps
<1>3. IInv /\ Inv => PublicIsTheCandidate
  <2> SUFFICES ASSUME IInv, Inv, public PROVE PublicIsTheCandidate
      BY DEF PublicIsTheCandidate
  <2>1. /\ at > Compared /\ Parses(remote["manifest"]) /\ remote["manifest"][1].pins
        /\ \A f \in ToSet(Artifacts) :
              /\ remote[f] = Says(remote["manifest"])[f]
              /\ edits["manifest"] = 0 => remote[f] = listed[f]
      BY DEF CompareInv
  <2>2. ASSUME NEW f \in ToSet(Artifacts)
        PROVE  /\ f \in Cores => record[f] = Original
               /\ remote[f] # record[f] => Changes(f, IF at > Len(Script) THEN 3 ELSE 1)
    <3>1. PICK i \in Places : f = Artifacts[i]
        BY HandoffAssumption DEF ToSet, Places
    <3>2. at \in Nat /\ edits[f] \in Nat /\ edits["manifest"] \in Nat
        BY <3>1, ArtifactNames, NamesAreGiven, ScriptIsSteps, HandoffAssumption DEF IInv, TypeOK
    <3>3. /\ at > Verified(i) /\ at > Uploading(i) /\ LiveVerified(i) \in Nat
          /\ LiveCompared(i) \in Nat /\ (at > Len(Script) => at > LiveCompared(i))
        BY <2>1, <3>2, Ordered
    <3>4. Cycle(i)
        BY DEF CycleInv
    <3>5. f \in Cores => record[f] = Original
        BY <3>1, <3>3, <3>4 DEF Cycle
    <3>6. ASSUME remote[f] # record[f]
          PROVE  /\ edits[f] >= Listings(f) + 1
                 /\ at > Len(Script) => edits[f] >= Listings(f) + 3
      <4>1. Listings(f) \in Nat /\ Uploads(f) = Listings(f) + 2
          BY <3>6 DEF Listings, Uploads
      <4>2. CASE at <= LiveVerified(i)
        <5>1. Exchanged(f, Listings(f))
            BY <3>1, <3>3, <3>4, <3>6, <4>2 DEF Cycle
        <5> QED BY <3>2, <3>3, <4>1, <4>2, <5>1, Ordered DEF Exchanged
      <4>3. CASE at > LiveVerified(i) /\ at <= LiveCompared(i)
        <5>1. Owes(f, Uploads(f))
            BY <3>1, <3>4, <4>3 DEF Cycle
        <5> QED BY <3>2, <3>3, <4>1, <4>3, <5>1 DEF Owes
      <4>4. CASE at > LiveCompared(i)
        <5>1. edits[f] >= Uploads(f) + 1
            BY <3>1, <3>4, <3>6, <4>4 DEF Cycle
        <5> QED BY <3>2, <4>1, <5>1
      <4> QED BY <3>2, <3>3, <4>2, <4>3, <4>4
    <3>7. remote[f] # record[f] /\ edits["manifest"] = 0 => Listings(f) = 2
        BY <2>1 DEF Listings
    <3>8. Listings(f) \in {0, 2}
        BY DEF Listings
    <3> QED BY <3>2, <3>5, <3>6, <3>7, <3>8 DEF Changes
  <2> QED BY <2>1, <2>2 DEF PublicIsTheCandidate
<1> QED BY <1>1, <1>2, <1>3, Invariant, PTL DEF Spec
=============================================================================
