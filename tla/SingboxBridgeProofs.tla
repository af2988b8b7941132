------------------------ MODULE SingboxBridgeProofs ------------------------
(***************************************************************************)
(* TLAPS proofs about SingboxBridge, for any set of calling threads and of *)
(* attempts: type correctness, the three safety invariants and the         *)
(* implementation of CoreLifecycle.                                        *)
(***************************************************************************)
EXTENDS SingboxBridge, TLAPS

InLock(c) == pc[c] \in {"start", "newCore", "boxStart", "startFailed", "startClose",
                        "stop", "stopCancel", "stopClose"}

(* Only the holder of the lock is inside a critical section.               *)
LockInv == \A c \in Callers : InLock(c) => lock = c

(* The two retained fields are set and cleared together, a stop is owed    *)
(* only for a retained core, and a core for which none is owed is up.      *)
OwnInv ==
    /\ cancel = instance
    /\ stopRequired => instance # Nil
    /\ instance # Nil /\ ~stopRequired => box[instance] = "up" /\ instance \in liveCtx

(* What exists is what lifecycle retains or what the attempt in progress   *)
(* created.                                                                *)
KnownInv ==
    \A a \in Attempts :
        Open(a) \/ a \in liveCtx => instance = a \/ \E c \in Callers : InAttempt(c) /\ ctx[c] = a

(* What the holder of the lock knows about its own attempt.                *)
AttemptInv ==
    \A c \in Callers :
        /\ InAttempt(c) => instance = Nil /\ ctx[c] \in Attempts
        /\ pc[c] = "newCore" => candidate[c] = Nil /\ ~Open(ctx[c])
        /\ pc[c] = "boxStart" => candidate[c] = ctx[c] /\ ctx[c] \in liveCtx
        /\ pc[c] = "startFailed" =>
              \/ candidate[c] = ctx[c]
              \/ candidate[c] = Nil /\ ~Open(ctx[c])
        /\ pc[c] = "startClose" => candidate[c] = ctx[c] /\ ctx[c] \notin liveCtx
        /\ pc[c] = "newCore" => ctx[c] \in liveCtx
        /\ ~InAttempt(c) => candidate[c] = Nil
        /\ pc[c] \in {"stopCancel", "stopClose"} => instance # Nil /\ stopRequired
        /\ pc[c] = "stopClose" => instance \notin liveCtx

(* A caller waits for the answer to the call it is in.                     *)
ReplyInv ==
    \A c \in Callers :
        /\ pc[c] = "idle" => reply[c] \notin {"starting", "stopping", "asking"}
        /\ pc[c] \in {"startCore", "start"} \/ InAttempt(c) => reply[c] = "starting"
        /\ pc[c] \in {"stopWait", "stop", "stopCancel", "stopClose"}
              => reply[c] = "stopping"
        /\ pc[c] = "queryWait" => reply[c] = "asking"

IInv == TypeOK /\ LockInv /\ OwnInv /\ KnownInv /\ AttemptInv /\ ReplyInv

(* Every initial state of the bridge satisfies the inductive invariant.    *)
LEMMA InitIInv == Init => IInv
<1> SUFFICES ASSUME Init PROVE IInv
  OBVIOUS
<1>1. TypeOK
  BY DEF Init, TypeOK, Locations, ConfigKinds, Replies
<1>2. LockInv /\ AttemptInv /\ ReplyInv
  BY DEF Init, LockInv, AttemptInv, ReplyInv, InLock, InAttempt
<1>3. OwnInv /\ KnownInv
  BY DEF Init, OwnInv, KnownInv, Open
<1> QED
  BY <1>1, <1>2, <1>3 DEF IInv

(* Every step of the bridge preserves the inductive invariant.             *)
LEMMA NextIInv == IInv /\ [Next]_vars => IInv'
<1> SUFFICES ASSUME IInv, [Next]_vars PROVE IInv'
  OBVIOUS
<1> USE NoCallerAssumption, NilAssumption
    DEF IInv, TypeOK, LockInv, OwnInv, KnownInv, AttemptInv, ReplyInv, InLock,
        InAttempt, Open, lifecycle, locals, Locations, ConfigKinds, Replies
<1>1. CASE UNCHANGED vars
  BY <1>1 DEF vars
<1>2. ASSUME NEW c \in Callers, NEW kind \in ConfigKinds, StartCore(c, kind)
      PROVE IInv'
  BY <1>2 DEF StartCore
<1>3. ASSUME NEW c \in Callers, StopCore(c) PROVE IInv'
  BY <1>3 DEF StopCore
<1>4. ASSUME NEW c \in Callers, AskRunning(c) PROVE IInv'
  BY <1>4 DEF AskRunning
<1>5. ASSUME NEW c \in Callers, RefuseConfig(c) PROVE IInv'
  BY <1>5 DEF RefuseConfig
<1>6. ASSUME NEW c \in Callers, Acquire(c) PROVE IInv'
  <2>1. TypeOK'
    BY <1>6 DEF Acquire
  <2>2. LockInv' /\ ReplyInv'
    BY <1>6 DEF Acquire
  <2>3. OwnInv'
    BY <1>6 DEF Acquire
  <2>4. KnownInv'
    BY <1>6 DEF Acquire
  <2>5. AttemptInv'
    BY <1>6 DEF Acquire
  <2> QED
    BY <2>1, <2>2, <2>3, <2>4, <2>5
<1>7. ASSUME NEW c \in Callers, StartRefused(c) PROVE IInv'
  <2>1. TypeOK'
    BY <1>7 DEF StartRefused, Return
  <2>2. LockInv' /\ ReplyInv'
    BY <1>7 DEF StartRefused, Return
  <2>3. OwnInv'
    BY <1>7 DEF StartRefused, Return
  <2>4. KnownInv'
    BY <1>7 DEF StartRefused, Return
  <2>5. AttemptInv'
    BY <1>7 DEF StartRefused, Return
  <2> QED
    BY <2>1, <2>2, <2>3, <2>4, <2>5
<1>8. ASSUME NEW c \in Callers, StartAccepted(c) PROVE IInv'
  <2>1. TypeOK'
    BY <1>8 DEF StartAccepted, Goto
  <2>2. LockInv' /\ ReplyInv'
    BY <1>8 DEF StartAccepted, Goto
  <2>3. OwnInv'
    BY <1>8 DEF StartAccepted, Goto
  <2>4. KnownInv'
    BY <1>8 DEF StartAccepted, Goto
  <2>5. AttemptInv'
    BY <1>8 DEF StartAccepted, Goto
  <2> QED
    BY <2>1, <2>2, <2>3, <2>4, <2>5
<1>9. ASSUME NEW c \in Callers, NewCore(c) PROVE IInv'
  <2>1. TypeOK'
    BY <1>9 DEF NewCore, Goto
  <2>2. LockInv' /\ ReplyInv'
    BY <1>9 DEF NewCore, Goto
  <2>3. OwnInv'
    BY <1>9 DEF NewCore, Goto
  <2>4. KnownInv'
    BY <1>9 DEF NewCore, Goto
  <2>5. AttemptInv'
    BY <1>9 DEF NewCore, Goto
  <2> QED
    BY <2>1, <2>2, <2>3, <2>4, <2>5
<1>10. ASSUME NEW c \in Callers, BoxStarted(c) PROVE IInv'
  <2>1. TypeOK'
    <3>1. candidate[c] \in Attempts /\ ctx[c] \in Attempts /\ candidate[c] # Nil
      BY <1>10 DEF BoxStarted
    <3>2. \A d \in Callers : pc'[d] = IF d = c THEN "idle" ELSE pc[d]
      BY <1>10 DEF BoxStarted, Return
    <3>3. \A d \in Callers :
             /\ pc'[d] \in {"newCore", "boxStart", "startFailed", "startClose"} => ctx'[d] # Nil
             /\ pc'[d] \in {"boxStart", "startClose"} => candidate'[d] # Nil
             /\ pc'[d] \in {"stopCancel", "stopClose"} => instance' # Nil
      BY <1>10, <3>1, <3>2 DEF BoxStarted, Own, Return
    <3> QED
      BY <1>10, <3>1, <3>3 DEF BoxStarted, Own, Return
  <2>2. LockInv' /\ ReplyInv'
    BY <1>10 DEF BoxStarted, Own, Return
  <2>3. OwnInv'
    BY <1>10 DEF BoxStarted, Own, Return
  <2>4. KnownInv'
    BY <1>10 DEF BoxStarted, Own, Return
  <2>5. AttemptInv'
    BY <1>10 DEF BoxStarted, Own, Return
  <2> QED
    BY <2>1, <2>2, <2>3, <2>4, <2>5
<1>11. ASSUME NEW c \in Callers, BoxStartFailed(c) PROVE IInv'
  <2>1. TypeOK'
    BY <1>11 DEF BoxStartFailed, Goto
  <2>2. LockInv' /\ ReplyInv'
    BY <1>11 DEF BoxStartFailed, Goto
  <2>3. OwnInv'
    BY <1>11 DEF BoxStartFailed, Goto
  <2>4. KnownInv'
    BY <1>11 DEF BoxStartFailed, Goto
  <2>5. AttemptInv'
    BY <1>11 DEF BoxStartFailed, Goto
  <2> QED
    BY <2>1, <2>2, <2>3, <2>4, <2>5
<1>12. ASSUME NEW c \in Callers, CancelCandidate(c) PROVE IInv'
  <2>1. TypeOK'
    BY <1>12 DEF CancelCandidate, Goto, Return
  <2>2. LockInv' /\ ReplyInv'
    BY <1>12 DEF CancelCandidate, Goto, Return
  <2>3. OwnInv'
    BY <1>12 DEF CancelCandidate, Goto, Return
  <2>4. KnownInv'
    BY <1>12 DEF CancelCandidate, Goto, Return
  <2>5. AttemptInv'
    BY <1>12 DEF CancelCandidate, Goto, Return
  <2> QED
    BY <2>1, <2>2, <2>3, <2>4, <2>5
<1>13. ASSUME NEW c \in Callers, CandidateClosed(c) PROVE IInv'
  <2>1. TypeOK'
    BY <1>13 DEF CandidateClosed, Return
  <2>2. LockInv' /\ ReplyInv'
    BY <1>13 DEF CandidateClosed, Return
  <2>3. OwnInv'
    BY <1>13 DEF CandidateClosed, Return
  <2>4. KnownInv'
    BY <1>13 DEF CandidateClosed, Return
  <2>5. AttemptInv'
    BY <1>13 DEF CandidateClosed, Return
  <2> QED
    BY <2>1, <2>2, <2>3, <2>4, <2>5
<1>14. ASSUME NEW c \in Callers, CandidateNotClosed(c) PROVE IInv'
  <2>1. TypeOK'
    BY <1>14 DEF CandidateNotClosed, Own, Return
  <2>2. LockInv' /\ ReplyInv'
    BY <1>14 DEF CandidateNotClosed, Own, Return
  <2>3. OwnInv'
    BY <1>14 DEF CandidateNotClosed, Own, Return
  <2>4. KnownInv'
    BY <1>14 DEF CandidateNotClosed, Own, Return
  <2>5. AttemptInv'
    BY <1>14 DEF CandidateNotClosed, Own, Return
  <2> QED
    BY <2>1, <2>2, <2>3, <2>4, <2>5
<1>15. ASSUME NEW c \in Callers, StopIdle(c) PROVE IInv'
  <2>1. TypeOK'
    <3>1. \A d \in Callers : pc'[d] = IF d = c THEN "idle" ELSE pc[d]
      BY <1>15 DEF StopIdle, Return
    <3>2. \A d \in Callers :
             /\ pc'[d] \in {"newCore", "boxStart", "startFailed", "startClose"} => ctx'[d] # Nil
             /\ pc'[d] \in {"boxStart", "startClose"} => candidate'[d] # Nil
             /\ pc'[d] \in {"stopCancel", "stopClose"} => instance' # Nil
      BY <1>15, <3>1 DEF StopIdle, Return
    <3> QED
      BY <1>15, <3>2 DEF StopIdle, Return
  <2>2. LockInv' /\ ReplyInv'
    BY <1>15 DEF StopIdle, Return
  <2>3. OwnInv'
    BY <1>15 DEF StopIdle, Return
  <2>4. KnownInv'
    BY <1>15 DEF StopIdle, Return
  <2>5. AttemptInv'
    BY <1>15 DEF StopIdle, Return
  <2> QED
    BY <2>1, <2>2, <2>3, <2>4, <2>5
<1>16. ASSUME NEW c \in Callers, StopAccepted(c) PROVE IInv'
  <2>1. TypeOK'
    BY <1>16 DEF StopAccepted, Goto
  <2>2. LockInv' /\ ReplyInv'
    BY <1>16 DEF StopAccepted, Goto
  <2>3. OwnInv'
    BY <1>16 DEF StopAccepted, Goto
  <2>4. KnownInv'
    BY <1>16 DEF StopAccepted, Goto
  <2>5. AttemptInv'
    BY <1>16 DEF StopAccepted, Goto
  <2> QED
    BY <2>1, <2>2, <2>3, <2>4, <2>5
<1>17. ASSUME NEW c \in Callers, StopCancel(c) PROVE IInv'
  <2>1. TypeOK'
    BY <1>17 DEF StopCancel, Goto
  <2>2. LockInv' /\ ReplyInv'
    BY <1>17 DEF StopCancel, Goto
  <2>3. OwnInv'
    BY <1>17 DEF StopCancel, Goto
  <2>4. KnownInv'
    BY <1>17 DEF StopCancel, Goto
  <2>5. AttemptInv'
    BY <1>17 DEF StopCancel, Goto
  <2> QED
    BY <2>1, <2>2, <2>3, <2>4, <2>5
<1>18. ASSUME NEW c \in Callers, StopCancelPanics(c) PROVE IInv'
  <2>1. TypeOK'
    BY <1>18 DEF StopCancelPanics, Return
  <2>2. LockInv' /\ ReplyInv'
    BY <1>18 DEF StopCancelPanics, Return
  <2>3. OwnInv'
    BY <1>18 DEF StopCancelPanics, Return
  <2>4. KnownInv'
    BY <1>18 DEF StopCancelPanics, Return
  <2>5. AttemptInv'
    BY <1>18 DEF StopCancelPanics, Return
  <2> QED
    BY <2>1, <2>2, <2>3, <2>4, <2>5
<1>19. ASSUME NEW c \in Callers, InstanceClosed(c) PROVE IInv'
  <2>1. TypeOK'
    BY <1>19 DEF InstanceClosed, Disown, Return
  <2>2. LockInv' /\ ReplyInv'
    BY <1>19 DEF InstanceClosed, Disown, Return
  <2>3. OwnInv'
    BY <1>19 DEF InstanceClosed, Disown, Return
  <2>4. KnownInv'
    BY <1>19 DEF InstanceClosed, Disown, Return
  <2>5. AttemptInv'
    BY <1>19 DEF InstanceClosed, Disown, Return
  <2> QED
    BY <2>1, <2>2, <2>3, <2>4, <2>5
<1>20. ASSUME NEW c \in Callers, InstanceNotClosed(c) PROVE IInv'
  <2>1. TypeOK'
    BY <1>20 DEF InstanceNotClosed, Return
  <2>2. LockInv' /\ ReplyInv'
    BY <1>20 DEF InstanceNotClosed, Return
  <2>3. OwnInv'
    BY <1>20 DEF InstanceNotClosed, Return
  <2>4. KnownInv'
    BY <1>20 DEF InstanceNotClosed, Return
  <2>5. AttemptInv'
    BY <1>20 DEF InstanceNotClosed, Return
  <2> QED
    BY <2>1, <2>2, <2>3, <2>4, <2>5
<1>21. ASSUME NEW c \in Callers, IsRunning(c) PROVE IInv'
  BY <1>21 DEF IsRunning
<1> HIDE DEF IInv, TypeOK, LockInv, OwnInv, KnownInv, AttemptInv, ReplyInv
<1> QED
  BY <1>1, <1>2, <1>3, <1>4, <1>5, <1>6, <1>7, <1>8, <1>9, <1>10, <1>11,
     <1>12, <1>13, <1>14, <1>15, <1>16, <1>17, <1>18, <1>19, <1>20, <1>21
  DEF Next, Step, Locked

(* Type correctness: every variable of the bridge keeps its type.          *)
THEOREM TypeCorrect == Spec => []TypeOK
<1>1. IInv => TypeOK
  BY DEF IInv
<1> QED
  BY <1>1, InitIInv, NextIInv, PTL DEF Spec

(* Start's promise of one process-global core, whatever constructors,      *)
(* starts and closes fail: two Boxes are never open at once.               *)
THEOREM OneOpenBox == Spec => []AtMostOneOpen
<1>1. IInv => AtMostOneOpen
  <2> SUFFICES ASSUME IInv, NEW a \in Attempts, NEW b \in Attempts, Open(a), Open(b)
               PROVE a = b
    BY DEF AtMostOneOpen
  <2>1. CASE instance # Nil
    BY <2>1 DEF IInv, KnownInv, AttemptInv
  <2>2. CASE instance = Nil
    <3>1. PICK c \in Callers : InAttempt(c) /\ ctx[c] = a
      BY <2>2, NilAssumption DEF IInv, KnownInv
    <3>2. PICK d \in Callers : InAttempt(d) /\ ctx[d] = b
      BY <2>2, NilAssumption DEF IInv, KnownInv
    <3>3. c = d
      BY <3>1, <3>2 DEF IInv, LockInv, InLock, InAttempt
    <3> QED
      BY <3>1, <3>2, <3>3
  <2> QED
    BY <2>1, <2>2
<1> QED
  BY <1>1, InitIInv, NextIInv, PTL DEF Spec

(* bridge.go:112-114: with the lock free, whatever is still open or still  *)
(* live is what lifecycle retains for StopCore.                            *)
THEOREM NoLeak == Spec => []NothingLeaks
<1>1. IInv => NothingLeaks
  BY NoCallerAssumption
  DEF IInv, LockInv, OwnInv, KnownInv, NothingLeaks, InLock, InAttempt
<1> QED
  BY <1>1, InitIInv, NextIInv, PTL DEF Spec

(* IsRunning never answers true about a Box that is not up.                *)
THEOREM RunningBoxUp == Spec => []RunningIsUp
<1>1. IInv => RunningIsUp
  BY DEF IInv, OwnInv, RunningIsUp
<1> QED
  BY <1>1, InitIInv, NextIInv, PTL DEF Spec

-----------------------------------------------------------------------------
LiveInv == Live \in 0..1 /\ (~Engaged => Live = 0)

(* No Box is open unless the bridge is engaged.                            *)
LEMMA LiveEngaged == IInv => LiveInv
  BY NilAssumption DEF IInv, KnownInv, LiveInv, Live, Engaged

(* Every step of the bridge is a step of CoreLifecycle or changes nothing  *)
(* that CoreLifecycle sees.                                                *)
LEMMA StepSimulation == IInv /\ [Next]_vars => [Core!Next]_(Core!vars)
<1> SUFFICES ASSUME IInv, [Next]_vars PROVE Core!Next \/ UNCHANGED Core!vars
  OBVIOUS
<1>i. IInv'
  BY NextIInv
<1>p. LiveInv /\ LiveInv'
  BY <1>i, LiveEngaged, PTL
<1>l. /\ Live \in 0..1 /\ (~Engaged => Live = 0)
      /\ Live' \in 0..1 /\ (~Engaged' => Live' = 0)
  BY <1>p DEF LiveInv
<1>b. Engaged \in BOOLEAN
  BY DEF Engaged
<1> USE NilAssumption
    DEF IInv, TypeOK, LockInv, ReplyInv, InLock, InAttempt, lifecycle, locals,
        Replies, Core!vars
<1>1. CASE UNCHANGED vars
  BY <1>1 DEF vars, Engaged, Live, Open
<1>2. ASSUME NEW c \in Callers, NEW kind \in ConfigKinds, StartCore(c, kind)
      PROVE Core!Request(c)
  BY <1>2 DEF StartCore, Core!Request, Core!Pending, Core!Answers, Engaged, Live, Open
<1>3. ASSUME NEW c \in Callers, StopCore(c) PROVE Core!Request(c)
  BY <1>3 DEF StopCore, Core!Request, Core!Pending, Core!Answers, Engaged, Live, Open
<1>4. ASSUME NEW c \in Callers, AskRunning(c) PROVE Core!Request(c)
  BY <1>4 DEF AskRunning, Core!Request, Core!Pending, Core!Answers, Engaged, Live, Open
<1>5. ASSUME NEW c \in Callers, RefuseConfig(c) PROVE Core!Failed(c)
  <2>1. Engaged' = Engaged /\ Live' = Live
    BY <1>5 DEF RefuseConfig, Engaged, Live, Open
  <2> QED
    BY <1>5, <1>l, <1>b, <2>1 DEF RefuseConfig, Core!Failed
<1>6. ASSUME NEW c \in Callers, Acquire(c) PROVE UNCHANGED Core!vars
  BY <1>6 DEF Acquire, Engaged, Live, Open
<1>7. ASSUME NEW c \in Callers, StartRefused(c) PROVE Core!Failed(c)
  <2>1. Engaged' = Engaged /\ Live' = Live
    BY <1>7 DEF StartRefused, Return, Engaged, Live, Open
  <2> QED
    BY <1>7, <1>l, <1>b, <2>1 DEF StartRefused, Return, Core!Failed
<1>8. ASSUME NEW c \in Callers, StartAccepted(c) PROVE Core!Engage
  BY <1>8 DEF StartAccepted, Goto, Core!Engage, Engaged, Live, Open
<1>9. ASSUME NEW c \in Callers, NewCore(c) PROVE Core!CoreStep
  BY <1>9, <1>l DEF NewCore, Goto, Core!CoreStep, Engaged
<1>10. ASSUME NEW c \in Callers, BoxStarted(c) PROVE Core!Started(c)
  <2>1. candidate[c] \in Attempts /\ candidate[c] # Nil /\ Engaged
    BY <1>10 DEF BoxStarted, Engaged, AttemptInv
  <2>2. Live' = 1
    BY <1>10, <2>1 DEF BoxStarted, Live, Open
  <2>3. Engaged' = TRUE
    BY <1>10, <2>1 DEF BoxStarted, Own, Engaged
  <2> QED
    BY <1>10, <1>b, <2>1, <2>2, <2>3 DEF BoxStarted, Return, Core!Started
<1>11. ASSUME NEW c \in Callers, BoxStartFailed(c) PROVE Core!CoreStep
  BY <1>11, <1>l DEF BoxStartFailed, Goto, Core!CoreStep, Engaged
<1>12. ASSUME NEW c \in Callers, CancelCandidate(c)
       PROVE Core!Failed(c) \/ UNCHANGED Core!vars
  <2>1. CASE candidate[c] # Nil
    BY <1>12, <2>1 DEF CancelCandidate, Goto, Engaged, Live, Open, Return
  <2>2. CASE candidate[c] = Nil
    BY <1>12, <2>2, <1>l DEF CancelCandidate, Goto, Return, Core!Failed, Engaged, AttemptInv
  <2> QED
    BY <2>1, <2>2
<1>13. ASSUME NEW c \in Callers, CandidateClosed(c) PROVE Core!Failed(c)
  BY <1>13, <1>l DEF CandidateClosed, Return, Core!Failed, Engaged, AttemptInv
<1>14. ASSUME NEW c \in Callers, CandidateNotClosed(c) PROVE Core!Failed(c)
  BY <1>14, <1>l DEF CandidateNotClosed, Own, Return, Core!Failed, Engaged, AttemptInv
<1>15. ASSUME NEW c \in Callers, StopIdle(c) PROVE Core!Stopped(c)
  BY <1>15, <1>l DEF StopIdle, Return, Core!Stopped, Engaged
<1>16. ASSUME NEW c \in Callers, StopAccepted(c) PROVE UNCHANGED Core!vars
  BY <1>16 DEF StopAccepted, Goto, Engaged, Live, Open
<1>17. ASSUME NEW c \in Callers, StopCancel(c) PROVE UNCHANGED Core!vars
  BY <1>17 DEF StopCancel, Goto, Engaged, Live, Open
<1>18. ASSUME NEW c \in Callers, StopCancelPanics(c) PROVE Core!Failed(c)
  BY <1>18, <1>l DEF StopCancelPanics, Return, Core!Failed, Engaged, AttemptInv
<1>19. ASSUME NEW c \in Callers, InstanceClosed(c) PROVE Core!Stopped(c)
  BY <1>19, <1>l DEF InstanceClosed, Disown, Return, Core!Stopped, Engaged
<1>20. ASSUME NEW c \in Callers, InstanceNotClosed(c) PROVE Core!Failed(c)
  BY <1>20, <1>l DEF InstanceNotClosed, Return, Core!Failed, Engaged, AttemptInv
<1>21. ASSUME NEW c \in Callers, IsRunning(c) PROVE Core!Answered(c)
  BY <1>21 DEF IsRunning, Core!Answered, Engaged, Live, Open
<1> QED
  BY <1>1, <1>2, <1>3, <1>4, <1>5, <1>6, <1>7, <1>8, <1>9, <1>10, <1>11,
     <1>12, <1>13, <1>14, <1>15, <1>16, <1>17, <1>18, <1>19, <1>20, <1>21
  DEF Next, Step, Locked, Core!Next

(* The sing-box bridge implements the ABI's promise: StartCore and         *)
(* StopCore look to every caller like one owned core.                      *)
THEOREM ImplementsLifecycle == Spec => ImplementsCore
<1>1. Init => Core!Init
  BY DEF Init, Core!Init, Engaged, Live, Open, InAttempt
<1> QED
  BY <1>1, InitIInv, NextIInv, StepSimulation, PTL
  DEF Spec, ImplementsCore, Core!Spec

=============================================================================
