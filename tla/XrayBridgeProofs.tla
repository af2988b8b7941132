-------------------------- MODULE XrayBridgeProofs --------------------------
(***************************************************************************)
(* TLAPS proofs about XrayBridge, for any set of calling threads: type     *)
(* correctness, the two safety invariants and the implementation of        *)
(* CoreLifecycle.                                                          *)
(***************************************************************************)
EXTENDS XrayBridge, TLAPS

InLock(c) == pc[c] \in {"start", "startInvoke", "startAnswered",
                        "stop", "stopInvoke", "stopAnswered"}

(* Only the holder of the lock is inside a critical section.               *)
LockInv == \A c \in Callers : InLock(c) => lock = c

(* A running bridge owes a stop, and so does one whose core may be alive.  *)
OwedInv ==
    /\ running => stopRequired
    /\ native <= 1
    /\ native > 0 => stopRequired

(* What the holder of the lock knows between its check, its request to     *)
(* libXray and the answer.                                                 *)
CallInv ==
    \A c \in Callers :
        /\ pc[c] = "startInvoke" => stopRequired /\ native = 0
        /\ pc[c] = "startAnswered" =>
              stopRequired /\ (answer[c] = "success" => native = 1)
        /\ pc[c] = "stopInvoke" => stopRequired
        /\ pc[c] = "stopAnswered" =>
              stopRequired /\ (answer[c] = "success" => native = 0)

(* A caller waits for the answer to the call it is in.                     *)
ReplyInv ==
    \A c \in Callers :
        /\ pc[c] = "idle" => reply[c] \notin {"starting", "stopping", "asking"}
        /\ pc[c] \in {"startCore", "start", "startInvoke", "startAnswered"}
              => reply[c] = "starting"
        /\ pc[c] \in {"stopWait", "stop", "stopInvoke", "stopAnswered"}
              => reply[c] = "stopping"
        /\ pc[c] = "queryWait" => reply[c] = "asking"

IInv == TypeOK /\ LockInv /\ OwedInv /\ CallInv /\ ReplyInv

(* Every initial state of the bridge satisfies the inductive invariant.    *)
LEMMA InitIInv == Init => IInv
<1> SUFFICES ASSUME Init PROVE IInv
  OBVIOUS
<1>1. TypeOK
  BY DEF Init, TypeOK, Locations, ConfigKinds, NativeAnswers, Replies
<1>2. LockInv /\ CallInv /\ ReplyInv
  BY DEF Init, LockInv, CallInv, ReplyInv, InLock
<1>3. OwedInv
  BY DEF Init, OwedInv
<1> QED
  BY <1>1, <1>2, <1>3 DEF IInv

(* Every step of the bridge preserves the inductive invariant.             *)
LEMMA NextIInv == IInv /\ [Next]_vars => IInv'
<1> SUFFICES ASSUME IInv, [Next]_vars PROVE IInv'
  OBVIOUS
<1> USE NoCallerAssumption
    DEF IInv, TypeOK, LockInv, OwedInv, CallInv, ReplyInv, InLock, lifecycle,
        Locations, ConfigKinds, NativeAnswers, Replies
<1>1. CASE UNCHANGED vars
  BY <1>1 DEF vars
<1>2. ASSUME NEW c \in Callers, NEW kind \in ConfigKinds, StartCore(c, kind)
      PROVE IInv'
  BY <1>2 DEF StartCore
<1>3. ASSUME NEW c \in Callers, StopCore(c) PROVE IInv'
  BY <1>3 DEF StopCore
<1>4. ASSUME NEW c \in Callers, AskRunning(c) PROVE IInv'
  BY <1>4 DEF AskRunning
<1>5. ASSUME NEW c \in Callers, RefuseConfig(c) PROVE IInv'
  BY <1>5 DEF RefuseConfig
<1>6. ASSUME NEW c \in Callers, Acquire(c) PROVE IInv'
  BY <1>6 DEF Acquire
<1>7. ASSUME NEW c \in Callers, StartRefused(c) PROVE IInv'
  BY <1>7 DEF StartRefused, Return
<1>8. ASSUME NEW c \in Callers, StartAccepted(c) PROVE IInv'
  BY <1>8 DEF StartAccepted
<1>9. ASSUME NEW c \in Callers, StopIdle(c) PROVE IInv'
  BY <1>9 DEF StopIdle, Return
<1>10. ASSUME NEW c \in Callers, StopAccepted(c) PROVE IInv'
  BY <1>10 DEF StopAccepted
<1>11. ASSUME NEW c \in Callers, LibXrayRun(c) PROVE IInv'
  BY <1>11 DEF LibXrayRun
<1>12. ASSUME NEW c \in Callers, LibXrayStop(c) PROVE IInv'
  BY <1>12 DEF LibXrayStop
<1>13. ASSUME NEW c \in Callers, StartReturns(c) PROVE IInv'
  BY <1>13 DEF StartReturns, Return
<1>14. ASSUME NEW c \in Callers, StopReturns(c) PROVE IInv'
  BY <1>14 DEF StopReturns, Return
<1>15. ASSUME NEW c \in Callers, IsRunning(c) PROVE IInv'
  BY <1>15 DEF IsRunning
<1> QED
  BY <1>1, <1>2, <1>3, <1>4, <1>5, <1>6, <1>7, <1>8, <1>9, <1>10, <1>11,
     <1>12, <1>13, <1>14, <1>15
  DEF Next, Step, Locked

(* Type correctness: every variable of the bridge keeps its type.          *)
THEOREM TypeCorrect == Spec => []TypeOK
<1>1. IInv => TypeOK
  BY DEF IInv
<1> QED
  BY <1>1, InitIInv, NextIInv, PTL DEF Spec

(* bridge.go:98-101, for any number of threads: no interleaving of calls   *)
(* and no answer of libXray makes a retry create a second instance.        *)
THEOREM OneInstance == Spec => []AtMostOneNative
<1>1. IInv => AtMostOneNative
  BY DEF IInv, OwedInv, AtMostOneNative
<1> QED
  BY <1>1, InitIInv, NextIInv, PTL DEF Spec

(* stopRequired is set before libXray hears of a start and cleared only by *)
(* a confirmed stop, so an instance that is up is never forgotten.         *)
THEOREM InstanceOwned == Spec => []NativeIsOwned
<1>1. IInv => NativeIsOwned
  BY DEF IInv, OwedInv, NativeIsOwned
<1> QED
  BY <1>1, InitIInv, NextIInv, PTL DEF Spec

-----------------------------------------------------------------------------
(* Every step of the bridge is a step of CoreLifecycle or changes nothing  *)
(* that CoreLifecycle sees.                                                *)
LEMMA StepSimulation == IInv /\ [Next]_vars => [Core!Next]_(Core!vars)
<1> SUFFICES ASSUME IInv, [Next]_vars PROVE Core!Next \/ UNCHANGED Core!vars
  OBVIOUS
<1> USE DEF IInv, TypeOK, OwedInv, CallInv, ReplyInv, lifecycle, Replies, Core!vars
<1>1. CASE UNCHANGED vars
  BY <1>1 DEF vars
<1>2. ASSUME NEW c \in Callers, NEW kind \in ConfigKinds, StartCore(c, kind)
      PROVE Core!Request(c)
  BY <1>2 DEF StartCore, Core!Request, Core!Pending, Core!Answers
<1>3. ASSUME NEW c \in Callers, StopCore(c) PROVE Core!Request(c)
  BY <1>3 DEF StopCore, Core!Request, Core!Pending, Core!Answers
<1>4. ASSUME NEW c \in Callers, AskRunning(c) PROVE Core!Request(c)
  BY <1>4 DEF AskRunning, Core!Request, Core!Pending, Core!Answers
<1>5. ASSUME NEW c \in Callers, RefuseConfig(c) PROVE Core!Failed(c)
  BY <1>5 DEF RefuseConfig, Core!Failed
<1>6. ASSUME NEW c \in Callers, Acquire(c) PROVE UNCHANGED Core!vars
  BY <1>6 DEF Acquire
<1>7. ASSUME NEW c \in Callers, StartRefused(c) PROVE Core!Failed(c)
  BY <1>7 DEF StartRefused, Return, Core!Failed
<1>8. ASSUME NEW c \in Callers, StartAccepted(c) PROVE Core!Engage
  BY <1>8 DEF StartAccepted, Core!Engage
<1>9. ASSUME NEW c \in Callers, StopIdle(c) PROVE Core!Stopped(c)
  BY <1>9 DEF StopIdle, Return, Core!Stopped
<1>10. ASSUME NEW c \in Callers, StopAccepted(c) PROVE UNCHANGED Core!vars
  BY <1>10 DEF StopAccepted
<1>11. ASSUME NEW c \in Callers, LibXrayRun(c) PROVE Core!CoreStep
  BY <1>11 DEF LibXrayRun, Core!CoreStep
<1>12. ASSUME NEW c \in Callers, LibXrayStop(c) PROVE Core!CoreStep
  BY <1>12 DEF LibXrayStop, Core!CoreStep
<1>13. ASSUME NEW c \in Callers, StartReturns(c)
       PROVE Core!Started(c) \/ Core!Failed(c)
  <2>1. CASE answer[c] = "success"
    BY <1>13, <2>1 DEF StartReturns, Return, Core!Started
  <2>2. CASE answer[c] # "success"
    BY <1>13, <2>2 DEF StartReturns, Return, Core!Failed
  <2> QED
    BY <2>1, <2>2
<1>14. ASSUME NEW c \in Callers, StopReturns(c)
       PROVE Core!Stopped(c) \/ Core!Failed(c)
  <2>1. CASE answer[c] = "success"
    BY <1>14, <2>1 DEF StopReturns, Return, Core!Stopped
  <2>2. CASE answer[c] # "success"
    BY <1>14, <2>2 DEF StopReturns, Return, Core!Failed
  <2> QED
    BY <2>1, <2>2
<1>15. ASSUME NEW c \in Callers, IsRunning(c) PROVE Core!Answered(c)
  BY <1>15 DEF IsRunning, Core!Answered
<1> QED
  BY <1>1, <1>2, <1>3, <1>4, <1>5, <1>6, <1>7, <1>8, <1>9, <1>10, <1>11,
     <1>12, <1>13, <1>14, <1>15
  DEF Next, Step, Locked, Core!Next

(* The Xray bridge implements the ABI's promise: StartCore and StopCore    *)
(* look to every caller like one owned core.                               *)
THEOREM ImplementsLifecycle == Spec => ImplementsCore
<1>1. Init => Core!Init
  BY DEF Init, Core!Init
<1> QED
  BY <1>1, InitIInv, NextIInv, StepSimulation, PTL
  DEF Spec, ImplementsCore, Core!Spec

=============================================================================
