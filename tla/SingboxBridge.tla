--------------------------- MODULE SingboxBridge ---------------------------
(***************************************************************************)
(* The sing-box bridge: StartCore and StopCore of singbox/cmd/exitfy-sb/   *)
(* main.go and Start, Stop, IsRunning, closeCore and isOnlyClosed of       *)
(* singbox/internal/bridge/bridge.go.  Unlike the Xray bridge it owns the  *)
(* objects themselves: a Box and the cancel function of the context the    *)
(* Box runs in.  An attempt names the pair a call of Start creates.  The   *)
(* Box and the factory are external: a constructor may fail, panic before  *)
(* or after it built a Box, or hand over a Box together with an error;     *)
(* Start may fail after doing its work; Close may fail or panic with the   *)
(* Box still open.                                                         *)
(***************************************************************************)
EXTENDS Naturals

CONSTANTS
    Callers,    \* the threads that call the ABI
    NoCaller,   \* the value of the lock when nobody holds it
    Attempts,   \* names for the contexts and Boxes Start creates
    Nil         \* a nil core or cancel function

ASSUME NoCallerAssumption == NoCaller \notin Callers
ASSUME NilAssumption == Nil \notin Attempts

VARIABLES
    lock,           \* lifecycle.Mutex: its holder
    instance,       \* lifecycle.instance
    cancel,         \* lifecycle.cancel
    stopRequired,   \* lifecycle.stopRequired
    pc,             \* where each caller is in its call
    config,         \* the kind of configuration each caller passed
    ctx,            \* Start's local cancel: the attempt whose context it ends
    candidate,      \* Start's local candidate
    reply,          \* what the last ABI call of each caller returned
    liveCtx,        \* attempts whose context is not cancelled
    box             \* the Box of each attempt: closed (or none), built, up, or
                    \* lost: built, and never handed over

lifecycle == <<lock, instance, cancel, stopRequired>>
locals == <<config, ctx, candidate>>
vars == <<lock, instance, cancel, stopRequired, pc, config, ctx, candidate,
          reply, liveCtx, box>>

(* Configurations, by the check that would reject them; only "options" is  *)
(* a configuration that UnmarshalExtendedContext accepts.                  *)
ConfigKinds == {"nil", "oversized", "blank", "malformed", "options"}
Locations == {"idle", "startCore", "start", "newCore", "boxStart", "startFailed",
              "startClose", "stopWait", "stop", "stopCancel", "stopClose", "queryWait"}
Replies == {"none", "starting", "stopping", "asking",
            "started", "stopped", "running", "notRunning", "error"}

TypeOK ==
    /\ lock \in Callers \cup {NoCaller}
    /\ instance \in Attempts \cup {Nil}
    /\ cancel \in Attempts \cup {Nil}
    /\ stopRequired \in BOOLEAN
    /\ pc \in [Callers -> Locations]
    /\ config \in [Callers -> ConfigKinds]
    /\ ctx \in [Callers -> Attempts \cup {Nil}]
    /\ candidate \in [Callers -> Attempts \cup {Nil}]
    /\ reply \in [Callers -> Replies]
    /\ liveCtx \in SUBSET Attempts
    /\ box \in [Attempts -> {"closed", "built", "up", "lost"}]
    /\ \A c \in Callers :
          /\ pc[c] \in {"newCore", "boxStart", "startFailed", "startClose"} => ctx[c] # Nil
          /\ pc[c] \in {"boxStart", "startClose"} => candidate[c] # Nil
          /\ pc[c] \in {"stopCancel", "stopClose"} => instance # Nil

(* A lost Box has no owner that could start or close it; all that can be   *)
(* ended of it is its context.                                             *)
Open(a) == box[a] \in {"built", "up"}

Init ==
    /\ lock = NoCaller
    /\ instance = Nil
    /\ cancel = Nil
    /\ stopRequired = FALSE
    /\ pc = [c \in Callers |-> "idle"]
    /\ config = [c \in Callers |-> "nil"]
    /\ ctx = [c \in Callers |-> Nil]
    /\ candidate = [c \in Callers |-> Nil]
    /\ reply = [c \in Callers |-> "none"]
    /\ liveCtx = {}
    /\ box = [a \in Attempts |-> "closed"]

-----------------------------------------------------------------------------
(* A thread enters StartCore, StopCore or IsRunning.                       *)
StartCore(c, kind) ==
    /\ pc[c] = "idle"
    /\ pc' = [pc EXCEPT ![c] = "startCore"]
    /\ config' = [config EXCEPT ![c] = kind]
    /\ reply' = [reply EXCEPT ![c] = "starting"]
    /\ UNCHANGED <<lifecycle, ctx, candidate, liveCtx, box>>

StopCore(c) ==
    /\ pc[c] = "idle"
    /\ pc' = [pc EXCEPT ![c] = "stopWait"]
    /\ reply' = [reply EXCEPT ![c] = "stopping"]
    /\ UNCHANGED <<lifecycle, locals, liveCtx, box>>

AskRunning(c) ==
    /\ pc[c] = "idle"
    /\ pc' = [pc EXCEPT ![c] = "queryWait"]
    /\ reply' = [reply EXCEPT ![c] = "asking"]
    /\ UNCHANGED <<lifecycle, locals, liveCtx, box>>

(* A nil pointer and an over-long string are refused without the lock.     *)
RefuseConfig(c) ==
    /\ pc[c] = "startCore"
    /\ config[c] \in {"nil", "oversized"}
    /\ pc' = [pc EXCEPT ![c] = "idle"]
    /\ reply' = [reply EXCEPT ![c] = "error"]
    /\ config' = [config EXCEPT ![c] = "nil"]
    /\ UNCHANGED <<lifecycle, ctx, candidate, liveCtx, box>>

Acquire(c) ==
    /\ lock = NoCaller
    /\ lock' = c
    /\ \/ /\ pc[c] = "startCore"
          /\ config[c] \notin {"nil", "oversized"}
          /\ pc' = [pc EXCEPT ![c] = "start"]
       \/ /\ pc[c] = "stopWait"
          /\ pc' = [pc EXCEPT ![c] = "stop"]
    /\ UNCHANGED <<instance, cancel, stopRequired, locals, reply, liveCtx, box>>

(* The deferred Unlock and the return of the call, whose locals are gone.  *)
Return(c, result) ==
    /\ lock' = NoCaller
    /\ pc' = [pc EXCEPT ![c] = "idle"]
    /\ reply' = [reply EXCEPT ![c] = result]
    /\ config' = [config EXCEPT ![c] = "nil"]
    /\ ctx' = [ctx EXCEPT ![c] = Nil]
    /\ candidate' = [candidate EXCEPT ![c] = Nil]

Goto(c, location) ==
    /\ pc' = [pc EXCEPT ![c] = location]
    /\ UNCHANGED <<lock, config, reply>>

(* lifecycle's fields take an owned core, or lose it.                      *)
Own(a, owesStop) ==
    /\ instance' = a
    /\ cancel' = a
    /\ stopRequired' = owesStop

Disown ==
    /\ instance' = Nil
    /\ cancel' = Nil
    /\ stopRequired' = FALSE

-----------------------------------------------------------------------------
(* Start refuses a configuration it cannot use and an engaged bridge.      *)
StartRefused(c) ==
    /\ pc[c] = "start"
    /\ config[c] # "options" \/ instance # Nil \/ stopRequired
    /\ Return(c, "error")
    /\ UNCHANGED <<instance, cancel, stopRequired, liveCtx, box>>

(* Mutant: only an owed stop keeps a second start out.                     *)
StartAcceptedUnlessOwed(c) ==
    /\ pc[c] = "start"
    /\ config[c] = "options"
    /\ ~stopRequired
    /\ \E a \in Attempts \ liveCtx :
          /\ ~Open(a)
          /\ ctx' = [ctx EXCEPT ![c] = a]
          /\ liveCtx' = liveCtx \cup {a}
    /\ Goto(c, "newCore")
    /\ UNCHANGED <<instance, cancel, stopRequired, candidate, box>>

(* context.WithCancel: the attempt's context is live from here on.         *)
StartAccepted(c) ==
    /\ pc[c] = "start"
    /\ config[c] = "options"
    /\ instance = Nil /\ ~stopRequired
    /\ \E a \in Attempts \ liveCtx :
          /\ ~Open(a)
          /\ ctx' = [ctx EXCEPT ![c] = a]
          /\ liveCtx' = liveCtx \cup {a}
    /\ Goto(c, "newCore")
    /\ UNCHANGED <<instance, cancel, stopRequired, candidate, box>>

(* The factory returns a Box, with or without an error, or an error or a   *)
(* panic without one, or panics when it has built a Box.                   *)
NewCore(c) ==
    /\ pc[c] = "newCore"
    /\ \/ /\ box' = [box EXCEPT ![ctx[c]] = "built"]
          /\ candidate' = [candidate EXCEPT ![c] = ctx[c]]
          /\ Goto(c, "boxStart") \/ Goto(c, "startFailed")
       \/ /\ box' \in {box, [box EXCEPT ![ctx[c]] = "lost"]}
          /\ Goto(c, "startFailed")
          /\ UNCHANGED candidate
    /\ UNCHANGED <<instance, cancel, stopRequired, ctx, liveCtx>>

(* candidate.Start succeeded: the Box is handed to lifecycle.              *)
BoxStarted(c) ==
    /\ pc[c] = "boxStart"
    /\ box' = [box EXCEPT ![candidate[c]] = "up"]
    /\ Own(candidate[c], FALSE)
    /\ Return(c, "started")
    /\ UNCHANGED liveCtx

(* candidate.Start returned an error or panicked, perhaps after its work.  *)
BoxStartFailed(c) ==
    /\ pc[c] = "boxStart"
    /\ \E s \in {"built", "up"} : box' = [box EXCEPT ![candidate[c]] = s]
    /\ Goto(c, "startFailed")
    /\ UNCHANGED <<instance, cancel, stopRequired, ctx, candidate, liveCtx>>

(* Mutant: a Box that was never handed over is closed like any other.      *)
CancelCandidateUnchecked(c) ==
    /\ pc[c] = "startFailed"
    /\ liveCtx' = liveCtx \ {ctx[c]}
    /\ Goto(c, "startClose")
    /\ UNCHANGED <<instance, cancel, stopRequired, ctx, candidate, box>>

(* Every failure path, the recover included, cancels first; with no Box    *)
(* there is nothing to close.                                              *)
CancelCandidate(c) ==
    /\ pc[c] = "startFailed"
    /\ liveCtx' = liveCtx \ {ctx[c]}
    /\ \/ candidate[c] # Nil /\ Goto(c, "startClose") /\ UNCHANGED <<ctx, candidate>>
       \/ candidate[c] = Nil /\ Return(c, "error")
    /\ UNCHANGED <<instance, cancel, stopRequired, box>>

(* closeCore answered nil or nothing but os.ErrClosed.                     *)
CandidateClosed(c) ==
    /\ pc[c] = "startClose"
    /\ box' = [box EXCEPT ![candidate[c]] = "closed"]
    /\ Return(c, "error")
    /\ UNCHANGED <<instance, cancel, stopRequired, liveCtx>>

(* Mutant: a Box that would not close is dropped.                          *)
CandidateDropped(c) ==
    /\ pc[c] = "startClose"
    /\ Return(c, "error")
    /\ UNCHANGED <<instance, cancel, stopRequired, liveCtx, box>>

(* Mutant: a Box that would not close is retained as if it ran.            *)
CandidateRetainedAsRunning(c) ==
    /\ pc[c] = "startClose"
    /\ Own(candidate[c], FALSE)
    /\ Return(c, "error")
    /\ UNCHANGED <<liveCtx, box>>

(* closeCore failed or panicked on an open Box, which may be closed by now.*)
(* The Box is retained for StopCore.                                       *)
CandidateNotClosed(c) ==
    /\ pc[c] = "startClose"
    /\ \E s \in {box[candidate[c]], "closed"} : box' = [box EXCEPT ![candidate[c]] = s]
    /\ Own(candidate[c], TRUE)
    /\ Return(c, "error")
    /\ UNCHANGED liveCtx

-----------------------------------------------------------------------------
StopIdle(c) ==
    /\ pc[c] = "stop"
    /\ instance = Nil
    /\ stopRequired' = FALSE
    /\ Return(c, "stopped")
    /\ UNCHANGED <<instance, cancel, liveCtx, box>>

StopAccepted(c) ==
    /\ pc[c] = "stop"
    /\ instance # Nil
    /\ stopRequired' = TRUE
    /\ Goto(c, "stopCancel")
    /\ UNCHANGED <<instance, cancel, ctx, candidate, liveCtx, box>>

(* cancel() of the retained context; calling it again does nothing.        *)
StopCancel(c) ==
    /\ pc[c] = "stopCancel"
    /\ liveCtx' = liveCtx \ {cancel}
    /\ Goto(c, "stopClose")
    /\ UNCHANGED <<instance, cancel, stopRequired, ctx, candidate, box>>

(* cancel() panicked: the recover of Stop returns, everything is retained. *)
StopCancelPanics(c) ==
    /\ pc[c] = "stopCancel"
    /\ \E l \in {liveCtx, liveCtx \ {cancel}} : liveCtx' = l
    /\ Return(c, "error")
    /\ UNCHANGED <<instance, cancel, stopRequired, box>>

InstanceClosed(c) ==
    /\ pc[c] = "stopClose"
    /\ box' = [box EXCEPT ![instance] = "closed"]
    /\ Disown
    /\ Return(c, "stopped")
    /\ UNCHANGED liveCtx

(* Mutant: the error of Close is lost and the stop reported done.          *)
InstanceNotClosedSilently(c) ==
    /\ pc[c] = "stopClose"
    /\ Disown
    /\ Return(c, "stopped")
    /\ UNCHANGED <<liveCtx, box>>

(* Mutant: a failed stop is retried with the lock held.                    *)
InstanceNotClosedRetrying(c) ==
    /\ pc[c] = "stopClose"
    /\ Open(instance)
    /\ Goto(c, "stopCancel")
    /\ UNCHANGED <<instance, cancel, stopRequired, ctx, candidate, liveCtx, box>>

(* Close failed on an open Box; on a closed one it answers os.ErrClosed.   *)
InstanceNotClosed(c) ==
    /\ pc[c] = "stopClose"
    /\ Open(instance)
    /\ \E s \in {box[instance], "closed"} : box' = [box EXCEPT ![instance] = s]
    /\ Return(c, "error")
    /\ UNCHANGED <<instance, cancel, stopRequired, liveCtx>>

(* IsRunning locks, reads and unlocks; nothing else can happen in between. *)
IsRunning(c) ==
    /\ pc[c] = "queryWait"
    /\ lock = NoCaller
    /\ pc' = [pc EXCEPT ![c] = "idle"]
    /\ reply' = [reply EXCEPT ![c] = IF instance # Nil /\ ~stopRequired
                                     THEN "running" ELSE "notRunning"]
    /\ UNCHANGED <<lifecycle, locals, liveCtx, box>>

Step(c) ==
    \/ RefuseConfig(c)
    \/ StartRefused(c) \/ StartAccepted(c) \/ NewCore(c)
    \/ BoxStarted(c) \/ BoxStartFailed(c)
    \/ CancelCandidate(c) \/ CandidateClosed(c) \/ CandidateNotClosed(c)
    \/ StopIdle(c) \/ StopAccepted(c) \/ StopCancel(c) \/ StopCancelPanics(c)
    \/ InstanceClosed(c) \/ InstanceNotClosed(c)

Locked(c) == Acquire(c) \/ IsRunning(c)

Next ==
    \E c \in Callers :
        \/ \E kind \in ConfigKinds : StartCore(c, kind)
        \/ StopCore(c) \/ AskRunning(c)
        \/ Step(c) \/ Locked(c)

Spec == Init /\ [][Next]_vars

(* Constructors, Start and Close return, a running goroutine runs on, and  *)
(* sync.Mutex hands the lock to a waiter that keeps losing it (its         *)
(* starvation mode).  Nobody is obliged to make a call.                    *)
FairSpec == Spec /\ \A c \in Callers : WF_vars(Step(c)) /\ SF_vars(Locked(c))

-----------------------------------------------------------------------------
(* "starts exactly one process-global core" (bridge.go:61): no history of  *)
(* failed constructors, starts and closes leaves two Boxes open.           *)
AtMostOneOpen == \A a, b \in Attempts : Open(a) /\ Open(b) => a = b

(* "either close it now or retain it for serialized StopCore retry"        *)
(* (bridge.go:112-114): whenever the lock is free, a Box that is still     *)
(* open and a context that is still live are the retained ones.  That the  *)
(* context is ended is all that can be done about a Box that a panicking   *)
(* factory has built.                                                      *)
NothingLeaks ==
    lock = NoCaller =>
        \A a \in Attempts : Open(a) \/ a \in liveCtx => instance = a /\ cancel = a

(* A bridge that answers IsRunning with true owns a Box that is up, whose  *)
(* context is live and whose cancel function it holds.                     *)
RunningIsUp ==
    lock = NoCaller /\ instance # Nil /\ ~stopRequired =>
        /\ box[instance] = "up"
        /\ instance \in liveCtx
        /\ cancel = instance

(* Every ABI call returns, though others keep calling and every Start and  *)
(* Close may fail or panic (the deferred unlock of bridge.go).             *)
EveryCallReturns == \A c \in Callers : (pc[c] # "idle") ~> (pc[c] = "idle")

(* The bridge implements the ABI's promise: it is engaged from the context *)
(* of a start until that attempt is closed.                                *)
InAttempt(c) == pc[c] \in {"newCore", "boxStart", "startFailed", "startClose"}
Engaged == instance # Nil \/ \E c \in Callers : InAttempt(c)
Live == IF \E a \in Attempts : Open(a) THEN 1 ELSE 0
Core == INSTANCE CoreLifecycle WITH engaged <- Engaged, live <- Live
ImplementsCore == Core!Spec
=============================================================================
