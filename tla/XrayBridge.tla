---------------------------- MODULE XrayBridge ----------------------------
(***************************************************************************)
(* The Xray bridge: StartCore and StopCore of cmd/exitfy-xray/main.go and  *)
(* Start, Stop, IsRunning and invoke of internal/bridge/bridge.go, called  *)
(* by any number of concurrent JNI threads.  libXray is external: it owns  *)
(* process-global state, may do or not do what it was asked, and answers   *)
(* success, a rejection, an unreadable response, or panics.                *)
(***************************************************************************)
EXTENDS Naturals

CONSTANTS
    Callers,    \* the threads that call the ABI
    NoCaller    \* the value of the lock when nobody holds it

ASSUME NoCallerAssumption == NoCaller \notin Callers

VARIABLES
    lock,           \* lifecycle.Mutex: its holder
    running,        \* lifecycle.running
    stopRequired,   \* lifecycle.stopRequired
    pc,             \* where each caller is in its call
    config,         \* the kind of configuration each caller passed
    answer,         \* what libXray answered to the caller's request
    reply,          \* what the last ABI call of each caller returned
    native          \* Xray instances alive in the process (external)

lifecycle == <<lock, running, stopRequired>>
vars == <<lock, running, stopRequired, pc, config, answer, reply, native>>

(* Configurations, by the check that would reject them; only "object" is   *)
(* passed on.  "null" is a JSON null, which decodes to a nil map.          *)
ConfigKinds == {"nil", "oversized", "blank", "malformed", "null", "object"}
NativeAnswers == {"success", "rejected", "unreadable", "panic"}

Locations == {"idle", "startCore", "start", "startInvoke", "startAnswered",
              "stopWait", "stop", "stopInvoke", "stopAnswered", "queryWait"}
Replies == {"none", "starting", "stopping", "asking",
            "started", "stopped", "running", "notRunning", "error"}

TypeOK ==
    /\ lock \in Callers \cup {NoCaller}
    /\ running \in BOOLEAN
    /\ stopRequired \in BOOLEAN
    /\ pc \in [Callers -> Locations]
    /\ config \in [Callers -> ConfigKinds]
    /\ answer \in [Callers -> NativeAnswers]
    /\ reply \in [Callers -> Replies]
    /\ native \in Nat

Init ==
    /\ lock = NoCaller
    /\ running = FALSE
    /\ stopRequired = FALSE
    /\ pc = [c \in Callers |-> "idle"]
    /\ config = [c \in Callers |-> "nil"]
    /\ answer = [c \in Callers |-> "success"]
    /\ reply = [c \in Callers |-> "none"]
    /\ native = 0

-----------------------------------------------------------------------------
(* A thread enters StartCore, StopCore or IsRunning.                       *)
StartCore(c, kind) ==
    /\ pc[c] = "idle"
    /\ pc' = [pc EXCEPT ![c] = "startCore"]
    /\ config' = [config EXCEPT ![c] = kind]
    /\ reply' = [reply EXCEPT ![c] = "starting"]
    /\ UNCHANGED <<lifecycle, answer, native>>

StopCore(c) ==
    /\ pc[c] = "idle"
    /\ pc' = [pc EXCEPT ![c] = "stopWait"]
    /\ reply' = [reply EXCEPT ![c] = "stopping"]
    /\ UNCHANGED <<lifecycle, config, answer, native>>

AskRunning(c) ==
    /\ pc[c] = "idle"
    /\ pc' = [pc EXCEPT ![c] = "queryWait"]
    /\ reply' = [reply EXCEPT ![c] = "asking"]
    /\ UNCHANGED <<lifecycle, config, answer, native>>

(* A nil pointer and an over-long string are refused without the lock.     *)
RefuseConfig(c) ==
    /\ pc[c] = "startCore"
    /\ config[c] \in {"nil", "oversized"}
    /\ pc' = [pc EXCEPT ![c] = "idle"]
    /\ reply' = [reply EXCEPT ![c] = "error"]
    /\ config' = [config EXCEPT ![c] = "nil"]
    /\ UNCHANGED <<lifecycle, answer, native>>

Acquire(c) ==
    /\ lock = NoCaller
    /\ lock' = c
    /\ \/ /\ pc[c] = "startCore"
          /\ config[c] \notin {"nil", "oversized"}
          /\ pc' = [pc EXCEPT ![c] = "start"]
       \/ /\ pc[c] = "stopWait"
          /\ pc' = [pc EXCEPT ![c] = "stop"]
    /\ UNCHANGED <<running, stopRequired, config, answer, reply, native>>

(* The deferred Unlock and the return of the call, whose locals are gone.  *)
Return(c, result) ==
    /\ lock' = NoCaller
    /\ pc' = [pc EXCEPT ![c] = "idle"]
    /\ reply' = [reply EXCEPT ![c] = result]
    /\ config' = [config EXCEPT ![c] = "nil"]
    /\ answer' = [answer EXCEPT ![c] = "success"]

(* Start refuses a configuration it cannot use and an engaged bridge.      *)
StartRefused(c) ==
    /\ pc[c] = "start"
    /\ config[c] # "object" \/ running \/ stopRequired
    /\ Return(c, "error")
    /\ UNCHANGED <<running, stopRequired, native>>

(* Mutant: a failed start does not keep the next one out.                  *)
StartAcceptedUnlessRunning(c) ==
    /\ pc[c] = "start"
    /\ config[c] = "object"
    /\ ~running
    /\ stopRequired' = TRUE
    /\ pc' = [pc EXCEPT ![c] = "startInvoke"]
    /\ UNCHANGED <<lock, running, config, answer, reply, native>>

(* From here on a stop is owed, whatever libXray will answer.              *)
StartAccepted(c) ==
    /\ pc[c] = "start"
    /\ config[c] = "object"
    /\ ~running /\ ~stopRequired
    /\ stopRequired' = TRUE
    /\ pc' = [pc EXCEPT ![c] = "startInvoke"]
    /\ UNCHANGED <<lock, running, config, answer, reply, native>>

StopIdle(c) ==
    /\ pc[c] = "stop"
    /\ ~running /\ ~stopRequired
    /\ Return(c, "stopped")
    /\ UNCHANGED <<running, stopRequired, native>>

StopAccepted(c) ==
    /\ pc[c] = "stop"
    /\ running \/ stopRequired
    /\ stopRequired' = TRUE
    /\ pc' = [pc EXCEPT ![c] = "stopInvoke"]
    /\ UNCHANGED <<lock, running, config, answer, reply, native>>

(* libXray handles runXrayFromJson.  Only a success says what happened: an *)
(* instance that is up may hide behind any other answer.                   *)
LibXrayRun(c) ==
    /\ pc[c] = "startInvoke"
    /\ \/ native' = native + 1 /\ \E a \in NativeAnswers : answer' = [answer EXCEPT ![c] = a]
       \/ native' = native /\ \E a \in NativeAnswers \ {"success"} : answer' = [answer EXCEPT ![c] = a]
    /\ pc' = [pc EXCEPT ![c] = "startAnswered"]
    /\ UNCHANGED <<lifecycle, config, reply>>

(* libXray handles stopXray.                                               *)
LibXrayStop(c) ==
    /\ pc[c] = "stopInvoke"
    /\ \/ native' = 0 /\ \E a \in NativeAnswers : answer' = [answer EXCEPT ![c] = a]
       \/ native' = native /\ \E a \in NativeAnswers \ {"success"} : answer' = [answer EXCEPT ![c] = a]
    /\ pc' = [pc EXCEPT ![c] = "stopAnswered"]
    /\ UNCHANGED <<lifecycle, config, reply>>

(* Mutant: the native answer is handed out as it is.                       *)
StartReturnsRaw(c) ==
    /\ pc[c] = "startAnswered"
    /\ running' = (running \/ answer[c] = "success")
    /\ Return(c, answer[c])
    /\ UNCHANGED <<stopRequired, native>>

(* Mutant: the answer's success field is not looked at.                    *)
StartReturnsUnchecked(c) ==
    /\ pc[c] = "startAnswered"
    /\ running' = TRUE
    /\ Return(c, "started")
    /\ UNCHANGED <<stopRequired, native>>

(* The rest of Start once invoke returned, or its recover after a panic.   *)
StartReturns(c) ==
    /\ pc[c] = "startAnswered"
    /\ running' = (running \/ answer[c] = "success")
    /\ Return(c, IF answer[c] = "success" THEN "started" ELSE "error")
    /\ UNCHANGED <<stopRequired, native>>

(* Mutant: a failed stop ends the obligation to stop.                      *)
StopReturnsForgetful(c) ==
    /\ pc[c] = "stopAnswered"
    /\ running' = FALSE
    /\ stopRequired' = FALSE
    /\ Return(c, IF answer[c] = "success" THEN "stopped" ELSE "error")
    /\ UNCHANGED native

(* Mutant: a failed stop is retried with the lock held.                    *)
StopReturnsRetrying(c) ==
    /\ pc[c] = "stopAnswered"
    /\ \/ /\ answer[c] = "success"
          /\ running' = FALSE
          /\ stopRequired' = FALSE
          /\ Return(c, "stopped")
       \/ /\ answer[c] # "success"
          /\ pc' = [pc EXCEPT ![c] = "stopInvoke"]
          /\ UNCHANGED <<lifecycle, config, answer, reply>>
    /\ UNCHANGED native

(* The rest of Stop: only a confirmed success ends the obligation to stop. *)
StopReturns(c) ==
    /\ pc[c] = "stopAnswered"
    /\ running' = (running /\ answer[c] # "success")
    /\ stopRequired' = (stopRequired /\ answer[c] # "success")
    /\ Return(c, IF answer[c] = "success" THEN "stopped" ELSE "error")
    /\ UNCHANGED native

(* IsRunning locks, reads and unlocks; nothing else can happen in between. *)
IsRunning(c) ==
    /\ pc[c] = "queryWait"
    /\ lock = NoCaller
    /\ pc' = [pc EXCEPT ![c] = "idle"]
    /\ reply' = [reply EXCEPT ![c] = IF running THEN "running" ELSE "notRunning"]
    /\ UNCHANGED <<lifecycle, config, answer, native>>

Step(c) ==
    \/ RefuseConfig(c)
    \/ StartRefused(c) \/ StartAccepted(c) \/ LibXrayRun(c) \/ StartReturns(c)
    \/ StopIdle(c) \/ StopAccepted(c) \/ LibXrayStop(c) \/ StopReturns(c)

Locked(c) == Acquire(c) \/ IsRunning(c)

Next ==
    \E c \in Callers :
        \/ \E kind \in ConfigKinds : StartCore(c, kind)
        \/ StopCore(c) \/ AskRunning(c)
        \/ Step(c) \/ Locked(c)

Spec == Init /\ [][Next]_vars

(* libXray answers every request, a running goroutine runs on, and         *)
(* sync.Mutex hands the lock to a waiter that keeps losing it (its         *)
(* starvation mode).  Nobody is obliged to make a call.                    *)
FairSpec == Spec /\ \A c \in Callers : WF_vars(Step(c)) /\ SF_vars(Locked(c))

-----------------------------------------------------------------------------
(* "a retry cannot create two instances" (bridge.go:98-101): two threads   *)
(* and any sequence of lost, rejected and panicking answers never bring    *)
(* two Xray instances up in the process.                                   *)
AtMostOneNative == native <= 1

(* An instance that may be alive is never forgotten: whenever one is up    *)
(* the bridge still owes a stop, so the next Stop reaches libXray.         *)
NativeIsOwned == native > 0 => stopRequired

(* Every ABI call returns, though others keep calling and every answer of  *)
(* libXray may be a failure or a panic (the deferred unlock of bridge.go). *)
EveryCallReturns == \A c \in Callers : (pc[c] # "idle") ~> (pc[c] = "idle")

(* The bridge implements the ABI's promise: engaged is the owed stop.      *)
Core == INSTANCE CoreLifecycle WITH engaged <- stopRequired, live <- native
ImplementsCore == Core!Spec
=============================================================================
