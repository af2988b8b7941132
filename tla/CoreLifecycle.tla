--------------------------- MODULE CoreLifecycle ---------------------------
(***************************************************************************)
(* What the native ABI promises its JNI callers, whichever core is behind  *)
(* it: StartCore and StopCore behave as if one process-global core were    *)
(* owned by the bridge from the moment a start reaches it until a stop (or *)
(* the cleanup of a failed start) is confirmed.  XrayBridge and            *)
(* SingboxBridge are shown to implement this module.                       *)
(***************************************************************************)
EXTENDS Naturals

CONSTANT Callers

VARIABLES
    engaged,    \* a start reached the core and no end of it is confirmed
    live,       \* cores that are alive in the process
    reply       \* what each caller's last ABI call answered, or is waiting for

vars == <<engaged, live, reply>>

Pending == {"starting", "stopping", "asking"}
Answers == {"none", "started", "stopped", "running", "notRunning", "error"}

TypeOK ==
    /\ engaged \in BOOLEAN
    /\ live \in 0..1
    /\ reply \in [Callers -> Pending \cup Answers]

Init ==
    /\ engaged = FALSE
    /\ live = 0
    /\ reply = [c \in Callers |-> "none"]

(* A caller whose last call has returned makes another one.                *)
Request(c) ==
    /\ reply[c] \in Answers
    /\ \E op \in Pending : reply' = [reply EXCEPT ![c] = op]
    /\ UNCHANGED <<engaged, live>>

(* A start may reach the core only when nothing of an earlier one is left. *)
Engage ==
    /\ ~engaged
    /\ engaged' = TRUE
    /\ UNCHANGED <<live, reply>>

(* While engaged the core may come up or go down.                          *)
CoreStep ==
    /\ engaged
    /\ live' \in 0..1
    /\ UNCHANGED <<engaged, reply>>

(* A start succeeds only with its core alive and owned.                    *)
Started(c) ==
    /\ reply[c] = "starting"
    /\ engaged
    /\ live' = 1
    /\ reply' = [reply EXCEPT ![c] = "started"]
    /\ UNCHANGED engaged

(* A stop succeeds only with no core left, and then a start may follow.    *)
Stopped(c) ==
    /\ reply[c] = "stopping"
    /\ live' = 0
    /\ engaged' = FALSE
    /\ reply' = [reply EXCEPT ![c] = "stopped"]

(* A failed call either keeps the core owned, or leaves no core at all.    *)
Failed(c) ==
    /\ reply[c] \in {"starting", "stopping"}
    /\ \/ engaged /\ engaged' = TRUE /\ live' \in 0..1
       \/ engaged' = FALSE /\ live' = 0
    /\ reply' = [reply EXCEPT ![c] = "error"]

(* A query answers "running" only about an owned core.                     *)
Answered(c) ==
    /\ reply[c] = "asking"
    /\ \/ engaged /\ reply' = [reply EXCEPT ![c] = "running"]
       \/ reply' = [reply EXCEPT ![c] = "notRunning"]
    /\ UNCHANGED <<engaged, live>>

Next ==
    \/ Engage
    \/ CoreStep
    \/ \E c \in Callers :
          Request(c) \/ Started(c) \/ Stopped(c) \/ Failed(c) \/ Answered(c)

Spec == Init /\ [][Next]_vars
=============================================================================
