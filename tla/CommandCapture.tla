--------------------------- MODULE CommandCapture ---------------------------
(***************************************************************************)
(* Running a command with a bound on its time and on its output, in the    *)
(* three copies the scripts have of it:                                    *)
(*   "api"     scripts/retire_legacy_workflows.py, GitHubApi               *)
(*   "inputs"  scripts/verify_build_inputs.py, _run_bounded                *)
(*   "bundle"  scripts/build_singbox_source_bundle.py,                     *)
(*             bounded_command_output                                      *)
(* The command leads a session and a process group of its own.  While its  *)
(* leader is not reaped the kernel cannot give the group's number to       *)
(* anybody else, so every copy kills the group before it reaps the leader. *)
(* The command forks, exits and writes as it likes, time passes, somebody  *)
(* else in the process may reap the leader, and an interrupt may arrive    *)
(* between any two steps.  The two pipes are one; a chunk is what one read *)
(* returns, and a pipe holds no more than one.                             *)
(***************************************************************************)
EXTENDS Naturals

CONSTANTS
    Copies,         \* the copies of the code that are run
    Descendants,    \* processes the command may fork
    MaxOut,         \* the limit on the output, in chunks
    MaxInterrupts   \* bound: interrupts that arrive

ASSUME CaptureAssumption ==
    /\ Copies \subseteq {"api", "inputs", "bundle"}
    /\ MaxOut \in Nat /\ MaxInterrupts \in Nat

VARIABLES
    copy,   \* the copy of the code that runs
    host,   \* thief: another thread reaps children; darwin: the kernel is Darwin
    os,     \* leader, its exit status, kin, reuse of the group's number, the pipe
    clock,  \* late: the deadline has passed; drained: the drain period is over
    pc,     \* where the script is
    m,      \* the script's local variables
    seen    \* history: a foreign group was signalled, the exit was first observed
            \* late, the leader outlived a wait, and the interrupts

vars == <<copy, host, os, clock, pc, m, seen>>
world == <<copy, host>>

None == "none"
Gone == {"unborn", "dead"}

Locations == {"start", "born", "leaderKill", "leaderWait", "loop", "probe", "arbitrate",
    "select", "stop", "term", "kill", "resolve", "wait", "reaped", "rewait", "verify",
    "settle", "resume", "drain", "finish", "handler", "done"}

TypeOK ==
    /\ copy \in Copies
    /\ host \in [thief : BOOLEAN, darwin : BOOLEAN]
    /\ os \in [leader : {"unborn", "running", "dying", "zombie", "reaped"},
               status : {None, "ok", "bad"},
               kin : [Descendants -> {"unborn", "group", "escaped", "dead"}],
               reused : BOOLEAN,
               pipe : {"empty", "leader", "kin"}]
    /\ clock \in [late : BOOLEAN, drained : BOOLEAN]
    /\ pc \in Locations
    /\ m \in [got : 0..MaxOut + 1, open : BOOLEAN, exited : BOOLEAN, resolved : BOOLEAN,
              killError : BOOLEAN, code : {None, "ok", "bad"}, settled : BOOLEAN,
              failure : {None, "late", "big", "held"},
              raised : {None, "error", "lost", "interrupt"},
              cleaning : BOOLEAN, result : {None, "value", "error"}]
    /\ seen \in [foreign : BOOLEAN, late : BOOLEAN, stuck : BOOLEAN,
                 interrupts : 0..MaxInterrupts]

Init ==
    /\ copy \in Copies
    /\ host \in [thief : BOOLEAN, darwin : BOOLEAN]
    /\ os = [leader |-> "unborn", status |-> None, kin |-> [d \in Descendants |-> "unborn"],
             reused |-> FALSE, pipe |-> "empty"]
    /\ clock = [late |-> FALSE, drained |-> FALSE]
    /\ pc = "start"
    /\ m = [got |-> 0, open |-> TRUE, exited |-> FALSE, resolved |-> FALSE,
            killError |-> FALSE, code |-> None, settled |-> FALSE, failure |-> None,
            raised |-> None, cleaning |-> FALSE, result |-> None]
    /\ seen = [foreign |-> FALSE, late |-> FALSE, stuck |-> FALSE, interrupts |-> 0]

-----------------------------------------------------------------------------
(* The command, the kernel, and the passing of time.                       *)

InGroup == {d \in Descendants : os.kin[d] = "group"}
Alive == {d \in Descendants : os.kin[d] \notin Gone}
Anchored == os.leader # "reaped" \/ InGroup # {}
WritersLeft == os.leader \in {"running", "dying"} \/ Alive # {}

(* A fork stays in the group unless the child calls setsid.                *)
Fork(d) ==
    /\ os.leader = "running"
    /\ os.kin[d] = "unborn"
    /\ \E where \in {"group", "escaped"} : os' = [os EXCEPT !.kin[d] = where]
    /\ UNCHANGED <<world, clock, pc, m, seen>>

KinExits(d) ==
    /\ os.kin[d] \notin Gone
    /\ os' = [os EXCEPT !.kin[d] = "dead"]
    /\ UNCHANGED <<world, clock, pc, m, seen>>

LeaderExits ==
    /\ os.leader \in {"running", "dying"}
    /\ \E s \in IF os.leader = "running" THEN {"ok", "bad"} ELSE {"bad"} :
          os' = [os EXCEPT !.leader = "zombie", !.status = s]
    /\ UNCHANGED <<world, clock, pc, m, seen>>

Write ==
    /\ os.pipe = "empty"
    /\ \/ os.leader = "running" /\ os' = [os EXCEPT !.pipe = "leader"]
       \/ Alive # {} /\ os' = [os EXCEPT !.pipe = "kin"]
    /\ UNCHANGED <<world, clock, pc, m, seen>>

(* Another thread of the script reaps the leader.                          *)
StealExit ==
    /\ host.thief
    /\ os.leader = "zombie"
    /\ os' = [os EXCEPT !.leader = "reaped"]
    /\ UNCHANGED <<world, clock, pc, m, seen>>

(* The number of the group is free and goes to an unrelated session.       *)
ReuseGroup ==
    /\ ~Anchored
    /\ ~os.reused
    /\ os' = [os EXCEPT !.reused = TRUE]
    /\ UNCHANGED <<world, clock, pc, m, seen>>

DeadlinePasses ==
    /\ ~clock.late
    /\ pc \notin {"start", "done"}
    /\ clock' = [clock EXCEPT !.late = TRUE]
    /\ UNCHANGED <<world, os, pc, m, seen>>

DrainEnds ==
    /\ ~clock.drained
    /\ pc = "drain"
    /\ clock' = [clock EXCEPT !.drained = TRUE]
    /\ UNCHANGED <<world, os, pc, m, seen>>

Environment ==
    \/ \E d \in Descendants : Fork(d) \/ KinExits(d)
    \/ LeaderExits \/ Write \/ StealExit \/ ReuseGroup \/ DeadlinePasses \/ DrainEnds

(* Darwin refuses to signal a group of nothing but the zombie leader.      *)
Refused == host.darwin /\ os.leader = "zombie" /\ InGroup = {}
GroupExists == Anchored \/ os.reused

(* Mutant: the signal reaches the leader only.                             *)
KilledAlone ==
    [os EXCEPT !.leader = IF @ = "running" THEN "dying" ELSE @]

(* What a SIGKILL to the group does; its victims may take a while to exit. *)
Killed ==
    [os EXCEPT !.leader = IF @ = "running" /\ Anchored THEN "dying" ELSE @,
               !.kin = [d \in Descendants |-> IF d \in InGroup THEN "dead" ELSE @[d]]]

-----------------------------------------------------------------------------
(* How the script leaves off: an exception goes to the handler, one that   *)
(* the clean-up itself meets ends it.                                      *)

Api == copy = "api"

Raise(e) ==
    IF m.cleaning
    THEN /\ pc' = "done"
         /\ m' = [m EXCEPT !.result = "error"]
    ELSE /\ pc' = "handler"
         /\ m' = [m EXCEPT !.raised = e, !.settled = @ \/ e = "lost"]

StopFor(why) ==
    /\ pc' = "stop"
    /\ m' = [m EXCEPT !.failure = why]

-----------------------------------------------------------------------------
(* Starting the command.                                                   *)

StartFails ==
    /\ pc = "start"
    /\ pc' = "done"
    /\ m' = [m EXCEPT !.result = "error"]
    /\ UNCHANGED <<world, os, clock, seen>>

Start ==
    /\ pc = "start"
    /\ pc' = "born"
    /\ os' = [os EXCEPT !.leader = "running"]
    /\ UNCHANGED <<world, clock, m, seen>>

EnterLoop ==
    /\ pc = "born"
    /\ pc' = "loop"
    /\ UNCHANGED <<world, os, clock, m, seen>>

(* The pipes are missing; the api copy stops the group, then raises.       *)
PipesMissing ==
    /\ pc = "born"
    /\ Api
    /\ StopFor("held")
    /\ UNCHANGED <<world, os, clock, seen>>

(* The executable is no longer the one that was pinned, or pipes miss.     *)
InputsRefused ==
    /\ pc = "born"
    /\ copy = "inputs"
    /\ Raise("error")
    /\ UNCHANGED <<world, os, clock, seen>>

(* This path of the bundle copy kills the leader, not its group.           *)
BundleRefused ==
    /\ pc = "born"
    /\ copy = "bundle"
    /\ pc' = "leaderKill"
    /\ UNCHANGED <<world, os, clock, m, seen>>

KillLeader ==
    /\ pc = "leaderKill"
    /\ pc' = "leaderWait"
    /\ os' = [os EXCEPT !.leader = IF @ = "running" THEN "dying" ELSE @]
    /\ UNCHANGED <<world, clock, m, seen>>

ReapLeader ==
    /\ pc = "leaderWait"
    /\ os' = [os EXCEPT !.leader = IF @ = "zombie" THEN "reaped" ELSE @]
    /\ pc' = "done"
    /\ m' = [m EXCEPT !.result = "error"]
    /\ UNCHANGED <<world, clock, seen>>

BundleWithoutPipes ==
    /\ pc = "born"
    /\ copy = "bundle"
    /\ pc' = "stop"
    /\ m' = [m EXCEPT !.raised = "error", !.cleaning = TRUE]
    /\ UNCHANGED <<world, os, clock, seen>>

-----------------------------------------------------------------------------
(* The loop: deadline, exit and output.  The api copy looks for the exit   *)
(* before it reads, the other two after it.                                *)

CheckDeadline ==
    /\ pc = "loop"
    /\ IF ~clock.late
       THEN pc' = (IF Api THEN "probe" ELSE "select") /\ UNCHANGED m
       ELSE StopFor("late")
    /\ UNCHANGED <<world, os, clock, seen>>

(* Mutant: waitid without WNOWAIT.                                         *)
ProbeReaping ==
    /\ pc = "probe"
    /\ IF os.leader = "reaped" THEN Raise("lost")
       ELSE pc' = "arbitrate" /\ m' = [m EXCEPT !.exited = os.leader = "zombie"]
    /\ os' = [os EXCEPT !.leader = IF @ = "zombie" THEN "reaped" ELSE @]
    /\ UNCHANGED <<world, clock, seen>>

(* waitid with WNOWAIT: the exit is observed and the leader stays a zombie. *)
Probe ==
    /\ pc = "probe"
    /\ IF os.leader = "reaped"
       THEN Raise("lost") /\ UNCHANGED seen
       ELSE /\ pc' = "arbitrate"
            /\ m' = [m EXCEPT !.exited = os.leader = "zombie"]
            /\ seen' = [seen EXCEPT !.late = @ \/ (clock.late /\ os.leader = "zombie")]
    /\ UNCHANGED <<world, os, clock>>

(* The api copy reads the clock again before it believes the exit.         *)
ApiArbitrates ==
    /\ pc = "arbitrate"
    /\ Api
    /\ IF clock.late THEN StopFor("late")
       ELSE /\ pc' = IF m.exited THEN "kill" ELSE "select"
            /\ UNCHANGED m
    /\ UNCHANGED <<world, os, clock, seen>>

(* The inputs copy does not look at the clock again.                       *)
InputsArbitrates ==
    /\ pc = "arbitrate"
    /\ copy = "inputs"
    /\ pc' = IF m.exited \/ m.failure # None THEN "stop" ELSE "loop"
    /\ UNCHANGED <<world, os, clock, m, seen>>

(* Mutant: the clock is not read again.                                    *)
BundleArbitratesStale ==
    /\ pc = "arbitrate"
    /\ copy = "bundle"
    /\ pc' = IF m.exited \/ m.failure # None THEN "stop" ELSE "loop"
    /\ UNCHANGED <<world, os, clock, m, seen>>

BundleArbitrates ==
    /\ pc = "arbitrate"
    /\ copy = "bundle"
    /\ \E f \in IF clock.late THEN {"late"} ELSE {m.failure} :
          /\ m' = [m EXCEPT !.failure = f]
          /\ pc' = IF m.exited \/ f # None THEN "stop" ELSE "loop"
    /\ UNCHANGED <<world, os, clock, seen>>

(* Mutant: bytes over the limit are counted on.                            *)
ReceivedUncapped ==
    IF os.pipe # "empty"
    THEN [m EXCEPT !.got = @ + 1,
                   !.failure = IF m.got >= MaxOut /\ @ = None THEN "big" ELSE @]
    ELSE [m EXCEPT !.open = WritersLeft]

(* One read: a chunk, the end of the output, or nothing yet.               *)
Received ==
    IF os.pipe # "empty"
    THEN [m EXCEPT !.got = IF @ > MaxOut THEN @ ELSE @ + 1,
                   !.failure = IF m.got >= MaxOut /\ @ = None THEN "big" ELSE @]
    ELSE [m EXCEPT !.open = WritersLeft]
ReadPipe == IF m.open THEN [os EXCEPT !.pipe = "empty"] ELSE os

Select ==
    /\ pc = "select"
    /\ os' = ReadPipe
    /\ m' = IF m.open THEN Received ELSE m
    /\ pc' = IF ~Api THEN "probe" ELSE IF m'.failure = "big" THEN "stop" ELSE "loop"
    /\ UNCHANGED <<world, clock, seen>>

-----------------------------------------------------------------------------
(* Ending the group: probe, signal, then reap, then look whether a group   *)
(* that could not be signalled is still there.                             *)

(* The api copy never signals a group again that it has killed.            *)
ProbeOwnership ==
    /\ pc = "stop"
    /\ Api
    /\ IF ~m.resolved /\ os.leader = "reaped" THEN Raise("lost")
       ELSE /\ pc' = IF m.resolved THEN "wait" ELSE "term"
            /\ UNCHANGED m
    /\ UNCHANGED <<world, os, clock, seen>>

(* The others ask waitid and getpgid, unless they have observed the exit.  *)
ProbeGroup ==
    /\ pc = "stop"
    /\ ~Api
    /\ IF ~m.exited /\ os.leader = "reaped" THEN Raise("lost")
       ELSE /\ pc' = "kill"
            /\ m' = [m EXCEPT !.exited = @ \/ os.leader = "zombie"]
    /\ UNCHANGED <<world, os, clock, seen>>

(* SIGTERM, which members may obey or ignore during the grace period.      *)
Terminate ==
    /\ pc = "term"
    /\ pc' = "kill"
    /\ IF os.leader = "running" \/ InGroup # {}
       THEN \E obeys \in SUBSET InGroup, obeyed \in BOOLEAN :
               os' = [os EXCEPT !.leader = IF obeyed /\ @ = "running" THEN "dying" ELSE @,
                                !.kin = [d \in Descendants |->
                                           IF d \in obeys THEN "dead" ELSE @[d]]]
       ELSE UNCHANGED os
    /\ seen' = [seen EXCEPT !.foreign = @ \/ (os.reused /\ ~Anchored)]
    /\ UNCHANGED <<world, clock, m>>

(* SIGKILL to the group.                                                   *)
SignalGroup ==
    /\ os' = IF Refused THEN os ELSE Killed
    /\ seen' = [seen EXCEPT !.foreign = @ \/ (os.reused /\ ~Anchored)]

HardKill ==
    /\ pc = "kill"
    /\ Api
    /\ SignalGroup
    /\ pc' = "resolve"
    /\ m' = [m EXCEPT !.killError = Refused]
    /\ UNCHANGED <<world, clock>>

(* A refusal is only believed of a leader that is known to have exited.    *)
TerminateGroup ==
    /\ pc = "kill"
    /\ ~Api
    /\ SignalGroup
    /\ IF Refused /\ ~m.exited THEN Raise("error")
       ELSE /\ pc' = "wait"
            /\ m' = [m EXCEPT !.killError = Refused]
    /\ UNCHANGED <<world, clock>>

Resolve ==
    /\ pc = "resolve"
    /\ pc' = "wait"
    /\ m' = [m EXCEPT !.resolved = TRUE]
    /\ UNCHANGED <<world, os, clock, seen>>

(* Popen.wait reaps a zombie; a child that is not there any more counts as *)
(* one that exited with 0, and one that does not exit in time is an error. *)
Wait ==
    /\ pc = "wait"
    /\ CASE m.code # None -> pc' = "verify" /\ UNCHANGED <<os, m>>
         [] m.code = None /\ os.leader = "zombie" ->
            /\ os' = [os EXCEPT !.leader = "reaped"]
            /\ pc' = "reaped"
            /\ UNCHANGED m
         [] m.code = None /\ os.leader = "reaped" ->
            /\ m' = [m EXCEPT !.code = "ok"]
            /\ pc' = "verify"
            /\ UNCHANGED os
         [] OTHER -> Raise("error") /\ UNCHANGED os
    /\ seen' = [seen EXCEPT !.stuck = @ \/ (m.code = None /\ os.leader \in {"running", "dying"})]
    /\ UNCHANGED <<world, clock>>

Reaped ==
    /\ pc = "reaped"
    /\ pc' = "verify"
    /\ m' = [m EXCEPT !.code = os.status]
    /\ UNCHANGED <<world, os, clock, seen>>

(* Interrupted, Popen.wait tries once more before it passes the interrupt. *)
WaitAgain ==
    /\ pc = "rewait"
    /\ os' = [os EXCEPT !.leader = IF @ = "zombie" THEN "reaped" ELSE @]
    /\ LET code == CASE m.code # None -> m.code
                     [] m.code = None /\ os.leader = "zombie" -> os.status
                     [] m.code = None /\ os.leader = "reaped" -> "ok"
                     [] OTHER -> None
       IN IF m.cleaning
          THEN pc' = "done" /\ m' = [m EXCEPT !.code = code, !.result = "error"]
          ELSE pc' = "handler" /\ m' = [m EXCEPT !.code = code, !.raised = "interrupt"]
    /\ UNCHANGED <<world, clock, seen>>

VerifyGroupGone ==
    /\ pc = "verify"
    /\ IF m.killError /\ GroupExists THEN Raise("error")
       ELSE /\ pc' = "settle"
            /\ UNCHANGED m
    /\ UNCHANGED <<world, os, clock, seen>>

Settle ==
    /\ pc = "settle"
    /\ IF m.cleaning THEN pc' = "done" /\ m' = [m EXCEPT !.result = "error"]
       ELSE pc' = "resume" /\ m' = IF Api THEN [m EXCEPT !.settled = TRUE] ELSE m
    /\ UNCHANGED <<world, os, clock, seen>>

(* The copies with a pinned executable check it a second time.             *)
Resume ==
    /\ pc = "resume"
    /\ \/ pc' = (IF Api /\ m.failure # None THEN "finish" ELSE "drain") /\ UNCHANGED m
       \/ ~Api /\ Raise("error")
    /\ UNCHANGED <<world, os, clock, seen>>

-----------------------------------------------------------------------------
(* After the exit: what the pipe still holds, for a bounded time.  The api *)
(* copy reads before it looks at the clock, and then closes the pipe.      *)

ApiDrains ==
    /\ pc = "drain"
    /\ Api
    /\ m.open
    /\ os' = ReadPipe
    /\ m' = [Received EXCEPT !.open = @ /\ ~clock.drained]
    /\ UNCHANGED <<world, clock, pc, seen>>

DrainMore ==
    /\ pc = "drain"
    /\ ~Api
    /\ m.open /\ ~clock.drained
    /\ os' = ReadPipe
    /\ m' = Received
    /\ UNCHANGED <<world, clock, pc, seen>>

(* Mutant: the end of the output is waited for.                            *)
DrainDoneAtEof ==
    /\ pc = "drain"
    /\ ~m.open
    /\ pc' = "finish"
    /\ UNCHANGED <<world, os, clock, m, seen>>

(* Somebody who still holds the pipe is a failure of its own.              *)
DrainDone ==
    /\ pc = "drain"
    /\ ~m.open \/ (~Api /\ clock.drained)
    /\ pc' = "finish"
    /\ m' = [m EXCEPT !.failure = IF @ = None /\ m.open THEN "held" ELSE @]
    /\ UNCHANGED <<world, os, clock, seen>>

(* Output is only returned when nothing failed and the command succeeded.  *)
Outcome == IF m.failure = None /\ m.code = "ok" THEN "value" ELSE "error"

Finish ==
    /\ pc = "finish"
    /\ pc' = "done"
    /\ m' = [m EXCEPT !.result = Outcome]
    /\ UNCHANGED <<world, os, clock, seen>>

(* An exception: the group is ended unless that has been done or the       *)
(* leader is no longer ours.                                               *)
CleanUpIf(needed) ==
    /\ pc = "handler"
    /\ IF needed
       THEN pc' = "stop" /\ m' = [m EXCEPT !.cleaning = TRUE]
       ELSE pc' = "done" /\ m' = [m EXCEPT !.result = "error"]
    /\ UNCHANGED <<world, os, clock, seen>>

ApiCleansUp == Api /\ CleanUpIf(~m.settled)
CleanUp == ~Api /\ CleanUpIf(~m.settled /\ m.code = None)

-----------------------------------------------------------------------------
(* An interrupt between two steps.                                         *)
Interrupt ==
    /\ seen.interrupts < MaxInterrupts
    /\ pc \notin {"start", "finish", "done"}
    /\ \/ /\ pc \in {"wait", "reaped"}
          /\ pc' = "rewait"
          /\ UNCHANGED m
       \/ /\ pc = "born" /\ copy = "bundle"
          /\ pc' = "leaderKill"
          /\ UNCHANGED m
       \/ /\ pc \in {"born", "leaderKill", "leaderWait", "handler"}
          /\ pc' = "done"
          /\ m' = [m EXCEPT !.result = "error"]
       \/ /\ pc \notin {"wait", "reaped", "born", "leaderKill", "leaderWait", "handler"}
          /\ Raise("interrupt")
    /\ seen' = [seen EXCEPT !.interrupts = @ + 1]
    /\ UNCHANGED <<world, os, clock>>

Program ==
    \/ Start \/ StartFails \/ EnterLoop \/ PipesMissing \/ InputsRefused
    \/ BundleRefused \/ KillLeader \/ ReapLeader \/ BundleWithoutPipes
    \/ CheckDeadline \/ Probe \/ ApiArbitrates \/ InputsArbitrates \/ BundleArbitrates
    \/ Select \/ ProbeOwnership \/ ProbeGroup \/ Terminate \/ HardKill \/ TerminateGroup
    \/ Resolve \/ Wait \/ Reaped \/ WaitAgain \/ VerifyGroupGone \/ Settle \/ Resume
    \/ ApiDrains \/ DrainMore \/ DrainDone \/ Finish \/ ApiCleansUp \/ CleanUp

Next == Program \/ Environment \/ Interrupt
Spec == Init /\ [][Next]_vars

(* Time passes and the script keeps running.                               *)
FairSpec ==
    /\ Spec
    /\ WF_vars(Program)
    /\ WF_vars(DeadlinePasses)
    /\ WF_vars(DrainEnds)

-----------------------------------------------------------------------------
(* No copy signals a group that is not its command's, unless another       *)
(* thread reaped the leader after the last probe (the api copy kills after *)
(* the grace period without a second one); once the loss of the leader was *)
(* observed there is no signal at all.  The inputs and bundle copies also  *)
(* need that no second interrupt cuts short Popen.wait.                    *)
NoForeignSignal ==
    [][seen'.foreign # seen.foreign =>
          \/ host.thief /\ m.raised # "lost"
          \/ ~Api /\ seen.interrupts > 1]_vars

(* When a capture ends, by a result, an error or an interrupt, no process  *)
(* of the command's group runs any more: unless the leader was reaped by   *)
(* others or outlived the wait after its SIGKILL, a further interrupt hit  *)
(* the clean-up, an interrupt came before the try, or the bundle copy      *)
(* refused the executable right after starting it.                         *)
NothingSurvives ==
    /\ pc = "done" /\ ~host.thief /\ ~seen.stuck
    /\ m.exited \/ m.failure # None \/ m.raised # None
    /\ seen.interrupts = (IF m.raised = "interrupt" THEN 1 ELSE 0)
    => os.leader \in {"zombie", "reaped"} /\ InGroup = {}

(* Accepted output is within the limit, it holds all the leader wrote, its *)
(* exit status was 0 and, except in the inputs copy, its exit was observed *)
(* before the deadline.                                                    *)
AcceptedIsSound ==
    m.result = "value" =>
        /\ m.got <= MaxOut
        /\ os.pipe # "leader"
        /\ os.status = "ok" \/ host.thief
        /\ copy = "inputs" \/ ~seen.late

(* Every capture ends, whatever the command, its children or the reaper do. *)
EveryCaptureReturns == <>(pc = "done")
=============================================================================
