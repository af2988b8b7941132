------------------------ MODULE CommandCaptureProofs ------------------------
(***************************************************************************)
(* Proofs about CommandCapture, for any set of copies, any descendants,    *)
(* any limit on the output and any number of interrupts.  The argument is  *)
(* one of order: every copy kills before it reaps.  Past the kill the      *)
(* leader runs no more code and its group is empty, and neither changes    *)
(* any more; so whoever finds the leader reaped finds the group quiet, and *)
(* a leader that is not reaped keeps the group's number from being reused. *)
(***************************************************************************)
EXTENDS CommandCapture, TLAPS

Starting == {"start", "born", "leaderKill", "leaderWait"}
Looping == {"loop", "probe", "arbitrate", "select"}
Ending == {"stop", "term", "kill", "resolve", "wait", "reaped", "rewait", "verify", "settle"}
Killing == {"wait", "reaped", "rewait"}
Ended == {"verify", "settle", "resume", "drain", "finish"}

(* The leader runs no more code of its own and has left nothing in its     *)
(* group; nothing can appear there again.                                  *)
Quiet == os.leader \in {"dying", "zombie", "reaped"} /\ InGroup = {}

(* What the script's variables say of where it is.                         *)
ControlInv ==
    /\ pc \in Starting => /\ ~m.exited /\ m.failure = None /\ m.raised = None
                          /\ m.code = None /\ ~m.resolved /\ m.open
    /\ pc \in {"leaderKill", "leaderWait"} => copy = "bundle"
    /\ m.raised = "lost" => m.settled /\ pc \in {"handler", "done"}
    /\ pc = "handler" => m.raised # None
    /\ m.cleaning => m.raised # None /\ pc \in Ending \cup {"done"}
    /\ m.raised # None => m.cleaning \/ pc \in {"handler", "done"}
    /\ m.result # None => pc = "done"
    /\ pc \in {"term", "resolve"} => Api
    /\ m.resolved => Api /\ pc \notin Looping \cup {"term", "kill", "resolve"}
    /\ Api /\ pc \in Killing => m.resolved
    /\ ~Api /\ m.code # None => pc \in Ended \cup {"handler", "done"}
    /\ pc \in Ended => m.code # None
    /\ pc = "rewait" => seen.interrupts > 0 /\ (m.raised = "interrupt" => seen.interrupts > 1)
    /\ m.raised = "interrupt" => seen.interrupts > 0

(* Past the kill the group is quiet, and who was reaped was killed before. *)
QuietInv ==
    /\ pc = "start" => os.leader = "unborn"
    /\ os.leader = "unborn" => pc \in {"start", "done"}
    /\ os.leader \in {"zombie", "reaped"} => os.status # None
    /\ pc = "reaped" \/ m.code # None \/ m.settled => os.leader = "reaped"
    /\ pc \in {"resolve"} \cup Killing \/ m.resolved \/ m.code # None => Quiet
    /\ os.leader = "reaped" /\ ~host.thief /\ pc # "done" => Quiet

(* A leader the script has reaped itself is known to have been.            *)
ReapInv ==
    /\ os.leader = "reaped" /\ ~host.thief =>
          /\ Api => m.resolved
          /\ ~Api /\ seen.interrupts <= 1 => m.code # None \/ pc \in {"reaped", "rewait", "done"}
          /\ m.raised = None => m.code = os.status \/ pc \in {"reaped", "rewait", "done"}

AcceptInv ==
    /\ m.failure = None => m.got <= MaxOut
    /\ ~m.open => os.leader \in {"zombie", "reaped"} /\ os.pipe # "leader"
    /\ pc = "finish" /\ m.failure = None => ~m.open
    /\ copy # "inputs" /\ seen.late =>
          \/ m.failure # None \/ m.raised # None \/ pc = "done"
          \/ pc = "arbitrate" /\ clock.late
    /\ m.result = "value" => os.leader = "reaped"

IInv == /\ TypeOK /\ ControlInv /\ QuietInv /\ ReapInv /\ AcceptInv
        /\ AcceptedIsSound /\ NothingSurvives

-----------------------------------------------------------------------------
(* The types of the records.                                               *)
Machine == [leader : {"unborn", "running", "dying", "zombie", "reaped"},
            status : {None, "ok", "bad"},
            kin : [Descendants -> {"unborn", "group", "escaped", "dead"}],
            reused : BOOLEAN,
            pipe : {"empty", "leader", "kin"}]
Locals == [got : 0..MaxOut + 1, open : BOOLEAN, exited : BOOLEAN, resolved : BOOLEAN,
           killError : BOOLEAN, code : {None, "ok", "bad"}, settled : BOOLEAN,
           failure : {None, "late", "big", "held"},
           raised : {None, "error", "lost", "interrupt"},
           cleaning : BOOLEAN, result : {None, "value", "error"}]
History == [foreign : BOOLEAN, late : BOOLEAN, stuck : BOOLEAN, interrupts : 0..MaxInterrupts]
Exceptions == {"error", "lost", "interrupt"}

(* TypeOK in terms of them.                                                *)
LEMMA TypesNamed ==
    TypeOK <=> /\ copy \in Copies /\ host \in [thief : BOOLEAN, darwin : BOOLEAN]
               /\ os \in Machine /\ clock \in [late : BOOLEAN, drained : BOOLEAN]
               /\ pc \in Locations /\ m \in Locals /\ seen \in History
BY DEF TypeOK, Machine, Locals, History

(* Raise ends the clean-up or goes to the handler, which is told to leave  *)
(* a lost leader alone.                                                    *)
LEMMA RaiseEffect ==
    ASSUME m \in Locals, NEW e \in {"error", "interrupt"}, Raise(e)
    PROVE  \/ m.cleaning /\ pc' = "done" /\ m' = [m EXCEPT !.result = "error"]
           \/ ~m.cleaning /\ pc' = "handler" /\ m' = [m EXCEPT !.raised = e]
BY DEF Raise, Locals

LostInHandler ==
    /\ pc' = "handler" /\ m'.raised = "lost" /\ m'.settled
    /\ m'.got = m.got /\ m'.open = m.open /\ m'.exited = m.exited /\ m'.code = m.code
    /\ m'.resolved = m.resolved /\ m'.failure = m.failure /\ m'.cleaning = m.cleaning
    /\ m'.result = m.result

(* The same of an exception that reports the loss of the leader.           *)
LEMMA LostEffect ==
    ASSUME m \in Locals, Raise("lost")
    PROVE  \/ m.cleaning /\ pc' = "done" /\ m' = [m EXCEPT !.result = "error"]
           \/ ~m.cleaning /\ LostInHandler
<1>1. CASE m.cleaning
    BY <1>1 DEF Raise
<1>2. CASE ~m.cleaning
  <2>1. m' = [m EXCEPT !.raised = "lost", !.settled = TRUE] /\ pc' = "handler"
    BY <1>2 DEF Raise, Locals
  <2> QED BY <1>2, <2>1 DEF LostInHandler, Locals
<1> QED BY <1>1, <1>2

(* An exception keeps the types.                                           *)
LEMMA RaiseTyped ==
    ASSUME m \in Locals, NEW e \in Exceptions, Raise(e)
    PROVE  m' \in Locals /\ pc' \in {"done", "handler"}
<1>1. CASE m.cleaning
    BY <1>1 DEF Raise, Locals
<1>2. CASE ~m.cleaning
  <2>1. PICK b \in BOOLEAN : b = (m.settled \/ e = "lost")
    OBVIOUS
  <2>2. m' = [m EXCEPT !.raised = e, !.settled = b] /\ pc' = "handler"
    BY <1>2, <2>1 DEF Raise, Locals
  <2> QED BY <2>2 DEF Locals, Exceptions
<1> QED BY <1>1, <1>2

(* One read keeps the types, and what it changes.                          *)
LEMMA ReceivedTyped ==
    ASSUME m \in Locals
    PROVE  Received \in Locals
<1>1. CASE os.pipe # "empty"
  <2>1. m.got \in 0..MaxOut + 1 /\ MaxOut \in Nat
    BY CaptureAssumption DEF Locals
  <2>2. PICK n : n = IF m.got > MaxOut THEN m.got ELSE m.got + 1
    OBVIOUS
  <2>3. PICK f : f = IF m.got >= MaxOut /\ m.failure = None THEN "big" ELSE m.failure
    OBVIOUS
  <2>4. Received = [m EXCEPT !.got = n, !.failure = f]
    BY <1>1, <2>2, <2>3 DEF Received, Locals
  <2>5. n \in 0..MaxOut + 1 /\ f \in {None, "late", "big", "held"}
    BY <2>1, <2>2, <2>3 DEF Locals
  <2> QED BY <2>4, <2>5 DEF Locals
<1>2. CASE os.pipe = "empty"
  <2>1. PICK b \in BOOLEAN : b = WritersLeft
    BY DEF WritersLeft
  <2>2. Received = [m EXCEPT !.open = b]
    BY <1>2, <2>1 DEF Received
  <2> QED BY <2>1, <2>2 DEF Locals
<1> QED BY <1>1, <1>2

(* The script's variables keep their types.                                *)
LEMMA LocalsStep ==
    ASSUME os \in Machine, m \in Locals, [Next]_vars
    PROVE  m' \in Locals
<1>e. \A e \in Exceptions : Raise(e) => m' \in Locals
    BY RaiseTyped
<1>r. Received \in Locals
    BY ReceivedTyped
<1>o. os.status \in {None, "ok", "bad"}
    BY DEF Machine
<1> USE CaptureAssumption DEF None, Api, Locals, Exceptions,
          StopFor
<1>1. ASSUME NEW d \in Descendants, Fork(d) PROVE m' \in Locals
    BY <1>1 DEF Fork
<1>2. ASSUME NEW d \in Descendants, KinExits(d) PROVE m' \in Locals
    BY <1>2 DEF KinExits
<1>3. CASE LeaderExits
    BY <1>3 DEF LeaderExits
<1>4. CASE Write
    BY <1>4 DEF Write, Alive
<1>5. CASE StealExit
    BY <1>5 DEF StealExit
<1>6. CASE ReuseGroup
    BY <1>6 DEF ReuseGroup
<1>7. CASE DeadlinePasses
    BY <1>7 DEF DeadlinePasses
<1>8. CASE DrainEnds
    BY <1>8 DEF DrainEnds
<1>9. CASE Start
    BY <1>9 DEF Start
<1>10. CASE StartFails
    BY <1>10 DEF StartFails
<1>11. CASE EnterLoop
    BY <1>11 DEF EnterLoop
<1>12. CASE PipesMissing
    BY <1>12 DEF PipesMissing, StopFor
<1>13. CASE InputsRefused
    BY <1>13, <1>e DEF InputsRefused
<1>14. CASE BundleRefused
    BY <1>14 DEF BundleRefused
<1>15. CASE KillLeader
    BY <1>15 DEF KillLeader
<1>16. CASE ReapLeader
    BY <1>16 DEF ReapLeader
<1>17. CASE BundleWithoutPipes
    BY <1>17 DEF BundleWithoutPipes
<1>18. CASE CheckDeadline
    BY <1>18 DEF CheckDeadline, StopFor
<1>19. CASE Probe
  <2>1. PICK b \in BOOLEAN : b = (os.leader = "zombie")
    OBVIOUS
  <2>2. Raise("lost") \/ m' = [m EXCEPT !.exited = b]
    BY <1>19, <2>1, Zenon DEF Probe
  <2> QED BY <2>2, <1>e
<1>20. CASE ApiArbitrates
    BY <1>20 DEF ApiArbitrates, StopFor
<1>21. CASE InputsArbitrates
    BY <1>21 DEF InputsArbitrates
<1>22. CASE BundleArbitrates
    BY <1>22 DEF BundleArbitrates
<1>23. CASE Select
    BY <1>23, <1>r DEF Select
<1>24. CASE ProbeOwnership
    BY <1>24, <1>e DEF ProbeOwnership
<1>25. CASE ProbeGroup
  <2>1. PICK b \in BOOLEAN : b = (m.exited \/ os.leader = "zombie")
    OBVIOUS
  <2>2. Raise("lost") \/ m' = [m EXCEPT !.exited = b]
    BY <1>25, <2>1, Zenon DEF ProbeGroup
  <2> QED BY <2>2, <1>e
<1>26. CASE Terminate
  <2>1. m' = m
    BY <1>26, Zenon DEF Terminate
  <2> QED BY <2>1
<1>27. CASE HardKill
    BY <1>27 DEF HardKill, SignalGroup, Refused, Killed, Anchored
<1>28. CASE TerminateGroup
  <2>1. PICK b \in BOOLEAN : b = Refused
    BY DEF Refused
  <2>2. Raise("error") \/ m' = [m EXCEPT !.killError = b]
    BY <1>28, <2>1, Zenon DEF TerminateGroup
  <2> QED BY <2>2, <1>e
<1>29. CASE Resolve
    BY <1>29 DEF Resolve
<1>30. CASE Wait
    BY <1>30, <1>e DEF Wait
<1>31. CASE Reaped
    BY <1>31, <1>o DEF Reaped
<1>32. CASE WaitAgain
  <2>1. PICK code \in {None, "ok", "bad"} :
            \/ m' = [m EXCEPT !.code = code, !.result = "error"]
            \/ m' = [m EXCEPT !.code = code, !.raised = "interrupt"]
    BY <1>32, <1>o, Zenon DEF WaitAgain
  <2>2. CASE m' = [m EXCEPT !.code = code, !.result = "error"]
    BY <2>2
  <2>3. CASE m' = [m EXCEPT !.code = code, !.raised = "interrupt"]
    BY <2>3
  <2> QED BY <2>1, <2>2, <2>3
<1>33. CASE VerifyGroupGone
    BY <1>33, <1>e DEF VerifyGroupGone
<1>34. CASE Settle
  <2>1. \/ m' = m \/ m' = [m EXCEPT !.settled = TRUE]
        \/ m' = [m EXCEPT !.result = "error"]
    BY <1>34, Zenon DEF Settle
  <2> QED BY <2>1
<1>35. CASE Resume
    BY <1>35, <1>e DEF Resume
<1>36. CASE ApiDrains
  <2>1. PICK b \in BOOLEAN : b = (Received.open /\ ~clock.drained)
    OBVIOUS
  <2>2. m' = [Received EXCEPT !.open = b]
    BY <1>36, <2>1 DEF ApiDrains
  <2> QED BY <2>2, <1>r
<1>37. CASE DrainMore
    BY <1>37, <1>r DEF DrainMore
<1>38. CASE DrainDone
    BY <1>38 DEF DrainDone
<1>39. CASE Finish
    BY <1>39 DEF Finish, Outcome
<1>40. CASE ApiCleansUp
  <2>1. m' = [m EXCEPT !.cleaning = TRUE] \/ m' = [m EXCEPT !.result = "error"]
    BY <1>40, Zenon DEF ApiCleansUp, CleanUpIf
  <2> QED BY <2>1
<1>41. CASE CleanUp
  <2>1. m' = [m EXCEPT !.cleaning = TRUE] \/ m' = [m EXCEPT !.result = "error"]
    BY <1>41, Zenon DEF CleanUp, CleanUpIf
  <2> QED BY <2>1
<1>42. CASE Interrupt
    BY <1>42, <1>e DEF Interrupt
<1>43. CASE UNCHANGED vars
    BY <1>43 DEF vars
<1> QED BY <1>1, <1>2, <1>3, <1>4, <1>5, <1>6, <1>7, <1>8, <1>9, <1>10, <1>11, <1>12,
          <1>13, <1>14, <1>15, <1>16, <1>17, <1>18, <1>19, <1>20, <1>21, <1>22, <1>23,
          <1>24, <1>25, <1>26, <1>27, <1>28, <1>29, <1>30, <1>31, <1>32, <1>33, <1>34,
          <1>35, <1>36, <1>37, <1>38, <1>39, <1>40, <1>41, <1>42, <1>43 DEF Next,
          Environment, Program

(* The command's processes keep their types.                               *)
LEMMA MachineStep ==
    ASSUME os \in Machine, [Next]_vars
    PROVE  os' \in Machine
<1> USE DEF None, Gone, InGroup, Machine
<1>1. ASSUME NEW d \in Descendants, Fork(d) PROVE os' \in Machine
    BY <1>1 DEF Fork
<1>2. ASSUME NEW d \in Descendants, KinExits(d) PROVE os' \in Machine
    BY <1>2 DEF KinExits
<1>3. CASE LeaderExits
    BY <1>3 DEF LeaderExits
<1>4. CASE Write
    BY <1>4 DEF Write, Alive
<1>5. CASE StealExit
    BY <1>5 DEF StealExit
<1>6. CASE ReuseGroup
    BY <1>6 DEF ReuseGroup
<1>7. CASE DeadlinePasses
    BY <1>7 DEF DeadlinePasses
<1>8. CASE DrainEnds
    BY <1>8 DEF DrainEnds
<1>9. CASE Start
    BY <1>9 DEF Start
<1>10. CASE StartFails
    BY <1>10 DEF StartFails
<1>11. CASE EnterLoop
    BY <1>11 DEF EnterLoop
<1>12. CASE PipesMissing
    BY <1>12 DEF PipesMissing, StopFor
<1>13. CASE InputsRefused
    BY <1>13 DEF InputsRefused, Raise
<1>14. CASE BundleRefused
    BY <1>14 DEF BundleRefused
<1>15. CASE KillLeader
    BY <1>15 DEF KillLeader
<1>16. CASE ReapLeader
    BY <1>16 DEF ReapLeader
<1>17. CASE BundleWithoutPipes
    BY <1>17 DEF BundleWithoutPipes
<1>18. CASE CheckDeadline
    BY <1>18 DEF CheckDeadline, StopFor
<1>19. CASE Probe
    BY <1>19 DEF Probe, Raise
<1>20. CASE ApiArbitrates
    BY <1>20 DEF ApiArbitrates, StopFor
<1>21. CASE InputsArbitrates
    BY <1>21 DEF InputsArbitrates
<1>22. CASE BundleArbitrates
    BY <1>22 DEF BundleArbitrates
<1>23. CASE Select
    BY <1>23 DEF Select, Received, ReadPipe, WritersLeft
<1>24. CASE ProbeOwnership
    BY <1>24 DEF ProbeOwnership, Raise
<1>25. CASE ProbeGroup
    BY <1>25 DEF ProbeGroup, Raise
<1>26. CASE Terminate
  <2>1. CASE os' = os
    BY <2>1
  <2>2. ASSUME NEW obeys \in SUBSET InGroup, NEW obeyed \in BOOLEAN,
               os' = [os EXCEPT !.leader = IF obeyed /\ @ = "running" THEN "dying" ELSE @,
                                !.kin = [d \in Descendants |->
                                           IF d \in obeys THEN "dead" ELSE @[d]]]
        PROVE  os' \in Machine
    BY <2>2
  <2> QED BY <1>26, <2>1, <2>2 DEF Terminate
<1>27. CASE HardKill
    BY <1>27 DEF HardKill, SignalGroup, Refused, Killed, Anchored
<1>28. CASE TerminateGroup
    BY <1>28 DEF TerminateGroup, SignalGroup, Refused, Killed, Anchored, Raise
<1>29. CASE Resolve
    BY <1>29 DEF Resolve
<1>30. CASE Wait
    BY <1>30 DEF Wait, Raise
<1>31. CASE Reaped
    BY <1>31 DEF Reaped
<1>32. CASE WaitAgain
    BY <1>32 DEF WaitAgain
<1>33. CASE VerifyGroupGone
    BY <1>33 DEF VerifyGroupGone, Raise
<1>34. CASE Settle
    BY <1>34 DEF Settle
<1>35. CASE Resume
    BY <1>35 DEF Resume, Raise
<1>36. CASE ApiDrains
    BY <1>36 DEF ApiDrains, Received, ReadPipe, WritersLeft
<1>37. CASE DrainMore
    BY <1>37 DEF DrainMore, Received, ReadPipe, WritersLeft
<1>38. CASE DrainDone
    BY <1>38 DEF DrainDone
<1>39. CASE Finish
    BY <1>39 DEF Finish, Outcome
<1>40. CASE ApiCleansUp
    BY <1>40 DEF ApiCleansUp, CleanUpIf
<1>41. CASE CleanUp
    BY <1>41 DEF CleanUp, CleanUpIf
<1>42. CASE Interrupt
    BY <1>42 DEF Interrupt, Raise
<1>43. CASE UNCHANGED vars
    BY <1>43 DEF vars
<1> QED BY <1>1, <1>2, <1>3, <1>4, <1>5, <1>6, <1>7, <1>8, <1>9, <1>10, <1>11, <1>12,
          <1>13, <1>14, <1>15, <1>16, <1>17, <1>18, <1>19, <1>20, <1>21, <1>22, <1>23,
          <1>24, <1>25, <1>26, <1>27, <1>28, <1>29, <1>30, <1>31, <1>32, <1>33, <1>34,
          <1>35, <1>36, <1>37, <1>38, <1>39, <1>40, <1>41, <1>42, <1>43 DEF Next,
          Environment, Program

(* Time, history and location keep their types.                            *)
LEMMA RestStep ==
    ASSUME seen \in History, clock \in [late : BOOLEAN, drained : BOOLEAN],
           pc \in Locations, m \in Locals, [Next]_vars
    PROVE  /\ seen' \in History /\ clock' \in [late : BOOLEAN, drained : BOOLEAN]
           /\ pc' \in Locations
<1> USE CaptureAssumption DEF None, world, Api, History, Locations
<1>1. ASSUME NEW d \in Descendants, Fork(d)
      PROVE  /\ seen' \in History /\ clock' \in [late : BOOLEAN, drained : BOOLEAN]
             /\ pc' \in Locations
    BY <1>1 DEF Fork
<1>2. ASSUME NEW d \in Descendants, KinExits(d)
      PROVE  /\ seen' \in History /\ clock' \in [late : BOOLEAN, drained : BOOLEAN]
             /\ pc' \in Locations
    BY <1>2 DEF KinExits
<1>3. CASE LeaderExits
    BY <1>3 DEF LeaderExits
<1>4. CASE Write
    BY <1>4 DEF Write, Alive
<1>5. CASE StealExit
    BY <1>5 DEF StealExit
<1>6. CASE ReuseGroup
    BY <1>6 DEF ReuseGroup
<1>7. CASE DeadlinePasses
    BY <1>7 DEF DeadlinePasses
<1>8. CASE DrainEnds
    BY <1>8 DEF DrainEnds
<1>9. CASE Start
    BY <1>9 DEF Start
<1>10. CASE StartFails
    BY <1>10 DEF StartFails
<1>11. CASE EnterLoop
    BY <1>11 DEF EnterLoop
<1>12. CASE PipesMissing
    BY <1>12 DEF PipesMissing, StopFor
<1>13. CASE InputsRefused
    BY <1>13 DEF InputsRefused, Raise
<1>14. CASE BundleRefused
    BY <1>14 DEF BundleRefused
<1>15. CASE KillLeader
    BY <1>15 DEF KillLeader
<1>16. CASE ReapLeader
    BY <1>16 DEF ReapLeader
<1>17. CASE BundleWithoutPipes
    BY <1>17 DEF BundleWithoutPipes
<1>18. CASE CheckDeadline
    BY <1>18 DEF CheckDeadline, StopFor
<1>19. CASE Probe
    BY <1>19 DEF Probe, Raise
<1>20. CASE ApiArbitrates
    BY <1>20 DEF ApiArbitrates, StopFor
<1>21. CASE InputsArbitrates
    BY <1>21 DEF InputsArbitrates
<1>22. CASE BundleArbitrates
    BY <1>22 DEF BundleArbitrates
<1>23. CASE Select
    BY <1>23 DEF Select, Received, ReadPipe, WritersLeft
<1>24. CASE ProbeOwnership
    BY <1>24 DEF ProbeOwnership, Raise
<1>25. CASE ProbeGroup
    BY <1>25 DEF ProbeGroup, Raise
<1>26. CASE Terminate
    BY <1>26 DEF Terminate
<1>27. CASE HardKill
    BY <1>27 DEF HardKill, SignalGroup, Refused, Killed, Anchored
<1>28. CASE TerminateGroup
    BY <1>28 DEF TerminateGroup, SignalGroup, Refused, Killed, Anchored, Raise
<1>29. CASE Resolve
    BY <1>29 DEF Resolve
<1>30. CASE Wait
    BY <1>30 DEF Wait, Raise
<1>31. CASE Reaped
    BY <1>31 DEF Reaped
<1>32. CASE WaitAgain
    BY <1>32 DEF WaitAgain
<1>33. CASE VerifyGroupGone
    BY <1>33 DEF VerifyGroupGone, Raise
<1>34. CASE Settle
    BY <1>34 DEF Settle
<1>35. CASE Resume
    BY <1>35 DEF Resume, Raise
<1>36. CASE ApiDrains
    BY <1>36 DEF ApiDrains, Received, ReadPipe, WritersLeft
<1>37. CASE DrainMore
    BY <1>37 DEF DrainMore, Received, ReadPipe, WritersLeft
<1>38. CASE DrainDone
    BY <1>38 DEF DrainDone
<1>39. CASE Finish
    BY <1>39 DEF Finish, Outcome
<1>40. CASE ApiCleansUp
    BY <1>40 DEF ApiCleansUp, CleanUpIf
<1>41. CASE CleanUp
    BY <1>41 DEF CleanUp, CleanUpIf
<1>42. CASE Interrupt
  <2>1. seen' \in History
    BY <1>42 DEF Interrupt
  <2>2. pc' \in Locations /\ clock' = clock
    BY <1>42 DEF Interrupt, Raise
  <2> QED BY <2>1, <2>2
<1>43. CASE UNCHANGED vars
    BY <1>43 DEF vars
<1> QED BY <1>1, <1>2, <1>3, <1>4, <1>5, <1>6, <1>7, <1>8, <1>9, <1>10, <1>11, <1>12,
          <1>13, <1>14, <1>15, <1>16, <1>17, <1>18, <1>19, <1>20, <1>21, <1>22, <1>23,
          <1>24, <1>25, <1>26, <1>27, <1>28, <1>29, <1>30, <1>31, <1>32, <1>33, <1>34,
          <1>35, <1>36, <1>37, <1>38, <1>39, <1>40, <1>41, <1>42, <1>43 DEF Next,
          Environment, Program

-----------------------------------------------------------------------------
(* What the second try of an interrupted Popen.wait leaves.                *)
WaitedAgain ==
    /\ os'.leader = IF os.leader = "zombie" THEN "reaped" ELSE os.leader
    /\ os'.kin = os.kin /\ os'.status = os.status /\ os'.pipe = os.pipe
    /\ m'.got = m.got /\ m'.open = m.open /\ m'.exited = m.exited /\ m'.settled = m.settled
    /\ m'.resolved = m.resolved /\ m'.failure = m.failure /\ m'.cleaning = m.cleaning
    /\ m.code # None => m'.code = m.code
    /\ m.code = None /\ os.leader = "zombie" => m'.code = os.status
    /\ m.code = None /\ os.leader = "reaped" => m'.code = "ok"
    /\ os.leader \notin {"zombie", "reaped"} => m'.code = m.code
    /\ m.cleaning => pc' = "done" /\ m'.result = "error" /\ m'.raised = m.raised
    /\ ~m.cleaning => pc' = "handler" /\ m'.result = m.result /\ m'.raised = "interrupt"

(* Interrupted, Popen.wait notes what it finds of the leader.              *)
LEMMA WaitAgainEffect ==
    ASSUME os \in Machine, m \in Locals, WaitAgain
    PROVE  pc = "rewait" /\ UNCHANGED <<copy, host, clock, seen>> /\ WaitedAgain
<1>1. PICK code : code = CASE m.code # None -> m.code
                           [] m.code = None /\ os.leader = "zombie" -> os.status
                           [] m.code = None /\ os.leader = "reaped" -> "ok"
                           [] OTHER -> None
    OBVIOUS
<1>2. IF m.cleaning
      THEN pc' = "done" /\ m' = [m EXCEPT !.code = code, !.result = "error"]
      ELSE pc' = "handler" /\ m' = [m EXCEPT !.code = code, !.raised = "interrupt"]
    BY <1>1, Zenon DEF WaitAgain
<1>3. /\ m.code # None => code = m.code
      /\ m.code = None /\ os.leader = "zombie" => code = os.status
      /\ m.code = None /\ os.leader = "reaped" => code = "ok"
      /\ os.leader \notin {"zombie", "reaped"} => code = m.code
    BY <1>1 DEF None
<1>4. pc = "rewait" /\ UNCHANGED <<copy, host, clock, seen>>
    BY Zenon DEF WaitAgain, world
<1>5. /\ os'.leader = IF os.leader = "zombie" THEN "reaped" ELSE os.leader
      /\ os'.kin = os.kin /\ os'.status = os.status /\ os'.pipe = os.pipe
  <2>1. os' = [os EXCEPT !.leader = IF @ = "zombie" THEN "reaped" ELSE @]
    BY Zenon DEF WaitAgain
  <2> QED BY <2>1 DEF Machine
<1>6. m'.code = code
    BY <1>2 DEF Locals
<1>7. /\ m'.got = m.got /\ m'.open = m.open /\ m'.exited = m.exited /\ m'.settled = m.settled
      /\ m'.resolved = m.resolved /\ m'.failure = m.failure /\ m'.cleaning = m.cleaning
    BY <1>2 DEF Locals
<1>8. /\ m.cleaning => pc' = "done" /\ m'.result = "error" /\ m'.raised = m.raised
      /\ ~m.cleaning => pc' = "handler" /\ m'.result = m.result /\ m'.raised = "interrupt"
    BY <1>2 DEF Locals
<1> QED BY <1>3, <1>4, <1>5, <1>6, <1>7, <1>8 DEF WaitedAgain

(* SIGTERM ends processes and starts none.                                 *)
LEMMA TerminateEffect ==
    ASSUME os \in Machine, seen \in History, Terminate
    PROVE  /\ pc = "term" /\ pc' = "kill" /\ UNCHANGED <<copy, host, clock, m>>
           /\ seen'.interrupts = seen.interrupts /\ seen'.late = seen.late
           /\ os'.leader = os.leader \/ (os.leader = "running" /\ os'.leader = "dying")
           /\ \A d \in Descendants : os'.kin[d] \in {os.kin[d], "dead"}
           /\ os'.status = os.status /\ os'.pipe = os.pipe
<1>0. /\ pc = "term" /\ pc' = "kill" /\ UNCHANGED <<copy, host, clock, m>>
      /\ seen'.interrupts = seen.interrupts /\ seen'.late = seen.late
    BY DEF Terminate, world, History
<1>1. CASE os' = os
    BY <1>1, <1>0
<1>2. ASSUME NEW obeys \in SUBSET InGroup, NEW obeyed \in BOOLEAN,
             os' = [os EXCEPT !.leader = IF obeyed /\ @ = "running" THEN "dying" ELSE @,
                              !.kin = [d \in Descendants |->
                                         IF d \in obeys THEN "dead" ELSE @[d]]]
      PROVE  /\ os'.leader = os.leader \/ (os.leader = "running" /\ os'.leader = "dying")
             /\ \A d \in Descendants : os'.kin[d] \in {os.kin[d], "dead"}
             /\ os'.status = os.status /\ os'.pipe = os.pipe
    BY <1>2 DEF Machine
<1> QED BY <1>0, <1>1, <1>2 DEF Terminate

(* Nothing but the exit was noted.                                         *)
ExitNoted ==
    /\ m'.got = m.got /\ m'.open = m.open /\ m'.code = m.code /\ m'.raised = m.raised
    /\ m'.resolved = m.resolved /\ m'.failure = m.failure /\ m'.cleaning = m.cleaning
    /\ m'.result = m.result /\ m'.settled = m.settled

(* What a probe has found, and what it noted of the time.                  *)
LEMMA ProbeEffect ==
    ASSUME m \in Locals, seen \in History, Probe
    PROVE  /\ pc = "probe" /\ UNCHANGED <<copy, host, clock, os>>
           /\ \/ os.leader = "reaped" /\ Raise("lost") /\ seen' = seen
              \/ /\ os.leader # "reaped" /\ pc' = "arbitrate"
                 /\ seen'.interrupts = seen.interrupts /\ seen'.stuck = seen.stuck
                 /\ seen'.late => seen.late \/ (clock.late /\ os.leader = "zombie")
                 /\ m'.exited => os.leader = "zombie"
                 /\ ExitNoted
<1>1. pc = "probe" /\ UNCHANGED <<copy, host, clock, os>>
    BY DEF Probe, world
<1>2. CASE os.leader = "reaped"
    BY <1>1, <1>2, Zenon DEF Probe
<1>3. CASE os.leader # "reaped"
  <2>1. PICK b \in BOOLEAN : b <=> os.leader = "zombie"
    OBVIOUS
  <2>2. m' = [m EXCEPT !.exited = b] /\ pc' = "arbitrate"
    BY <1>3, <2>1 DEF Probe
  <2>3. PICK l \in BOOLEAN : l <=> seen.late \/ (clock.late /\ os.leader = "zombie")
    OBVIOUS
  <2>4. seen' = [seen EXCEPT !.late = l]
    BY <1>3, <2>3 DEF Probe, History
  <2>5. /\ seen'.interrupts = seen.interrupts /\ seen'.stuck = seen.stuck
        /\ seen'.late => seen.late \/ (clock.late /\ os.leader = "zombie")
    BY <2>3, <2>4 DEF History
  <2>6. ExitNoted /\ m'.exited = b
    BY <2>2 DEF ExitNoted, Locals
  <2> QED BY <1>1, <1>3, <2>1, <2>2, <2>5, <2>6
<1> QED BY <1>2, <1>3

(* The same of the probe before a signal.                                  *)
LEMMA ProbeGroupEffect ==
    ASSUME m \in Locals, ProbeGroup
    PROVE  /\ pc = "stop" /\ ~Api /\ UNCHANGED <<copy, host, clock, os, seen>>
           /\ \/ ~m.exited /\ os.leader = "reaped" /\ Raise("lost")
              \/ /\ m.exited \/ os.leader # "reaped"
                 /\ pc' = "kill"
                 /\ m'.exited => m.exited \/ os.leader = "zombie"
                 /\ ExitNoted
<1>1. pc = "stop" /\ ~Api /\ UNCHANGED <<copy, host, clock, os, seen>>
    BY DEF ProbeGroup, world
<1>2. CASE ~m.exited /\ os.leader = "reaped"
    BY <1>1, <1>2, Zenon DEF ProbeGroup
<1>3. CASE m.exited \/ os.leader # "reaped"
  <2>1. PICK b \in BOOLEAN : b <=> m.exited \/ os.leader = "zombie"
    OBVIOUS
  <2>2. m' = [m EXCEPT !.exited = b] /\ pc' = "kill"
    BY <1>3, <2>1 DEF ProbeGroup, Locals
  <2>3. ExitNoted /\ m'.exited = b
    BY <2>2 DEF ExitNoted, Locals
  <2> QED BY <1>1, <1>3, <2>1, <2>2, <2>3
<1> QED BY <1>2, <1>3

(* Every step keeps what the variables say of the location.                *)
LEMMA ControlStep ==
    ASSUME TypeOK, [Next]_vars, ControlInv, QuietInv
    PROVE  ControlInv'
<1>e. \A e \in {"error", "interrupt"} : Raise(e) =>
         \/ m.cleaning /\ pc' = "done" /\ m' = [m EXCEPT !.result = "error"]
         \/ ~m.cleaning /\ pc' = "handler" /\ m' = [m EXCEPT !.raised = e]
    BY TypesNamed, RaiseEffect
<1>l. Raise("lost") =>
         \/ m.cleaning /\ pc' = "done" /\ m' = [m EXCEPT !.result = "error"]
         \/ ~m.cleaning /\ LostInHandler
    BY TypesNamed, LostEffect
<1>t. Terminate =>
        /\ pc = "term" /\ pc' = "kill" /\ UNCHANGED <<copy, host, clock, m>>
        /\ seen'.interrupts = seen.interrupts /\ seen'.late = seen.late
        /\ os'.leader = os.leader \/ (os.leader = "running" /\ os'.leader = "dying")
        /\ \A d \in Descendants : os'.kin[d] \in {os.kin[d], "dead"}
        /\ os'.status = os.status /\ os'.pipe = os.pipe
    BY TypesNamed, TerminateEffect
<1>w. WaitAgain => pc = "rewait" /\ UNCHANGED <<copy, host, clock, seen>> /\ WaitedAgain
    BY TypesNamed, WaitAgainEffect
<1>p. Probe =>
        /\ pc = "probe" /\ UNCHANGED <<copy, host, clock, os>>
        /\ \/ os.leader = "reaped" /\ Raise("lost") /\ seen' = seen
           \/ /\ os.leader # "reaped" /\ pc' = "arbitrate"
              /\ seen'.interrupts = seen.interrupts /\ seen'.stuck = seen.stuck
              /\ seen'.late => seen.late \/ (clock.late /\ os.leader = "zombie")
              /\ m'.exited => os.leader = "zombie"
              /\ ExitNoted
    BY TypesNamed, ProbeEffect
<1>g. ProbeGroup =>
        /\ pc = "stop" /\ ~Api /\ UNCHANGED <<copy, host, clock, os, seen>>
        /\ \/ ~m.exited /\ os.leader = "reaped" /\ Raise("lost")
           \/ /\ m.exited \/ os.leader # "reaped"
              /\ pc' = "kill"
              /\ m'.exited => m.exited \/ os.leader = "zombie"
              /\ ExitNoted
    BY TypesNamed, ProbeGroupEffect
<1> USE CaptureAssumption DEF None, Gone, world, Api, InGroup, Exceptions, TypeOK, ControlInv,
          QuietInv, Starting, Looping, Ending, Killing, Ended
<1>1. ASSUME NEW d \in Descendants, Fork(d) PROVE ControlInv'
    BY <1>1 DEF Fork
<1>2. ASSUME NEW d \in Descendants, KinExits(d) PROVE ControlInv'
    BY <1>2 DEF KinExits
<1>3. CASE LeaderExits
    BY <1>3 DEF LeaderExits
<1>4. CASE Write
    BY <1>4 DEF Write, Alive
<1>5. CASE StealExit
    BY <1>5 DEF StealExit
<1>6. CASE ReuseGroup
    BY <1>6 DEF ReuseGroup
<1>7. CASE DeadlinePasses
    BY <1>7 DEF DeadlinePasses
<1>8. CASE DrainEnds
    BY <1>8 DEF DrainEnds
<1>9. CASE Start
    BY <1>9 DEF Start
<1>10. CASE StartFails
    BY <1>10 DEF StartFails
<1>11. CASE EnterLoop
    BY <1>11 DEF EnterLoop
<1>12. CASE PipesMissing
    BY <1>12 DEF PipesMissing, StopFor
<1>13. CASE InputsRefused
    BY <1>13, <1>e DEF InputsRefused
<1>14. CASE BundleRefused
    BY <1>14 DEF BundleRefused
<1>15. CASE KillLeader
    BY <1>15 DEF KillLeader
<1>16. CASE ReapLeader
    BY <1>16 DEF ReapLeader
<1>17. CASE BundleWithoutPipes
    BY <1>17 DEF BundleWithoutPipes
<1>18. CASE CheckDeadline
    BY <1>18 DEF CheckDeadline, StopFor
<1>19. CASE Probe
    BY <1>19, <1>p, <1>l DEF ExitNoted, LostInHandler
<1>20. CASE ApiArbitrates
    BY <1>20 DEF ApiArbitrates, StopFor
<1>21. CASE InputsArbitrates
    BY <1>21 DEF InputsArbitrates
<1>22. CASE BundleArbitrates
    BY <1>22 DEF BundleArbitrates
<1>23. CASE Select
    BY <1>23 DEF Select, Received, ReadPipe, WritersLeft
<1>24. CASE ProbeOwnership
    BY <1>24, <1>l DEF ProbeOwnership, LostInHandler
<1>25. CASE ProbeGroup
    BY <1>25, <1>g, <1>l DEF ExitNoted, LostInHandler
<1>26. CASE Terminate
    BY <1>26, <1>t
<1>27. CASE HardKill
    BY <1>27 DEF HardKill, SignalGroup, Refused, Killed, Anchored
<1>28. CASE TerminateGroup
    BY <1>28, <1>e DEF TerminateGroup, SignalGroup, Refused, Killed, Anchored
<1>29. CASE Resolve
    BY <1>29 DEF Resolve
<1>30. CASE Wait
    BY <1>30, <1>e DEF Wait
<1>31. CASE Reaped
    BY <1>31 DEF Reaped
<1>32. CASE WaitAgain
    BY <1>32, <1>w DEF WaitedAgain
<1>33. CASE VerifyGroupGone
    BY <1>33, <1>e DEF VerifyGroupGone
<1>34. CASE Settle
    BY <1>34 DEF Settle
<1>35. CASE Resume
    BY <1>35, <1>e DEF Resume
<1>36. CASE ApiDrains
    BY <1>36 DEF ApiDrains, Received, ReadPipe, WritersLeft
<1>37. CASE DrainMore
    BY <1>37 DEF DrainMore, Received, ReadPipe, WritersLeft
<1>38. CASE DrainDone
    BY <1>38 DEF DrainDone
<1>39. CASE Finish
    BY <1>39 DEF Finish, Outcome
<1>40. CASE ApiCleansUp
    BY <1>40 DEF ApiCleansUp, CleanUpIf
<1>41. CASE CleanUp
    BY <1>41 DEF CleanUp, CleanUpIf
<1>42. CASE Interrupt
    BY <1>42, <1>e DEF Interrupt
<1>43. CASE UNCHANGED vars
    BY <1>43 DEF vars
<1> QED BY <1>1, <1>2, <1>3, <1>4, <1>5, <1>6, <1>7, <1>8, <1>9, <1>10, <1>11, <1>12,
          <1>13, <1>14, <1>15, <1>16, <1>17, <1>18, <1>19, <1>20, <1>21, <1>22, <1>23,
          <1>24, <1>25, <1>26, <1>27, <1>28, <1>29, <1>30, <1>31, <1>32, <1>33, <1>34,
          <1>35, <1>36, <1>37, <1>38, <1>39, <1>40, <1>41, <1>42, <1>43 DEF Next,
          Environment, Program

(* Every step that reaps the leader or goes on from the kill is quiet.     *)
LEMMA QuietStep ==
    ASSUME TypeOK, [Next]_vars, ControlInv, QuietInv
    PROVE  QuietInv'
<1>e. \A e \in {"error", "interrupt"} : Raise(e) =>
         \/ m.cleaning /\ pc' = "done" /\ m' = [m EXCEPT !.result = "error"]
         \/ ~m.cleaning /\ pc' = "handler" /\ m' = [m EXCEPT !.raised = e]
    BY TypesNamed, RaiseEffect
<1>l. Raise("lost") =>
         \/ m.cleaning /\ pc' = "done" /\ m' = [m EXCEPT !.result = "error"]
         \/ ~m.cleaning /\ LostInHandler
    BY TypesNamed, LostEffect
<1>t. Terminate =>
        /\ pc = "term" /\ pc' = "kill" /\ UNCHANGED <<copy, host, clock, m>>
        /\ seen'.interrupts = seen.interrupts /\ seen'.late = seen.late
        /\ os'.leader = os.leader \/ (os.leader = "running" /\ os'.leader = "dying")
        /\ \A d \in Descendants : os'.kin[d] \in {os.kin[d], "dead"}
        /\ os'.status = os.status /\ os'.pipe = os.pipe
    BY TypesNamed, TerminateEffect
<1>w. WaitAgain => pc = "rewait" /\ UNCHANGED <<copy, host, clock, seen>> /\ WaitedAgain
    BY TypesNamed, WaitAgainEffect
<1>p. Probe =>
        /\ pc = "probe" /\ UNCHANGED <<copy, host, clock, os>>
        /\ \/ os.leader = "reaped" /\ Raise("lost") /\ seen' = seen
           \/ /\ os.leader # "reaped" /\ pc' = "arbitrate"
              /\ seen'.interrupts = seen.interrupts /\ seen'.stuck = seen.stuck
              /\ seen'.late => seen.late \/ (clock.late /\ os.leader = "zombie")
              /\ m'.exited => os.leader = "zombie"
              /\ ExitNoted
    BY TypesNamed, ProbeEffect
<1>g. ProbeGroup =>
        /\ pc = "stop" /\ ~Api /\ UNCHANGED <<copy, host, clock, os, seen>>
        /\ \/ ~m.exited /\ os.leader = "reaped" /\ Raise("lost")
           \/ /\ m.exited \/ os.leader # "reaped"
              /\ pc' = "kill"
              /\ m'.exited => m.exited \/ os.leader = "zombie"
              /\ ExitNoted
    BY TypesNamed, ProbeGroupEffect
<1> USE CaptureAssumption DEF None, Gone, world, Api, InGroup, Exceptions, TypeOK, ControlInv,
          QuietInv, Quiet, Starting, Ending, Killing, Ended
<1>1. ASSUME NEW d \in Descendants, Fork(d) PROVE QuietInv'
    BY <1>1 DEF Fork
<1>2. ASSUME NEW d \in Descendants, KinExits(d) PROVE QuietInv'
    BY <1>2 DEF KinExits
<1>3. CASE LeaderExits
    BY <1>3 DEF LeaderExits
<1>4. CASE Write
    BY <1>4 DEF Write, Alive
<1>5. CASE StealExit
    BY <1>5 DEF StealExit
<1>6. CASE ReuseGroup
    BY <1>6 DEF ReuseGroup
<1>7. CASE DeadlinePasses
    BY <1>7 DEF DeadlinePasses
<1>8. CASE DrainEnds
    BY <1>8 DEF DrainEnds
<1>9. CASE Start
    BY <1>9 DEF Start
<1>10. CASE StartFails
    BY <1>10 DEF StartFails
<1>11. CASE EnterLoop
    BY <1>11 DEF EnterLoop
<1>12. CASE PipesMissing
    BY <1>12 DEF PipesMissing, StopFor
<1>13. CASE InputsRefused
    BY <1>13, <1>e DEF InputsRefused
<1>14. CASE BundleRefused
    BY <1>14 DEF BundleRefused
<1>15. CASE KillLeader
    BY <1>15 DEF KillLeader
<1>16. CASE ReapLeader
    BY <1>16 DEF ReapLeader
<1>17. CASE BundleWithoutPipes
    BY <1>17 DEF BundleWithoutPipes
<1>18. CASE CheckDeadline
    BY <1>18 DEF CheckDeadline, StopFor
<1>19. CASE Probe
    BY <1>19, <1>p, <1>l DEF ExitNoted, LostInHandler
<1>20. CASE ApiArbitrates
    BY <1>20 DEF ApiArbitrates, StopFor
<1>21. CASE InputsArbitrates
    BY <1>21 DEF InputsArbitrates
<1>22. CASE BundleArbitrates
    BY <1>22 DEF BundleArbitrates
<1>23. CASE Select
    BY <1>23 DEF Select, Received, ReadPipe, WritersLeft
<1>24. CASE ProbeOwnership
    BY <1>24, <1>l DEF ProbeOwnership, LostInHandler
<1>25. CASE ProbeGroup
    BY <1>25, <1>g, <1>l DEF ExitNoted, LostInHandler
<1>26. CASE Terminate
    BY <1>26, <1>t
<1>27. CASE HardKill
    BY <1>27 DEF HardKill, SignalGroup, Refused, Killed, Anchored
<1>28. CASE TerminateGroup
    BY <1>28, <1>e DEF TerminateGroup, SignalGroup, Refused, Killed, Anchored
<1>29. CASE Resolve
    BY <1>29 DEF Resolve
<1>30. CASE Wait
    BY <1>30, <1>e DEF Wait
<1>31. CASE Reaped
    BY <1>31 DEF Reaped
<1>32. CASE WaitAgain
    BY <1>32, <1>w DEF WaitedAgain
<1>33. CASE VerifyGroupGone
    BY <1>33, <1>e DEF VerifyGroupGone
<1>34. CASE Settle
    BY <1>34 DEF Settle
<1>35. CASE Resume
    BY <1>35, <1>e DEF Resume
<1>36. CASE ApiDrains
    BY <1>36 DEF ApiDrains, Received, ReadPipe, WritersLeft
<1>37. CASE DrainMore
    BY <1>37 DEF DrainMore, Received, ReadPipe, WritersLeft
<1>38. CASE DrainDone
    BY <1>38 DEF DrainDone
<1>39. CASE Finish
    BY <1>39 DEF Finish, Outcome
<1>40. CASE ApiCleansUp
    BY <1>40 DEF ApiCleansUp, CleanUpIf
<1>41. CASE CleanUp
    BY <1>41 DEF CleanUp, CleanUpIf
<1>42. CASE Interrupt
    BY <1>42, <1>e DEF Interrupt
<1>43. CASE UNCHANGED vars
    BY <1>43 DEF vars
<1> QED BY <1>1, <1>2, <1>3, <1>4, <1>5, <1>6, <1>7, <1>8, <1>9, <1>10, <1>11, <1>12,
          <1>13, <1>14, <1>15, <1>16, <1>17, <1>18, <1>19, <1>20, <1>21, <1>22, <1>23,
          <1>24, <1>25, <1>26, <1>27, <1>28, <1>29, <1>30, <1>31, <1>32, <1>33, <1>34,
          <1>35, <1>36, <1>37, <1>38, <1>39, <1>40, <1>41, <1>42, <1>43 DEF Next,
          Environment, Program

(* Every step keeps what is known of a reaped leader.                      *)
LEMMA ReapStep ==
    ASSUME TypeOK, [Next]_vars, ControlInv, QuietInv, ReapInv
    PROVE  ReapInv'
<1>e. \A e \in {"error", "interrupt"} : Raise(e) =>
         \/ m.cleaning /\ pc' = "done" /\ m' = [m EXCEPT !.result = "error"]
         \/ ~m.cleaning /\ pc' = "handler" /\ m' = [m EXCEPT !.raised = e]
    BY TypesNamed, RaiseEffect
<1>l. Raise("lost") =>
         \/ m.cleaning /\ pc' = "done" /\ m' = [m EXCEPT !.result = "error"]
         \/ ~m.cleaning /\ LostInHandler
    BY TypesNamed, LostEffect
<1>t. Terminate =>
        /\ pc = "term" /\ pc' = "kill" /\ UNCHANGED <<copy, host, clock, m>>
        /\ seen'.interrupts = seen.interrupts /\ seen'.late = seen.late
        /\ os'.leader = os.leader \/ (os.leader = "running" /\ os'.leader = "dying")
        /\ \A d \in Descendants : os'.kin[d] \in {os.kin[d], "dead"}
        /\ os'.status = os.status /\ os'.pipe = os.pipe
    BY TypesNamed, TerminateEffect
<1>w. WaitAgain => pc = "rewait" /\ UNCHANGED <<copy, host, clock, seen>> /\ WaitedAgain
    BY TypesNamed, WaitAgainEffect
<1>p. Probe =>
        /\ pc = "probe" /\ UNCHANGED <<copy, host, clock, os>>
        /\ \/ os.leader = "reaped" /\ Raise("lost") /\ seen' = seen
           \/ /\ os.leader # "reaped" /\ pc' = "arbitrate"
              /\ seen'.interrupts = seen.interrupts /\ seen'.stuck = seen.stuck
              /\ seen'.late => seen.late \/ (clock.late /\ os.leader = "zombie")
              /\ m'.exited => os.leader = "zombie"
              /\ ExitNoted
    BY TypesNamed, ProbeEffect
<1>g. ProbeGroup =>
        /\ pc = "stop" /\ ~Api /\ UNCHANGED <<copy, host, clock, os, seen>>
        /\ \/ ~m.exited /\ os.leader = "reaped" /\ Raise("lost")
           \/ /\ m.exited \/ os.leader # "reaped"
              /\ pc' = "kill"
              /\ m'.exited => m.exited \/ os.leader = "zombie"
              /\ ExitNoted
    BY TypesNamed, ProbeGroupEffect
<1> USE CaptureAssumption DEF None, Gone, world, Api, InGroup, Exceptions, TypeOK, ControlInv,
          QuietInv, ReapInv, Starting, Looping, Ending, Killing, Ended
<1>1. ASSUME NEW d \in Descendants, Fork(d) PROVE ReapInv'
    BY <1>1 DEF Fork
<1>2. ASSUME NEW d \in Descendants, KinExits(d) PROVE ReapInv'
    BY <1>2 DEF KinExits
<1>3. CASE LeaderExits
    BY <1>3 DEF LeaderExits
<1>4. CASE Write
    BY <1>4 DEF Write, Alive
<1>5. CASE StealExit
    BY <1>5 DEF StealExit
<1>6. CASE ReuseGroup
    BY <1>6 DEF ReuseGroup
<1>7. CASE DeadlinePasses
    BY <1>7 DEF DeadlinePasses
<1>8. CASE DrainEnds
    BY <1>8 DEF DrainEnds
<1>9. CASE Start
    BY <1>9 DEF Start
<1>10. CASE StartFails
    BY <1>10 DEF StartFails
<1>11. CASE EnterLoop
    BY <1>11 DEF EnterLoop
<1>12. CASE PipesMissing
    BY <1>12 DEF PipesMissing, StopFor
<1>13. CASE InputsRefused
    BY <1>13, <1>e DEF InputsRefused
<1>14. CASE BundleRefused
    BY <1>14 DEF BundleRefused
<1>15. CASE KillLeader
    BY <1>15 DEF KillLeader
<1>16. CASE ReapLeader
    BY <1>16 DEF ReapLeader
<1>17. CASE BundleWithoutPipes
    BY <1>17 DEF BundleWithoutPipes
<1>18. CASE CheckDeadline
    BY <1>18 DEF CheckDeadline, StopFor
<1>19. CASE Probe
    BY <1>19, <1>p, <1>l DEF ExitNoted, LostInHandler
<1>20. CASE ApiArbitrates
    BY <1>20 DEF ApiArbitrates, StopFor
<1>21. CASE InputsArbitrates
    BY <1>21 DEF InputsArbitrates
<1>22. CASE BundleArbitrates
    BY <1>22 DEF BundleArbitrates
<1>23. CASE Select
    BY <1>23 DEF Select, Received, ReadPipe, WritersLeft
<1>24. CASE ProbeOwnership
    BY <1>24, <1>l DEF ProbeOwnership, LostInHandler
<1>25. CASE ProbeGroup
    BY <1>25, <1>g, <1>l DEF ExitNoted, LostInHandler
<1>26. CASE Terminate
    BY <1>26, <1>t
<1>27. CASE HardKill
    BY <1>27 DEF HardKill, SignalGroup, Refused, Killed, Anchored
<1>28. CASE TerminateGroup
    BY <1>28, <1>e DEF TerminateGroup, SignalGroup, Refused, Killed, Anchored
<1>29. CASE Resolve
    BY <1>29 DEF Resolve
<1>30. CASE Wait
    BY <1>30, <1>e DEF Wait
<1>31. CASE Reaped
    BY <1>31 DEF Reaped
<1>32. CASE WaitAgain
    BY <1>32, <1>w DEF WaitedAgain
<1>33. CASE VerifyGroupGone
    BY <1>33, <1>e DEF VerifyGroupGone
<1>34. CASE Settle
    BY <1>34 DEF Settle
<1>35. CASE Resume
    BY <1>35, <1>e DEF Resume
<1>36. CASE ApiDrains
    BY <1>36 DEF ApiDrains, Received, ReadPipe, WritersLeft
<1>37. CASE DrainMore
    BY <1>37 DEF DrainMore, Received, ReadPipe, WritersLeft
<1>38. CASE DrainDone
    BY <1>38 DEF DrainDone
<1>39. CASE Finish
    BY <1>39 DEF Finish, Outcome
<1>40. CASE ApiCleansUp
    BY <1>40 DEF ApiCleansUp, CleanUpIf
<1>41. CASE CleanUp
    BY <1>41 DEF CleanUp, CleanUpIf
<1>42. CASE Interrupt
    BY <1>42, <1>e DEF Interrupt
<1>43. CASE UNCHANGED vars
    BY <1>43 DEF vars
<1> QED BY <1>1, <1>2, <1>3, <1>4, <1>5, <1>6, <1>7, <1>8, <1>9, <1>10, <1>11, <1>12,
          <1>13, <1>14, <1>15, <1>16, <1>17, <1>18, <1>19, <1>20, <1>21, <1>22, <1>23,
          <1>24, <1>25, <1>26, <1>27, <1>28, <1>29, <1>30, <1>31, <1>32, <1>33, <1>34,
          <1>35, <1>36, <1>37, <1>38, <1>39, <1>40, <1>41, <1>42, <1>43 DEF Next,
          Environment, Program

(* Every step keeps what Finish relies on.                                 *)
LEMMA AcceptStep ==
    ASSUME TypeOK, [Next]_vars, ControlInv, QuietInv, AcceptInv
    PROVE  AcceptInv'
<1>e. \A e \in {"error", "interrupt"} : Raise(e) =>
         \/ m.cleaning /\ pc' = "done" /\ m' = [m EXCEPT !.result = "error"]
         \/ ~m.cleaning /\ pc' = "handler" /\ m' = [m EXCEPT !.raised = e]
    BY TypesNamed, RaiseEffect
<1>l. Raise("lost") =>
         \/ m.cleaning /\ pc' = "done" /\ m' = [m EXCEPT !.result = "error"]
         \/ ~m.cleaning /\ LostInHandler
    BY TypesNamed, LostEffect
<1>t. Terminate =>
        /\ pc = "term" /\ pc' = "kill" /\ UNCHANGED <<copy, host, clock, m>>
        /\ seen'.interrupts = seen.interrupts /\ seen'.late = seen.late
        /\ os'.leader = os.leader \/ (os.leader = "running" /\ os'.leader = "dying")
        /\ \A d \in Descendants : os'.kin[d] \in {os.kin[d], "dead"}
        /\ os'.status = os.status /\ os'.pipe = os.pipe
    BY TypesNamed, TerminateEffect
<1>w. WaitAgain => pc = "rewait" /\ UNCHANGED <<copy, host, clock, seen>> /\ WaitedAgain
    BY TypesNamed, WaitAgainEffect
<1>p. Probe =>
        /\ pc = "probe" /\ UNCHANGED <<copy, host, clock, os>>
        /\ \/ os.leader = "reaped" /\ Raise("lost") /\ seen' = seen
           \/ /\ os.leader # "reaped" /\ pc' = "arbitrate"
              /\ seen'.interrupts = seen.interrupts /\ seen'.stuck = seen.stuck
              /\ seen'.late => seen.late \/ (clock.late /\ os.leader = "zombie")
              /\ m'.exited => os.leader = "zombie"
              /\ ExitNoted
    BY TypesNamed, ProbeEffect
<1>g. ProbeGroup =>
        /\ pc = "stop" /\ ~Api /\ UNCHANGED <<copy, host, clock, os, seen>>
        /\ \/ ~m.exited /\ os.leader = "reaped" /\ Raise("lost")
           \/ /\ m.exited \/ os.leader # "reaped"
              /\ pc' = "kill"
              /\ m'.exited => m.exited \/ os.leader = "zombie"
              /\ ExitNoted
    BY TypesNamed, ProbeGroupEffect
<1> USE CaptureAssumption DEF None, Gone, world, Api, InGroup, Exceptions, TypeOK, ControlInv,
          QuietInv, AcceptInv, Starting, Looping, Ending, Killing, Ended
<1>1. ASSUME NEW d \in Descendants, Fork(d) PROVE AcceptInv'
    BY <1>1 DEF Fork
<1>2. ASSUME NEW d \in Descendants, KinExits(d) PROVE AcceptInv'
    BY <1>2 DEF KinExits
<1>3. CASE LeaderExits
    BY <1>3 DEF LeaderExits
<1>4. CASE Write
    BY <1>4 DEF Write, Alive
<1>5. CASE StealExit
    BY <1>5 DEF StealExit
<1>6. CASE ReuseGroup
    BY <1>6 DEF ReuseGroup
<1>7. CASE DeadlinePasses
    BY <1>7 DEF DeadlinePasses
<1>8. CASE DrainEnds
    BY <1>8 DEF DrainEnds
<1>9. CASE Start
    BY <1>9 DEF Start
<1>10. CASE StartFails
    BY <1>10 DEF StartFails
<1>11. CASE EnterLoop
    BY <1>11 DEF EnterLoop
<1>12. CASE PipesMissing
    BY <1>12 DEF PipesMissing, StopFor
<1>13. CASE InputsRefused
    BY <1>13, <1>e DEF InputsRefused
<1>14. CASE BundleRefused
    BY <1>14 DEF BundleRefused
<1>15. CASE KillLeader
    BY <1>15 DEF KillLeader
<1>16. CASE ReapLeader
    BY <1>16 DEF ReapLeader
<1>17. CASE BundleWithoutPipes
    BY <1>17 DEF BundleWithoutPipes
<1>18. CASE CheckDeadline
    BY <1>18 DEF CheckDeadline, StopFor
<1>19. CASE Probe
    BY <1>19, <1>p, <1>l DEF ExitNoted, LostInHandler
<1>20. CASE ApiArbitrates
    BY <1>20 DEF ApiArbitrates, StopFor
<1>21. CASE InputsArbitrates
    BY <1>21 DEF InputsArbitrates
<1>22. CASE BundleArbitrates
    BY <1>22 DEF BundleArbitrates
<1>23. CASE Select
    BY <1>23 DEF Select, Received, ReadPipe, WritersLeft
<1>24. CASE ProbeOwnership
    BY <1>24, <1>l DEF ProbeOwnership, LostInHandler
<1>25. CASE ProbeGroup
    BY <1>25, <1>g, <1>l DEF ExitNoted, LostInHandler
<1>26. CASE Terminate
    BY <1>26, <1>t
<1>27. CASE HardKill
    BY <1>27 DEF HardKill, SignalGroup, Refused, Killed, Anchored
<1>28. CASE TerminateGroup
    BY <1>28, <1>e DEF TerminateGroup, SignalGroup, Refused, Killed, Anchored
<1>29. CASE Resolve
    BY <1>29 DEF Resolve
<1>30. CASE Wait
    BY <1>30, <1>e DEF Wait
<1>31. CASE Reaped
    BY <1>31 DEF Reaped
<1>32. CASE WaitAgain
    BY <1>32, <1>w DEF WaitedAgain
<1>33. CASE VerifyGroupGone
    BY <1>33, <1>e DEF VerifyGroupGone
<1>34. CASE Settle
    BY <1>34 DEF Settle
<1>35. CASE Resume
    BY <1>35, <1>e DEF Resume
<1>36. CASE ApiDrains
    BY <1>36 DEF ApiDrains, Received, ReadPipe, WritersLeft
<1>37. CASE DrainMore
    BY <1>37 DEF DrainMore, Received, ReadPipe, WritersLeft
<1>38. CASE DrainDone
    BY <1>38 DEF DrainDone
<1>39. CASE Finish
    BY <1>39 DEF Finish, Outcome
<1>40. CASE ApiCleansUp
    BY <1>40 DEF ApiCleansUp, CleanUpIf
<1>41. CASE CleanUp
    BY <1>41 DEF CleanUp, CleanUpIf
<1>42. CASE Interrupt
    BY <1>42, <1>e DEF Interrupt
<1>43. CASE UNCHANGED vars
    BY <1>43 DEF vars
<1> QED BY <1>1, <1>2, <1>3, <1>4, <1>5, <1>6, <1>7, <1>8, <1>9, <1>10, <1>11, <1>12,
          <1>13, <1>14, <1>15, <1>16, <1>17, <1>18, <1>19, <1>20, <1>21, <1>22, <1>23,
          <1>24, <1>25, <1>26, <1>27, <1>28, <1>29, <1>30, <1>31, <1>32, <1>33, <1>34,
          <1>35, <1>36, <1>37, <1>38, <1>39, <1>40, <1>41, <1>42, <1>43 DEF Next,
          Environment, Program

(* Only Finish accepts.                                                    *)
LEMMA AcceptedStep ==
    ASSUME TypeOK, [Next]_vars, ControlInv, QuietInv, ReapInv, AcceptInv, AcceptedIsSound
    PROVE  AcceptedIsSound'
<1>e. \A e \in {"error", "interrupt"} : Raise(e) =>
         \/ m.cleaning /\ pc' = "done" /\ m' = [m EXCEPT !.result = "error"]
         \/ ~m.cleaning /\ pc' = "handler" /\ m' = [m EXCEPT !.raised = e]
    BY TypesNamed, RaiseEffect
<1>l. Raise("lost") =>
         \/ m.cleaning /\ pc' = "done" /\ m' = [m EXCEPT !.result = "error"]
         \/ ~m.cleaning /\ LostInHandler
    BY TypesNamed, LostEffect
<1>t. Terminate =>
        /\ pc = "term" /\ pc' = "kill" /\ UNCHANGED <<copy, host, clock, m>>
        /\ seen'.interrupts = seen.interrupts /\ seen'.late = seen.late
        /\ os'.leader = os.leader \/ (os.leader = "running" /\ os'.leader = "dying")
        /\ \A d \in Descendants : os'.kin[d] \in {os.kin[d], "dead"}
        /\ os'.status = os.status /\ os'.pipe = os.pipe
    BY TypesNamed, TerminateEffect
<1>w. WaitAgain => pc = "rewait" /\ UNCHANGED <<copy, host, clock, seen>> /\ WaitedAgain
    BY TypesNamed, WaitAgainEffect
<1>p. Probe =>
        /\ pc = "probe" /\ UNCHANGED <<copy, host, clock, os>>
        /\ \/ os.leader = "reaped" /\ Raise("lost") /\ seen' = seen
           \/ /\ os.leader # "reaped" /\ pc' = "arbitrate"
              /\ seen'.interrupts = seen.interrupts /\ seen'.stuck = seen.stuck
              /\ seen'.late => seen.late \/ (clock.late /\ os.leader = "zombie")
              /\ m'.exited => os.leader = "zombie"
              /\ ExitNoted
    BY TypesNamed, ProbeEffect
<1>g. ProbeGroup =>
        /\ pc = "stop" /\ ~Api /\ UNCHANGED <<copy, host, clock, os, seen>>
        /\ \/ ~m.exited /\ os.leader = "reaped" /\ Raise("lost")
           \/ /\ m.exited \/ os.leader # "reaped"
              /\ pc' = "kill"
              /\ m'.exited => m.exited \/ os.leader = "zombie"
              /\ ExitNoted
    BY TypesNamed, ProbeGroupEffect
<1> USE CaptureAssumption DEF None, Gone, world, Api, InGroup, Exceptions, TypeOK, ControlInv,
          QuietInv, ReapInv, AcceptInv, AcceptedIsSound, Ending, Killing, Ended
<1>1. ASSUME NEW d \in Descendants, Fork(d) PROVE AcceptedIsSound'
    BY <1>1 DEF Fork
<1>2. ASSUME NEW d \in Descendants, KinExits(d) PROVE AcceptedIsSound'
    BY <1>2 DEF KinExits
<1>3. CASE LeaderExits
    BY <1>3 DEF LeaderExits
<1>4. CASE Write
    BY <1>4 DEF Write, Alive
<1>5. CASE StealExit
    BY <1>5 DEF StealExit
<1>6. CASE ReuseGroup
    BY <1>6 DEF ReuseGroup
<1>7. CASE DeadlinePasses
    BY <1>7 DEF DeadlinePasses
<1>8. CASE DrainEnds
    BY <1>8 DEF DrainEnds
<1>9. CASE Start
    BY <1>9 DEF Start
<1>10. CASE StartFails
    BY <1>10 DEF StartFails
<1>11. CASE EnterLoop
    BY <1>11 DEF EnterLoop
<1>12. CASE PipesMissing
    BY <1>12 DEF PipesMissing, StopFor
<1>13. CASE InputsRefused
    BY <1>13, <1>e DEF InputsRefused
<1>14. CASE BundleRefused
    BY <1>14 DEF BundleRefused
<1>15. CASE KillLeader
    BY <1>15 DEF KillLeader
<1>16. CASE ReapLeader
    BY <1>16 DEF ReapLeader
<1>17. CASE BundleWithoutPipes
    BY <1>17 DEF BundleWithoutPipes
<1>18. CASE CheckDeadline
    BY <1>18 DEF CheckDeadline, StopFor
<1>19. CASE Probe
    BY <1>19, <1>p, <1>l DEF ExitNoted, LostInHandler
<1>20. CASE ApiArbitrates
    BY <1>20 DEF ApiArbitrates, StopFor
<1>21. CASE InputsArbitrates
    BY <1>21 DEF InputsArbitrates
<1>22. CASE BundleArbitrates
    BY <1>22 DEF BundleArbitrates
<1>23. CASE Select
    BY <1>23 DEF Select, Received, ReadPipe, WritersLeft
<1>24. CASE ProbeOwnership
    BY <1>24, <1>l DEF ProbeOwnership, LostInHandler
<1>25. CASE ProbeGroup
    BY <1>25, <1>g, <1>l DEF ExitNoted, LostInHandler
<1>26. CASE Terminate
    BY <1>26, <1>t
<1>27. CASE HardKill
    BY <1>27 DEF HardKill, SignalGroup, Refused, Killed, Anchored
<1>28. CASE TerminateGroup
    BY <1>28, <1>e DEF TerminateGroup, SignalGroup, Refused, Killed, Anchored
<1>29. CASE Resolve
    BY <1>29 DEF Resolve
<1>30. CASE Wait
    BY <1>30, <1>e DEF Wait
<1>31. CASE Reaped
    BY <1>31 DEF Reaped
<1>32. CASE WaitAgain
    BY <1>32, <1>w DEF WaitedAgain
<1>33. CASE VerifyGroupGone
    BY <1>33, <1>e DEF VerifyGroupGone
<1>34. CASE Settle
    BY <1>34 DEF Settle
<1>35. CASE Resume
    BY <1>35, <1>e DEF Resume
<1>36. CASE ApiDrains
    BY <1>36 DEF ApiDrains, Received, ReadPipe, WritersLeft
<1>37. CASE DrainMore
    BY <1>37 DEF DrainMore, Received, ReadPipe, WritersLeft
<1>38. CASE DrainDone
    BY <1>38 DEF DrainDone
<1>39. CASE Finish
    BY <1>39 DEF Finish, Outcome
<1>40. CASE ApiCleansUp
    BY <1>40 DEF ApiCleansUp, CleanUpIf
<1>41. CASE CleanUp
    BY <1>41 DEF CleanUp, CleanUpIf
<1>42. CASE Interrupt
    BY <1>42, <1>e DEF Interrupt
<1>43. CASE UNCHANGED vars
    BY <1>43 DEF vars
<1> QED BY <1>1, <1>2, <1>3, <1>4, <1>5, <1>6, <1>7, <1>8, <1>9, <1>10, <1>11, <1>12,
          <1>13, <1>14, <1>15, <1>16, <1>17, <1>18, <1>19, <1>20, <1>21, <1>22, <1>23,
          <1>24, <1>25, <1>26, <1>27, <1>28, <1>29, <1>30, <1>31, <1>32, <1>33, <1>34,
          <1>35, <1>36, <1>37, <1>38, <1>39, <1>40, <1>41, <1>42, <1>43 DEF Next,
          Environment, Program

(* Whatever way a capture ends, it has killed its group.                   *)
LEMMA SurvivesStep ==
    ASSUME TypeOK, [Next]_vars, ControlInv, QuietInv, NothingSurvives
    PROVE  NothingSurvives'
<1>e. \A e \in {"error", "interrupt"} : Raise(e) =>
         \/ m.cleaning /\ pc' = "done" /\ m' = [m EXCEPT !.result = "error"]
         \/ ~m.cleaning /\ pc' = "handler" /\ m' = [m EXCEPT !.raised = e]
    BY TypesNamed, RaiseEffect
<1>l. Raise("lost") =>
         \/ m.cleaning /\ pc' = "done" /\ m' = [m EXCEPT !.result = "error"]
         \/ ~m.cleaning /\ LostInHandler
    BY TypesNamed, LostEffect
<1>t. Terminate =>
        /\ pc = "term" /\ pc' = "kill" /\ UNCHANGED <<copy, host, clock, m>>
        /\ seen'.interrupts = seen.interrupts /\ seen'.late = seen.late
        /\ os'.leader = os.leader \/ (os.leader = "running" /\ os'.leader = "dying")
        /\ \A d \in Descendants : os'.kin[d] \in {os.kin[d], "dead"}
        /\ os'.status = os.status /\ os'.pipe = os.pipe
    BY TypesNamed, TerminateEffect
<1>w. WaitAgain => pc = "rewait" /\ UNCHANGED <<copy, host, clock, seen>> /\ WaitedAgain
    BY TypesNamed, WaitAgainEffect
<1>p. Probe =>
        /\ pc = "probe" /\ UNCHANGED <<copy, host, clock, os>>
        /\ \/ os.leader = "reaped" /\ Raise("lost") /\ seen' = seen
           \/ /\ os.leader # "reaped" /\ pc' = "arbitrate"
              /\ seen'.interrupts = seen.interrupts /\ seen'.stuck = seen.stuck
              /\ seen'.late => seen.late \/ (clock.late /\ os.leader = "zombie")
              /\ m'.exited => os.leader = "zombie"
              /\ ExitNoted
    BY TypesNamed, ProbeEffect
<1>g. ProbeGroup =>
        /\ pc = "stop" /\ ~Api /\ UNCHANGED <<copy, host, clock, os, seen>>
        /\ \/ ~m.exited /\ os.leader = "reaped" /\ Raise("lost")
           \/ /\ m.exited \/ os.leader # "reaped"
              /\ pc' = "kill"
              /\ m'.exited => m.exited \/ os.leader = "zombie"
              /\ ExitNoted
    BY TypesNamed, ProbeGroupEffect
<1> USE CaptureAssumption DEF None, Gone, world, Api, InGroup, Exceptions, TypeOK, ControlInv,
          QuietInv, Quiet, NothingSurvives, Starting, Ending, Killing, Ended
<1>1. ASSUME NEW d \in Descendants, Fork(d) PROVE NothingSurvives'
    BY <1>1 DEF Fork
<1>2. ASSUME NEW d \in Descendants, KinExits(d) PROVE NothingSurvives'
    BY <1>2 DEF KinExits
<1>3. CASE LeaderExits
    BY <1>3 DEF LeaderExits
<1>4. CASE Write
    BY <1>4 DEF Write, Alive
<1>5. CASE StealExit
    BY <1>5 DEF StealExit
<1>6. CASE ReuseGroup
    BY <1>6 DEF ReuseGroup
<1>7. CASE DeadlinePasses
    BY <1>7 DEF DeadlinePasses
<1>8. CASE DrainEnds
    BY <1>8 DEF DrainEnds
<1>9. CASE Start
    BY <1>9 DEF Start
<1>10. CASE StartFails
    BY <1>10 DEF StartFails
<1>11. CASE EnterLoop
    BY <1>11 DEF EnterLoop
<1>12. CASE PipesMissing
    BY <1>12 DEF PipesMissing, StopFor
<1>13. CASE InputsRefused
    BY <1>13, <1>e DEF InputsRefused
<1>14. CASE BundleRefused
    BY <1>14 DEF BundleRefused
<1>15. CASE KillLeader
    BY <1>15 DEF KillLeader
<1>16. CASE ReapLeader
    BY <1>16 DEF ReapLeader
<1>17. CASE BundleWithoutPipes
    BY <1>17 DEF BundleWithoutPipes
<1>18. CASE CheckDeadline
    BY <1>18 DEF CheckDeadline, StopFor
<1>19. CASE Probe
    BY <1>19, <1>p, <1>l DEF ExitNoted, LostInHandler
<1>20. CASE ApiArbitrates
    BY <1>20 DEF ApiArbitrates, StopFor
<1>21. CASE InputsArbitrates
    BY <1>21 DEF InputsArbitrates
<1>22. CASE BundleArbitrates
    BY <1>22 DEF BundleArbitrates
<1>23. CASE Select
    BY <1>23 DEF Select, Received, ReadPipe, WritersLeft
<1>24. CASE ProbeOwnership
    BY <1>24, <1>l DEF ProbeOwnership, LostInHandler
<1>25. CASE ProbeGroup
    BY <1>25, <1>g, <1>l DEF ExitNoted, LostInHandler
<1>26. CASE Terminate
    BY <1>26, <1>t
<1>27. CASE HardKill
    BY <1>27 DEF HardKill, SignalGroup, Refused, Killed, Anchored
<1>28. CASE TerminateGroup
    BY <1>28, <1>e DEF TerminateGroup, SignalGroup, Refused, Killed, Anchored
<1>29. CASE Resolve
    BY <1>29 DEF Resolve
<1>30. CASE Wait
    BY <1>30, <1>e DEF Wait
<1>31. CASE Reaped
    BY <1>31 DEF Reaped
<1>32. CASE WaitAgain
    BY <1>32, <1>w DEF WaitedAgain
<1>33. CASE VerifyGroupGone
    BY <1>33, <1>e DEF VerifyGroupGone
<1>34. CASE Settle
    BY <1>34 DEF Settle
<1>35. CASE Resume
    BY <1>35, <1>e DEF Resume
<1>36. CASE ApiDrains
    BY <1>36 DEF ApiDrains, Received, ReadPipe, WritersLeft
<1>37. CASE DrainMore
    BY <1>37 DEF DrainMore, Received, ReadPipe, WritersLeft
<1>38. CASE DrainDone
    BY <1>38 DEF DrainDone
<1>39. CASE Finish
    BY <1>39 DEF Finish, Outcome
<1>40. CASE ApiCleansUp
    BY <1>40 DEF ApiCleansUp, CleanUpIf
<1>41. CASE CleanUp
    BY <1>41 DEF CleanUp, CleanUpIf
<1>42. CASE Interrupt
    BY <1>42, <1>e DEF Interrupt
<1>43. CASE UNCHANGED vars
    BY <1>43 DEF vars
<1> QED BY <1>1, <1>2, <1>3, <1>4, <1>5, <1>6, <1>7, <1>8, <1>9, <1>10, <1>11, <1>12,
          <1>13, <1>14, <1>15, <1>16, <1>17, <1>18, <1>19, <1>20, <1>21, <1>22, <1>23,
          <1>24, <1>25, <1>26, <1>27, <1>28, <1>29, <1>30, <1>31, <1>32, <1>33, <1>34,
          <1>35, <1>36, <1>37, <1>38, <1>39, <1>40, <1>41, <1>42, <1>43 DEF Next,
          Environment, Program

-----------------------------------------------------------------------------
(* Which copy runs and where it runs is settled from the start.            *)
LEMMA CopyStays ==
    ASSUME [Next]_vars
    PROVE  copy' = copy /\ host' = host
<1> USE DEF world
<1>1. CASE (\E d \in Descendants : Fork(d)) \/ (\E d \in Descendants : KinExits(d)) \/
           LeaderExits \/ Write \/ StealExit \/ ReuseGroup \/ DeadlinePasses \/
           DrainEnds \/ Start \/ StartFails
    BY <1>1 DEF Fork, KinExits, LeaderExits, Write, StealExit, ReuseGroup,
           DeadlinePasses, DrainEnds, Start, StartFails
<1>2. CASE EnterLoop \/ PipesMissing \/ InputsRefused \/ BundleRefused \/ KillLeader \/
           ReapLeader \/ BundleWithoutPipes \/ CheckDeadline \/ Probe \/ ApiArbitrates
    BY <1>2 DEF EnterLoop, PipesMissing, InputsRefused, BundleRefused, KillLeader,
           ReapLeader, BundleWithoutPipes, CheckDeadline, Probe, ApiArbitrates
<1>3. CASE InputsArbitrates \/ BundleArbitrates \/ Select \/ ProbeOwnership \/
           ProbeGroup \/ Terminate \/ Resolve \/ Wait \/ Reaped \/ WaitAgain
    BY <1>3 DEF InputsArbitrates, BundleArbitrates, Select, ProbeOwnership, ProbeGroup,
           Terminate, Resolve, Wait, Reaped, WaitAgain
<1>4. CASE VerifyGroupGone \/ Settle \/ Resume \/ ApiDrains \/ DrainMore \/ DrainDone \/
           Finish \/ ApiCleansUp \/ CleanUp \/ Interrupt
    BY <1>4 DEF VerifyGroupGone, Settle, Resume, ApiDrains, DrainMore, DrainDone,
           Finish, ApiCleansUp, CleanUpIf, CleanUp, Interrupt
<1>5. CASE HardKill
    BY <1>5 DEF HardKill
<1>6. CASE TerminateGroup
    BY <1>6 DEF TerminateGroup
<1>7. CASE UNCHANGED vars
    BY <1>7 DEF vars
<1> QED BY <1>1, <1>2, <1>3, <1>4, <1>5, <1>6, <1>7 DEF Next, Environment, Program

(* Only SIGTERM and SIGKILL can reach a foreign group, and only once the   *)
(* leader is reaped.                                                       *)
LEMMA ForeignStep ==
    ASSUME TypeOK, [Next]_vars, seen'.foreign # seen.foreign
    PROVE  pc \in {"term", "kill"} /\ os.leader = "reaped"
<1> USE DEF TypeOK
<1>1. CASE (\E d \in Descendants : Fork(d)) \/ (\E d \in Descendants : KinExits(d)) \/
           LeaderExits \/ Write \/ StealExit \/ ReuseGroup \/ DeadlinePasses \/
           DrainEnds \/ Start
    BY <1>1 DEF Fork, KinExits, LeaderExits, Write, StealExit, ReuseGroup,
           DeadlinePasses, DrainEnds, Start
<1>2. CASE StartFails \/ EnterLoop \/ PipesMissing \/ InputsRefused \/ BundleRefused \/
           KillLeader \/ ReapLeader \/ BundleWithoutPipes \/ CheckDeadline
    BY <1>2 DEF StartFails, EnterLoop, PipesMissing, InputsRefused, BundleRefused,
           KillLeader, ReapLeader, BundleWithoutPipes, CheckDeadline
<1>3. CASE ApiArbitrates \/ InputsArbitrates \/ BundleArbitrates \/ Select \/
           ProbeOwnership \/ ProbeGroup \/ Resolve \/ Reaped \/ WaitAgain
    BY <1>3 DEF ApiArbitrates, InputsArbitrates, BundleArbitrates, Select,
           ProbeOwnership, ProbeGroup, Resolve, Reaped, WaitAgain
<1>4. CASE VerifyGroupGone \/ Settle \/ Resume \/ ApiDrains \/ DrainMore \/ DrainDone \/
           Finish \/ ApiCleansUp \/ CleanUp
    BY <1>4 DEF VerifyGroupGone, Settle, Resume, ApiDrains, DrainMore, DrainDone,
           Finish, ApiCleansUp, CleanUpIf, CleanUp
<1>5. CASE Probe
    BY <1>5 DEF Probe
<1>6. CASE Terminate
    BY <1>6 DEF Terminate, Anchored
<1>7. CASE HardKill
    BY <1>7 DEF HardKill, SignalGroup, Anchored
<1>8. CASE TerminateGroup
    BY <1>8 DEF TerminateGroup, SignalGroup, Anchored
<1>9. CASE Wait
    BY <1>9 DEF Wait
<1>10. CASE Interrupt
    BY <1>10 DEF Interrupt
<1>11. CASE UNCHANGED vars
    BY <1>11 DEF vars
<1> QED BY <1>1, <1>2, <1>3, <1>4, <1>5, <1>6, <1>7, <1>8, <1>9, <1>10, <1>11
    DEF Next, Environment, Program

-----------------------------------------------------------------------------
(* The invariant holds before the command is started.                      *)
LEMMA InitHolds ==
    ASSUME Init
    PROVE  IInv
<1>1. TypeOK
  <2>1. os \in Machine
    BY DEF Init, Machine, None
  <2>2. m \in Locals
    BY CaptureAssumption DEF Init, Locals, None
  <2>3. seen \in History /\ clock \in [late : BOOLEAN, drained : BOOLEAN]
    BY CaptureAssumption DEF Init, History
  <2>4. copy \in Copies /\ host \in [thief : BOOLEAN, darwin : BOOLEAN] /\ pc \in Locations
    BY DEF Init, Locations
  <2> QED BY <2>1, <2>2, <2>3, <2>4, TypesNamed
<1>2. ControlInv
    BY DEF Init, ControlInv, Starting, Looping, Ending, Killing, Ended, None, Api
<1>3. QuietInv /\ ReapInv
    BY DEF Init, QuietInv, ReapInv, Quiet, Killing, None
<1>4. AcceptInv /\ AcceptedIsSound /\ NothingSurvives
    BY CaptureAssumption DEF Init, AcceptInv, AcceptedIsSound, NothingSurvives, None
<1> QED BY <1>1, <1>2, <1>3, <1>4 DEF IInv

(* Every step keeps the types.                                             *)
LEMMA TypeStep ==
    ASSUME TypeOK, [Next]_vars
    PROVE  TypeOK'
<1>1. /\ copy \in Copies /\ host \in [thief : BOOLEAN, darwin : BOOLEAN]
      /\ os \in Machine /\ clock \in [late : BOOLEAN, drained : BOOLEAN]
      /\ pc \in Locations /\ m \in Locals /\ seen \in History
    BY TypesNamed
<1>2. os' \in Machine
    BY <1>1, MachineStep
<1>3. m' \in Locals
    BY <1>1, LocalsStep
<1>4. /\ seen' \in History /\ clock' \in [late : BOOLEAN, drained : BOOLEAN]
      /\ pc' \in Locations
    BY <1>1, RestStep
<1>5. copy' = copy /\ host' = host
    BY CopyStays
<1> QED BY <1>1, <1>2, <1>3, <1>4, <1>5 DEF TypeOK, Machine, Locals, History

(* The invariant is inductive.                                             *)
LEMMA StepHolds ==
    ASSUME IInv, [Next]_vars
    PROVE  IInv'
<1>1. /\ TypeOK /\ ControlInv /\ QuietInv /\ ReapInv /\ AcceptInv
      /\ AcceptedIsSound /\ NothingSurvives
    BY DEF IInv
<1>2. TypeOK' /\ ControlInv' /\ QuietInv' /\ ReapInv'
    BY <1>1, TypeStep, ControlStep, QuietStep, ReapStep
<1>3. AcceptInv' /\ AcceptedIsSound' /\ NothingSurvives'
    BY <1>1, AcceptStep, AcceptedStep, SurvivesStep
<1> QED BY <1>2, <1>3 DEF IInv

(* The invariant holds of every behaviour.                                 *)
THEOREM Invariant == Spec => []IInv
<1>1. Init => IInv
    BY InitHolds
<1>2. IInv /\ [Next]_vars => IInv'
    BY StepHolds
<1> QED BY <1>1, <1>2, PTL DEF Spec

(* The state of a capture keeps its types, for any copies, descendants and *)
(* bounds.                                                                 *)
THEOREM TypeCorrect == Spec => []TypeOK
<1>1. IInv => TypeOK
    BY DEF IInv
<1> QED BY <1>1, Invariant, PTL

(* Whichever way _run_bounded, bounded_command_output or GitHubApi end, no *)
(* process of the command's group runs on, with the exceptions that        *)
(* NothingSurvives names.                                                  *)
THEOREM GroupIsGone == Spec => []NothingSurvives
<1>1. IInv => NothingSurvives
    BY DEF IInv
<1> QED BY <1>1, Invariant, PTL

(* Output that a capture returns is within the limit and complete, and the *)
(* command succeeded, in time where the copy checks it.                    *)
THEOREM AcceptedSound == Spec => []AcceptedIsSound
<1>1. IInv => AcceptedIsSound
    BY DEF IInv
<1> QED BY <1>1, Invariant, PTL

(* terminate_process_group and its two relatives signal a number only      *)
(* while it is their command's, with the exceptions of NoForeignSignal.    *)
THEOREM OnlyOwnGroup == Spec => NoForeignSignal
<1>1. IInv /\ [Next]_vars =>
        [seen'.foreign # seen.foreign =>
            \/ host.thief /\ m.raised # "lost"
            \/ ~Api /\ seen.interrupts > 1]_vars
  <2>1. SUFFICES ASSUME IInv, [Next]_vars, seen'.foreign # seen.foreign
                 PROVE  \/ host.thief /\ m.raised # "lost"
                        \/ ~Api /\ seen.interrupts > 1
    OBVIOUS
  <2>2. pc \in {"term", "kill"} /\ os.leader = "reaped"
    BY <2>1, ForeignStep DEF IInv
  <2>3. CASE host.thief
    BY <2>1, <2>2, <2>3 DEF IInv, ControlInv
  <2>4. CASE ~host.thief
    <3>1. ~m.resolved /\ (~Api => m.code = None)
      BY <2>1, <2>2 DEF IInv, ControlInv, Ended, Looping
    <3>2. seen.interrupts \in Nat
      BY <2>1, CaptureAssumption DEF IInv, TypeOK
    <3> QED BY <2>1, <2>2, <2>4, <3>1, <3>2 DEF IInv, ReapInv
  <2> QED BY <2>3, <2>4
<1> QED BY <1>1, Invariant, PTL DEF Spec, NoForeignSignal
=============================================================================
