-------------------------- MODULE HealthGateProofs --------------------------
(***************************************************************************)
(* The safety of module HealthGate for every set of services, every number *)
(* of replicas and of tasks, and every number of failed calls.             *)
(*                                                                         *)
(* A round decides on answers of different moments.  What it may conclude  *)
(* from them is the invariant: as long as nothing has spoiled the round, a *)
(* task whose answer is in was healthy at some time since the tasks were   *)
(* listed, and one without a healthcheck was when they were listed, so     *)
(* that it does no harm to count it after it has exited (Round); and an    *)
(* update that has been found complete stays so (Settlement).              *)
(***************************************************************************)
EXTENDS HealthGate, TLAPS

Complete == {"nil", "completed"}

\* A monitor that has returned without an error has seen its update complete,
\* and no round starts before all of them have.
Settlement ==
    /\ \A s \in Services : upd[s] = "passed" => status[s] \in Complete
    /\ gate \in {"tick", "tasks", "inspect", "passed"} =>
          \A s \in Services : upd[s] = "passed"

\* A task that is healthy during the round counts as such, so does one to be
\* inspected that has no healthcheck, and an unspoiled round has an answer from
\* every task it wanted, or asks for it yet.
Round ==
    gate = "inspect" =>
        /\ HealthyIn(phase) \subseteq healthy
        /\ \A t \in toInspect : Svc(t) \notin checked => t \in healthy
        /\ ok => /\ wanted \ toInspect \subseteq healthy
                 /\ \A s \in Services : \E t \in wanted : Svc(t) = s

IInv == TypeOK /\ Settlement /\ Round

-----------------------------------------------------------------------------
LEMMA OursAreTasks == Ours \subseteq Tasks /\ \A t \in Tasks : Svc(t) \in Services
BY HealthGateAssumption DEF Ours, Tasks, Svc

LEMMA CallCounts ==
    ASSUME faults \in 0..MaxFaults, Answers \/ Fails
    PROVE  faults' \in 0..MaxFaults
BY HealthGateAssumption DEF Answers, Fails

LEMMA InitHolds == ASSUME Init PROVE IInv
<1>1. /\ phase \in [Tasks -> {"none", "delayed", "failed", "shutdown"} \cup Desired]
      /\ \A t \in Tasks : phase[t] \in Running => phase[t] \in RunningOf(Svc(t))
  BY DEF Init, Desired, Running, RunningOf
<1>2. TypeOK
  BY <1>1, HealthGateAssumption DEF Init, TypeOK
<1> QED
  BY <1>2 DEF Init, IInv, Settlement, Round

-----------------------------------------------------------------------------
(***************************************************************************)
(* Swarm moves.                                                            *)
(***************************************************************************)
LEMMA TaskMovesKeeps ==
    ASSUME IInv, NEW t \in Tasks,
           NEW p \in {"delayed", "failed", "shutdown", "pending"} \cup RunningOf(Svc(t)),
           TaskMoves(t, p)
    PROVE  IInv'
<1>1. TypeOK'
  <2>1. p \in {"none", "delayed", "failed", "shutdown"} \cup Desired
    BY DEF RunningOf, Running, Desired
  <2>2. /\ phase' \in [Tasks -> {"none", "delayed", "failed", "shutdown"} \cup Desired]
        /\ \A u \in Tasks : phase'[u] \in Running => phase'[u] \in RunningOf(Svc(u))
    BY <2>1 DEF IInv, TypeOK, TaskMoves, Running
  <2> QED
    BY <2>2 DEF IInv, TypeOK, TaskMoves, roundVars, RunningOf
<1>2. Settlement'
  BY DEF IInv, Settlement, TaskMoves
<1>3. Round'
  <2>1. SUFFICES ASSUME gate = "inspect" PROVE Round'
    BY DEF TaskMoves, Round
  <2>2. HealthyIn(phase') \subseteq healthy'
    BY <2>1 DEF IInv, Round, TypeOK, TaskMoves, HealthyIn
  <2> QED
    BY <2>1, <2>2 DEF IInv, Round, TaskMoves, roundVars
<1> QED
  BY <1>1, <1>2, <1>3 DEF IInv

LEMMA SwarmKeeps == ASSUME IInv, SwarmStep \/ ContextEnds PROVE IInv'
<1>1. ASSUME NEW t \in Tasks,
             \/ TaskStarts(t) \/ HealthTurns(t) \/ TaskFails(t) \/ TaskStops(t)
             \/ DelayEnds(t) \/ TaskReplaced(t)
      PROVE  IInv'
  <2>1. \E p \in {"delayed", "failed", "shutdown", "pending"} \cup RunningOf(Svc(t)) :
            TaskMoves(t, p)
    BY <1>1 DEF TaskStarts, HealthTurns, TaskFails, TaskStops, DelayEnds, TaskReplaced
  <2> QED
    BY <2>1, TaskMovesKeeps
<1>2. ASSUME NEW s \in Services, StatusMoves(s) PROVE IInv'
  <2>1. PICK to \in {"completed", "paused", "reverting", "reverted", "revertPaused"} :
            /\ status' = [status EXCEPT ![s] = to]
            /\ status[s] \notin Complete
    BY <1>2 DEF StatusMoves, Complete
  <2>2. UNCHANGED <<present, checked, phase, ctx, upd, gate, ok, toInspect, counted, wanted,
                    healthy, faults>>
    BY <1>2 DEF StatusMoves, roundVars
  <2>3. TypeOK'
    BY <2>1, <2>2 DEF IInv, TypeOK, RunningOf
  <2>4. Settlement'
    BY <2>1, <2>2 DEF IInv, TypeOK, Settlement
  <2>5. Round'
    BY <2>2 DEF IInv, Round, HealthyIn
  <2> QED
    BY <2>3, <2>4, <2>5 DEF IInv
<1>3. ASSUME NEW s \in Services, ServiceRemoved(s) PROVE IInv'
  <2>1. TypeOK'
    BY <1>3 DEF IInv, TypeOK, ServiceRemoved, roundVars, RunningOf
  <2> QED
    BY <1>3, <2>1 DEF IInv, Settlement, Round, HealthyIn, ServiceRemoved, roundVars
<1>4. CASE ContextEnds
  <2>1. TypeOK'
    BY <1>4 DEF IInv, TypeOK, ContextEnds, swarmVars, roundVars, RunningOf
  <2> QED
    BY <1>4, <2>1 DEF IInv, Settlement, Round, HealthyIn, ContextEnds, swarmVars,
       roundVars
<1> QED
  BY <1>1, <1>2, <1>3, <1>4 DEF SwarmStep

-----------------------------------------------------------------------------
(***************************************************************************)
(* The gates.                                                              *)
(***************************************************************************)
LEMMA UpdatesKeep ==
    ASSUME IInv, NEW s \in Services, UpdateStep(s)
    PROVE  IInv'
<1>1. PICK result \in {"run", "passed", "failed"} :
          /\ Monitored(s, result) /\ (result = "passed" => status[s] \in Complete)
  BY DEF UpdateStep, UpdateMonitorInspects, UpdateMonitorCanceled, Settled, Complete
<1>2. gate = "updates" /\ faults' \in 0..MaxFaults
  BY CallCounts DEF UpdateStep, UpdateMonitorInspects, UpdateMonitorCanceled, IInv,
     TypeOK
<1>3. TypeOK'
  BY <1>1, <1>2 DEF IInv, TypeOK, Monitored, swarmVars, roundVars, RunningOf
<1> QED
  BY <1>1, <1>2, <1>3
     DEF IInv, TypeOK, Settlement, Round, Monitored, swarmVars, roundVars

LEMMA GateKeeps == ASSUME IInv, GateStep \/ Deadline PROVE IInv'
<1> USE DEF swarmVars, roundVars, RunningOf
<1>1. CASE UpdatesReturn
  <2>1. TypeOK'
    BY <1>1 DEF IInv, TypeOK, UpdatesReturn
  <2> QED
    BY <1>1, <2>1 DEF IInv, Settlement, Round, UpdatesReturn
<1>2. CASE ListServices
  <2>1. faults' \in 0..MaxFaults
    BY <1>2, CallCounts DEF ListServices, IInv, TypeOK
  <2>2. TypeOK'
    BY <1>2, <2>1 DEF IInv, TypeOK, ListServices
  <2> QED
    BY <1>2, <2>2 DEF IInv, Settlement, Round, ListServices
<1>3. CASE Deadline
  <2>1. TypeOK'
    BY <1>3 DEF IInv, TypeOK, Deadline
  <2> QED
    BY <1>3, <2>1 DEF IInv, Settlement, Round, Deadline
<1>4. CASE ListTasks
  <2> DEFINE W == {t \in Ours : ShouldRun(t)}
  <2>1. faults' \in 0..MaxFaults
    BY <1>4, CallCounts DEF ListTasks, IInv, TypeOK
  <2>2. gate = "tasks" /\ UNCHANGED <<present, checked, status, phase, ctx, upd>>
    BY <1>4 DEF ListTasks
  <2>3. CASE gate' = "tick" /\ NewRound
    <3>1. TypeOK'
      BY <2>1, <2>2, <2>3 DEF IInv, TypeOK, NewRound
    <3> QED
      BY <2>2, <2>3, <3>1 DEF IInv, Settlement, Round
  <2>4. CASE /\ gate' = "inspect"
             /\ toInspect' = {t \in W : phase[t] \in Running}
             /\ ok' = (/\ ok
                       /\ \A t \in W : phase[t] \in Running
                       /\ \A s \in Services : \E t \in W : Svc(t) = s)
             /\ wanted' = W /\ healthy' = HealthyIn(phase) /\ UNCHANGED counted
    <3>1. W \subseteq Ours /\ {t \in W : phase[t] \in Running} \subseteq W
          /\ HealthyIn(phase) \subseteq Tasks
      BY DEF HealthyIn
    <3>2. ok' \in BOOLEAN
      BY <2>4
    <3>3. TypeOK'
      BY <2>1, <2>2, <2>4, <3>1, <3>2 DEF IInv, TypeOK
    <3>4. Settlement'
      BY <2>2, <2>4 DEF IInv, Settlement
    <3>5. \A t \in toInspect' : Svc(t) \notin checked => t \in healthy'
      BY <2>4, OursAreTasks DEF IInv, TypeOK, RunningOf, HealthyIn
    <3>6. Round'
      BY <2>2, <2>4, <3>5 DEF Round, HealthyIn
    <3> QED
      BY <3>3, <3>4, <3>6 DEF IInv
  <2> QED
    BY <1>4, <2>3, <2>4 DEF ListTasks, ThisDeployment
<1>5. ASSUME NEW t \in Tasks, InspectContainer(t) PROVE IInv'
  <2>1. /\ gate = "inspect" /\ t \in toInspect /\ toInspect' = toInspect \ {t}
        /\ UNCHANGED <<present, checked, status, phase, ctx, upd, gate, wanted, healthy>>
        /\ \/ CountsAsHealthy(t) /\ counted' = counted \cup {Svc(t)} /\ ok' = ok
           \/ ok' = FALSE /\ counted' = counted
    BY <1>5 DEF InspectContainer
  <2>2. faults' \in 0..MaxFaults
    BY <1>5, CallCounts DEF InspectContainer, IInv, TypeOK
  <2>3. TypeOK'
    BY <2>1, <2>2, OursAreTasks DEF IInv, TypeOK
  <2>4. CountsAsHealthy(t) => t \in healthy
    BY <2>1 DEF IInv, Round, HealthyIn, CountsAsHealthy
  <2>5. Round'
    BY <2>1, <2>4 DEF IInv, Round, HealthyIn
  <2> QED
    BY <2>1, <2>3, <2>5 DEF IInv, Settlement
<1>6. CASE Decide
  <2>1. /\ gate = "inspect" /\ gate' \in {"passed", "tick"} /\ NewRound
        /\ UNCHANGED <<present, checked, status, phase, ctx, upd, faults>>
    BY <1>6 DEF Decide
  <2>2. TypeOK'
    BY <2>1 DEF IInv, TypeOK, NewRound
  <2> QED
    BY <2>1, <2>2 DEF IInv, Settlement, Round
<1> QED
  BY <1>1, <1>2, <1>3, <1>4, <1>5, <1>6 DEF GateStep

-----------------------------------------------------------------------------
(***************************************************************************)
(* Theorems.                                                               *)
(***************************************************************************)

\* The inductive invariant of both gates holds in every reachable state.
THEOREM HealthGateInvariance == Spec => []IInv
<1>1. ASSUME IInv, [Next]_vars PROVE IInv'
  <2>1. CASE UNCHANGED vars
    <3>1. TypeOK'
      BY <1>1, <2>1 DEF vars, swarmVars, roundVars, IInv, TypeOK, RunningOf
    <3>2. Settlement' /\ Round'
      BY <1>1, <2>1 DEF vars, swarmVars, roundVars, IInv, Settlement, Round,
         HealthyIn
    <3> QED
      BY <3>1, <3>2 DEF IInv
  <2> QED
    BY <1>1, <2>1, SwarmKeeps, UpdatesKeep, GateKeeps DEF Next
<1> QED
  BY InitHolds, <1>1, PTL DEF Spec

\* Types; waitForAllTasksHealthy inspects only what the deployment wants to run.
THEOREM HealthGateTypes == Spec => []TypeOK
<1>1. IInv => TypeOK
  BY DEF IInv
<1> QED
  BY <1>1, HealthGateInvariance, PTL

\* Whatever Swarm does between the calls of a round, the gate opens only if every
\* task that should run has been healthy in the round and every update is done,
\* even though an exited container without a healthcheck counts as healthy.
THEOREM GateIsSound == Spec => PassIsSound
<1> DEFINE Sound ==
        Passes => /\ wanted \subseteq healthy
                  /\ \A s \in Services :
                        /\ \E t \in wanted : Svc(t) = s
                        /\ status[s] \in Complete
<1>1. ASSUME IInv, [Next]_vars PROVE [Sound]_vars
  <2>1. ASSUME Next, Passes PROVE Decide /\ ok
    <3>1. CASE SwarmStep \/ ContextEnds
      BY <2>1, <3>1 DEF SwarmStep, ContextEnds, TaskStarts, HealthTurns, TaskFails,
         TaskStops, DelayEnds, TaskReplaced, TaskMoves, StatusMoves, ServiceRemoved,
         Passes
    <3>2. ASSUME NEW s \in Services, UpdateStep(s) PROVE FALSE
      BY <2>1, <3>2 DEF UpdateStep, UpdateMonitorInspects, UpdateMonitorCanceled,
         Monitored, Passes
    <3>3. CASE GateStep \/ Deadline
      BY <2>1, <3>3 DEF GateStep, Deadline, UpdatesReturn, ListServices, ListTasks,
         InspectContainer, Decide, Passes
    <3> QED
      BY <2>1, <3>1, <3>2, <3>3 DEF Next
  <2>2. ASSUME Decide, ok PROVE Sound
    BY <1>1, <2>2 DEF Decide, IInv, Round, Settlement
  <2> QED
    BY <1>1, <2>1, <2>2
<1>2. []IInv /\ [][Next]_vars => [][Sound]_vars
  BY <1>1, PTL
<1> QED
  BY <1>2, HealthGateInvariance, PTL DEF Spec, PassIsSound, Complete
=============================================================================
