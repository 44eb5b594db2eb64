------------------------------ MODULE HealthGate ------------------------------
(***************************************************************************)
(* What runApply waits for after Deploy: WaitForUpdateComplete for every   *)
(* updated service (internal/health/service_update_monitor.go), then       *)
(* waitForAllTasksHealthy (cmd/apply.go).                                  *)
(*                                                                         *)
(* The gate looks at the stack in rounds of separate API calls, one for    *)
(* the services, one for the tasks and one for each container, while Swarm *)
(* starts, fails and replaces the tasks.  A round decides on what it saw   *)
(* at different times.  Swarm is modelled as far as the gate looks at it.  *)
(***************************************************************************)
EXTENDS Naturals, FiniteSets

CONSTANTS
    Services,    \* the updated services
    Replicas,    \* tasks each of them should have
    Slots,       \* bound: tasks Swarm makes for a service, failed ones included
    MaxFaults    \* bound on API calls that fail under a live context

ASSUME HealthGateAssumption ==
    /\ IsFiniteSet(Services)
    /\ Replicas \in Nat \ {0} /\ Slots \in Nat /\ Slots >= Replicas
    /\ MaxFaults \in Nat

VARIABLES
    present,     \* services that exist
    checked,     \* services whose containers have a healthcheck
    status,      \* UpdateStatus of a service, "nil" for a created one
    phase,       \* per task, what its record and its container say
    ctx,         \* the context of the wait is live
    upd,         \* the update monitors: run, passed, failed
    gate,        \* where waitForAllTasksHealthy is
    ok,          \* allHealthy of the round
    toInspect,   \* containersToInspect, those without an answer
    counted,     \* services with serviceHealthyCount > 0
    wanted,      \* tasks of the deployment that should run, at TaskList
    healthy,     \* tasks that have been healthy at some time of the round
    faults       \* failed calls so far

swarmVars == <<present, checked, status, phase>>
roundVars == <<ok, toInspect, counted, wanted>>
vars == <<swarmVars, ctx, upd, gate, roundVars, healthy, faults>>

\* Task 0 of a service is of the deployment before.
Tasks == Services \X (0..Slots)
Ours == Services \X (1..Slots)
Svc(t) == t[1]
TasksOf(s) == {t \in Ours : Svc(t) = s}

\* A task with desired state running, and one whose state is running too.  A
\* task that replaces a failed one is "delayed" first: desired state ready.
\* "healthy" is a container that is healthy or has no healthcheck.
Running == {"starting", "healthy", "unhealthy"}
Desired == {"pending"} \cup Running

\* How the tasks of a service can run.
RunningOf(s) == IF s \in checked THEN Running ELSE {"healthy"}

HealthyIn(p) == {t \in Tasks : p[t] = "healthy"}

Init ==
    /\ present = Services
    /\ checked \in SUBSET Services
    /\ status \in [Services -> {"nil", "updating"}]
    /\ phase = [t \in Tasks |->
                  CASE t[2] = 0 /\ status[Svc(t)] = "updating" -> "healthy"
                    [] t[2] \in 1..Replicas -> "pending"
                    [] OTHER -> "none"]
    /\ ctx = TRUE
    /\ upd = [s \in Services |-> "run"]
    /\ gate = "updates"
    /\ ok = TRUE /\ toInspect = {} /\ counted = {} /\ wanted = {}
    /\ healthy = {} /\ faults = 0

\* The variables of a round are locals of the loop's body.
NewRound ==
    ok' = TRUE /\ toInspect' = {} /\ counted' = {} /\ wanted' = {} /\ healthy' = {}

Answers == ctx /\ UNCHANGED faults
Fails == IF ctx THEN faults < MaxFaults /\ faults' = faults + 1
                ELSE UNCHANGED faults

-----------------------------------------------------------------------------
(***************************************************************************)
(* Swarm and the context.                                                  *)
(***************************************************************************)
TaskMoves(t, p) ==
    /\ phase' = [phase EXCEPT ![t] = p]
    /\ healthy' = IF p = "healthy" /\ gate = "inspect" THEN healthy \cup {t} ELSE healthy
    /\ UNCHANGED <<present, checked, status, ctx, upd, gate, roundVars, faults>>

TaskStarts(t) ==
    /\ Svc(t) \in present /\ phase[t] = "pending"
    /\ \E p \in RunningOf(Svc(t)) \ {"unhealthy"} : TaskMoves(t, p)

HealthTurns(t) ==
    /\ phase[t] \in Running
    /\ \E p \in RunningOf(Svc(t)) \ {"starting", phase[t]} : TaskMoves(t, p)

TaskFails(t) == phase[t] \in Desired /\ TaskMoves(t, "failed")

\* Swarm stops the tasks of the deployment before and of a removed service.
TaskStops(t) ==
    /\ t \notin Ours \/ Svc(t) \notin present
    /\ phase[t] \in Desired /\ TaskMoves(t, "shutdown")

DelayEnds(t) == Svc(t) \in present /\ phase[t] = "delayed" /\ TaskMoves(t, "pending")

\* A service short of tasks gets another, after the restart delay.
TaskReplaced(t) ==
    /\ t \in Ours /\ Svc(t) \in present /\ phase[t] = "none"
    /\ Cardinality({u \in TasksOf(Svc(t)) : phase[u] \in Desired \cup {"delayed"}})
          < Replicas
    /\ TaskMoves(t, "delayed")

\* The update of a service ends, is paused, or is reverted in two steps.
StatusMoves(s) ==
    /\ \E to \in CASE status[s] = "updating"  -> {"completed", "paused", "reverting"}
                   [] status[s] = "reverting" -> {"reverted", "revertPaused"}
                   [] OTHER -> {} :
          status' = [status EXCEPT ![s] = to]
    /\ UNCHANGED <<present, checked, phase, ctx, upd, gate, roundVars, healthy,
                   faults>>

\* Someone removes a service: its tasks should no longer run, but their
\* containers live on until they are stopped.
ServiceRemoved(s) ==
    /\ s \in present
    /\ present' = present \ {s}
    /\ UNCHANGED <<checked, status, phase, ctx, upd, gate, roundVars, healthy,
                   faults>>

ContextEnds ==
    /\ ctx
    /\ ctx' = FALSE
    /\ UNCHANGED <<swarmVars, upd, gate, roundVars, healthy, faults>>

-----------------------------------------------------------------------------
(***************************************************************************)
(* WaitForUpdateComplete, once per service.                                *)
(***************************************************************************)
Monitored(s, result) ==
    /\ upd' = [upd EXCEPT ![s] = result]
    /\ UNCHANGED <<swarmVars, ctx, gate, roundVars, healthy>>

\* What a status means to the monitor; no status is the status of a new service.
Settled(st) ==
    CASE st \in {"nil", "completed"} -> "passed"
      [] st \in {"paused", "reverted", "revertPaused"} -> "failed"
      [] OTHER -> "run"

\* ServiceInspectWithRaw; an error, a removed service too, is tried again.
UpdateMonitorInspects(s) ==
    /\ gate = "updates" /\ upd[s] = "run"
    /\ \/ Answers /\ s \in present /\ Monitored(s, Settled(status[s]))
       \/ Answers /\ s \notin present /\ Monitored(s, "run")
       \/ Fails /\ Monitored(s, "run")

\* Fault: the end of the context is tried again like any other error.
UpdateMonitorRetries(s) ==
    /\ gate = "updates" /\ upd[s] = "run" /\ ~ctx
    /\ Monitored(s, "run")
    /\ UNCHANGED faults

UpdateMonitorCanceled(s) ==
    /\ gate = "updates" /\ upd[s] = "run" /\ ~ctx
    /\ Monitored(s, "failed")
    /\ UNCHANGED faults

\* updateGroup.Wait()
UpdatesReturn ==
    /\ gate = "updates"
    /\ \/ (\A s \in Services : upd[s] = "passed") /\ gate' = "tick"
       \/ (\E s \in Services : upd[s] = "failed") /\ gate' = "failed"
    /\ UNCHANGED <<swarmVars, ctx, upd, roundVars, healthy, faults>>

-----------------------------------------------------------------------------
(***************************************************************************)
(* waitForAllTasksHealthy.  A list call that fails ends the round.         *)
(***************************************************************************)
\* The ticker; ServiceList.
ListServices ==
    /\ gate = "tick"
    /\ \/ /\ Answers
          /\ gate' = "tasks" /\ ok' = (Services \subseteq present)
       \/ Fails /\ UNCHANGED <<gate, ok>>
    /\ UNCHANGED <<swarmVars, ctx, upd, toInspect, counted, wanted, healthy>>

Deadline ==
    /\ gate = "tick" /\ ~ctx
    /\ gate' = "timeout"
    /\ UNCHANGED <<swarmVars, ctx, upd, roundVars, healthy, faults>>

\* Fault: tasks of every deployment are looked at.
AnyDeployment == Tasks

\* Tasks that carry the label of this deployment.
ThisDeployment == Ours

ShouldRun(t) == Svc(t) \in present /\ phase[t] \in Desired

\* TaskList.  A failed or ended task and one that should not run are passed
\* over; one that should run and does not fails the round, and so does a
\* service with none that should run.
ListTasks ==
    /\ gate = "tasks"
    /\ LET W == {t \in ThisDeployment : ShouldRun(t)} IN
           \/ /\ Answers
              /\ gate' = "inspect"
              /\ toInspect' = {t \in W : phase[t] \in Running}
              /\ ok' = (/\ ok
                        /\ \A t \in W : phase[t] \in Running
                        /\ \A s \in Services : \E t \in W : Svc(t) = s)
              /\ wanted' = {t \in Ours : ShouldRun(t)}
              /\ healthy' = HealthyIn(phase)
              /\ UNCHANGED counted
           \/ Fails /\ gate' = "tick" /\ NewRound
    /\ UNCHANGED <<swarmVars, ctx, upd>>

\* What State.Health says, or that it is nil.  State.Running is not looked at, so
\* that a container without a healthcheck which has exited since TaskList counts
\* as healthy; one with a healthcheck has been unhealthy since it exited.
CountsAsHealthy(t) ==
    phase[t] = "healthy" \/ (Svc(t) \notin checked /\ phase[t] \notin Running)

\* Fault: a container that cannot be inspected is passed over.
InspectOrSkip(t) ==
    /\ gate = "inspect" /\ t \in toInspect
    /\ toInspect' = toInspect \ {t}
    /\ \/ /\ Answers
          /\ CountsAsHealthy(t)
          /\ counted' = counted \cup {Svc(t)} /\ UNCHANGED ok
       \/ /\ Answers
          /\ phase[t] # "healthy"
          /\ ok' = FALSE /\ UNCHANGED counted
       \/ Fails /\ UNCHANGED <<ok, counted>>
    /\ UNCHANGED <<swarmVars, ctx, upd, gate, wanted, healthy>>

\* ContainerInspect, in parallel and in any order.  A container that no longer
\* runs may be gone, which is an error.
InspectContainer(t) ==
    /\ gate = "inspect" /\ t \in toInspect
    /\ toInspect' = toInspect \ {t}
    /\ \/ /\ Answers
          /\ CountsAsHealthy(t)
          /\ counted' = counted \cup {Svc(t)} /\ UNCHANGED ok
       \/ /\ Answers
          /\ phase[t] # "healthy"
          /\ ok' = FALSE /\ UNCHANGED counted
       \/ Fails /\ ok' = FALSE /\ UNCHANGED counted
    /\ UNCHANGED <<swarmVars, ctx, upd, gate, wanted, healthy>>

\* Every answer is in: the gate opens or waits for the next tick.
Decide ==
    /\ gate = "inspect" /\ toInspect = {}
    /\ gate' = IF ok /\ Services \subseteq counted THEN "passed" ELSE "tick"
    /\ NewRound
    /\ UNCHANGED <<swarmVars, ctx, upd, faults>>

-----------------------------------------------------------------------------
GateStep ==
    \/ UpdatesReturn \/ ListServices \/ ListTasks \/ Decide
    \/ \E t \in Tasks : InspectContainer(t)

UpdateStep(s) == UpdateMonitorInspects(s) \/ UpdateMonitorCanceled(s)

SwarmStep ==
    \/ \E t \in Tasks :
          \/ TaskStarts(t) \/ HealthTurns(t) \/ TaskFails(t) \/ TaskStops(t)
          \/ DelayEnds(t) \/ TaskReplaced(t)
    \/ \E s \in Services : StatusMoves(s) \/ ServiceRemoved(s)

Next ==
    \/ GateStep \/ Deadline
    \/ \E s \in Services : UpdateStep(s)
    \/ SwarmStep \/ ContextEnds

Spec == Init /\ [][Next]_vars

\* Tickers tick and goroutines run; a select with both cases ready does not
\* take the ticker for ever.  Swarm and the context owe nothing.
FairSpec ==
    /\ Spec
    /\ WF_vars(GateStep) /\ SF_vars(Deadline)
    /\ \A s \in Services :
          WF_vars(UpdateMonitorInspects(s)) /\ SF_vars(UpdateMonitorCanceled(s))

-----------------------------------------------------------------------------
(***************************************************************************)
(* Properties.                                                             *)
(***************************************************************************)
Returned == gate \in {"passed", "timeout", "failed"}

\* Types; what is left to inspect was wanted by the deployment.
TypeOK ==
    /\ present \subseteq Services /\ checked \subseteq Services
    /\ status \in [Services -> {"nil", "updating", "completed", "paused",
                                "reverting", "reverted", "revertPaused"}]
    /\ phase \in [Tasks -> {"none", "delayed", "failed", "shutdown"} \cup Desired]
    /\ \A t \in Tasks : phase[t] \in Running => phase[t] \in RunningOf(Svc(t))
    /\ ctx \in BOOLEAN /\ ok \in BOOLEAN
    /\ upd \in [Services -> {"run", "passed", "failed"}]
    /\ gate \in {"updates", "tick", "tasks", "inspect", "passed", "timeout", "failed"}
    /\ counted \subseteq Services /\ wanted \subseteq Ours /\ healthy \subseteq Tasks
    /\ toInspect \subseteq wanted
    /\ faults \in 0..MaxFaults

Passes == gate # "passed" /\ gate' = "passed"

\* The gate opens only after a round in which every task of the deployment
\* that should run has been healthy, and every service had one, although what
\* is inspected may have exited by then and count all the same; and only if
\* Swarm has completed the update of every service that was updated: not while
\* one is going on, paused or reverted.
PassIsSound ==
    [][Passes => /\ wanted \subseteq healthy
                 /\ \A s \in Services :
                       /\ \E t \in wanted : Svc(t) = s
                       /\ status[s] \in {"nil", "completed"}]_vars

\* The end of the context ends the wait.
EndsWithContext == (~ctx) ~> Returned

AllWell ==
    /\ ctx /\ present = Services
    /\ \A s \in Services :
          /\ status[s] \in {"nil", "completed"}
          /\ \E t \in TasksOf(s) : phase[t] = "healthy"
    /\ \A t \in Ours : phase[t] \in Desired => phase[t] = "healthy"

\* A stack that stays well opens the gate.
WellOpens == <>[]AllWell => <>Returned

(***************************************************************************)
(* What a comment says and the code does not do.                           *)
(***************************************************************************)

\* "waits for all tasks of updated services to become healthy"
\* (waitForAllTasksHealthy): every replica has been healthy in the round.
EveryReplicaHealthy ==
    [][Passes => \A s \in Services :
          Cardinality(healthy \cap TasksOf(s)) >= Replicas]_vars
=============================================================================
