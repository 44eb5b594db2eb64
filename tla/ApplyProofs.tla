----------------------------- MODULE ApplyProofs -----------------------------
(***************************************************************************)
(* Theorems of module Apply, for every set of services and every number of *)
(* signals.  The invariants of the runs are not inductive one by one: what *)
(* the main goroutine has done, what the signal handler has done and what  *)
(* still runs have to be related at every phase, which IInv does.          *)
(***************************************************************************)
EXTENDS Apply, TLAPS

\* The phases before runApply knows what it returns.
Undecided == {"snapshot", "deploy", "updates", "health", "unwind", "stopping"}

Idle(goroutine) == \A s \in Services : goroutine[s] = "off"

NoUpdateMonitor == \A s \in Services : updmon[s] # "run"

Types ==
    /\ main \in Undecided \cup {"rollback", "drain", "exit"}
    /\ noWait \in BOOLEAN /\ healthDone \in BOOLEAN /\ verified \in BOOLEAN
    /\ ctx \in CtxStates /\ upd \in CtxStates
    /\ rbCtx \in {"none", "live", "expired"}
    /\ handler \in {"off", "wait", "caught", "sent", "done"}
    /\ signals \in 0..MaxSignals
    /\ sigChan \in BOOLEAN /\ errCh \in BOOLEAN /\ complete \in BOOLEAN
    /\ watcher \in [Services -> {"off", "run", "broken", "done"}]
    /\ taskmon \in [Services -> {"off", "run", "done"}]
    /\ watchErr \in BOOLEAN
    /\ updmon \in [Services -> {"off", "run", "done", "failed"}]
    /\ touched \subseteq Services /\ updated \subseteq touched
    /\ restored \subseteq touched
    /\ rollbacks \in {0, 1} /\ rbFailed \in BOOLEAN
    /\ result \in {"none", "ok", "error", "signal"}

\* runApply has decided on a result exactly when it left the undecided phases,
\* and it has rolled back only on the way from the rollback to the return.
Decided ==
    /\ result = "none" <=> main \in Undecided
    /\ main \in Undecided => rollbacks = 0
    /\ main = "rollback" => rollbacks = 1

\* The handler runs from the snapshot to the return.  Before the process exits
\* only the handler cancels the root context, and it has then sent its error,
\* which stays in the channel until the result is decided.
SignalOrder ==
    /\ main = "snapshot" => handler = "off"
    /\ handler = "off" => main \in {"snapshot", "exit"}
    /\ main = "exit" => handler \in {"off", "done"}
    /\ main # "exit" /\ handler \in {"off", "wait", "caught", "sent"} =>
          ctx # "canceled"
    /\ handler = "sent" /\ result = "none" => errCh
    /\ main # "exit" /\ handler = "done" /\ ctx = "canceled" /\ result = "none"
          => errCh

\* What still runs in each phase.
Running ==
    /\ main \in {"snapshot", "deploy"} =>
          Idle(watcher) /\ Idle(taskmon) /\ Idle(updmon)
    /\ main # "updates" => NoUpdateMonitor
    /\ \A s \in Services : updmon[s] = "run" => s \in updated
    /\ main \in {"rollback", "drain", "exit"} =>
          Stopped(watcher) /\ Stopped(taskmon)

\* What each phase says about the two gates.
Gates ==
    /\ verified => main \in {"stopping", "drain", "exit"}
    /\ main = "stopping" => verified
    /\ main \in {"health", "stopping"} => \A s \in updated : updmon[s] = "done"
    /\ RolledBackIffUnverified
    /\ OkMeansVerified

IInv == Types /\ Decided /\ SignalOrder /\ Running /\ Gates

-----------------------------------------------------------------------------
\* What tryGetSignalError leaves behind: an empty channel, and nil only where
\* nil was about to be returned.
LEMMA ReturnWithType ==
    ASSUME NEW r \in {"ok", "error"}, ReturnWith(r)
    PROVE  /\ result' \in {"ok", "error", "signal"} /\ errCh' \in BOOLEAN
           /\ result' = "ok" => r = "ok"
  BY DEF ReturnWith

LEMMA InitIInv == Init => IInv
<1> USE MaxSignalsAssumption DEF Init
<1>1. Init => Types
  <2>1. Init => /\ healthDone \in BOOLEAN /\ verified \in BOOLEAN
                /\ sigChan \in BOOLEAN /\ errCh \in BOOLEAN
                /\ complete \in BOOLEAN /\ watchErr \in BOOLEAN
                /\ rbFailed \in BOOLEAN
    BY Zenon
  <2>2. QED
    BY <2>1 DEF Types, Undecided, CtxStates
<1>2. Init => Decided /\ SignalOrder
  BY DEF Decided, SignalOrder, Undecided
<1>3. Init => Running
  BY DEF Running, Idle, Stopped, NoUpdateMonitor
<1>4. Init => Gates
  BY DEF Gates, RolledBackIffUnverified, OkMeansVerified
<1> QED
  BY <1>1, <1>2, <1>3, <1>4 DEF IInv

\* The main goroutine.
LEMMA MainKeepsIInv ==
    ASSUME IInv, MainStep
    PROVE  IInv'
<1> USE MaxSignalsAssumption DEF IInv, Types, Decided, SignalOrder, Running,
        Gates, RolledBackIffUnverified, OkMeansVerified, NoUpdateMonitor, Idle,
        Stopped, Undecided, CtxStates, mainVars, ctxVars, sigVars, watchVars,
        stackVars, EndCtx, WatchDone, UpdateGroupDone, UpdatesReturned
<1>1. ASSUME TakeSnapshot PROVE IInv'
  BY <1>1 DEF TakeSnapshot
<1>2. ASSUME SetupFails PROVE IInv'
  BY <1>2 DEF SetupFails
<1>3. ASSUME NEW s \in Services, DeployService(s) PROVE IInv'
  BY <1>3 DEF DeployService
<1>4. ASSUME DeployFails PROVE IInv'
  BY <1>4, ReturnWithType DEF DeployFails
<1>5. ASSUME ReturnUnmonitored PROVE IInv'
  BY <1>5, ReturnWithType DEF ReturnUnmonitored
<1>6. ASSUME StartMonitoring PROVE IInv'
  BY <1>6 DEF StartMonitoring
<1>7. ASSUME UpdatesPass PROVE IInv'
  BY <1>7 DEF UpdatesPass
<1>8. ASSUME GateFails PROVE IInv'
  BY <1>8 DEF GateFails
<1>9. ASSUME HealthPasses PROVE IInv'
  BY <1>9 DEF HealthPasses
<1>10. ASSUME BeginRollback PROVE IInv'
  BY <1>10, ReturnWithType DEF BeginRollback
<1>11. ASSUME NEW s \in Services, RestoreService(s) PROVE IInv'
  BY <1>11 DEF RestoreService
<1>12. ASSUME RollbackReturns PROVE IInv'
  BY <1>12 DEF RollbackReturns
<1>13. ASSUME FinishVerified PROVE IInv'
  <2>1. /\ result' \in {"ok", "error", "signal"} /\ errCh' \in BOOLEAN
        /\ result' = "ok" => ~watchErr
    BY <1>13, ReturnWithType DEF FinishVerified
  <2>2. QED
    BY <1>13, <2>1 DEF FinishVerified
<1>14. ASSUME RunDefers PROVE IInv'
  BY <1>14 DEF RunDefers
<1>15. ASSUME RollbackFails PROVE IInv'
  BY <1>15 DEF RollbackFails
<1> QED
  BY <1>1, <1>2, <1>3, <1>4, <1>5, <1>6, <1>7, <1>8, <1>9, <1>10, <1>11, <1>12, <1>13, <1>14,
     <1>15
     DEF MainStep, MainProgress, Deploying, Restoring

\* The signal handler.
LEMMA HandlerKeepsIInv ==
    ASSUME IInv, HandlerStep
    PROVE  IInv'
<1> USE MaxSignalsAssumption DEF IInv, Types, Decided, SignalOrder, Running,
        Gates, RolledBackIffUnverified, OkMeansVerified, NoUpdateMonitor, Idle,
        Stopped, Undecided, CtxStates, mainVars, ctxVars, sigVars, watchVars,
        stackVars, EndCtx, WatchDone, UpdateGroupDone, UpdatesReturned
<1>1. ASSUME HandlerReceives PROVE IInv'
  <2>1. sigChan' \in BOOLEAN
    BY <1>1 DEF HandlerReceives
  <2>2. QED
    BY <1>1, <2>1 DEF HandlerReceives
<1>2. ASSUME HandlerSends PROVE IInv'
  BY <1>2 DEF HandlerSends
<1>3. ASSUME HandlerCancels PROVE IInv'
  BY <1>3 DEF HandlerCancels
<1>4. ASSUME HandlerQuits PROVE IInv'
  BY <1>4 DEF HandlerQuits
<1> QED
  BY <1>1, <1>2, <1>3, <1>4
     DEF HandlerStep

\* The goroutines of one service.
LEMMA MonitorKeepsIInv ==
    ASSUME IInv, NEW s \in Services, MonitorStep(s)
    PROVE  IInv'
<1> USE MaxSignalsAssumption DEF IInv, Types, Decided, SignalOrder, Running,
        Gates, RolledBackIffUnverified, OkMeansVerified, NoUpdateMonitor, Idle,
        Stopped, Undecided, CtxStates, mainVars, ctxVars, sigVars, watchVars,
        stackVars, EndCtx, WatchDone, UpdateGroupDone, UpdatesReturned
<1>1. ASSUME WatcherBreaks(s) PROVE IInv'
  BY <1>1 DEF WatcherBreaks
<1>2. ASSUME WatcherReturns(s) PROVE IInv'
  BY <1>2 DEF WatcherReturns
<1>3. ASSUME TaskMonitorReturns(s) PROVE IInv'
  BY <1>3 DEF TaskMonitorReturns
<1>4. ASSUME UpdateSettles(s) PROVE IInv'
  BY <1>4 DEF UpdateSettles
<1>5. ASSUME UpdateMonitorCanceled(s) PROVE IInv'
  BY <1>5 DEF UpdateMonitorCanceled
<1> QED
  BY <1>1, <1>2, <1>3, <1>4, <1>5
     DEF MonitorStep

\* The operator and the timers.
LEMMA EnvironmentKeepsIInv ==
    ASSUME IInv, Environment
    PROVE  IInv'
<1> USE MaxSignalsAssumption DEF IInv, Types, Decided, SignalOrder, Running,
        Gates, RolledBackIffUnverified, OkMeansVerified, NoUpdateMonitor, Idle,
        Stopped, Undecided, CtxStates, mainVars, ctxVars, sigVars, watchVars,
        stackVars, EndCtx, WatchDone, UpdateGroupDone, UpdatesReturned
<1>1. ASSUME OperatorSignals PROVE IInv'
  BY <1>1 DEF OperatorSignals
<1>2. ASSUME Deadline PROVE IInv'
  BY <1>2 DEF Deadline
<1>3. ASSUME HealthTimeout PROVE IInv'
  BY <1>3 DEF HealthTimeout
<1>4. ASSUME RollbackTimeout PROVE IInv'
  BY <1>4 DEF RollbackTimeout
<1> QED
  BY <1>1, <1>2, <1>3, <1>4
     DEF Environment

LEMMA StutterKeepsIInv ==
    ASSUME IInv, UNCHANGED vars
    PROVE  IInv'
  BY DEF vars, mainVars, ctxVars, sigVars, watchVars, stackVars, IInv, Types,
         Decided, SignalOrder, Running, Gates, RolledBackIffUnverified,
         OkMeansVerified, NoUpdateMonitor, Idle, Stopped, Undecided, CtxStates

\* Every reachable state of an apply satisfies the inductive invariant.
THEOREM Invariance == Spec => []IInv
<1>1. IInv /\ [Next]_vars => IInv'
  BY MainKeepsIInv, HandlerKeepsIInv, MonitorKeepsIInv, EnvironmentKeepsIInv,
     StutterKeepsIInv DEF Next, Exited
<1>2. QED
  BY InitIInv, <1>1, PTL DEF Spec

-----------------------------------------------------------------------------
(***************************************************************************)
(* The invariants of the runs.                                             *)
(***************************************************************************)

\* Every variable keeps its type, and the rollback runs at most once, even when
\* a signal arrives while a gate fails (runSignalHandler only reports it).
THEOREM TypeCorrectness == Spec => []TypeOK
<1>1. IInv => TypeOK
  BY DEF IInv, Types, TypeOK, Undecided
<1>2. QED
  BY <1>1, Invariance, PTL

\* When the main goroutine sees the root context cancelled, the signal's error
\* is in the channel (runSignalHandler sends it first), so tryGetSignalError
\* finds it.
THEOREM SignalReported == Spec => []SignalNeverLost
<1>1. IInv => SignalNeverLost
  BY DEF IInv, Types, SignalOrder, SignalNeverLost
<1>2. QED
  BY <1>1, Invariance, PTL

\* The rollback starts after every watcher, task monitor and update monitor
\* has ended (the two Wait calls of runApply).
THEOREM RollbackIsQuiescent == Spec => []QuiescentRollback
<1>1. IInv => QuiescentRollback
  BY DEF IInv, Running, NoUpdateMonitor, QuiescentRollback
<1>2. QED
  BY <1>1, Invariance, PTL

\* A monitored deployment is rolled back if and only if it was not verified
\* (the failure paths of updateGroup.Wait and waitForAllTasksHealthy).
THEOREM RollbackExactlyWhenUnverified == Spec => []RolledBackIffUnverified
<1>1. IInv => RolledBackIffUnverified
  BY DEF IInv, Gates
<1>2. QED
  BY <1>1, Invariance, PTL

\* A nil result of a monitored deployment means that both gates passed and no
\* watcher failed (the only return nil at the end of runApply).
THEOREM SuccessIsVerified == Spec => []OkMeansVerified
<1>1. IInv => OkMeansVerified
  BY DEF IInv, Gates
<1>2. QED
  BY <1>1, Invariance, PTL

\* No goroutine outlives runApply (errgroup.Wait and signalWG.Wait).
THEOREM NothingOutlivesApply == Spec => []NoOrphans
<1>1. IInv => NoOrphans
  BY DEF IInv, SignalOrder, Running, NoUpdateMonitor, NoOrphans
<1>2. QED
  BY <1>1, Invariance, PTL

-----------------------------------------------------------------------------
(***************************************************************************)
(* Refinement.  Monitoring starts when every service is new, and nothing   *)
(* is restored before the rollback.                                        *)
(***************************************************************************)
Whole ==
    /\ main \in {"updates", "health", "unwind", "stopping"} => touched = Services
    /\ main # "rollback" /\ rollbacks = 0 => restored = {} /\ ~rbFailed
    /\ main = "rollback" => ~rbFailed /\ touched = Services

RInv == IInv /\ Whole

LEMMA RefinementInvariance == Spec => []RInv
<1>1. Init => Whole
  BY DEF Init, Whole
<1>2. ASSUME IInv, Whole, [Next]_vars PROVE Whole'
  <2> USE <1>2 DEF IInv, Types, Decided, Whole, Undecided, mainVars, ctxVars,
          sigVars, watchVars, stackVars
  <2>1. ASSUME MainStep PROVE Whole'
    BY <2>1 DEF MainStep, MainProgress, Deploying, Restoring, TakeSnapshot,
       SetupFails, DeployService, DeployFails, ReturnUnmonitored,
       StartMonitoring, UpdatesPass, GateFails, HealthPasses, BeginRollback,
       RestoreService, RollbackReturns, RollbackFails, FinishVerified, RunDefers
  <2>2. ASSUME HandlerStep PROVE Whole'
    BY <2>2 DEF HandlerStep, HandlerReceives, HandlerSends, HandlerCancels,
       HandlerQuits
  <2>3. ASSUME NEW s \in Services, MonitorStep(s) PROVE Whole'
    BY <2>3 DEF MonitorStep, WatcherBreaks, WatcherReturns,
       TaskMonitorReturns, UpdateSettles, UpdateMonitorCanceled
  <2>4. ASSUME Environment PROVE Whole'
    BY <2>4 DEF Environment, OperatorSignals, Deadline, HealthTimeout,
       RollbackTimeout
  <2>5. ASSUME UNCHANGED vars PROVE Whole'
    BY <2>5 DEF vars
  <2> QED
    BY <2>1, <2>2, <2>3, <2>4, <2>5 DEF Next, Exited
<1>3. QED
  BY <1>1, <1>2, Invariance, PTL DEF Spec, RInv

\* What the transaction sees of the process.
Seen == <<main, touched, restored, rollbacks, verified, result, rbFailed, rbCtx>>

LEMMA UnseenIsStutter ==
    ASSUME UNCHANGED Seen
    PROVE  UNCHANGED Txn!vars
<1>1. UNCHANGED spec
  BY DEF Seen, spec
<1>2. UNCHANGED phase
  BY DEF Seen, phase, Returning, StackKept, StackUndone
<1>3. QED
  BY <1>1, <1>2 DEF Txn!vars

\* A transaction begins with every service old.
LEMMA InitIsTxnInit == Init => Txn!Init
  BY DEF Init, Txn!Init, spec, phase, Returning, StackKept, StackUndone

\* Each step of the main goroutine is a step of the transaction or none.
LEMMA MainStepIsTxnStep ==
    ASSUME RInv, MainStep
    PROVE  [Txn!Next]_(Txn!vars)
<1> USE DEF RInv, IInv, Types, Decided, Gates, Whole, Undecided, mainVars, ctxVars,
        sigVars, watchVars, stackVars
<1>1. ASSUME TakeSnapshot \/ StartMonitoring \/ UpdatesPass \/ GateFails
             \/ HealthPasses
      PROVE  UNCHANGED Txn!vars
  <2>1. UNCHANGED spec
    BY <1>1 DEF TakeSnapshot, StartMonitoring, UpdatesPass, GateFails,
       HealthPasses, spec
  <2>2. phase = "open" /\ phase' = "open"
    BY <1>1 DEF TakeSnapshot, StartMonitoring, UpdatesPass, GateFails,
       HealthPasses, phase, Returning, StackKept, StackUndone
  <2>3. QED
    BY <2>1, <2>2 DEF Txn!vars
<1>2. ASSUME SetupFails \/ DeployFails PROVE Txn!GiveUp
  <2>1. UNCHANGED spec
    BY <1>2 DEF SetupFails, DeployFails, ReturnWith, spec
  <2>2. result' # "ok"
    BY <1>2 DEF SetupFails, DeployFails, ReturnWith
  <2>3. phase = "open" /\ phase' = "half"
    BY <1>2, <2>2 DEF SetupFails, DeployFails, phase, Returning, StackKept, StackUndone
  <2>4. QED
    BY <2>1, <2>3 DEF Txn!GiveUp
<1>3. ASSUME NEW s \in Services, DeployService(s) PROVE Txn!Deploy(s)
  <2>1. phase = "open" /\ phase' = "open"
    BY <1>3 DEF DeployService, phase, Returning, StackKept, StackUndone
  <2>2. spec' = [spec EXCEPT ![s] = "new"]
    BY <1>3 DEF DeployService, spec
  <2>3. QED
    BY <2>1, <2>2 DEF Txn!Deploy, Txn!SetSpec
<1>4. ASSUME ReturnUnmonitored PROVE Txn!Keep \/ Txn!GiveUp
  <2>1. UNCHANGED spec /\ \A s \in Services : spec[s] = "new"
    BY <1>4 DEF ReturnUnmonitored, spec
  <2>2. phase = "open" /\ phase' \in {"kept", "half"}
    BY <1>4 DEF ReturnUnmonitored, phase, Returning, StackKept, StackUndone
  <2>3. QED
    BY <2>1, <2>2 DEF Txn!Keep, Txn!GiveUp
<1>5. ASSUME BeginRollback PROVE Txn!BeginUndo
  <2>1. UNCHANGED spec /\ \A s \in Services : spec[s] = "new"
    BY <1>5 DEF BeginRollback, spec
  <2>2. phase = "open" /\ phase' = "undoing"
    BY <1>5 DEF BeginRollback, phase, Returning, StackKept, StackUndone
  <2>3. QED
    BY <2>1, <2>2 DEF Txn!BeginUndo
<1>6. ASSUME NEW s \in Services, RestoreService(s) PROVE Txn!Undo(s) /\ phase' = "undoing"
  <2>1. phase = "undoing" /\ phase' = "undoing"
    BY <1>6 DEF RestoreService, phase, Returning, StackKept, StackUndone
  <2>2. spec' = [spec EXCEPT ![s] = "old"]
    BY <1>6 DEF RestoreService, spec
  <2>3. QED
    BY <2>1, <2>2 DEF Txn!Undo, Txn!SetSpec
<1>7. ASSUME RollbackReturns PROVE Txn!Undone \/ Txn!GiveUp
  <2>1. UNCHANGED spec
    BY <1>7 DEF RollbackReturns, spec
  <2>2. phase = "undoing"
    BY <1>7 DEF RollbackReturns, phase, Returning, StackKept, StackUndone
  <2>3. CASE restored = touched /\ rbCtx # "expired"
    <3>1. \A s \in Services : spec[s] = "old"
      BY <2>3 DEF spec
    <3>2. phase' = "undone"
      BY <1>7, <2>3 DEF RollbackReturns, phase, Returning, StackKept, StackUndone
    <3>3. QED
      BY <2>1, <2>2, <3>1, <3>2 DEF Txn!Undone
  <2>4. CASE rbCtx = "expired"
    <3>1. phase' = "half"
      BY <1>7, <2>4 DEF RollbackReturns, phase, Returning, StackKept, StackUndone
    <3>2. QED
      BY <2>1, <2>2, <3>1 DEF Txn!GiveUp
  <2>5. QED
    BY <1>7, <2>3, <2>4 DEF RollbackReturns
<1>8. ASSUME RollbackFails PROVE Txn!GiveUp
  <2>1. UNCHANGED spec
    BY <1>8 DEF RollbackFails, spec
  <2>2. phase = "undoing" /\ phase' = "half"
    BY <1>8 DEF RollbackFails, phase, Returning, StackKept, StackUndone
  <2>3. QED
    BY <2>1, <2>2 DEF Txn!GiveUp
<1>9. ASSUME FinishVerified PROVE Txn!Keep
  <2>1. UNCHANGED spec /\ \A s \in Services : spec[s] = "new"
    BY <1>9 DEF FinishVerified, ReturnWith, spec
  <2>2. phase = "open" /\ phase' = "kept"
    BY <1>9 DEF FinishVerified, phase, Returning, StackKept, StackUndone
  <2>3. QED
    BY <2>1, <2>2 DEF Txn!Keep
<1>10. ASSUME RunDefers PROVE UNCHANGED Txn!vars
  <2>1. UNCHANGED spec
    BY <1>10 DEF RunDefers, spec
  <2>2. UNCHANGED phase
    BY <1>10 DEF RunDefers, phase, Returning, StackKept, StackUndone
  <2>3. QED
    BY <2>1, <2>2 DEF Txn!vars
<1> QED
  BY <1>1, <1>2, <1>3, <1>4, <1>5, <1>6, <1>7, <1>8, <1>9, <1>10
     DEF MainStep, MainProgress, Deploying, Restoring, Txn!Next

\* The other goroutines, the operator and the timers leave the transaction
\* alone: a timeout of the rollback shows when Rollback returns.
LEMMA OtherStepIsStutter ==
    ASSUME HandlerStep \/ Environment \/ UNCHANGED vars
           \/ \E s \in Services : MonitorStep(s)
    PROVE  UNCHANGED Txn!vars
<1> USE UnseenIsStutter DEF Seen, mainVars, ctxVars, sigVars, watchVars, stackVars
<1>1. ASSUME HandlerStep PROVE UNCHANGED Txn!vars
  BY <1>1 DEF HandlerStep, HandlerReceives, HandlerSends, HandlerCancels,
     HandlerQuits
<1>2. ASSUME NEW s \in Services, MonitorStep(s) PROVE UNCHANGED Txn!vars
  BY <1>2 DEF MonitorStep, WatcherBreaks, WatcherReturns, TaskMonitorReturns,
     UpdateSettles, UpdateMonitorCanceled
<1>3. ASSUME OperatorSignals \/ Deadline \/ HealthTimeout
      PROVE  UNCHANGED Txn!vars
  BY <1>3 DEF OperatorSignals, Deadline, HealthTimeout
<1>4. ASSUME RollbackTimeout PROVE UNCHANGED Txn!vars
  <2>1. UNCHANGED spec
    BY <1>4 DEF RollbackTimeout, spec
  <2>2. UNCHANGED phase
    BY <1>4 DEF RollbackTimeout, phase, Returning, StackKept, StackUndone
  <2>3. QED
    BY <2>1, <2>2 DEF Txn!vars
<1>5. ASSUME UNCHANGED vars PROVE UNCHANGED Txn!vars
  BY <1>5 DEF vars
<1> QED
  BY <1>1, <1>2, <1>3, <1>4, <1>5 DEF Environment

\* An apply is a transaction over the services of its compose file, whatever
\* signal, timer or failed call ends it: runApply gives up, keeps what is new
\* throughout, or rolls all of it back.
THEOREM ApplyIsTransaction == Spec => ImplementsTxn
<1>1. RInv /\ [Next]_vars => [Txn!Next]_(Txn!vars)
  BY MainStepIsTxnStep, OtherStepIsStutter DEF Next, Exited
<1>2. QED
  BY InitIsTxnInit, <1>1, RefinementInvariance, PTL
     DEF Spec, ImplementsTxn, Txn!Spec

-----------------------------------------------------------------------------
(***************************************************************************)
(* What can end an apply.  The signal handler is waited for before what    *)
(* would end it, so that it outlives everything but a signal and the       *)
(* deadline; and nothing but a failed gate leads to the rollback.          *)
(***************************************************************************)

\* The handler ends after a signal or by the deadline, and an error in the
\* channel is that of a signal.  No monitoring, no gate, no rollback.
Occasions ==
    /\ complete => main = "exit"
    /\ sigChan \/ errCh \/ handler \in {"caught", "sent"} => signals > 0
    /\ handler = "done" /\ signals = 0 => ctx = "deadline"
    /\ result = "signal" => signals > 0
    /\ main \in {"updates", "health", "unwind", "rollback", "stopping"} =>
          updated # {} /\ \A s \in updated : watcher[s] # "off"
    /\ rollbacks = 1 => updated # {} /\ \A s \in updated : watcher[s] # "off"

OInv == IInv /\ Occasions

LEMMA OccasionsInvariance == Spec => []OInv
<1>1. Init => Occasions
  BY DEF Init, Occasions
<1>2. ASSUME IInv, Occasions, [Next]_vars PROVE Occasions'
  <2> USE <1>2, MaxSignalsAssumption DEF IInv, Types, Decided, SignalOrder, Running,
          Occasions, Undecided, CtxStates, EndCtx, mainVars, ctxVars, sigVars,
          watchVars, stackVars
  <2>1. ASSUME TakeSnapshot \/ SetupFails PROVE Occasions'
    BY <2>1 DEF TakeSnapshot, SetupFails
  <2>2. ASSUME NEW s \in Services, DeployService(s) \/ RestoreService(s) PROVE Occasions'
    BY <2>2 DEF DeployService, RestoreService
  <2>3. ASSUME DeployFails \/ ReturnUnmonitored \/ FinishVerified PROVE Occasions'
    BY <2>3 DEF DeployFails, ReturnUnmonitored, FinishVerified, ReturnWith
  <2>4. ASSUME StartMonitoring PROVE Occasions'
    BY <2>4 DEF StartMonitoring
  <2>5. ASSUME UpdatesPass \/ GateFails \/ HealthPasses PROVE Occasions'
    BY <2>5 DEF UpdatesPass, GateFails, HealthPasses
  <2>6. ASSUME BeginRollback PROVE Occasions'
    BY <2>6 DEF BeginRollback, ReturnWith
  <2>7. ASSUME RollbackReturns \/ RollbackFails \/ RunDefers PROVE Occasions'
    BY <2>7 DEF RollbackReturns, RollbackFails, RunDefers
  <2>8. ASSUME HandlerStep PROVE Occasions'
    BY <2>8 DEF HandlerStep, HandlerReceives, HandlerSends, HandlerCancels,
       HandlerQuits
  <2>9. ASSUME NEW s \in Services, MonitorStep(s) PROVE Occasions'
    BY <2>9 DEF MonitorStep, WatcherBreaks, WatcherReturns, TaskMonitorReturns,
       UpdateSettles, UpdateMonitorCanceled
  <2>10. ASSUME Environment PROVE Occasions'
    BY <2>10 DEF Environment, OperatorSignals, Deadline, HealthTimeout,
       RollbackTimeout
  <2>11. ASSUME UNCHANGED vars PROVE Occasions'
    BY <2>11 DEF vars
  <2> QED
    BY <2>1, <2>2, <2>3, <2>4, <2>5, <2>6, <2>7, <2>8, <2>9, <2>10, <2>11
       DEF Next, Exited, MainStep, MainProgress, Deploying, Restoring
<1>3. QED
  BY <1>1, <1>2, Invariance, PTL DEF Spec, OInv

\* However an apply went that has come past its snapshot, with or without
\* --no-wait: without a signal its process does not exit before the deadline
\* (signalWG.Wait() runs before close(deploymentComplete) and cancel()).
ExitNeedsSignalOrDeadline ==
    main = "exit" /\ handler # "off" /\ signals = 0 => ctx = "deadline"

THEOREM ExitIsLate == Spec => []ExitNeedsSignalOrDeadline
<1>1. OInv => ExitNeedsSignalOrDeadline
  BY DEF OInv, IInv, Types, SignalOrder, Occasions, ExitNeedsSignalOrDeadline
<1> QED
  BY <1>1, OccasionsInvariance, PTL

\* An interruption is reported only if there was one (tryGetSignalError).
InterruptionIsReal == result = "signal" => signals > 0

THEOREM NoFalseInterruption == Spec => []InterruptionIsReal
<1>1. OInv => InterruptionIsReal
  BY DEF OInv, Occasions, InterruptionIsReal
<1> QED
  BY <1>1, OccasionsInvariance, PTL

\* An apply that never came to monitor its services, for --no-wait or because
\* Deploy failed or was interrupted, has not rolled back and never will,
\* whatever it had changed by then (runApply calls Rollback for a failed gate
\* only).
OnlyMonitoredRollsBack ==
    (\A s \in Services : watcher[s] = "off") => rollbacks = 0 /\ restored = {}

THEOREM RollbackOnlyAfterGates == Spec => []OnlyMonitoredRollsBack
<1>1. OInv /\ Whole => OnlyMonitoredRollsBack
  BY DEF OInv, IInv, Types, Decided, Occasions, Whole, OnlyMonitoredRollsBack
<1> QED
  BY <1>1, OccasionsInvariance, RefinementInvariance, PTL DEF RInv

-----------------------------------------------------------------------------
(***************************************************************************)
(* Why an apply ends.  Liveness stays with TLC; what can be proved of it   *)
(* for every instance is that nobody waits for somebody who cannot move.   *)
(***************************************************************************)

\* A parent context takes its children with it, updateCancel() comes before the
\* wait for watchersGroup, and the rollback has a context of its own.
Released ==
    /\ ctx # "live" => upd # "live"
    /\ main \in {"unwind", "stopping"} => WatchDone
    /\ main = "rollback" => rbCtx # "none"

LEMMA ReleasedInvariance == Spec => []Released
<1>1. Init => Released
  BY DEF Init, Released
<1>2. ASSUME Released, [Next]_vars PROVE Released'
  <2> USE <1>2 DEF Released, WatchDone, EndCtx, mainVars, ctxVars, sigVars,
          watchVars, stackVars
  <2>1. ASSUME MainStep PROVE Released'
    BY <2>1 DEF MainStep, MainProgress, Deploying, Restoring, TakeSnapshot,
       SetupFails, DeployService, DeployFails, ReturnUnmonitored,
       StartMonitoring, UpdatesPass, GateFails, HealthPasses, BeginRollback,
       RestoreService, RollbackReturns, RollbackFails, FinishVerified, RunDefers
  <2>2. ASSUME HandlerStep PROVE Released'
    BY <2>2 DEF HandlerStep, HandlerReceives, HandlerSends, HandlerCancels,
       HandlerQuits
  <2>3. ASSUME NEW s \in Services, MonitorStep(s) PROVE Released'
    BY <2>3 DEF MonitorStep, WatcherBreaks, WatcherReturns,
       TaskMonitorReturns, UpdateSettles, UpdateMonitorCanceled
  <2>4. ASSUME Environment PROVE Released'
    BY <2>4 DEF Environment, OperatorSignals, Deadline, HealthTimeout,
       RollbackTimeout
  <2>5. ASSUME UNCHANGED vars PROVE Released'
    BY <2>5 DEF vars
  <2> QED
    BY <2>1, <2>2, <2>3, <2>4, <2>5 DEF Next, Exited
<1>3. QED
  BY <1>1, <1>2, PTL DEF Spec

\* The guards of MainProgress, phase by phase.
MainCanStep ==
    \/ main \in {"snapshot", "deploy"}
    \/ main = "updates" /\ UpdatesReturned
    \/ main = "health" /\ (healthDone \/ upd # "live")
    \/ main \in {"unwind", "stopping"} /\ Stopped(watcher) /\ Stopped(taskmon)
    \/ main = "rollback" /\ (restored = touched \/ rbCtx \in {"live", "expired"})
    \/ main = "drain" /\ handler = "done"

\* The guards of those whom the main goroutine waits for in its phase, without a
\* timer, a signal to come or anything Swarm would have to do.
WatcherCanReturn(s) == watcher[s] \in {"run", "broken"} /\ WatchDone
TaskMonitorCanReturn(s) == taskmon[s] = "run" /\ WatchDone
UpdateMonitorCanReturn(s) == updmon[s] = "run" /\ UpdateGroupDone
HandlerCanStep ==
    \/ handler \in {"caught", "sent"}
    \/ handler = "wait" /\ (sigChan \/ ctx # "live" \/ complete)

AwaitedCanStep ==
    \/ main = "updates" /\ \E s \in updated : UpdateMonitorCanReturn(s)
    \/ /\ main \in {"unwind", "stopping"}
       /\ \E s \in Services : WatcherCanReturn(s) \/ TaskMonitorCanReturn(s)
    \/ main = "drain" /\ HandlerCanStep

\* Once a gate has failed or both have passed, and in any phase once the root
\* context is done, runApply is not stuck: it can go on, or one of those it
\* waits for can (updateGroup.Wait, watchersGroup.Wait, signalWG.Wait).
NobodyStuck ==
    main # "exit" /\ (ctx # "live" \/ main \in {"unwind", "stopping", "rollback"})
        => MainCanStep \/ AwaitedCanStep

THEOREM WaitsAreReleased == Spec => []NobodyStuck
<1>1. ASSUME IInv, Released, main # "exit",
             ctx # "live" \/ main \in {"unwind", "stopping", "rollback"}
      PROVE  MainCanStep \/ AwaitedCanStep
  <2>1. CASE main \in {"snapshot", "deploy", "health"}
    BY <1>1, <2>1 DEF Released, MainCanStep
  <2>2. CASE main = "updates"
    <3>1. upd # "live"
      BY <1>1, <2>2 DEF Released
    <3> QED
      BY <2>2, <3>1 DEF MainCanStep, AwaitedCanStep, UpdatesReturned,
         UpdateMonitorCanReturn, UpdateGroupDone
  <2>3. CASE main \in {"unwind", "stopping"}
    <3>1. WatchDone
      BY <1>1, <2>3 DEF Released
    <3>2. \A s \in Services :
              /\ watcher[s] \in {"run", "broken"} \/ watcher[s] \in {"off", "done"}
              /\ taskmon[s] = "run" \/ taskmon[s] \in {"off", "done"}
      BY <1>1 DEF IInv, Types
    <3> QED
      BY <2>3, <3>1, <3>2 DEF MainCanStep, AwaitedCanStep, Stopped,
         WatcherCanReturn, TaskMonitorCanReturn
  <2>4. CASE main = "rollback"
    BY <1>1, <2>4 DEF IInv, Types, Released, MainCanStep
  <2>5. CASE main = "drain"
    BY <1>1, <2>5 DEF IInv, Types, SignalOrder, MainCanStep, AwaitedCanStep,
       HandlerCanStep
  <2> QED
    BY <1>1, <2>1, <2>2, <2>3, <2>4, <2>5 DEF IInv, Types, Undecided
<1>2. IInv /\ Released => NobodyStuck
  BY <1>1 DEF NobodyStuck
<1> QED
  BY <1>2, Invariance, ReleasedInvariance, PTL
=============================================================================
