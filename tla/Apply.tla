------------------------------- MODULE Apply -------------------------------
(***************************************************************************)
(* The life of one `stackman apply` process: cmd/apply.go runApply and the *)
(* goroutines it starts (signal handler, one watcher, one task monitor and *)
(* one update monitor per updated service), the tree of contexts that      *)
(* stops them, the one-slot channel of the signal error and the deferred   *)
(* calls that run when runApply returns.                                   *)
(*                                                                         *)
(* The calls to the Swarm API are seen from above: deploying a service and *)
(* restoring it are one step each, and each may fail (module Deployer      *)
(* looks inside).                                                          *)
(***************************************************************************)
EXTENDS Naturals, FiniteSets

CONSTANTS
    Services,    \* the services of the compose file
    MaxSignals   \* how many SIGINT/SIGTERM the operator sends at most

ASSUME ServicesAssumption == IsFiniteSet(Services) /\ Services # {}
ASSUME MaxSignalsAssumption == MaxSignals \in Nat

VARIABLES
    main,       \* where the goroutine of runApply is
    noWait,     \* ApplyOptions.NoWait
    ctx,        \* the root context: live, or why it is done
    upd,        \* updateCtx, a child of ctx
    healthDone, \* the timeout of healthCtx, a child of updateCtx, fired
    rbCtx,      \* rollbackCtx, a child of context.Background()
    handler,    \* where the goroutine of runSignalHandler is
    signals,    \* signals sent so far
    sigChan,    \* sigChan (one slot) holds a signal
    errCh,      \* signalErrCh (one slot) holds an error
    complete,   \* deploymentComplete is closed
    watcher,    \* per service: the goroutine of runServiceWatcher
    taskmon,    \* per service: the goroutine of monitorServiceTasks
    watchErr,   \* watchersGroup holds an error
    updmon,     \* per service: the goroutine of runServiceUpdateMonitor
    touched,    \* services whose spec in the cluster this apply changed
    updated,    \* DeploymentResult.UpdatedServices
    restored,   \* services the rollback put back
    rollbacks,  \* how many times snapshot.Rollback was called
    rbFailed,   \* an API call of the rollback failed
    verified,   \* the update gate and the health gate have both passed
    result      \* what runApply returns: nil, the signal's error, another one

mainVars  == <<main, noWait, result, verified>>
ctxVars   == <<ctx, upd, healthDone, rbCtx>>
sigVars   == <<handler, signals, sigChan, errCh, complete>>
watchVars == <<watcher, taskmon, watchErr>>
stackVars == <<touched, updated, restored, rollbacks, rbFailed>>
vars == <<mainVars, ctxVars, sigVars, watchVars, updmon, stackVars>>

(***************************************************************************)
(* Contexts.  A child is done as soon as its parent is and keeps the       *)
(* reason of whichever came first.                                         *)
(***************************************************************************)
CtxStates == {"live", "canceled", "deadline"}

\* cancel() or the deadline of the root context, and the child that follows it.
EndCtx(why) ==
    /\ ctx' = IF ctx = "live" THEN why ELSE ctx
    /\ upd' = IF upd = "live" THEN why ELSE upd

\* A goroutine of watchersGroup only fails once its context is done, so the
\* group's own cancellation never stops the others first.
WatchDone == upd # "live"

\* updateGroup also cancels its context at the first error.
UpdateGroupDone == upd # "live" \/ \E s \in Services : updmon[s] = "failed"

Stopped(goroutine) == \A s \in Services : goroutine[s] \in {"off", "done"}

\* tryGetSignalError: the pending signal error, or the result given.
ReturnWith(r) ==
    /\ result' = IF errCh THEN "signal" ELSE r
    /\ errCh' = FALSE

Init ==
    /\ main = "snapshot"
    /\ noWait \in BOOLEAN
    /\ ctx = "live" /\ upd = "live" /\ healthDone = FALSE /\ rbCtx = "none"
    /\ handler = "off" /\ signals = 0 /\ sigChan = FALSE /\ errCh = FALSE
    /\ complete = FALSE
    /\ watcher = [s \in Services |-> "off"]
    /\ taskmon = [s \in Services |-> "off"]
    /\ watchErr = FALSE
    /\ updmon = [s \in Services |-> "off"]
    /\ touched = {} /\ updated = {} /\ restored = {}
    /\ rollbacks = 0 /\ rbFailed = FALSE /\ verified = FALSE
    /\ result = "none"

-----------------------------------------------------------------------------
(***************************************************************************)
(* The main goroutine, up to the end of Deploy.                            *)
(***************************************************************************)

\* The snapshot succeeds: the signal handler is started and its WaitGroup
\* and channel are put on the stack of deferred calls.
TakeSnapshot ==
    /\ main = "snapshot" /\ ctx = "live"
    /\ main' = "deploy"
    /\ handler' = "wait"
    /\ UNCHANGED <<noWait, result, verified, ctxVars, signals, sigChan, errCh,
                   complete, watchVars, updmon, stackVars>>

\* The client, the compose file or the snapshot fails: nothing is deployed
\* and no handler runs, so runApply returns at once.
SetupFails ==
    /\ main = "snapshot"
    /\ main' = "exit" /\ result' = "error"
    /\ EndCtx("canceled")
    /\ UNCHANGED <<noWait, verified, healthDone, rbCtx, sigVars, watchVars,
                   updmon, stackVars>>

\* Deploy changes one service; whether it is reported as changed depends on
\* the tasks the orchestrator has created by then.
DeployService(s) ==
    /\ main = "deploy" /\ ctx = "live" /\ s \notin touched
    /\ touched' = touched \cup {s}
    /\ \/ updated' = updated \cup {s}
       \/ updated' = updated
    /\ UNCHANGED <<mainVars, ctxVars, sigVars, watchVars, updmon, restored,
                   rollbacks, rbFailed>>

\* An API call of Deploy fails (a done context makes every call fail).
DeployFails ==
    /\ main = "deploy"
    /\ main' = "drain"
    /\ ReturnWith("error")
    /\ UNCHANGED <<noWait, verified, ctxVars, handler, signals, sigChan,
                   complete, watchVars, updmon, stackVars>>

\* --no-wait, or no service reported as changed: return without monitoring.
ReturnUnmonitored ==
    /\ main = "deploy" /\ touched = Services
    /\ noWait \/ updated = {}
    /\ main' = "drain"
    /\ ReturnWith("ok")
    /\ UNCHANGED <<noWait, verified, ctxVars, handler, signals, sigChan,
                   complete, watchVars, updmon, stackVars>>

\* A watcher, a task monitor and an update monitor per reported service.
StartMonitoring ==
    /\ main = "deploy" /\ touched = Services
    /\ ~noWait /\ updated # {}
    /\ main' = "updates"
    /\ LET start == [s \in Services |-> IF s \in updated THEN "run" ELSE "off"]
       IN  watcher' = start /\ taskmon' = start /\ updmon' = start
    /\ UNCHANGED <<noWait, result, verified, ctxVars, sigVars, watchErr,
                   stackVars>>

-----------------------------------------------------------------------------
(***************************************************************************)
(* The main goroutine: the two gates, the rollback and the return.         *)
(***************************************************************************)

UpdatesReturned == \A s \in updated : updmon[s] # "run"

\* Fault: the error of updateGroup.Wait() is dropped.
UpdatesPassAnyway ==
    /\ main = "updates" /\ UpdatesReturned
    /\ main' = "health"
    /\ UNCHANGED <<noWait, result, verified, ctxVars, sigVars, watchVars,
                   updmon, stackVars>>

UpdatesPass ==
    /\ main = "updates" /\ \A s \in updated : updmon[s] = "done"
    /\ main' = "health"
    /\ UNCHANGED <<noWait, result, verified, ctxVars, sigVars, watchVars,
                   updmon, stackVars>>

\* updateCancel() after a gate failed; main then waits for watchersGroup.
GateFails ==
    /\ \/ main = "updates" /\ UpdatesReturned
                           /\ \E s \in updated : updmon[s] = "failed"
       \/ main = "health" /\ (healthDone \/ upd # "live")
    /\ main' = "unwind"
    /\ upd' = IF upd = "live" THEN "canceled" ELSE upd
    /\ UNCHANGED <<noWait, result, verified, ctx, healthDone, rbCtx, sigVars,
                   watchVars, updmon, stackVars>>

\* A tick of waitForAllTasksHealthy finds every service healthy.
HealthPasses ==
    /\ main = "health" /\ ~healthDone /\ upd = "live"
    /\ main' = "stopping" /\ verified' = TRUE
    /\ upd' = "canceled"
    /\ UNCHANGED <<noWait, result, ctx, healthDone, rbCtx, sigVars, watchVars,
                   updmon, stackVars>>

\* Fault: watchersGroup is not waited for.
BeginRollbackAtOnce ==
    /\ main = "unwind"
    /\ main' = "rollback"
    /\ rbCtx' = "live" /\ rollbacks' = rollbacks + 1
    /\ ReturnWith("error")
    /\ UNCHANGED <<noWait, verified, ctx, upd, healthDone, handler, signals,
                   sigChan, complete, watchVars, updmon, touched, updated,
                   restored, rbFailed>>

\* Fault: the signal's error is returned before the rollback.
BeginRollbackUnlessSignal ==
    /\ main = "unwind" /\ Stopped(watcher) /\ Stopped(taskmon)
    /\ main' = IF errCh THEN "drain" ELSE "rollback"
    /\ rbCtx' = "live"
    /\ rollbacks' = IF errCh THEN rollbacks ELSE rollbacks + 1
    /\ ReturnWith("error")
    /\ UNCHANGED <<noWait, verified, ctx, upd, healthDone, handler, signals,
                   sigChan, complete, watchVars, updmon, touched, updated,
                   restored, rbFailed>>

\* watchersGroup.Wait() returned after a failed gate: a fresh context, the
\* signal's error if there is one, and the rollback.
BeginRollback ==
    /\ main = "unwind" /\ Stopped(watcher) /\ Stopped(taskmon)
    /\ main' = "rollback"
    /\ rbCtx' = "live" /\ rollbacks' = rollbacks + 1
    /\ ReturnWith("error")
    /\ UNCHANGED <<noWait, verified, ctx, upd, healthDone, handler, signals,
                   sigChan, complete, watchVars, updmon, touched, updated,
                   restored, rbFailed>>

\* Fault: the rollback runs under the context of the deployment.
RestoreServiceUnderCtx(s) ==
    /\ main = "rollback" /\ ctx = "live" /\ s \in touched \ restored
    /\ restored' = restored \cup {s}
    /\ UNCHANGED <<mainVars, ctxVars, sigVars, watchVars, updmon, touched,
                   updated, rollbacks, rbFailed>>

RestoreService(s) ==
    /\ main = "rollback" /\ rbCtx = "live" /\ s \in touched \ restored
    /\ restored' = restored \cup {s}
    /\ UNCHANGED <<mainVars, ctxVars, sigVars, watchVars, updmon, touched,
                   updated, rollbacks, rbFailed>>

\* Fault: a service that cannot be restored is passed over.
RollbackReturnsAnyway ==
    /\ main = "rollback"
    /\ main' = "drain"
    /\ UNCHANGED <<noWait, result, verified, ctxVars, sigVars, watchVars,
                   updmon, stackVars>>

\* Rollback has put everything back, or its context has ended.
RollbackReturns ==
    /\ main = "rollback" /\ (restored = touched \/ rbCtx = "expired")
    /\ main' = "drain"
    /\ UNCHANGED <<noWait, result, verified, ctxVars, sigVars, watchVars,
                   updmon, stackVars>>

\* Rollback stops at the first API error, which snapshot.Rollback only logs.
RollbackFails ==
    /\ main = "rollback" /\ restored # touched
    /\ main' = "drain"
    /\ rbFailed' = TRUE
    /\ UNCHANGED <<noWait, result, verified, ctxVars, sigVars, watchVars,
                   updmon, touched, updated, restored, rollbacks>>

\* watchersGroup.Wait() returned after both gates passed.
FinishVerified ==
    /\ main = "stopping" /\ Stopped(watcher) /\ Stopped(taskmon)
    /\ main' = "drain"
    /\ ReturnWith(IF watchErr THEN "error" ELSE "ok")
    /\ UNCHANGED <<noWait, verified, ctxVars, handler, signals, sigChan,
                   complete, watchVars, updmon, stackVars>>

\* Fault: signalWG is not waited for.
RunDefersAtOnce ==
    /\ main = "drain"
    /\ main' = "exit"
    /\ complete' = TRUE
    /\ EndCtx("canceled")
    /\ UNCHANGED <<noWait, result, verified, healthDone, rbCtx, handler,
                   signals, sigChan, errCh, watchVars, updmon, stackVars>>

\* The deferred calls, last registered first: signalWG.Wait(), then
\* close(deploymentComplete), then signal.Stop and cancel().
RunDefers ==
    /\ main = "drain" /\ handler = "done"
    /\ main' = "exit"
    /\ complete' = TRUE
    /\ EndCtx("canceled")
    /\ UNCHANGED <<noWait, result, verified, healthDone, rbCtx, handler,
                   signals, sigChan, errCh, watchVars, updmon, stackVars>>

-----------------------------------------------------------------------------
(***************************************************************************)
(* The signal handler: the error is sent before the context is cancelled.  *)
(***************************************************************************)
\* Fault: the context is cancelled before the error is sent.
HandlerReceivesAndCancels ==
    /\ handler = "wait" /\ sigChan
    /\ handler' = "caught" /\ sigChan' = FALSE
    /\ EndCtx("canceled")
    /\ UNCHANGED <<mainVars, healthDone, rbCtx, signals, errCh, complete,
                   watchVars, updmon, stackVars>>

HandlerReceives ==
    /\ handler = "wait" /\ sigChan
    /\ handler' = "caught" /\ sigChan' = FALSE
    /\ UNCHANGED <<mainVars, ctxVars, signals, errCh, complete, watchVars,
                   updmon, stackVars>>

\* nonBlockingSendError to a channel of one slot with one sender.
HandlerSends ==
    /\ handler = "caught"
    /\ handler' = "sent" /\ errCh' = TRUE
    /\ UNCHANGED <<mainVars, ctxVars, signals, sigChan, complete, watchVars,
                   updmon, stackVars>>

\* Fault: the handler rolls back by itself.
HandlerCancelsAndRollsBack ==
    /\ handler = "sent"
    /\ handler' = "done"
    /\ EndCtx("canceled")
    /\ rollbacks' = rollbacks + 1
    /\ UNCHANGED <<mainVars, healthDone, rbCtx, signals, sigChan, errCh,
                   complete, watchVars, updmon, touched, updated, restored,
                   rbFailed>>

HandlerCancels ==
    /\ handler = "sent"
    /\ handler' = "done"
    /\ EndCtx("canceled")
    /\ UNCHANGED <<mainVars, healthDone, rbCtx, signals, sigChan, errCh,
                   complete, watchVars, updmon, stackVars>>

\* Fault: the handler does not watch the root context.
HandlerQuitsOnComplete ==
    /\ handler = "wait" /\ complete
    /\ handler' = "done"
    /\ UNCHANGED <<mainVars, ctxVars, signals, sigChan, errCh, complete,
                   watchVars, updmon, stackVars>>

HandlerQuits ==
    /\ handler = "wait" /\ (ctx # "live" \/ complete)
    /\ handler' = "done"
    /\ UNCHANGED <<mainVars, ctxVars, signals, sigChan, errCh, complete,
                   watchVars, updmon, stackVars>>

-----------------------------------------------------------------------------
(***************************************************************************)
(* The goroutines of the two error groups.                                 *)
(***************************************************************************)

\* The stream of Docker events breaks: the watcher shuts down, which closes
\* its subscribers' channels, and stays in workersWG.Wait() because pollTasks
\* only leaves on ctx.Done().
WatcherBreaks(s) ==
    /\ watcher[s] = "run" /\ ~WatchDone
    /\ watcher' = [watcher EXCEPT ![s] = "broken"]
    /\ UNCHANGED <<mainVars, ctxVars, sigVars, taskmon, watchErr, updmon,
                   stackVars>>

\* The context is done.  runServiceWatcher hides context.Canceled, but neither
\* context.DeadlineExceeded nor the error of the stream.
WatcherReturns(s) ==
    /\ watcher[s] \in {"run", "broken"} /\ WatchDone
    /\ watcher' = [watcher EXCEPT ![s] = "done"]
    /\ watchErr' = (watchErr \/ watcher[s] = "broken" \/ upd = "deadline")
    /\ UNCHANGED <<mainVars, ctxVars, sigVars, taskmon, updmon, stackVars>>

\* monitorServiceTasks leaves on ctx.Done() or when its channel is closed; in
\* the second case a log read of a task may hold it until ctx.Done() after all.
TaskMonitorReturns(s) ==
    /\ taskmon[s] = "run"
    /\ WatchDone \/ watcher[s] \in {"broken", "done"}
    /\ taskmon' = [taskmon EXCEPT ![s] = "done"]
    /\ UNCHANGED <<mainVars, ctxVars, sigVars, watcher, watchErr, updmon,
                   stackVars>>

\* WaitForUpdateComplete: Swarm completed the update, or paused or reverted it.
UpdateSettles(s) ==
    /\ updmon[s] = "run" /\ ~UpdateGroupDone
    /\ \/ updmon' = [updmon EXCEPT ![s] = "done"]
       \/ updmon' = [updmon EXCEPT ![s] = "failed"]
    /\ UNCHANGED <<mainVars, ctxVars, sigVars, watchVars, stackVars>>

\* WaitForUpdateComplete returns ctx.Err().
UpdateMonitorCanceled(s) ==
    /\ updmon[s] = "run" /\ UpdateGroupDone
    /\ updmon' = [updmon EXCEPT ![s] = "failed"]
    /\ UNCHANGED <<mainVars, ctxVars, sigVars, watchVars, stackVars>>

-----------------------------------------------------------------------------
(***************************************************************************)
(* The environment: the operator and the timers.                           *)
(***************************************************************************)
OperatorSignals ==
    /\ main # "exit" /\ signals < MaxSignals
    /\ signals' = signals + 1
    /\ sigChan' = TRUE
    /\ UNCHANGED <<mainVars, ctxVars, handler, errCh, complete, watchVars,
                   updmon, stackVars>>

\* opts.Timeout + 5 minutes have passed.
Deadline ==
    /\ ctx = "live"
    /\ EndCtx("deadline")
    /\ UNCHANGED <<mainVars, healthDone, rbCtx, sigVars, watchVars, updmon,
                   stackVars>>

\* opts.Timeout has passed since the health gate was entered.
HealthTimeout ==
    /\ main = "health" /\ ~healthDone
    /\ healthDone' = TRUE
    /\ UNCHANGED <<mainVars, ctx, upd, rbCtx, sigVars, watchVars, updmon,
                   stackVars>>

\* opts.RollbackTimeout has passed before the rollback returned.
RollbackTimeout ==
    /\ main = "rollback" /\ rbCtx = "live"
    /\ rbCtx' = "expired"
    /\ UNCHANGED <<mainVars, ctx, upd, healthDone, sigVars, watchVars, updmon,
                   stackVars>>

\* The process is gone.
Exited == main = "exit" /\ UNCHANGED vars

-----------------------------------------------------------------------------
Deploying == \E s \in Services : DeployService(s)
Restoring == \E s \in Services : RestoreService(s)

\* The steps runApply owes as soon as they are possible.  It owes neither the
\* health gate's success nor an error of the rollback.
MainProgress ==
    \/ TakeSnapshot \/ SetupFails
    \/ Deploying \/ DeployFails \/ ReturnUnmonitored \/ StartMonitoring
    \/ UpdatesPass \/ GateFails
    \/ BeginRollback \/ Restoring \/ RollbackReturns
    \/ FinishVerified \/ RunDefers

MainStep == MainProgress \/ HealthPasses \/ RollbackFails

HandlerStep ==
    HandlerReceives \/ HandlerSends \/ HandlerCancels \/ HandlerQuits

MonitorStep(s) ==
    \/ WatcherBreaks(s) \/ WatcherReturns(s) \/ TaskMonitorReturns(s)
    \/ UpdateSettles(s) \/ UpdateMonitorCanceled(s)

Environment == OperatorSignals \/ Deadline \/ HealthTimeout \/ RollbackTimeout

Next ==
    \/ MainStep
    \/ HandlerStep
    \/ \E s \in Services : MonitorStep(s)
    \/ Environment
    \/ Exited

Spec == Init /\ [][Next]_vars

(***************************************************************************)
(* Fairness.  A goroutine that can run is scheduled, and the API answers.  *)
(* Nobody owes a signal, a broken stream, a settled update or a healthy    *)
(* service.  The timer of the root context does fire (see Exits), but      *)
(* twenty minutes later by default: what should happen promptly is asked   *)
(* of FairSpec, in which no timer helps.                                   *)
(***************************************************************************)
FairSpec ==
    /\ Spec
    /\ WF_vars(MainProgress)
    /\ WF_vars(HandlerStep)
    /\ \A s \in Services :
          /\ WF_vars(WatcherReturns(s))
          /\ WF_vars(TaskMonitorReturns(s) /\ WatchDone)
          /\ WF_vars(UpdateMonitorCanceled(s))

-----------------------------------------------------------------------------
(***************************************************************************)
(* Properties.                                                             *)
(***************************************************************************)

\* Types; the rollback runs at most once, which is why runSignalHandler leaves
\* it to the main goroutine.
TypeOK ==
    /\ main \in {"snapshot", "deploy", "updates", "health", "unwind",
                "rollback", "stopping", "drain", "exit"}
    /\ noWait \in BOOLEAN /\ healthDone \in BOOLEAN /\ verified \in BOOLEAN
    /\ ctx \in CtxStates /\ upd \in CtxStates
    /\ rbCtx \in {"none", "live", "expired"}
    /\ handler \in {"off", "wait", "caught", "sent", "done"}
    /\ signals \in 0..MaxSignals
    /\ sigChan \in BOOLEAN /\ errCh \in BOOLEAN /\ complete \in BOOLEAN
    /\ watcher \in [Services -> {"off", "run", "broken", "done"}]
    /\ taskmon \in [Services -> {"off", "run", "done"}]
    /\ watchErr \in BOOLEAN
    /\ updmon \in [Services -> {"off", "run", "done", "failed"}]
    /\ touched \subseteq Services /\ updated \subseteq touched
    /\ restored \subseteq touched
    /\ rollbacks \in 0..1 /\ rbFailed \in BOOLEAN
    /\ result \in {"none", "ok", "error", "signal"}

\* Whenever the main goroutine can see that the signal handler cancelled the
\* root context, the error it will look for with tryGetSignalError is already
\* in the channel, so an interruption is never reported as another failure
\* (runSignalHandler sends before it cancels).
SignalNeverLost ==
    main # "exit" /\ result = "none" /\ ctx = "canceled" => errCh

\* The rollback has the cluster for itself: no watcher, task monitor or update
\* monitor of this apply still runs (runApply waits for both groups first).
QuiescentRollback ==
    main = "rollback" =>
        /\ Stopped(watcher) /\ Stopped(taskmon)
        /\ \A s \in Services : updmon[s] # "run"

\* A monitored deployment is rolled back when one of its gates failed, however
\* it failed and whatever interrupted it, and never after both have passed.
RolledBackIffUnverified ==
    main \in {"drain", "exit"} /\ (\E s \in Services : watcher[s] # "off") =>
        (rollbacks = 1 <=> ~verified)

\* runApply returns nil only when it was told not to wait, or found nothing
\* changed, or saw every update complete and every service healthy without
\* losing the event stream or the interruption on the way.
OkMeansVerified ==
    result = "ok" =>
        /\ rollbacks = 0
        /\ \/ noWait \/ updated = {}
           \/ /\ verified /\ ~watchErr
              /\ \A s \in updated : updmon[s] = "done"

\* No goroutine of the apply outlives runApply (the groups and signalWG are
\* waited for on every path).
NoOrphans ==
    main = "exit" =>
        /\ handler \in {"off", "done"}
        /\ Stopped(watcher) /\ Stopped(taskmon)
        /\ \A s \in Services : updmon[s] # "run"

\* A failed gate reaches the rollback without the help of any timer, since
\* updateCancel() releases every watcher and task monitor.  Whatever ended the
\* wait, even a dead root context, the rollback then puts every changed service
\* back unless the API fails or its own timeout expires.
RollbackCompletes ==
    /\ main = "unwind" ~> main = "rollback"
    /\ [](~rbFailed /\ rbCtx # "expired") =>
          (main = "unwind" ~> (main = "drain" /\ restored = touched))

\* Once the timer of the root context fires, runApply returns and the process
\* exits.
Exits == WF_vars(Deadline) => <>(main = "exit")

(***************************************************************************)
(* Refinement: seen from the process, too, an apply is a transaction of    *)
(* module StackTxn.  Its phase is what runApply can tell: it keeps the     *)
(* stack when it returned nil or saw both gates pass, it has undone it     *)
(* when Rollback returned nil before its timeout.                          *)
(***************************************************************************)
Returning == main \in {"drain", "exit"}
StackKept == Returning /\ rollbacks = 0 /\ (verified \/ result = "ok")
StackUndone == Returning /\ rollbacks = 1 /\ ~rbFailed /\ rbCtx # "expired"

phase ==
    IF main = "rollback" THEN "undoing"
    ELSE IF ~Returning THEN "open"
    ELSE IF StackKept THEN "kept"
    ELSE IF StackUndone THEN "undone" ELSE "half"

spec ==
    [s \in Services |-> IF s \in touched \ restored THEN "new" ELSE "old"]

Txn == INSTANCE StackTxn WITH
    desired <- Services,
    before <- Services,
    foreign <- {}

\* Whatever stops it, the process gives up half way, keeps a stack whose every
\* service is new, or undoes it whole: it never deploys a service once a gate
\* has failed, starts undoing before all are new, or takes a rollback for
\* complete that is not.
ImplementsTxn == Txn!Spec

(***************************************************************************)
(* What the documentation says and the code does not do.                   *)
(***************************************************************************)

\* "If --no-wait, exit now" (cmd/apply.go): a successful --no-wait deployment
\* exits by itself.
NoWaitExitsNow == (main = "drain" /\ noWait /\ result = "ok") ~> main = "exit"

\* "Reverts to previous state on failure, timeout, or interrupt" (README.md): a
\* deployment that changed the stack and was not verified returns an error only
\* after a rollback.
FailureRolledBack ==
    main = "exit" /\ touched # {} /\ result # "ok" /\ ~verified =>
        rollbacks = 1
=============================================================================
