----------------------------- MODULE TaskMonitors -----------------------------
(***************************************************************************)
(* monitorServiceTasks and runTaskMonitorWorker (cmd/apply.go) with the    *)
(* Monitor they run for every task (internal/health/monitor.go).           *)
(*                                                                         *)
(* One goroutine takes the events of a service off the watcher's channel   *)
(* and keeps the registry taskMonitors; every monitor is a worker with up  *)
(* to three goroutines of its own, and removes itself from the registry    *)
(* when it is over.  The registry is shared under monitorsMu.              *)
(*                                                                         *)
(* A monitor made for a task is an instance, numbered in the order of      *)
(* making, so that two monitors of one task can be told apart.             *)
(***************************************************************************)
EXTENDS Naturals, Sequences, FiniteSets

CONSTANTS
    Tasks,       \* task ids
    ChanCap,     \* capacity of a monitor's eventChan
    SubCap,      \* capacity of the subscriber's channel
    MaxEvents    \* bound on the events the watcher sends

ASSUME TaskMonitorsAssumption ==
    /\ ChanCap \in Nat \ {0} /\ SubCap \in Nat \ {0}
    /\ MaxEvents \in Nat

VARIABLES
    showLogs,    \* the flag --logs
    ctx,         \* the context is live
    ended,       \* tasks in a terminal state
    sub,         \* the channel of the watcher's events
    closed,      \* the watcher has closed it
    sent,        \* events sent so far
    loop,        \* where monitorServiceTasks is
    mu,          \* monitorsMu is held across steps
    registry,    \* taskMonitors: per task its monitor's number, 0 for none
    mon          \* the monitors made

envVars  == <<showLogs, ctx, ended, sub, closed, sent>>
loopVars == <<loop, mu, registry>>
vars == <<envVars, loopVars, mon>>

Monitors == DOMAIN mon
Over(i) == i \in Monitors /\ mon[i].start = "over"

Event == [kind : {"Created", "Started", "Ended"}, task : Tasks,
          container : BOOLEAN]

\* NewMonitorWithLogsAndLogger, and the goroutines Start runs.
NewMonitor(t) ==
    [task |-> t, chan |-> <<>>, stopped |-> FALSE, ready |-> FALSE,
     start |-> "select", events |-> "run",
     logs |-> IF showLogs THEN "waiting" ELSE "gone"]

Init ==
    /\ showLogs \in BOOLEAN
    /\ ctx = TRUE /\ ended = {} /\ sub = <<>> /\ closed = FALSE /\ sent = 0
    /\ loop = "select" /\ mu = FALSE
    /\ registry = [t \in Tasks |-> 0]
    /\ mon = <<>>

-----------------------------------------------------------------------------
(***************************************************************************)
(* The context, the tasks and the watcher.  The watcher announces a task   *)
(* by polling, without a container if it has none yet and whether or not   *)
(* it has ended meanwhile, and by its container's events; it loses what    *)
(* its channels have no room for and may repeat an announcement.           *)
(***************************************************************************)
ContextEnds ==
    /\ ctx
    /\ ctx' = FALSE
    /\ UNCHANGED <<showLogs, ended, sub, closed, sent, loopVars, mon>>

TaskEnds(t) ==
    /\ t \notin ended
    /\ ended' = ended \cup {t}
    /\ UNCHANGED <<showLogs, ctx, sub, closed, sent, loopVars, mon>>

WatcherSends(e) ==
    /\ ~closed /\ sent < MaxEvents /\ Len(sub) < SubCap
    /\ e.kind = "Ended" => e.task \in ended
    /\ e.kind = "Created" \/ e.container
    /\ sub' = Append(sub, e) /\ sent' = sent + 1
    /\ UNCHANGED <<showLogs, ctx, ended, closed, loopVars, mon>>

WatcherCloses ==
    /\ ~closed
    /\ closed' = TRUE
    /\ UNCHANGED <<showLogs, ctx, ended, sub, sent, loopVars, mon>>

-----------------------------------------------------------------------------
(***************************************************************************)
(* monitorServiceTasks.                                                    *)
(***************************************************************************)

\* SendEvent: lost on a monitor that is stopped or whose channel is full.
SendEvent(m, e) ==
    IF ~m.stopped /\ Len(m.chan) < ChanCap
    THEN [m EXCEPT !.chan = Append(@, e)] ELSE m

\* Fault: a Created event makes a monitor even if the task has one.
HandleEventAnew ==
    /\ loop = "select" /\ sub # <<>> /\ ~mu
    /\ sub' = Tail(sub)
    /\ LET e == Head(sub) IN
       IF e.kind = "Created"
       THEN /\ registry' = [registry EXCEPT ![e.task] = Len(mon) + 1]
            /\ mon' = Append(mon, SendEvent(NewMonitor(e.task), e))
       ELSE UNCHANGED <<registry, mon>>
    /\ UNCHANGED <<showLogs, ctx, ended, closed, sent, loop, mu>>

\* An event of a task with a monitor goes to the monitor, a Created event of a
\* task without one makes it, any other is let go.  All under monitorsMu.
HandleEvent ==
    /\ loop = "select" /\ sub # <<>> /\ ~mu
    /\ sub' = Tail(sub)
    /\ LET e == Head(sub)
           m == registry[e.task]
       IN  \/ /\ m # 0
              /\ mon' = [mon EXCEPT ![m] = SendEvent(@, e)]
              /\ UNCHANGED registry
           \/ /\ m = 0 /\ e.kind = "Created"
              /\ registry' = [registry EXCEPT ![e.task] = Len(mon) + 1]
              /\ mon' = Append(mon, SendEvent(NewMonitor(e.task), e))
           \/ /\ m = 0 /\ e.kind # "Created"
              /\ UNCHANGED <<registry, mon>>
    /\ UNCHANGED <<showLogs, ctx, ended, closed, sent, loop, mu>>

\* ctx.Done(), or the closed channel read to its end.
LeaveLoop ==
    /\ loop = "select"
    /\ ~ctx \/ (closed /\ sub = <<>>)
    /\ loop' = "stopping"
    /\ UNCHANGED <<envVars, mu, registry, mon>>

\* Fault: the workers are waited for without being stopped.
StopNobody ==
    /\ loop = "stopping" /\ ~mu
    /\ mu' = TRUE /\ loop' = "unlock"
    /\ UNCHANGED <<envVars, registry, mon>>

\* The deferred call: every registered monitor is stopped, with monitorsMu held.
StopMonitors ==
    /\ loop = "stopping" /\ ~mu
    /\ mu' = TRUE /\ loop' = "unlock"
    /\ mon' = [i \in Monitors |->
                  IF i = registry[mon[i].task]
                  THEN [mon[i] EXCEPT !.stopped = TRUE] ELSE mon[i]]
    /\ UNCHANGED <<envVars, registry>>

\* Fault: monitorsMu is released only on return.
UnlockLate ==
    /\ loop = "unlock"
    /\ loop' = "waiting"
    /\ UNCHANGED <<envVars, mu, registry, mon>>

Unlock ==
    /\ loop = "unlock"
    /\ mu' = FALSE /\ loop' = "waiting"
    /\ UNCHANGED <<envVars, registry, mon>>

\* Fault: workersWG is not waited for.
ReturnAtOnce ==
    /\ loop = "waiting"
    /\ loop' = "returned"
    /\ UNCHANGED <<envVars, mu, registry, mon>>

\* workersWG.Wait()
Return ==
    /\ loop = "waiting"
    /\ \A i \in Monitors : Over(i)
    /\ loop' = "returned"
    /\ UNCHANGED <<envVars, mu, registry, mon>>

-----------------------------------------------------------------------------
(***************************************************************************)
(* Monitor i.                                                              *)
(***************************************************************************)
MonitorStep(i, m) ==
    /\ mon' = [mon EXCEPT ![i] = m]
    /\ UNCHANGED <<envVars, loop, mu>>

Told(i) == ~ctx \/ mon[i].stopped

\* Start leaves its select and waits for its goroutines; a monitor whose
\* context has ended stops itself.  monitorHealth, whose ticks decide nothing,
\* leaves on the same conditions, and this step stands for both.
LeaveSelect(i) ==
    /\ mon[i].start = "select" /\ Told(i)
    /\ MonitorStep(i, [mon[i] EXCEPT !.start = "wait", !.stopped = TRUE])
    /\ UNCHANGED registry

\* Fault: a terminal event ends processEvents and not the monitor.
ProcessEventOnly(i) ==
    /\ mon[i].events = "run" /\ mon[i].chan # <<>>
    /\ LET e == Head(mon[i].chan) IN
          MonitorStep(i, [mon[i] EXCEPT
              !.chan = Tail(@), !.ready = @ \/ e.container,
              !.events = IF e.kind = "Ended" THEN "gone" ELSE "run"])
    /\ UNCHANGED registry

\* processEvents and handleEvent: the first event with a container releases
\* the log stream, a terminal one stops the monitor.
ProcessEvent(i) ==
    /\ mon[i].events = "run" /\ mon[i].chan # <<>>
    /\ LET e == Head(mon[i].chan)
           terminal == e.kind = "Ended"
       IN  MonitorStep(i, [mon[i] EXCEPT
               !.chan = Tail(@), !.ready = @ \/ e.container,
               !.stopped = @ \/ terminal,
               !.events = IF terminal THEN "gone" ELSE "run"])
    /\ UNCHANGED registry

EventsReturn(i) ==
    /\ mon[i].events = "run" /\ Told(i)
    /\ MonitorStep(i, [mon[i] EXCEPT !.events = "gone"])
    /\ UNCHANGED registry

\* streamLogs waits for the container, then reads the log until it ends.
LogsOpen(i) ==
    /\ mon[i].logs = "waiting" /\ mon[i].ready
    /\ \E next \in {"reading", "gone"} :
          MonitorStep(i, [mon[i] EXCEPT !.logs = next])
    /\ UNCHANGED registry

LogsNotOpened(i) ==
    /\ mon[i].logs = "waiting" /\ Told(i)
    /\ MonitorStep(i, [mon[i] EXCEPT !.logs = "gone"])
    /\ UNCHANGED registry

\* A read ends with the context, with the log, with an error, or with a line
\* after which stopChan is looked at: nothing but the context ends the read of
\* a silent container's log.
LogsCanceled(i) ==
    /\ mon[i].logs = "reading" /\ ~ctx
    /\ MonitorStep(i, [mon[i] EXCEPT !.logs = "gone"])
    /\ UNCHANGED registry

LogsReadReturns(i) ==
    /\ mon[i].logs = "reading"
    /\ MonitorStep(i, [mon[i] EXCEPT !.logs = "gone"])
    /\ UNCHANGED registry

StartReturns(i) ==
    /\ mon[i].start = "wait"
    /\ mon[i].events = "gone" /\ mon[i].logs = "gone"
    /\ MonitorStep(i, [mon[i] EXCEPT !.start = "returned"])
    /\ UNCHANGED registry

\* runTaskMonitorWorker: delete(registry, taskID) under monitorsMu.
Deregister(i) ==
    /\ mon[i].start = "returned" /\ ~mu
    /\ registry' = [registry EXCEPT ![mon[i].task] = 0]
    /\ MonitorStep(i, [mon[i] EXCEPT !.start = "over"])

-----------------------------------------------------------------------------
LoopStep == HandleEvent \/ StopMonitors \/ Unlock \/ Return

WorkerStep(i) ==
    \/ LeaveSelect(i) \/ LogsOpen(i) \/ LogsNotOpened(i)
    \/ LogsCanceled(i) \/ StartReturns(i) \/ Deregister(i)

Environment ==
    \/ ContextEnds \/ WatcherCloses
    \/ \E t \in Tasks : TaskEnds(t)
    \/ \E e \in Event : WatcherSends(e)

Next ==
    \/ LoopStep \/ LeaveLoop
    \/ \E i \in Monitors :
          WorkerStep(i) \/ ProcessEvent(i) \/ EventsReturn(i) \/ LogsReadReturns(i)
    \/ Environment

Spec == Init /\ [][Next]_vars

\* No instance is made without an event, which bounds their number.
MonitorIds == 1..MaxEvents

\* Goroutines are scheduled, and a select that can leave does not take its
\* other case for ever.  The watcher, the tasks and the container, on whose log
\* a read depends, owe nothing.
FairSpec ==
    /\ Spec
    /\ WF_vars(LoopStep) /\ WF_vars(LeaveLoop)
    /\ \A i \in MonitorIds :
          /\ WF_vars(i \in Monitors /\ WorkerStep(i))
          /\ WF_vars(i \in Monitors /\ ProcessEvent(i))
          /\ WF_vars(i \in Monitors /\ EventsReturn(i))

-----------------------------------------------------------------------------
(***************************************************************************)
(* Properties.                                                             *)
(***************************************************************************)
Monitor ==
    [task : Tasks, chan : Seq(Event), stopped : BOOLEAN, ready : BOOLEAN,
     start : {"select", "wait", "returned", "over"},
     events : {"run", "gone"}, logs : {"waiting", "reading", "gone"}]

\* Types; a registered number is the number of a monitor of that task.
TypeOK ==
    /\ showLogs \in BOOLEAN /\ ctx \in BOOLEAN /\ closed \in BOOLEAN
    /\ ended \subseteq Tasks
    /\ sub \in Seq(Event) /\ Len(sub) <= SubCap /\ sent \in 0..MaxEvents
    /\ loop \in {"select", "stopping", "unlock", "waiting", "returned"}
    /\ mu = (loop = "unlock")
    /\ mon \in Seq(Monitor)
    /\ registry \in [Tasks -> Nat]
    /\ \A t \in Tasks : registry[t] # 0 =>
          registry[t] \in Monitors /\ mon[registry[t]].task = t

\* The registry holds exactly the monitors that are not over: a task never has
\* two of them, and the deletion a worker does never hits another's entry.
RegistryIsExact ==
    \A i \in Monitors : ~Over(i) <=> registry[mon[i].task] = i

\* The deferred call reaches every monitor: whom monitorServiceTasks waits for
\* has been told to stop, and when it returns no goroutine it started is left.
NothingLeft ==
    /\ loop = "waiting" => \A i \in Monitors : mon[i].stopped
    /\ loop = "returned" =>
          \A i \in Monitors :
              Over(i) /\ mon[i].events = "gone" /\ mon[i].logs = "gone"

\* The end of the context ends monitorServiceTasks and all its monitors; without
\* logs to read the end of the watcher is enough.
Returns ==
    /\ (~ctx) ~> loop = "returned"
    /\ (closed /\ ~showLogs) ~> loop = "returned"

\* Without logs, a monitor that takes no more events, for a terminal one or
\* because it was told to stop, is gone soon.
DeafMonitorEnds ==
    \A i \in MonitorIds :
        (i \in Monitors /\ mon[i].events = "gone" /\ ~showLogs)
            ~> Over(i)
=============================================================================
