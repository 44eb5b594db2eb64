------------------------- MODULE TaskMonitorsProofs -------------------------
(***************************************************************************)
(* The safety of module TaskMonitors for every set of tasks, every         *)
(* capacity of the channels and every number of events.                    *)
(*                                                                         *)
(* RegistryIsExact needs that the deletion of a worker is its own, which   *)
(* it is because a task with an entry gets no second monitor.  NothingLeft *)
(* needs what becomes of a single monitor (Lives): it leaves its select    *)
(* stopped and returns after its goroutines; a monitor that the deferred   *)
(* call does not find in the registry is over, hence stopped before.       *)
(***************************************************************************)
EXTENDS TaskMonitors, TLAPS

\* A monitor leaves its select stopped, and returns after its goroutines.
Sound(m) ==
    /\ m.start # "select" => m.stopped
    /\ m.start \in {"returned", "over"} => m.events = "gone" /\ m.logs = "gone"

Lives == \A i \in Monitors : Sound(mon[i])

\* Once the deferred call has run, everyone is stopped; on return all are over.
Leaving ==
    /\ loop \in {"unlock", "waiting", "returned"} =>
          \A i \in Monitors : mon[i].stopped
    /\ loop = "returned" => \A i \in Monitors : Over(i)

IInv == TypeOK /\ RegistryIsExact /\ Lives /\ Leaving

-----------------------------------------------------------------------------
LEMMA MonitorAt ==
    ASSUME mon \in Seq(Monitor), NEW i \in DOMAIN mon
    PROVE  mon[i] \in Monitor /\ mon[i].task \in Tasks /\ i \in Nat /\ i # 0
<1>1. mon[i] \in Monitor /\ i \in Nat /\ i # 0
  OBVIOUS
<1> QED
  BY <1>1 DEF Monitor

\* A monitor takes events without changing where it is.
LEMMA SendEventKeeps ==
    ASSUME NEW m \in Monitor, NEW e \in Event
    PROVE  /\ SendEvent(m, e) \in Monitor
           /\ SendEvent(m, e).task = m.task
           /\ SendEvent(m, e).stopped = m.stopped
           /\ SendEvent(m, e).start = m.start
           /\ SendEvent(m, e).events = m.events
           /\ SendEvent(m, e).logs = m.logs
<1>1. CASE ~m.stopped /\ Len(m.chan) < ChanCap
  <2>1. Append(m.chan, e) \in Seq(Event)
    BY DEF Monitor
  <2>2. SendEvent(m, e) = [m EXCEPT !.chan = Append(m.chan, e)]
    BY <1>1 DEF SendEvent
  <2> QED
    BY <2>1, <2>2 DEF Monitor
<1>2. CASE ~(~m.stopped /\ Len(m.chan) < ChanCap)
  BY <1>2 DEF SendEvent
<1> QED
  BY <1>1, <1>2

LEMMA NewMonitorIs ==
    ASSUME NEW t \in Tasks, showLogs \in BOOLEAN
    PROVE  /\ NewMonitor(t) \in Monitor
           /\ NewMonitor(t).task = t
           /\ NewMonitor(t).start = "select"
BY DEF NewMonitor, Monitor

\* A step of monitor i that neither revives nor deregisters it.
LEMMA MonitorStepKeeps ==
    ASSUME IInv, NEW i \in Monitors, NEW m \in Monitor,
           MonitorStep(i, m), UNCHANGED registry,
           m.task = mon[i].task,
           mon[i].stopped => m.stopped,
           m.start = "over" <=> mon[i].start = "over",
           Sound(m)
    PROVE  IInv'
<1> USE DEF IInv, Monitors, Over
<1>1. /\ mon \in Seq(Monitor) /\ i \in DOMAIN mon
      /\ mon' = [mon EXCEPT ![i] = m]
      /\ UNCHANGED <<envVars, loop, mu, registry>>
  BY DEF TypeOK, MonitorStep
<1>2. /\ mon' \in Seq(Monitor) /\ DOMAIN mon' = DOMAIN mon
      /\ mon'[i] = m
      /\ \A j \in DOMAIN mon : j # i => mon'[j] = mon[j]
  BY <1>1
<1>3. TypeOK'
  BY <1>1, <1>2 DEF TypeOK, envVars
<1>4. RegistryIsExact'
  BY <1>1, <1>2 DEF RegistryIsExact
<1>5. Lives'
  BY <1>2 DEF Lives, Sound
<1>6. Leaving'
  BY <1>1, <1>2 DEF Leaving
<1> QED
  BY <1>3, <1>4, <1>5, <1>6

-----------------------------------------------------------------------------
LEMMA InitInvariant == ASSUME Init PROVE IInv
<1>1. DOMAIN mon = {} /\ mon \in Seq(Monitor)
  BY DEF Init
<1>2. sub \in Seq(Event) /\ Len(sub) = 0
  BY DEF Init
<1>3. TypeOK
  <2>1. Len(sub) <= SubCap /\ 0 \in 0..MaxEvents
    BY <1>2, TaskMonitorsAssumption
  <2>2. registry \in [Tasks -> Nat] /\ \A t \in Tasks : registry[t] = 0
    BY DEF Init
  <2> QED
    BY <1>1, <1>2, <2>1, <2>2 DEF Init, TypeOK
<1> QED
  BY <1>1, <1>3 DEF Init, IInv, RegistryIsExact, Lives, Leaving, Monitors

\* Steps that touch neither the monitors nor the registry.
LEMMA EnvironmentKeeps == ASSUME IInv, Environment PROVE IInv'
<1> USE DEF IInv
<1>1. UNCHANGED <<loop, mu, registry, mon, showLogs>>
  BY DEF Environment, ContextEnds, TaskEnds, WatcherSends, WatcherCloses, loopVars
<1>2. TypeOK'
  <2>1. CASE ContextEnds
    BY <2>1, <1>1 DEF TypeOK, ContextEnds, Monitors
  <2>2. CASE WatcherCloses
    BY <2>2, <1>1 DEF TypeOK, WatcherCloses, Monitors
  <2>3. ASSUME NEW t \in Tasks, TaskEnds(t) PROVE TypeOK'
    BY <2>3, <1>1 DEF TypeOK, TaskEnds, Monitors
  <2>4. ASSUME NEW e \in Event, WatcherSends(e) PROVE TypeOK'
    <3>1. /\ sub' \in Seq(Event) /\ Len(sub') = Len(sub) + 1
          /\ Len(sub) \in Nat /\ Len(sub) < SubCap
      BY <2>4 DEF TypeOK, WatcherSends
    <3>2. sent' \in 0..MaxEvents /\ Len(sub') <= SubCap
      BY <2>4, <3>1, TaskMonitorsAssumption DEF TypeOK, WatcherSends
    <3> QED
      BY <2>4, <3>1, <3>2, <1>1 DEF TypeOK, WatcherSends, Monitors
  <2> QED
    BY <2>1, <2>2, <2>3, <2>4 DEF Environment
<1> QED
  BY <1>1, <1>2 DEF RegistryIsExact, Lives, Leaving, Monitors, Over

-----------------------------------------------------------------------------
\* What HandleEvent takes off the channel is an event.
LEMMA TakeKeeps ==
    ASSUME TypeOK, sub # <<>>
    PROVE  /\ Head(sub) \in Event
           /\ Tail(sub) \in Seq(Event) /\ Len(Tail(sub)) <= SubCap
<1>1. sub \in Seq(Event) /\ Len(sub) <= SubCap /\ SubCap \in Nat
  BY TaskMonitorsAssumption DEF TypeOK
<1>2. Head(sub) \in Event /\ Tail(sub) \in Seq(Event) /\ Len(Tail(sub)) = Len(sub) - 1
  BY <1>1
<1> QED
  BY <1>1, <1>2

LEMMA HandleEventKeeps == ASSUME IInv, HandleEvent PROVE IInv'
<1> USE DEF IInv, Monitors, Over
<1> DEFINE e == Head(sub)
           t == e.task
           r == registry[t]
<1>1. /\ e \in Event /\ t \in Tasks /\ r \in Nat
      /\ sub' \in Seq(Event) /\ Len(sub') <= SubCap
  BY TakeKeeps DEF HandleEvent, TypeOK, Event
<1>2. /\ mon \in Seq(Monitor) /\ registry \in [Tasks -> Nat]
      /\ UNCHANGED <<showLogs, ctx, ended, closed, sent, loop, mu>>
      /\ loop = "select"
  BY DEF TypeOK, HandleEvent
<1>3. CASE r # 0
  <2> DEFINE m == SendEvent(mon[r], e)
  <2>1. r \in DOMAIN mon /\ mon[r] \in Monitor
    BY <1>1, <1>2, <1>3 DEF TypeOK
  <2>2. mon' = [mon EXCEPT ![r] = m] /\ UNCHANGED registry
    BY <1>3 DEF HandleEvent
  <2>3. /\ m \in Monitor /\ m.task = mon[r].task /\ m.stopped = mon[r].stopped
        /\ m.start = mon[r].start /\ m.events = mon[r].events
        /\ m.logs = mon[r].logs
    BY <2>1, <1>1, SendEventKeeps
  <2> HIDE DEF m
  <2>4. /\ mon' \in Seq(Monitor) /\ DOMAIN mon' = DOMAIN mon
        /\ mon'[r] = m
        /\ \A j \in DOMAIN mon : j # r => mon'[j] = mon[j]
    BY <2>1, <2>2, <2>3, <1>2
  <2>5. TypeOK'
    BY <1>1, <1>2, <2>2, <2>3, <2>4 DEF TypeOK
  <2>6. RegistryIsExact'
    BY <2>2, <2>3, <2>4 DEF RegistryIsExact
  <2>7. Lives' /\ Leaving'
    BY <1>2, <2>3, <2>4 DEF Lives, Leaving, Sound
  <2> QED
    BY <2>5, <2>6, <2>7
<1>4. CASE r = 0 /\ e.kind = "Created"
  <2> DEFINE m == SendEvent(NewMonitor(t), e)
             n == Len(mon) + 1
  <2>1. NewMonitor(t) \in Monitor /\ NewMonitor(t).task = t
        /\ NewMonitor(t).start = "select"
    BY <1>1, NewMonitorIs DEF TypeOK
  <2>2. mon' = Append(mon, m) /\ registry' = [registry EXCEPT ![t] = n]
    BY <1>4 DEF HandleEvent
  <2>3. m \in Monitor /\ m.task = t /\ m.start = "select"
    BY <2>1, <1>1, SendEventKeeps
  <2> HIDE DEF m
  <2>4. /\ mon' \in Seq(Monitor) /\ DOMAIN mon' = DOMAIN mon \cup {n}
        /\ mon'[n] = m /\ n \notin DOMAIN mon /\ n \in Nat /\ n # 0
        /\ \A j \in DOMAIN mon : mon'[j] = mon[j] /\ j \in Nat /\ j # 0
    BY <2>2, <2>3, <1>2
  <2>5. /\ registry' \in [Tasks -> Nat] /\ registry'[t] = n
        /\ \A u \in Tasks : u # t => registry'[u] = registry[u]
    BY <2>2, <2>4, <1>1, <1>2
  <2>6. TypeOK'
    BY <1>1, <1>2, <2>3, <2>4, <2>5 DEF TypeOK
  <2>7. RegistryIsExact'
    <3>1. \A j \in DOMAIN mon : mon[j].task \in Tasks
      BY <1>2, MonitorAt
    <3>2. \A j \in DOMAIN mon : mon[j].task = t => mon[j].start = "over"
      BY <1>4, <2>4 DEF RegistryIsExact
    <3> QED
      BY <3>1, <3>2, <2>3, <2>4, <2>5 DEF RegistryIsExact
  <2>8. Lives' /\ Leaving'
    BY <1>2, <2>3, <2>4 DEF Lives, Leaving, Sound
  <2> QED
    BY <2>6, <2>7, <2>8
<1>5. CASE r = 0 /\ e.kind # "Created"
  <2>1. UNCHANGED <<registry, mon>>
    BY <1>5 DEF HandleEvent
  <2>2. TypeOK'
    BY <1>1, <1>2, <2>1 DEF TypeOK
  <2> QED
    BY <1>2, <2>1, <2>2 DEF RegistryIsExact, Lives, Leaving
<1> QED
  BY <1>3, <1>4, <1>5

LEMMA StopMonitorsKeeps == ASSUME IInv, StopMonitors PROVE IInv'
<1> USE DEF IInv, Monitors, Over
<1>1. /\ mon \in Seq(Monitor) /\ loop' = "unlock" /\ mu' = TRUE
      /\ UNCHANGED <<envVars, registry>>
      /\ mon' = [i \in DOMAIN mon |->
                    IF i = registry[mon[i].task]
                    THEN [mon[i] EXCEPT !.stopped = TRUE] ELSE mon[i]]
  BY DEF TypeOK, StopMonitors
<1>2. \A i \in DOMAIN mon :
          /\ mon[i] \in Monitor
          /\ mon'[i] \in Monitor /\ mon'[i].task = mon[i].task
          /\ mon'[i].start = mon[i].start /\ mon'[i].events = mon[i].events
          /\ mon'[i].logs = mon[i].logs
          /\ mon[i].stopped \/ i = registry[mon[i].task] => mon'[i].stopped
  <2> SUFFICES ASSUME NEW i \in DOMAIN mon
               PROVE  /\ mon[i] \in Monitor
                      /\ mon'[i] \in Monitor /\ mon'[i].task = mon[i].task
                      /\ mon'[i].start = mon[i].start
                      /\ mon'[i].events = mon[i].events
                      /\ mon'[i].logs = mon[i].logs
                      /\ mon[i].stopped \/ i = registry[mon[i].task]
                            => mon'[i].stopped
    OBVIOUS
  <2>1. mon[i] \in Monitor
    BY <1>1, MonitorAt
  <2>2. CASE i = registry[mon[i].task]
    <3>1. mon'[i] = [mon[i] EXCEPT !.stopped = TRUE]
      BY <1>1, <2>2
    <3> QED
      BY <2>1, <3>1 DEF Monitor
  <2>3. CASE i # registry[mon[i].task]
    <3>1. mon'[i] = mon[i]
      BY <1>1, <2>3
    <3> QED
      BY <2>1, <2>3, <3>1
  <2> QED
    BY <2>2, <2>3
<1>3. mon' \in Seq(Monitor) /\ DOMAIN mon' = DOMAIN mon
  BY <1>1, <1>2
<1>4. TypeOK'
  BY <1>1, <1>2, <1>3 DEF TypeOK, envVars
<1>5. RegistryIsExact'
  BY <1>1, <1>2, <1>3 DEF RegistryIsExact
<1>6. Lives'
  BY <1>2, <1>3 DEF Lives, Sound
<1>7. \A i \in DOMAIN mon' : mon'[i].stopped
  BY <1>2, <1>3 DEF RegistryIsExact, Lives, Sound
<1>8. Leaving'
  BY <1>1, <1>7 DEF Leaving
<1> QED
  BY <1>4, <1>5, <1>6, <1>8

\* The other steps of monitorServiceTasks leave the monitors alone.
LEMMA LoopKeeps == ASSUME IInv, LeaveLoop \/ Unlock \/ Return PROVE IInv'
<1> USE DEF IInv, Monitors, Over
<1>1. CASE LeaveLoop
  BY <1>1 DEF LeaveLoop, envVars, TypeOK, RegistryIsExact, Lives, Leaving
<1>2. CASE Unlock
  BY <1>2 DEF Unlock, envVars, TypeOK, RegistryIsExact, Lives, Leaving
<1>3. CASE Return
  BY <1>3 DEF Return, envVars, TypeOK, RegistryIsExact, Lives, Leaving
<1> QED
  BY <1>1, <1>2, <1>3

\* The end of a worker: its entry, and nobody else's, leaves the registry.
LEMMA DeregisterKeeps ==
    ASSUME IInv, NEW i \in Monitors, Deregister(i)
    PROVE  IInv'
<1> USE DEF IInv, Monitors, Over
<1> DEFINE m == [mon[i] EXCEPT !.start = "over"]
           t == mon[i].task
<1>1. /\ mon \in Seq(Monitor) /\ registry \in [Tasks -> Nat] /\ i \in DOMAIN mon
      /\ mon[i] \in Monitor /\ t \in Tasks
      /\ mon' = [mon EXCEPT ![i] = m] /\ registry' = [registry EXCEPT ![t] = 0]
      /\ UNCHANGED <<envVars, loop, mu>> /\ mon[i].start = "returned"
  <2>1. mon \in Seq(Monitor) /\ registry \in [Tasks -> Nat]
    BY DEF TypeOK
  <2>2. mon[i] \in Monitor /\ t \in Tasks
    BY <2>1, MonitorAt
  <2> QED
    BY <2>1, <2>2 DEF Deregister, MonitorStep
<1>2. /\ m \in Monitor /\ m.task = t /\ m.start = "over"
      /\ m.stopped = mon[i].stopped /\ m.events = mon[i].events
      /\ m.logs = mon[i].logs
  BY <1>1 DEF Monitor
<1> HIDE DEF m
<1>3. /\ mon' \in Seq(Monitor) /\ DOMAIN mon' = DOMAIN mon /\ mon'[i] = m
      /\ \A j \in DOMAIN mon : j # i => mon'[j] = mon[j]
      /\ \A j \in DOMAIN mon : j # 0 /\ mon[j].task \in Tasks
  <2>1. \A j \in DOMAIN mon : j # 0 /\ mon[j].task \in Tasks
    BY <1>1, MonitorAt
  <2> QED
    BY <1>1, <1>2, <2>1
<1>4. /\ registry' \in [Tasks -> Nat] /\ registry'[t] = 0
      /\ \A u \in Tasks : u # t => registry'[u] = registry[u]
  BY <1>1
<1>5. registry[t] = i
  BY <1>1 DEF RegistryIsExact
<1>6. TypeOK'
  BY <1>1, <1>2, <1>3, <1>4, <1>5 DEF TypeOK, envVars
<1>7. RegistryIsExact'
  BY <1>2, <1>3, <1>4, <1>5 DEF RegistryIsExact
<1>8. Lives' /\ Leaving'
  BY <1>1, <1>2, <1>3 DEF Lives, Leaving, Sound
<1> QED
  BY <1>6, <1>7, <1>8

\* The other steps of a monitor.
LEMMA MonitorKeeps ==
    ASSUME IInv, NEW i \in Monitors,
           \/ LeaveSelect(i) \/ LogsOpen(i) \/ LogsNotOpened(i) \/ LogsCanceled(i)
           \/ StartReturns(i) \/ ProcessEvent(i) \/ EventsReturn(i)
           \/ LogsReadReturns(i)
    PROVE  IInv'
<1>1. mon[i] \in Monitor /\ Sound(mon[i])
  BY DEF IInv, TypeOK, Lives, Monitors
<1>2. CASE LeaveSelect(i)
  <2> DEFINE m == [mon[i] EXCEPT !.start = "wait", !.stopped = TRUE]
  <2>1. m \in Monitor /\ Sound(m) /\ m.task = mon[i].task /\ m.stopped
        /\ m.start # "over" /\ mon[i].start # "over"
    BY <1>1, <1>2 DEF LeaveSelect, Monitor, Sound
  <2> QED
    BY <2>1, <1>2, MonitorStepKeeps DEF LeaveSelect
<1>3. CASE ProcessEvent(i)
  <2> DEFINE e == Head(mon[i].chan)
             m == [mon[i] EXCEPT
                     !.chan = Tail(@), !.ready = @ \/ e.container,
                     !.stopped = @ \/ e.kind = "Ended",
                     !.events = IF e.kind = "Ended" THEN "gone" ELSE "run"]
  <2>1. mon[i].chan \in Seq(Event) /\ mon[i].chan # <<>> /\ mon[i].events = "run"
    BY <1>1, <1>3 DEF ProcessEvent, Monitor
  <2>2. Tail(mon[i].chan) \in Seq(Event) /\ e \in Event /\ e.container \in BOOLEAN
    <3>1. Tail(mon[i].chan) \in Seq(Event) /\ e \in Event
      BY <2>1
    <3> QED
      BY <3>1 DEF Event
  <2>3. m \in Monitor /\ m.task = mon[i].task /\ m.start = mon[i].start
        /\ (mon[i].stopped => m.stopped)
    BY <1>1, <2>2 DEF Monitor
  <2>4. Sound(m)
    BY <1>1, <2>1, <2>3 DEF Sound, Monitor
  <2>5. MonitorStep(i, m) /\ UNCHANGED registry
    BY <1>3 DEF ProcessEvent
  <2> HIDE DEF m
  <2> QED
    BY <2>3, <2>4, <2>5, MonitorStepKeeps
<1>4. CASE EventsReturn(i)
  <2> DEFINE m == [mon[i] EXCEPT !.events = "gone"]
  <2>1. m \in Monitor /\ Sound(m) /\ m.task = mon[i].task
        /\ m.stopped = mon[i].stopped /\ m.start = mon[i].start
    BY <1>1 DEF Monitor, Sound
  <2> QED
    BY <2>1, <1>4, MonitorStepKeeps DEF EventsReturn
<1>5. CASE LogsOpen(i)
  <2>1. PICK next \in {"reading", "gone"} :
          MonitorStep(i, [mon[i] EXCEPT !.logs = next]) /\ UNCHANGED registry
    BY <1>5 DEF LogsOpen
  <2> DEFINE m == [mon[i] EXCEPT !.logs = next]
  <2>2. m \in Monitor /\ Sound(m) /\ m.task = mon[i].task
        /\ m.stopped = mon[i].stopped /\ m.start = mon[i].start
    BY <1>1, <1>5 DEF Monitor, Sound, LogsOpen
  <2> QED
    BY <2>1, <2>2, MonitorStepKeeps
<1>6. CASE LogsNotOpened(i) \/ LogsCanceled(i) \/ LogsReadReturns(i)
  <2> DEFINE m == [mon[i] EXCEPT !.logs = "gone"]
  <2>1. m \in Monitor /\ Sound(m) /\ m.task = mon[i].task
        /\ m.stopped = mon[i].stopped /\ m.start = mon[i].start
    BY <1>1 DEF Monitor, Sound
  <2> QED
    BY <2>1, <1>6, MonitorStepKeeps
       DEF LogsNotOpened, LogsCanceled, LogsReadReturns
<1>7. CASE StartReturns(i)
  <2> DEFINE m == [mon[i] EXCEPT !.start = "returned"]
  <2>1. m \in Monitor /\ Sound(m) /\ m.task = mon[i].task
        /\ m.stopped = mon[i].stopped
        /\ m.start # "over" /\ mon[i].start # "over"
    BY <1>1, <1>7 DEF Monitor, Sound, StartReturns
  <2> QED
    BY <2>1, <1>7, MonitorStepKeeps DEF StartReturns
<1> QED
  BY <1>2, <1>3, <1>4, <1>5, <1>6, <1>7

-----------------------------------------------------------------------------
LEMMA NextInvariant == ASSUME IInv, [Next]_vars PROVE IInv'
<1>1. CASE LoopStep \/ LeaveLoop
  BY <1>1, HandleEventKeeps, StopMonitorsKeeps, LoopKeeps DEF LoopStep
<1>2. CASE Environment
  BY <1>2, EnvironmentKeeps
<1>3. ASSUME NEW i \in Monitors,
             WorkerStep(i) \/ ProcessEvent(i) \/ EventsReturn(i) \/ LogsReadReturns(i)
      PROVE  IInv'
  BY <1>3, DeregisterKeeps, MonitorKeeps DEF WorkerStep
<1>4. CASE UNCHANGED vars
  BY <1>4 DEF vars, envVars, loopVars, IInv, TypeOK, RegistryIsExact, Lives,
              Leaving, Sound, Monitors, Over
<1> QED
  BY <1>1, <1>2, <1>3, <1>4 DEF Next

\* The inductive invariant holds in every reachable state: the registry, the
\* life of the monitors and the progress of the deferred call hang together.
THEOREM TaskMonitorsInvariance == Spec => []IInv
<1>1. Init => IInv
  BY InitInvariant
<1>2. IInv /\ [Next]_vars => IInv'
  BY NextInvariant
<1> QED
  BY <1>1, <1>2, PTL DEF Spec

\* Types: the channels keep to their capacities, the lock is held exactly while
\* the deferred call stops the monitors, and a registered number is the number
\* of a monitor of that task.
THEOREM TaskMonitorsTypes == Spec => []TypeOK
<1>1. IInv => TypeOK
  BY DEF IInv
<1> QED
  BY <1>1, TaskMonitorsInvariance, PTL

\* runTaskMonitorWorker and monitorServiceTasks keep the registry exact: it holds
\* the monitors that are not over and no other, one per task.
THEOREM RegistryStaysExact == Spec => []RegistryIsExact
<1>1. IInv => RegistryIsExact
  BY DEF IInv
<1> QED
  BY <1>1, TaskMonitorsInvariance, PTL

\* The deferred call of monitorServiceTasks reaches every monitor, and none of
\* its goroutines outlives the return.
THEOREM NobodyIsLeftBehind == Spec => []NothingLeft
<1>1. IInv => NothingLeft
  BY DEF IInv, Lives, Leaving, Sound, NothingLeft, Over
<1> QED
  BY <1>1, TaskMonitorsInvariance, PTL

-----------------------------------------------------------------------------
(***************************************************************************)
(* Why monitorServiceTasks and its monitors end.  Liveness stays with TLC; *)
(* what is proved of it for every instance is that whoever has to end has  *)
(* been told so and can go on.                                             *)
(***************************************************************************)

\* A monitor that takes no more events has been stopped, or the context has
\* ended; without --logs a monitor has no log stream.
Heeds(m) == m.events = "gone" => m.stopped \/ ~ctx
Quiet(m) == ~showLogs => m.logs = "gone"

Informed == \A i \in Monitors : Heeds(mon[i]) /\ Quiet(mon[i])

FInv == IInv /\ Informed

LEMMA InformedStep ==
    ASSUME TypeOK, Informed, NEW i \in Monitors, NEW m \in Monitor,
           MonitorStep(i, m), Heeds(m), Quiet(m)
    PROVE  Informed'
<1>1. /\ mon \in Seq(Monitor) /\ i \in DOMAIN mon /\ mon' = [mon EXCEPT ![i] = m]
      /\ UNCHANGED <<ctx, showLogs>>
  BY DEF TypeOK, Monitors, MonitorStep, envVars
<1>2. /\ DOMAIN mon' = DOMAIN mon /\ mon'[i] = m
      /\ \A j \in DOMAIN mon : j # i => mon'[j] = mon[j]
  BY <1>1
<1> QED
  BY <1>1, <1>2 DEF Informed, Heeds, Quiet, Monitors

\* A monitor that is sent an event, and a new one, are as informed as before.
LEMMA InformedHandle == ASSUME IInv, Informed, HandleEvent PROVE Informed'
<1> DEFINE e == Head(sub)
           t == e.task
           r == registry[t]
<1>1. /\ e \in Event /\ t \in Tasks /\ r \in Nat /\ TypeOK
  BY TakeKeeps DEF IInv, HandleEvent, TypeOK, Event
<1>2. mon \in Seq(Monitor) /\ UNCHANGED <<showLogs, ctx>>
  BY <1>1 DEF TypeOK, HandleEvent
<1>3. CASE r # 0
  <2> DEFINE m == SendEvent(mon[r], e)
  <2>1. r \in DOMAIN mon /\ mon[r] \in Monitor
    BY <1>1, <1>3 DEF TypeOK, Monitors
  <2>2. mon' = [mon EXCEPT ![r] = m]
    BY <1>3 DEF HandleEvent
  <2>3. m.stopped = mon[r].stopped /\ m.events = mon[r].events /\ m.logs = mon[r].logs
    BY <2>1, <1>1, SendEventKeeps
  <2> HIDE DEF m
  <2>4. /\ DOMAIN mon' = DOMAIN mon /\ mon'[r] = m
        /\ \A j \in DOMAIN mon : j # r => mon'[j] = mon[j]
    BY <2>1, <2>2, <1>2
  <2> QED
    BY <1>2, <2>1, <2>3, <2>4 DEF Informed, Heeds, Quiet, Monitors
<1>4. CASE r = 0 /\ e.kind = "Created"
  <2> DEFINE m == SendEvent(NewMonitor(t), e)
             n == Len(mon) + 1
  <2>1. NewMonitor(t) \in Monitor
    BY <1>1, NewMonitorIs DEF TypeOK
  <2>2. NewMonitor(t).events = "run" /\ (~showLogs => NewMonitor(t).logs = "gone")
    BY DEF NewMonitor
  <2>3. mon' = Append(mon, m)
    BY <1>4 DEF HandleEvent
  <2>4. m.events = "run" /\ (~showLogs => m.logs = "gone")
    BY <2>1, <2>2, <1>1, SendEventKeeps
  <2> HIDE DEF m
  <2>5. /\ DOMAIN mon' = DOMAIN mon \cup {n} /\ mon'[n] = m
        /\ \A j \in DOMAIN mon : mon'[j] = mon[j]
    BY <2>3, <1>2
  <2> QED
    BY <1>2, <2>4, <2>5 DEF Informed, Heeds, Quiet, Monitors
<1>5. CASE r = 0 /\ e.kind # "Created"
  BY <1>2, <1>5 DEF HandleEvent, Informed, Heeds, Quiet, Monitors
<1> QED
  BY <1>3, <1>4, <1>5

LEMMA InformedMonitor ==
    ASSUME IInv, Informed, NEW i \in Monitors,
           WorkerStep(i) \/ ProcessEvent(i) \/ EventsReturn(i) \/ LogsReadReturns(i)
    PROVE  Informed'
<1>1. TypeOK /\ mon[i] \in Monitor /\ Heeds(mon[i]) /\ Quiet(mon[i])
  BY DEF IInv, TypeOK, Monitors, Informed
<1>2. CASE LeaveSelect(i)
  <2> DEFINE m == [mon[i] EXCEPT !.start = "wait", !.stopped = TRUE]
  <2>1. m \in Monitor /\ Heeds(m) /\ Quiet(m)
    BY <1>1 DEF Monitor, Heeds, Quiet
  <2> QED
    BY <1>1, <1>2, <2>1, InformedStep DEF LeaveSelect
<1>3. CASE ProcessEvent(i)
  <2> DEFINE e == Head(mon[i].chan)
             m == [mon[i] EXCEPT
                     !.chan = Tail(@), !.ready = @ \/ e.container,
                     !.stopped = @ \/ e.kind = "Ended",
                     !.events = IF e.kind = "Ended" THEN "gone" ELSE "run"]
  <2>1. mon[i].chan \in Seq(Event) /\ mon[i].chan # <<>>
    BY <1>1, <1>3 DEF ProcessEvent, Monitor
  <2>2. Tail(mon[i].chan) \in Seq(Event) /\ e.container \in BOOLEAN
    <3>1. Tail(mon[i].chan) \in Seq(Event) /\ e \in Event
      BY <2>1
    <3> QED
      BY <3>1 DEF Event
  <2>3. m \in Monitor /\ Heeds(m) /\ Quiet(m)
    BY <1>1, <2>2 DEF Monitor, Heeds, Quiet
  <2>4. MonitorStep(i, m)
    BY <1>3 DEF ProcessEvent
  <2> HIDE DEF m
  <2> QED
    BY <1>1, <2>3, <2>4, InformedStep
<1>4. CASE EventsReturn(i)
  <2> DEFINE m == [mon[i] EXCEPT !.events = "gone"]
  <2>1. m \in Monitor /\ Heeds(m) /\ Quiet(m)
    BY <1>1, <1>4 DEF Monitor, Heeds, Quiet, EventsReturn, Told
  <2> QED
    BY <1>1, <1>4, <2>1, InformedStep DEF EventsReturn
<1>5. CASE LogsOpen(i)
  <2>1. PICK next \in {"reading", "gone"} :
          MonitorStep(i, [mon[i] EXCEPT !.logs = next])
    BY <1>5 DEF LogsOpen
  <2> DEFINE m == [mon[i] EXCEPT !.logs = next]
  <2>2. m \in Monitor /\ Heeds(m) /\ Quiet(m)
    BY <1>1, <1>5 DEF Monitor, Heeds, Quiet, LogsOpen
  <2> QED
    BY <1>1, <2>1, <2>2, InformedStep
<1>6. CASE LogsNotOpened(i) \/ LogsCanceled(i) \/ LogsReadReturns(i)
  <2> DEFINE m == [mon[i] EXCEPT !.logs = "gone"]
  <2>1. m \in Monitor /\ Heeds(m) /\ Quiet(m)
    BY <1>1 DEF Monitor, Heeds, Quiet
  <2> QED
    BY <1>1, <1>6, <2>1, InformedStep
       DEF LogsNotOpened, LogsCanceled, LogsReadReturns
<1>7. CASE StartReturns(i) \/ Deregister(i)
  <2>1. PICK where \in {"returned", "over"} :
          MonitorStep(i, [mon[i] EXCEPT !.start = where])
    BY <1>7 DEF StartReturns, Deregister
  <2> DEFINE m == [mon[i] EXCEPT !.start = where]
  <2>2. m \in Monitor /\ Heeds(m) /\ Quiet(m)
    BY <1>1 DEF Monitor, Heeds, Quiet
  <2> QED
    BY <1>1, <2>1, <2>2, InformedStep
<1> QED
  BY <1>2, <1>3, <1>4, <1>5, <1>6, <1>7 DEF WorkerStep

LEMMA InformedNext == ASSUME IInv, Informed, [Next]_vars PROVE Informed'
<1> USE DEF Monitors, envVars, loopVars
<1>1. CASE HandleEvent
  BY <1>1, InformedHandle
<1>2. CASE StopMonitors
  <2>1. /\ DOMAIN mon' = DOMAIN mon /\ UNCHANGED <<ctx, showLogs>>
        /\ \A i \in DOMAIN mon :
              mon'[i] = mon[i] \/ mon'[i] = [mon[i] EXCEPT !.stopped = TRUE]
    BY <1>2 DEF StopMonitors
  <2>2. \A i \in DOMAIN mon :
            /\ mon'[i].events = mon[i].events /\ mon'[i].logs = mon[i].logs
            /\ mon[i].stopped => mon'[i].stopped
    <3>1. \A i \in DOMAIN mon : mon[i] \in Monitor
      BY MonitorAt DEF IInv, TypeOK
    <3> QED
      BY <2>1, <3>1 DEF Monitor
  <2> QED
    BY <2>1, <2>2 DEF Informed, Heeds, Quiet
<1>3. CASE LeaveLoop \/ Unlock \/ Return \/ Environment \/ UNCHANGED vars
  <2>1. mon' = mon /\ showLogs' = showLogs /\ (~ctx => ~ctx')
    BY <1>3 DEF LeaveLoop, Unlock, Return, Environment, ContextEnds, TaskEnds,
       WatcherSends, WatcherCloses, vars
  <2> QED
    BY <2>1 DEF Informed, Heeds, Quiet
<1> QED
  BY <1>1, <1>2, <1>3, InformedMonitor DEF Next, LoopStep

LEMMA FollowInvariance == Spec => []FInv
<1>1. Init => Informed
  BY DEF Init, Informed, Monitors
<1>2. FInv /\ [Next]_vars => FInv'
  BY NextInvariant, InformedNext DEF FInv
<1> QED
  BY <1>1, <1>2, InitInvariant, PTL DEF Spec, FInv

\* A monitor whose processEvents has returned, for a terminal event or otherwise,
\* has been told to stop: none stays behind deaf.
DeafIsTold ==
    \A i \in Monitors : mon[i].events = "gone" => mon[i].stopped \/ ~ctx

THEOREM NoMonitorStaysDeaf == Spec => []DeafIsTold
<1>1. FInv => DeafIsTold
  BY DEF FInv, Informed, Heeds, DeafIsTold
<1> QED
  BY <1>1, FollowInvariance, PTL

\* The guards of a monitor's steps that need neither an event nor the end of a
\* container's log.
MonitorCanStep(i) ==
    \/ mon[i].start = "select" /\ Told(i)
    \/ mon[i].events = "run" /\ Told(i)
    \/ mon[i].logs = "waiting" /\ Told(i)
    \/ mon[i].logs = "reading" /\ ~ctx
    \/ mon[i].start = "wait" /\ mon[i].events = "gone" /\ mon[i].logs = "gone"
    \/ mon[i].start = "returned" /\ ~mu

\* The guards of monitorServiceTasks.
LoopCanStep ==
    \/ loop = "select" /\ (~ctx \/ (closed /\ sub = <<>>) \/ (sub # <<>> /\ ~mu))
    \/ loop = "stopping" /\ ~mu
    \/ loop = "unlock"
    \/ loop = "waiting" /\ \A i \in Monitors : Over(i)

\* When the context has ended, or the watcher has closed the channel and there
\* are no logs, monitorServiceTasks can go on, and while it waits for its workers
\* with the lock released every one of them that is not over can.
NobodyStuck ==
    (~ctx \/ (closed /\ ~showLogs)) /\ loop # "returned" =>
        \/ LoopCanStep
        \/ loop = "waiting" /\ \A i \in Monitors : ~Over(i) => MonitorCanStep(i)

THEOREM WorkersCanLeave == Spec => []NobodyStuck
<1>1. ASSUME FInv, ~ctx \/ (closed /\ ~showLogs), loop # "returned" PROVE NobodyStuck
  <2>1. CASE loop # "waiting"
    BY <1>1, <2>1 DEF FInv, IInv, TypeOK, LoopCanStep, NobodyStuck
  <2>2. ASSUME loop = "waiting", NEW i \in Monitors, ~Over(i) PROVE MonitorCanStep(i)
    <3>1. mon[i] \in Monitor /\ mon[i].stopped /\ ~mu /\ mon[i].start # "over"
      BY <1>1, <2>2 DEF FInv, IInv, TypeOK, Leaving, Monitors, Over
    <3>2. ~showLogs => mon[i].logs = "gone"
      BY <1>1, <2>2 DEF FInv, Informed, Quiet
    <3>3. /\ mon[i].start \in {"select", "wait", "returned"}
          /\ mon[i].events \in {"run", "gone"}
          /\ mon[i].logs \in {"waiting", "reading", "gone"}
      BY <3>1 DEF Monitor
    <3> QED
      BY <1>1, <3>1, <3>2, <3>3 DEF MonitorCanStep, Told
  <2> QED
    BY <2>1, <2>2 DEF NobodyStuck
<1>2. FInv => NobodyStuck
  BY <1>1 DEF NobodyStuck
<1> QED
  BY <1>2, FollowInvariance, PTL
=============================================================================
