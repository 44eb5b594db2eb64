------------------------------- MODULE Watcher -------------------------------
(***************************************************************************)
(* internal/health/watcher.go: how one service watcher turns what Docker   *)
(* reports about the tasks of a deployment into events for its subscriber. *)
(*                                                                         *)
(* Three goroutines work at once: Start handles the stream of container    *)
(* events, pollTasks lists the tasks every two seconds, broadcastEvents    *)
(* forwards the internal channel to the subscriber.  Both channels are     *)
(* bounded and a full one drops the event.  The tasks live their own life. *)
(*                                                                         *)
(* The service filter and the deployment filter are one test here: a task  *)
(* is ours or not.  The version filter is a test of its own, because the   *)
(* version of a task grows while the task goes through its states.         *)
(***************************************************************************)
EXTENDS Naturals, Sequences, FiniteSets

CONSTANTS
    Tasks,        \* task ids
    EventCap,     \* capacity of eventChan
    SubCap,       \* capacity of a subscriber's channel
    StreamCap,    \* bound on the events Docker has sent and Start not received
    MaxFaults,    \* bound on API calls that fail under a live context
    MaxCleanups   \* bound on runs of CleanupOldTasks

ASSUME WatcherAssumption ==
    /\ IsFiniteSet(Tasks)
    /\ EventCap \in Nat \ {0} /\ SubCap \in Nat \ {0}
    /\ StreamCap \in Nat \ {0}
    /\ MaxFaults \in Nat /\ MaxCleanups \in Nat

VARIABLES
    ours,        \* tasks of the watched service with the watched deployment id
    life,        \* per task: where it is in its life
    mature,      \* tasks whose version has reached filterVersion
    stream,      \* the stream of Docker events: closed, open or broken
    docker,      \* container events on their way to the watcher
    ctx,         \* the context is live
    start,       \* where the goroutine of Start is
    event,       \* the container event Start is handling
    existing,    \* existingTasks
    known,       \* the keys of taskStates
    poll,        \* where the goroutine of pollTasks is
    listed,      \* what the last TaskList returned and is still to be looked at
    found,       \* the listed task discoverTasks has found to be new
    done,        \* the channel done is closed
    bcast,       \* where the goroutine of broadcastEvents is
    eventChan,   \* the internal channel
    sub,         \* the subscriber's channel
    subClosed,   \* the subscriber's channel is closed
    listening,   \* the subscriber reads its channel and has not unsubscribed
    announced,   \* tasks whose Created event the subscriber has received
    excused,     \* tasks marked as existing, or first recorded for an event
                 \* other than create, or whose Created event met a full channel
    faults,      \* failed calls so far
    cleanups     \* runs of CleanupOldTasks so far

docs   == <<ours, life, mature, stream, docker>>
starts == <<start, event, existing>>
polls  == <<poll, listed, found>>
chans  == <<done, bcast, eventChan, sub, subClosed, listening>>
notes  == <<announced, excused>>
bounds == <<faults, cleanups>>
vars == <<docs, ctx, starts, known, polls, chans, notes, bounds>>

Lives == {"none", "pending", "created", "running", "dead", "gone"}

\* A task TaskList returns, its container being known from "created" on.
Listed(t) == life[t] \in {"pending", "created", "running", "dead"}
HasContainer(state) == state \in {"created", "running", "dead"}

Actions == {"create", "start", "die"}
Kinds == {"Created", "Started", "Ended"}
KindOf == [a \in Actions |-> CASE a = "create" -> "Created"
                               [] a = "start"  -> "Started"
                               [] a = "die"    -> "Ended"]

NoEvent == [task |-> "none", action |-> "none"]

Init ==
    /\ ours \in SUBSET Tasks
    /\ life \in [Tasks -> {"none", "pending", "running"}]
    /\ mature = {t \in Tasks : life[t] = "running"}
    /\ stream = "closed" /\ docker = <<>> /\ ctx = TRUE
    /\ start = "mark" /\ event = NoEvent /\ existing = {}
    /\ known = {}
    /\ poll = "off" /\ listed = {} /\ found = {}
    /\ done = FALSE /\ bcast = "off" /\ eventChan = <<>>
    /\ sub = <<>> /\ subClosed = FALSE /\ listening = TRUE
    /\ announced = {}
    /\ excused = {}
    /\ faults = 0 /\ cleanups = 0

Answers == ctx /\ UNCHANGED faults
Fails == IF ctx THEN faults < MaxFaults /\ faults' = faults + 1
                ELSE UNCHANGED faults

-----------------------------------------------------------------------------
(***************************************************************************)
(* The tasks, and the events Docker sends about their containers to whom-  *)
(* ever has the stream open at the time.                                   *)
(***************************************************************************)
Send(t, action) ==
    IF stream = "open"
    THEN /\ Len(docker) < StreamCap
         /\ docker' = Append(docker, [task |-> t, action |-> action])
    ELSE UNCHANGED docker

Live(t, from, to) ==
    /\ life[t] = from
    /\ life' = [life EXCEPT ![t] = to]
    /\ UNCHANGED <<ours, mature, stream, ctx, starts, known, polls, chans,
                   notes, bounds>>

TaskAppears(t)     == Live(t, "none", "pending") /\ UNCHANGED docker
ContainerCreate(t) == Live(t, "pending", "created") /\ Send(t, "create")
ContainerStart(t)  == Live(t, "created", "running") /\ Send(t, "start")
ContainerDies(t)   == Live(t, "running", "dead") /\ Send(t, "die")
TaskForgotten(t)   == Live(t, "dead", "gone") /\ UNCHANGED docker

\* A change of state gives the task a version the filter lets through.
TaskMatures(t) ==
    /\ Listed(t) /\ t \notin mature
    /\ mature' = mature \cup {t}
    /\ UNCHANGED <<ours, life, stream, docker, ctx, starts, known, polls,
                   chans, notes, bounds>>

StreamBreaks ==
    /\ stream = "open" /\ ctx
    /\ stream' = "broken"
    /\ UNCHANGED <<ours, life, mature, docker, ctx, starts, known, polls,
                   chans, notes, bounds>>

ContextEnds ==
    /\ ctx
    /\ ctx' = FALSE
    /\ UNCHANGED <<docs, starts, known, polls, chans, notes, bounds>>

-----------------------------------------------------------------------------
(***************************************************************************)
(* emitEvent: the select takes any case that is ready, so a closed done    *)
(* may win over room in the channel.  (late: the task, if this event, not  *)
(* its create event, is the first handled for it.)                         *)
(***************************************************************************)
Excuse(tasks) == excused' = excused \cup tasks

Emit(kind, t, late) ==
    \/ /\ Len(eventChan) < EventCap
       /\ eventChan' = Append(eventChan, [kind |-> kind, task |-> t])
       /\ Excuse(late)
    \/ /\ Len(eventChan) = EventCap \/ done
       /\ Excuse(IF kind = "Created" THEN {t} ELSE late)
       /\ UNCHANGED eventChan

\* shutdown, once.
Shutdown == done' = TRUE

-----------------------------------------------------------------------------
(***************************************************************************)
(* Start.                                                                  *)
(***************************************************************************)

\* markExistingTasks lists the running containers; a failure is a warning.
MarkExisting ==
    /\ start = "mark"
    /\ start' = "workers"
    /\ \/ Answers /\ existing' = {t \in Tasks : life[t] = "running"}
       \/ Fails /\ UNCHANGED existing
    /\ excused' = existing'
    /\ UNCHANGED <<docs, ctx, event, known, polls, chans, announced, cleanups>>

StartWorkers ==
    /\ start = "workers"
    /\ start' = "subscribe" /\ bcast' = "run" /\ poll' = "idle"
    /\ UNCHANGED <<docs, ctx, event, existing, known, listed, found,
                   done, eventChan, sub, subClosed, listening, notes, bounds>>

SubscribeToDocker ==
    /\ start = "subscribe"
    /\ start' = "loop" /\ stream' = "open"
    /\ UNCHANGED <<ours, life, mature, docker, ctx, event, existing, known,
                   polls, chans, notes, bounds>>

\* Fault: the error of the stream does not shut the watcher down.
LeaveLoopOnContext ==
    /\ start = "loop" /\ (~ctx \/ stream = "broken")
    /\ start' = "wait"
    /\ IF ctx THEN UNCHANGED done ELSE Shutdown
    /\ UNCHANGED <<docs, ctx, event, existing, known, polls, bcast, eventChan,
                   sub, subClosed, listening, notes, bounds>>

\* ctx.Done(), or an error of the stream: shut down and wait for the workers.
LeaveLoop ==
    /\ start = "loop" /\ (~ctx \/ stream = "broken")
    /\ start' = "wait"
    /\ Shutdown
    /\ UNCHANGED <<docs, ctx, event, existing, known, polls, bcast, eventChan,
                   sub, subClosed, listening, notes, bounds>>

TakeEvent ==
    /\ start = "loop" /\ docker # <<>>
    /\ event' = Head(docker) /\ docker' = Tail(docker)
    /\ start' = "inspect"
    /\ UNCHANGED <<ours, life, mature, stream, ctx, existing, known, polls,
                   chans, notes, bounds>>

\* handleContainerEvent: a task of another service, one that cannot be
\* inspected, one of an older version or one of another deployment is skipped.
InspectTask ==
    /\ start = "inspect"
    /\ \/ /\ Answers
          /\ event.task \in ours \cap mature /\ Listed(event.task)
          /\ start' = "handle" /\ UNCHANGED event
       \/ /\ Answers
          /\ ~(event.task \in ours \cap mature /\ Listed(event.task))
          /\ start' = "loop" /\ event' = NoEvent
       \/ Fails /\ start' = "loop" /\ event' = NoEvent
    /\ UNCHANGED <<docs, ctx, existing, known, polls, chans, notes, cleanups>>

\* The task is recorded, under the lock, and its event emitted, after it: one
\* step, as the same goroutine does both and nobody reads taskStates to learn
\* what was emitted.  Nothing here asks whether the task is one of existingTasks.
HandleContainerEvent ==
    /\ start = "handle"
    /\ start' = "loop" /\ event' = NoEvent
    /\ known' = known \cup {event.task}
    /\ Emit(KindOf[event.action], event.task,
            IF event.action = "create" THEN {} ELSE {event.task} \ known)
    /\ UNCHANGED <<docs, ctx, existing, polls, done, bcast, sub, subClosed,
                   listening, announced, bounds>>

\* The deferred workersWG.Wait().
ReturnFromStart ==
    /\ start = "wait" /\ poll = "exited" /\ bcast = "exited"
    /\ start' = "returned"
    /\ UNCHANGED <<docs, ctx, event, existing, known, polls, chans, notes,
                   bounds>>

-----------------------------------------------------------------------------
(***************************************************************************)
(* pollTasks.                                                              *)
(***************************************************************************)
ListTasks ==
    /\ poll = "idle"
    /\ \/ /\ Answers
          /\ poll' = "scan"
          /\ listed' = {[task |-> t, life |-> life[t]] : t \in {u \in Tasks : Listed(u)}}
       \/ ctx /\ Fails /\ UNCHANGED <<poll, listed>>
    /\ UNCHANGED <<docs, ctx, starts, known, found, chans, notes, cleanups>>

\* Fault: a task of another deployment passes.
Unfiltered(t) == t \in mature

\* The filters of discoverTasks.
Passes(t) == t \in ours \cap mature

\* An existing task is skipped, and forgotten as existing once it has ended.
\* The check of taskStates and the insertion are under separate locks.
LookAtTask(l) ==
    /\ poll = "scan"
    /\ listed' = listed \ {l}
    /\ IF Passes(l.task) /\ l.task \notin existing \cup known
       THEN poll' = "announce" /\ found' = {l}
       ELSE UNCHANGED <<poll, found>>
    /\ existing' = IF Passes(l.task) /\ l.life = "dead" THEN existing \ {l.task}
                                                       ELSE existing
    /\ UNCHANGED <<docs, ctx, start, event, known, chans, notes, bounds>>

\* Fault: the task is recorded and forgotten.
AnnounceNothing(l) ==
    /\ poll = "announce"
    /\ poll' = "scan" /\ found' = {}
    /\ known' = known \cup {l.task}
    /\ UNCHANGED <<docs, ctx, starts, listed, chans, notes, bounds>>

\* A Created event, next after the insertion and one step with it, then a Started
\* event when there is a container.
AnnounceTask(l) ==
    /\ poll = "announce"
    /\ IF HasContainer(l.life) THEN poll' = "started" /\ UNCHANGED found
                               ELSE poll' = "scan" /\ found' = {}
    /\ known' = known \cup {l.task}
    /\ Emit("Created", l.task, {})
    /\ UNCHANGED <<docs, ctx, starts, listed, done, bcast, sub, subClosed,
                   listening, announced, bounds>>

AnnounceContainer(l) ==
    /\ poll = "started"
    /\ poll' = "scan" /\ found' = {}
    /\ Emit("Started", l.task, {})
    /\ UNCHANGED <<docs, ctx, starts, known, listed, done, bcast, sub,
                   subClosed, listening, announced, bounds>>

ScanDone ==
    /\ poll = "scan" /\ listed = {}
    /\ poll' = "idle"
    /\ UNCHANGED <<docs, ctx, starts, known, listed, found, chans, notes,
                   bounds>>

\* Every five minutes the tasks without an event for ten are forgotten, which
\* may be any of those recorded.
CleanupOldTasks ==
    /\ poll = "idle" /\ cleanups < MaxCleanups
    /\ \E old \in SUBSET known \ {{}} : known' = known \ old
    /\ cleanups' = cleanups + 1
    /\ UNCHANGED <<docs, ctx, starts, polls, chans, notes, faults>>

PollExits ==
    /\ poll = "idle" /\ ~ctx
    /\ poll' = "exited"
    /\ UNCHANGED <<docs, ctx, starts, known, listed, found, chans,
                   notes, bounds>>

-----------------------------------------------------------------------------
(***************************************************************************)
(* broadcastEvents and the subscriber.                                     *)
(***************************************************************************)

\* A full subscriber is skipped, one that has unsubscribed is gone.
Broadcast ==
    /\ bcast = "run" /\ eventChan # <<>>
    /\ eventChan' = Tail(eventChan)
    /\ LET e == Head(eventChan) IN
       IF listening /\ Len(sub) < SubCap
       THEN sub' = Append(sub, e) /\ UNCHANGED excused
       ELSE /\ Excuse(IF listening /\ e.kind = "Created" THEN {e.task} ELSE {})
            /\ UNCHANGED sub
    /\ UNCHANGED <<docs, ctx, starts, known, polls, done, bcast, subClosed,
                   listening, announced, bounds>>

\* Fault: the channels of the subscribers stay open.
BroadcastExitsOpen ==
    /\ bcast = "run" /\ (~ctx \/ done)
    /\ bcast' = "exited"
    /\ UNCHANGED <<docs, ctx, starts, known, polls, done, eventChan, sub,
                   subClosed, listening, notes, bounds>>

\* The broadcaster leaves and closes the channels it still holds.
BroadcastExits ==
    /\ bcast = "run" /\ (~ctx \/ done)
    /\ bcast' = "exited" /\ subClosed' = listening
    /\ UNCHANGED <<docs, ctx, starts, known, polls, done, eventChan, sub,
                   listening, notes, bounds>>

Receive ==
    /\ listening /\ sub # <<>>
    /\ sub' = Tail(sub)
    /\ LET e == Head(sub) IN
          /\ announced' = IF e.kind = "Created" THEN announced \cup {e.task}
                                                ELSE announced
    /\ UNCHANGED <<docs, ctx, starts, known, polls, done, bcast, eventChan,
                   subClosed, listening, excused, bounds>>

\* The subscriber leaves when its context is done or its channel closed and
\* empty; nobody reads or closes the channel after that.
Unsubscribe ==
    /\ listening /\ (~ctx \/ (subClosed /\ sub = <<>>))
    /\ listening' = FALSE /\ sub' = <<>>
    /\ UNCHANGED <<docs, ctx, starts, known, polls, done, bcast, eventChan,
                   subClosed, notes, bounds>>

-----------------------------------------------------------------------------
TaskStep(t) ==
    \/ TaskAppears(t) \/ ContainerCreate(t) \/ ContainerStart(t)
    \/ ContainerDies(t) \/ TaskForgotten(t) \/ TaskMatures(t)

StartStep ==
    \/ MarkExisting \/ StartWorkers \/ SubscribeToDocker
    \/ LeaveLoop \/ TakeEvent \/ InspectTask \/ HandleContainerEvent
    \/ ReturnFromStart

PollStep ==
    \/ ListTasks \/ ScanDone \/ PollExits
    \/ \E l \in listed : LookAtTask(l)
    \/ \E l \in found : AnnounceTask(l) \/ AnnounceContainer(l)

BroadcastStep == Broadcast \/ BroadcastExits

SubscriberStep == Receive \/ Unsubscribe

Next ==
    \/ \E t \in Tasks : TaskStep(t)
    \/ StreamBreaks \/ ContextEnds
    \/ StartStep \/ PollStep \/ CleanupOldTasks
    \/ BroadcastStep \/ SubscriberStep

Spec == Init /\ [][Next]_vars

\* The goroutines are scheduled, the ticker ticks and the subscriber reads.  The
\* select of pollTasks has a ticker that is ready again and again: it does not
\* avoid ctx.Done() for ever, which strong fairness says.  The other selects run
\* out of events.  Docker and the tasks owe nothing, except that a living task
\* reaches the version of its service.
FairSpec ==
    /\ Spec
    /\ WF_vars(StartStep)
    /\ WF_vars(PollStep) /\ SF_vars(PollExits)
    /\ WF_vars(BroadcastStep)
    /\ WF_vars(SubscriberStep)
    /\ \A t \in Tasks : WF_vars(TaskMatures(t))

-----------------------------------------------------------------------------
(***************************************************************************)
(* Properties.                                                             *)
(***************************************************************************)
Message == [kind : Kinds, task : Tasks]
Listing == [task : Tasks, life : Lives]

\* Types and capacities; a closed subscriber channel is never written to, which
\* would panic: it is the broadcaster that closes it, on its way out, unless its
\* subscriber has left before.
TypeOK ==
    /\ ours \subseteq Tasks /\ life \in [Tasks -> Lives] /\ mature \subseteq Tasks
    /\ stream \in {"closed", "open", "broken"}
    /\ docker \in Seq([task : Tasks, action : Actions])
    /\ ctx \in BOOLEAN /\ done \in BOOLEAN /\ subClosed \in BOOLEAN
    /\ listening \in BOOLEAN
    /\ start \in {"mark", "workers", "subscribe", "loop", "inspect",
                 "handle", "wait", "returned"}
    /\ event \in [task : Tasks, action : Actions] \cup {NoEvent}
    /\ existing \subseteq Tasks /\ known \subseteq Tasks
    /\ poll \in {"off", "idle", "scan", "announce", "started", "exited"}
    /\ listed \subseteq Listing /\ found \subseteq Listing
    /\ bcast \in {"off", "run", "exited"}
    /\ eventChan \in Seq(Message) /\ Len(eventChan) <= EventCap
    /\ sub \in Seq(Message) /\ Len(sub) <= SubCap
    /\ announced \subseteq Tasks
    /\ excused \subseteq Tasks
    /\ faults \in 0..MaxFaults /\ cleanups \in 0..MaxCleanups
    /\ subClosed => bcast = "exited"
    /\ bcast = "exited" /\ listening => subClosed

CreatedIn(chan, t) ==
    \E i \in DOMAIN chan : chan[i] = [kind |-> "Created", task |-> t]

\* The subscriber hears of the watched deployment only, by either way; and as
\* long as the broadcaster and it are there, a task that was recorded, which no
\* poll will announce again, has been announced or its Created event is in one
\* of the channels, unless it was lost to an earlier event or a full channel.
RecordedIsHeard ==
    /\ \A i \in DOMAIN sub : sub[i].task \in ours
    /\ listening /\ bcast # "exited" =>
          \A t \in known :
              t \in announced \cup excused \/ CreatedIn(eventChan, t) \/ CreatedIn(sub, t)

\* A task of the deployment that runs, was not there before and is not lost to
\* an earlier event or to a full channel, is announced to the subscriber.
TaskAnnounced ==
    \A t \in Tasks :
        (t \in ours /\ life[t] = "running") ~>
            \/ t \in announced \cup excused
            \/ life[t] = "gone" \/ ~ctx \/ done

\* When the stream breaks, the subscriber leaves: its channel is closed even if
\* the context lives on, so that monitorServiceTasks does not wait for ever.
\* When the context ends it leaves too, Start returns, and none of its
\* goroutines is left.
EveryoneReleased ==
    /\ (start = "loop" /\ (~ctx \/ stream = "broken")) ~> ~listening
    /\ (~ctx) ~> (start = "returned" /\ poll = "exited" /\ bcast = "exited")

=============================================================================
