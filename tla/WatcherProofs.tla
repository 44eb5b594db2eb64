---------------------------- MODULE WatcherProofs ----------------------------
(***************************************************************************)
(* The safety of module Watcher for every set of tasks, every capacity of  *)
(* the channels and every number of failed calls and clean-ups.            *)
(*                                                                         *)
(* Both ways a task is found filter it before anything is emitted, and the *)
(* channels carry only what was emitted (Filtered).  The channel of the    *)
(* subscriber is closed on the last step of the broadcaster, which has not *)
(* begun before the workers are started, and nothing is recorded until     *)
(* then (Stages).  What is recorded has an announcement that no later step *)
(* takes back (Recorded): every step that touches a channel or the table   *)
(* keeps it for each task (KeepsAccount).                                  *)
(***************************************************************************)
EXTENDS Watcher, TLAPS

ContainerEvent == [task : Tasks, action : Actions]

Stages ==
    /\ start \in {"mark", "workers"} => bcast = "off" /\ poll = "off" /\ known = {}
    /\ start \in {"inspect", "handle"} => event \in ContainerEvent

OwnMessage == [kind : Kinds, task : ours]

Filtered ==
    /\ start = "handle" => event.task \in ours
    /\ \A l \in found : l.task \in ours
    /\ eventChan \in Seq(OwnMessage) /\ sub \in Seq(OwnMessage)

\* Task t has been announced, will be, or has an excuse.
Accounted(t) ==
    t \in announced \cup excused \/ CreatedIn(eventChan, t) \/ CreatedIn(sub, t)

Heard == listening /\ bcast # "exited"

Recorded == Heard => \A t \in known : Accounted(t)

Base == TypeOK /\ Stages /\ Filtered

IInv == Base /\ Recorded

-----------------------------------------------------------------------------
LEMMA CallCounts ==
    ASSUME faults \in 0..MaxFaults, Answers \/ Fails
    PROVE  faults' \in 0..MaxFaults
BY WatcherAssumption DEF Answers, Fails

\* A channel after a send and after a receive.
LEMMA SendTo ==
    ASSUME NEW S, NEW q \in Seq(S), NEW e \in S
    PROVE  Append(q, e) \in Seq(S) /\ Len(Append(q, e)) = Len(q) + 1
OBVIOUS

LEMMA ReceiveFrom ==
    ASSUME NEW S, NEW q \in Seq(S), q # <<>>
    PROVE  Head(q) \in S /\ Tail(q) \in Seq(S) /\ Len(Tail(q)) = Len(q) - 1
OBVIOUS

\* A Created event in a channel stays there when another is sent, and leaves it
\* as its head.
LEMMA SendShows ==
    ASSUME NEW q \in Seq(Message), NEW e \in Message, NEW t
    PROVE  /\ CreatedIn(q, t) => CreatedIn(Append(q, e), t)
           /\ e = [kind |-> "Created", task |-> t] => CreatedIn(Append(q, e), t)
<1>1. /\ DOMAIN Append(q, e) = 1..(Len(q) + 1) /\ DOMAIN q = 1..Len(q) /\ Len(q) \in Nat
      /\ \A i \in 1..Len(q) : Append(q, e)[i] = q[i]
      /\ Append(q, e)[Len(q) + 1] = e
  OBVIOUS
<1> QED
  BY <1>1 DEF CreatedIn

LEMMA ReceiveShows ==
    ASSUME NEW q \in Seq(Message), q # <<>>, NEW t, CreatedIn(q, t)
    PROVE  Head(q) = [kind |-> "Created", task |-> t] \/ CreatedIn(Tail(q), t)
<1>1. PICK i \in DOMAIN q : q[i] = [kind |-> "Created", task |-> t]
  BY DEF CreatedIn
<1>2. CASE i = 1
  BY <1>1, <1>2
<1>3. CASE i # 1
  <2>1. i - 1 \in DOMAIN Tail(q) /\ Tail(q)[i - 1] = q[i]
    BY <1>1, <1>3
  <2> QED
    BY <1>1, <2>1 DEF CreatedIn
<1> QED
  BY <1>2, <1>3

\* A step that records nothing and leaves every announcement where it can be
\* found keeps the account.
LEMMA KeepsAccount ==
    ASSUME Recorded, Heard' => Heard, known' \subseteq known,
           \A t \in known : Accounted(t) => Accounted(t)'
    PROVE  Recorded'
BY DEF Recorded

\* emitEvent keeps the account of everyone, and opens that of its task unless
\* its event is not the first.
LEMMA EmitAccounts ==
    ASSUME Base, Recorded, NEW kind \in Kinds, NEW t \in Tasks, NEW late \in SUBSET Tasks,
           Emit(kind, t, late), UNCHANGED <<announced, sub, listening, bcast>>,
           known' = known \cup {t} \/ known' = known,
           kind = "Created" \/ t \in late \/ t \in known
    PROVE  Recorded'
<1> DEFINE e == [kind |-> kind, task |-> t]
<1>1. e \in Message /\ eventChan \in Seq(Message) /\ (Heard' <=> Heard)
  BY DEF Base, TypeOK, Message, Heard
<1>2. \/ eventChan' = Append(eventChan, e) /\ excused' = excused \cup late
      \/ /\ eventChan' = eventChan
         /\ excused' = excused \cup (IF kind = "Created" THEN {t} ELSE late)
  BY DEF Emit, Excuse
<1> HIDE DEF e
<1>3. ASSUME NEW u, Accounted(u) PROVE Accounted(u)'
  BY <1>1, <1>2, <1>3, SendShows DEF Accounted
<1>4. Heard /\ t \in known' => Accounted(t)'
  <2>1. CASE t \in known
    BY <1>3, <2>1 DEF Recorded
  <2>2. CASE kind = "Created"
    <3>1. e = [kind |-> "Created", task |-> t]
      BY <2>2 DEF e
    <3>2. CASE eventChan' = Append(eventChan, e)
      BY <1>1, <3>1, <3>2, SendShows DEF Accounted
    <3>3. CASE excused' = excused \cup (IF kind = "Created" THEN {t} ELSE late)
      BY <2>2, <3>3 DEF Accounted
    <3> QED
      BY <1>2, <3>2, <3>3
  <2>3. CASE kind # "Created" /\ t \in late
    BY <1>2, <2>3 DEF Accounted
  <2> QED
    BY <2>1, <2>2, <2>3
<1>5. \A u \in known : Heard => Accounted(u)'
  BY <1>3 DEF Recorded
<1> QED
  BY <1>1, <1>4, <1>5 DEF Recorded

\* emitEvent keeps the bound of the channel and adds nothing but its event.
LEMMA EmitKeeps ==
    ASSUME Base, NEW kind \in Kinds, NEW t \in ours, NEW late \in SUBSET Tasks,
           Emit(kind, t, late), ours' = ours
    PROVE  /\ (eventChan \in Seq(Message) /\ Len(eventChan) <= EventCap)'
           /\ eventChan' \in Seq(OwnMessage) /\ excused' \subseteq Tasks
<1> DEFINE e == [kind |-> kind, task |-> t]
<1>1. /\ e \in Message /\ e \in OwnMessage /\ ours \subseteq Tasks
      /\ eventChan \in Seq(Message) /\ eventChan \in Seq(OwnMessage)
      /\ Len(eventChan) <= EventCap /\ excused \subseteq Tasks
  BY DEF Base, TypeOK, Filtered, Message, OwnMessage
<1>2. /\ Append(eventChan, e) \in Seq(Message)
      /\ Append(eventChan, e) \in Seq(OwnMessage)
      /\ Len(Append(eventChan, e)) = Len(eventChan) + 1
  BY <1>1, SendTo
<1>3. excused' \subseteq Tasks
  BY <1>1 DEF Emit, Excuse
<1>4. CASE eventChan' = eventChan
  BY <1>1, <1>3, <1>4
<1>5. CASE Len(eventChan) < EventCap /\ eventChan' = Append(eventChan, e)
  <2>1. Len(eventChan) \in Nat /\ EventCap \in Nat
    BY <1>1, WatcherAssumption
  <2> QED
    BY <1>2, <1>3, <1>5, <2>1
<1> QED
  BY <1>4, <1>5 DEF Emit

LEMMA InitHolds == ASSUME Init PROVE IInv
<1>1. /\ life \in [Tasks -> Lives]
      /\ docker \in Seq([task : Tasks, action : Actions])
      /\ eventChan \in Seq(Message) /\ sub \in Seq(Message)
      /\ Len(eventChan) = 0 /\ Len(sub) = 0
  BY DEF Init, Lives
<1>2. 0 <= EventCap /\ 0 <= SubCap /\ 0 \in 0..MaxFaults /\ 0 \in 0..MaxCleanups
  BY WatcherAssumption
<1>3. TypeOK
  BY <1>1, <1>2 DEF Init, TypeOK
<1> QED
  BY <1>3 DEF Init, Base, IInv, Stages, Filtered, Recorded

-----------------------------------------------------------------------------
(***************************************************************************)
(* Docker.                                                                 *)
(***************************************************************************)
LEMMA DockerKeeps ==
    ASSUME Base, (\E t \in Tasks : TaskStep(t)) \/ StreamBreaks \/ ContextEnds
    PROVE  Base'
<1> USE DEF starts, polls, chans, notes, bounds
<1>1. ASSUME NEW t \in Tasks, TaskStep(t) PROVE Base'
  <2>1. /\ UNCHANGED <<ours, stream, ctx, starts, known, polls, chans, notes, bounds>>
        /\ life' \in [Tasks -> Lives] /\ mature' \subseteq Tasks
    BY <1>1 DEF TaskStep, TaskAppears, ContainerCreate, ContainerStart,
       ContainerDies, TaskForgotten, TaskMatures, Live, Base, TypeOK, Lives
  <2>2. docker' \in Seq([task : Tasks, action : Actions])
    <3>1. ASSUME NEW a \in Actions, Send(t, a)
          PROVE  docker' \in Seq([task : Tasks, action : Actions])
      <4>1. /\ [task |-> t, action |-> a] \in [task : Tasks, action : Actions]
            /\ docker \in Seq([task : Tasks, action : Actions])
        BY DEF Base, TypeOK
      <4> QED
        BY <3>1, <4>1, SendTo DEF Send
    <3> QED
      BY <1>1, <3>1 DEF TaskStep, TaskAppears, ContainerCreate, ContainerStart,
         ContainerDies, TaskForgotten, TaskMatures, Actions, Base, TypeOK
  <2>3. TypeOK'
    BY <2>1, <2>2 DEF Base, TypeOK
  <2> QED
    BY <2>1, <2>3 DEF Base, Stages, Filtered, OwnMessage
<1>2. CASE StreamBreaks
  <2>1. TypeOK'
    BY <1>2 DEF Base, TypeOK, StreamBreaks
  <2> QED
    BY <1>2, <2>1 DEF Base, Stages, Filtered, OwnMessage, StreamBreaks
<1>3. CASE ContextEnds
  <2>1. /\ UNCHANGED <<ours, life, mature, stream, docker, starts, known, polls,
                       chans, notes, bounds>>
        /\ ctx' \in BOOLEAN
    BY <1>3 DEF ContextEnds, docs
  <2>2. TypeOK'
    BY <2>1 DEF Base, TypeOK
  <2> QED
    BY <2>1, <2>2 DEF Base, Stages, Filtered, OwnMessage
<1> QED
  BY <1>1, <1>2, <1>3

-----------------------------------------------------------------------------
(***************************************************************************)
(* Start.                                                                  *)
(***************************************************************************)
LEMMA StartKeeps == ASSUME Base, StartStep PROVE Base'
<1> USE DEF docs, polls, chans, notes, bounds, OwnMessage
<1>1. CASE MarkExisting
  <2>1. faults' \in 0..MaxFaults
    BY <1>1, CallCounts DEF MarkExisting, Base, TypeOK
  <2>2. existing' \subseteq Tasks /\ excused' \subseteq Tasks
    BY <1>1 DEF MarkExisting, Base, TypeOK
  <2>3. TypeOK'
    BY <1>1, <2>1, <2>2 DEF Base, TypeOK, MarkExisting
  <2> QED
    BY <1>1, <2>3 DEF Base, Stages, Filtered, MarkExisting
<1>2. CASE StartWorkers
  <2>1. TypeOK'
    BY <1>2 DEF Base, TypeOK, Stages, StartWorkers
  <2> QED
    BY <1>2, <2>1 DEF Base, Stages, Filtered, StartWorkers
<1>3. CASE SubscribeToDocker
  <2>1. TypeOK'
    BY <1>3 DEF Base, TypeOK, SubscribeToDocker
  <2> QED
    BY <1>3, <2>1 DEF Base, Stages, Filtered, SubscribeToDocker
<1>4. CASE LeaveLoop
  <2>1. TypeOK'
    BY <1>4 DEF Base, TypeOK, LeaveLoop, Shutdown
  <2> QED
    BY <1>4, <2>1 DEF Base, Stages, Filtered, LeaveLoop
<1>5. CASE TakeEvent
  <2>1. /\ event' \in ContainerEvent
        /\ docker' \in Seq([task : Tasks, action : Actions])
    BY <1>5, ReceiveFrom DEF TakeEvent, Base, TypeOK, ContainerEvent
  <2>2. TypeOK'
    BY <1>5, <2>1 DEF Base, TypeOK, TakeEvent, ContainerEvent
  <2> QED
    BY <1>5, <2>1, <2>2 DEF Base, Stages, Filtered, TakeEvent
<1>6. CASE InspectTask
  <2>1. faults' \in 0..MaxFaults
    BY <1>6, CallCounts DEF InspectTask, Base, TypeOK
  <2>2. /\ start = "inspect"
        /\ \/ start' = "handle" /\ event' = event /\ event.task \in ours
           \/ start' = "loop" /\ event' = NoEvent
        /\ UNCHANGED <<docs, ctx, existing, known, polls, chans, notes, cleanups>>
    BY <1>6 DEF InspectTask
  <2>3. TypeOK'
    BY <2>1, <2>2 DEF Base, TypeOK
  <2> QED
    BY <2>2, <2>3 DEF Base, Stages, Filtered
<1>7. CASE HandleContainerEvent
  <2> DEFINE late == IF event.action = "create" THEN {} ELSE {event.task} \ known
  <2>1. /\ start = "handle" /\ start' = "loop" /\ event' = NoEvent
        /\ known' = known \cup {event.task}
        /\ Emit(KindOf[event.action], event.task, late)
        /\ UNCHANGED <<docs, ctx, existing, polls, done, bcast, sub, subClosed,
                       listening, announced, bounds>>
    BY <1>7 DEF HandleContainerEvent
  <2>2. event.task \in ours /\ event.task \in Tasks /\ event.action \in Actions
    BY <2>1 DEF Base, Stages, Filtered, ContainerEvent
  <2>3. KindOf[event.action] \in Kinds /\ late \in SUBSET Tasks
    BY <2>2 DEF KindOf, Kinds, Actions
  <2> HIDE DEF late
  <2>4. /\ (eventChan \in Seq(Message) /\ Len(eventChan) <= EventCap)'
        /\ eventChan' \in Seq(OwnMessage) /\ excused' \subseteq Tasks
    BY <2>1, <2>2, <2>3, EmitKeeps DEF Base
  <2>5. TypeOK'
    BY <2>1, <2>2, <2>4 DEF Base, TypeOK
  <2> QED
    BY <2>1, <2>4, <2>5 DEF Base, Stages, Filtered
<1>8. CASE ReturnFromStart
  <2>1. TypeOK'
    BY <1>8 DEF Base, TypeOK, ReturnFromStart
  <2> QED
    BY <1>8, <2>1 DEF Base, Stages, Filtered, ReturnFromStart
<1> QED
  BY <1>1, <1>2, <1>3, <1>4, <1>5, <1>6, <1>7, <1>8 DEF StartStep

-----------------------------------------------------------------------------
(***************************************************************************)
(* pollTasks.                                                              *)
(***************************************************************************)
LEMMA PollKeeps == ASSUME Base, PollStep \/ CleanupOldTasks PROVE Base'
<1> USE DEF docs, starts, chans, notes, bounds, OwnMessage
<1>1. CASE ListTasks
  <2>1. faults' \in 0..MaxFaults
    BY <1>1, CallCounts DEF ListTasks, Base, TypeOK
  <2>2. listed' \subseteq Listing
    BY <1>1 DEF ListTasks, Base, TypeOK, Listing
  <2>3. TypeOK'
    BY <1>1, <2>1, <2>2 DEF Base, TypeOK, ListTasks
  <2> QED
    BY <1>1, <2>3 DEF Base, Stages, Filtered, ListTasks
<1>2. CASE ScanDone \/ PollExits
  <2>1. TypeOK'
    BY <1>2 DEF Base, TypeOK, ScanDone, PollExits, polls
  <2> QED
    BY <1>2, <2>1 DEF Base, Stages, Filtered, ScanDone, PollExits, polls
<1>3. CASE CleanupOldTasks
  <2>1. known' \subseteq Tasks /\ cleanups' \in 0..MaxCleanups
    BY <1>3, WatcherAssumption DEF CleanupOldTasks, Base, TypeOK
  <2>2. TypeOK'
    BY <1>3, <2>1 DEF Base, TypeOK, CleanupOldTasks, polls
  <2> QED
    BY <1>3, <2>2 DEF Base, Stages, Filtered, CleanupOldTasks, polls
<1>4. ASSUME NEW l \in listed, LookAtTask(l) PROVE Base'
  <2>1. /\ listed' \subseteq listed /\ existing' \subseteq existing
        /\ poll = "scan" /\ poll' \in {poll, "announce"}
        /\ found' = found \/ (found' = {l} /\ l.task \in ours)
        /\ UNCHANGED <<docs, ctx, start, event, known, chans, notes, bounds>>
    BY <1>4 DEF LookAtTask, Passes
  <2>2. TypeOK'
    BY <2>1 DEF Base, TypeOK
  <2> QED
    BY <2>1, <2>2 DEF Base, Stages, Filtered
<1>5. ASSUME NEW l \in found, AnnounceTask(l) \/ AnnounceContainer(l) PROVE Base'
  <2>1. /\ poll # "off" /\ poll' \in {"started", "scan"} /\ found' \subseteq found
        /\ known' \in {known, known \cup {l.task}}
        /\ Emit("Created", l.task, {}) \/ Emit("Started", l.task, {})
        /\ UNCHANGED <<docs, ctx, starts, listed, done, bcast, sub, subClosed,
                       listening, announced, bounds>>
    BY <1>5 DEF AnnounceTask, AnnounceContainer
  <2>2. l.task \in ours /\ l.task \in Tasks /\ {"Created", "Started"} \subseteq Kinds
    BY DEF Base, TypeOK, Filtered, Kinds
  <2>3. /\ (eventChan \in Seq(Message) /\ Len(eventChan) <= EventCap)'
        /\ eventChan' \in Seq(OwnMessage) /\ excused' \subseteq Tasks
    <3>1. PICK kind \in Kinds : Emit(kind, l.task, {})
      BY <2>1, <2>2
    <3>2. ours' = ours /\ {} \in SUBSET Tasks
      BY <2>1
    <3> QED
      BY <2>2, <3>1, <3>2, EmitKeeps
  <2>4. TypeOK'
    BY <2>1, <2>2, <2>3 DEF Base, TypeOK
  <2> QED
    BY <2>1, <2>3, <2>4 DEF Base, Stages, Filtered
<1> QED
  BY <1>1, <1>2, <1>3, <1>4, <1>5 DEF PollStep

-----------------------------------------------------------------------------
(***************************************************************************)
(* broadcastEvents and the subscriber.                                     *)
(***************************************************************************)
LEMMA BroadcastKeeps == ASSUME Base, BroadcastStep \/ SubscriberStep PROVE Base'
<1> USE DEF docs, starts, polls, notes, bounds, OwnMessage
<1>1. CASE Broadcast
  <2> DEFINE e == Head(eventChan)
  <2>1. /\ eventChan # <<>> /\ eventChan' = Tail(eventChan)
        /\ \/ Len(sub) < SubCap /\ sub' = Append(sub, e) /\ excused' = excused
           \/ sub' = sub /\ excused' \in {excused, excused \cup {e.task}}
        /\ UNCHANGED <<docs, ctx, starts, known, polls, done, bcast, subClosed,
                       listening, announced, bounds>>
    BY <1>1 DEF Broadcast, Excuse
  <2>2. /\ e \in Message /\ Tail(eventChan) \in Seq(Message)
        /\ e \in OwnMessage /\ Tail(eventChan) \in Seq(OwnMessage)
        /\ Len(Tail(eventChan)) = Len(eventChan) - 1
    BY <2>1, ReceiveFrom DEF Base, TypeOK, Filtered
  <2> HIDE DEF e
  <2>3. /\ Append(sub, e) \in Seq(Message) /\ Append(sub, e) \in Seq(OwnMessage)
        /\ Len(Append(sub, e)) = Len(sub) + 1
    BY <2>2, SendTo DEF Base, TypeOK, Filtered
  <2>4. Len(eventChan') <= EventCap /\ Len(sub') <= SubCap
    BY <2>1, <2>2, <2>3, WatcherAssumption DEF Base, TypeOK
  <2>5. excused' \subseteq Tasks
    BY <2>1, <2>2 DEF Base, TypeOK, Message
  <2>6. eventChan' \in Seq(Message) /\ sub' \in Seq(Message)
    BY <2>1, <2>2, <2>3 DEF Base, TypeOK
  <2>7. TypeOK'
    BY <2>1, <2>4, <2>5, <2>6 DEF Base, TypeOK
  <2> QED
    BY <2>1, <2>2, <2>3, <2>7 DEF Base, Stages, Filtered
<1>2. CASE BroadcastExits
  <2>1. TypeOK'
    BY <1>2 DEF Base, TypeOK, BroadcastExits
  <2> QED
    BY <1>2, <2>1 DEF Base, Stages, Filtered, BroadcastExits
<1>3. CASE Receive
  <2>1. /\ Head(sub) \in Message /\ Tail(sub) \in Seq(Message)
        /\ Tail(sub) \in Seq(OwnMessage) /\ Len(Tail(sub)) = Len(sub) - 1
    BY <1>3, ReceiveFrom DEF Receive, Base, TypeOK, Filtered
  <2>2. announced' \subseteq Tasks /\ Len(sub') <= SubCap
    BY <1>3, <2>1, WatcherAssumption DEF Receive, Base, TypeOK, Message
  <2>3. TypeOK'
    BY <1>3, <2>1, <2>2 DEF Base, TypeOK, Receive
  <2> QED
    BY <1>3, <2>1, <2>3 DEF Base, Stages, Filtered, Receive
<1>4. CASE Unsubscribe
  <2>1. sub' = <<>> /\ <<>> \in Seq(Message) /\ <<>> \in Seq(OwnMessage)
        /\ Len(<<>>) <= SubCap
    BY <1>4, WatcherAssumption DEF Unsubscribe
  <2>2. TypeOK'
    BY <1>4, <2>1 DEF Base, TypeOK, Unsubscribe
  <2> QED
    BY <1>4, <2>1, <2>2 DEF Base, Stages, Filtered, Unsubscribe
<1> QED
  BY <1>1, <1>2, <1>3, <1>4 DEF BroadcastStep, SubscriberStep

-----------------------------------------------------------------------------
(***************************************************************************)
(* The account of what is recorded.                                        *)
(***************************************************************************)

\* Steps that touch neither the channels nor the table.
LEMMA ElsewhereAccounts ==
    ASSUME Base, Recorded,
           \/ \E t \in Tasks : TaskStep(t)
           \/ StreamBreaks \/ ContextEnds
           \/ StartWorkers \/ SubscribeToDocker \/ LeaveLoop \/ TakeEvent
           \/ InspectTask \/ ReturnFromStart
           \/ ListTasks \/ ScanDone \/ PollExits
           \/ \E l \in listed : LookAtTask(l)
    PROVE  Recorded'
<1> USE DEF docs, starts, polls, chans, notes, bounds
<1>1. /\ UNCHANGED <<known, eventChan, sub, listening, announced, excused>>
      /\ bcast' = bcast \/ (bcast = "off" /\ bcast' = "run")
  <2>1. CASE \E t \in Tasks : TaskStep(t)
    BY <2>1 DEF TaskStep, TaskAppears, ContainerCreate, ContainerStart,
       ContainerDies, TaskForgotten, TaskMatures, Live
  <2>2. CASE StreamBreaks \/ ContextEnds \/ SubscribeToDocker \/ LeaveLoop
             \/ TakeEvent \/ InspectTask \/ ReturnFromStart
    BY <2>2 DEF StreamBreaks, ContextEnds, SubscribeToDocker, LeaveLoop, TakeEvent,
       InspectTask, ReturnFromStart
  <2>3. CASE StartWorkers
    BY <2>3 DEF StartWorkers, Base, Stages
  <2>4. CASE ListTasks \/ ScanDone \/ PollExits \/ \E l \in listed : LookAtTask(l)
    BY <2>4 DEF ListTasks, ScanDone, PollExits, LookAtTask
  <2> QED
    BY <2>1, <2>2, <2>3, <2>4
<1>2. Heard' => Heard
  BY <1>1 DEF Heard
<1> QED
  BY <1>1, <1>2, KeepsAccount DEF Accounted

LEMMA RecordedNext == ASSUME Base, Recorded, Next PROVE Recorded'
<1> USE DEF docs, starts, polls, chans, notes, bounds
<1>1. CASE MarkExisting
  <2>1. known = {} /\ known' = {}
    BY <1>1 DEF MarkExisting, Base, Stages
  <2> QED
    BY <2>1 DEF Recorded
<1>2. CASE HandleContainerEvent
  <2> DEFINE late == IF event.action = "create" THEN {} ELSE {event.task} \ known
  <2>1. /\ start = "handle" /\ known' = known \cup {event.task}
        /\ Emit(KindOf[event.action], event.task, late)
        /\ UNCHANGED <<announced, sub, listening, bcast>>
    BY <1>2 DEF HandleContainerEvent
  <2>2. event.task \in Tasks /\ event.action \in Actions
    BY <2>1 DEF Base, Stages, ContainerEvent
  <2>3. /\ KindOf[event.action] \in Kinds /\ late \in SUBSET Tasks
        /\ KindOf[event.action] = "Created" \/ event.task \in late \/ event.task \in known
    BY <2>2 DEF KindOf, Kinds, Actions
  <2> HIDE DEF late
  <2> QED
    BY <2>1, <2>2, <2>3, EmitAccounts
<1>3. CASE CleanupOldTasks
  <2>1. /\ known' \subseteq known
        /\ UNCHANGED <<eventChan, sub, listening, bcast, announced, excused>>
    BY <1>3 DEF CleanupOldTasks
  <2> QED
    BY <2>1, KeepsAccount DEF Accounted, Heard
<1>4. ASSUME NEW l \in found, AnnounceTask(l) PROVE Recorded'
  <2>1. /\ known' = known \cup {l.task} /\ Emit("Created", l.task, {})
        /\ UNCHANGED <<announced, sub, listening, bcast>>
    BY <1>4 DEF AnnounceTask
  <2>2. l.task \in Tasks /\ "Created" \in Kinds /\ {} \in SUBSET Tasks
    BY DEF Base, TypeOK, Listing, Kinds
  <2> QED
    BY <2>1, <2>2, EmitAccounts
<1>5. ASSUME NEW l \in found, AnnounceContainer(l) PROVE Recorded'
  <2>1. /\ known' = known /\ Emit("Started", l.task, {})
        /\ UNCHANGED <<announced, sub, listening, bcast>>
    BY <1>5 DEF AnnounceContainer
  <2> DEFINE e == [kind |-> "Started", task |-> l.task]
  <2>2. e \in Message /\ eventChan \in Seq(Message)
    BY DEF Base, TypeOK, Listing, Kinds, Message
  <2>3. /\ eventChan' = Append(eventChan, e) \/ eventChan' = eventChan
        /\ excused' = excused
    BY <2>1 DEF Emit, Excuse
  <2> HIDE DEF e
  <2>4. \A t \in known : Accounted(t) => Accounted(t)'
    BY <2>1, <2>2, <2>3, SendShows DEF Accounted
  <2> QED
    BY <2>1, <2>4, KeepsAccount DEF Heard
<1>6. CASE Broadcast
  <2> DEFINE e == Head(eventChan)
  <2>1. /\ eventChan # <<>> /\ eventChan' = Tail(eventChan)
        /\ \/ sub' = Append(sub, e) /\ excused' = excused
           \/ /\ sub' = sub
              /\ excused' = excused \cup
                    (IF listening /\ e.kind = "Created" THEN {e.task} ELSE {})
        /\ UNCHANGED <<known, bcast, listening, announced>>
    BY <1>6 DEF Broadcast, Excuse
  <2>2. eventChan \in Seq(Message) /\ sub \in Seq(Message) /\ e \in Message
    BY <2>1, ReceiveFrom DEF Base, TypeOK
  <2> HIDE DEF e
  <2>3. ASSUME NEW t \in known, Heard, Accounted(t) PROVE Accounted(t)'
    <3>1. CASE CreatedIn(eventChan, t)
      <4>1. e = [kind |-> "Created", task |-> t] \/ CreatedIn(Tail(eventChan), t)
        BY <2>1, <2>2, <3>1, ReceiveShows DEF e
      <4>2. CASE e = [kind |-> "Created", task |-> t]
        <5>1. e.kind = "Created" /\ e.task = t /\ listening
          BY <2>3, <4>2 DEF Heard
        <5>2. CASE sub' = Append(sub, e)
          BY <2>2, <4>2, <5>2, SendShows DEF Accounted
        <5>3. CASE t \in excused'
          BY <5>3 DEF Accounted
        <5> QED
          BY <2>1, <5>1, <5>2, <5>3
      <4> QED
        BY <2>1, <4>1, <4>2 DEF Accounted
    <3>2. CASE CreatedIn(sub, t)
      BY <2>1, <2>2, <3>2, SendShows DEF Accounted
    <3>3. CASE t \in announced \cup excused
      BY <2>1, <3>3 DEF Accounted
    <3> QED
      BY <2>3, <3>1, <3>2, <3>3 DEF Accounted
  <2> QED
    BY <2>1, <2>3 DEF Recorded, Heard
<1>7. CASE BroadcastExits
  BY <1>7 DEF BroadcastExits, Recorded, Heard
<1>8. CASE Receive
  <2>1. /\ sub # <<>> /\ sub' = Tail(sub) /\ sub \in Seq(Message)
        /\ announced' = announced \cup
              (IF Head(sub).kind = "Created" THEN {Head(sub).task} ELSE {})
        /\ UNCHANGED <<known, eventChan, listening, bcast, excused>>
    BY <1>8 DEF Receive, Base, TypeOK
  <2>2. ASSUME NEW t \in known, Accounted(t) PROVE Accounted(t)'
    <3>1. CASE CreatedIn(sub, t)
      <4>1. Head(sub) = [kind |-> "Created", task |-> t] \/ CreatedIn(Tail(sub), t)
        BY <2>1, <3>1, ReceiveShows
      <4> QED
        BY <2>1, <4>1 DEF Accounted
    <3> QED
      BY <2>1, <2>2, <3>1 DEF Accounted
  <2> QED
    BY <2>1, <2>2, KeepsAccount DEF Heard
<1>9. CASE Unsubscribe
  BY <1>9 DEF Unsubscribe, Recorded, Heard
<1> QED
  BY <1>1, <1>2, <1>3, <1>4, <1>5, <1>6, <1>7, <1>8, <1>9, ElsewhereAccounts
     DEF Next, StartStep, PollStep, BroadcastStep, SubscriberStep

-----------------------------------------------------------------------------
(***************************************************************************)
(* Theorems.                                                               *)
(***************************************************************************)

\* The inductive invariant of the watcher holds in every reachable state.
THEOREM WatcherInvariance == Spec => []IInv
<1>1. ASSUME Base, UNCHANGED vars PROVE Base'
  <2>1. TypeOK'
    BY <1>1 DEF vars, docs, starts, polls, chans, notes, bounds, Base, TypeOK
  <2> QED
    BY <1>1, <2>1 DEF vars, docs, starts, polls, chans, Base, Stages, Filtered,
       OwnMessage
<1>2. ASSUME Recorded, UNCHANGED vars PROVE Recorded'
  BY <1>2, KeepsAccount DEF vars, chans, notes, Accounted, Heard
<1>3. ASSUME Base, Next PROVE Base'
  BY <1>3, DockerKeeps, StartKeeps, PollKeeps, BroadcastKeeps DEF Next
<1>4. IInv /\ [Next]_vars => IInv'
  BY <1>1, <1>2, <1>3, RecordedNext DEF IInv
<1> QED
  BY InitHolds, <1>4, PTL DEF Spec

\* Types and capacities; broadcastEvents closes the channel of a subscriber once,
\* as its last step, and nothing is sent to it after that.
THEOREM WatcherTypes == Spec => []TypeOK
<1>1. IInv => TypeOK
  BY DEF IInv, Base
<1> QED
  BY <1>1, WatcherInvariance, PTL

\* Neither handleContainerEvent nor discoverTasks lets a task of another service
\* or deployment through to the subscriber, and neither records a task without
\* an announcement that reaches it or is lost for one of the known reasons.
THEOREM SubscriberHears == Spec => []RecordedIsHeard
<1>1. ASSUME IInv PROVE RecordedIsHeard
  <2>1. sub \in Seq(OwnMessage)
    BY <1>1 DEF IInv, Base, Filtered
  <2>2. \A i \in DOMAIN sub : sub[i].task \in ours
    <3>1. \A i \in DOMAIN sub : sub[i] \in OwnMessage
      BY <2>1
    <3> QED
      BY <3>1 DEF OwnMessage
  <2> QED
    BY <1>1, <2>2 DEF IInv, Recorded, Heard, Accounted, RecordedIsHeard
<1> QED
  BY <1>1, WatcherInvariance, PTL

-----------------------------------------------------------------------------
(***************************************************************************)
(* Why the subscriber is released and the goroutines end.  Liveness stays  *)
(* with TLC; what is proved of it for every instance is that whoever has   *)
(* to end can go on.                                                       *)
(***************************************************************************)
Endings ==
    /\ poll \in {"announce", "started"} => found # {}
    /\ start \in {"wait", "returned"} => done
    /\ start \notin {"mark", "workers"} => bcast # "off" /\ poll # "off"
    /\ start = "returned" => poll = "exited" /\ bcast = "exited"

LEMMA EndingsNext == ASSUME Base, Endings, [Next]_vars PROVE Endings'
<1> USE DEF docs, starts, polls, chans, notes, bounds, Endings
<1>1. ASSUME NEW t \in Tasks, TaskStep(t) PROVE Endings'
  BY <1>1 DEF TaskStep, TaskAppears, ContainerCreate, ContainerStart,
     ContainerDies, TaskForgotten, TaskMatures, Live
<1>2. CASE StreamBreaks \/ ContextEnds
  BY <1>2 DEF StreamBreaks, ContextEnds
<1>3. CASE StartStep
  BY <1>3 DEF StartStep, MarkExisting, StartWorkers, SubscribeToDocker, LeaveLoop,
     Shutdown, TakeEvent, InspectTask, HandleContainerEvent, ReturnFromStart
<1>4. CASE ListTasks \/ ScanDone \/ PollExits \/ CleanupOldTasks
  BY <1>4 DEF ListTasks, ScanDone, PollExits, CleanupOldTasks
<1>5. ASSUME NEW l \in listed, LookAtTask(l) PROVE Endings'
  BY <1>5 DEF LookAtTask
<1>6. ASSUME NEW l \in found, AnnounceTask(l) \/ AnnounceContainer(l) PROVE Endings'
  BY <1>6 DEF AnnounceTask, AnnounceContainer
<1>7. CASE BroadcastStep \/ SubscriberStep
  BY <1>7 DEF BroadcastStep, SubscriberStep, Broadcast, BroadcastExits, Receive,
     Unsubscribe
<1>8. CASE UNCHANGED vars
  BY <1>8 DEF vars
<1> QED
  BY <1>1, <1>2, <1>3, <1>4, <1>5, <1>6, <1>7, <1>8 DEF Next, PollStep

LEMMA EndingsInvariance == Spec => [](IInv /\ Endings)
<1>1. Init => Endings
  BY DEF Init, Endings
<1>2. IInv /\ Endings /\ [Next]_vars => Endings'
  BY EndingsNext DEF IInv
<1> QED
  BY <1>1, <1>2, WatcherInvariance, PTL DEF Spec

\* When the loop of Start has been left, for the context or a broken stream, a
\* subscriber that still reads has its channel closed or the broadcaster can
\* leave, which closes it, although Start itself may wait for pollTasks.
SubscriberCanLeave ==
    start \in {"wait", "returned"} /\ listening =>
        subClosed \/ (bcast = "run" /\ done)

THEOREM SubscriberIsReleased == Spec => []SubscriberCanLeave
<1>1. IInv /\ Endings => SubscriberCanLeave
  BY DEF IInv, Base, TypeOK, Endings, SubscriberCanLeave
<1> QED
  BY <1>1, EndingsInvariance, PTL

\* The guards of the three goroutines.
StartCanStep ==
    \/ start \in {"mark", "workers", "subscribe", "inspect", "handle"}
    \/ start = "loop" /\ (~ctx \/ stream = "broken" \/ docker # <<>>)
    \/ start = "wait" /\ poll = "exited" /\ bcast = "exited"

PollCanStep ==
    \/ poll = "idle" /\ ~ctx
    \/ poll = "scan"
    \/ poll \in {"announce", "started"} /\ found # {}

BroadcastCanStep == bcast = "run" /\ (eventChan # <<>> \/ ~ctx \/ done)

\* Once the context has ended, pollTasks and broadcastEvents can each go on until
\* they have returned, and Start can unless it waits for one of them.
NobodyStuck ==
    ~ctx =>
        /\ start \notin {"mark", "workers"} =>
              /\ poll = "exited" \/ PollCanStep
              /\ bcast = "exited" \/ BroadcastCanStep
        /\ \/ StartCanStep
           \/ start = "wait" /\ (poll # "exited" \/ bcast # "exited")
           \/ start = "returned" /\ poll = "exited" /\ bcast = "exited"

THEOREM WatcherCanEnd == Spec => []NobodyStuck
<1>1. ASSUME IInv, Endings, ~ctx PROVE NobodyStuck
  <2>1. start \notin {"mark", "workers"} => poll = "exited" \/ PollCanStep
    BY <1>1 DEF IInv, Base, TypeOK, Endings, PollCanStep
  <2>2. start \notin {"mark", "workers"} => bcast = "exited" \/ BroadcastCanStep
    BY <1>1 DEF IInv, Base, TypeOK, Endings, BroadcastCanStep
  <2>3. \/ StartCanStep
        \/ start = "wait" /\ (poll # "exited" \/ bcast # "exited")
        \/ start = "returned" /\ poll = "exited" /\ bcast = "exited"
    BY <1>1 DEF IInv, Base, TypeOK, Endings, StartCanStep
  <2> QED
    BY <2>1, <2>2, <2>3 DEF NobodyStuck
<1>2. IInv /\ Endings => NobodyStuck
  BY <1>1 DEF NobodyStuck
<1> QED
  BY <1>2, EndingsInvariance, PTL
=============================================================================
