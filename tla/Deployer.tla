------------------------------ MODULE Deployer ------------------------------
(***************************************************************************)
(* What one apply does to the services of a stack: internal/swarm          *)
(* CreateSnapshot, Deploy and Rollback, one Swarm API call per step, over  *)
(* a cluster whose services carry an identity and a version, next to an    *)
(* orchestrator that works on its own time and to other writers.           *)
(*                                                                         *)
(* A call fails when its context is done; it may fail at any time, and a   *)
(* call that writes may fail after it took effect (MaxFaults bounds both). *)
(***************************************************************************)
EXTENDS Naturals, FiniteSets

CONSTANTS
    Services,    \* names a service of the stack can have
    None,        \* not a service
    Longer,      \* per name, the longer ones that begin with it (web, web2)
    MaxFaults,   \* bound on API calls that fail under a live context
    MaxBumps,    \* bound on version bumps by the orchestrator
    MaxForeign   \* bound on writes by other clients of the cluster

ASSUME DeployerAssumption ==
    /\ IsFiniteSet(Services) /\ None \notin Services
    /\ Longer \in [Services -> SUBSET Services]
    /\ \A s \in Services : s \notin Longer[s]
    /\ MaxFaults \in Nat /\ MaxBumps \in Nat /\ MaxForeign \in Nat

VARIABLES
    desired,   \* the services of the compose file
    initial,   \* the services of the stack when the apply starts
    svc,       \* the cluster: per name, the service that has it
    tasks,     \* per name, the write whose tasks are the newest running ones
    bumps,     \* version bumps so far
    foreign,   \* services other clients wrote, one write each
    faults,    \* failed calls so far
    ctx,       \* the context of Deploy is live
    rctx,      \* the context of Rollback is live
    pc,        \* the call the deployer makes next
    todo,      \* services the current loop has still to visit
    focus,     \* the service the loop is at
    found,     \* the service its lookup found
    try,       \* attempts of the current TaskList that failed
    seen,      \* per name, the service as last listed
    snap,      \* StackSnapshot.Services
    oldTasks,  \* tasks listed before ServiceUpdate
    updated    \* DeploymentResult.UpdatedServices

cluster == <<svc, tasks, bumps, foreign>>
inputs  == <<desired, initial>>
ctxs    == <<ctx, rctx>>
locals  == <<pc, todo, focus, found, try, seen, snap, oldTasks, updated>>
vars == <<inputs, cluster, ctxs, faults, locals>>

MaxRetries == 3

-----------------------------------------------------------------------------
(***************************************************************************)
(* The cluster, as the code uses it.                                       *)
(*   st    absent, present, or removing: removed, its tasks not gone yet   *)
(*   id    distinguishes a service from one created later under its name   *)
(*   ver   Version.Index, bumped by every write of anyone                  *)
(*   rev   the version of the last write of its spec                       *)
(*   spec  whose spec it has                                               *)
(***************************************************************************)
Specs == {"none", "old", "new", "foreign"}

NoService == [st |-> "absent", id |-> 0, ver |-> 0, rev |-> 0, spec |-> "none"]

Exists(service) == service.st # "absent"

Listing == {s \in Services : Exists(svc[s])}

Same(a, b) == Exists(a) /\ Exists(b) /\ a.id = b.id

\* ServiceUpdate refuses a version other than the current one.
Accepts(s, known) ==
    svc[s].st = "present" /\ svc[s].id = known.id /\ svc[s].ver = known.ver

Written(service, id, spec) ==
    [st |-> "present", id |-> id, ver |-> service.ver + 1, rev |-> service.ver + 1,
     spec |-> spec]

Write(s, spec) == svc' = [svc EXCEPT ![s] = Written(@, @.id, spec)]

Create(s, spec) == svc' = [svc EXCEPT ![s] = Written(@, @.id + 1, spec)]

\* Removing a service that is gone changes nothing, and is an error.
Remove(s) == svc' = [svc EXCEPT ![s].st = IF @ = "absent" THEN @ ELSE "removing"]

\* An API call made under a context that is live, or not.
Answers(live) == live /\ UNCHANGED faults
Faults == faults < MaxFaults /\ faults' = faults + 1
Fails(live) == IF live THEN Faults ELSE UNCHANGED faults

Init ==
    /\ desired \in SUBSET Services \ {{}}
    /\ initial \in SUBSET Services
    /\ svc = [s \in Services |->
                IF s \in initial
                THEN [st |-> "present", id |-> 1, ver |-> 1, rev |-> 1, spec |-> "old"]
                ELSE NoService]
    /\ tasks = [s \in Services |-> svc[s].rev]
    /\ bumps = 0 /\ foreign = {} /\ faults = 0
    /\ ctx = TRUE /\ rctx = TRUE
    /\ pc = "snapshot" /\ todo = {} /\ focus = None /\ found = None /\ try = 0
    /\ seen = [s \in Services |-> NoService]
    /\ snap = [s \in Services |-> NoService]
    /\ oldTasks = 0 /\ updated = {}

-----------------------------------------------------------------------------
(***************************************************************************)
(* CreateSnapshot.                                                         *)
(***************************************************************************)

\* Fault: a snapshot that cannot be taken does not stop the deployment.
SnapshotServicesOrGoOn ==
    /\ pc = "snapshot"
    /\ \/ Answers(ctx) /\ snap' = svc /\ todo' = Listing /\ pc' = "snapshotTasks"
       \/ Fails(ctx) /\ pc' = "obsolete" /\ UNCHANGED <<snap, todo>>
    /\ UNCHANGED <<inputs, cluster, ctxs, focus, found, try, seen, oldTasks,
                   updated>>

SnapshotServices ==
    /\ pc = "snapshot"
    /\ \/ Answers(ctx) /\ snap' = svc /\ todo' = Listing /\ pc' = "snapshotTasks"
       \/ Fails(ctx) /\ pc' = "blocked" /\ UNCHANGED <<snap, todo>>
    /\ UNCHANGED <<inputs, cluster, ctxs, focus, found, try, seen, oldTasks,
                   updated>>

\* The tasks of one service, in at most MaxRetries attempts, which go on even
\* under a done context.
SnapshotTasks(s) ==
    /\ pc = "snapshotTasks" /\ s \in todo /\ (try = 0 \/ s = focus)
    /\ focus' = s
    /\ \/ Answers(ctx) /\ todo' = todo \ {s} /\ try' = 0 /\ UNCHANGED pc
       \/ /\ Fails(ctx)
          /\ IF try + 1 < MaxRetries THEN try' = try + 1 /\ UNCHANGED pc
                                     ELSE try' = 0 /\ pc' = "blocked"
          /\ UNCHANGED todo
    /\ UNCHANGED <<inputs, cluster, ctxs, found, seen, snap, oldTasks,
                   updated>>

SnapshotDone ==
    /\ pc = "snapshotTasks" /\ todo = {}
    /\ pc' = "obsolete"
    /\ UNCHANGED <<inputs, cluster, ctxs, faults, todo, focus, found, try,
                   seen, snap, oldTasks, updated>>

\* No service existed before.
IsFirstDeploy == \A s \in Services : ~Exists(snap[s])

-----------------------------------------------------------------------------
(***************************************************************************)
(* Deploy, steps 2 to 5: obsolete services, images, networks, volumes.     *)
(* Step 1, RemoveExitedContainers, is a call that does nothing.            *)
(***************************************************************************)
ListObsolete ==
    /\ pc = "obsolete"
    /\ \/ /\ Answers(ctx)
          /\ seen' = svc /\ todo' = Listing \ desired
          /\ pc' = IF todo' = {} THEN "images" ELSE "removeObsolete"
       \/ Fails(ctx) /\ pc' = "failed" /\ UNCHANGED <<seen, todo>>
    /\ UNCHANGED <<inputs, cluster, ctxs, focus, found, try, snap, oldTasks,
                   updated>>

RemoveObsolete(s) ==
    /\ pc = "removeObsolete" /\ s \in todo
    /\ \/ /\ Answers(ctx) /\ Remove(s) /\ todo' = todo \ {s}
          /\ pc' = IF Exists(svc[s]) THEN pc ELSE "failed"
       \/ Fails(ctx) /\ pc' = "failed" /\ UNCHANGED <<svc, todo>>
       \/ ctx /\ Faults /\ Remove(s) /\ pc' = "failed" /\ UNCHANGED todo
    /\ UNCHANGED <<inputs, tasks, bumps, foreign, ctxs, focus, found, try,
                   seen, snap, oldTasks, updated>>

ObsoleteMarked ==
    /\ pc = "removeObsolete" /\ todo = {}
    /\ pc' = "awaitRemoval"
    /\ todo' = {s \in Services : Exists(seen[s])} \ desired
    /\ UNCHANGED <<inputs, cluster, ctxs, faults, focus, found, try, seen,
                   snap, oldTasks, updated>>

\* Fault: the wait does not look at the context.
AwaitRemovalForever(s) ==
    /\ pc = "awaitRemoval" /\ s \in todo
    /\ ctx /\ (\/ ~Same(svc[s], seen[s]) /\ UNCHANGED faults
               \/ Faults)
    /\ todo' = todo \ {s}
    /\ UNCHANGED <<inputs, cluster, ctxs, pc, focus, found, try, seen, snap,
                   oldTasks, updated>>

\* waitForServicesRemoval: the loop leaves a service as soon as inspecting it
\* returns an error, whichever; while the service exists it goes round.
AwaitRemoval(s) ==
    /\ pc = "awaitRemoval" /\ s \in todo
    /\ \/ /\ ctx /\ (\/ ~Same(svc[s], seen[s]) /\ UNCHANGED faults
                     \/ Faults)
          /\ todo' = todo \ {s} /\ UNCHANGED pc
       \/ ~ctx /\ pc' = "failed" /\ UNCHANGED <<todo, faults>>
    /\ UNCHANGED <<inputs, cluster, ctxs, focus, found, try, seen, snap,
                   oldTasks, updated>>

ObsoleteRemoved ==
    /\ pc = "awaitRemoval" /\ todo = {}
    /\ pc' = "images"
    /\ UNCHANGED <<inputs, cluster, ctxs, faults, todo, focus, found, try,
                   seen, snap, oldTasks, updated>>

\* pullImages, createNetworks and createVolumes leave the services alone.
Prepare ==
    /\ pc \in {"images", "networks", "volumes"}
    /\ \/ /\ Answers(ctx)
          /\ pc' = CASE pc = "images"   -> "networks"
                     [] pc = "networks" -> "volumes"
                     [] pc = "volumes"  -> "services"
          /\ todo' = IF pc = "volumes" THEN desired ELSE todo
       \/ Fails(ctx) /\ pc' = "failed" /\ UNCHANGED todo
    /\ UNCHANGED <<inputs, cluster, ctxs, focus, found, try, seen, snap,
                   oldTasks, updated>>

-----------------------------------------------------------------------------
(***************************************************************************)
(* Deploy, step 6: deployServices and deployService.                       *)
(***************************************************************************)
\* The listing asks for a name, which Swarm takes for the beginning of one, and
\* its order puts the service of that very name first.
Matches(s) ==
    IF Exists(svc[s]) THEN {s} ELSE {l \in Longer[s] : Exists(svc[l])}

\* The first match is updated; without one the service is created.
Found(s, matches) ==
    \/ \E f \in matches :
          found' = f /\ seen' = [seen EXCEPT ![f] = svc[f]] /\ pc' = "oldTasks"
    \/ matches = {} /\ found' = None /\ pc' = "create" /\ UNCHANGED seen

\* Fault: a service that cannot be looked up is passed over.
FindServiceOrPass(s) ==
    /\ pc = "services" /\ s \in todo
    /\ focus' = s
    /\ \/ Answers(ctx) /\ Found(s, Matches(s)) /\ UNCHANGED todo
       \/ Fails(ctx) /\ todo' = todo \ {s} /\ UNCHANGED <<found, seen, pc>>
    /\ UNCHANGED <<inputs, cluster, ctxs, try, snap, oldTasks, updated>>

\* Fault: any match will do.
FindSomeService(s) ==
    /\ pc = "services" /\ s \in todo
    /\ focus' = s
    /\ \/ Answers(ctx) /\ Found(s, {f \in {s} \cup Longer[s] : Exists(svc[f])})
       \/ Fails(ctx) /\ pc' = "failed" /\ UNCHANGED <<found, seen>>
    /\ UNCHANGED <<inputs, cluster, ctxs, todo, try, snap, oldTasks, updated>>

FindService(s) ==
    /\ pc = "services" /\ s \in todo
    /\ focus' = s
    /\ \/ Answers(ctx) /\ Found(s, Matches(s))
       \/ Fails(ctx) /\ pc' = "failed" /\ UNCHANGED <<found, seen>>
    /\ UNCHANGED <<inputs, cluster, ctxs, todo, try, snap, oldTasks, updated>>

\* Fault: one attempt too many.
RetryTaskListAgain ==
    /\ Fails(ctx)
    /\ IF try < MaxRetries THEN try' = try + 1 /\ UNCHANGED pc
                           ELSE try' = 0 /\ pc' = "failed"

\* TaskList in at most MaxRetries attempts.
RetryTaskList ==
    /\ Fails(ctx)
    /\ IF try + 1 < MaxRetries THEN try' = try + 1 /\ UNCHANGED pc
                               ELSE try' = 0 /\ pc' = "failed"

ListOldTasks ==
    /\ pc = "oldTasks"
    /\ \/ /\ Answers(ctx) /\ try' = 0 /\ pc' = "update"
          /\ oldTasks' = tasks[found]
       \/ RetryTaskList /\ UNCHANGED oldTasks
    /\ UNCHANGED <<inputs, cluster, ctxs, todo, focus, found, seen, snap,
                   updated>>

\* Fault: the version is read again just before the update.
UpdateServiceBlindly ==
    /\ pc = "update"
    /\ \/ /\ Answers(ctx) /\ Accepts(found, svc[found]) /\ Write(found, "new")
          /\ pc' = "newTasks"
       \/ /\ ctx /\ ~Accepts(found, svc[found]) /\ pc' = "failed"
          /\ UNCHANGED <<svc, faults>>
       \/ Fails(ctx) /\ pc' = "failed" /\ UNCHANGED svc
    /\ UNCHANGED <<inputs, tasks, bumps, foreign, ctxs, todo, focus, found,
                   try, seen, snap, oldTasks, updated>>

\* Swarm refuses a stale version, and a spec with the name of another service.
UpdateService ==
    /\ pc = "update"
    /\ LET accepted == found = focus /\ Accepts(found, seen[found]) IN
       \/ Answers(ctx) /\ accepted /\ Write(found, "new") /\ pc' = "newTasks"
       \/ ctx /\ accepted /\ Faults /\ Write(found, "new") /\ pc' = "failed"
       \/ ctx /\ ~accepted /\ pc' = "failed" /\ UNCHANGED <<svc, faults>>
       \/ Fails(ctx) /\ pc' = "failed" /\ UNCHANGED svc
    /\ UNCHANGED <<inputs, tasks, bumps, foreign, ctxs, todo, focus, found,
                   try, seen, snap, oldTasks, updated>>

\* Fault: the new tasks that could not be listed count as none.
ListNewTasksOrNone ==
    /\ pc = "newTasks"
    /\ \/ /\ Answers(ctx) /\ try' = 0
          /\ IF tasks[found] # oldTasks
             THEN pc' = "inspect" /\ UNCHANGED todo
             ELSE pc' = "services" /\ todo' = todo \ {focus}
       \/ /\ Fails(ctx)
          /\ IF try + 1 < MaxRetries
             THEN try' = try + 1 /\ UNCHANGED <<pc, todo>>
             ELSE try' = 0 /\ pc' = "services" /\ todo' = todo \ {focus}
    /\ UNCHANGED <<inputs, cluster, ctxs, focus, found, seen, snap, oldTasks,
                   updated>>

\* One second later: no task that was not there before means "not changed",
\* and the service is left out of the result.
ListNewTasks ==
    /\ pc = "newTasks"
    /\ \/ /\ Answers(ctx) /\ try' = 0
          /\ IF tasks[found] # oldTasks
             THEN pc' = "inspect" /\ UNCHANGED todo
             ELSE pc' = "services" /\ todo' = todo \ {focus}
       \/ RetryTaskList /\ UNCHANGED todo
    /\ UNCHANGED <<inputs, cluster, ctxs, focus, found, seen, snap, oldTasks,
                   updated>>

\* ServiceCreate refuses a name that is taken.
CreateService ==
    /\ pc = "create"
    /\ \/ /\ Answers(ctx) /\ ~Exists(svc[focus]) /\ Create(focus, "new")
          /\ pc' = "inspect"
       \/ /\ ctx /\ ~Exists(svc[focus]) /\ Create(focus, "new")
          /\ Faults /\ pc' = "failed"
       \/ ctx /\ Exists(svc[focus]) /\ pc' = "failed" /\ UNCHANGED <<svc, faults>>
       \/ Fails(ctx) /\ pc' = "failed" /\ UNCHANGED svc
    /\ UNCHANGED <<inputs, tasks, bumps, foreign, ctxs, todo, focus, found,
                   try, seen, snap, oldTasks, updated>>

\* The service is inspected for its new version and joins the result.
InspectService ==
    /\ pc = "inspect"
    /\ \/ /\ Answers(ctx)
          /\ updated' = updated \cup {focus} /\ todo' = todo \ {focus}
          /\ pc' = "services"
       \/ Fails(ctx) /\ pc' = "failed" /\ UNCHANGED <<updated, todo>>
    /\ UNCHANGED <<inputs, cluster, ctxs, focus, found, try, seen, snap,
                   oldTasks>>

DeployReturns ==
    /\ pc = "services" /\ todo = {}
    /\ pc' = "deployed"
    /\ UNCHANGED <<inputs, cluster, ctxs, faults, todo, focus, found, try,
                   seen, snap, oldTasks, updated>>

\* What runApply does next: it keeps the deployment, or rolls it back when a
\* gate failed.  After an error of Deploy it does neither.
Keep ==
    /\ pc = "deployed"
    /\ pc' = "kept"
    /\ UNCHANGED <<inputs, cluster, ctxs, faults, todo, focus, found, try,
                   seen, snap, oldTasks, updated>>

StartRollback ==
    /\ pc = "deployed" /\ updated # {}
    /\ pc' = IF IsFirstDeploy THEN "listAll" ELSE "rollback"
    /\ UNCHANGED <<inputs, cluster, ctxs, faults, todo, focus, found, try,
                   seen, snap, oldTasks, updated>>

-----------------------------------------------------------------------------
(***************************************************************************)
(* Rollback of a stack that existed before.                                *)
(***************************************************************************)
ListCurrent ==
    /\ pc = "rollback"
    /\ \/ /\ Answers(rctx)
          /\ seen' = svc
          /\ todo' = {s \in Listing : ~Same(svc[s], snap[s])}
          /\ pc' = "removeNew"
       \/ Fails(rctx) /\ pc' = "rollbackFailed" /\ UNCHANGED <<seen, todo>>
    /\ UNCHANGED <<inputs, cluster, ctxs, focus, found, try, snap, oldTasks,
                   updated>>

\* Step 1: a failure is a warning.
RemoveNew(s) ==
    /\ pc = "removeNew" /\ s \in todo
    /\ todo' = todo \ {s}
    /\ \/ Answers(rctx) /\ Remove(s)
       \/ Fails(rctx) /\ UNCHANGED svc
       \/ rctx /\ Faults /\ Remove(s)
    /\ UNCHANGED <<inputs, tasks, bumps, foreign, ctxs, pc, focus, found, try,
                   seen, snap, oldTasks, updated>>

NewRemoved ==
    /\ pc = "removeNew" /\ todo = {}
    /\ pc' = "restore" /\ todo' = {s \in Services : Exists(snap[s])}
    /\ UNCHANGED <<inputs, cluster, ctxs, faults, focus, found, try, seen,
                   snap, oldTasks, updated>>

\* Fault: a service that cannot be restored is skipped.
RestoreOrSkip(s) ==
    /\ pc = "restore" /\ s \in todo
    /\ todo' = todo \ {s} /\ UNCHANGED pc
    /\ \/ ~Same(seen[s], snap[s]) /\ UNCHANGED <<svc, faults>>
       \/ /\ Same(seen[s], snap[s]) /\ Accepts(s, seen[s])
          /\ Answers(rctx) /\ Write(s, snap[s].spec)
       \/ /\ Same(seen[s], snap[s]) /\ ~Accepts(s, seen[s])
          /\ rctx /\ UNCHANGED <<svc, faults>>
       \/ Same(seen[s], snap[s]) /\ Fails(rctx) /\ UNCHANGED svc
    /\ UNCHANGED <<inputs, tasks, bumps, foreign, ctxs, focus, found, try,
                   seen, snap, oldTasks, updated>>

\* Step 2, in the order of a map: a service that is gone is skipped, and the
\* first failure leaves the remaining ones as they are.  The version is the
\* one listed before step 1.
Restore(s) ==
    /\ pc = "restore" /\ s \in todo
    /\ todo' = todo \ {s}
    /\ \/ ~Same(seen[s], snap[s]) /\ UNCHANGED <<svc, faults, pc>>
       \/ /\ Same(seen[s], snap[s]) /\ Accepts(s, seen[s])
          /\ Answers(rctx) /\ Write(s, snap[s].spec) /\ UNCHANGED pc
       \/ /\ Same(seen[s], snap[s]) /\ Accepts(s, seen[s])
          /\ rctx /\ Faults /\ Write(s, snap[s].spec) /\ pc' = "rollbackFailed"
       \/ /\ Same(seen[s], snap[s]) /\ ~Accepts(s, seen[s])
          /\ rctx /\ pc' = "rollbackFailed" /\ UNCHANGED <<svc, faults>>
       \/ /\ Same(seen[s], snap[s])
          /\ Fails(rctx) /\ pc' = "rollbackFailed" /\ UNCHANGED svc
    /\ UNCHANGED <<inputs, tasks, bumps, foreign, ctxs, focus, found, try,
                   seen, snap, oldTasks, updated>>

AllRestored ==
    /\ pc = "restore" /\ todo = {}
    /\ pc' = "rolledBack"
    /\ UNCHANGED <<inputs, cluster, ctxs, faults, todo, focus, found, try,
                   seen, snap, oldTasks, updated>>

-----------------------------------------------------------------------------
(***************************************************************************)
(* Rollback of a first deployment: removeAllServices.                      *)
(***************************************************************************)
ListAll ==
    /\ pc = "listAll"
    /\ \/ /\ Answers(rctx)
          /\ seen' = svc /\ todo' = Listing
          /\ pc' = IF todo' = {} THEN "rolledBack" ELSE "removeAll"
       \/ Fails(rctx) /\ pc' = "rollbackFailed" /\ UNCHANGED <<seen, todo>>
    /\ UNCHANGED <<inputs, cluster, ctxs, focus, found, try, snap, oldTasks,
                   updated>>

RemoveOfAll(s) ==
    /\ pc = "removeAll" /\ s \in todo
    /\ todo' = todo \ {s}
    /\ \/ Answers(rctx) /\ Remove(s)
       \/ Fails(rctx) /\ UNCHANGED svc
       \/ rctx /\ Faults /\ Remove(s)
    /\ UNCHANGED <<inputs, tasks, bumps, foreign, ctxs, pc, focus, found, try,
                   seen, snap, oldTasks, updated>>

\* The services are gone, or thirty seconds have passed: both return nil, and
\* so does having nothing left to wait for.
AllRemoved ==
    /\ pc = "removeAll" /\ todo = {}
    /\ pc' = "rolledBack"
    /\ UNCHANGED <<inputs, cluster, ctxs, faults, todo, focus, found, try,
                   seen, snap, oldTasks, updated>>

-----------------------------------------------------------------------------
(***************************************************************************)
(* The rest of the world.                                                  *)
(***************************************************************************)

\* The deadline of the apply, or a signal.
ContextEnds ==
    /\ ctx /\ pc # "snapshot"
    /\ ctx' = FALSE
    /\ UNCHANGED <<inputs, cluster, rctx, faults, locals>>

RollbackContextEnds ==
    /\ rctx /\ pc \in {"rollback", "removeNew", "restore", "listAll", "removeAll"}
    /\ rctx' = FALSE
    /\ UNCHANGED <<inputs, cluster, ctx, faults, locals>>

\* A removed service is finally gone; its name keeps its last id.
Disappear(s) ==
    /\ svc[s].st = "removing"
    /\ svc' = [svc EXCEPT ![s] = [@ EXCEPT !.st = "absent", !.spec = "none"]]
    /\ UNCHANGED <<inputs, tasks, bumps, foreign, ctxs, faults, locals>>

\* The orchestrator creates the tasks of the last write.
CreateTasks(s) ==
    /\ svc[s].st = "present" /\ tasks[s] # svc[s].rev
    /\ tasks' = [tasks EXCEPT ![s] = svc[s].rev]
    /\ UNCHANGED <<inputs, svc, bumps, foreign, ctxs, faults, locals>>

\* The orchestrator records the progress of an update in the service.
Bump(s) ==
    /\ svc[s].st = "present" /\ bumps < MaxBumps
    /\ bumps' = bumps + 1
    /\ svc' = [svc EXCEPT ![s].ver = @ + 1]
    /\ UNCHANGED <<inputs, tasks, foreign, ctxs, faults, locals>>

\* Another client redeploys a service of the stack, or creates one.
ForeignWrite(s) ==
    /\ s \notin foreign /\ Cardinality(foreign) < MaxForeign
    /\ foreign' = foreign \cup {s}
    /\ \/ svc[s].st = "present" /\ Write(s, "foreign")
       \/ svc[s].st = "absent" /\ Create(s, "foreign")
    /\ UNCHANGED <<inputs, tasks, bumps, ctxs, faults, locals>>

Finals == {"blocked", "failed", "kept", "rolledBack", "rollbackFailed"}

Finished == pc \in Finals /\ UNCHANGED vars

-----------------------------------------------------------------------------
Snapshot ==
    \/ SnapshotServices \/ SnapshotDone
    \/ \E s \in Services : SnapshotTasks(s)

Obsolete ==
    \/ ListObsolete \/ ObsoleteMarked \/ ObsoleteRemoved
    \/ \E s \in Services : RemoveObsolete(s) \/ AwaitRemoval(s)

Deploy ==
    \/ Obsolete \/ Prepare
    \/ \E s \in Services : FindService(s)
    \/ ListOldTasks \/ UpdateService \/ ListNewTasks
    \/ CreateService \/ InspectService \/ DeployReturns

Rollback ==
    \/ ListCurrent \/ NewRemoved \/ AllRestored \/ ListAll \/ AllRemoved
    \/ \E s \in Services : RemoveNew(s) \/ Restore(s) \/ RemoveOfAll(s)

Process == Snapshot \/ Deploy \/ Keep \/ StartRollback \/ Rollback

Orchestrator ==
    \E s \in Services : Disappear(s) \/ CreateTasks(s) \/ Bump(s)

World ==
    \/ ContextEnds \/ RollbackContextEnds
    \/ Orchestrator
    \/ \E s \in Services : ForeignWrite(s)

Next == Process \/ World \/ Finished

Spec == Init /\ [][Next]_vars

\* The process runs and the API answers; the deadlines of both contexts pass.
\* The orchestrator owes nothing.
FairSpec ==
    /\ Spec
    /\ WF_vars(Process)
    /\ WF_vars(ContextEnds) /\ WF_vars(RollbackContextEnds)

-----------------------------------------------------------------------------
(***************************************************************************)
(* Properties.                                                             *)
(***************************************************************************)
Service == [st : {"absent", "present", "removing"}, id : Nat, ver : Nat,
            rev : Nat, spec : Specs]

Steps == {"snapshot", "snapshotTasks", "obsolete", "removeObsolete",
          "awaitRemoval", "images", "networks", "volumes", "services",
          "oldTasks", "update", "newTasks", "create", "inspect", "deployed",
          "rollback", "removeNew", "restore", "listAll", "removeAll"}

\* Types; only services of the compose file are ever reported as updated.
TypeOK ==
    /\ desired \subseteq Services /\ initial \subseteq Services
    /\ svc \in [Services -> Service] /\ tasks \in [Services -> Nat]
    /\ bumps \in 0..MaxBumps /\ foreign \subseteq Services
    /\ faults \in 0..MaxFaults
    /\ ctx \in BOOLEAN /\ rctx \in BOOLEAN
    /\ pc \in Steps \cup Finals
    /\ todo \subseteq Services
    /\ focus \in Services \cup {None} /\ found \in Services \cup {None}
    /\ try \in 0..(MaxRetries - 1)
    /\ seen \in [Services -> Service] /\ snap \in [Services -> Service]
    /\ oldTasks \in Nat /\ updated \subseteq desired

\* Neither Deploy nor Rollback overwrites a spec it has not read: between the
\* listing and the write nobody else's write is lost, because the listed
\* version goes with the update.
NoLostUpdate ==
    [][\A s \in Services :
          svc[s].st = "present" /\ svc'[s].spec # svc[s].spec
             /\ pc \in {"update", "restore"} /\ foreign' = foreign
          => svc[s].spec = seen[s].spec]_vars

\* A service that was there before the apply and is in its compose file is
\* never removed or replaced, not even by a rollback that follows failed calls
\* (rollback goes by the ids of the snapshot, and without a snapshot nothing is
\* deployed).
KeptServicesSurvive ==
    \A s \in initial \cap desired : svc[s].st = "present" /\ svc[s].id = 1

\* A rollback that reports success has put every service of the compose file
\* that the snapshot holds back to the spec of the snapshot, whether or not the
\* deployment had reported it as changed.  Unless a call failed or someone else
\* interfered, it has also removed every service this apply created.
RollbackUndoes ==
    pc = "rolledBack" =>
        /\ \A s \in desired \ foreign :
              Exists(snap[s]) => svc[s].spec = snap[s].spec
        /\ faults = 0 /\ foreign = {} /\ rctx =>
              \A s \in desired : ~Exists(snap[s]) => svc[s].st # "present"

\* A deployment that nobody disturbs and no call fails goes through, except that
\* the lookup of a new service may find a longer name of the same file, which is
\* deployed before it or after it as the map has it.
FailsForCause ==
    pc = "failed" /\ ctx /\ faults = 0 /\ foreign = {} /\ bumps = 0 =>
        \E s \in desired \ initial : Longer[s] \cap desired # {}

\* A service leaves the loop of deployServices reported, so that the gates look
\* at it, or because its own update had brought no task within the second: no
\* failure, not that of the last attempt to list its tasks either, and no other
\* service found in its place, lets a changed service go unseen.
NoneUnreported ==
    [][\A s \in todo \ todo' :
          pc \in {"services", "oldTasks", "update", "newTasks", "create", "inspect"} =>
              \/ s \in updated'
              \/ pc = "newTasks" /\ ctx /\ tasks[s] = oldTasks]_vars

\* Whatever the orchestrator does, and however often the API fails, the apply
\* ends: every loop leaves with its context.
Terminates == <>(pc \in Finals)

(***************************************************************************)
(* Refinement: an apply is a transaction of module StackTxn.               *)
(***************************************************************************)
phase ==
    CASE pc = "kept" -> "kept"
      [] pc \in {"rollback", "removeNew", "restore", "listAll", "removeAll"} -> "undoing"
      [] pc = "rolledBack" -> "undone"
      [] pc \in {"blocked", "failed", "rollbackFailed"} -> "half"
      [] OTHER -> "open"

\* A service that is being removed is as good as gone.
specs == [s \in Services |-> IF svc[s].st = "present" THEN svc[s].spec ELSE "none"]

Txn == INSTANCE StackTxn WITH before <- initial, spec <- specs

\* Deploy and Rollback implement the transaction: services only move from old
\* to new while it is open and back while it is undone, it is kept only when
\* every service of the compose file is new and undone only when every one of
\* them that was there before is old again.
ImplementsTxn == Txn!Spec

(***************************************************************************)
(* What the documentation says and the code does not do.                   *)
(***************************************************************************)

\* "Rollback restores the stack to a previous snapshot" (rollback.go): with no
\* failed call, every service of the snapshot has its spec again.
RollbackRestoresSnapshot ==
    pc = "rolledBack" =>
        \A s \in Services : Exists(snap[s]) => svc[s].spec = snap[s].spec
=============================================================================
