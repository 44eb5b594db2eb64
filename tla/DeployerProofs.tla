--------------------------- MODULE DeployerProofs ---------------------------
(***************************************************************************)
(* The safety of module Deployer for every set of services, every relation *)
(* of names and every number of faults, version bumps and foreign writes.  *)
(*                                                                         *)
(* The invariant comes in layers, each proved from the ones before it:     *)
(*   Types      types, and what each loop visits                           *)
(*   Listed     a service last listed and unchanged since is as listed     *)
(*   Initial    what becomes of the services the apply has found           *)
(*   Undoing    how far the rollback has come                              *)
(*   Untroubled what a deployment that nothing disturbs has reached        *)
(* What a step may do to one service is stated once (Moves).  The last     *)
(* parts show that Deployer implements StackTxn, what follows from that,   *)
(* and what no rollback brings back.                                       *)
(***************************************************************************)
EXTENDS Deployer, TLAPS

Deploying == {"services", "oldTasks", "update", "newTasks", "create", "inspect"}

\* Types; a loop over obsolete services visits no other, one over the services
\* of the file no others, and its body works on a service it has yet to finish.
Types ==
    /\ TypeOK
    /\ pc \in {"removeObsolete", "awaitRemoval"} => todo \cap desired = {}
    /\ pc \in Deploying => todo \subseteq desired
    /\ pc \in Deploying \ {"services"} => focus \in todo
    /\ pc \in {"oldTasks", "update", "newTasks"} => found \in Services

\* A listed version is never ahead, and an equal one means an equal service.
Listed ==
    \A s \in Services :
        /\ seen[s].ver <= svc[s].ver
        /\ seen[s].ver = svc[s].ver =>
              /\ seen[s].id = svc[s].id
              /\ svc[s].st = "present" => seen[s].spec = svc[s].spec

\* What a step may do to a service: write it, bump its version, create it,
\* begin to remove it, finish that.
Moves(s) ==
    LET old == svc[s]
        new == svc'[s]
    IN  \/ new = old
        \/ /\ old.st = "present" /\ new.st = "present"
           /\ new.id = old.id /\ new.ver = old.ver + 1
        \/ /\ old.st = "absent" /\ new.st = "present"
           /\ new.id = old.id + 1 /\ new.ver = old.ver + 1
        \/ new.st = "removing" /\ new.id = old.id /\ new.ver = old.ver
        \/ /\ old.st = "removing" /\ new.st = "absent"
           /\ new.id = old.id /\ new.ver = old.ver

-----------------------------------------------------------------------------
(***************************************************************************)
(* The cluster.                                                            *)
(***************************************************************************)
LEMMA WrittenIs ==
    ASSUME NEW service \in Service, NEW id \in Nat, NEW spec \in Specs
    PROVE  /\ Written(service, id, spec) \in Service
           /\ Written(service, id, spec).st = "present"
           /\ Written(service, id, spec).id = id
           /\ Written(service, id, spec).ver = service.ver + 1
           /\ Written(service, id, spec).spec = spec
  BY DEF Written, Service

LEMMA WriteMoves ==
    ASSUME svc \in [Services -> Service], NEW s \in Services, NEW spec \in Specs,
           svc[s].st = "present", Write(s, spec)
    PROVE  /\ svc' \in [Services -> Service]
           /\ \A u \in Services : Moves(u)
           /\ svc'[s].spec = spec /\ svc'[s].st = "present" /\ svc'[s].id = svc[s].id
           /\ \A u \in Services \ {s} : svc'[u] = svc[u]
<1> DEFINE n == Written(svc[s], svc[s].id, spec)
<1>1. svc[s] \in Service /\ svc[s].id \in Nat /\ svc' = [svc EXCEPT ![s] = n]
  BY DEF Write, Service
<1>2. /\ n \in Service /\ n.st = "present" /\ n.id = svc[s].id
      /\ n.ver = svc[s].ver + 1 /\ n.spec = spec
  BY <1>1, WrittenIs
<1> HIDE DEF n
<1> QED
  BY <1>1, <1>2 DEF Moves

LEMMA CreateMoves ==
    ASSUME svc \in [Services -> Service], NEW s \in Services, NEW spec \in Specs,
           ~Exists(svc[s]), Create(s, spec)
    PROVE  /\ svc' \in [Services -> Service]
           /\ \A u \in Services : Moves(u)
           /\ svc'[s].spec = spec /\ svc'[s].st = "present"
           /\ \A u \in Services \ {s} : svc'[u] = svc[u]
<1> DEFINE n == Written(svc[s], svc[s].id + 1, spec)
<1>1. /\ svc[s] \in Service /\ svc[s].id \in Nat /\ svc[s].id + 1 \in Nat
      /\ svc' = [svc EXCEPT ![s] = n] /\ svc[s].st = "absent"
  BY DEF Create, Service, Exists
<1>2. /\ n \in Service /\ n.st = "present" /\ n.id = svc[s].id + 1
      /\ n.ver = svc[s].ver + 1 /\ n.spec = spec
  BY <1>1, WrittenIs
<1> HIDE DEF n
<1> QED
  BY <1>1, <1>2 DEF Moves

LEMMA RemoveMoves ==
    ASSUME svc \in [Services -> Service], NEW s \in Services, Remove(s)
    PROVE  /\ svc' \in [Services -> Service]
           /\ \A u \in Services : Moves(u)
           /\ svc'[s].st # "present" /\ svc'[s].id = svc[s].id
           /\ Exists(svc'[s]) <=> Exists(svc[s])
           /\ \A u \in Services \ {s} : svc'[u] = svc[u]
<1> DEFINE n == [svc[s] EXCEPT !.st = IF @ = "absent" THEN @ ELSE "removing"]
<1>1. svc[s] \in Service /\ svc' = [svc EXCEPT ![s] = n]
  BY DEF Remove
<1>2. CASE svc[s].st = "absent"
  <2>1. n = svc[s]
    BY <1>1, <1>2 DEF Service
  <2> QED
    BY <1>1, <1>2, <2>1 DEF Moves
<1>3. CASE svc[s].st # "absent"
  <2>1. n \in Service /\ n.st = "removing" /\ n.id = svc[s].id /\ n.ver = svc[s].ver
    BY <1>1, <1>3 DEF Service
  <2> HIDE DEF n
  <2> QED
    BY <1>1, <1>3, <2>1 DEF Moves, Exists
<1> QED
  BY <1>2, <1>3

LEMMA DisappearMoves ==
    ASSUME svc \in [Services -> Service], NEW s \in Services, Disappear(s)
    PROVE  /\ svc' \in [Services -> Service]
           /\ \A u \in Services : Moves(u)
           /\ svc[s].st = "removing" /\ svc'[s].st = "absent"
           /\ svc'[s].id = svc[s].id
           /\ \A u \in Services \ {s} : svc'[u] = svc[u]
<1> DEFINE n == [svc[s] EXCEPT !.st = "absent", !.spec = "none"]
<1>1. /\ svc[s] \in Service /\ svc' = [svc EXCEPT ![s] = n]
      /\ svc[s].st = "removing"
  BY DEF Disappear
<1>2. n \in Service /\ n.st = "absent" /\ n.id = svc[s].id /\ n.ver = svc[s].ver
  BY <1>1 DEF Service, Specs
<1> HIDE DEF n
<1> QED
  BY <1>1, <1>2 DEF Moves

LEMMA BumpMoves ==
    ASSUME svc \in [Services -> Service], NEW s \in Services, Bump(s)
    PROVE  /\ svc' \in [Services -> Service]
           /\ \A u \in Services : Moves(u)
           /\ svc'[s].spec = svc[s].spec /\ svc'[s].st = svc[s].st
           /\ svc'[s].id = svc[s].id
           /\ \A u \in Services \ {s} : svc'[u] = svc[u]
<1> DEFINE n == [svc[s] EXCEPT !.ver = @ + 1]
<1>1. /\ svc[s] \in Service /\ svc' = [svc EXCEPT ![s] = n]
      /\ svc[s].st = "present"
  BY DEF Bump
<1>2. /\ n \in Service /\ n.st = svc[s].st /\ n.id = svc[s].id
      /\ n.ver = svc[s].ver + 1 /\ n.spec = svc[s].spec
  BY <1>1 DEF Service
<1> HIDE DEF n
<1> QED
  BY <1>1, <1>2 DEF Moves

LEMMA ForeignMoves ==
    ASSUME svc \in [Services -> Service], NEW s \in Services, ForeignWrite(s)
    PROVE  /\ svc' \in [Services -> Service]
           /\ \A u \in Services : Moves(u)
           /\ svc'[s].st = "present" /\ foreign' = foreign \cup {s}
           /\ svc[s].st = "present" => svc'[s].id = svc[s].id
           /\ svc[s].st # "removing"
           /\ \A u \in Services \ {s} : svc'[u] = svc[u]
<1>1. "foreign" \in Specs
  BY DEF Specs
<1>2. CASE svc[s].st = "present" /\ Write(s, "foreign")
  BY <1>1, <1>2, WriteMoves DEF ForeignWrite
<1>3. CASE svc[s].st = "absent" /\ Create(s, "foreign")
  BY <1>1, <1>3, CreateMoves DEF ForeignWrite, Exists
<1> QED
  BY <1>2, <1>3 DEF ForeignWrite

\* What the writing calls do to the cluster when they do anything.
LEMMA UpdateMoves ==
    ASSUME Types, UpdateService
    PROVE  \/ svc' = svc /\ pc' = "failed"
           \/ /\ svc' \in [Services -> Service] /\ \A u \in Services : Moves(u)
              /\ found = focus /\ focus \in Services /\ Accepts(focus, seen[focus])
              /\ svc'[focus].spec = "new" /\ svc'[focus].st = "present"
              /\ svc'[focus].id = svc[focus].id
              /\ \A u \in Services \ {focus} : svc'[u] = svc[u]
<1>1. /\ svc \in [Services -> Service] /\ found \in Services /\ "new" \in Specs
      /\ pc = "update"
  BY DEF Types, TypeOK, UpdateService, Specs
<1>2. CASE UNCHANGED svc /\ pc' = "failed"
  BY <1>2
<1>3. CASE found = focus /\ Accepts(found, seen[found]) /\ Write(found, "new")
  <2>1. svc[found].st = "present"
    BY <1>3 DEF Accepts
  <2> QED
    BY <1>1, <1>3, <2>1, WriteMoves
<1> QED
  BY <1>2, <1>3 DEF UpdateService

LEMMA CreateServiceMoves ==
    ASSUME Types, CreateService
    PROVE  \/ svc' = svc /\ pc' = "failed"
           \/ /\ svc' \in [Services -> Service] /\ \A u \in Services : Moves(u)
              /\ focus \in Services /\ ~Exists(svc[focus])
              /\ svc'[focus].spec = "new" /\ svc'[focus].st = "present"
              /\ \A u \in Services \ {focus} : svc'[u] = svc[u]
<1>1. /\ svc \in [Services -> Service] /\ "new" \in Specs /\ focus \in Services
  BY DEF Types, TypeOK, CreateService, Specs, Deploying
<1>2. CASE UNCHANGED svc /\ pc' = "failed"
  BY <1>2
<1>3. CASE ~Exists(svc[focus]) /\ Create(focus, "new")
  BY <1>1, <1>3, CreateMoves
<1> QED
  BY <1>2, <1>3 DEF CreateService

LEMMA RestoreMoves ==
    ASSUME Types, NEW s \in Services, Restore(s)
    PROVE  /\ todo' = todo \ {s} /\ s \in todo /\ pc = "restore"
           /\ \/ svc' = svc /\ ~Same(seen[s], snap[s]) /\ pc' = "restore"
              \/ svc' = svc /\ pc' = "rollbackFailed"
              \/ /\ svc' \in [Services -> Service] /\ \A u \in Services : Moves(u)
                 /\ Same(seen[s], snap[s]) /\ Accepts(s, seen[s])
                 /\ svc'[s].spec = snap[s].spec /\ svc'[s].st = "present"
                 /\ svc'[s].id = svc[s].id
                 /\ \A u \in Services \ {s} : svc'[u] = svc[u]
                 /\ pc' \in {"restore", "rollbackFailed"}
<1>1. svc \in [Services -> Service] /\ snap[s] \in Service
  BY DEF Types, TypeOK
<1>2. todo' = todo \ {s} /\ s \in todo /\ pc = "restore"
  BY DEF Restore
<1>3. CASE ~Same(seen[s], snap[s]) /\ UNCHANGED <<svc, pc>>
  BY <1>2, <1>3
<1>4. CASE UNCHANGED svc /\ pc' = "rollbackFailed"
  BY <1>2, <1>4
<1>5. CASE /\ Same(seen[s], snap[s]) /\ Accepts(s, seen[s])
           /\ Write(s, snap[s].spec) /\ pc' \in {pc, "rollbackFailed"}
  <2>1. svc[s].st = "present" /\ snap[s].spec \in Specs
    BY <1>1, <1>5 DEF Accepts, Service
  <2> QED
    BY <1>1, <1>2, <1>5, <2>1, WriteMoves
<1> QED
  BY <1>2, <1>3, <1>4, <1>5 DEF Restore

\* Every step moves every service as Moves says.
LEMMA ClusterMoves ==
    ASSUME Types, Next
    PROVE  svc' \in [Services -> Service] /\ \A u \in Services : Moves(u)
<1>1. svc \in [Services -> Service]
  BY DEF Types, TypeOK
<1>2. CASE UNCHANGED svc
  BY <1>1, <1>2 DEF Moves
<1>3. ASSUME NEW s \in Services,
             RemoveObsolete(s) \/ RemoveNew(s) \/ RemoveOfAll(s)
      PROVE  svc' \in [Services -> Service] /\ \A u \in Services : Moves(u)
  BY <1>1, <1>2, <1>3, RemoveMoves DEF RemoveObsolete, RemoveNew, RemoveOfAll
<1>4. CASE Snapshot
  BY <1>2, <1>4 DEF Snapshot, SnapshotServices, SnapshotDone, SnapshotTasks, cluster
<1>5. CASE Obsolete
  BY <1>2, <1>3, <1>5 DEF Obsolete, ListObsolete, ObsoleteMarked, ObsoleteRemoved,
     AwaitRemoval, cluster
<1>6. CASE Deploy
  <2>1. CASE UpdateService \/ CreateService
    BY <1>2, <2>1, UpdateMoves, CreateServiceMoves
  <2>2. CASE Prepare \/ ListOldTasks \/ ListNewTasks \/ InspectService \/ DeployReturns
    BY <1>2, <2>2 DEF Prepare, ListOldTasks, ListNewTasks, InspectService,
       DeployReturns, cluster
  <2>3. ASSUME NEW s \in Services, FindService(s) PROVE UNCHANGED svc
    BY <2>3 DEF FindService, cluster
  <2> QED
    BY <1>2, <1>5, <1>6, <2>1, <2>2, <2>3 DEF Deploy
<1>7. CASE Keep \/ StartRollback
  BY <1>2, <1>7 DEF Keep, StartRollback, cluster
<1>8. CASE Rollback
  <2>1. CASE ListCurrent \/ NewRemoved \/ AllRestored \/ ListAll \/ AllRemoved
    BY <1>2, <2>1 DEF ListCurrent, NewRemoved, AllRestored, ListAll, AllRemoved,
       cluster
  <2>2. ASSUME NEW s \in Services, Restore(s)
        PROVE  svc' \in [Services -> Service] /\ \A u \in Services : Moves(u)
    BY <1>2, <2>2, RestoreMoves
  <2> QED
    BY <1>3, <1>8, <2>1, <2>2 DEF Rollback
<1>9. CASE World
  <2>1. CASE ContextEnds \/ RollbackContextEnds
    BY <1>2, <2>1 DEF ContextEnds, RollbackContextEnds, cluster
  <2>2. ASSUME NEW s \in Services,
               Disappear(s) \/ CreateTasks(s) \/ Bump(s) \/ ForeignWrite(s)
        PROVE  svc' \in [Services -> Service] /\ \A u \in Services : Moves(u)
    BY <1>1, <1>2, <2>2, DisappearMoves, BumpMoves, ForeignMoves DEF CreateTasks
  <2> QED
    BY <1>9, <2>1, <2>2 DEF World, Orchestrator
<1>10. CASE Finished
  BY <1>2, <1>10 DEF Finished, vars, cluster
<1> QED
  BY <1>4, <1>5, <1>6, <1>7, <1>8, <1>9, <1>10 DEF Next, Process

-----------------------------------------------------------------------------
(***************************************************************************)
(* Types.                                                                  *)
(***************************************************************************)
LEMMA CallCounts ==
    ASSUME faults \in 0..MaxFaults, NEW live, Answers(live) \/ Faults \/ Fails(live)
    PROVE  faults' \in 0..MaxFaults
BY DeployerAssumption DEF Answers, Faults, Fails

LEMMA TypesInit == ASSUME Init PROVE Types
<1>1. /\ svc \in [Services -> Service] /\ seen \in [Services -> Service]
      /\ snap \in [Services -> Service]
  BY DEF Init, NoService, Service, Specs
<1>2. tasks \in [Services -> Nat]
  BY <1>1 DEF Init, Service
<1> QED
  BY <1>1, <1>2, DeployerAssumption
     DEF Init, Types, TypeOK, Steps, Finals, Deploying, MaxRetries

LEMMA TypesSnapshot == ASSUME Types, Snapshot PROVE Types'
<1> USE DEF Types, TypeOK, inputs, cluster, ctxs, Steps, Finals, Deploying
<1>1. CASE SnapshotServices
  <2>1. faults' \in 0..MaxFaults
    BY <1>1, CallCounts DEF SnapshotServices
  <2> QED
    BY <1>1, <2>1 DEF SnapshotServices, Listing
<1>2. CASE SnapshotDone
  BY <1>2 DEF SnapshotDone
<1>3. ASSUME NEW s \in Services, SnapshotTasks(s) PROVE Types'
  <2>1. faults' \in 0..MaxFaults
    BY <1>3, CallCounts DEF SnapshotTasks
  <2> QED
    BY <1>3, <2>1 DEF SnapshotTasks, MaxRetries
<1> QED
  BY <1>1, <1>2, <1>3 DEF Snapshot

LEMMA TypesObsolete == ASSUME Types, Obsolete PROVE Types'
<1> USE DEF Types, TypeOK, inputs, cluster, ctxs, Steps, Finals, Deploying
<1>1. svc' \in [Services -> Service]
  BY ClusterMoves DEF Next, Process, Deploy
<1>2. CASE ListObsolete
  <2>1. faults' \in 0..MaxFaults
    BY <1>2, CallCounts DEF ListObsolete
  <2> QED
    BY <1>2, <2>1 DEF ListObsolete, Listing
<1>3. CASE ObsoleteMarked \/ ObsoleteRemoved
  BY <1>3 DEF ObsoleteMarked, ObsoleteRemoved
<1>4. ASSUME NEW s \in Services, RemoveObsolete(s) PROVE Types'
  <2>1. faults' \in 0..MaxFaults
    BY <1>4, CallCounts DEF RemoveObsolete
  <2> QED
    BY <1>1, <1>4, <2>1 DEF RemoveObsolete
<1>5. ASSUME NEW s \in Services, AwaitRemoval(s) PROVE Types'
  <2>1. faults' \in 0..MaxFaults
    BY <1>5, CallCounts DEF AwaitRemoval
  <2> QED
    BY <1>5, <2>1 DEF AwaitRemoval
<1> QED
  BY <1>2, <1>3, <1>4, <1>5 DEF Obsolete

LEMMA TypesDeploy == ASSUME Types, Deploy PROVE Types'
<1> USE DEF Types, TypeOK, inputs, cluster, ctxs, Steps, Finals, Deploying
<1>1. svc' \in [Services -> Service]
  BY ClusterMoves DEF Next, Process
<1>2. CASE Prepare
  <2>1. faults' \in 0..MaxFaults
    BY <1>2, CallCounts DEF Prepare
  <2> QED
    BY <1>2, <2>1 DEF Prepare
<1>3. ASSUME NEW s \in Services, FindService(s) PROVE Types'
  <2>1. faults' \in 0..MaxFaults
    BY <1>3, CallCounts DEF FindService
  <2>2. Matches(s) \subseteq Services
    BY DeployerAssumption DEF Matches
  <2> QED
    BY <1>3, <2>1, <2>2 DEF FindService, Found
<1>4. CASE ListOldTasks
  <2>1. faults' \in 0..MaxFaults
    BY <1>4, CallCounts DEF ListOldTasks, RetryTaskList
  <2> QED
    BY <1>4, <2>1 DEF ListOldTasks, RetryTaskList, MaxRetries
<1>5. CASE UpdateService
  <2>1. faults' \in 0..MaxFaults
    BY <1>5, CallCounts DEF UpdateService
  <2> QED
    BY <1>1, <1>5, <2>1 DEF UpdateService
<1>6. CASE ListNewTasks
  <2>1. faults' \in 0..MaxFaults
    BY <1>6, CallCounts DEF ListNewTasks, RetryTaskList
  <2> QED
    BY <1>6, <2>1 DEF ListNewTasks, RetryTaskList, MaxRetries
<1>7. CASE CreateService
  <2>1. faults' \in 0..MaxFaults
    BY <1>7, CallCounts DEF CreateService
  <2> QED
    BY <1>1, <1>7, <2>1 DEF CreateService
<1>8. CASE InspectService
  <2>1. faults' \in 0..MaxFaults
    BY <1>8, CallCounts DEF InspectService
  <2> QED
    BY <1>8, <2>1 DEF InspectService
<1>9. CASE DeployReturns
  BY <1>9 DEF DeployReturns
<1> QED
  BY <1>2, <1>3, <1>4, <1>5, <1>6, <1>7, <1>8, <1>9, TypesObsolete DEF Deploy

LEMMA TypesRollback == ASSUME Types, Rollback PROVE Types'
<1> USE DEF Types, TypeOK, inputs, cluster, ctxs, Steps, Finals, Deploying
<1>1. svc' \in [Services -> Service]
  BY ClusterMoves DEF Next, Process
<1>2. CASE ListCurrent
  <2>1. faults' \in 0..MaxFaults
    BY <1>2, CallCounts DEF ListCurrent
  <2> QED
    BY <1>2, <2>1 DEF ListCurrent, Listing
<1>3. CASE NewRemoved \/ AllRestored \/ AllRemoved
  BY <1>3 DEF NewRemoved, AllRestored, AllRemoved
<1>4. CASE ListAll
  <2>1. faults' \in 0..MaxFaults
    BY <1>4, CallCounts DEF ListAll
  <2> QED
    BY <1>4, <2>1 DEF ListAll, Listing
<1>5. ASSUME NEW s \in Services, RemoveNew(s) PROVE Types'
  <2>1. faults' \in 0..MaxFaults
    BY <1>5, CallCounts DEF RemoveNew
  <2> QED
    BY <1>1, <1>5, <2>1 DEF RemoveNew
<1>6. ASSUME NEW s \in Services, Restore(s) PROVE Types'
  <2>1. faults' \in 0..MaxFaults
    BY <1>6, CallCounts DEF Restore
  <2> QED
    BY <1>1, <1>6, <2>1 DEF Restore
<1>7. ASSUME NEW s \in Services, RemoveOfAll(s) PROVE Types'
  <2>1. faults' \in 0..MaxFaults
    BY <1>7, CallCounts DEF RemoveOfAll
  <2> QED
    BY <1>1, <1>7, <2>1 DEF RemoveOfAll
<1> QED
  BY <1>2, <1>3, <1>4, <1>5, <1>6, <1>7 DEF Rollback

LEMMA TypesWorld == ASSUME Types, World PROVE Types'
<1> USE DEF Types, TypeOK, inputs, cluster, ctxs, locals, Steps, Finals, Deploying
<1>1. svc' \in [Services -> Service]
  BY ClusterMoves DEF Next
<1>2. CASE ContextEnds \/ RollbackContextEnds
  BY <1>2 DEF ContextEnds, RollbackContextEnds
<1>3. ASSUME NEW s \in Services, Disappear(s) PROVE Types'
  BY <1>1, <1>3 DEF Disappear
<1>4. ASSUME NEW s \in Services, CreateTasks(s) PROVE Types'
  <2>1. svc[s].rev \in Nat
    BY DEF Service
  <2> QED
    BY <1>4, <2>1 DEF CreateTasks
<1>5. ASSUME NEW s \in Services, Bump(s) PROVE Types'
  <2>1. bumps' \in 0..MaxBumps
    BY <1>5, DeployerAssumption DEF Bump
  <2> QED
    BY <1>1, <1>5, <2>1 DEF Bump
<1>6. ASSUME NEW s \in Services, ForeignWrite(s) PROVE Types'
  BY <1>1, <1>6 DEF ForeignWrite
<1> QED
  BY <1>2, <1>3, <1>4, <1>5, <1>6 DEF World, Orchestrator

LEMMA TypesNext == ASSUME Types, [Next]_vars PROVE Types'
<1>1. CASE Keep \/ StartRollback
  BY <1>1 DEF Keep, StartRollback, Types, TypeOK, inputs, cluster, ctxs, Steps,
     Finals, Deploying
<1>2. CASE UNCHANGED vars
  BY <1>2 DEF vars, Types, TypeOK, inputs, cluster, ctxs, locals, Deploying
<1> QED
  BY <1>1, <1>2, TypesSnapshot, TypesDeploy, TypesRollback, TypesWorld
     DEF Next, Process, Finished

-----------------------------------------------------------------------------
(***************************************************************************)
(* Listed, and that no write is lost.                                      *)
(***************************************************************************)

\* A step lists services or leaves what was listed; while listing it writes none.
LEMMA SeenMoves ==
    ASSUME Types, Next
    PROVE  \/ seen' = seen
           \/ svc' = svc /\ \A s \in Services : seen'[s] \in {seen[s], svc[s]}
<1>1. seen \in [Services -> Service] /\ svc \in [Services -> Service]
  BY DEF Types, TypeOK
<1>2. CASE ListObsolete \/ ListCurrent \/ ListAll
  BY <1>1, <1>2 DEF ListObsolete, ListCurrent, ListAll, cluster
<1>3. ASSUME NEW s \in Services, FindService(s)
      PROVE  \/ seen' = seen
             \/ svc' = svc /\ \A u \in Services : seen'[u] \in {seen[u], svc[u]}
  BY <1>1, <1>3 DEF FindService, Found, cluster
<1>4. CASE Snapshot
  BY <1>4 DEF Snapshot, SnapshotServices, SnapshotDone, SnapshotTasks
<1>5. CASE Obsolete
  BY <1>2, <1>5 DEF Obsolete, ObsoleteMarked, ObsoleteRemoved, RemoveObsolete,
     AwaitRemoval
<1>6. CASE Deploy
  BY <1>3, <1>5, <1>6 DEF Deploy, Prepare, ListOldTasks, UpdateService, ListNewTasks,
     CreateService, InspectService, DeployReturns
<1>7. CASE Keep \/ StartRollback
  BY <1>7 DEF Keep, StartRollback
<1>8. CASE Rollback
  BY <1>2, <1>8 DEF Rollback, NewRemoved, AllRestored, AllRemoved, RemoveNew,
     Restore, RemoveOfAll
<1>9. CASE World
  BY <1>9 DEF World, Orchestrator, ContextEnds, RollbackContextEnds, Disappear,
     CreateTasks, Bump, ForeignWrite, locals
<1>10. CASE Finished
  BY <1>10 DEF Finished, vars, locals
<1> QED
  BY <1>4, <1>6, <1>7, <1>8, <1>9, <1>10 DEF Next, Process

LEMMA ListedInit == ASSUME Init PROVE Listed
BY DEF Init, Listed, NoService

LEMMA ListedNext == ASSUME Types, Listed, [Next]_vars PROVE Listed'
<1>1. CASE UNCHANGED vars
  BY <1>1 DEF vars, cluster, locals, Listed
<1>2. CASE Next
  <2>1. \A s \in Services : /\ svc[s].ver \in Nat /\ svc'[s].ver \in Nat
                           /\ seen[s].ver \in Nat
    BY <1>2, ClusterMoves DEF Types, TypeOK, Service
  <2>2. \A s \in Services : Moves(s)
    BY <1>2, ClusterMoves
  <2>3. CASE seen' = seen
    BY <2>1, <2>2, <2>3 DEF Listed, Moves
  <2>4. CASE svc' = svc /\ \A s \in Services : seen'[s] \in {seen[s], svc[s]}
    BY <2>1, <2>4 DEF Listed
  <2> QED
    BY <1>2, <2>3, <2>4, SeenMoves
<1> QED
  BY <1>1, <1>2

\* The writes of an update or a restoration are of what was listed.
LEMMA NoWriteIsLost ==
    ASSUME Types, Listed, Next, NEW s \in Services, svc[s].st = "present",
           svc'[s].spec # svc[s].spec, pc \in {"update", "restore"},
           foreign' = foreign
    PROVE  svc[s].spec = seen[s].spec
<1> DEFINE Goal == svc[s].spec = seen[s].spec
<1>1. svc \in [Services -> Service]
  BY DEF Types, TypeOK
<1>2. Accepts(s, seen[s]) => Goal
  BY DEF Listed, Accepts
<1>3. CASE UpdateService
  <2>1. focus = s
    BY <1>3, UpdateMoves
  <2> QED
    BY <1>2, <1>3, <2>1, UpdateMoves
<1>4. ASSUME NEW u \in Services, Restore(u) PROVE Goal
  <2>1. u = s
    BY <1>4, RestoreMoves
  <2> QED
    BY <1>2, <1>4, <2>1, RestoreMoves
<1>5. ASSUME NEW u \in Services,
             Disappear(u) \/ CreateTasks(u) \/ Bump(u) \/ ForeignWrite(u)
      PROVE  FALSE
  <2>1. CASE Disappear(u)
    BY <1>1, <2>1, DisappearMoves
  <2>2. CASE CreateTasks(u)
    BY <2>2 DEF CreateTasks
  <2>3. CASE Bump(u)
    BY <1>1, <2>3, BumpMoves
  <2>4. CASE ForeignWrite(u)
    BY <1>1, <2>4, ForeignMoves DEF ForeignWrite
  <2> QED
    BY <1>5, <2>1, <2>2, <2>3, <2>4
<1>6. CASE World
  BY <1>5, <1>6 DEF World, Orchestrator, ContextEnds, RollbackContextEnds, cluster
<1>7. CASE Snapshot \/ Keep \/ StartRollback
  BY <1>7 DEF Snapshot, SnapshotServices, SnapshotDone, SnapshotTasks, Keep,
     StartRollback
<1>8. CASE Deploy
  BY <1>3, <1>8 DEF Deploy, Obsolete, ListObsolete, ObsoleteMarked, ObsoleteRemoved,
     RemoveObsolete, AwaitRemoval, Prepare, FindService, ListOldTasks,
     ListNewTasks, CreateService, InspectService, DeployReturns
<1>9. CASE Rollback
  BY <1>4, <1>9 DEF Rollback, ListCurrent, NewRemoved, AllRestored, ListAll,
     AllRemoved, RemoveNew, RemoveOfAll, cluster
<1>10. CASE Finished
  BY <1>10 DEF Finished, Finals
<1> QED
  BY <1>6, <1>7, <1>8, <1>9, <1>10 DEF Next, Process

-----------------------------------------------------------------------------
(***************************************************************************)
(* What becomes of the services the apply has found.                       *)
(***************************************************************************)

\* Only the three loops that remove services remove one, and only one they visit.
LEMMA PresentStays ==
    ASSUME Types, Next, NEW s \in Services, svc[s].st = "present"
    PROVE  \/ svc'[s].st = "present" /\ svc'[s].id = svc[s].id
           \/ s \in todo /\ pc \in {"removeObsolete", "removeNew", "removeAll"}
<1> DEFINE Stays == svc'[s].st = "present" /\ svc'[s].id = svc[s].id
           Goal == Stays \/ (/\ s \in todo
                             /\ pc \in {"removeObsolete", "removeNew", "removeAll"})
<1>1. svc \in [Services -> Service]
  BY DEF Types, TypeOK
<1>2. CASE UNCHANGED svc
  BY <1>2
<1>3. ASSUME NEW u \in Services,
             RemoveObsolete(u) \/ RemoveNew(u) \/ RemoveOfAll(u)
      PROVE  Goal
  <2>1. /\ u \in todo /\ pc \in {"removeObsolete", "removeNew", "removeAll"}
        /\ svc' = svc \/ Remove(u)
    BY <1>3 DEF RemoveObsolete, RemoveNew, RemoveOfAll
  <2> QED
    BY <1>1, <2>1, RemoveMoves
<1>4. CASE Snapshot \/ Keep \/ StartRollback \/ Finished
  BY <1>2, <1>4 DEF Snapshot, SnapshotServices, SnapshotDone, SnapshotTasks, Keep,
     StartRollback, Finished, vars, cluster
<1>5. CASE Deploy
  <2>1. CASE UpdateService
    BY <1>2, <2>1, UpdateMoves
  <2>2. CASE CreateService
    BY <1>2, <2>2, CreateServiceMoves DEF Exists
  <2> QED
    BY <1>2, <1>3, <1>5, <2>1, <2>2 DEF Deploy, Obsolete, ListObsolete,
       ObsoleteMarked, ObsoleteRemoved, AwaitRemoval, Prepare, FindService,
       ListOldTasks, ListNewTasks, InspectService, DeployReturns, cluster
<1>6. CASE Rollback
  <2>1. ASSUME NEW u \in Services, Restore(u) PROVE Goal
    BY <1>2, <2>1, RestoreMoves
  <2> QED
    BY <1>2, <1>3, <1>6, <2>1 DEF Rollback, ListCurrent, NewRemoved, AllRestored,
       ListAll, AllRemoved, cluster
<1>7. CASE World
  <2>1. ASSUME NEW u \in Services,
               Disappear(u) \/ CreateTasks(u) \/ Bump(u) \/ ForeignWrite(u)
        PROVE  Stays
    BY <1>1, <2>1, DisappearMoves, BumpMoves, ForeignMoves DEF CreateTasks
  <2> QED
    BY <1>2, <1>7, <2>1 DEF World, Orchestrator, ContextEnds, RollbackContextEnds,
       cluster
<1> QED
  BY <1>4, <1>5, <1>6, <1>7 DEF Next, Process

\* A record of the services as the apply found them.
AsFound(services) ==
    \A s \in Services :
        /\ s \in initial => services[s].st = "present" /\ services[s].id = 1
        /\ s \in initial \ foreign => services[s].spec = "old"
        /\ s \notin initial \cup foreign => services[s].st = "absent"

\* The snapshot is what was found; the loops that remove services spare those
\* found that are in the file, since the one without exception belongs to the
\* rollback of a first deployment, which has found none.
Initial ==
    /\ pc = "snapshot" => AsFound(svc)
    /\ pc \notin {"snapshot", "blocked"} => AsFound(snap)
    /\ pc = "removeNew" => todo \cap initial \cap desired = {}
    /\ pc \in {"listAll", "removeAll"} => IsFirstDeploy
    /\ KeptServicesSurvive

LEMMA InputsStay ==
    ASSUME [Next]_vars
    PROVE  UNCHANGED <<desired, initial>> /\ foreign \subseteq foreign'
<1> USE DEF inputs, cluster
<1>1. CASE Snapshot \/ Keep \/ StartRollback
  BY <1>1 DEF Snapshot, SnapshotServices, SnapshotDone, SnapshotTasks, Keep,
     StartRollback
<1>2. CASE Deploy
  BY <1>2 DEF Deploy, Obsolete, ListObsolete, ObsoleteMarked, ObsoleteRemoved,
     RemoveObsolete, AwaitRemoval, Prepare, FindService, ListOldTasks,
     UpdateService, ListNewTasks, CreateService, InspectService, DeployReturns
<1>3. CASE Rollback
  BY <1>3 DEF Rollback, ListCurrent, NewRemoved, AllRestored, ListAll, AllRemoved,
     RemoveNew, Restore, RemoveOfAll
<1>4. CASE World
  BY <1>4 DEF World, Orchestrator, ContextEnds, RollbackContextEnds, Disappear,
     CreateTasks, Bump, ForeignWrite
<1>5. CASE UNCHANGED vars
  BY <1>5 DEF vars
<1> QED
  BY <1>1, <1>2, <1>3, <1>4, <1>5 DEF Next, Process, Finished

\* Where a step goes, and the snapshot it leaves.
LEMMA SnapStays ==
    ASSUME Next, ~SnapshotServices
    PROVE  /\ snap' = snap
           /\ pc = "snapshot" <=> pc' = "snapshot"
           /\ pc = "blocked" => pc' = "blocked"
<1>1. CASE Snapshot \/ Keep \/ StartRollback
  BY <1>1 DEF Snapshot, SnapshotDone, SnapshotTasks, Keep, StartRollback
<1>2. CASE Deploy
  BY <1>2 DEF Deploy, Obsolete, ListObsolete, ObsoleteMarked, ObsoleteRemoved,
     RemoveObsolete, AwaitRemoval, Prepare, FindService, Found, ListOldTasks,
     RetryTaskList, UpdateService, ListNewTasks, CreateService, InspectService,
     DeployReturns
<1>3. CASE Rollback
  BY <1>3 DEF Rollback, ListCurrent, NewRemoved, AllRestored, ListAll, AllRemoved,
     RemoveNew, Restore, RemoveOfAll
<1>4. CASE World
  BY <1>4 DEF World, Orchestrator, ContextEnds, RollbackContextEnds, Disappear,
     CreateTasks, Bump, ForeignWrite, locals
<1>5. CASE Finished
  BY <1>5 DEF Finished, vars, locals
<1> QED
  BY <1>1, <1>2, <1>3, <1>4, <1>5 DEF Next, Process

LEMMA InitialInit == ASSUME Init PROVE Initial
BY DEF Init, Initial, AsFound, KeptServicesSurvive, NoService

\* The snapshot sees what was found, whatever has been written meanwhile.
LEMMA InitialSnapshot ==
    ASSUME Types, Initial, Next
    PROVE  /\ pc' = "snapshot" => AsFound(svc)'
           /\ pc' \notin {"snapshot", "blocked"} => AsFound(snap)'
<1>1. UNCHANGED <<desired, initial>> /\ foreign \subseteq foreign'
  BY InputsStay
<1>2. CASE SnapshotServices
  BY <1>1, <1>2 DEF SnapshotServices, Initial, AsFound, cluster
<1>3. CASE ~SnapshotServices
  <2>1. pc' \notin {"snapshot", "blocked"} => AsFound(snap)'
    BY <1>1, <1>3, SnapStays DEF Initial, AsFound
  <2>2. ASSUME pc = "snapshot" PROVE AsFound(svc)'
    <3>1. svc \in [Services -> Service] /\ AsFound(svc)
      BY <2>2 DEF Types, TypeOK, Initial
    <3>2. CASE UNCHANGED svc
      BY <1>1, <3>1, <3>2 DEF AsFound
    <3>3. ASSUME NEW s \in Services,
                 Disappear(s) \/ CreateTasks(s) \/ Bump(s) \/ ForeignWrite(s)
          PROVE  AsFound(svc)'
      <4>1. CASE Disappear(s)
        BY <1>1, <3>1, <4>1, DisappearMoves DEF AsFound
      <4>2. CASE CreateTasks(s)
        BY <3>2, <4>2 DEF CreateTasks
      <4>3. CASE Bump(s)
        BY <1>1, <3>1, <4>3, BumpMoves DEF AsFound
      <4>4. CASE ForeignWrite(s)
        BY <1>1, <3>1, <4>4, ForeignMoves DEF AsFound
      <4> QED
        BY <3>3, <4>1, <4>2, <4>3, <4>4
    <3>4. CASE World
      BY <3>2, <3>3, <3>4 DEF World, Orchestrator, ContextEnds, RollbackContextEnds,
         cluster
    <3>5. CASE ~World
      BY <1>3, <2>2, <3>2, <3>5 DEF Next, Process, Snapshot, SnapshotDone,
         SnapshotTasks, Keep, StartRollback, Finished, vars, cluster, Finals,
         Deploy, Obsolete, ListObsolete, ObsoleteMarked, ObsoleteRemoved,
         RemoveObsolete, AwaitRemoval, Prepare, FindService, ListOldTasks,
         UpdateService, ListNewTasks, CreateService, InspectService,
         DeployReturns, Rollback, ListCurrent, NewRemoved, AllRestored, ListAll,
         AllRemoved, RemoveNew, Restore, RemoveOfAll
    <3> QED
      BY <3>4, <3>5
  <2> QED
    BY <1>3, <2>1, <2>2, SnapStays
<1> QED
  BY <1>2, <1>3

LEMMA InitialKept == ASSUME Types, Initial, Next PROVE KeptServicesSurvive'
<1> SUFFICES ASSUME NEW s \in initial \cap desired
             PROVE  svc'[s].st = "present" /\ svc'[s].id = 1
  BY InputsStay DEF KeptServicesSurvive
<1>1. s \in Services /\ svc[s].st = "present" /\ svc[s].id = 1
  BY DEF Types, TypeOK, Initial, KeptServicesSurvive
<1>2. ~(s \in todo /\ pc \in {"removeObsolete", "removeNew", "removeAll"})
  BY <1>1 DEF Types, Initial, IsFirstDeploy, AsFound, Exists
<1> QED
  BY <1>1, <1>2, PresentStays

LEMMA InitialNext == ASSUME Types, Initial, [Next]_vars PROVE Initial'
<1>1. CASE UNCHANGED vars
  BY <1>1 DEF vars, inputs, cluster, locals, Initial, AsFound, KeptServicesSurvive,
     IsFirstDeploy
<1>2. CASE Next
  <2>1. UNCHANGED <<desired, initial>>
    BY InputsStay
  <2>2. pc' = "removeNew" => todo' \cap initial \cap desired = {}
    <3>1. CASE ListCurrent
      BY <3>1 DEF ListCurrent, Same, Exists, Initial, AsFound, KeptServicesSurvive,
         Types, TypeOK
    <3>2. ASSUME NEW s \in Services, RemoveNew(s)
          PROVE  todo' \cap initial \cap desired = {}
      BY <3>2 DEF RemoveNew, Initial
    <3>3. CASE World \/ Finished
      BY <3>3 DEF World, Orchestrator, ContextEnds, RollbackContextEnds, Disappear,
         CreateTasks, Bump, ForeignWrite, locals, Finished, vars, Initial
    <3>4. CASE Snapshot \/ Keep \/ StartRollback
      BY <3>4 DEF Snapshot, SnapshotServices, SnapshotDone, SnapshotTasks, Keep,
         StartRollback
    <3>5. CASE Deploy
      BY <3>5 DEF Deploy, Obsolete, ListObsolete, ObsoleteMarked, ObsoleteRemoved,
         RemoveObsolete, AwaitRemoval, Prepare, FindService, Found, ListOldTasks,
         RetryTaskList, UpdateService, ListNewTasks, CreateService,
         InspectService, DeployReturns
    <3>6. CASE Rollback
      BY <3>1, <3>2, <3>6 DEF Rollback, NewRemoved, AllRestored, ListAll,
         AllRemoved, Restore, RemoveOfAll
    <3> QED
      BY <1>2, <3>3, <3>4, <3>5, <3>6 DEF Next, Process
  <2>3. pc' \in {"listAll", "removeAll"} => IsFirstDeploy /\ snap' = snap
    <3>1. CASE Snapshot \/ Keep \/ StartRollback
      BY <3>1 DEF Snapshot, SnapshotServices, SnapshotDone, SnapshotTasks, Keep,
         StartRollback
    <3>2. CASE Deploy
      BY <3>2 DEF Deploy, Obsolete, ListObsolete, ObsoleteMarked, ObsoleteRemoved,
         RemoveObsolete, AwaitRemoval, Prepare, FindService, Found, ListOldTasks,
         RetryTaskList, UpdateService, ListNewTasks, CreateService,
         InspectService, DeployReturns
    <3>3. CASE Rollback
      BY <3>3 DEF Rollback, ListCurrent, NewRemoved, AllRestored, ListAll,
         AllRemoved, RemoveNew, Restore, RemoveOfAll, Initial
    <3>4. CASE World \/ Finished
      BY <3>4 DEF World, Orchestrator, ContextEnds, RollbackContextEnds, Disappear,
         CreateTasks, Bump, ForeignWrite, locals, Finished, vars, Initial
    <3> QED
      BY <1>2, <3>1, <3>2, <3>3, <3>4 DEF Next, Process
  <2> QED
    BY <1>2, <2>1, <2>2, <2>3, InitialSnapshot, InitialKept
       DEF Initial, IsFirstDeploy
<1> QED
  BY <1>1, <1>2

-----------------------------------------------------------------------------
(***************************************************************************)
(* How far the rollback has come.                                          *)
(***************************************************************************)

\* Nothing has failed and nobody has interfered with the rollback.
Clean == faults = 0 /\ foreign = {} /\ rctx

New(s) == ~Exists(snap[s]) /\ svc[s].st = "present"

Undoing ==
    /\ pc \in {"removeNew", "restore"} =>
          \A s \in initial \cap desired : Exists(seen[s]) /\ seen[s].id = 1
    /\ pc \in {"restore", "rolledBack"} =>
          \A s \in (initial \cap desired) \ foreign :
              (pc = "restore" /\ s \in todo) \/ svc[s].spec = snap[s].spec
    /\ Clean /\ pc \in {"removeNew", "removeAll"} =>
          \A s \in Services : New(s) => s \in todo
    /\ Clean /\ pc \in {"restore", "rolledBack"} => \A s \in Services : ~New(s)

\* A call that answers and nothing else leaves the count of failures at zero.
LEMMA FaultsGrow == ASSUME Types, Next, faults' = 0 PROVE faults = 0
<1>1. faults \in Nat
  BY DeployerAssumption DEF Types, TypeOK
<1>2. \A live : (Answers(live) \/ Fails(live) \/ Faults) => faults = 0
  BY <1>1 DEF Answers, Fails, Faults
<1>3. CASE Snapshot
  BY <1>2, <1>3 DEF Snapshot, SnapshotServices, SnapshotDone, SnapshotTasks
<1>4. CASE Keep \/ StartRollback \/ Finished
  BY <1>4 DEF Keep, StartRollback, Finished, vars
<1>5. CASE Deploy
  BY <1>2, <1>5 DEF Deploy, Obsolete, ListObsolete, ObsoleteMarked, ObsoleteRemoved,
     RemoveObsolete, AwaitRemoval, Prepare, FindService, ListOldTasks,
     RetryTaskList, UpdateService, ListNewTasks, CreateService, InspectService,
     DeployReturns
<1>6. CASE Rollback
  BY <1>2, <1>6 DEF Rollback, ListCurrent, NewRemoved, AllRestored, ListAll,
     AllRemoved, RemoveNew, Restore, RemoveOfAll
<1>7. CASE World
  BY <1>7 DEF World, Orchestrator, ContextEnds, RollbackContextEnds, Disappear,
     CreateTasks, Bump, ForeignWrite
<1> QED
  BY <1>3, <1>4, <1>5, <1>6, <1>7 DEF Next, Process

\* A context that has ended stays so.
LEMMA ContextsEnd == ASSUME Next PROVE (ctx' => ctx) /\ (rctx' => rctx)
<1> USE DEF ctxs
<1>1. CASE Snapshot \/ Keep \/ StartRollback \/ Finished
  BY <1>1 DEF Snapshot, SnapshotServices, SnapshotDone, SnapshotTasks, Keep,
     StartRollback, Finished, vars
<1>2. CASE Deploy
  BY <1>2 DEF Deploy, Obsolete, ListObsolete, ObsoleteMarked, ObsoleteRemoved,
     RemoveObsolete, AwaitRemoval, Prepare, FindService, ListOldTasks,
     RetryTaskList, UpdateService, ListNewTasks, CreateService, InspectService,
     DeployReturns
<1>3. CASE Rollback
  BY <1>3 DEF Rollback, ListCurrent, NewRemoved, AllRestored, ListAll, AllRemoved,
     RemoveNew, Restore, RemoveOfAll
<1>4. CASE World
  <2>1. CASE ContextEnds
    BY <2>1 DEF ContextEnds
  <2>2. CASE RollbackContextEnds
    BY <2>2 DEF RollbackContextEnds
  <2>3. ASSUME NEW s \in Services,
               Disappear(s) \/ CreateTasks(s) \/ Bump(s) \/ ForeignWrite(s)
        PROVE  ctx' = ctx /\ rctx' = rctx
    BY <2>3 DEF Disappear, CreateTasks, Bump, ForeignWrite
  <2> QED
    BY <1>4, <2>1, <2>2, <2>3 DEF World, Orchestrator
<1> QED
  BY <1>1, <1>2, <1>3, <1>4 DEF Next, Process

LEMMA CleanBefore == ASSUME Types, Next, Clean' PROVE Clean
BY InputsStay, FaultsGrow, ContextsEnd DEF Clean

LEMMA UndoingWorld ==
    ASSUME Types, Initial, Undoing, World
    PROVE  Undoing'
<1>1. /\ svc \in [Services -> Service] /\ UNCHANGED <<inputs, locals>>
      /\ foreign \subseteq foreign' /\ initial \subseteq Services
  BY InputsStay DEF World, Orchestrator, ContextEnds, RollbackContextEnds, Disappear,
     CreateTasks, Bump, ForeignWrite, Types, TypeOK, Next, inputs
<1>2. Clean' => Clean
  BY CleanBefore DEF Next
<1>3. \A s \in initial \cap desired : svc[s].st = "present"
  BY DEF Initial, KeptServicesSurvive
<1>4. CASE UNCHANGED svc
  BY <1>1, <1>2, <1>4 DEF Undoing, New, inputs, locals
<1>5. ASSUME NEW s \in Services, Disappear(s) PROVE Undoing'
  BY <1>1, <1>2, <1>3, <1>5, DisappearMoves DEF Undoing, New, inputs, locals
<1>6. ASSUME NEW s \in Services, Bump(s) PROVE Undoing'
  BY <1>1, <1>2, <1>3, <1>6, BumpMoves DEF Undoing, New, inputs, locals
<1>7. ASSUME NEW s \in Services, ForeignWrite(s) PROVE Undoing'
  BY <1>1, <1>2, <1>3, <1>7, ForeignMoves DEF Undoing, New, inputs, locals, Clean
<1> QED
  BY <1>4, <1>5, <1>6, <1>7
     DEF World, Orchestrator, ContextEnds, RollbackContextEnds, CreateTasks, cluster

LEMMA UndoingRollback ==
    ASSUME Types, Initial, Undoing, Rollback
    PROVE  Undoing'
<1> USE DEF inputs, ctxs, cluster
<1>1. /\ svc \in [Services -> Service] /\ initial \subseteq Services
      /\ UNCHANGED <<desired, initial>> /\ foreign' = foreign /\ snap' = snap
  BY DEF Types, TypeOK, Rollback, ListCurrent, NewRemoved, AllRestored, ListAll,
     AllRemoved, RemoveNew, Restore, RemoveOfAll
<1>2. Clean' => Clean
  BY CleanBefore DEF Next, Process
<1>3. /\ pc \notin {"snapshot", "blocked"}
      /\ \A s \in initial : Exists(snap[s]) /\ snap[s].id = 1
      /\ \A s \in initial \cap desired : svc[s].st = "present" /\ svc[s].id = 1
  BY DEF Initial, AsFound, KeptServicesSurvive, Exists, Rollback, ListCurrent,
     NewRemoved, AllRestored, ListAll, AllRemoved, RemoveNew, Restore, RemoveOfAll,
     Types, TypeOK
<1>4. CASE ListCurrent
  <2>1. /\ pc' \in {"removeNew", "rollbackFailed"} /\ svc' = svc
        /\ pc' = "removeNew" =>
              seen' = svc /\ todo' = {s \in Listing : ~Same(svc[s], snap[s])}
    BY <1>4 DEF ListCurrent
  <2>2. \A s \in Services : New(s) => s \in Listing /\ ~Same(svc[s], snap[s])
    BY DEF New, Listing, Same, Exists
  <2> QED
    BY <1>1, <1>3, <2>1, <2>2 DEF Undoing, New, Exists
<1>5. ASSUME NEW s \in Services, RemoveNew(s) PROVE Undoing'
  <2>1. /\ pc = "removeNew" /\ pc' = pc /\ todo' = todo \ {s} /\ seen' = seen
        /\ svc' = svc \/ Remove(s)
        /\ Clean' => Remove(s)
    BY <1>5 DEF RemoveNew, Clean, Fails, Faults, Answers, Types, TypeOK
  <2> QED
    BY <1>1, <1>2, <2>1, RemoveMoves DEF Undoing, New
<1>6. CASE NewRemoved
  <2>1. /\ pc = "removeNew" /\ todo = {} /\ pc' = "restore" /\ svc' = svc
        /\ seen' = seen /\ todo' = {s \in Services : Exists(snap[s])}
    BY <1>6 DEF NewRemoved
  <2> QED
    BY <1>1, <1>2, <1>3, <2>1 DEF Undoing, New
<1>7. ASSUME NEW s \in Services, Restore(s) PROVE Undoing'
  <2>1. seen' = seen /\ pc' \in {"restore", "rollbackFailed"}
    BY <1>7, RestoreMoves DEF Restore
  <2>2. pc = "restore" /\ todo' = todo \ {s}
    BY <1>7, RestoreMoves
  <2>3. CASE pc' = "rollbackFailed"
    BY <2>3 DEF Undoing
  <2>4. CASE svc' = svc /\ ~Same(seen[s], snap[s])
    <3>1. s \notin initial \cap desired
      BY <1>3, <2>2, <2>4 DEF Undoing, Same
    <3> QED
      BY <1>1, <1>2, <2>1, <2>2, <2>4, <3>1 DEF Undoing, New
  <2>5. CASE /\ Same(seen[s], snap[s]) /\ svc'[s].spec = snap[s].spec
             /\ \A u \in Services \ {s} : svc'[u] = svc[u]
    <3>1. Exists(snap[s])
      BY <2>5 DEF Same
    <3> QED
      BY <1>1, <1>2, <2>1, <2>2, <2>5, <3>1 DEF Undoing, New
  <2> QED
    BY <1>7, <2>3, <2>4, <2>5, RestoreMoves
<1>8. CASE AllRestored
  BY <1>1, <1>2, <1>8 DEF AllRestored, Undoing, New
<1>9. CASE ListAll
  <2>1. /\ pc' \in {"removeAll", "rolledBack", "rollbackFailed"} /\ svc' = svc
        /\ pc' \in {"removeAll", "rolledBack"} => todo' = Listing
        /\ pc' = "rolledBack" => Listing = {}
    BY <1>9 DEF ListAll
  <2>2. initial = {}
    BY <1>1, <1>3, <1>9 DEF Initial, IsFirstDeploy, ListAll
  <2>3. \A s \in Services : New(s) => s \in Listing
    BY DEF New, Listing, Exists
  <2> QED
    BY <1>1, <2>1, <2>2, <2>3 DEF Undoing, New
<1>10. ASSUME NEW s \in Services, RemoveOfAll(s) PROVE Undoing'
  <2>1. /\ pc = "removeAll" /\ pc' = pc /\ todo' = todo \ {s}
        /\ svc' = svc \/ Remove(s)
        /\ Clean' => Remove(s)
    BY <1>10 DEF RemoveOfAll, Clean, Fails, Faults, Answers, Types, TypeOK
  <2> QED
    BY <1>1, <1>2, <2>1, RemoveMoves DEF Undoing, New
<1>11. CASE AllRemoved
  <2>1. initial = {}
    BY <1>1, <1>3, <1>11 DEF Initial, IsFirstDeploy, AllRemoved
  <2> QED
    BY <1>1, <1>2, <1>11, <2>1 DEF AllRemoved, Undoing, New
<1> QED
  BY <1>4, <1>5, <1>6, <1>7, <1>8, <1>9, <1>10, <1>11 DEF Rollback

LEMMA UndoingNext == ASSUME Types, Initial, Undoing, [Next]_vars PROVE Undoing'
<1>1. CASE UNCHANGED vars \/ Finished
  BY <1>1 DEF Finished, vars, inputs, cluster, ctxs, locals, Undoing, New, Clean
<1>2. CASE Snapshot \/ Keep \/ StartRollback
  BY <1>2 DEF Snapshot, SnapshotServices, SnapshotDone, SnapshotTasks, Keep,
     StartRollback, Undoing
<1>3. CASE Deploy
  BY <1>3 DEF Deploy, Obsolete, ListObsolete, ObsoleteMarked, ObsoleteRemoved,
     RemoveObsolete, AwaitRemoval, Prepare, FindService, Found, ListOldTasks,
     RetryTaskList, UpdateService, ListNewTasks, CreateService, InspectService,
     DeployReturns, Undoing
<1> QED
  BY <1>1, <1>2, <1>3, UndoingRollback, UndoingWorld DEF Next, Process

LEMMA UndoingInit == ASSUME Init PROVE Undoing
BY DEF Init, Undoing

-----------------------------------------------------------------------------
(***************************************************************************)
(* What a deployment that nothing disturbs has reached.                    *)
(***************************************************************************)
Calm == ctx /\ faults = 0 /\ foreign = {} /\ bumps = 0

\* A new service of the file whose name begins the name of another.
Ambiguous == \E s \in desired \ initial : Longer[s] \cap desired # {}

\* Before anything is removed the stack is as it was found.
Intact ==
    pc \in {"snapshot", "snapshotTasks", "obsolete"} =>
        \A s \in Services : svc[s].st = IF s \in initial THEN "present" ELSE "absent"

\* What obsolete services there are have been listed, and are waited for.
Clearing ==
    pc \in {"removeObsolete", "awaitRemoval"} =>
        \A s \in Services \ desired :
            /\ Exists(svc[s]) => Exists(seen[s])
            /\ Exists(seen[s]) => seen[s].id = svc[s].id
            /\ s \in todo => Exists(seen[s])
            /\ s \in todo /\ pc = "removeObsolete" => svc[s].st = "present"
            /\ Exists(svc[s]) /\ pc = "awaitRemoval" => s \in todo

\* After that the services of the file are there or not, and no others are.
Cleared ==
    /\ pc \in {"removeObsolete", "awaitRemoval", "images", "networks", "volumes"} =>
          \A s \in desired \ initial : svc[s].st = "absent"
    /\ pc \in {"images", "networks", "volumes"} \cup Deploying =>
          \A s \in Services \ desired : svc[s].st = "absent"
    /\ pc \in Deploying => \A s \in desired : svc[s].st # "removing"

\* A service that is to be created is not there, and one that is to be updated
\* is as it was listed, unless the lookup has found another.
LookedUp ==
    /\ pc = "create" => svc[focus].st = "absent"
    /\ pc \in {"oldTasks", "update"} =>
          \/ found = focus /\ Accepts(focus, seen[focus])
          \/ found # focus /\ Ambiguous
    /\ pc = "failed" => Ambiguous

Untroubled == Calm => Intact /\ Clearing /\ Cleared /\ LookedUp

LEMMA UntroubledInit == ASSUME Init PROVE Untroubled
BY DEF Init, Untroubled, Intact, Clearing, Cleared, LookedUp, Deploying, NoService

LEMMA BumpsGrow == ASSUME Types, Next, bumps' = 0 PROVE bumps = 0
<1> USE DEF cluster
<1>1. bumps \in Nat
  BY DeployerAssumption DEF Types, TypeOK
<1>2. CASE Snapshot \/ Keep \/ StartRollback \/ Finished
  BY <1>2 DEF Snapshot, SnapshotServices, SnapshotDone, SnapshotTasks, Keep,
     StartRollback, Finished, vars
<1>3. CASE Deploy
  BY <1>3 DEF Deploy, Obsolete, ListObsolete, ObsoleteMarked, ObsoleteRemoved,
     RemoveObsolete, AwaitRemoval, Prepare, FindService, ListOldTasks,
     UpdateService, ListNewTasks, CreateService, InspectService, DeployReturns
<1>4. CASE Rollback
  BY <1>4 DEF Rollback, ListCurrent, NewRemoved, AllRestored, ListAll, AllRemoved,
     RemoveNew, Restore, RemoveOfAll
<1>5. ASSUME NEW s \in Services,
             Disappear(s) \/ CreateTasks(s) \/ Bump(s) \/ ForeignWrite(s)
      PROVE  bumps = 0
  BY <1>1, <1>5 DEF Disappear, CreateTasks, Bump, ForeignWrite
<1>6. CASE ContextEnds \/ RollbackContextEnds
  BY <1>6 DEF ContextEnds, RollbackContextEnds
<1> QED
  BY <1>2, <1>3, <1>4, <1>5, <1>6 DEF Next, Process, World, Orchestrator

LEMMA CalmBefore == ASSUME Types, Next, Calm' PROVE Calm
BY InputsStay, FaultsGrow, ContextsEnd, BumpsGrow DEF Calm

\* In a calm deployment no call fails.
LEMMA CalmCalls ==
    ASSUME Types, Calm, Calm'
    PROVE  ~Fails(ctx) /\ ~Faults
BY DEF Calm, Fails, Faults, Types, TypeOK

LEMMA UntroubledObsolete ==
    ASSUME Types, Initial, Untroubled, Obsolete, Calm'
    PROVE  Untroubled'
<1> USE DEF inputs, cluster, Deploying
<1>1. Calm /\ ~Fails(ctx) /\ ~Faults /\ UNCHANGED <<desired, initial>>
  BY CalmBefore, CalmCalls, InputsStay DEF Next, Process, Deploy
<1>2. /\ svc \in [Services -> Service] /\ todo \subseteq Services
      /\ desired \subseteq Services
      /\ Intact /\ Clearing /\ Cleared
      /\ \A s \in initial \cap desired : svc[s].st = "present"
  BY <1>1 DEF Types, TypeOK, Untroubled, Initial, KeptServicesSurvive
<1>3. CASE ListObsolete
  <2>1. /\ pc = "obsolete" /\ svc' = svc /\ seen' = svc /\ todo' = Listing \ desired
        /\ pc' = IF todo' = {} THEN "images" ELSE "removeObsolete"
    BY <1>1, <1>3 DEF ListObsolete
  <2>2. pc' \in {"images", "removeObsolete"}
    BY <2>1
  <2>3. Clearing'
    BY <1>2, <2>1, <2>2 DEF Clearing, Intact, Listing, Exists
  <2>4. Cleared'
    BY <1>1, <1>2, <2>1, <2>2 DEF Cleared, Intact, Listing, Exists
  <2> QED
    BY <2>2, <2>3, <2>4 DEF Untroubled, Intact, LookedUp
<1>4. ASSUME NEW s \in Services, RemoveObsolete(s) PROVE Untroubled'
  <2>1. /\ pc = "removeObsolete" /\ pc' = pc /\ s \in todo /\ s \notin desired
        /\ Remove(s) /\ todo' = todo \ {s} /\ seen' = seen
    BY <1>1, <1>2, <1>4 DEF RemoveObsolete, Types, Clearing, Exists
  <2>2. /\ Exists(svc[s]) /\ Exists(svc'[s]) /\ svc'[s].id = svc[s].id
        /\ \A u \in Services \ {s} : svc'[u] = svc[u]
    BY <1>2, <2>1, RemoveMoves DEF Clearing, Exists
  <2>3. Clearing'
    BY <1>1, <1>2, <2>1, <2>2 DEF Clearing, Exists
  <2>4. Cleared'
    BY <1>1, <1>2, <2>1, <2>2 DEF Cleared
  <2> QED
    BY <2>1, <2>3, <2>4 DEF Untroubled, Intact, LookedUp
<1>5. CASE ObsoleteMarked
  <2>1. /\ pc = "removeObsolete" /\ pc' = "awaitRemoval" /\ svc' = svc /\ seen' = seen
        /\ todo' = {s \in Services : Exists(seen[s])} \ desired
    BY <1>5 DEF ObsoleteMarked
  <2> QED
    BY <1>1, <1>2, <2>1 DEF Untroubled, Intact, Clearing, Cleared, LookedUp
<1>6. ASSUME NEW s \in Services, AwaitRemoval(s) PROVE Untroubled'
  <2>1. /\ pc = "awaitRemoval" /\ pc' = pc /\ s \in todo /\ s \notin desired
        /\ ~Same(svc[s], seen[s]) /\ todo' = todo \ {s} /\ seen' = seen /\ svc' = svc
    BY <1>1, <1>6 DEF AwaitRemoval, Types, Calm
  <2>2. ~Exists(svc[s])
    BY <1>2, <2>1 DEF Clearing, Same
  <2> QED
    BY <1>1, <1>2, <2>1, <2>2 DEF Untroubled, Intact, Clearing, Cleared, LookedUp
<1>7. CASE ObsoleteRemoved
  <2>1. pc = "awaitRemoval" /\ todo = {} /\ pc' = "images" /\ svc' = svc
    BY <1>7 DEF ObsoleteRemoved
  <2> QED
    BY <1>1, <1>2, <2>1
       DEF Untroubled, Intact, Clearing, Cleared, LookedUp, Exists
<1> QED
  BY <1>3, <1>4, <1>5, <1>6, <1>7, ClusterMoves DEF Obsolete

LEMMA UntroubledDeploy ==
    ASSUME Types, Initial, Untroubled, Deploy, Calm'
    PROVE  Untroubled'
<1> USE DEF inputs, cluster, Deploying
<1>1. Calm /\ ~Fails(ctx) /\ ~Faults /\ UNCHANGED <<desired, initial>>
  BY CalmBefore, CalmCalls, InputsStay DEF Next, Process
<1>2. /\ svc \in [Services -> Service] /\ seen \in [Services -> Service]
      /\ desired \subseteq Services /\ initial \subseteq Services
      /\ Cleared /\ LookedUp
      /\ \A s \in initial \cap desired : svc[s].st = "present"
      /\ pc \in Deploying => todo \subseteq desired
  BY <1>1 DEF Types, TypeOK, Untroubled, Initial, KeptServicesSurvive
<1>3. CASE Prepare
  <2>1. /\ pc \in {"images", "networks", "volumes"} /\ svc' = svc
        /\ pc' \in {"networks", "volumes", "services"}
        /\ pc' = "services" => pc = "volumes"
    BY <1>1, <1>3 DEF Prepare
  <2>2. Cleared'
    BY <1>1, <1>2, <2>1 DEF Cleared
  <2> QED
    BY <2>1, <2>2 DEF Untroubled, Intact, Clearing, LookedUp
<1>4. ASSUME NEW s \in Services, FindService(s) PROVE Untroubled'
  <2>1. /\ pc = "services" /\ s \in desired /\ focus' = s /\ Found(s, Matches(s))
        /\ svc' = svc
    BY <1>1, <1>2, <1>4 DEF FindService
  <2>2. pc' \in {"oldTasks", "create"}
    BY <2>1 DEF Found
  <2>3. Cleared'
    BY <1>1, <1>2, <2>1, <2>2 DEF Cleared
  <2>4. LookedUp'
    <3>1. CASE pc' = "create"
      <4>1. Matches(s) = {}
        BY <2>1, <3>1 DEF Found
      <4> QED
        BY <2>1, <3>1, <4>1 DEF LookedUp, Matches, Exists
    <3>2. CASE pc' = "oldTasks"
      <4>1. PICK f \in Matches(s) :
                found' = f /\ seen' = [seen EXCEPT ![f] = svc[f]]
        BY <2>1, <3>2 DEF Found
      <4>2. CASE Exists(svc[s])
        <5>1. f = s /\ seen'[s] = svc[s] /\ svc[s].st = "present"
          <6>1. f = s
            BY <4>1, <4>2 DEF Matches
          <6>2. svc[s].st \in {"present", "removing", "absent"}
            BY <1>2 DEF Service
          <6> QED
            BY <1>2, <2>1, <4>1, <4>2, <6>1, <6>2 DEF Cleared, Exists
        <5> QED
          BY <2>1, <3>2, <4>1, <5>1 DEF LookedUp, Accepts
      <4>3. CASE ~Exists(svc[s])
        <5>1. f \in Longer[s] /\ f \in Services /\ Exists(svc[f]) /\ f # s
          BY <4>1, <4>3, DeployerAssumption DEF Matches
        <5>2. f \in desired /\ s \notin initial
          BY <1>2, <2>1, <4>3, <5>1 DEF Cleared, Exists
        <5>3. Ambiguous'
          BY <1>1, <2>1, <5>1, <5>2 DEF Ambiguous
        <5> QED
          BY <2>1, <3>2, <4>1, <5>1, <5>3 DEF LookedUp
      <4> QED
        BY <4>2, <4>3
    <3> QED
      BY <2>2, <3>1, <3>2
  <2> QED
    BY <2>2, <2>3, <2>4 DEF Untroubled, Intact, Clearing
<1>5. CASE ListOldTasks
  <2>1. /\ pc = "oldTasks" /\ pc' = "update"
        /\ UNCHANGED <<svc, seen, focus, found>>
    BY <1>1, <1>5 DEF ListOldTasks, RetryTaskList
  <2> QED
    BY <1>1, <1>2, <2>1
       DEF Untroubled, Intact, Clearing, Cleared, LookedUp, Ambiguous, Accepts
<1>6. CASE UpdateService
  <2>1. pc = "update" /\ pc' \in {"newTasks", "failed"}
    BY <1>6 DEF UpdateService
  <2>2. CASE svc' = svc /\ pc' = "failed"
    <3>1. ~(found = focus /\ Accepts(found, seen[found]))
      BY <1>1, <1>6, <2>2 DEF UpdateService, Calm
    <3>2. Ambiguous'
      BY <1>1, <1>2, <2>1, <3>1 DEF LookedUp, Ambiguous
    <3> QED
      BY <2>2, <3>2 DEF Untroubled, Intact, Clearing, Cleared, LookedUp
  <2>3. CASE /\ found = focus /\ Accepts(focus, seen[focus]) /\ focus \in Services
             /\ svc'[focus].st = "present"
             /\ \A u \in Services \ {focus} : svc'[u] = svc[u]
    <3>1. pc' = "newTasks"
      BY <1>1, <1>6, <2>3 DEF UpdateService, Calm
    <3>2. focus \in desired
      BY <2>1 DEF Types
    <3> QED
      BY <1>1, <1>2, <2>1, <2>3, <3>1, <3>2
         DEF Untroubled, Intact, Clearing, Cleared, LookedUp
  <2> QED
    BY <1>6, <2>2, <2>3, UpdateMoves
<1>7. CASE ListNewTasks \/ InspectService \/ DeployReturns
  <2>1. /\ pc \in Deploying /\ pc' \in {"services", "inspect", "deployed"}
        /\ svc' = svc
    BY <1>1, <1>7 DEF ListNewTasks, RetryTaskList, InspectService, DeployReturns
  <2> QED
    BY <1>1, <1>2, <2>1 DEF Untroubled, Intact, Clearing, Cleared, LookedUp
<1>8. CASE CreateService
  <2>1. pc = "create" /\ svc[focus].st = "absent" /\ focus \in desired
    BY <1>2, <1>8 DEF CreateService, LookedUp, Types
  <2>2. pc' = "inspect"
    BY <1>1, <1>8, <2>1 DEF CreateService, Exists
  <2>3. /\ svc'[focus].st = "present"
        /\ \A u \in Services \ {focus} : svc'[u] = svc[u]
    BY <1>8, <2>2, CreateServiceMoves
  <2> QED
    BY <1>1, <1>2, <2>1, <2>2, <2>3
       DEF Untroubled, Intact, Clearing, Cleared, LookedUp
<1> QED
  BY <1>3, <1>4, <1>5, <1>6, <1>7, <1>8, UntroubledObsolete DEF Deploy

LEMMA UntroubledNext ==
    ASSUME Types, Initial, Untroubled, [Next]_vars
    PROVE  Untroubled'
<1> USE DEF inputs, cluster, locals, ctxs
<1>1. CASE UNCHANGED vars \/ Finished
  BY <1>1 DEF Finished, vars, Untroubled, Calm, Intact, Clearing, Cleared, LookedUp,
     Ambiguous, Accepts
<1>2. SUFFICES ASSUME Next, ~Finished, Calm' PROVE Untroubled'
  BY <1>1 DEF Untroubled
<1>3. Calm /\ ~Fails(ctx) /\ ~Faults /\ UNCHANGED <<desired, initial>>
  BY <1>2, CalmBefore, CalmCalls, InputsStay
<1>4. CASE Snapshot
  <2>1. /\ pc \in {"snapshot", "snapshotTasks"} /\ svc' = svc
        /\ pc' \in {"snapshotTasks", "obsolete"}
    BY <1>3, <1>4 DEF Snapshot, SnapshotServices, SnapshotDone, SnapshotTasks
  <2> QED
    BY <1>3, <2>1 DEF Untroubled, Intact, Clearing, Cleared, LookedUp, Deploying
<1>5. CASE Keep \/ StartRollback
  BY <1>5 DEF Keep, StartRollback, Untroubled, Intact, Clearing, Cleared, LookedUp,
     Deploying
<1>6. CASE Rollback
  BY <1>6 DEF Rollback, ListCurrent, NewRemoved, AllRestored, ListAll, AllRemoved,
     RemoveNew, Restore, RemoveOfAll, Untroubled, Intact, Clearing, Cleared,
     LookedUp, Deploying
<1>7. CASE World
  <2>1. ASSUME NEW s \in Services, Disappear(s) \/ CreateTasks(s)
        PROVE  Untroubled'
    <3>1. /\ UNCHANGED locals /\ svc \in [Services -> Service]
          /\ desired \subseteq Services /\ focus \in Services \cup {None}
          /\ pc \in {"oldTasks", "update", "create"} => focus \in Services
      BY <2>1 DEF Disappear, CreateTasks, Types, TypeOK, Deploying
    <3>2. CASE UNCHANGED svc
      BY <1>3, <3>1, <3>2 DEF Untroubled, Intact, Clearing, Cleared, LookedUp,
         Ambiguous, Accepts
    <3>3. CASE Disappear(s)
      <4>1. /\ svc[s].st = "removing" /\ svc'[s].st = "absent"
            /\ svc'[s].id = svc[s].id
            /\ \A u \in Services \ {s} : svc'[u] = svc[u]
        BY <3>1, <3>3, DisappearMoves
      <4>2. Intact /\ Clearing /\ Cleared /\ LookedUp
        BY <1>3 DEF Untroubled
      <4>3. Intact' /\ Cleared'
        BY <1>3, <3>1, <4>1, <4>2 DEF Intact, Cleared
      <4>4. Clearing'
        BY <1>3, <3>1, <4>1, <4>2 DEF Clearing, Exists
      <4>5. LookedUp'
        BY <1>3, <3>1, <4>1, <4>2 DEF LookedUp, Ambiguous, Accepts
      <4> QED
        BY <4>3, <4>4, <4>5 DEF Untroubled
    <3> QED
      BY <2>1, <3>2, <3>3 DEF CreateTasks
  <2>2. ~ContextEnds
    BY <1>2 DEF ContextEnds, Calm
  <2>3. CASE RollbackContextEnds
    BY <1>3, <2>3 DEF RollbackContextEnds, Untroubled, Intact, Clearing, Cleared,
       LookedUp, Ambiguous, Accepts
  <2>4. ASSUME NEW s \in Services PROVE ~Bump(s) /\ ~ForeignWrite(s)
    BY <1>2, <1>3, DeployerAssumption DEF Bump, ForeignWrite, Calm
  <2> QED
    BY <1>7, <2>1, <2>2, <2>3, <2>4 DEF World, Orchestrator
<1> QED
  BY <1>2, <1>4, <1>5, <1>6, <1>7, UntroubledDeploy DEF Next, Process

-----------------------------------------------------------------------------
(***************************************************************************)
(* Theorems.                                                               *)
(***************************************************************************)
IInv == Types /\ Listed /\ Initial /\ Undoing /\ Untroubled

\* The inductive invariant of CreateSnapshot, Deploy and Rollback holds in every
\* reachable state.
THEOREM DeployerInvariance == Spec => []IInv
<1>1. Init => IInv
  BY TypesInit, ListedInit, InitialInit, UndoingInit, UntroubledInit DEF IInv
<1>2. IInv /\ [Next]_vars => IInv'
  BY TypesNext, ListedNext, InitialNext, UndoingNext, UntroubledNext DEF IInv
<1> QED
  BY <1>1, <1>2, PTL DEF Spec

\* Types; only services of the compose file are ever reported as updated, and no
\* TaskList is tried more often than MaxRetries.
THEOREM DeployerTypes == Spec => []TypeOK
<1>1. IInv => TypeOK
  BY DEF IInv, Types
<1> QED
  BY <1>1, DeployerInvariance, PTL

\* Whatever fails, neither removeObsoleteServices nor Rollback removes a service
\* that was there and is in the compose file, and Deploy never creates it anew.
THEOREM KeptServicesAreSafe == Spec => []KeptServicesSurvive
<1>1. IInv => KeptServicesSurvive
  BY DEF IInv, Initial
<1> QED
  BY <1>1, DeployerInvariance, PTL

\* A Rollback that returns nil has put back what it promises.
THEOREM RollbackPutsBack == Spec => []RollbackUndoes
<1>1. ASSUME IInv PROVE RollbackUndoes
  <2>1. SUFFICES ASSUME pc = "rolledBack" PROVE RollbackUndoes
    BY DEF RollbackUndoes
  <2>2. desired \subseteq Services /\ AsFound(snap) /\ Undoing
    BY <1>1, <2>1 DEF IInv, Types, TypeOK, Initial
  <2>3. ASSUME NEW s \in desired \ foreign, Exists(snap[s])
        PROVE  svc[s].spec = snap[s].spec
    <3>1. s \in initial
      BY <2>2, <2>3 DEF AsFound, Exists
    <3> QED
      BY <2>1, <2>2, <3>1 DEF Undoing
  <2>4. ASSUME Clean, NEW s \in desired, ~Exists(snap[s])
        PROVE  svc[s].st # "present"
    BY <2>1, <2>2, <2>4 DEF Undoing, New
  <2> QED
    BY <2>3, <2>4 DEF RollbackUndoes, Clean
<1> QED
  BY <1>1, DeployerInvariance, PTL

\* A Deploy that fails was disturbed, or deploys a service whose name begins the
\* name of another.
THEOREM DeploymentsFailForCause == Spec => []FailsForCause
<1>1. IInv => FailsForCause
  BY DEF IInv, Untroubled, Calm, LookedUp, Ambiguous, FailsForCause
<1> QED
  BY <1>1, DeployerInvariance, PTL

\* UpdateService and Restore overwrite what they have listed and nothing later.
THEOREM WritesAreOfWhatWasListed == Spec => NoLostUpdate
<1> DEFINE Step ==
        \A s \in Services :
            svc[s].st = "present" /\ svc'[s].spec # svc[s].spec
               /\ pc \in {"update", "restore"} /\ foreign' = foreign
            => svc[s].spec = seen[s].spec
<1>1. IInv /\ [Next]_vars => [Step]_vars
  BY NoWriteIsLost DEF IInv
<1>2. []IInv /\ [][Next]_vars => [][Step]_vars
  BY <1>1, PTL
<1> QED
  BY <1>2, DeployerInvariance, PTL DEF Spec, NoLostUpdate

-----------------------------------------------------------------------------
(***************************************************************************)
(* Refinement.  The proof adds to the invariant that what the loop over    *)
(* the services has visited is new (Renewed), and that the rollback of a   *)
(* stack that was there before removes none of its services (Spared).      *)
(***************************************************************************)
\* The services of the file the deployment has dealt with are new.
Renewed ==
    /\ pc \in Deploying =>
          \A s \in desired \ (todo \cup foreign) : specs[s] = "new"
    /\ pc \in {"newTasks", "inspect"} => focus \in foreign \/ specs[focus] = "new"
    /\ pc = "newTasks" => found = focus
    /\ pc = "deployed" => \A s \in desired \ foreign : specs[s] = "new"

\* A service found at the start is not made anew but by others, and so the
\* rollback does not take it for a new one.
Spared ==
    /\ \A s \in initial \ foreign : svc[s].id = 1
    /\ pc = "removeNew" => todo \cap initial \subseteq foreign

TInv == IInv /\ Renewed /\ Spared

-----------------------------------------------------------------------------
LEMMA SpecsAre ==
    ASSUME NEW s \in Services
    PROVE  /\ specs[s] = IF svc[s].st = "present" THEN svc[s].spec ELSE "none"
           /\ specs'[s] = IF svc'[s].st = "present" THEN svc'[s].spec ELSE "none"
BY DEF specs

LEMMA TypesOf ==
    ASSUME IInv
    PROVE  /\ Types /\ Initial /\ svc \in [Services -> Service]
           /\ desired \subseteq Services /\ initial \subseteq Services
           /\ todo \subseteq Services
BY DEF IInv, Types, TypeOK

\* A step of the orchestrator or of another client leaves the specs of services
\* that are there alone, but for the one it writes.
LEMMA WorldSpecs ==
    ASSUME IInv, World
    PROVE  /\ UNCHANGED <<desired, initial, locals>>
           /\ \A s \in Services \ foreign' : specs'[s] = specs[s]
           /\ \/ specs' = specs /\ foreign' = foreign
              \/ \E s \in Services :
                    /\ specs' = [specs EXCEPT ![s] = "foreign"]
                    /\ foreign' = foreign \cup {s}
<1>1. UNCHANGED <<desired, initial, locals>>
  BY InputsStay DEF Next, World, Orchestrator, ContextEnds, RollbackContextEnds,
     Disappear, CreateTasks, Bump, ForeignWrite, locals
<1> DEFINE Goal ==
        /\ \A s \in Services \ foreign' : specs'[s] = specs[s]
        /\ \/ specs' = specs /\ foreign' = foreign
           \/ \E s \in Services :
                 /\ specs' = [specs EXCEPT ![s] = "foreign"]
                 /\ foreign' = foreign \cup {s}
<1>2. ASSUME UNCHANGED <<svc, foreign>> PROVE Goal
  BY <1>2 DEF specs
<1>3. ASSUME NEW s \in Services, Disappear(s) PROVE Goal
  <2>1. foreign' = foreign
    BY <1>3 DEF Disappear
  <2>2. specs' = specs
    BY <1>3, TypesOf, DisappearMoves DEF specs
  <2> QED
    BY <2>1, <2>2
<1>4. ASSUME NEW s \in Services, Bump(s) PROVE Goal
  <2>1. foreign' = foreign
    BY <1>4 DEF Bump
  <2>2. specs' = specs
    BY <1>4, TypesOf, BumpMoves DEF specs
  <2> QED
    BY <2>1, <2>2
<1>5. ASSUME NEW s \in Services, ForeignWrite(s) PROVE Goal
  <2>1. svc'[s].st = "present" /\ foreign' = foreign \cup {s}
        /\ \A u \in Services \ {s} : svc'[u] = svc[u]
    BY <1>5, TypesOf, ForeignMoves
  <2>2. svc'[s].spec = "foreign"
    BY <1>5, TypesOf, WriteMoves, CreateMoves DEF ForeignWrite, Exists, Specs
  <2>3. specs' = [specs EXCEPT ![s] = "foreign"]
    BY <2>1, <2>2 DEF specs
  <2> QED
    BY <2>1, <2>3 DEF specs
<1>6. ASSUME ContextEnds \/ RollbackContextEnds PROVE Goal
  BY <1>2, <1>6 DEF ContextEnds, RollbackContextEnds, cluster
<1>7. ASSUME NEW s \in Services, CreateTasks(s) PROVE Goal
  BY <1>2, <1>7 DEF CreateTasks
<1>8. Goal
  <2> HIDE DEF Goal
  <2> QED
    BY <1>3, <1>4, <1>5, <1>6, <1>7 DEF World, Orchestrator
<1> QED
  BY <1>1, <1>8

-----------------------------------------------------------------------------
LEMMA TInit == ASSUME Init PROVE TInv
<1>1. IInv
  BY TypesInit, ListedInit, InitialInit, UndoingInit, UntroubledInit DEF IInv
<1> QED
  BY <1>1 DEF Init, TInv, Renewed, Spared, Deploying

LEMMA RenewedDeploy == ASSUME TInv, Deploy PROVE Renewed'
<1> USE DEF inputs, cluster
<1>1. /\ UNCHANGED <<desired, initial>> /\ svc \in [Services -> Service]
      /\ desired \subseteq Services /\ Types /\ Renewed
      /\ pc \in Deploying => todo \subseteq desired
      /\ foreign \subseteq foreign'
  BY TypesOf, InputsStay DEF TInv, Next, Process, Types
<1>2. CASE Obsolete
  BY <1>2 DEF Obsolete, ListObsolete, ObsoleteMarked, ObsoleteRemoved,
     RemoveObsolete, AwaitRemoval, Renewed, Deploying
<1>3. CASE Prepare
  BY <1>1, <1>3 DEF Prepare, Renewed, Deploying
<1>4. ASSUME NEW s \in Services, FindService(s) PROVE Renewed'
  <2>1. /\ pc = "services" /\ pc' \in {"oldTasks", "create", "failed"}
        /\ UNCHANGED <<svc, foreign, todo>>
    BY <1>4 DEF FindService, Found
  <2> QED
    BY <1>1, <2>1 DEF Renewed, Deploying, specs
<1>5. CASE ListOldTasks
  <2>1. /\ pc = "oldTasks" /\ pc' \in {"oldTasks", "update", "failed"}
        /\ UNCHANGED <<svc, foreign, todo>>
    BY <1>5 DEF ListOldTasks, RetryTaskList
  <2> QED
    BY <1>1, <2>1 DEF Renewed, Deploying, specs
<1>6. CASE UpdateService \/ CreateService
  <2>1. /\ pc \in {"update", "create"} /\ pc' \in {"newTasks", "inspect", "failed"}
        /\ pc = "create" => pc' # "newTasks"
        /\ UNCHANGED <<foreign, todo, focus, found>>
    BY <1>6 DEF UpdateService, CreateService
  <2>2. CASE pc' = "failed"
    BY <2>2 DEF Renewed, Deploying
  <2>3. CASE /\ focus \in Services
             /\ svc'[focus].spec = "new" /\ svc'[focus].st = "present"
             /\ \A u \in Services \ {focus} : svc'[u] = svc[u]
             /\ pc = "update" => found = focus
    <3>1. specs'[focus] = "new" /\ \A u \in Services \ {focus} : specs'[u] = specs[u]
      BY <2>3 DEF specs
    <3> QED
      BY <1>1, <2>1, <2>3, <3>1 DEF Renewed, Deploying
  <2> QED
    BY <1>1, <1>6, <2>1, <2>2, <2>3, UpdateMoves, CreateServiceMoves
       DEF CreateService
<1>7. CASE ListNewTasks \/ InspectService
  <2>1. /\ pc \in {"newTasks", "inspect"} /\ UNCHANGED <<svc, foreign, focus, found>>
        /\ \/ pc' = "failed"
           \/ pc' \in {"newTasks", "inspect"} /\ UNCHANGED todo
              /\ (pc' = "newTasks" => pc = "newTasks")
           \/ pc' = "services" /\ todo' = todo \ {focus}
    BY <1>7 DEF ListNewTasks, RetryTaskList, InspectService
  <2> QED
    BY <1>1, <2>1 DEF Renewed, Deploying, specs
<1>8. CASE DeployReturns
  BY <1>1, <1>8 DEF DeployReturns, Renewed, Deploying, specs
<1> QED
  BY <1>2, <1>3, <1>4, <1>5, <1>6, <1>7, <1>8 DEF Deploy

LEMMA RenewedNext == ASSUME TInv, [Next]_vars PROVE Renewed'
<1>1. CASE UNCHANGED vars \/ Finished
  BY <1>1 DEF Finished, vars, inputs, cluster, locals, TInv, Renewed, specs
<1>2. CASE World
  <2>1. \A s \in Services \ foreign' : specs'[s] = specs[s]
    BY <1>2, WorldSpecs DEF TInv
  <2>2. /\ UNCHANGED locals /\ desired' = desired /\ foreign \subseteq foreign'
        /\ desired \subseteq Services
        /\ pc \in {"newTasks", "inspect"} => focus \in Services
    BY <1>2, WorldSpecs, InputsStay, TypesOf DEF TInv, Next, Types, Deploying
  <2> QED
    BY <2>1, <2>2 DEF TInv, Renewed, locals
<1>3. CASE Snapshot \/ Keep \/ StartRollback
  BY <1>3 DEF Snapshot, SnapshotServices, SnapshotDone, SnapshotTasks, Keep,
     StartRollback, Renewed, Deploying
<1>4. CASE Rollback
  BY <1>4 DEF Rollback, ListCurrent, NewRemoved, AllRestored, ListAll, AllRemoved,
     RemoveNew, Restore, RemoveOfAll, Renewed, Deploying
<1> QED
  BY <1>1, <1>2, <1>3, <1>4, RenewedDeploy DEF Next, Process

\* A service gets a new identity when it is created, by this apply or another.
LEMMA OnlyCreationRenews ==
    ASSUME Types, Next, NEW s \in Services, s \notin foreign'
    PROVE  \/ svc'[s].id = svc[s].id
           \/ CreateService /\ s = focus /\ svc[s].st # "present"
<1> DEFINE Keeps == svc'[s].id = svc[s].id
           Goal == Keeps \/ (CreateService /\ s = focus /\ svc[s].st # "present")
<1>1. svc \in [Services -> Service] /\ s \notin foreign
  BY InputsStay DEF Types, TypeOK
<1>2. ASSUME UNCHANGED svc PROVE Keeps
  BY <1>2
<1>3. ASSUME NEW u \in Services,
             RemoveObsolete(u) \/ RemoveNew(u) \/ RemoveOfAll(u)
      PROVE  Keeps
  <2>1. svc' = svc \/ Remove(u)
    BY <1>3 DEF RemoveObsolete, RemoveNew, RemoveOfAll
  <2>2. ASSUME Remove(u) PROVE Keeps
    BY <1>1, <2>2 DEF Remove, Service
  <2> QED
    BY <1>2, <2>1, <2>2
<1>4. ASSUME Snapshot \/ Keep \/ StartRollback \/ Finished PROVE Keeps
  BY <1>2, <1>4 DEF Snapshot, SnapshotServices, SnapshotDone, SnapshotTasks, Keep,
     StartRollback, Finished, vars, cluster
<1>5. ASSUME Deploy PROVE Goal
  <2>1. ASSUME UpdateService PROVE Keeps
    BY <1>2, <2>1, UpdateMoves
  <2>2. ASSUME CreateService PROVE Goal
    BY <1>2, <2>2, CreateServiceMoves DEF Exists
  <2> QED
    BY <1>2, <1>3, <1>5, <2>1, <2>2 DEF Deploy, Obsolete, ListObsolete,
       ObsoleteMarked, ObsoleteRemoved, AwaitRemoval, Prepare, FindService,
       ListOldTasks, ListNewTasks, InspectService, DeployReturns, cluster
<1>6. ASSUME Rollback PROVE Keeps
  <2>1. ASSUME NEW u \in Services, Restore(u) PROVE Keeps
    BY <1>2, <2>1, RestoreMoves
  <2> QED
    BY <1>2, <1>3, <1>6, <2>1 DEF Rollback, ListCurrent, NewRemoved, AllRestored,
       ListAll, AllRemoved, cluster
<1>7. ASSUME World PROVE Keeps
  <2>1. ASSUME NEW u \in Services,
               Disappear(u) \/ CreateTasks(u) \/ Bump(u) \/ ForeignWrite(u)
        PROVE  Keeps
    BY <1>1, <2>1, DisappearMoves, BumpMoves, ForeignMoves DEF CreateTasks
  <2> QED
    BY <1>2, <1>7, <2>1 DEF World, Orchestrator, ContextEnds, RollbackContextEnds,
       cluster
<1> QED
  BY <1>4, <1>5, <1>6, <1>7 DEF Next, Process

LEMMA SparedNext == ASSUME TInv, [Next]_vars PROVE Spared'
<1>1. CASE UNCHANGED vars
  BY <1>1 DEF vars, inputs, cluster, locals, TInv, Spared
<1>2. CASE Next
  <2>1. /\ UNCHANGED initial /\ foreign \subseteq foreign'
        /\ svc \in [Services -> Service] /\ initial \subseteq Services
        /\ Types /\ Initial /\ Spared
    BY InputsStay, TypesOf DEF TInv
  <2>2. ASSUME NEW s \in initial \ foreign' PROVE svc'[s].id = 1
    <3>1. svc[s].id = 1 /\ s \in Services
      BY <2>1, <2>2 DEF Spared
    <3>2. CASE CreateService /\ s = focus /\ svc[s].st # "present"
      BY <2>1, <3>2 DEF CreateService, Types, Deploying, Initial, KeptServicesSurvive
    <3> QED
      BY <1>2, <2>1, <2>2, <3>1, <3>2, OnlyCreationRenews
  <2>3. pc' = "removeNew" => todo' \cap initial \subseteq foreign'
    <3>1. CASE ListCurrent
      <4>1. AsFound(snap)
        BY <2>1, <3>1 DEF ListCurrent, Initial
      <4>2. \A s \in Listing : ~Same(svc[s], snap[s]) /\ s \in initial => s \in foreign
        BY <2>1, <4>1 DEF AsFound, Same, Exists, Listing, Spared
      <4> QED
        BY <2>1, <3>1, <4>2 DEF ListCurrent
    <3>2. CASE World \/ Finished
      BY <2>1, <3>2 DEF World, Orchestrator, ContextEnds, RollbackContextEnds,
         Disappear, CreateTasks, Bump, ForeignWrite, locals, Finished, vars, Spared
    <3>3. ASSUME NEW s \in Services, RemoveNew(s)
          PROVE  todo' \cap initial \subseteq foreign'
      BY <2>1, <3>3 DEF RemoveNew, Spared
    <3>4. CASE Snapshot \/ Keep \/ StartRollback
      BY <3>4 DEF Snapshot, SnapshotServices, SnapshotDone, SnapshotTasks, Keep,
         StartRollback
    <3>5. CASE Deploy
      BY <3>5 DEF Deploy, Obsolete, ListObsolete, ObsoleteMarked, ObsoleteRemoved,
         RemoveObsolete, AwaitRemoval, Prepare, FindService, Found, ListOldTasks,
         RetryTaskList, UpdateService, ListNewTasks, CreateService,
         InspectService, DeployReturns
    <3>6. CASE Rollback
      BY <3>1, <3>3, <3>6 DEF Rollback, NewRemoved, AllRestored, ListAll,
         AllRemoved, Restore, RemoveOfAll
    <3> QED
      BY <1>2, <3>2, <3>4, <3>5, <3>6 DEF Next, Process
  <2> QED
    BY <2>1, <2>2, <2>3 DEF Spared
<1> QED
  BY <1>1, <1>2

LEMMA TransactionInvariance == Spec => []TInv
<1>1. IInv /\ [Next]_vars => IInv'
  BY TypesNext, ListedNext, InitialNext, UndoingNext, UntroubledNext DEF IInv
<1>2. TInv /\ [Next]_vars => TInv'
  BY <1>1, RenewedNext, SparedNext DEF TInv
<1> QED
  BY <1>2, TInit, PTL DEF Spec

\* The loop of deployServices lets go of a service only once it has reported it,
\* or when the update of that very service brought no task.
LEMMA LetGo ==
    ASSUME TInv, Next, pc \in Deploying, NEW s \in todo \ todo'
    PROVE  s \in updated' \/ (pc = "newTasks" /\ ctx /\ tasks[s] = oldTasks)
<1>1. pc = "newTasks" => found = focus
  BY DEF TInv, Renewed
<1>2. CASE Deploy
  <2>1. CASE ListNewTasks
    BY <1>1, <2>1 DEF ListNewTasks, Answers
  <2>2. CASE InspectService
    BY <2>2 DEF InspectService
  <2>3. ~ListNewTasks /\ ~InspectService => todo' = todo
    BY <1>2 DEF Deploying, Deploy, Obsolete, ListObsolete, ObsoleteMarked,
       ObsoleteRemoved, RemoveObsolete, AwaitRemoval, Prepare, FindService,
       ListOldTasks, UpdateService, CreateService, DeployReturns
  <2> QED
    BY <2>1, <2>2, <2>3
<1>3. CASE Snapshot \/ Keep \/ StartRollback \/ Rollback \/ Finished
  BY <1>3 DEF Deploying, Snapshot, SnapshotServices, SnapshotDone, SnapshotTasks,
     Keep, StartRollback, Rollback, ListCurrent, NewRemoved, AllRestored, ListAll,
     AllRemoved, RemoveNew, Restore, RemoveOfAll, Finished, Finals
<1>4. CASE World
  BY <1>4 DEF World, Orchestrator, ContextEnds, RollbackContextEnds, Disappear,
     CreateTasks, Bump, ForeignWrite, locals
<1> QED
  BY <1>2, <1>3, <1>4 DEF Next, Process

\* No service is changed and then left out of the result because a call failed or
\* because the lookup had found another (deployService, GetServiceTasks): the
\* gates see every changed service whose update has brought a task.
THEOREM ChangesAreReported == Spec => NoneUnreported
<1> DEFINE Step ==
        \A s \in todo \ todo' :
          pc \in {"services", "oldTasks", "update", "newTasks", "create", "inspect"} =>
              \/ s \in updated'
              \/ pc = "newTasks" /\ ctx /\ tasks[s] = oldTasks
<1>1. TInv /\ [Next]_vars => [Step]_vars
  BY LetGo DEF Deploying
<1>2. []TInv /\ [][Next]_vars => [][Step]_vars
  BY <1>1, PTL
<1> QED
  BY <1>2, TransactionInvariance, PTL DEF Spec, NoneUnreported

-----------------------------------------------------------------------------
(***************************************************************************)
(* The steps of the deployer are steps of the transaction.                 *)
(***************************************************************************)
TxnStep == [Txn!Next]_(Txn!vars)

LEMMA InitIsTxnInit == ASSUME Init PROVE Txn!Init
<1>1. phase = "open"
  BY DEF Init, phase
<1>2. specs = [s \in Services |-> IF s \in initial THEN "old" ELSE "none"]
  BY DEF Init, specs, NoService
<1> QED
  BY <1>1, <1>2 DEF Init, Txn!Init

\* How a step is recognized: nothing shows, the specs stay, or one changes.
LEMMA Stutters ==
    ASSUME UNCHANGED <<desired, initial, foreign, specs, phase>>
    PROVE  TxnStep
BY DEF TxnStep, Txn!vars

LEMMA GivesUp ==
    ASSUME UNCHANGED <<desired, initial, foreign, specs>>,
           phase \in {"open", "undoing"}, phase' = "half"
    PROVE  TxnStep
BY DEF TxnStep, Txn!Next, Txn!GiveUp

LEMMA Deploys ==
    ASSUME NEW s \in desired, s \in Services, UNCHANGED <<desired, initial, foreign>>,
           phase = "open", phase' \in {"open", "half"},
           specs' = [specs EXCEPT ![s] = "new"]
    PROVE  TxnStep
BY DEF TxnStep, Txn!Next, Txn!Deploy, Txn!DeployAndStop, Txn!SetSpec

LEMMA Drops ==
    ASSUME NEW s \in Services \ desired, UNCHANGED <<desired, initial, foreign>>,
           phase = "open", phase' \in {"open", "half"},
           specs' = [specs EXCEPT ![s] = "none"]
    PROVE  TxnStep
BY DEF TxnStep, Txn!Next, Txn!Drop, Txn!DropAndStop, Txn!SetSpec

LEMMA Undoes ==
    ASSUME NEW s \in Services, NEW value \in Specs,
           UNCHANGED <<desired, initial, foreign>>,
           phase = "undoing", phase' \in {"undoing", "half"},
           specs' = [specs EXCEPT ![s] = value],
           s \in foreign \/ value = IF s \in initial THEN "old" ELSE "none"
    PROVE  TxnStep
<1>1. CASE s \notin foreign
  <2>1. Txn!Undo(s)
    BY <1>1 DEF Txn!Undo, Txn!SetSpec
  <2> QED
    BY <2>1 DEF TxnStep, Txn!Next
<1>2. CASE s \in foreign
  <2>1. Txn!Foreign(s)
    BY <1>2 DEF Txn!Foreign, Specs
  <2> QED
    BY <2>1 DEF TxnStep, Txn!Next
<1> QED
  BY <1>1, <1>2

LEMMA StepsOfWorld == ASSUME TInv, World PROVE TxnStep
<1>1. UNCHANGED <<desired, initial, phase>>
  BY WorldSpecs DEF TInv, phase, locals
<1>2. CASE specs' = specs /\ foreign' = foreign
  BY <1>1, <1>2, Stutters
<1>3. ASSUME NEW s \in Services, specs' = [specs EXCEPT ![s] = "foreign"],
             foreign' = foreign \cup {s}
      PROVE  TxnStep
  <2>1. Txn!Foreign(s)
    BY <1>1, <1>3 DEF Txn!Foreign
  <2> QED
    BY <2>1 DEF TxnStep, Txn!Next
<1> QED
  BY <1>2, <1>3, WorldSpecs DEF TInv

LEMMA StepsOfSnapshot ==
    ASSUME Snapshot \/ Keep \/ StartRollback, TInv
    PROVE  TxnStep
<1>1. UNCHANGED <<desired, initial, foreign, specs>>
  BY DEF Snapshot, SnapshotServices, SnapshotDone, SnapshotTasks, Keep,
     StartRollback, inputs, cluster, specs
<1>2. CASE Snapshot
  <2>1. /\ pc \in {"snapshot", "snapshotTasks"}
        /\ pc' \in {"snapshotTasks", "obsolete", "blocked"}
    BY <1>2 DEF Snapshot, SnapshotServices, SnapshotDone, SnapshotTasks
  <2>2. phase = "open" /\ phase' \in {"open", "half"}
    BY <2>1 DEF phase
  <2> QED
    BY <1>1, <2>2, Stutters, GivesUp
<1>3. CASE Keep \/ StartRollback
  <2>1. /\ pc = "deployed" /\ \A s \in desired \ foreign : specs[s] = "new"
        /\ pc' \in {"kept", "listAll", "rollback"}
    BY <1>3 DEF Keep, StartRollback, TInv, Renewed
  <2>2. phase = "open" /\ phase' \in {"kept", "undoing"}
    BY <2>1 DEF phase
  <2> QED
    BY <1>1, <2>1, <2>2 DEF TxnStep, Txn!Next, Txn!Keep, Txn!BeginUndo
<1> QED
  BY <1>2, <1>3

\* Removing or writing a service sets one spec.
LEMMA RemoveSets ==
    ASSUME svc \in [Services -> Service], NEW s \in Services, Remove(s)
    PROVE  specs' = [specs EXCEPT ![s] = "none"]
<1>1. svc'[s].st # "present" /\ \A u \in Services \ {s} : svc'[u] = svc[u]
  BY RemoveMoves
<1> QED
  BY <1>1 DEF specs

LEMMA WriteSets ==
    ASSUME NEW s \in Services, NEW value,
           svc'[s].spec = value, svc'[s].st = "present",
           \A u \in Services \ {s} : svc'[u] = svc[u]
    PROVE  specs' = [specs EXCEPT ![s] = value]
BY DEF specs

LEMMA StepsOfDeploy == ASSUME TInv, Deploy PROVE TxnStep
<1>1. /\ UNCHANGED <<desired, initial, foreign>> /\ Types
      /\ svc \in [Services -> Service] /\ desired \subseteq Services
  BY TypesOf DEF TInv, Deploy, Obsolete, ListObsolete, ObsoleteMarked,
     ObsoleteRemoved, RemoveObsolete, AwaitRemoval, Prepare, FindService,
     ListOldTasks, UpdateService, ListNewTasks, CreateService, InspectService,
     DeployReturns, inputs, cluster
<1>2. /\ pc \in {"obsolete", "removeObsolete", "awaitRemoval", "images", "networks",
                 "volumes"} \cup Deploying
      /\ pc' \in {"removeObsolete", "awaitRemoval", "images", "networks", "volumes",
                  "deployed", "failed"} \cup Deploying
  BY DEF Deploy, Obsolete, ListObsolete, ObsoleteMarked, ObsoleteRemoved,
     RemoveObsolete, AwaitRemoval, Prepare, FindService, Found, ListOldTasks,
     RetryTaskList, UpdateService, ListNewTasks, CreateService, InspectService,
     DeployReturns, Deploying
<1>3. phase = "open" /\ phase' \in {"open", "half"}
  BY <1>2 DEF phase, Deploying
<1>4. ASSUME UNCHANGED svc PROVE TxnStep
  <2>1. UNCHANGED specs
    BY <1>4 DEF specs
  <2> QED
    BY <1>1, <1>3, <2>1, Stutters, GivesUp
<1>5. ASSUME NEW s \in Services, RemoveObsolete(s) PROVE TxnStep
  <2>1. s \notin desired /\ (svc' = svc \/ Remove(s))
    BY <1>1, <1>5 DEF RemoveObsolete, Types
  <2> QED
    BY <1>1, <1>3, <1>4, <2>1, RemoveSets, Drops
<1>6. ASSUME UpdateService \/ CreateService PROVE TxnStep
  <2>1. focus \in desired
    BY <1>1, <1>6 DEF UpdateService, CreateService, Types, Deploying
  <2>2. ASSUME svc'[focus].spec = "new", svc'[focus].st = "present",
               \A u \in Services \ {focus} : svc'[u] = svc[u]
        PROVE  TxnStep
    <3>1. specs' = [specs EXCEPT ![focus] = "new"]
      BY <1>1, <2>1, <2>2, WriteSets
    <3> QED
      BY <1>1, <1>3, <2>1, <3>1, Deploys
  <2> QED
    BY <1>1, <1>4, <1>6, <2>2, UpdateMoves, CreateServiceMoves
<1> QED
  BY <1>4, <1>5, <1>6 DEF Deploy, Obsolete, ListObsolete, ObsoleteMarked,
     ObsoleteRemoved, AwaitRemoval, Prepare, FindService, ListOldTasks,
     ListNewTasks, InspectService, DeployReturns, cluster

\* What Rollback writes where nobody else has: the old spec of a service that was
\* there, and removal of one that was not.
LEMMA StepsOfRollback == ASSUME TInv, Rollback PROVE TxnStep
<1>1. /\ UNCHANGED <<desired, initial, foreign>> /\ Types /\ Initial /\ Undoing
      /\ svc \in [Services -> Service] /\ desired \subseteq Services
  BY TypesOf DEF TInv, IInv, Rollback, ListCurrent, NewRemoved, AllRestored, ListAll,
     AllRemoved, RemoveNew, Restore, RemoveOfAll, inputs, cluster
<1>2. /\ pc \in {"rollback", "removeNew", "restore", "listAll", "removeAll"}
      /\ pc' \in {"removeNew", "restore", "removeAll", "rolledBack",
                  "rollbackFailed"}
  BY DEF Rollback, ListCurrent, NewRemoved, AllRestored, ListAll, AllRemoved,
     RemoveNew, Restore, RemoveOfAll
<1>3. /\ phase = "undoing" /\ phase' \in {"undoing", "undone", "half"}
      /\ phase' = "undone" <=> pc' = "rolledBack"
  BY <1>2 DEF phase
<1>4. AsFound(snap) /\ (pc \in {"listAll", "removeAll"} => initial = {})
  BY <1>1, <1>2 DEF Initial, IsFirstDeploy, AsFound, Exists, Types, TypeOK
<1>5. ASSUME UNCHANGED svc, pc' # "rolledBack" PROVE TxnStep
  <2>1. UNCHANGED specs
    BY <1>5 DEF specs
  <2> QED
    BY <1>1, <1>3, <1>5, <2>1, Stutters, GivesUp
<1>6. ASSUME UNCHANGED svc, pc' = "rolledBack",
             \A s \in (desired \cap initial) \ foreign : specs[s] = "old"
      PROVE  TxnStep
  <2>1. UNCHANGED specs
    BY <1>6 DEF specs
  <2> QED
    BY <1>1, <1>3, <1>6, <2>1 DEF TxnStep, Txn!Next, Txn!Undone
<1>7. ASSUME NEW s \in Services, RemoveNew(s) \/ RemoveOfAll(s) PROVE TxnStep
  <2>1. /\ s \in todo /\ pc' = pc /\ pc \in {"removeNew", "removeAll"}
        /\ svc' = svc \/ Remove(s)
    BY <1>7 DEF RemoveNew, RemoveOfAll
  <2>2. s \in foreign \/ s \notin initial
    BY <1>4, <2>1 DEF TInv, Spared
  <2>3. ASSUME Remove(s) PROVE TxnStep
    <3>1. specs' = [specs EXCEPT ![s] = "none"] /\ "none" \in Specs
      BY <1>1, <2>3, RemoveSets DEF Specs
    <3>2. phase' \in {"undoing", "half"}
      BY <1>3, <2>1
    <3> QED
      BY <1>1, <1>3, <2>2, <3>1, <3>2, Undoes
  <2> QED
    BY <1>5, <2>1, <2>3
<1>8. ASSUME NEW s \in Services, Restore(s) PROVE TxnStep
  <2>1. ASSUME Same(seen[s], snap[s]), svc'[s].spec = snap[s].spec,
               svc'[s].st = "present", pc' \in {"restore", "rollbackFailed"},
               \A u \in Services \ {s} : svc'[u] = svc[u]
        PROVE  TxnStep
    <3>1. specs' = [specs EXCEPT ![s] = snap[s].spec]
      BY <2>1, WriteSets
    <3>2. snap[s].spec \in Specs
      BY <1>1 DEF Types, TypeOK, Service
    <3>3. s \in foreign \/ (s \in initial /\ snap[s].spec = "old")
      BY <1>4, <2>1 DEF AsFound, Same, Exists
    <3>4. phase' \in {"undoing", "half"}
      BY <1>3, <2>1
    <3> QED
      BY <1>1, <1>3, <3>1, <3>2, <3>3, <3>4, Undoes
  <2> QED
    BY <1>1, <1>5, <1>8, <2>1, RestoreMoves
<1>9. CASE AllRestored
  <2>1. \A s \in (desired \cap initial) \ foreign : specs[s] = "old"
    BY <1>1, <1>4, <1>9
       DEF AllRestored, Undoing, Initial, KeptServicesSurvive, AsFound, specs
  <2> QED
    BY <1>6, <1>9, <2>1 DEF AllRestored, cluster
<1>10. CASE ListCurrent \/ NewRemoved
  BY <1>5, <1>10 DEF ListCurrent, NewRemoved, cluster
<1>11. CASE ListAll \/ AllRemoved
  BY <1>4, <1>5, <1>6, <1>11 DEF ListAll, AllRemoved, cluster
<1> QED
  BY <1>7, <1>8, <1>9, <1>10, <1>11 DEF Rollback

\* CreateSnapshot, Deploy and Rollback are a transaction over the services of the
\* stack, whatever else is going on in the cluster: all of the compose file is
\* new, or what it found of it is back, or a call has failed.
THEOREM DeploymentIsTransaction == Spec => ImplementsTxn
<1>1. ASSUME TInv, [Next]_vars PROVE TxnStep
  <2>1. CASE UNCHANGED vars \/ Finished
    <3>1. UNCHANGED <<desired, initial, foreign, specs, phase>>
      BY <2>1 DEF Finished, vars, inputs, cluster, locals, specs, phase
    <3> QED
      BY <3>1, Stutters
  <2> QED
    BY <1>1, <2>1, StepsOfSnapshot, StepsOfDeploy, StepsOfRollback, StepsOfWorld
       DEF Next, Process
<1>2. TInv /\ [Next]_vars => [Txn!Next]_(Txn!vars)
  BY <1>1 DEF TxnStep
<1> QED
  BY InitIsTxnInit, <1>2, TransactionInvariance, PTL
     DEF Spec, ImplementsTxn, Txn!Spec

-----------------------------------------------------------------------------
(***************************************************************************)
(* What the transaction promises, and so the deployer.                     *)
(***************************************************************************)

\* Where each service can be, and where all are at the two good ends.
Outcome ==
    /\ \A s \in desired \ foreign :
          specs[s] \in {"new", IF s \in initial THEN "old" ELSE "none"}
    /\ phase = "kept" => \A s \in desired \ foreign : specs[s] = "new"
    /\ phase = "undone" =>
          \A s \in (desired \cap initial) \ foreign : specs[s] = "old"

OutcomeInv ==
    /\ specs \in [Services -> Specs] /\ desired \subseteq Services
    /\ Outcome

\* One service goes to a spec it may have, in a phase that has not ended.
LEMMA SetSpecKeeps ==
    ASSUME OutcomeInv, NEW s \in Services, NEW value \in Specs, Txn!SetSpec(s, value),
           phase' \notin {"kept", "undone"},
           s \in desired \ foreign =>
               value \in {"new", IF s \in initial THEN "old" ELSE "none"}
    PROVE  OutcomeInv'
BY DEF Txn!SetSpec, OutcomeInv, Outcome

LEMMA OutcomeNext == ASSUME OutcomeInv, TxnStep PROVE OutcomeInv'
<1> USE DEF OutcomeInv
<1>1. {"none", "old", "new", "foreign"} = Specs
  BY DEF Specs
<1>2. CASE UNCHANGED Txn!vars
  BY <1>2 DEF Txn!vars, Outcome
<1>3. ASSUME NEW s \in Services,
             Txn!Deploy(s) \/ Txn!DeployAndStop(s) \/ Txn!Drop(s) \/ Txn!DropAndStop(s)
      PROVE  OutcomeInv'
  BY <1>1, <1>3, SetSpecKeeps DEF Txn!Deploy, Txn!DeployAndStop, Txn!Drop,
     Txn!DropAndStop
<1>4. ASSUME NEW s \in Services, Txn!Undo(s), phase' \in {"undoing", "half"}
      PROVE  OutcomeInv'
  <2> DEFINE value == IF s \in initial THEN "old" ELSE "none"
  <2>1. value \in Specs /\ Txn!SetSpec(s, value)
    BY <1>1, <1>4 DEF Txn!Undo
  <2> QED
    BY <1>4, <2>1, SetSpecKeeps
<1>5. ASSUME NEW s \in Services, Txn!Foreign(s) PROVE OutcomeInv'
  <2>1. PICK value \in Specs : specs' = [specs EXCEPT ![s] = value]
    BY <1>1, <1>5 DEF Txn!Foreign
  <2>2. /\ foreign' = foreign \cup {s} /\ UNCHANGED <<desired, initial>>
        /\ phase' = phase \/ phase' = "half"
    BY <1>5 DEF Txn!Foreign
  <2>3. /\ specs' \in [Services -> Specs]
        /\ \A u \in Services \ {s} : specs'[u] = specs[u]
    BY <2>1
  <2> QED
    BY <2>2, <2>3 DEF Outcome
<1>6. CASE Txn!Keep \/ Txn!BeginUndo \/ Txn!Undone \/ Txn!GiveUp
  <2>1. /\ UNCHANGED <<desired, initial, specs, foreign>>
        /\ phase' = "kept" => \A s \in desired \ foreign : specs[s] = "new"
        /\ phase' = "undone" =>
              \A s \in (desired \cap initial) \ foreign : specs[s] = "old"
    BY <1>6 DEF Txn!Keep, Txn!BeginUndo, Txn!Undone, Txn!GiveUp
  <2> QED
    BY <2>1 DEF Outcome
<1> QED
  BY <1>2, <1>3, <1>4, <1>5, <1>6 DEF TxnStep, Txn!Next

\* Proved of the abstract specification alone: whatever implements it, and the
\* deployer does, leaves each service of the compose file with the new spec or
\* with what it had, all new when the deployment is kept, and all that were there
\* old again when it is undone; only what others wrote is excepted.
THEOREM TransactionOutcome == ImplementsTxn => []Outcome
<1>1. Txn!Init => OutcomeInv
  BY DEF Txn!Init, OutcomeInv, Outcome, Specs
<1>2. OutcomeInv /\ [Txn!Next]_(Txn!vars) => OutcomeInv'
  BY OutcomeNext DEF TxnStep
<1>3. OutcomeInv => Outcome
  BY DEF OutcomeInv
<1> QED
  BY <1>1, <1>2, <1>3, PTL DEF ImplementsTxn, Txn!Spec

\* Hence for CreateSnapshot, Deploy and Rollback.
THEOREM DeploymentOutcome == Spec => []Outcome
  BY DeploymentIsTransaction, TransactionOutcome, PTL

-----------------------------------------------------------------------------
(***************************************************************************)
(* What no rollback brings back.                                           *)
(***************************************************************************)

\* The steps after the loop that removes the services the file does not name.
AfterRemoval ==
    {"awaitRemoval", "images", "networks", "volumes", "deployed", "kept", "rollback",
     "removeNew", "restore", "listAll", "removeAll", "rolledBack", "rollbackFailed"}
        \cup Deploying

Obsoletes == Services \ (desired \cup foreign)

Swept ==
    /\ pc \in AfterRemoval => \A s \in Obsoletes : svc[s].st # "present"
    /\ pc = "removeObsolete" =>
          \A s \in Obsoletes : s \in todo \/ svc[s].st # "present"

CInv == IInv /\ Swept

\* Only a creation makes a service present, and the deployer creates none that
\* the file does not name.
LEMMA GoneStays ==
    ASSUME Types, Next, NEW s \in Services \ (desired \cup foreign'),
           svc[s].st # "present"
    PROVE  svc'[s].st # "present"
<1> DEFINE Goal == svc'[s].st # "present"
<1>1. svc \in [Services -> Service] /\ s \notin foreign /\ s \in Services
  BY InputsStay DEF Types, TypeOK
<1>2. ASSUME UNCHANGED svc PROVE Goal
  BY <1>2
<1>3. ASSUME NEW u \in Services,
             RemoveObsolete(u) \/ RemoveNew(u) \/ RemoveOfAll(u)
      PROVE  Goal
  <2>1. svc' = svc \/ Remove(u)
    BY <1>3 DEF RemoveObsolete, RemoveNew, RemoveOfAll
  <2> QED
    BY <1>1, <1>2, <2>1, RemoveMoves
<1>4. ASSUME Snapshot \/ Keep \/ StartRollback \/ Finished PROVE Goal
  BY <1>2, <1>4 DEF Snapshot, SnapshotServices, SnapshotDone, SnapshotTasks, Keep,
     StartRollback, Finished, vars, cluster
<1>5. ASSUME Deploy PROVE Goal
  <2>1. ASSUME UpdateService PROVE Goal
    BY <1>1, <1>2, <2>1, UpdateMoves DEF Accepts
  <2>2. ASSUME CreateService PROVE Goal
    <3>1. focus \in desired
      BY <2>2 DEF CreateService, Types, Deploying
    <3> QED
      BY <1>1, <1>2, <2>2, <3>1, CreateServiceMoves
  <2> QED
    BY <1>2, <1>3, <1>5, <2>1, <2>2 DEF Deploy, Obsolete, ListObsolete,
       ObsoleteMarked, ObsoleteRemoved, AwaitRemoval, Prepare, FindService,
       ListOldTasks, ListNewTasks, InspectService, DeployReturns, cluster
<1>6. ASSUME Rollback PROVE Goal
  <2>1. ASSUME NEW u \in Services, Restore(u) PROVE Goal
    BY <1>1, <1>2, <2>1, RestoreMoves DEF Accepts
  <2> QED
    BY <1>2, <1>3, <1>6, <2>1 DEF Rollback, ListCurrent, NewRemoved, AllRestored,
       ListAll, AllRemoved, cluster
<1>7. ASSUME World PROVE Goal
  <2>1. ASSUME NEW u \in Services, Disappear(u) \/ Bump(u) \/ CreateTasks(u) PROVE Goal
    BY <1>1, <1>2, <2>1, DisappearMoves, BumpMoves DEF CreateTasks
  <2>2. ASSUME NEW u \in Services, ForeignWrite(u) PROVE Goal
    <3>1. u # s
      BY <2>2 DEF ForeignWrite
    <3> QED
      BY <1>1, <2>2, <3>1, ForeignMoves
  <2> QED
    BY <1>2, <1>7, <2>1, <2>2 DEF World, Orchestrator, ContextEnds,
       RollbackContextEnds, cluster
<1> QED
  BY <1>4, <1>5, <1>6, <1>7 DEF Next, Process

LEMMA SweptNext == ASSUME Types, Swept, [Next]_vars PROVE Swept'
<1>1. CASE UNCHANGED vars
  BY <1>1 DEF vars, inputs, cluster, locals, Swept, Obsoletes
<1>2. CASE Next
  <2>1. /\ Obsoletes' \subseteq Obsoletes
        /\ \A s \in Obsoletes' : svc[s].st # "present" => svc'[s].st # "present"
    BY <1>2, InputsStay, GoneStays DEF Obsoletes
  <2>2. CASE ListObsolete
    <3>1. /\ pc' \in {"failed", "removeObsolete", "images"} /\ svc' = svc
          /\ pc' # "failed" => todo' = Listing \ desired
          /\ pc' = "images" => todo' = {}
      BY <2>2 DEF ListObsolete, cluster
    <3>2. \A s \in Obsoletes : svc[s].st = "present" => s \in Listing \ desired
      BY DEF Obsoletes, Listing, Exists
    <3> QED
      BY <2>1, <3>1, <3>2 DEF Swept, AfterRemoval, Deploying
  <2>3. ASSUME NEW u \in Services, RemoveObsolete(u) PROVE Swept'
    <3>1. /\ pc = "removeObsolete" /\ pc' \in {"removeObsolete", "failed"}
          /\ pc' = "removeObsolete" => todo' = todo \ {u} /\ Remove(u)
      BY <2>3 DEF RemoveObsolete
    <3>2. pc' = "removeObsolete" => svc'[u].st # "present"
      BY <3>1, RemoveMoves DEF Types, TypeOK
    <3> QED
      BY <2>1, <3>1, <3>2 DEF Swept, AfterRemoval, Deploying
  <2>4. CASE ObsoleteMarked
    BY <2>1, <2>4 DEF ObsoleteMarked, Swept, AfterRemoval, Deploying
  <2>5. ASSUME pc \in AfterRemoval, pc' # "removeObsolete" PROVE Swept'
    BY <2>1, <2>5 DEF Swept
  <2>6. ASSUME pc \notin AfterRemoval, pc' \notin AfterRemoval,
               pc' = "removeObsolete" => UNCHANGED <<pc, todo>>
        PROVE  Swept'
    BY <2>1, <2>6 DEF Swept
  <2>7. CASE Snapshot \/ Keep \/ StartRollback
    BY <2>5, <2>6, <2>7 DEF Snapshot, SnapshotServices, SnapshotDone, SnapshotTasks,
       Keep, StartRollback, AfterRemoval, Deploying
  <2>8. CASE Deploy
    BY <2>2, <2>3, <2>4, <2>5, <2>8 DEF Deploy, Obsolete, ObsoleteRemoved, AwaitRemoval,
       Prepare, FindService, Found, ListOldTasks, RetryTaskList, UpdateService,
       ListNewTasks, CreateService, InspectService, DeployReturns, AfterRemoval,
       Deploying
  <2>9. CASE Rollback
    BY <2>5, <2>9 DEF Rollback, ListCurrent, NewRemoved, AllRestored, ListAll,
       AllRemoved, RemoveNew, Restore, RemoveOfAll, AfterRemoval
  <2>10. CASE World \/ Finished
    <3>1. UNCHANGED <<pc, todo>>
      BY <2>10 DEF World, Orchestrator, ContextEnds, RollbackContextEnds, Disappear,
         CreateTasks, Bump, ForeignWrite, Finished, vars, locals
    <3> QED
      BY <2>1, <3>1 DEF Swept
  <2> QED
    BY <1>2, <2>7, <2>8, <2>9, <2>10 DEF Next, Process
<1> QED
  BY <1>1, <1>2

LEMMA SweptInvariance == Spec => []CInv
<1>1. Init => Swept
  BY DEF Init, Swept, AfterRemoval, Deploying
<1>2. IInv /\ Swept /\ [Next]_vars => Swept'
  BY SweptNext DEF IInv
<1> QED
  BY <1>1, <1>2, DeployerInvariance, PTL DEF Spec, CInv

\* A service of the stack that the compose file does not name is gone when the
\* deployment is kept, with or without --prune, and it is still gone when a
\* rollback ends, even one that reports success, although the snapshot holds its
\* spec (removeObsoleteServices; Rollback restores what still exists).
ObsoleteStaysGone ==
    pc \in {"kept", "rolledBack", "rollbackFailed"} =>
        \A s \in initial \ (desired \cup foreign) :
            Exists(snap[s]) /\ snap[s].spec = "old" /\ svc[s].st # "present"

THEOREM RemovedForGood == Spec => []ObsoleteStaysGone
<1>1. ASSUME CInv PROVE ObsoleteStaysGone
  <2> SUFFICES ASSUME pc \in {"kept", "rolledBack", "rollbackFailed"},
                      NEW s \in initial \ (desired \cup foreign)
               PROVE  Exists(snap[s]) /\ snap[s].spec = "old" /\ svc[s].st # "present"
    BY DEF ObsoleteStaysGone
  <2>1. AsFound(snap) /\ s \in Services /\ pc \in AfterRemoval
    BY <1>1 DEF CInv, IInv, Types, TypeOK, Initial, AfterRemoval
  <2> QED
    BY <1>1, <2>1 DEF CInv, Swept, Obsoletes, AsFound, Exists
<1> QED
  BY <1>1, SweptInvariance, PTL
=============================================================================
