------------------------------ MODULE Resources ------------------------------
(***************************************************************************)
(* What Deploy does before and with the services, as far as it concerns    *)
(* images, networks and volumes: internal/swarm/stack.go, images.go,       *)
(* networks.go, volumes.go and the network of a service in services.go.    *)
(*                                                                         *)
(* Several applies of one stack are under way at once (two pipelines, say, *)
(* or an operator and a pipeline).  Nothing locks the stack: each looks for*)
(* a network and, in a second call, creates it, while the others do the    *)
(* same.  An apply that failed may be repeated, from the beginning, as the *)
(* program keeps nothing.  Other users of the cluster remove networks that *)
(* no service uses.                                                        *)
(***************************************************************************)
EXTENDS Naturals

CONSTANTS
    Applies,      \* applies of the stack
    Services,     \* the services of the stack
    Networks,     \* networks a compose file may declare
    Default,      \* <stack>_default, which a file may declare by name too
    Volumes,      \* volumes a compose file may declare
    Files,        \* the compose files in use
    MaxFaults,    \* bound on API calls that fail
    MaxRemovals   \* bound on networks removed by others

AllNetworks == Networks \cup {Default}
Names == Services \cup AllNetworks \cup Volumes
Nothing == "nothing"
Nobody == "nobody"

\* A compose file: what it declares, and the services without "networks:".
File == [networks : SUBSET Networks, volumes : SUBSET Volumes,
         plain : SUBSET Services]

ASSUME ResourcesAssumption ==
    /\ Files \subseteq File
    /\ Nobody \notin Applies
    /\ MaxFaults \in Nat /\ MaxRemovals \in Nat

VARIABLES
    file,       \* per apply: its compose file
    networks,   \* the networks of the stack that exist
    volumes,    \* the named volumes of the stack that exist
    attached,   \* per service: the networks its spec names
    pc,         \* per apply: where it is
    todo,       \* per apply: what its loop has still to visit
    item,       \* per apply: the network or volume it is about to create
    why,        \* per apply: why it failed
    maker,      \* per network: the apply that created it
    blind,      \* per apply: the last inspection of a network failed
    lost,       \* per apply: networks removed since it began
    faults,     \* failed calls so far
    removals    \* networks removed so far

cluster == <<networks, volumes, attached>>
apply == <<pc, todo, item, why>>
notes == <<maker, blind, lost>>
vars == <<file, cluster, apply, notes, faults, removals>>

Init ==
    /\ file \in [Applies -> Files]
    /\ networks \in SUBSET AllNetworks
    /\ volumes \in SUBSET Volumes
    /\ attached \in [Services -> SUBSET (networks \cap {Default})]
    /\ pc = [a \in Applies |-> "images"]
    /\ todo = [a \in Applies |-> Services]
    /\ item = [a \in Applies |-> Nothing]
    /\ why = [a \in Applies |-> "none"]
    /\ maker = [n \in AllNetworks |-> Nobody]
    /\ blind = [a \in Applies |-> FALSE]
    /\ lost = [a \in Applies |-> {}]
    /\ faults = 0 /\ removals = 0

Fault == faults < MaxFaults /\ faults' = faults + 1

\* The loop of a goes on with the names it has not visited.
Visited(a, x) == todo' = [todo EXCEPT ![a] = @ \ {x}]

\* Fault: a stage does not wait for the one before.
EnterAtOnce(a, stage, names) ==
    /\ pc' = [pc EXCEPT ![a] = stage]
    /\ todo' = [todo EXCEPT ![a] = @ \cup names]
    /\ UNCHANGED <<file, cluster, item, why, notes, faults, removals>>

\* The next stage of Deploy, over the given names.
Enter(a, stage, names) ==
    /\ todo[a] = {}
    /\ pc' = [pc EXCEPT ![a] = stage]
    /\ todo' = [todo EXCEPT ![a] = names]
    /\ UNCHANGED <<file, cluster, item, why, notes, faults, removals>>

\* Deploy returns the error.
Fail(a, reason) ==
    /\ pc' = [pc EXCEPT ![a] = "failed"]
    /\ why' = [why EXCEPT ![a] = reason]
    /\ UNCHANGED <<todo, item>>

-----------------------------------------------------------------------------
(***************************************************************************)
(* pullImages.                                                             *)
(***************************************************************************)

\* A service without an image is skipped, which is a pull that succeeds.
PullImage(a, s) ==
    /\ pc[a] = "images" /\ s \in todo[a]
    /\ \/ Visited(a, s) /\ UNCHANGED <<pc, item, why, faults>>
       \/ Fault /\ Fail(a, "call")
    /\ UNCHANGED <<file, cluster, notes, removals>>

-----------------------------------------------------------------------------
(***************************************************************************)
(* createNetworks and ensureDefaultNetwork.                                *)
(***************************************************************************)

\* Fault: the default network is left to the compose file.
DeclaredOnly(a) == file[a].networks

\* The default network is looked after only by a file that declares none.
Wanted(a) == IF file[a].networks = {} THEN {Default} ELSE file[a].networks

\* Fault: the inspection asks for another name than the one created.
InspectOtherName(a, n) ==
    /\ pc[a] = "networks" /\ n \in todo[a]
    /\ pc' = [pc EXCEPT ![a] = "create"] /\ item' = [item EXCEPT ![a] = n]
    /\ blind' = [blind EXCEPT ![a] = FALSE]
    /\ UNCHANGED <<file, cluster, todo, why, maker, lost, faults, removals>>

\* Any error of the inspection is taken to mean that there is no such network.
InspectNetwork(a, n) ==
    /\ pc[a] = "networks" /\ n \in todo[a]
    /\ \/ /\ n \in networks
          /\ Visited(a, n)
          /\ UNCHANGED <<pc, item, blind, faults>>
       \/ /\ \/ n \notin networks /\ UNCHANGED faults
                                  /\ blind' = [blind EXCEPT ![a] = FALSE]
             \/ Fault /\ blind' = [blind EXCEPT ![a] = TRUE]
          /\ pc' = [pc EXCEPT ![a] = "create"] /\ item' = [item EXCEPT ![a] = n]
          /\ UNCHANGED todo
    /\ UNCHANGED <<file, cluster, why, maker, lost, removals>>

\* The cluster has a new network.
Made(a, n) ==
    /\ networks' = networks \cup {n}
    /\ maker' = [maker EXCEPT ![n] = a]

\* Fault: a failed creation is only a warning.
CreateNetworkOrWarn(a) ==
    /\ pc[a] = "create"
    /\ pc' = [pc EXCEPT ![a] = "networks"] /\ Visited(a, item[a])
    /\ \/ item[a] \notin networks /\ Made(a, item[a]) /\ UNCHANGED faults
       \/ item[a] \in networks /\ UNCHANGED <<networks, maker, faults>>
       \/ Fault /\ UNCHANGED <<networks, maker>>
    /\ UNCHANGED <<file, volumes, attached, item, why, blind, lost, removals>>

\* A name that is taken is refused.  A call may fail after it took effect.
CreateNetwork(a) ==
    /\ pc[a] = "create"
    /\ \/ /\ item[a] \notin networks /\ Made(a, item[a])
          /\ pc' = [pc EXCEPT ![a] = "networks"] /\ Visited(a, item[a])
          /\ UNCHANGED <<item, why, faults>>
       \/ /\ item[a] \in networks /\ Fail(a, "exists")
          /\ UNCHANGED <<networks, maker, faults>>
       \/ /\ Fault /\ Fail(a, "call")
          /\ \/ item[a] \notin networks /\ Made(a, item[a])
             \/ UNCHANGED <<networks, maker>>
    /\ UNCHANGED <<file, volumes, attached, blind, lost, removals>>

-----------------------------------------------------------------------------
(***************************************************************************)
(* createVolumes.                                                          *)
(***************************************************************************)
InspectVolume(a, v) ==
    /\ pc[a] = "volumes" /\ v \in todo[a]
    /\ \/ v \in volumes /\ Visited(a, v) /\ UNCHANGED <<pc, item, faults>>
       \/ /\ (v \notin volumes /\ UNCHANGED faults) \/ Fault
          /\ pc' = [pc EXCEPT ![a] = "make"] /\ item' = [item EXCEPT ![a] = v]
          /\ UNCHANGED todo
    /\ UNCHANGED <<file, cluster, why, notes, removals>>

\* The options carry no name: the daemon makes one up, and no volume of the
\* stack comes into being.
CreateVolume(a) ==
    /\ pc[a] = "make"
    /\ \/ /\ pc' = [pc EXCEPT ![a] = "volumes"] /\ Visited(a, item[a])
          /\ UNCHANGED <<item, why, faults>>
       \/ Fault /\ Fail(a, "call")
    /\ UNCHANGED <<file, cluster, notes, removals>>

-----------------------------------------------------------------------------
(***************************************************************************)
(* deployServices, as far as networks go.  The converter makes nothing of  *)
(* the networks a service lists; one that lists none gets the default one. *)
(***************************************************************************)
NetworksOf(a, s) == IF s \in file[a].plain THEN {Default} ELSE {}

\* The manager refuses a spec that names a network it does not know.
DeployService(a, s) ==
    /\ pc[a] = "services" /\ s \in todo[a]
    /\ LET Write == /\ NetworksOf(a, s) \subseteq networks
                    /\ attached' = [attached EXCEPT ![s] = NetworksOf(a, s)]
       IN \/ Write /\ Visited(a, s) /\ UNCHANGED <<pc, item, why, faults>>
          \/ /\ ~(NetworksOf(a, s) \subseteq networks) /\ Fail(a, "missing")
             /\ UNCHANGED <<attached, faults>>
          \/ Fault /\ Fail(a, "call") /\ (Write \/ UNCHANGED attached)
    /\ UNCHANGED <<file, networks, volumes, notes, removals>>

\* The stages of Deploy, each after the loop of the one before.
NextStage(a) ==
    \/ pc[a] = "images" /\ Enter(a, "networks", Wanted(a))
    \/ pc[a] = "networks" /\ Enter(a, "volumes", file[a].volumes)
    \/ pc[a] = "volumes" /\ Enter(a, "services", Services)
    \/ pc[a] = "services" /\ Enter(a, "done", {})

-----------------------------------------------------------------------------
\* A failed apply is repeated with the same file.
Repeat(a) ==
    /\ pc[a] = "failed"
    /\ pc' = [pc EXCEPT ![a] = "images"] /\ todo' = [todo EXCEPT ![a] = Services]
    /\ item' = [item EXCEPT ![a] = Nothing] /\ why' = [why EXCEPT ![a] = "none"]
    /\ blind' = [blind EXCEPT ![a] = FALSE] /\ lost' = [lost EXCEPT ![a] = {}]
    /\ UNCHANGED <<file, cluster, maker, faults, removals>>

\* The cluster does not let go of a network that a service uses.
RemoveNetwork(n) ==
    /\ removals < MaxRemovals /\ removals' = removals + 1
    /\ n \in networks \ UNION {attached[s] : s \in Services}
    /\ networks' = networks \ {n}
    /\ maker' = [maker EXCEPT ![n] = Nobody]
    /\ lost' = [a \in Applies |-> lost[a] \cup {n}]
    /\ UNCHANGED <<file, volumes, attached, apply, blind, faults>>

ApplyStep(a) ==
    \/ \E s \in todo[a] : PullImage(a, s) \/ DeployService(a, s)
    \/ \E n \in todo[a] : InspectNetwork(a, n)
    \/ \E v \in todo[a] : InspectVolume(a, v)
    \/ CreateNetwork(a) \/ CreateVolume(a)
    \/ NextStage(a) \/ Repeat(a)

\* Every apply has succeeded.
Finished == (\A a \in Applies : pc[a] = "done") /\ UNCHANGED vars

Next ==
    \/ \E a \in Applies : ApplyStep(a)
    \/ \E n \in AllNetworks : RemoveNetwork(n)
    \/ Finished

Spec == Init /\ [][Next]_vars

\* Calls are answered, and whoever runs a failed apply repeats it.
FairSpec == Spec /\ \A a \in Applies : WF_vars(ApplyStep(a))

-----------------------------------------------------------------------------
(***************************************************************************)
(* Properties.                                                             *)
(***************************************************************************)

\* Types; each stage visits names of its own kind and ends with none left, and
\* a network in use exists.
TypeOK ==
    /\ file \in [Applies -> Files]
    /\ networks \subseteq AllNetworks /\ volumes \subseteq Volumes
    /\ attached \in [Services -> SUBSET networks]
    /\ pc \in [Applies -> {"images", "networks", "create", "volumes", "make",
                           "services", "done", "failed"}]
    /\ todo \in [Applies -> SUBSET Names]
    /\ item \in [Applies -> Names \cup {Nothing}]
    /\ \A a \in Applies :
          /\ pc[a] \in {"images", "services"} => todo[a] \subseteq Services
          /\ pc[a] \in {"networks", "create"} => todo[a] \subseteq AllNetworks
          /\ pc[a] \in {"volumes", "make"} => todo[a] \subseteq Volumes
          /\ pc[a] = "create" => item[a] \in todo[a]
          /\ pc[a] = "done" => todo[a] = {}
    /\ why \in [Applies -> {"none", "call", "exists", "missing"}]
    /\ maker \in [AllNetworks -> Applies \cup {Nobody}]
    /\ blind \in [Applies -> BOOLEAN]
    /\ lost \in [Applies -> SUBSET AllNetworks]
    /\ faults \in 0..MaxFaults /\ removals \in 0..MaxRemovals

\* Once createNetworks has returned without an error, every network the file
\* asks for exists, whoever made it, but for those others have since removed.
NetworksReady ==
    \A a \in Applies :
        pc[a] \in {"volumes", "make", "services", "done"} =>
            Wanted(a) \subseteq networks \cup lost[a]

\* The default network is among those the file asks for.
AsksForDefault(a) == file[a].networks = {} \/ Default \in file[a].networks

\* The name of a network was taken because another apply was faster, or because
\* the inspection had failed.
TakenByOthers ==
    \A a \in Applies :
        why[a] = "exists" => blind[a] \/ maker[item[a]] # a

\* A network was missing because others have removed the default one meanwhile,
\* or because the file declares other networks and not that one, which then
\* nobody creates although the services without networks are put on it.
MissingByOthers ==
    \A a \in Applies :
        why[a] = "missing" => ~AsksForDefault(a) \/ Default \in lost[a]

\* An apply is refused a network only for what others did, for a failed call or
\* for what its file asks: never for what an earlier run of it has left behind,
\* and never for a network it should have made itself, so it can be repeated.
RefusedByOthersOnly == TakenByOthers /\ MissingByOthers

\* However many applies meet on the same names, each one whose file asks for the
\* default network, or has no service on it, succeeds in the end.
Converges ==
    \A a \in Applies :
        (AsksForDefault(a) \/ file[a].plain = {}) => <>(pc[a] = "done")
=============================================================================
