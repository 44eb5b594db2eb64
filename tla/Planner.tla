------------------------------ MODULE Planner ------------------------------
(***************************************************************************)
(* internal/plan and GetCurrentState: what exists of a stack is read from  *)
(* the cluster by one call per kind, and one more per network, while the   *)
(* cluster changes; the plan then compares what was read with the compose  *)
(* file, name by name.                                                     *)
(*                                                                         *)
(* A name is a sequence of parts.  The cluster's names of a stack begin    *)
(* with the name of the stack and one character, which is not looked at;   *)
(* names without them are taken as they are, so two objects can come to    *)
(* have one name in the plan.  Configs and secrets are treated alike; kind *)
(* "configs" stands for both.                                              *)
(***************************************************************************)
EXTENDS Naturals, Sequences, FiniteSets

CONSTANTS
    Stack,       \* the name of the stack, as a part of names
    Objects,     \* what the stack can have in the cluster: its kind, its name,
                 \* and in what it differs from the compose file, if a service
    Keys,        \* the names a compose file can use, per kind
    MaxChanges   \* bound on the changes others make in the cluster

Kinds == {"services", "networks", "volumes", "configs"}

\* The compose format wants a key to have at least one character.
ASSUME PlannerAssumption ==
    /\ Keys \in [Kinds -> SUBSET (Seq(STRING) \ {<<>>})]
    /\ \A o \in Objects : o.kind \in Kinds /\ o.differs \subseteq {"image", "replicas"}
    /\ MaxChanges \in Nat

VARIABLES
    desired,   \* DesiredState: per kind, the names in the compose file
    cluster,   \* the objects of the stack in the cluster
    late,      \* objects that have come since the first call
    gone,      \* objects that have gone since the first call
    pc,        \* what is read next
    todo,      \* networks listed and not inspected yet
    current,   \* CurrentState: per kind, the objects under their plan names
    plan       \* the actions of the plan

world == <<desired, cluster, late, gone>>
vars == <<world, pc, todo, current, plan>>

\* What has been there all the time since the first call.
Steady == cluster \ late

-----------------------------------------------------------------------------
(***************************************************************************)
(* Names.                                                                  *)
(***************************************************************************)

\* Fault: the separator is taken for a part of the name.
StripTooLittle(name) ==
    IF Len(name) > 2 /\ name[1] = Stack THEN Tail(name) ELSE name

\* The prefix and the character after it are cut if something is left then.
Strip(name) ==
    IF Len(name) > 2 /\ name[1] = Stack THEN SubSeq(name, 3, Len(name)) ELSE name

PlanName(o) == Strip(o.name)

Names(objects) == {PlanName(o) : o \in objects}

\* The maps a list of objects can become: per name, the object that comes last.
Maps(objects) ==
    {m \in SUBSET objects :
        Names(m) = Names(objects)
        /\ \A o, p \in m : PlanName(o) = PlanName(p) => o = p}

OfKind(k) == {o \in cluster : o.kind = k}

-----------------------------------------------------------------------------
(***************************************************************************)
(* GetCurrentState.                                                        *)
(***************************************************************************)
Init ==
    /\ desired \in {d \in [Kinds -> UNION {SUBSET Keys[k] : k \in Kinds}] :
                       \A k \in Kinds : d[k] \subseteq Keys[k]}
    /\ cluster \in SUBSET Objects
    /\ late = {} /\ gone = {}
    /\ pc = "services" /\ todo = {}
    /\ current = [k \in Kinds |-> {}]
    /\ plan = {}

ReadServices ==
    /\ pc = "services"
    /\ pc' = "networks"
    /\ \E m \in Maps(OfKind("services")) :
          current' = [current EXCEPT !["services"] = m]
    /\ UNCHANGED <<world, todo, plan>>

ListNetworks ==
    /\ pc = "networks"
    /\ pc' = "inspect" /\ todo' = OfKind("networks")
    /\ UNCHANGED <<world, current, plan>>

\* Fault: a network does not take the place of the one before.
InspectAlso(o) ==
    /\ pc = "inspect" /\ o \in todo
    /\ todo' = todo \ {o}
    /\ IF o \in cluster
       THEN current' = [current EXCEPT !["networks"] = @ \cup {o}] /\ UNCHANGED pc
       ELSE pc' = "failed" /\ UNCHANGED current
    /\ UNCHANGED <<world, plan>>

\* A network gone since the listing fails the reading.  In the order of the
\* list, a network takes the place of an earlier one with its name.
InspectNetwork(o) ==
    /\ pc = "inspect" /\ o \in todo
    /\ todo' = todo \ {o}
    /\ IF o \in cluster
       THEN /\ current' = [current EXCEPT !["networks"] =
                              {p \in @ : PlanName(p) # PlanName(o)} \cup {o}]
            /\ UNCHANGED pc
       ELSE pc' = "failed" /\ UNCHANGED current
    /\ UNCHANGED <<world, plan>>

ReadVolumes ==
    /\ pc = "inspect" /\ todo = {}
    /\ pc' = "plan"
    /\ \E m \in Maps(OfKind("volumes")) :
          current' = [current EXCEPT !["volumes"] = m]
    /\ UNCHANGED <<world, todo, plan>>

ReadFails ==
    /\ pc \in {"services", "networks", "inspect"}
    /\ pc' = "failed"
    /\ UNCHANGED <<world, todo, current, plan>>

-----------------------------------------------------------------------------
(***************************************************************************)
(* CreatePlan.                                                             *)
(***************************************************************************)
Action(k, name, do, objects) ==
    [kind |-> k, name |-> name, do |-> do, objects |-> objects]

Named(k, name) == {o \in current[k] : PlanName(o) = name}

Create(k, names) == {Action(k, n, "create", {}) : n \in names}
Delete(k, names) == {Action(k, n, "delete", Named(k, n)) : n \in names}

\* Fault: the test for what is orphaned is the wrong way round.
PlanReversed(k) ==
    {Action(k, n, "none", Named(k, n)) : n \in desired[k] \cap Names(current[k])}
        \cup Create(k, desired[k] \ Names(current[k]))
        \cup Delete(k, desired[k] \cap Names(current[k]))

\* planNetworks, planVolumes, planConfigs and planSecrets: what exists under a
\* wanted name is left alone.
PlanResources(k) ==
    {Action(k, n, "none", Named(k, n)) : n \in desired[k] \cap Names(current[k])}
        \cup Create(k, desired[k] \ Names(current[k]))
        \cup Delete(k, Names(current[k]) \ desired[k])

\* Whenever no difference was found, "configuration" is taken for one.
compareServices(o) == IF o.differs = {} THEN {"configuration"} ELSE o.differs

PlanServices ==
    LET read == Names(current["services"])
        update(n) == \E o \in Named("services", n) : compareServices(o) # {}
    IN  {Action("services", n, IF update(n) THEN "update" ELSE "none", Named("services", n)) :
            n \in desired["services"] \cap read}
        \cup Create("services", desired["services"] \ read)
        \cup Delete("services", read \ desired["services"])

CreatePlan ==
    /\ pc = "plan"
    /\ pc' = "planned"
    /\ plan' = PlanServices \cup UNION {PlanResources(k) : k \in Kinds \ {"services"}}
    /\ UNCHANGED <<world, todo, current>>

IsEmpty(actions) == \A a \in actions : a.do = "none"

-----------------------------------------------------------------------------
(***************************************************************************)
(* Other clients of the cluster.                                           *)
(***************************************************************************)
Changeable ==
    /\ pc \notin {"services", "planned", "failed"}
    /\ Cardinality(late) + Cardinality(gone) < MaxChanges

\* What has gone does not come back: another of its name is another object.
Appear(o) ==
    /\ Changeable /\ o \notin cluster \cup gone
    /\ cluster' = cluster \cup {o} /\ late' = late \cup {o}
    /\ UNCHANGED <<desired, gone, pc, todo, current, plan>>

Vanish(o) ==
    /\ Changeable /\ o \in cluster
    /\ cluster' = cluster \ {o} /\ gone' = gone \cup {o}
    /\ UNCHANGED <<desired, late, pc, todo, current, plan>>

-----------------------------------------------------------------------------
Read ==
    \/ ReadServices \/ ListNetworks \/ ReadVolumes \/ ReadFails
    \/ \E o \in todo : InspectNetwork(o)

Next ==
    \/ Read \/ CreatePlan
    \/ \E o \in Objects : Appear(o) \/ Vanish(o)

Spec == Init /\ [][Next]_vars

-----------------------------------------------------------------------------
(***************************************************************************)
(* Properties.                                                             *)
(***************************************************************************)
Actions(k, do) == {a \in plan : a.kind = k /\ a.do = do}
NamesOf(actions) == {a.name : a \in actions}

\* Types; the current state has one object per name, and nothing is planned
\* before everything is read.
TypeOK ==
    /\ \A k \in Kinds : desired[k] \subseteq Keys[k]
    /\ cluster \subseteq Objects /\ late \subseteq Objects /\ gone \subseteq Objects
    /\ pc \in {"services", "networks", "inspect", "plan", "planned", "failed"}
    /\ todo \subseteq Objects
    /\ \A k \in Kinds :
          /\ current[k] \subseteq {o \in Objects : o.kind = k}
          /\ \A o, p \in current[k] : PlanName(o) = PlanName(p) => o = p
    /\ plan # {} => pc = "planned"

\* Each name that was read or is wanted has one action; creating and deleting
\* as planned turns the names read into those of the compose file; and a plan
\* is empty exactly if they are the same already and there is no service, which
\* CreatePlan updates in any case, nor a config, which it creates in any case.
PlanReachesDesired ==
    pc = "planned" =>
        /\ \A k \in Kinds :
              LET read == Names(current[k]) IN
              /\ \A n \in read \cup desired[k] :
                    \E a \in plan : {b \in plan : b.kind = k /\ b.name = n} = {a}
              /\ (read \ NamesOf(Actions(k, "delete"))) \cup NamesOf(Actions(k, "create"))
                    = desired[k]
        /\ IsEmpty(plan) <=>
              /\ \A k \in Kinds : Names(current[k]) = desired[k]
              /\ desired["services"] = {} /\ desired["configs"] = {}

\* Though it is read by several calls while others change the cluster, the plan
\* fits what was there all the time: such a service, network or volume is never
\* created again or deleted if the compose file names it, and it is deleted if
\* the file does not, unless another object had the same name in the plan.
PlanFitsCluster ==
    pc = "planned" =>
        \A o \in {p \in Steady : p.kind # "configs"} :
            LET named == \E n \in desired[o.kind] : o.name = <<Stack, "_">> \o n
                created == PlanName(o) \in NamesOf(Actions(o.kind, "create"))
                deleted == \E a \in Actions(o.kind, "delete") : o \in a.objects
                twin == \E p \in (cluster \cup gone) \ {o} :
                          p.kind = o.kind /\ PlanName(p) = PlanName(o)
            IN  /\ ~created
                /\ named => ~deleted
                /\ ~named => deleted \/ twin \/ PlanName(o) \in desired[o.kind]
=============================================================================
