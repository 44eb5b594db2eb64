---------------------------- MODULE PlannerProofs ----------------------------
(***************************************************************************)
(* The safety of module Planner, for every stack, every set of objects in  *)
(* the cluster and of keys in the compose file, and any number of changes  *)
(* by others while the stack is read.                                      *)
(*                                                                         *)
(* What was there all the time has left its name in what was read, or is   *)
(* still to be inspected (Covered); what was read was there at some time   *)
(* (Known); and the plan is the one of CreatePlan (Planned), which has one *)
(* action per name, the one of Do (PlanIs).                                *)
(***************************************************************************)
EXTENDS Planner, TLAPS

Known ==
    /\ current \in [Kinds -> SUBSET (cluster \cup gone)]
    /\ todo \subseteq {o \in cluster \cup gone : o.kind = "networks"}
    /\ current["configs"] = {}

\* The names read of the steady objects of a kind.
CoveredBut(k, objects) ==
    \A o \in Steady \ objects : o.kind = k => PlanName(o) \in Names(current[k])

Covered ==
    /\ pc \notin {"services", "failed"} => CoveredBut("services", {})
    /\ pc = "inspect" => CoveredBut("networks", todo)
    /\ pc \in {"plan", "planned"} =>
          CoveredBut("networks", {}) /\ CoveredBut("volumes", {})

PlanFor(k) == IF k = "services" THEN PlanServices ELSE PlanResources(k)

Planned == plan = IF pc = "planned" THEN UNION {PlanFor(k) : k \in Kinds} ELSE {}

IInv == TypeOK /\ Known /\ Covered /\ Planned

-----------------------------------------------------------------------------
(***************************************************************************)
(* Names and maps.                                                         *)
(***************************************************************************)

\* What is left of a sequence when two elements put before it are cut again.
LEMMA CutTwo ==
    ASSUME NEW S, NEW a \in S, NEW b \in S, NEW n \in Seq(S),
           NEW name, name = <<a, b>> \o n
    PROVE  /\ name \in Seq(S) /\ Len(name) = Len(n) + 2 /\ name[1] = a
           /\ SubSeq(name, 3, Len(name)) = n
<1>1. /\ <<a, b>> \in Seq(S) /\ Len(<<a, b>>) = 2
      /\ <<a, b>>[1] = a /\ <<a, b>>[2] = b
  OBVIOUS
<1>2. /\ name \in Seq(S) /\ Len(name) = Len(n) + 2
      /\ \A i \in 1..Len(name) :
            name[i] = IF i <= 2 THEN <<a, b>>[i] ELSE n[i - 2]
  BY <1>1
<1>3. name[1] = a
  BY <1>1, <1>2
<1>4. /\ SubSeq(name, 3, Len(name)) \in Seq(S)
      /\ Len(SubSeq(name, 3, Len(name))) = Len(n)
      /\ \A i \in 1..Len(n) : SubSeq(name, 3, Len(name))[i] = n[i]
  BY <1>2
<1>5. SubSeq(name, 3, Len(name)) = n
  BY <1>4
<1> QED
  BY <1>2, <1>3, <1>5

\* The names of the compose file are found again behind the prefix.
LEMMA StripNamed ==
    ASSUME NEW T, NEW n \in Seq(T), n # <<>>, NEW separator
    PROVE  Strip(<<Stack, separator>> \o n) = n
<1> DEFINE name == <<Stack, separator>> \o n
           Parts == T \cup {Stack, separator}
<1>1. /\ Len(name) = Len(n) + 2 /\ name[1] = Stack
      /\ SubSeq(name, 3, Len(name)) = n
  <2>1. Stack \in Parts /\ separator \in Parts /\ T \subseteq Parts
    OBVIOUS
  <2> HIDE DEF Parts, name
  <2>2. n \in Seq(Parts)
    BY <2>1
  <2>3. name = <<Stack, separator>> \o n
    BY DEF name
  <2> QED
    BY <2>1, <2>2, <2>3, CutTwo
<1>2. Len(n) \in Nat /\ Len(n) > 0
  OBVIOUS
<1> HIDE DEF name
<1>3. Strip(name) = n
  BY <1>1, <1>2 DEF Strip
<1> QED
  BY <1>3 DEF name

\* A map is made of the list, has every name of it, and each once.
LEMMA MapsAre ==
    ASSUME NEW objects, NEW m \in Maps(objects)
    PROVE  /\ m \subseteq objects
           /\ \A o \in objects : PlanName(o) \in Names(m)
           /\ \A o, p \in m : PlanName(o) = PlanName(p) => o = p
BY DEF Maps, Names

LEMMA NamedIs ==
    ASSUME NEW k, NEW n
    PROVE  n \in Names(current[k]) <=> Named(k, n) # {}
BY DEF Named, Names

-----------------------------------------------------------------------------
(***************************************************************************)
(* The plan.                                                               *)
(***************************************************************************)

\* What the plan does with a name that was read or is wanted.
Do(k, n) ==
    IF n \notin Names(current[k]) THEN Action(k, n, "create", {})
    ELSE IF n \notin desired[k] THEN Action(k, n, "delete", Named(k, n))
    ELSE Action(k, n, IF k = "services" THEN "update" ELSE "none", Named(k, n))

\* A service that was read and is wanted is always updated, since
\* compareServices does not come back without a difference.
LEMMA PlanIs ==
    ASSUME NEW k \in Kinds
    PROVE  PlanFor(k) = {Do(k, n) : n \in Names(current[k]) \cup desired[k]}
<1> DEFINE read == Names(current[k])
<1>1. \A n : n \in read <=> Named(k, n) # {}
  BY NamedIs
<1>2. CASE k # "services"
  BY <1>2 DEF PlanFor, PlanResources, Do, Create, Delete
<1>3. CASE k = "services"
  <2>1. \A o : compareServices(o) # {}
    BY DEF compareServices
  <2>2. \A n \in read : \E o \in Named(k, n) : compareServices(o) # {}
    BY <1>1, <2>1
  <2>3. PlanServices =
           {Action("services", n, "update", Named("services", n)) : n \in desired[k] \cap read}
             \cup Create("services", desired[k] \ read)
             \cup Delete("services", read \ desired[k])
    BY <1>3, <2>2 DEF PlanServices
  <2> QED
    BY <1>3, <2>3 DEF PlanFor, Do, Create, Delete
<1> QED
  BY <1>2, <1>3

LEMMA DoIs ==
    ASSUME NEW k, NEW n
    PROVE  /\ Do(k, n).kind = k /\ Do(k, n).name = n
           /\ Do(k, n).do = "create" <=> n \notin Names(current[k])
           /\ Do(k, n).do = "delete" <=> n \in Names(current[k]) \ desired[k]
           /\ Do(k, n).do = "none" <=>
                 n \in Names(current[k]) \cap desired[k] /\ k # "services"
           /\ n \in Names(current[k]) => Do(k, n).objects = Named(k, n)
BY DEF Do, Action

\* The actions of a plan, kind by kind and name by name.
LEMMA PlanOfKind ==
    ASSUME IInv, pc = "planned", NEW k \in Kinds
    PROVE  {a \in plan : a.kind = k} = {Do(k, n) : n \in Names(current[k]) \cup desired[k]}
<1>1. plan = UNION {{Do(j, n) : n \in Names(current[j]) \cup desired[j]} : j \in Kinds}
  BY PlanIs DEF IInv, Planned
<1>2. \A j, n : Do(j, n).kind = j
  BY DoIs
<1> QED
  BY <1>1, <1>2

-----------------------------------------------------------------------------
(***************************************************************************)
(* The inductive invariant.                                                *)
(***************************************************************************)
LEMMA InitHolds == ASSUME Init PROVE IInv
<1>1. current = [k \in Kinds |-> {}] /\ "configs" \in Kinds
  BY DEF Init, Kinds
<1>2. TypeOK
  BY <1>1 DEF Init, TypeOK
<1> QED
  BY <1>1, <1>2 DEF Init, IInv, Known, Covered, Planned

\* Maps of the objects there now take the place of what was read of a kind.
LEMMA ReadKind ==
    ASSUME IInv, NEW k \in Kinds \ {"configs"}, NEW m \in Maps(OfKind(k)),
           current' = [current EXCEPT ![k] = m], UNCHANGED world
    PROVE  /\ current' \in [Kinds -> SUBSET (cluster \cup gone)]
           /\ current'["configs"] = {}
           /\ \A j \in Kinds :
                 /\ current'[j] \subseteq {o \in Objects : o.kind = j}
                 /\ \A o, p \in current'[j] : PlanName(o) = PlanName(p) => o = p
           /\ \A j \in Kinds \ {k} : current'[j] = current[j]
           /\ CoveredBut(k, {})'
<1>1. /\ m \subseteq OfKind(k)
      /\ \A o \in OfKind(k) : PlanName(o) \in Names(m)
      /\ \A o, p \in m : PlanName(o) = PlanName(p) => o = p
  BY MapsAre
<1>2. /\ current \in [Kinds -> SUBSET (cluster \cup gone)] /\ cluster \subseteq Objects
      /\ current["configs"] = {}
      /\ \A j \in Kinds :
            /\ current[j] \subseteq {o \in Objects : o.kind = j}
            /\ \A o, p \in current[j] : PlanName(o) = PlanName(p) => o = p
  BY DEF IInv, Known, TypeOK
<1>3. current'[k] = m /\ \A j \in Kinds \ {k} : current'[j] = current[j]
  BY <1>2
<1>4. CoveredBut(k, {})'
  BY <1>1, <1>3 DEF CoveredBut, Steady, OfKind, world
<1> QED
  BY <1>1, <1>2, <1>3, <1>4 DEF OfKind, Kinds

LEMMA ReadKeeps == ASSUME IInv, Read PROVE IInv'
<1> USE DEF world
<1>0. {"services", "networks", "volumes", "configs"} = Kinds
  BY DEF Kinds
<1>1. CASE ReadServices
  <2>1. PICK m \in Maps(OfKind("services")) :
           current' = [current EXCEPT !["services"] = m]
    BY <1>1 DEF ReadServices
  <2>2. pc' = "networks" /\ UNCHANGED <<world, todo, plan>> /\ pc = "services"
    BY <1>1 DEF ReadServices
  <2>3. /\ current' \in [Kinds -> SUBSET (cluster \cup gone)]
        /\ current'["configs"] = {}
        /\ \A j \in Kinds :
              /\ current'[j] \subseteq {o \in Objects : o.kind = j}
              /\ \A o, p \in current'[j] : PlanName(o) = PlanName(p) => o = p
        /\ CoveredBut("services", {})'
    BY <1>0, <2>1, <2>2, ReadKind
  <2>4. TypeOK'
    BY <2>2, <2>3 DEF IInv, TypeOK
  <2> QED
    BY <2>2, <2>3, <2>4 DEF IInv, Known, Covered, Planned
<1>2. CASE ListNetworks
  <2>1. /\ pc = "networks" /\ pc' = "inspect" /\ todo' = OfKind("networks")
        /\ UNCHANGED <<world, current, plan>>
    BY <1>2 DEF ListNetworks
  <2>2. TypeOK'
    BY <2>1 DEF IInv, TypeOK, OfKind
  <2>3. CoveredBut("services", {})' /\ CoveredBut("networks", todo)'
    BY <2>1 DEF IInv, Covered, CoveredBut, Steady, OfKind
  <2> QED
    BY <2>1, <2>2, <2>3 DEF IInv, Known, Covered, Planned, OfKind
<1>3. ASSUME NEW o \in todo, InspectNetwork(o) PROVE IInv'
  <2> DEFINE others == {p \in current["networks"] : PlanName(p) # PlanName(o)}
  <2>1. /\ pc = "inspect" /\ todo' = todo \ {o} /\ UNCHANGED <<world, plan>>
        /\ \/ /\ o \in cluster /\ pc' = pc
              /\ current' = [current EXCEPT !["networks"] = others \cup {o}]
           \/ o \notin cluster /\ pc' = "failed" /\ current' = current
    BY <1>3 DEF InspectNetwork
  <2>2. CASE o \notin cluster
    <3>1. TypeOK'
      BY <2>1, <2>2 DEF IInv, TypeOK
    <3> QED
      BY <2>1, <2>2, <3>1 DEF IInv, Known, Covered, Planned
  <2>3. CASE o \in cluster
    <3>1. /\ current \in [Kinds -> SUBSET (cluster \cup gone)]
          /\ o.kind = "networks" /\ o \in Objects
      BY <2>3 DEF IInv, Known, TypeOK
    <3>2. /\ current'["networks"] = others \cup {o}
          /\ \A j \in Kinds \ {"networks"} : current'[j] = current[j]
      BY <1>0, <2>1, <2>3, <3>1
    <3>3. current' \in [Kinds -> SUBSET (cluster \cup gone)]
      BY <1>0, <2>1, <2>3, <3>1
    <3>4. \A j \in Kinds :
             /\ current'[j] \subseteq {p \in Objects : p.kind = j}
             /\ \A p, q \in current'[j] : PlanName(p) = PlanName(q) => p = q
      BY <1>0, <3>1, <3>2 DEF IInv, TypeOK
    <3>5. TypeOK'
      BY <2>1, <2>3, <3>4 DEF IInv, TypeOK
    <3>6. CoveredBut("services", {})'
      BY <1>0, <2>1, <3>2 DEF IInv, Covered, CoveredBut, Steady
    <3>7. CoveredBut("networks", todo)'
      <4>1. Names(current["networks"]) \subseteq Names(current'["networks"])
        BY <3>2 DEF Names
      <4>2. PlanName(o) \in Names(current'["networks"])
        BY <3>2 DEF Names
      <4> QED
        BY <2>1, <4>1, <4>2 DEF IInv, Covered, CoveredBut, Steady
    <3>8. current'["configs"] = {}
      BY <1>0, <3>2 DEF IInv, Known
    <3> QED
      BY <2>1, <2>3, <3>3, <3>5, <3>6, <3>7, <3>8 DEF IInv, Known, Covered, Planned
  <2> QED
    BY <2>2, <2>3
<1>4. CASE ReadVolumes
  <2>1. PICK m \in Maps(OfKind("volumes")) :
           current' = [current EXCEPT !["volumes"] = m]
    BY <1>4 DEF ReadVolumes
  <2>2. /\ pc = "inspect" /\ todo = {} /\ pc' = "plan"
        /\ UNCHANGED <<world, todo, plan>>
    BY <1>4 DEF ReadVolumes
  <2>3. /\ current' \in [Kinds -> SUBSET (cluster \cup gone)]
        /\ current'["configs"] = {}
        /\ \A j \in Kinds :
              /\ current'[j] \subseteq {o \in Objects : o.kind = j}
              /\ \A o, p \in current'[j] : PlanName(o) = PlanName(p) => o = p
        /\ \A j \in Kinds \ {"volumes"} : current'[j] = current[j]
        /\ CoveredBut("volumes", {})'
    BY <1>0, <2>1, <2>2, ReadKind
  <2>4. TypeOK'
    BY <2>2, <2>3 DEF IInv, TypeOK
  <2>5. CoveredBut("services", {})' /\ CoveredBut("networks", {})'
    BY <1>0, <2>2, <2>3 DEF IInv, Covered, CoveredBut, Steady
  <2> QED
    BY <2>2, <2>3, <2>4, <2>5 DEF IInv, Known, Covered, Planned
<1>5. CASE ReadFails
  <2>1. TypeOK'
    BY <1>5 DEF IInv, TypeOK, ReadFails
  <2> QED
    BY <1>5, <2>1 DEF IInv, Known, Covered, Planned, ReadFails
<1> QED
  BY <1>1, <1>2, <1>3, <1>4, <1>5 DEF Read

\* The plan depends on what was read and what is wanted only.
LEMMA SamePlan ==
    ASSUME UNCHANGED <<desired, current>>, NEW k
    PROVE  PlanFor(k)' = PlanFor(k)
<1>1. UNCHANGED PlanServices
  BY DEF PlanServices, Create, Delete, Named
<1>2. UNCHANGED PlanResources(k)
  BY DEF PlanResources, Create, Delete, Named
<1> QED
  BY <1>1, <1>2 DEF PlanFor

LEMMA CreatePlanKeeps == ASSUME IInv, CreatePlan PROVE IInv'
<1>1. /\ pc = "plan" /\ pc' = "planned" /\ UNCHANGED <<world, todo, current>>
      /\ plan' = PlanServices \cup UNION {PlanResources(k) : k \in Kinds \ {"services"}}
  BY DEF CreatePlan
<1>2. plan' = UNION {PlanFor(k) : k \in Kinds}
  BY <1>1 DEF PlanFor, Kinds
<1>3. \A k \in Kinds : PlanFor(k)' = PlanFor(k)
  BY <1>1, SamePlan DEF world
<1>4. Planned'
  BY <1>1, <1>2, <1>3 DEF Planned
<1>5. TypeOK'
  BY <1>1 DEF IInv, TypeOK, world
<1> QED
  BY <1>1, <1>4, <1>5 DEF IInv, Known, Covered, CoveredBut, Steady, world

\* Nobody else makes an object steady.
LEMMA OthersKeep ==
    ASSUME IInv, NEW o \in Objects, Appear(o) \/ Vanish(o)
    PROVE  IInv'
<1>1. /\ Steady' \subseteq Steady
      /\ cluster \cup gone \subseteq (cluster \cup gone)'
      /\ cluster' \cup late' \cup gone' \subseteq Objects
      /\ pc # "planned"
      /\ UNCHANGED <<desired, pc, todo, current, plan>>
  BY DEF Appear, Vanish, Changeable, Steady, IInv, TypeOK
<1>2. TypeOK'
  BY <1>1 DEF IInv, TypeOK
<1>3. Known'
  BY <1>1 DEF IInv, Known
<1>4. Covered'
  BY <1>1 DEF IInv, Covered, CoveredBut
<1>5. Planned'
  BY <1>1 DEF IInv, Planned
<1> QED
  BY <1>2, <1>3, <1>4, <1>5 DEF IInv

\* The inductive invariant of the planner holds in every reachable state.
THEOREM PlannerInvariance == Spec => []IInv
<1>1. ASSUME IInv, UNCHANGED vars PROVE IInv'
  <2>1. UNCHANGED <<world, pc, todo, current, plan>>
    BY <1>1 DEF vars
  <2>2. TypeOK' /\ Known'
    BY <1>1, <2>1 DEF IInv, TypeOK, Known, world
  <2>3. Covered'
    BY <1>1, <2>1 DEF IInv, Covered, CoveredBut, Steady, world
  <2>4. \A k \in Kinds : PlanFor(k)' = PlanFor(k)
    BY <2>1, SamePlan DEF world
  <2>5. Planned'
    BY <1>1, <2>1, <2>4 DEF IInv, Planned
  <2> QED
    BY <2>2, <2>3, <2>5 DEF IInv
<1>2. IInv /\ [Next]_vars => IInv'
  BY <1>1, ReadKeeps, CreatePlanKeeps, OthersKeep DEF Next
<1> QED
  BY InitHolds, <1>2, PTL DEF Spec

-----------------------------------------------------------------------------
(***************************************************************************)
(* The invariants of the run.                                              *)
(***************************************************************************)

\* Types; GetCurrentState keeps one object per name, and CreatePlan runs when
\* everything is read.
THEOREM PlannerTypes == Spec => []TypeOK
<1>1. IInv => TypeOK
  BY DEF IInv
<1> QED
  BY <1>1, PlannerInvariance, PTL

\* Deleting and creating as CreatePlan says turns the names read into those of
\* the compose file, each name has one action, and the plan is empty only where
\* compareServices has nothing to compare.
THEOREM PlanGivesDesired == Spec => []PlanReachesDesired
<1>1. ASSUME IInv, pc = "planned", NEW k \in Kinds
      PROVE  LET read == Names(current[k]) IN
             /\ \A n \in read \cup desired[k] :
                   \E a \in plan : {b \in plan : b.kind = k /\ b.name = n} = {a}
             /\ (read \ NamesOf(Actions(k, "delete"))) \cup NamesOf(Actions(k, "create"))
                   = desired[k]
  <2> DEFINE read == Names(current[k])
  <2>1. {a \in plan : a.kind = k} = {Do(k, n) : n \in read \cup desired[k]}
    BY <1>1, PlanOfKind
  <2>2. \A n \in read \cup desired[k] :
           /\ Do(k, n) \in plan
           /\ {b \in plan : b.kind = k /\ b.name = n} = {Do(k, n)}
    BY <2>1, DoIs
  <2>3. NamesOf(Actions(k, "delete")) = read \ desired[k]
    BY <2>1, DoIs DEF NamesOf, Actions
  <2>4. NamesOf(Actions(k, "create")) = desired[k] \ read
    BY <2>1, DoIs DEF NamesOf, Actions
  <2> QED
    BY <2>2, <2>3, <2>4
<1>2. ASSUME IInv, pc = "planned"
      PROVE  IsEmpty(plan) <=>
                /\ \A k \in Kinds : Names(current[k]) = desired[k]
                /\ desired["services"] = {} /\ desired["configs"] = {}
  <2>1. \A k \in Kinds :
           {a \in plan : a.kind = k} = {Do(k, n) : n \in Names(current[k]) \cup desired[k]}
    BY <1>2, PlanOfKind
  <2>2. \A a \in plan : a.kind \in Kinds
    <3>1. plan = UNION {{Do(k, n) : n \in Names(current[k]) \cup desired[k]} : k \in Kinds}
      BY <1>2, PlanIs DEF IInv, Planned
    <3> QED
      BY <3>1, DoIs
  <2>3. IsEmpty(plan) <=>
           \A k \in Kinds : \A n \in Names(current[k]) \cup desired[k] :
              n \in Names(current[k]) \cap desired[k] /\ k # "services"
    BY <2>1, <2>2, DoIs DEF IsEmpty
  <2>4. Names(current["configs"]) = {} /\ {"services", "configs"} \subseteq Kinds
    BY <1>2 DEF IInv, Known, Names, Kinds
  <2> QED
    BY <2>3, <2>4
<1>3. IInv => PlanReachesDesired
  BY <1>1, <1>2 DEF PlanReachesDesired
<1> QED
  BY <1>3, PlannerInvariance, PTL

\* Whatever appears or vanishes between the calls of GetCurrentState, the plan
\* creates nothing that was there all the time under its name, deletes nothing
\* the compose file names, and leaves nothing behind but for a twin.
THEOREM PlanSuitsCluster == Spec => []PlanFitsCluster
<1>1. ASSUME IInv, pc = "planned", NEW o \in Steady, o.kind # "configs"
      PROVE  LET named == \E n \in desired[o.kind] : o.name = <<Stack, "_">> \o n
                 created == PlanName(o) \in NamesOf(Actions(o.kind, "create"))
                 deleted == \E a \in Actions(o.kind, "delete") : o \in a.objects
                 twin == \E p \in (cluster \cup gone) \ {o} :
                           p.kind = o.kind /\ PlanName(p) = PlanName(o)
             IN  /\ ~created
                 /\ named => ~deleted
                 /\ ~named => deleted \/ twin \/ PlanName(o) \in desired[o.kind]
  <2> DEFINE k == o.kind
             deleted == \E a \in Actions(k, "delete") : o \in a.objects
             twin == \E p \in (cluster \cup gone) \ {o} :
                        p.kind = k /\ PlanName(p) = PlanName(o)
  <2>1. k \in Kinds
    BY <1>1, PlannerAssumption DEF IInv, TypeOK, Steady
  <2>2. PlanName(o) \in Names(current[k])
    BY <1>1, <2>1 DEF IInv, Covered, CoveredBut, Kinds
  <2>3. {a \in plan : a.kind = k} = {Do(k, n) : n \in Names(current[k]) \cup desired[k]}
    BY <1>1, <2>1, PlanOfKind
  <2>4. PlanName(o) \notin NamesOf(Actions(k, "create"))
    BY <2>2, <2>3, DoIs DEF NamesOf, Actions
  <2>5. Actions(k, "delete") = {Do(k, n) : n \in Names(current[k]) \ desired[k]}
    BY <2>3, DoIs DEF Actions
  <2>6. deleted => PlanName(o) \notin desired[k]
    BY <2>5, DoIs DEF Named
  <2>7. ASSUME NEW n \in desired[k], o.name = <<Stack, "_">> \o n
        PROVE  PlanName(o) = n
    <3>1. desired[k] \subseteq Seq(STRING) \ {<<>>}
      BY <1>1, <2>1, PlannerAssumption DEF IInv, TypeOK
    <3>2. n \in Seq(STRING) /\ n # <<>>
      BY <3>1
    <3> QED
      BY <2>7, <3>2, StripNamed, Zenon DEF PlanName
  <2>8. PlanName(o) \notin desired[k] => deleted \/ twin
    <3>1. PICK p \in current[k] : PlanName(p) = PlanName(o)
      BY <2>2 DEF Names
    <3>2. p \in cluster \cup gone /\ p.kind = k
      BY <1>1, <2>1 DEF IInv, Known, TypeOK
    <3>3. CASE p = o
      BY <2>2, <2>5, <3>1, <3>3, DoIs DEF Named
    <3> QED
      BY <3>1, <3>2, <3>3
  <2> QED
    BY <2>4, <2>6, <2>7, <2>8
<1>2. IInv => PlanFitsCluster
  BY <1>1 DEF PlanFitsCluster
<1> QED
  BY <1>2, PlannerInvariance, PTL
=============================================================================
