--------------------------- MODULE ResourcesProofs ---------------------------
(***************************************************************************)
(* Theorems of module Resources: for any number of concurrent applies with *)
(* any compose files.  What holds when the loop over the networks ends, and*)
(* when a creation is refused, has to be said of the moments before.       *)
(***************************************************************************)
EXTENDS Resources, TLAPS

\* During the loop, what it has visited exists or was removed since.
Progress ==
    \A a \in Applies :
        pc[a] \in {"networks", "create"} =>
            Wanted(a) \subseteq todo[a] \cup networks \cup lost[a]

\* A maker is remembered of existing networks only, and it is not the apply that
\* has just found the network missing.
Makers ==
    /\ \A n \in AllNetworks : n \notin networks => maker[n] = Nobody
    /\ \A a \in Applies :
          /\ pc[a] = "create" => (blind[a] \/ maker[item[a]] # a)
          /\ why[a] = "exists" => (pc[a] = "failed" /\ item[a] \in AllNetworks)

IInv ==
    TypeOK /\ Progress /\ NetworksReady /\ Makers /\ TakenByOthers
    /\ MissingByOthers

LEMMA InitInvariant == Init => IInv
  <1> SUFFICES ASSUME Init PROVE IInv
    OBVIOUS
  <1> USE ResourcesAssumption DEF Init
  <1>1. TypeOK
    BY DEF TypeOK, File, Names, AllNetworks, Nothing
  <1>2. Progress /\ NetworksReady /\ TakenByOthers /\ MissingByOthers
    BY DEF Progress, NetworksReady, TakenByOthers, MissingByOthers,
         AsksForDefault
  <1>3. Makers
    BY DEF Makers
  <1> QED
    BY <1>1, <1>2, <1>3 DEF IInv

\* One lemma for each action: it keeps the types, what createNetworks has
\* achieved, and what is said of the makers and of failures.
LEMMA PullImageInvariant ==
    ASSUME IInv, NEW a \in Applies, NEW s \in todo[a], PullImage(a, s)
    PROVE  IInv'
  <1> USE DEF PullImage, Visited, Fault, Fail, cluster, notes
  <1>1. TypeOK'
    BY ResourcesAssumption DEF IInv, TypeOK
  <1>2. Progress' /\ NetworksReady'
    BY DEF IInv, TypeOK, Progress, NetworksReady, Wanted
  <1>3. Makers' /\ TakenByOthers' /\ MissingByOthers'
    BY DEF IInv, TypeOK, Makers, TakenByOthers, MissingByOthers,
         AsksForDefault
  <1> QED
    BY <1>1, <1>2, <1>3 DEF IInv

LEMMA InspectNetworkInvariant ==
    ASSUME IInv, NEW a \in Applies, NEW n \in todo[a], InspectNetwork(a, n)
    PROVE  IInv'
  <1> USE DEF InspectNetwork, Visited, Fault, cluster
  <1>1. TypeOK'
    <2>1. CASE Visited(a, n) /\ UNCHANGED <<pc, item, blind, faults>>
      BY <2>1 DEF IInv, TypeOK
    <2>2. CASE /\ pc' = [pc EXCEPT ![a] = "create"]
               /\ item' = [item EXCEPT ![a] = n] /\ UNCHANGED todo
               /\ blind' \in {[blind EXCEPT ![a] = FALSE],
                              [blind EXCEPT ![a] = TRUE]}
      <3>1. n \in Names /\ n \in AllNetworks
        BY DEF IInv, TypeOK
      <3>2. faults' \in 0..MaxFaults
        BY ResourcesAssumption DEF IInv, TypeOK
      <3>3. item' \in [Applies -> Names \cup {Nothing}]
        BY <2>2, <3>1 DEF IInv, TypeOK
      <3> QED
        BY <2>2, <3>1, <3>2, <3>3 DEF IInv, TypeOK
    <2> QED
      BY <2>1, <2>2
  <1>2. Progress' /\ NetworksReady'
    BY DEF IInv, TypeOK, Progress, NetworksReady, Wanted
  <1>3. Makers'
    BY ResourcesAssumption DEF IInv, TypeOK, Makers, Nobody
  <1>4. TakenByOthers' /\ MissingByOthers'
    BY DEF IInv, TypeOK, Makers, TakenByOthers, MissingByOthers,
         AsksForDefault
  <1> QED
    BY <1>1, <1>2, <1>3, <1>4 DEF IInv

LEMMA CreateNetworkInvariant ==
    ASSUME IInv, NEW a \in Applies, CreateNetwork(a)
    PROVE  IInv'
  <1> USE DEF CreateNetwork, Visited, Fault, Fail, Made
  <1>1. TypeOK'
    BY ResourcesAssumption DEF IInv, TypeOK
  <1>2. Progress' /\ NetworksReady'
    BY DEF IInv, TypeOK, Progress, NetworksReady, Wanted
  <1>3. Makers'
    BY ResourcesAssumption DEF IInv, TypeOK, Makers, Nobody
  <1>4. TakenByOthers' /\ MissingByOthers'
    BY DEF IInv, TypeOK, Makers, TakenByOthers, MissingByOthers,
         AsksForDefault
  <1> QED
    BY <1>1, <1>2, <1>3, <1>4 DEF IInv

LEMMA VolumeInvariant ==
    ASSUME IInv, NEW a \in Applies,
           CreateVolume(a) \/ \E v \in todo[a] : InspectVolume(a, v)
    PROVE  IInv'
  <1> USE DEF CreateVolume, InspectVolume, Visited, Fault, Fail, cluster, notes
  <1>1. TypeOK'
    BY ResourcesAssumption DEF IInv, TypeOK, Names
  <1>2. Progress' /\ NetworksReady'
    BY DEF IInv, TypeOK, Progress, NetworksReady, Wanted
  <1>3. Makers' /\ TakenByOthers' /\ MissingByOthers'
    BY DEF IInv, TypeOK, Makers, TakenByOthers, MissingByOthers,
         AsksForDefault
  <1> QED
    BY <1>1, <1>2, <1>3 DEF IInv

LEMMA DeployServiceInvariant ==
    ASSUME IInv, NEW a \in Applies, NEW s \in todo[a], DeployService(a, s)
    PROVE  IInv'
  <1> USE DEF DeployService, Visited, Fault, Fail, notes
  <1>1. TypeOK'
    BY ResourcesAssumption DEF IInv, TypeOK
  <1>2. Progress' /\ NetworksReady'
    BY DEF IInv, TypeOK, Progress, NetworksReady, Wanted
  <1>3. Makers' /\ TakenByOthers'
    BY DEF IInv, TypeOK, Makers, TakenByOthers
  <1>4. MissingByOthers'
    BY DEF IInv, TypeOK, NetworksReady, MissingByOthers, AsksForDefault,
         Wanted, NetworksOf
  <1> QED
    BY <1>1, <1>2, <1>3, <1>4 DEF IInv

LEMMA NextStageInvariant ==
    ASSUME IInv, NEW a \in Applies, NextStage(a)
    PROVE  IInv'
  <1> USE DEF NextStage, Enter, cluster, notes
  <1>1. TypeOK'
    <2>1. /\ file[a].networks \subseteq Networks
          /\ file[a].volumes \subseteq Volumes
      BY ResourcesAssumption DEF IInv, TypeOK, File
    <2>2. Wanted(a) \subseteq AllNetworks
      BY <2>1 DEF Wanted, AllNetworks
    <2>3. \A names : names \subseteq Services \/ names \subseteq AllNetworks
                       \/ names \subseteq Volumes => names \in SUBSET Names
      BY DEF Names
    <2>4. CASE pc[a] = "images" /\ Enter(a, "networks", Wanted(a))
      BY <2>2, <2>3, <2>4 DEF IInv, TypeOK
    <2>5. CASE pc[a] = "networks" /\ Enter(a, "volumes", file[a].volumes)
      BY <2>1, <2>3, <2>5 DEF IInv, TypeOK
    <2>6. CASE pc[a] = "volumes" /\ Enter(a, "services", Services)
      BY <2>3, <2>6 DEF IInv, TypeOK
    <2>7. CASE pc[a] = "services" /\ Enter(a, "done", {})
      BY <2>7 DEF IInv, TypeOK
    <2> QED
      BY <2>4, <2>5, <2>6, <2>7 DEF NextStage
  <1>2. Progress' /\ NetworksReady'
    BY DEF IInv, TypeOK, Progress, NetworksReady, Wanted
  <1>3. Makers' /\ TakenByOthers' /\ MissingByOthers'
    BY DEF IInv, TypeOK, Makers, TakenByOthers, MissingByOthers,
         AsksForDefault
  <1> QED
    BY <1>1, <1>2, <1>3 DEF IInv

LEMMA RepeatInvariant ==
    ASSUME IInv, NEW a \in Applies, Repeat(a)
    PROVE  IInv'
  <1> USE DEF Repeat, cluster
  <1>1. TypeOK'
    BY ResourcesAssumption DEF IInv, TypeOK, Names, Nothing
  <1>2. Progress' /\ NetworksReady'
    BY DEF IInv, TypeOK, Progress, NetworksReady, Wanted
  <1>3. Makers' /\ TakenByOthers' /\ MissingByOthers'
    BY DEF IInv, TypeOK, Makers, TakenByOthers, MissingByOthers,
         AsksForDefault
  <1> QED
    BY <1>1, <1>2, <1>3 DEF IInv

LEMMA RemoveNetworkInvariant ==
    ASSUME IInv, NEW n \in AllNetworks, RemoveNetwork(n)
    PROVE  IInv'
  <1> USE DEF RemoveNetwork, apply
  <1>1. TypeOK'
    BY ResourcesAssumption DEF IInv, TypeOK
  <1>2. Progress' /\ NetworksReady'
    BY DEF IInv, TypeOK, Progress, NetworksReady, Wanted
  <1>3. Makers' /\ TakenByOthers'
    BY ResourcesAssumption DEF IInv, TypeOK, Makers, TakenByOthers, Nobody
  <1>4. MissingByOthers'
    BY DEF IInv, TypeOK, MissingByOthers, AsksForDefault
  <1> QED
    BY <1>1, <1>2, <1>3, <1>4 DEF IInv

-----------------------------------------------------------------------------
\* The inductive invariant of Deploy's resources holds in every reachable state.
THEOREM ResourcesInvariance == Spec => []IInv
  <1>1. IInv /\ [Next]_vars => IInv'
    <2> SUFFICES ASSUME IInv, [Next]_vars PROVE IInv'
      OBVIOUS
    <2>1. CASE UNCHANGED vars
      BY <2>1 DEF vars, cluster, apply, notes, IInv, TypeOK, Progress,
                  NetworksReady, Makers, TakenByOthers, MissingByOthers,
                  Wanted, AsksForDefault
    <2>2. ASSUME NEW a \in Applies, ApplyStep(a) PROVE IInv'
      BY <2>2, PullImageInvariant, InspectNetworkInvariant,
         CreateNetworkInvariant, VolumeInvariant, DeployServiceInvariant,
         NextStageInvariant, RepeatInvariant
      DEF ApplyStep
    <2>3. ASSUME NEW n \in AllNetworks, RemoveNetwork(n) PROVE IInv'
      BY <2>3, RemoveNetworkInvariant
    <2> QED
      BY <2>1, <2>2, <2>3 DEF Next, Finished
  <1> QED
    BY <1>1, InitInvariant, PTL DEF Spec

\* Types hold, each stage of Deploy visits names of its own kind, and a network
\* in use exists.
THEOREM ResourcesTypes == Spec => []TypeOK
  <1>1. IInv => TypeOK
    BY DEF IInv
  <1> QED
    BY <1>1, ResourcesInvariance, PTL

\* Whatever the other applies do, the networks a file asks for are there once
\* createNetworks has returned, but for those removed by others.
THEOREM NetworksAreReady == Spec => []NetworksReady
  <1>1. IInv => NetworksReady
    BY DEF IInv
  <1> QED
    BY <1>1, ResourcesInvariance, PTL

\* A repeated apply is not refused what its earlier run has created, and a service
\* on the default network finds it, unless its file declares other networks only
\* or somebody removed it.
THEOREM ApplyIsRepeatable == Spec => []RefusedByOthersOnly
  <1>1. IInv => RefusedByOthersOnly
    BY DEF IInv, RefusedByOthersOnly
  <1> QED
    BY <1>1, ResourcesInvariance, PTL
=============================================================================
