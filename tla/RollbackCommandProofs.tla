----------------------- MODULE RollbackCommandProofs -----------------------
(***************************************************************************)
(* Theorems of module RollbackCommand, for every set of services and runs  *)
(* of the command and any number of applies and version bumps.             *)
(*                                                                         *)
(* What carries them is the version: it never falls, and as long as it is  *)
(* the one a command has listed, so are both specs (Listed).  An update    *)
(* that Swarm accepts therefore swaps what the service really holds.       *)
(***************************************************************************)
EXTENDS RollbackCommand, TLAPS

\* A command has warned about nothing before it has listed the services.
Types ==
    /\ TypeOK
    /\ \A c \in Commands : pc[c] = "start" => warned[c] = {}

\* What a command has listed is no later than what there is, and the same if it
\* has the same version.
Listed ==
    \A c \in Commands, s \in Services :
        /\ seen[c][s].ver <= svc[s].ver
        /\ seen[c][s].ver = svc[s].ver => seen[c][s] = svc[s]

IInv == Types /\ Listed /\ TwoSpecsKept /\ RevertedOrTold

-----------------------------------------------------------------------------
\* An update and a removal give a service of the right type and a later version.
LEMMA WrittenIsService ==
    ASSUME NEW old \in Service, NEW spec \in Specs
    PROVE  /\ Written(old, spec) \in Service
           /\ Written(old, spec).ver = old.ver + 1
           /\ Written(old, spec).spec = spec
           /\ Written(old, spec).prev = old.spec
  BY DEF Written, Service

LEMMA RemovedIsService ==
    ASSUME NEW old \in Service
    PROVE  /\ Removed(old) \in Service
           /\ Removed(old).ver = old.ver + 1
           /\ Removed(old).spec = None
           /\ Removed(old).prev = None
  BY DEF Removed, Service, Specs

LEMMA NeverIsService == Never \in Service
  BY DEF Never, Service, Specs

\* What was listed right now is what there is.
LEMMA JustListed ==
    ASSUME svc \in [Services -> Service], seen = [c \in Commands |-> svc]
    PROVE  Listed
<1> SUFFICES ASSUME NEW c \in Commands, NEW s \in Services
             PROVE  /\ seen[c][s].ver <= svc[s].ver
                    /\ seen[c][s].ver = svc[s].ver => seen[c][s] = svc[s]
  BY DEF Listed
<1>1. seen[c] = svc
  OBVIOUS
<1>2. svc[s].ver \in Nat
  BY DEF Service
<1>3. QED
  BY <1>1, <1>2

LEMMA InitIInv == Init => IInv
<1> SUFFICES ASSUME Init PROVE IInv
  OBVIOUS
<1> USE RollbackCommandAssumption DEF Init
<1>1. \A s \in Services :
        svc[s] \in Service /\ (Exists(svc[s]) \/ svc[s].prev = None)
  <2> SUFFICES ASSUME NEW s \in Services
               PROVE  svc[s] \in Service /\ (Exists(svc[s]) \/ svc[s].prev = None)
    OBVIOUS
  <2>1. 0 \in Specs /\ 1 \in Specs /\ 1 # None
    BY DEF Specs
  <2>2. CASE svc[s] = Removed(Never)
    BY <2>2, NeverIsService, RemovedIsService
  <2>3. CASE svc[s] = Written(Never, 1)
    BY <2>1, <2>3, NeverIsService, WrittenIsService DEF Exists
  <2>4. CASE svc[s] = Written(Written(Never, 0), 1)
    BY <2>1, <2>4, NeverIsService, WrittenIsService DEF Exists
  <2>5. QED
    BY <2>2, <2>3, <2>4
<1>2. Types
  BY <1>1 DEF Types, TypeOK, Specs, SpecsOf, Service
<1>3. Listed
  <2>1. seen = [c \in Commands |-> svc]
    OBVIOUS
  <2>2. svc \in [Services -> Service]
    BY <1>1
  <2>3. QED
    BY ONLY <2>1, <2>2, JustListed
<1>4. TwoSpecsKept
  BY DEF TwoSpecsKept
<1>5. RevertedOrTold
  BY DEF RevertedOrTold
<1>6. QED
  BY <1>2, <1>3, <1>4, <1>5 DEF IInv

-----------------------------------------------------------------------------
(***************************************************************************)
(* A later version of a service.  Whoever writes it, what commands have    *)
(* listed of it is outdated then and what they have dealt with stays so.   *)
(***************************************************************************)
Outdates(s, service) ==
    /\ service \in Service /\ service.ver = svc[s].ver + 1
    /\ Exists(service) \/ service.prev = None
    /\ svc' = [svc EXCEPT ![s] = service]

LEMMA LaterVersionKeepsListed ==
    ASSUME IInv, NEW s \in Services, NEW service, Outdates(s, service),
           UNCHANGED seen
    PROVE  Listed'
<1> SUFFICES ASSUME NEW c \in Commands, NEW r \in Services
             PROVE  /\ seen[c][r].ver <= svc'[r].ver
                    /\ seen[c][r].ver = svc'[r].ver => seen[c][r] = svc'[r]
  BY DEF Listed
<1>1. /\ svc[r] \in Service /\ seen[c][r] \in Service
      /\ seen[c][r].ver <= svc[r].ver
      /\ seen[c][r].ver = svc[r].ver => seen[c][r] = svc[r]
  BY DEF IInv, Types, TypeOK, Listed
<1>2. svc[r].ver \in Nat /\ seen[c][r].ver \in Nat
  BY <1>1 DEF Service
<1>3. CASE r = s
  <2>1. svc'[r].ver = svc[r].ver + 1
    BY <1>3 DEF Outdates, IInv, Types, TypeOK
  <2>2. QED
    BY <1>1, <1>2, <2>1
<1>4. CASE r # s
  <2>1. svc'[r] = svc[r]
    BY <1>4 DEF Outdates, IInv, Types, TypeOK
  <2>2. QED
    BY <1>1, <2>1
<1>5. QED
  BY <1>3, <1>4

\* The obligation of a command towards one service.
Dealt(old, new) ==
    Exists(old) /\ old.prev # None =>
        /\ new.ver > old.ver
        /\ new.ver = old.ver + 1 => new.spec = old.prev /\ new.prev = old.spec

LEMMA LaterVersionKeepsDealt ==
    ASSUME IInv, NEW s \in Services, NEW service, Outdates(s, service),
           NEW c \in Commands, NEW r \in Services, Dealt(seen[c][r], svc[r])
    PROVE  Dealt(seen[c][r], svc'[r])
<1>1. svc[r].ver \in Nat /\ seen[c][r].ver \in Nat
  BY DEF IInv, Types, TypeOK, Service
<1>2. CASE r = s
  <2>1. svc'[r].ver = svc[r].ver + 1
    BY <1>2 DEF Outdates, IInv, Types, TypeOK
  <2>2. QED
    BY <1>1, <2>1 DEF Dealt
<1>3. CASE r # s
  <2>1. svc'[r] = svc[r]
    BY <1>3 DEF Outdates, IInv, Types, TypeOK
  <2>2. QED
    BY <2>1 DEF Dealt
<1>4. QED
  BY <1>2, <1>3

LEMMA RevertedOrToldIsDealt ==
    RevertedOrTold <=>
        \A c \in Commands :
            pc[c] \in {"loop", "done", "killed"} =>
                \A s \in Services \ (todo[c] \cup warned[c]) :
                    Dealt(seen[c][s], svc[s])
  BY DEF RevertedOrTold, Dealt

-----------------------------------------------------------------------------
(***************************************************************************)
(* The applies and the orchestrator.                                       *)
(***************************************************************************)
LEMMA BumpKeepsIInv ==
    ASSUME IInv, NEW s \in Services, Bump(s)
    PROVE  IInv'
<1> DEFINE bumped == [svc[s] EXCEPT !.ver = @ + 1]
<1>1. svc[s] \in Service
  BY DEF IInv, Types, TypeOK
<1>2. /\ bumped \in Service /\ bumped.ver = svc[s].ver + 1
      /\ bumped.spec = svc[s].spec /\ bumped.prev = svc[s].prev
  BY <1>1 DEF Service
<1>3. svc' = [svc EXCEPT ![s] = bumped]
  BY DEF Bump
<1>4. Outdates(s, bumped)
  BY <1>2, <1>3 DEF Outdates, Bump, Exists
<1> HIDE DEF bumped
<1>5. Types'
  <2>1. /\ bumps' \in Nat
        /\ UNCHANGED <<apply, gen, file, before, last, pc, seen, todo, warned>>
    BY DEF Bump, IInv, Types, TypeOK, applies, commands
  <2>2. /\ svc' \in [Services -> Service]
        /\ \A r \in Services : Exists(svc'[r]) \/ svc'[r].prev = None
    BY <1>3, <1>4 DEF IInv, Types, TypeOK, Outdates, Exists
  <2>3. QED
    BY <2>1, <2>2 DEF IInv, Types, TypeOK, Exists
<1>6. Listed'
  BY <1>4, LaterVersionKeepsListed DEF Bump, commands
<1>7. TwoSpecsKept'
  BY <1>2, <1>3
     DEF Bump, IInv, Types, TypeOK, TwoSpecsKept, SpecsOf, applies
<1>8. RevertedOrTold'
  BY <1>4, LaterVersionKeepsDealt DEF IInv, RevertedOrTold, Dealt, Bump, commands
<1>9. QED
  BY <1>5, <1>6, <1>7, <1>8 DEF IInv

\* An apply writes or removes a service.
LEMMA ApplySetsKeepsIInv ==
    ASSUME IInv, NEW s \in Services, NEW service, Outdates(s, service),
           ApplySets(s, service), UNCHANGED apply, file' \subseteq file
    PROVE  IInv'
<1>1. Types'
  <2>1. SpecsOf(service) \subseteq Specs
    BY DEF SpecsOf, Outdates, Service
  <2>2. QED
    BY <2>1 DEF ApplySets, IInv, Types, TypeOK, Outdates, commands, Exists
<1>2. Listed'
  BY LaterVersionKeepsListed DEF ApplySets, commands
<1>3. TwoSpecsKept'
  BY DEF ApplySets, IInv, Types, TypeOK, TwoSpecsKept
<1>4. RevertedOrTold'
  BY LaterVersionKeepsDealt DEF IInv, RevertedOrTold, Dealt, ApplySets, commands
<1>5. QED
  BY <1>1, <1>2, <1>3, <1>4 DEF IInv

LEMMA ApplyKeepsIInv ==
    ASSUME IInv, ApplyStep
    PROVE  IInv'
<1> USE RollbackCommandAssumption
<1>1. ASSUME ApplyBegins \/ ApplyRollsBack \/ ApplyEnds PROVE IInv'
  <2>1. UNCHANGED <<svc, bumps, last, pc, seen, todo, warned>>
    BY <1>1 DEF ApplyBegins, ApplyRollsBack, ApplyEnds, cluster, commands
  <2>2. /\ apply' \in {"idle", "deploy", "restore"} /\ gen' \in Nat
        /\ file' \subseteq Services /\ before' \in [Services -> Specs]
    BY <1>1 DEF ApplyBegins, ApplyRollsBack, ApplyEnds, IInv, Types, TypeOK, Service
  <2>3. QED
    BY <2>1, <2>2
       DEF IInv, Types, TypeOK, Listed, TwoSpecsKept, RevertedOrTold, Exists, SpecsOf
<1>2. ASSUME NEW s \in Services, ApplyDeploys(s) PROVE IInv'
  <2>1. svc[s] \in Service /\ gen \in Specs /\ gen # None
    BY DEF IInv, Types, TypeOK, Specs
  <2>2. Outdates(s, Written(svc[s], gen))
    BY <1>2, <2>1, WrittenIsService DEF ApplyDeploys, ApplySets, Outdates, Exists
  <2>3. QED
    BY <1>2, <2>2, ApplySetsKeepsIInv DEF ApplyDeploys
<1>3. ASSUME NEW s \in Services, ApplyRestores(s) PROVE IInv'
  <2>1. svc[s] \in Service /\ before[s] \in Specs
    BY DEF IInv, Types, TypeOK
  <2>2. CASE before[s] = None
    <3>1. Outdates(s, Removed(svc[s]))
      BY <1>3, <2>1, <2>2, RemovedIsService DEF ApplyRestores, ApplySets, Outdates
    <3>2. QED
      BY <1>3, <2>2, <3>1, ApplySetsKeepsIInv DEF ApplyRestores
  <2>3. CASE before[s] # None
    <3>1. Outdates(s, Written(svc[s], before[s]))
      BY <1>3, <2>1, <2>3, WrittenIsService
         DEF ApplyRestores, ApplySets, Outdates, Exists
    <3>2. QED
      BY <1>3, <2>3, <3>1, ApplySetsKeepsIInv DEF ApplyRestores
  <2>4. QED
    BY <2>2, <2>3
<1>4. QED
  BY <1>1, <1>2, <1>3 DEF ApplyStep

-----------------------------------------------------------------------------
(***************************************************************************)
(* The command.                                                            *)
(***************************************************************************)
LEMMA ListKeepsIInv ==
    ASSUME IInv, NEW c \in Commands, List(c)
    PROVE  IInv'
<1> USE DEF List, cluster, applies
<1>1. Types'
  BY DEF IInv, Types, TypeOK, Listing, Exists
<1>2. Listed'
  <2> SUFFICES ASSUME NEW d \in Commands, NEW s \in Services
               PROVE  /\ seen'[d][s].ver <= svc[s].ver
                      /\ seen'[d][s].ver = svc[s].ver => seen'[d][s] = svc[s]
    BY DEF Listed
  <2>1. seen'[d] = svc \/ seen'[d] = seen[d]
    BY DEF IInv, Types, TypeOK
  <2>2. svc[s].ver \in Nat
    BY DEF IInv, Types, TypeOK, Service
  <2>3. QED
    BY <2>1, <2>2 DEF IInv, Listed
<1>3. TwoSpecsKept'
  BY DEF IInv, TwoSpecsKept, SpecsOf
<1>4. RevertedOrTold'
  <2> SUFFICES ASSUME NEW d \in Commands, pc'[d] \in {"loop", "done", "killed"},
                      NEW s \in Services \ (todo'[d] \cup warned'[d])
               PROVE  Dealt(seen'[d][s], svc'[s])
    BY DEF RevertedOrTold, Dealt
  <2>1. CASE d = c
    <3>1. seen'[c] = svc /\ todo'[c] = {r \in Services : Exists(svc[r])}
      BY DEF IInv, Types, TypeOK, Listing
    <3>2. ~Exists(svc[s])
      BY <2>1, <3>1
    <3>3. QED
      BY <2>1, <3>1, <3>2 DEF Dealt
  <2>2. CASE d # c
    <3>1. /\ seen'[d] = seen[d] /\ todo'[d] = todo[d] /\ pc'[d] = pc[d]
          /\ UNCHANGED <<svc, warned>>
      BY <2>2 DEF IInv, Types, TypeOK
    <3>2. QED
      BY <3>1 DEF IInv, RevertedOrTold, Dealt
  <2>3. QED
    BY <2>1, <2>2
<1>5. QED
  BY <1>1, <1>2, <1>3, <1>4 DEF IInv

\* Returning, failing and being killed change nothing that is listed, left to do
\* or warned about.
LEMMA EndKeepsIInv ==
    ASSUME IInv, NEW c \in Commands, ListFails(c) \/ Return(c) \/ Kill(c)
    PROVE  IInv'
<1>1. UNCHANGED <<cluster, applies, seen, todo, warned>>
  BY DEF ListFails, Return, Kill
<1>2. /\ pc' \in [Commands -> {"start", "loop", "done", "failed", "killed"}]
      /\ \A d \in Commands :
            \/ pc'[d] = pc[d]
            \/ /\ d = c /\ pc'[c] # "start"
               /\ pc'[c] # "failed" => pc[c] = "loop"
  BY DEF ListFails, Return, Kill, IInv, Types, TypeOK
<1>3. Types'
  BY <1>1, <1>2 DEF IInv, Types, TypeOK, cluster, applies, Exists
<1>4. Listed' /\ TwoSpecsKept'
  BY <1>1 DEF IInv, Listed, TwoSpecsKept, SpecsOf, cluster, applies
<1>5. RevertedOrTold'
  BY <1>1, <1>2 DEF IInv, RevertedOrTold, cluster
<1>6. QED
  BY <1>3, <1>4, <1>5 DEF IInv

\* A visited service is off the list, with a warning or without.
Visited(c, s) ==
    /\ s \in todo[c] /\ pc[c] = "loop" /\ pc' = pc
    /\ todo' = [todo EXCEPT ![c] = @ \ {s}]
    /\ UNCHANGED warned \/ warned' = [warned EXCEPT ![c] = @ \cup {s}]

LEMMA VisitedIsTyped ==
    ASSUME IInv, NEW c \in Commands, NEW s \in Services, Visited(c, s)
    PROVE  /\ todo' \in [Commands -> SUBSET Services]
           /\ warned' \in [Commands -> SUBSET Services]
           /\ \A d \in Commands : todo'[d] \cap warned'[d] = {}
           /\ \A d \in Commands : pc'[d] = "start" => warned'[d] = {}
<1>1. /\ todo \in [Commands -> SUBSET Services]
      /\ warned \in [Commands -> SUBSET Services]
      /\ \A d \in Commands : todo[d] \cap warned[d] = {}
      /\ \A d \in Commands : pc[d] = "start" => warned[d] = {}
  BY DEF IInv, Types, TypeOK
<1>2. /\ todo' \in [Commands -> SUBSET Services]
      /\ warned' \in [Commands -> SUBSET Services]
  BY <1>1 DEF Visited
<1>3. ASSUME NEW d \in Commands
      PROVE  /\ todo'[d] \cap warned'[d] = {}
             /\ pc'[d] = "start" => warned'[d] = {}
  <2>1. CASE d = c
    <3>1. todo'[c] = todo[c] \ {s} /\ warned'[c] \subseteq warned[c] \cup {s}
      BY <1>1 DEF Visited
    <3>2. pc'[d] # "start"
      BY <2>1 DEF Visited
    <3>3. QED
      BY <1>1, <2>1, <3>1, <3>2
  <2>2. CASE d # c
    <3>1. todo'[d] = todo[d] /\ warned'[d] = warned[d] /\ pc'[d] = pc[d]
      BY <1>1, <2>2 DEF Visited
    <3>2. QED
      BY <1>1, <3>1
  <2>3. QED
    BY <2>1, <2>2
<1>4. QED
  BY <1>2, <1>3

\* Passing over a service, with a warning or because it has nothing to go back
\* to.
LEMMA PassKeepsIInv ==
    ASSUME IInv, NEW c \in Commands, NEW s \in Services,
           Skip(c, s) \/ RevertFails(c, s)
    PROVE  IInv'
<1> USE DEF Skip, RevertFails, Visit, Warn, applies
<1>1. /\ UNCHANGED <<svc, bumps, apply, gen, file, before, last, pc, seen>>
      /\ todo' = [todo EXCEPT ![c] = @ \ {s}] /\ s \in todo[c] /\ pc[c] = "loop"
      /\ \/ UNCHANGED warned /\ seen[c][s].prev = None
         \/ warned' = [warned EXCEPT ![c] = @ \cup {s}]
  OBVIOUS
<1>2. Types'
  <2>1. Visited(c, s)
    BY <1>1 DEF Visited
  <2>2. QED
    BY <1>1, <2>1, VisitedIsTyped DEF IInv, Types, TypeOK, Exists
<1>3. Listed' /\ TwoSpecsKept'
  BY <1>1 DEF IInv, Listed, TwoSpecsKept, SpecsOf
<1>4. RevertedOrTold'
  <2> SUFFICES ASSUME NEW d \in Commands, pc'[d] \in {"loop", "done", "killed"},
                      NEW r \in Services \ (todo'[d] \cup warned'[d])
               PROVE  Dealt(seen[d][r], svc[r])
    BY <1>1 DEF RevertedOrTold, Dealt
  <2>1. CASE d = c /\ r = s
    BY <1>1, <2>1 DEF Dealt, IInv, Types, TypeOK
  <2>2. CASE ~(d = c /\ r = s)
    <3>1. r \notin todo[d] \cup warned[d]
      BY <1>1, <2>2 DEF IInv, Types, TypeOK
    <3>2. QED
      BY <1>1, <3>1 DEF IInv, RevertedOrTold, Dealt
  <2>3. QED
    BY <2>1, <2>2
<1>5. QED
  BY <1>2, <1>3, <1>4 DEF IInv

\* An accepted update swaps the two specs the service holds, because they are
\* the ones that were listed.
LEMMA RevertKeepsIInv ==
    ASSUME IInv, NEW c \in Commands, NEW s \in Services, Revert(c, s)
    PROVE  IInv'
<1> DEFINE reverted == Written(svc[s], seen[c][s].prev)
<1>1. /\ UNCHANGED <<bumps, apply, gen, file, before, last, pc, seen>>
      /\ todo' = [todo EXCEPT ![c] = @ \ {s}] /\ s \in todo[c] /\ pc[c] = "loop"
      /\ UNCHANGED warned \/ warned' = [warned EXCEPT ![c] = @ \cup {s}]
      /\ svc' = [svc EXCEPT ![s] = reverted] /\ seen[c][s].prev # None
  BY DEF Revert, Visit, Warn, applies
<1>2. seen[c][s] = svc[s] /\ svc[s] \in Service /\ svc[s].ver \in Nat
  BY DEF Revert, Accepts, IInv, Listed, Types, TypeOK, Service
<1>3. /\ reverted \in Service /\ reverted.ver = svc[s].ver + 1
      /\ reverted.spec = svc[s].prev /\ reverted.prev = svc[s].spec
  <2>1. seen[c][s].prev \in Specs /\ svc[s].prev = seen[c][s].prev
    BY <1>2 DEF Service
  <2>2. QED
    BY <1>2, <2>1, WrittenIsService
<1> HIDE DEF reverted
<1>4. Outdates(s, reverted)
  BY <1>1, <1>2, <1>3 DEF Outdates, Exists
<1>5. Types'
  <2>1. /\ svc' \in [Services -> Service]
        /\ \A r \in Services : Exists(svc'[r]) \/ svc'[r].prev = None
    BY <1>4 DEF IInv, Types, TypeOK, Outdates, Exists
  <2>2. Visited(c, s)
    BY <1>1 DEF Visited
  <2>3. QED
    BY <1>1, <2>1, <2>2, VisitedIsTyped DEF IInv, Types, TypeOK, Exists
<1>6. Listed'
  BY <1>1, <1>4, LaterVersionKeepsListed
<1>7. TwoSpecsKept'
  BY <1>1, <1>3 DEF IInv, Types, TypeOK, TwoSpecsKept, SpecsOf
<1>8. RevertedOrTold'
  <2> SUFFICES ASSUME NEW d \in Commands, pc'[d] \in {"loop", "done", "killed"},
                      NEW r \in Services \ (todo'[d] \cup warned'[d])
               PROVE  Dealt(seen[d][r], svc'[r])
    BY <1>1 DEF RevertedOrTold, Dealt
  <2>1. CASE d = c /\ r = s
    <3>1. svc'[s] = reverted
      BY <1>1 DEF IInv, Types, TypeOK
    <3>2. QED
      BY <1>2, <1>3, <2>1, <3>1 DEF Dealt
  <2>2. CASE ~(d = c /\ r = s)
    <3>1. r \notin todo[d] \cup warned[d]
      BY <1>1, <2>2 DEF IInv, Types, TypeOK
    <3>2. Dealt(seen[d][r], svc[r])
      BY <1>1, <3>1 DEF IInv, RevertedOrTold, Dealt
    <3>3. QED
      BY <1>4, <3>2, LaterVersionKeepsDealt
  <2>3. QED
    BY <2>1, <2>2
<1>9. QED
  BY <1>5, <1>6, <1>7, <1>8 DEF IInv

LEMMA StutterKeepsIInv ==
    ASSUME IInv, UNCHANGED vars
    PROVE  IInv'
<1>1. Types'
  BY DEF IInv, Types, TypeOK, Exists, vars, cluster, applies, commands
<1>2. Listed' /\ TwoSpecsKept' /\ RevertedOrTold'
  BY DEF IInv, Listed, TwoSpecsKept, RevertedOrTold, SpecsOf, Exists, vars,
         cluster, applies, commands
<1>3. QED
  BY <1>1, <1>2 DEF IInv

\* Every reachable state satisfies the inductive invariant.
THEOREM RollbackCommandInvariance == Spec => []IInv
<1>1. IInv /\ [Next]_vars => IInv'
  BY ListKeepsIInv, EndKeepsIInv, PassKeepsIInv, RevertKeepsIInv,
     ApplyKeepsIInv, BumpKeepsIInv, StutterKeepsIInv
     DEF Next, CommandStep
<1>2. QED
  BY InitIInv, <1>1, PTL DEF Spec

\* Types; a command warns about what it has visited only.
THEOREM RollbackCommandTypes == Spec => []TypeOK
<1>1. IInv => TypeOK
  BY DEF IInv, Types
<1>2. QED
  BY <1>1, RollbackCommandInvariance, PTL

\* Whatever runs of the command and applies meet, a service keeps the two specs
\* the last apply to write it left there (ServiceUpdate is given the version and
\* the PreviousSpec of one listing).
THEOREM NoSpecOlderThanLastApply == Spec => []TwoSpecsKept
<1>1. IInv => TwoSpecsKept
  BY DEF IInv
<1>2. QED
  BY <1>1, RollbackCommandInvariance, PTL

\* Wherever a run of the command stops, each service it has dealt with and did
\* not warn about was reverted, or had nothing to go back to.
THEOREM NothingSkippedSilently == Spec => []RevertedOrTold
<1>1. IInv => RevertedOrTold
  BY DEF IInv
<1>2. QED
  BY <1>1, RollbackCommandInvariance, PTL
=============================================================================
