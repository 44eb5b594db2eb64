-------------------------- MODULE RollbackCommand --------------------------
(***************************************************************************)
(* `stackman rollback`, cmd/rollback.go: one pass over the services of a   *)
(* stack that asks Swarm to put the spec before the current one back.      *)
(*                                                                         *)
(* Each service of the cluster holds two specs, Spec and PreviousSpec, and *)
(* every update moves the first into the second.  Several operators may    *)
(* run the command, while applies write the services one after the other,  *)
(* die half way, or put their own snapshot back.                           *)
(***************************************************************************)
EXTENDS Naturals

CONSTANTS
    Services,    \* names a service of the stack can have
    Commands,    \* runs of the command
    None,        \* no spec
    LastGen,     \* bound on the applies: the number of the last one
    MaxBumps     \* bound on version bumps by the orchestrator

ASSUME RollbackCommandAssumption ==
    None \notin Nat /\ LastGen \in Nat /\ MaxBumps \in Nat

VARIABLES
    svc,      \* the cluster: per name its two specs and its version
    bumps,    \* version bumps so far
    apply,    \* what the apply at work is doing
    gen,      \* the number of the last apply, which it writes as the spec
    file,     \* services of the compose file the apply has still to write
    before,   \* the specs the apply found, its snapshot
    pc,       \* per command: where it is
    seen,     \* per command: the services as it listed them
    todo,     \* per command: listed services it has still to visit
    warned,   \* per command: services it logged a warning for
    last      \* per name: the two specs the last apply to write it left there

cluster  == <<svc, bumps>>
applies  == <<apply, gen, file, before, last>>
commands == <<pc, seen, todo, warned>>
vars == <<cluster, applies, commands>>

-----------------------------------------------------------------------------
(***************************************************************************)
(* The cluster, as the code uses it.  A name that is free keeps its last   *)
(* version, so that what was listed before a removal never matches again.  *)
(***************************************************************************)
Exists(service) == service.spec # None
Listing == {s \in Services : Exists(svc[s])}

Written(service, spec) ==
    [spec |-> spec, prev |-> service.spec, ver |-> service.ver + 1]

Removed(service) == [spec |-> None, prev |-> None, ver |-> service.ver + 1]

\* ServiceUpdate refuses a version other than the current one.
Accepts(s, known) == Exists(svc[s]) /\ svc[s].ver = known.ver

SpecsOf(service) == {service.spec, service.prev}

Never == [spec |-> None, prev |-> None, ver |-> 0]

\* A service that is missing, one that was written once, and one that was
\* written by two applies.
Init ==
    /\ svc \in [Services -> {Removed(Never), Written(Never, 1),
                             Written(Written(Never, 0), 1)}]
    /\ bumps = 0
    /\ apply = "idle" /\ gen = 1 /\ file = {}
    /\ before = [s \in Services |-> None]
    /\ pc = [c \in Commands |-> "start"]
    /\ seen = [c \in Commands |-> svc]
    /\ todo = [c \in Commands |-> {}] /\ warned = [c \in Commands |-> {}]
    /\ last = [s \in Services |-> SpecsOf(svc[s])]

-----------------------------------------------------------------------------
(***************************************************************************)
(* The command.                                                            *)
(***************************************************************************)
List(c) ==
    /\ pc[c] = "start"
    /\ seen' = [seen EXCEPT ![c] = svc]
    /\ todo' = [todo EXCEPT ![c] = Listing]
    /\ pc' = [pc EXCEPT ![c] = IF Listing = {} THEN "done" ELSE "loop"]
    /\ UNCHANGED <<cluster, applies, warned>>

\* The only error the command returns.
ListFails(c) ==
    /\ pc[c] = "start"
    /\ pc' = [pc EXCEPT ![c] = "failed"]
    /\ UNCHANGED <<cluster, applies, seen, todo, warned>>

\* Fault: a service is not taken off the list.
VisitAgain(c, s) ==
    /\ pc[c] = "loop" /\ s \in todo[c]
    /\ UNCHANGED <<bumps, applies, pc, seen, todo>>

Visit(c, s) ==
    /\ pc[c] = "loop" /\ s \in todo[c]
    /\ todo' = [todo EXCEPT ![c] = @ \ {s}]
    /\ UNCHANGED <<bumps, applies, pc, seen>>

Warn(c, s) == warned' = [warned EXCEPT ![c] = @ \cup {s}]

\* Fault: a service without a previous spec ends the loop.
SkipRest(c, s) ==
    /\ pc[c] = "loop" /\ s \in todo[c] /\ seen[c][s].prev = None
    /\ todo' = [todo EXCEPT ![c] = {}]
    /\ UNCHANGED <<cluster, applies, pc, seen, warned>>

Skip(c, s) ==
    /\ Visit(c, s) /\ seen[c][s].prev = None
    /\ UNCHANGED <<svc, warned>>

\* Fault: the version is read again before the update.
RevertBlindly(c, s) ==
    /\ Visit(c, s) /\ seen[c][s].prev # None
    /\ Exists(svc[s])
    /\ svc' = [svc EXCEPT ![s] = Written(@, seen[c][s].prev)]
    /\ UNCHANGED warned

\* ServiceUpdate with the listed version and the listed PreviousSpec.  The
\* answer may get lost, which the command takes for a failure.
Revert(c, s) ==
    /\ Visit(c, s) /\ seen[c][s].prev # None
    /\ Accepts(s, seen[c][s])
    /\ svc' = [svc EXCEPT ![s] = Written(@, seen[c][s].prev)]
    /\ UNCHANGED warned \/ Warn(c, s)

\* Somebody wrote the service since it was listed, the API fails, or the
\* command's context has ended: a warning, and on to the next service.
RevertFails(c, s) ==
    /\ Visit(c, s) /\ seen[c][s].prev # None
    /\ Warn(c, s)
    /\ UNCHANGED svc

\* nil, whatever went wrong.
Return(c) ==
    /\ pc[c] = "loop" /\ todo[c] = {}
    /\ pc' = [pc EXCEPT ![c] = "done"]
    /\ UNCHANGED <<cluster, applies, seen, todo, warned>>

\* The command handles no signal: one kills it between two services.
Kill(c) ==
    /\ pc[c] = "loop" /\ todo[c] # {}
    /\ pc' = [pc EXCEPT ![c] = "killed"]
    /\ UNCHANGED <<cluster, applies, seen, todo, warned>>

-----------------------------------------------------------------------------
(***************************************************************************)
(* The applies, one after the other, and the orchestrator.                 *)
(***************************************************************************)
ApplyBegins ==
    /\ apply = "idle" /\ gen < LastGen
    /\ apply' = "deploy" /\ gen' = gen + 1
    /\ file' \in SUBSET Services \ {{}}
    /\ before' = [s \in Services |-> svc[s].spec]
    /\ UNCHANGED <<cluster, last, commands>>

ApplySets(s, service) ==
    /\ svc' = [svc EXCEPT ![s] = service]
    /\ last' = [last EXCEPT ![s] = SpecsOf(service)]
    /\ UNCHANGED <<bumps, gen, before, commands>>

\* A service is created or updated, unchanged ones too.
ApplyDeploys(s) ==
    /\ apply = "deploy" /\ s \in file
    /\ file' = file \ {s}
    /\ ApplySets(s, Written(svc[s], gen))
    /\ UNCHANGED apply

ApplyRollsBack ==
    /\ apply = "deploy" /\ file = {}
    /\ apply' = "restore"
    /\ UNCHANGED <<cluster, gen, file, before, last, commands>>

\* The snapshot goes back as one more update; a new service is removed.
ApplyRestores(s) ==
    /\ apply = "restore" /\ svc[s].spec = gen
    /\ ApplySets(s, IF before[s] = None THEN Removed(svc[s])
                                        ELSE Written(svc[s], before[s]))
    /\ UNCHANGED <<apply, file>>

\* The apply ends: with its work done, on an error, or killed on the way.
ApplyEnds ==
    /\ apply # "idle"
    /\ apply' = "idle" /\ file' = {}
    /\ UNCHANGED <<cluster, gen, before, last, commands>>

\* The orchestrator records the progress of an update in the service.
Bump(s) ==
    /\ Exists(svc[s]) /\ bumps < MaxBumps
    /\ bumps' = bumps + 1
    /\ svc' = [svc EXCEPT ![s].ver = @ + 1]
    /\ UNCHANGED <<applies, commands>>

-----------------------------------------------------------------------------
CommandStep(c) ==
    \/ List(c) \/ ListFails(c) \/ Return(c) \/ Kill(c)
    \/ \E s \in Services : Skip(c, s) \/ Revert(c, s) \/ RevertFails(c, s)

ApplyStep ==
    \/ ApplyBegins \/ ApplyRollsBack \/ ApplyEnds
    \/ \E s \in Services : ApplyDeploys(s) \/ ApplyRestores(s)

Next ==
    \/ \E c \in Commands : CommandStep(c)
    \/ ApplyStep
    \/ \E s \in Services : Bump(s)

Spec == Init /\ [][Next]_vars

-----------------------------------------------------------------------------
(***************************************************************************)
(* Properties.                                                             *)
(***************************************************************************)
Specs == Nat \cup {None}
Service == [spec : Specs, prev : Specs, ver : Nat]

\* Types; a command only visits and warns about what it listed, and a spec to
\* go back to belongs to a service that exists.
TypeOK ==
    /\ svc \in [Services -> Service] /\ bumps \in Nat
    /\ \A s \in Services : Exists(svc[s]) \/ svc[s].prev = None
    /\ apply \in {"idle", "deploy", "restore"}
    /\ gen \in Nat /\ file \subseteq Services
    /\ before \in [Services -> Specs]
    /\ pc \in [Commands -> {"start", "loop", "done", "failed", "killed"}]
    /\ seen \in [Commands -> [Services -> Service]]
    /\ todo \in [Commands -> SUBSET Services]
    /\ warned \in [Commands -> SUBSET Services]
    /\ \A c \in Commands : todo[c] \cap warned[c] = {}
    /\ last \in [Services -> SUBSET Specs]

\* However many runs of the command meet, on whatever applies and their own
\* rollbacks leave behind, each service holds the two specs the last apply to
\* write it left there: a revert can always be reverted, and no run puts back a
\* spec from before that apply (the listed version goes with the update).
TwoSpecsKept == \A s \in Services : SpecsOf(svc[s]) = last[s]

\* A service the command has dealt with, and did not warn about, had nothing to
\* go back to, or was reverted: it has been written since, and if by nobody
\* else, it has the two specs that were listed the other way round.  So it is
\* when the command was killed between two services, too.
RevertedOrTold ==
    \A c \in Commands :
        pc[c] \in {"loop", "done", "killed"} =>
            \A s \in Services \ (todo[c] \cup warned[c]) :
                LET old == seen[c][s] new == svc[s] IN
                Exists(old) /\ old.prev # None =>
                    /\ new.ver > old.ver
                    /\ new.ver = old.ver + 1 =>
                          new.spec = old.prev /\ new.prev = old.spec
=============================================================================
