------------------------------ MODULE StackTxn ------------------------------
(***************************************************************************)
(* What an apply promises about the specs of a stack, as a transaction     *)
(* over the services.  While it is open, the services of the compose file  *)
(* go to their new spec and the others may go away, in any order.  It then *)
(* ends in one of three ways: kept, with every service of the compose file *)
(* new; undone, with every service of the compose file that was there      *)
(* before old again; or left half way, which is all that is promised when  *)
(* the Swarm API fails.  What the compose file does not name may be lost.  *)
(*                                                                         *)
(* Other clients may write any service at any time; nothing is promised of *)
(* the spec of a service they wrote.                                       *)
(***************************************************************************)
CONSTANT Services

VARIABLES
    desired,   \* the services of the compose file
    before,    \* the services that were there when the transaction opened
    spec,      \* per service: none, old, new or foreign
    foreign,   \* services another client wrote
    phase      \* open, kept, undoing, undone, or half (given up half way)

vars == <<desired, before, spec, foreign, phase>>

Init ==
    /\ desired \in SUBSET Services /\ before \in SUBSET Services
    /\ spec = [s \in Services |-> IF s \in before THEN "old" ELSE "none"]
    /\ foreign = {} /\ phase = "open"

SetSpec(s, value) ==
    /\ spec' = [spec EXCEPT ![s] = value]
    /\ UNCHANGED <<desired, before, foreign>>

Deploy(s) ==
    /\ phase = "open" /\ s \in desired /\ SetSpec(s, "new")
    /\ UNCHANGED phase

Drop(s) ==
    /\ phase = "open" /\ s \notin desired /\ SetSpec(s, "none")
    /\ UNCHANGED phase

\* A write whose answer is lost: it takes effect and ends the transaction.
DeployAndStop(s) ==
    /\ phase = "open" /\ s \in desired /\ SetSpec(s, "new")
    /\ phase' = "half"

DropAndStop(s) ==
    /\ phase = "open" /\ s \notin desired /\ SetSpec(s, "none")
    /\ phase' = "half"

Keep ==
    /\ phase = "open" /\ \A s \in desired \ foreign : spec[s] = "new"
    /\ phase' = "kept" /\ UNCHANGED <<desired, before, spec, foreign>>

BeginUndo ==
    /\ phase = "open" /\ \A s \in desired \ foreign : spec[s] = "new"
    /\ phase' = "undoing" /\ UNCHANGED <<desired, before, spec, foreign>>

\* A service that was there is given its old spec, one that was not goes away.
Undo(s) ==
    /\ phase = "undoing" /\ s \notin foreign
    /\ SetSpec(s, IF s \in before THEN "old" ELSE "none")

Undone ==
    /\ phase = "undoing"
    /\ \A s \in (desired \cap before) \ foreign : spec[s] = "old"
    /\ phase' = "undone" /\ UNCHANGED <<desired, before, spec, foreign>>

GiveUp ==
    /\ phase \in {"open", "undoing"}
    /\ phase' = "half" /\ UNCHANGED <<desired, before, spec, foreign>>

\* Another client writes a service, and what the transaction then does to it is
\* not constrained.
Foreign(s) ==
    /\ foreign' = foreign \cup {s}
    /\ \E value \in {"none", "old", "new", "foreign"} :
          spec' = [spec EXCEPT ![s] = value]
    /\ UNCHANGED <<desired, before>>
    /\ \/ UNCHANGED phase
       \/ phase \in {"open", "undoing"} /\ phase' = "half"

Next ==
    \/ \E s \in Services :
          \/ Deploy(s) \/ Drop(s) \/ DeployAndStop(s) \/ DropAndStop(s)
          \/ Undo(s) /\ phase' \in {"undoing", "half"}
          \/ Foreign(s)
    \/ Keep \/ BeginUndo \/ Undone \/ GiveUp

Spec == Init /\ [][Next]_vars
=============================================================================
