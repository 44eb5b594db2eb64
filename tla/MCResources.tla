----------------------------- MODULE MCResources -----------------------------
(* Resources for TLC: applies, services and names are model values.  The   *)
(* files declare every set of networks, and volumes next to some of them;  *)
(* only one of them has no service on the default network.                 *)
EXTENDS Resources

CONSTANT n1

FilesInUse ==
    {f \in File : /\ f.volumes = IF n1 \in f.networks THEN Volumes ELSE {}
                  /\ f.plain = {} => f.networks = {n1}}
=============================================================================
