----------------------------- MODULE MCPlanner -----------------------------
\* Planner for TLC: a stack "app" whose cluster has two services of one plan
\* name, a network named without the stack, and a config.
EXTENDS Planner

Service(name, differs) == [kind |-> "services", name |-> name, differs |-> differs]
Resource(kind, name) == [kind |-> kind, name |-> name, differs |-> {}]

AppObjects == {
    Service(<<"app", "_", "web">>, {"image"}),
    Service(<<"app", "-", "web">>, {}),
    Service(<<"app", "_", "db">>, {}),
    Resource("networks", <<"app", "_", "net">>),
    Resource("networks", <<"net">>),
    Resource("volumes",  <<"app", "_", "vol">>),
    Resource("configs",  <<"app", "_", "cfg">>)}

AppKeys == [k \in Kinds |->
    CASE k = "services" -> {<<"web">>, <<"db">>}
      [] k = "networks" -> {<<"net">>}
      [] k = "volumes"  -> {<<"vol">>}
      [] k = "configs"  -> {<<"cfg">>}]
=============================================================================
