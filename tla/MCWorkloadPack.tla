--------------------------- MODULE MCWorkloadPack ---------------------------
(* A small instance of WorkloadPack: a project with a module below a root  *)
(* and an entry outside of it; a service of three cells and two profiles,  *)
(* one of one cell and none, and one that is refused; a second manifest, and *)
(* one outside the project.                                                *)
EXTENDS WorkloadPack

CONSTANTS module, entry, second, outside, src, v1, v2

Cell(key, ingress, class, group, refs, event) ==
    [key |-> key, ingress |-> ingress, class |-> class, group |-> group, refs |-> refs,
     event |-> event, scheduled |-> FALSE]

Api    == Cell("api", "http", "native-http", "front", {"db"}, Null)
Worker == Cell("worker", "event", "native-worker", "front", {"db", "queue"}, "queue")
Kernel == Cell("kernel", "workflow", "embedded-kernel", "back", {}, Null)

Dev    == [id |-> "dev", placement |-> "co-located"]
Prod   == [id |-> "prod", placement |-> "split-by-cell"]
Again  == [id |-> "dev", placement |-> "split-by-cell"]

Bound  == <<[name |-> "db", kind |-> "postgres"], [name |-> "queue", kind |-> "amqp"]>>

Large  == [bindings |-> Bound, cells |-> <<Worker, Api, Kernel>>, profiles |-> <<Dev, Prod>>]
Small  == [bindings |-> Bound, cells |-> <<Api>>, profiles |-> <<>>]
Double == [bindings |-> Bound, cells |-> <<Api>>, profiles |-> <<Dev, Again>>]

Project == [entry |-> entry, roots |-> <<src>>]

MCUnder == [r \in Roots |-> {module, second}]

MCHolds ==
    [f \in Files |->
        CASE f = X07Json -> {Project}
          [] f = Index   -> {Large, Small, Double}
          [] f = second  -> {Small}
          [] f = outside -> {Small}
          [] f = module  -> {v1, v2}
          [] OTHER       -> {v1}]

MCTrees ==
    {[f \in Files |->
        CASE f = X07Json              -> Project
          [] f = Index                -> Large
          [] f \in {second, outside}  -> Small
          [] OTHER                    -> v1]}

Command(kind, manifest, fromPack, profile) ==
    [kind |-> kind, project |-> X07Json, manifest |-> manifest, fromPack |-> fromPack, profile |-> profile]

MCCommandLines ==
    {Command("build", Index, FALSE, Null),
     Command("pack", Index, FALSE, Null),
     Command("pack", second, FALSE, Null),
     Command("pack", outside, FALSE, Null),
     Command("inspect", Index, TRUE, Null),
     Command("preview", Index, TRUE, "prod"),
     Command("validate", Index, FALSE, Null)}
=============================================================================
