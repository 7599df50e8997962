----------------------------- MODULE MCReconcile -----------------------------
(* Two tasks on one route table or one listener.                             *)
EXTENDS Reconcile, TLC

CONSTANTS t1, t2, k1, k2, local

MCTasks  == {t1, t2}
MCKeys   == {k1, k2, local}
MCFaults == {[done |-> TRUE, retry |-> TRUE], [done |-> FALSE, retry |-> FALSE]}

Of(v1, v2, v3) == (k1 :> v1) @@ (k2 :> v2) @@ (local :> v3)
Routes(v1, v2) == [kind |-> "routes", state |-> "present", label |-> "a", listed |-> TRUE,
                   want |-> Of(v1, v2, None), purge |-> TRUE, check |-> FALSE, after |-> {}]
Targets(v1, v2, purge) ==
  [Routes(v1, v2) EXCEPT !.kind = "targets", !.purge = purge]

Then(p, q)    == (t1 :> p) @@ (t2 :> [q EXCEPT !.after = {t1}])
Besides(p, q) == (t1 :> p) @@ (t2 :> q)
Gone(p)       == [p EXCEPT !.state = "absent"]

Holding(label, entries) == [exists |-> TRUE, twins |-> FALSE, label |-> label, entries |-> entries]
Tables    == {Holding(l, Of("a", v, "a")) : l \in {"a", "b"}, v \in {"b", None}}
NoTable   == [Holding("a", Of(None, None, None)) EXCEPT !.exists = FALSE]
Listeners == {Holding("a", Of("a", v, None)) : v \in {"b", None}}

RouteAsks  == {Routes("a", "a"), Routes(None, "b"), Gone(Routes("a", "a")),
               [Routes("a", "b") EXCEPT !.listed = FALSE], [Routes("b", "a") EXCEPT !.check = TRUE]}
TargetAsks == {Targets("a", "a", TRUE), Targets("a", None, TRUE), Targets(None, "b", TRUE),
               Targets(None, "b", FALSE), Gone(Targets("a", "b", TRUE))}
Adds       == {Targets("a", "a", FALSE), Targets(None, "b", FALSE)}

MCScenarios ==
  {[asks |-> f, cloud |-> c] :
     f \in {Then(p, q) : p, q \in RouteAsks}, c \in Tables \cup {NoTable}}
    \cup {[asks |-> Besides(Routes("a", "a"), q), cloud |-> c] :
            q \in {Routes("a", "b"), Routes("a", None)}, c \in Tables}
    \cup {[asks |-> f, cloud |-> c] :
            f \in {Then(p, q) : p, q \in TargetAsks} \cup {Besides(p, q) : p, q \in Adds},
            c \in Listeners}
=============================================================================
