--------------------------- MODULE MCHttpRegress ---------------------------
(* A small instance of HttpRegress: a pure build and one that answers only *)
(* its first call, traces the one repeats, neither repeats, and one that   *)
(* is outside the schema.                                                  *)
EXTENDS HttpRegress

CONSTANTS good, once, c1, c2, given, e1, f1, f2

Same(f) == [b \in BOOLEAN |-> [e \in Envs |-> f]]

MCAnswers ==
    [v \in Versions |->
        CASE v = good -> Same(f1)
          [] v = once -> [b \in BOOLEAN |-> [e \in Envs |-> IF b THEN "trap" ELSE f1]]]

Step(e, f) == [env |-> e, frame |-> f]

MCTraces == {[valid |-> TRUE, steps |-> <<Step(e1, f1), Step(e1, f1)>>],
             [valid |-> TRUE, steps |-> <<Step(e1, f1), Step(e1, f2)>>],
             [valid |-> FALSE, steps |-> <<Step(e1, f1), Step(BadEnv, f1)>>]}

MCTests == {[component |-> given, cases |-> <<c1, c2>>]}
=============================================================================
