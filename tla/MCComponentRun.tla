--------------------------- MODULE MCComponentRun ---------------------------
(* A small instance of ComponentRun: two invocations over two inputs over  *)
(* one output file, which takes stdout of the one and stderr of the other.   *)
EXTENDS ComponentRun

CONSTANTS c1, i1, i2, a1, p1

Line(i, a, o, e, w) == [input |-> i, args |-> a, out |-> o, err |-> e, wall |-> w]

MCCommands ==
    {Line(i1, a1, p1, None, TRUE), Line(i2, Invalid, None, p1, FALSE),
     Line(Invalid, a1, p1, None, FALSE)}
=============================================================================
