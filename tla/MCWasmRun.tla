------------------------------ MODULE MCWasmRun ------------------------------
(* A small instance of WasmRun: two processes over one input and one output  *)
(* file, two builds of which the second may not be what the first was.       *)
EXTENDS WasmRun, TLC

CONSTANTS p1, p2, i1, f1

MCBuilds == <<[initial |-> 1, max |-> 1], [initial |-> 1, max |-> None]>>

Line(i, o, j, n, x, f) ==
    [input |-> i, out |-> o, json |-> j, initial |-> n, max |-> x, fixed |-> f]

Symmetry == Permutations(Procs)

MCCommands ==
    {Line(i1, f1, TRUE, 1, 1, TRUE), Line(i1, None, FALSE, None, None, FALSE)}
=============================================================================
