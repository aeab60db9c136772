---------------------------- MODULE MCServeHost ----------------------------
(* Small instances of ServeHost: two requests, one of which exceeds the     *)
(* request limit with its headers, a client that sends the id req0, and the *)
(* command lines that tell the two loops, their ends and the evidence apart.*)
EXTENDS ServeHost, TLC

CONSTANTS small, wide

MCContents == {small, wide}
MCHeadLen  == small :> 1 @@ wide :> 3
MCBodyLen  == small :> 1 @@ wide :> 2
MCIds      == {0}

Line(m, n, e, f) == [mode |-> m, stopAfter |-> n, evidence |-> e, writesFail |-> f]

MCSettings ==
    {Line("listen", 2, "none", FALSE), Line("listen", 0, "none", TRUE),
     Line("listen", 1, "record", FALSE), Line("canary", 2, "none", TRUE),
     Line("canary", 2, "none", FALSE)}
    \cup {Line("canary", 1, e, TRUE) : e \in {"none", "record", "replay"}}
OneConnection == {Line("listen", 1, "none", FALSE)}
=============================================================================
