------------------------- MODULE HttpServeContract -------------------------
(***************************************************************************)
(* What `x07-wasm http serve` promises its caller: a fixed number of       *)
(* requests is accepted, each is answered once and in order, requests may  *)
(* write to one shared store, and a request can only fail by leaving an    *)
(* error that the final report cannot lose.                                *)
(***************************************************************************)
EXTENDS Naturals, Sequences

CONSTANTS Keys, Values, NoValue

VARIABLES phase, accepted, answers, errors, store
vars == <<phase, accepted, answers, errors, store>>

Init ==
    /\ phase = "opening"
    /\ accepted = 0
    /\ answers = << >>
    /\ errors = FALSE
    /\ store = [k \in Keys |-> NoValue]

\* An error may be noted at any step; it is never forgotten.
Note == errors' \in {errors, TRUE}

Accept ==
    /\ phase = "opening"
    /\ accepted' \in Nat
    /\ Note
    /\ phase' = "open"
    /\ UNCHANGED <<answers, store>>

Write ==
    /\ phase = "open"
    /\ Len(answers) < accepted
    /\ \E k \in Keys, v \in Values : store' = [store EXCEPT ![k] = v]
    /\ UNCHANGED <<phase, accepted, answers, errors>>

Mishap ==
    /\ phase = "open"
    /\ Len(answers) < accepted
    /\ errors' = TRUE
    /\ UNCHANGED <<phase, accepted, answers, store>>

Answer ==
    /\ phase = "open"
    /\ Len(answers) < accepted
    /\ \/ answers' = Append(answers, "responded") /\ UNCHANGED errors
       \/ answers' = Append(answers, "failed") /\ errors' = TRUE
    /\ UNCHANGED <<phase, accepted, store>>

Close ==
    /\ \/ phase = "opening" /\ errors' = TRUE
       \/ phase = "open" /\ Len(answers) = accepted /\ UNCHANGED errors
    /\ phase' = "closed"
    /\ UNCHANGED <<accepted, answers, store>>

Next == Accept \/ Write \/ Mishap \/ Answer \/ Close

Spec == Init /\ [][Next]_vars
=============================================================================
