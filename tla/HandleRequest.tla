--------------------------- MODULE HandleRequest ---------------------------
(***************************************************************************)
(* One wasi:http request inside x07-wasm serve: handle_one_request of      *)
(* crates/x07-wasm/src/serve.rs and the diagnostics its caller derives.    *)
(*                                                                         *)
(* The host and the guest share one thread.  Guest code runs twice: its    *)
(* start code while the component is instantiated, and the call.  It runs  *)
(* until it waits for the host; only then, and only in the call, can the   *)
(* wall clock limit strike, because it is a tokio timeout around the call. *)
(* The response body goes through a channel of a fixed number of chunks    *)
(* that the host starts to read after the call has returned.  Lengths are  *)
(* in units of the modeller's choice.                                      *)
(***************************************************************************)
EXTENDS Integers

CONSTANTS
    MaxResponse,   \* max_response_bytes
    ChunkCap,      \* the 16 KiB ceiling on a chunk
    Pieces,        \* lengths a guest passes to one write
    Metered,       \* max_fuel is set
    WithCaps       \* a capabilities document is in force (--ops)

ASSUME ConstantsAssumption ==
    /\ MaxResponse \in Nat
    /\ ChunkCap \in Nat \ {0}
    /\ Pieces \subseteq Nat \ {0}
    /\ Metered \in BOOLEAN
    /\ WithCaps \in BOOLEAN

\* max_response_bytes.clamp(1, 16 * 1024)
ChunkSize == IF MaxResponse < 1 THEN 1 ELSE IF MaxResponse > ChunkCap THEN ChunkCap ELSE MaxResponse

\* Mutant of BufferChunks: rounds down.
BufferChunksFloor == IF MaxResponse \div ChunkSize < 1 THEN 1 ELSE MaxResponse \div ChunkSize

\* max_response_bytes.div_ceil(chunk).max(1)
BufferChunks ==
    LET n == (MaxResponse + ChunkSize - 1) \div ChunkSize IN IF n < 1 THEN 1 ELSE n

-----------------------------------------------------------------------------
VARIABLES
    stage,      \* "setup", "instantiate", "call", "recv", "collect", "over" or "done"
    guest,      \* "running", "spinning", "waiting", "blocked" or "returned"
    outparam,   \* the response outparam: "held", "set", "error", "dropped" or "leaked"
    body,       \* the outgoing body: "open", "finished", "abandoned" or "leaked"
    chunks,     \* chunks in the body channel
    written,    \* bytes the guest put there
    short,      \* history: some write was shorter than a chunk
    late,       \* max_wall_ms_per_request has passed
    denied,     \* history: the policy refused an outbound request
    stateDiags, \* ServeState.diagnostics
    reqDiags,   \* request_diagnostics, handed to the caller
    outcome,    \* the Result of handle_one_request
    reported    \* codes of the diagnostics this request adds to the report

guestVars == <<guest, outparam, body, chunks, written, short>>
diagVars  == <<denied, stateDiags, reqDiags>>
vars      == <<stage, guestVars, late, diagVars, outcome, reported>>

Budgets == {"fuel", "stack", "memory", "table"}
Causes  == Budgets \cup {"trap", "caps", "timeout", "no_response", "error_code",
                         "too_large", "unfinished"}
Codes   == Budgets \cup {"caps", "net_denied", "request_failed"}

Pending      == [kind |-> "pending"]
Response(n)  == [kind |-> "response", len |-> n]
\* chained: the wasmtime error is still in the chain classify_budget_exceeded walks.
Failure(why, chained) == [kind |-> "failure", why |-> why, chained |-> chained]

Init ==
    /\ stage = "setup"
    /\ guest = "running" /\ outparam = "held" /\ body = "open"
    /\ chunks = 0 /\ written = 0 /\ short = FALSE
    /\ late = FALSE
    /\ denied = FALSE /\ stateDiags = {} /\ reqDiags = {}
    /\ outcome = Pending
    /\ reported = {}

\* An early return: what the store collected goes to the caller.
GiveUp(why, chained) ==
    /\ stage' = "over"
    /\ outcome' = Failure(why, chained)
    /\ reqDiags' = reqDiags \cup stateDiags
    /\ stateDiags' = {}
    /\ UNCHANGED <<denied, late, reported>>

-----------------------------------------------------------------------------
(* Before the call.                                                        *)

BuildWasi ==
    /\ stage = "setup"
    /\ \/ /\ stage' = "instantiate"
          /\ UNCHANGED <<reqDiags, outcome>>
       \/ /\ WithCaps
          /\ stage' = "over"
          /\ reqDiags' = reqDiags \cup {"caps"}
          /\ outcome' = Failure("caps", FALSE)
    /\ UNCHANGED <<guestVars, late, denied, stateDiags, reported>>

-----------------------------------------------------------------------------
(* The guest: its start code, called from instantiate_async, and the call. *)

GuestStages == {"instantiate", "call"}
Running     == stage \in GuestStages /\ guest = "running"

\* The error of instantiate_async keeps its chain.  That of call_handle is
\* turned into its message: the chain is lost.
KeepsChain == stage = "instantiate"

\* Start code is through.  The host makes the request and the outparam, for
\* which the resource table may have no room left.
Instantiate ==
    /\ Running
    /\ stage = "instantiate"
    /\ \/ /\ stage' = "call"
          /\ UNCHANGED <<late, diagVars, outcome, reported>>
       \/ GiveUp("trap", TRUE)
    /\ UNCHANGED guestVars

\* A loop without a call to the host.
Spin ==
    /\ Running
    /\ guest' = "spinning"
    /\ UNCHANGED <<stage, outparam, body, chunks, written, short, late, diagVars, outcome, reported>>

\* Fuel ends every loop of a metered guest.
FuelOut ==
    /\ stage \in GuestStages /\ guest = "spinning" /\ Metered
    /\ GiveUp("fuel", KeepsChain)
    /\ UNCHANGED guestVars

Trap ==
    /\ Running
    /\ \E why \in (IF Metered THEN Budgets ELSE Budgets \ {"fuel"}) \cup {"trap"} :
          GiveUp(why, KeepsChain)
    /\ UNCHANGED guestVars

\* ServeState::send_request when the policy refuses: the guest gets an error
\* code and goes on.
SendDenied ==
    /\ Running
    /\ WithCaps
    /\ denied' = TRUE
    /\ stateDiags' = stateDiags \cup {"net_denied"}
    /\ UNCHANGED <<stage, guestVars, late, reqDiags, outcome, reported>>

\* The guest waits for the host (an outbound response, a clock, the request
\* body).  A pending poll after the deadline ends the call; start code has no
\* deadline.
Yield ==
    /\ Running
    /\ \/ /\ ~late
          /\ guest' = "waiting"
          /\ UNCHANGED <<stage, late, diagVars, outcome, reported>>
       \/ /\ late
          /\ GiveUp("timeout", FALSE)
          /\ UNCHANGED guest
    /\ UNCHANGED <<outparam, body, chunks, written, short>>

HostReady ==
    /\ stage \in GuestStages /\ guest = "waiting"
    /\ guest' = "running"
    /\ UNCHANGED <<stage, outparam, body, chunks, written, short, late, diagVars, outcome, reported>>

\* One blocking write of at most a chunk.  When the channel is full the guest
\* waits for a reader, and there is none before it returns.
Write ==
    /\ Running
    /\ body = "open"
    /\ \/ /\ chunks < BufferChunks
          /\ \E n \in Pieces :
                /\ n <= ChunkSize
                /\ written' = written + n
                /\ short' = (short \/ n < ChunkSize)
          /\ chunks' = chunks + 1
          /\ UNCHANGED guest
       \/ /\ chunks = BufferChunks
          /\ guest' = "blocked"
          /\ UNCHANGED <<chunks, written, short>>
    /\ UNCHANGED <<stage, outparam, body, late, diagVars, outcome, reported>>

Finish ==
    /\ Running
    /\ body = "open"
    /\ body' = "finished"
    /\ UNCHANGED <<stage, guest, outparam, chunks, written, short, late, diagVars, outcome, reported>>

SetOutparam ==
    /\ Running
    /\ stage = "call" /\ outparam = "held"
    /\ outparam' \in {"set", "error"}
    /\ UNCHANGED <<stage, guest, body, chunks, written, short, late, diagVars, outcome, reported>>

\* What the guest still holds when it returns is dropped by its own code or
\* stays in the resource table of the store.
Return ==
    /\ Running
    /\ stage = "call"
    /\ guest' = "returned"
    /\ stage' = "recv"
    /\ outparam' \in IF outparam = "held" THEN {"dropped", "leaked"} ELSE {outparam}
    /\ body' \in IF body = "open" THEN {"abandoned", "leaked"} ELSE {body}
    /\ UNCHANGED <<chunks, written, short, late, diagVars, outcome, reported>>

GuestStep ==
    Instantiate \/ Spin \/ Trap \/ SendDenied \/ Yield \/ Write \/ Finish \/ SetOutparam \/ Return

\* The clock of the timeout starts with the call.
Tick ==
    /\ ~late
    /\ stage = "call"
    /\ late' = TRUE
    /\ UNCHANGED <<stage, guestVars, diagVars, outcome, reported>>

\* Mutant of TimeoutFires: what the store collected is forgotten.
TimeoutFiresQuietly ==
    /\ stage = "call"
    /\ guest \in {"waiting", "blocked"}
    /\ late
    /\ stage' = "over"
    /\ outcome' = Failure("timeout", FALSE)
    /\ UNCHANGED <<guestVars, late, diagVars, reported>>

\* Mutant of TimeoutFires: a guest that waits for the body reader is left alone.
TimeoutFiresOnHostOnly ==
    /\ stage = "call"
    /\ guest = "waiting"
    /\ late
    /\ GiveUp("timeout", FALSE)
    /\ UNCHANGED guestVars

\* The timeout strikes only while the guest waits: nothing else runs on the
\* thread while it computes.
TimeoutFires ==
    /\ stage = "call"
    /\ guest \in {"waiting", "blocked"}
    /\ late
    /\ GiveUp("timeout", FALSE)
    /\ UNCHANGED guestVars

-----------------------------------------------------------------------------
(* After the call, no longer under the timeout.                            *)

Receive ==
    /\ stage = "recv"
    /\ \/ /\ outparam = "set"
          /\ stage' = "collect"
          /\ UNCHANGED <<late, diagVars, outcome, reported>>
       \/ outparam = "error"   /\ GiveUp("error_code", FALSE)
       \/ outparam = "dropped" /\ GiveUp("no_response", FALSE)
    /\ UNCHANGED guestVars

\* Mutant of Collect: the end of the channel passes for the end of the body.
CollectAnyEnd ==
    /\ stage = "collect"
    /\ \/ written > MaxResponse /\ GiveUp("too_large", FALSE)
       \/ /\ written <= MaxResponse /\ body # "leaked"
          /\ stage' = "over"
          /\ outcome' = Response(written)
          /\ reqDiags' = reqDiags \cup stateDiags
          /\ stateDiags' = {}
          /\ UNCHANGED <<late, denied, reported>>
    /\ UNCHANGED guestVars

\* collect_body_with_limit
Collect ==
    /\ stage = "collect"
    /\ \/ written > MaxResponse /\ GiveUp("too_large", FALSE)
       \/ written <= MaxResponse /\ body = "abandoned" /\ GiveUp("unfinished", FALSE)
       \/ /\ written <= MaxResponse /\ body = "finished"
          /\ stage' = "over"
          /\ outcome' = Response(written)
          /\ reqDiags' = reqDiags \cup stateDiags
          /\ stateDiags' = {}
          /\ UNCHANGED <<late, denied, reported>>
    /\ UNCHANGED guestVars

-----------------------------------------------------------------------------
(* The caller.                                                             *)

\* The codes for a failed request: a budget when the chain shows one, else
\* REQUEST_FAILED unless an error has been reported already.
FailureCodes(f, diags) ==
    IF f.chained /\ f.why \in Budgets THEN {f.why}
    ELSE IF diags = {}                THEN {"request_failed"}
    ELSE {}

Answer ==
    /\ stage = "over"
    /\ stage' = "done"
    /\ \/ /\ outcome.kind = "response"
          /\ reported' = reqDiags
       \/ /\ outcome.kind = "failure"
          /\ reported' = reqDiags \cup FailureCodes(outcome, reqDiags)
    /\ UNCHANGED <<guestVars, late, diagVars, outcome>>

\* What holds the host for good: an unmetered loop, start code that waits for
\* room in a body nobody reads yet, and a response or a body left in the
\* resource table by a guest that returned.
Stuck ==
    \/ guest = "spinning" /\ ~Metered
    \/ stage = "instantiate" /\ guest = "blocked"
    \/ stage = "recv" /\ outparam = "leaked"
    \/ stage = "collect" /\ body = "leaked" /\ written <= MaxResponse

\* Start code that waits for something outside, with no limit on how long.
StartWaits == stage = "instantiate" /\ guest = "waiting"

Rest == (stage = "done" \/ Stuck) /\ UNCHANGED vars

HostStep == BuildWasi \/ FuelOut \/ TimeoutFires \/ Receive \/ Collect \/ Answer

Next == HostStep \/ GuestStep \/ HostReady \/ Tick \/ Rest

Spec == Init /\ [][Next]_vars

\* The host's own steps, a guest that computes, and time go on; nothing is
\* assumed of whoever the guest waits for.
FairSpec == Spec /\ WF_vars(HostStep) /\ WF_vars(GuestStep) /\ WF_vars(Tick)

-----------------------------------------------------------------------------
(* Properties.                                                             *)

Outcomes ==
    {Pending}
        \cup [kind : {"response"}, len : Nat]
        \cup [kind : {"failure"}, why : Causes, chained : BOOLEAN]

TypeOK ==
    /\ stage \in {"setup", "instantiate", "call", "recv", "collect", "over", "done"}
    /\ guest \in {"running", "spinning", "waiting", "blocked", "returned"}
    /\ outparam \in {"held", "set", "error", "dropped", "leaked"}
    /\ body \in {"open", "finished", "abandoned", "leaked"}
    /\ chunks \in 0..BufferChunks
    /\ written \in Nat
    /\ short \in BOOLEAN /\ late \in BOOLEAN /\ denied \in BOOLEAN
    /\ stateDiags \subseteq Codes /\ reqDiags \subseteq Codes /\ reported \subseteq Codes
    /\ outcome \in Outcomes

\* A guest that writes whole chunks is stopped for want of a reader only once
\* it has written all the response limit allows: the channel, sized from the
\* limit, never deadlocks a legal response against a host that reads later.
RoomForTheCap ==
    guest = "blocked" /\ ~short => written >= MaxResponse

\* A response reaches the caller whole and within the limit: never one whose
\* body the guest did not finish, or that was not set.
WholeResponseOnly ==
    outcome.kind = "response" =>
        /\ outparam = "set" /\ body = "finished" /\ guest = "returned"
        /\ outcome.len = written
        /\ written <= MaxResponse

\* However the request ends, a refusal by the policy is in its diagnostics,
\* and a failure leaves at least one error.
Explained ==
    stage = "done" =>
        /\ denied => "net_denied" \in reported
        /\ outcome.kind = "failure" => reported # {}

\* A guest that exhausts a runtime limit is reported under the pinned code of
\* that limit.
BudgetSurfaces ==
    stage = "done" /\ outcome.kind = "failure" =>
        (outcome.why \in Budgets => outcome.why \in reported)

\* Every request ends, whatever the guest waits for, unless it is stuck for
\* good in one of those four ways, or its start code is found waiting again and
\* again: the call is limited in time, instantiation is not.
EndsUnlessStuck == <>(stage = "done") \/ <>[]Stuck \/ []<>StartWaits
=============================================================================
