--------------------------- MODULE HttpEffectLoop ---------------------------
(***************************************************************************)
(* `x07-wasm http serve`: the loop that turns a pure reducer into an HTTP  *)
(* application (crates/x07-wasm/src/http_reducer/serve.rs, replay.rs).     *)
(*                                                                         *)
(* For each request envelope the host dispatches {state, request,          *)
(* effect_results} to the reducer core and receives a frame.  A frame with *)
(* a response ends the request.  Any other frame carries the next state    *)
(* and a list of effects; the host executes them one by one against state  *)
(* that outlives the request (the kv store, the nondeterminism flags) and  *)
(* feeds their results to the next dispatch.  Every budget violation or    *)
(* invalid frame abandons the request at the point it is noticed, with the *)
(* effects executed so far left in place.                                  *)
(*                                                                         *)
(* The reducer is the environment: one wasm instance serves every call, so *)
(* its frames are any schema-valid frames and not a function of the        *)
(* dispatch.  A payload is represented by its length in bytes.             *)
(***************************************************************************)
EXTENDS Naturals, Sequences, FiniteSets, ExitCode

CONSTANTS
    Keys,                   \* kv keys a frame may name
    Sizes,                  \* payload lengths, in bytes
    BadPayload,             \* a stream payload that does not decode
    Hosts,                  \* hosts of http.fetch URLs
    BadUrl,                 \* an URL that does not parse, is not http:// or has no host
    AllowedHosts,           \* hosts granted by the capabilities or the environment
    ClockModes,             \* caps.clocks.mode, "none" without capabilities
    Null,                   \* the JSON null: initial state, absent response, absent key
    States,                 \* reducer state objects
    Responses,              \* response envelopes the reducer may return
    EffectLists,            \* bound: lists of effects a frame of the reducer may carry
    MaxEffectSteps,         \* --max-effect-steps
    MaxEffectResultsBytes,  \* --max-effect-results-bytes
    Modes,                  \* ways to start: "canary", "listen" or either
    MaxLines                \* bound: lines on stdin

Payloads == Sizes \cup {BadPayload}

Effects ==
         [type : {"kv.get"}, key : Keys]
    \cup [type : {"kv.put"}, key : Keys, value : Payloads]
    \cup [type : {"log.emit", "time.now"}]
    \cup [type : {"http.fetch"}, host : Hosts \cup {BadUrl}, body : Payloads]

ASSUME ConstantsAssumption ==
    /\ Sizes \subseteq Nat
    /\ BadPayload \notin Sizes
    /\ Null \notin Sizes
    /\ BadUrl \notin Hosts
    /\ AllowedHosts \subseteq Hosts
    /\ ClockModes \subseteq {"none", "allow", "record", "deny"}
    /\ Null \notin States
    /\ Null \notin Responses
    /\ EffectLists \subseteq Seq(Effects)
    /\ MaxEffectSteps \in Nat
    /\ MaxEffectResultsBytes \in Nat
    /\ Modes \subseteq {"canary", "listen"}
    /\ MaxLines \in Nat

\* What the host injects for one executed effect.  `inSchema` is FALSE when
\* the result would fail the schema of the next dispatch: only a fetched
\* response can (a header name or value outside the envelope's patterns).
Results == [eff : Effects, ok : BOOLEAN, bytes : Nat, inSchema : BOOLEAN]

Done(e, n)   == [eff |-> e, ok |-> TRUE,  bytes |-> n, inSchema |-> TRUE]
Refused(e)   == [eff |-> e, ok |-> FALSE, bytes |-> 0, inSchema |-> TRUE]

\* A frame that passes x07-http.frame.schema.json.
Frames == [state    : States \cup {Null},
           response : Responses \cup {Null},
           effects  : EffectLists]

LineKinds == {"blank", "not_json", "bad_schema", "envelope"}
Outcomes  == {"responded", "failed"}

-----------------------------------------------------------------------------
VARIABLES
    clockMode,             \* the mode this command was started with
    pc,                    \* where the command is
    requests,              \* request envelopes accepted for this run
    outcomes,              \* how each request so far ended, in order
    diags,                 \* diagnostics accumulated for the report
    kv,                    \* HttpEffectState.kv
    usesNetwork,           \* HttpEffectState.nondeterminism
    usesOsTime,
    iter,                  \* completed turns of `for _ in 0..max_effect_steps`
    steps,                 \* the trace of the current request
    state,                 \* reducer state to dispatch
    effect_results,        \* results to dispatch
    pending,               \* effects of the current frame not yet executed
    next_results,          \* results of those already executed
    result_payload_bytes,  \* their payload bytes
    asked,                 \* history: kv writes requested by recorded frames
    contacted              \* history: hosts a request was sent to

hostVars == <<kv, usesNetwork, usesOsTime, asked, contacted>>
loopVars == <<iter, steps, state, effect_results, pending, next_results,
              result_payload_bytes>>
vars == <<clockMode, pc, requests, outcomes, diags, hostVars, loopVars>>

Init ==
    /\ clockMode \in ClockModes
    /\ pc = "start"
    /\ requests = 0
    /\ outcomes = << >>
    /\ diags = {}
    /\ kv = [k \in Keys |-> Null]
    /\ usesNetwork = FALSE
    /\ usesOsTime = FALSE
    /\ iter = 0
    /\ steps = << >>
    /\ state = Null
    /\ effect_results = << >>
    /\ pending = << >>
    /\ next_results = << >>
    /\ result_payload_bytes = 0
    /\ asked = {}
    /\ contacted = {}

-----------------------------------------------------------------------------
(* Start-up and input: cmd_http_serve, read_request_envelopes_from_stdin.  *)

SetupFailures ==
    {Error("COMPONENT_READ_FAILED", "parse", "general"),
     Error("COMPONENT_LOAD_FAILED", "run", "general")}

\* The component, profile, core or ops document does not load: the report
\* is emitted with no request served.
SetupFails ==
    /\ pc = "start"
    /\ \E d \in SetupFailures : diags' = diags \cup {d}
    /\ pc' = "reported"
    /\ UNCHANGED <<clockMode, requests, outcomes, hostVars, loopVars>>

LineDiag(kind) ==
    CASE kind = "not_json"   -> {Error("STDIN_JSON_INVALID", "parse", "general")}
      [] kind = "bad_schema" -> {Error("REQUEST_ENVELOPE_SCHEMA_INVALID", "parse", "general")}
      [] OTHER               -> {}

\* Listen mode reads all of stdin before serving; an invalid line is
\* reported and skipped.
ReadStdin ==
    /\ pc = "start"
    /\ "listen" \in Modes
    /\ \E n \in 0..MaxLines : \E lines \in [1..n -> LineKinds] :
          /\ requests' = Cardinality({i \in 1..n : lines[i] = "envelope"})
          /\ diags' = diags \cup UNION {LineDiag(lines[i]) : i \in 1..n}
    /\ pc' = "serve"
    /\ UNCHANGED <<clockMode, outcomes, hostVars, loopVars>>

\* Canary mode serves one built-in request.
StartCanary ==
    /\ pc = "start"
    /\ "canary" \in Modes
    /\ requests' = 1
    /\ pc' = "serve"
    /\ UNCHANGED <<clockMode, outcomes, diags, hostVars, loopVars>>

BeginRequest ==
    /\ pc = "serve"
    /\ Len(outcomes) < requests
    /\ iter' = 0
    /\ steps' = << >>
    /\ state' = Null
    /\ effect_results' = << >>
    /\ pending' = << >>
    /\ next_results' = << >>
    /\ result_payload_bytes' = 0
    /\ pc' = "dispatch"
    /\ UNCHANGED <<clockMode, requests, outcomes, diags, hostVars>>

\* emit_report: the exit code is a function of the diagnostics.
EmitReport ==
    /\ pc = "serve"
    /\ Len(outcomes) = requests
    /\ pc' = "reported"
    /\ UNCHANGED <<clockMode, requests, outcomes, diags, hostVars, loopVars>>

-----------------------------------------------------------------------------
(* run_http_reducer_loop.                                                  *)

\* Mutant of Abandon: the request fails without its diagnostic.
AbandonQuietly(ds) ==
    /\ outcomes' = Append(outcomes, "failed")
    /\ UNCHANGED diags
    /\ pc' = "serve"

\* Mutant of Abandon: a failed request gets no summary.
AbandonUnanswered(ds) ==
    /\ UNCHANGED outcomes
    /\ diags' = diags \cup ds
    /\ pc' = "serve"

\* return Ok((None, trace, nondeterminism)): the request gets status 500.
Abandon(ds) ==
    /\ outcomes' = Append(outcomes, "failed")
    /\ diags' = diags \cup ds
    /\ pc' = "serve"

LoopBudgetExceeded ==
    /\ pc = "dispatch"
    /\ iter = MaxEffectSteps
    /\ Abandon({Error("HTTP_EFFECTS_LOOPS", "run", "budget")})
    /\ UNCHANGED <<clockMode, requests, hostVars, loopVars>>

DispatchInvalid ==
    /\ pc = "dispatch"
    /\ iter < MaxEffectSteps
    /\ \E i \in DOMAIN effect_results : ~effect_results[i].inSchema
    /\ Abandon({Error("HTTP_DISPATCH_SCHEMA_INVALID", "parse", "general")})
    /\ UNCHANGED <<clockMode, requests, hostVars, loopVars>>

Dispatch ==
    /\ pc = "dispatch"
    /\ iter < MaxEffectSteps
    /\ \A i \in DOMAIN effect_results : effect_results[i].inSchema
    /\ pc' = "core"
    /\ UNCHANGED <<clockMode, requests, outcomes, diags, hostVars, loopVars>>

CoreFailures ==
    {Error("HTTP_REDUCER_CALL_FAILED", "run", "general"),
     Error("CORE_BUDGET", "run", "budget")}   \* fuel, stack, memory or table

CoreFails ==
    /\ pc = "core"
    /\ \E d \in CoreFailures : Abandon({d})
    /\ UNCHANGED <<clockMode, requests, hostVars, loopVars>>

\* The output is not JSON or not a frame: no step is recorded.
FrameInvalid ==
    /\ pc = "core"
    /\ Abandon({Error("HTTP_FRAME_SCHEMA_INVALID", "parse", "general")})
    /\ UNCHANGED <<clockMode, requests, hostVars, loopVars>>

RecordStep(frame) ==
    steps' = Append(steps, [env |-> [state |-> state, effect_results |-> effect_results],
                            frame |-> frame])

\* Mutant of FrameResponds: the writes of a response frame are performed.
FrameRespondsAndWrites ==
    /\ pc = "core"
    /\ \E frame \in Frames :
          /\ frame.response # Null
          /\ RecordStep(frame)
          /\ kv' = [k \in Keys |->
                LET puts == {j \in DOMAIN frame.effects :
                                /\ frame.effects[j].type = "kv.put"
                                /\ frame.effects[j].key = k
                                /\ frame.effects[j].value # BadPayload}
                IN IF puts = {} THEN kv[k]
                   ELSE frame.effects[CHOOSE j \in puts : \A i \in puts : i <= j].value]
    /\ outcomes' = Append(outcomes, "responded")
    /\ pc' = "serve"
    /\ UNCHANGED <<clockMode, requests, diags, usesNetwork, usesOsTime, asked, contacted, iter,
                   state, effect_results, pending, next_results, result_payload_bytes>>

\* A response ends the request; effects in the same frame are not executed.
\* response_summary_from_envelope warns when the body does not decode.
FrameResponds ==
    /\ pc = "core"
    /\ \E frame \in Frames :
          /\ frame.response # Null
          /\ RecordStep(frame)
          /\ diags' = diags \cup
                (IF frame.response.body = BadPayload
                 THEN {Warning("RESPONSE_BODY_INVALID", "run")} ELSE {})
    /\ outcomes' = Append(outcomes, "responded")
    /\ pc' = "serve"
    /\ UNCHANGED <<clockMode, requests, hostVars, iter, state, effect_results, pending,
                   next_results, result_payload_bytes>>

FrameContinues ==
    /\ pc = "core"
    /\ \E frame \in Frames :
          /\ frame.response = Null
          /\ RecordStep(frame)
          /\ state' = frame.state
          /\ pending' = frame.effects
          /\ asked' = asked \cup {[key |-> frame.effects[i].key, value |-> frame.effects[i].value] :
                        i \in {j \in DOMAIN frame.effects : frame.effects[j].type = "kv.put"}}
    /\ next_results' = << >>
    /\ result_payload_bytes' = 0
    /\ pc' = "effects"
    /\ UNCHANGED <<clockMode, requests, outcomes, diags, kv, usesNetwork, usesOsTime,
                   contacted, iter, effect_results>>

\* Mutant of EndOfTurn: results pile up over the turns.
EndOfTurnKeepsResults ==
    /\ pc = "effects"
    /\ pending = << >>
    /\ effect_results' = effect_results \o next_results
    /\ iter' = iter + 1
    /\ pc' = "dispatch"
    /\ UNCHANGED <<clockMode, requests, outcomes, diags, hostVars, steps, state, pending,
                   next_results, result_payload_bytes>>

EndOfTurn ==
    /\ pc = "effects"
    /\ pending = << >>
    /\ effect_results' = next_results
    /\ iter' = iter + 1
    /\ pc' = "dispatch"
    /\ UNCHANGED <<clockMode, requests, outcomes, diags, hostVars, steps, state, pending,
                   next_results, result_payload_bytes>>

-----------------------------------------------------------------------------
(* execute_effect, and the accounting that follows it in the loop.         *)

PayloadBytes(res) ==
    IF res.ok /\ res.eff.type \in {"kv.get", "http.fetch"} THEN res.bytes ELSE 0

Settle(res, ds) ==
    LET total == result_payload_bytes + PayloadBytes(res) IN
    /\ result_payload_bytes' = total
    /\ pending' = Tail(pending)
    /\ \/ /\ total > MaxEffectResultsBytes
          /\ Abandon(ds \cup {Error("HTTP_EFFECT_RESULT_BYTES", "run", "budget")})
          /\ UNCHANGED next_results
       \/ /\ total <= MaxEffectResultsBytes
          /\ next_results' = Append(next_results, res)
          /\ diags' = diags \cup ds
          /\ pc' = "effects"
          /\ UNCHANGED outcomes
    /\ UNCHANGED <<clockMode, requests, asked, iter, steps, state, effect_results>>

Executing(type) == pc = "effects" /\ pending # << >> /\ Head(pending).type = type

KvGet ==
    /\ Executing("kv.get")
    /\ LET eff == Head(pending) IN
       Settle(Done(eff, IF kv[eff.key] = Null THEN 0 ELSE kv[eff.key]), {})
    /\ UNCHANGED <<kv, usesNetwork, usesOsTime, contacted>>

KvPut ==
    /\ Executing("kv.put")
    /\ LET eff == Head(pending) IN
       \/ /\ eff.value # BadPayload
          /\ kv' = [kv EXCEPT ![eff.key] = eff.value]
          /\ Settle(Done(eff, 0), {})
       \/ /\ eff.value = BadPayload
          /\ UNCHANGED kv
          /\ Settle(Refused(eff), {Error("HTTP_EFFECT_KV_IO_FAILED", "run", "tool")})
    /\ UNCHANGED <<usesNetwork, usesOsTime, contacted>>

LogEmit ==
    /\ Executing("log.emit")
    /\ Settle(Done(Head(pending), 0), {})
    /\ UNCHANGED <<kv, usesNetwork, usesOsTime, contacted>>

\* Mutant of TimeNow: the clock is read without raising the flag.
TimeNowUnflagged ==
    /\ Executing("time.now")
    /\ Settle(Done(Head(pending), 0), {})
    /\ UNCHANGED <<kv, usesNetwork, usesOsTime, contacted>>

TimeNow ==
    /\ Executing("time.now")
    /\ \/ /\ clockMode = "deny"
          /\ Settle(Refused(Head(pending)), {Error("CAPS_CLOCK_DENIED", "run", "general")})
          /\ UNCHANGED usesOsTime
       \/ /\ clockMode # "deny"
          /\ usesOsTime' = TRUE
          /\ Settle(Done(Head(pending), 0), {})
    /\ UNCHANGED <<kv, usesNetwork, contacted>>

FetchFailed == Error("HTTP_EFFECT_HTTP_FETCH_FAILED", "run", "general")

\* The URL is unusable or its host is not granted: nothing leaves the host.
FetchRefused ==
    /\ Executing("http.fetch")
    /\ Head(pending).host \notin AllowedHosts
    /\ Settle(Refused(Head(pending)),
              IF Head(pending).host = BadUrl \/ clockMode = "none" THEN {FetchFailed}
              ELSE {Error("CAPS_NET_DENIED", "run", "general")})
    /\ UNCHANGED <<kv, usesNetwork, usesOsTime, contacted>>

\* The flag is raised before the body is decoded.
FetchBadBody ==
    /\ Executing("http.fetch")
    /\ Head(pending).host \in AllowedHosts
    /\ Head(pending).body = BadPayload
    /\ usesNetwork' = TRUE
    /\ Settle(Refused(Head(pending)), {FetchFailed})
    /\ UNCHANGED <<kv, usesOsTime, contacted>>

FetchSend ==
    /\ Executing("http.fetch")
    /\ Head(pending).host \in AllowedHosts
    /\ Head(pending).body # BadPayload
    /\ usesNetwork' = TRUE
    /\ contacted' = contacted \cup {Head(pending).host}
    /\ pc' = "fetch"
    /\ UNCHANGED <<clockMode, requests, outcomes, diags, kv, usesOsTime, asked, loopVars>>

\* The peer answers; a body over the fixed 1 MiB limit counts as a failure.
FetchAnswered ==
    /\ pc = "fetch"
    /\ \E n \in Sizes, valid \in BOOLEAN :
          Settle([Done(Head(pending), n) EXCEPT !.inSchema = valid], {})
    /\ UNCHANGED <<kv, usesNetwork, usesOsTime, contacted>>

FetchBreaks ==
    /\ pc = "fetch"
    /\ Settle(Refused(Head(pending)), {FetchFailed})
    /\ UNCHANGED <<kv, usesNetwork, usesOsTime, contacted>>

-----------------------------------------------------------------------------
Reported == pc = "reported" /\ UNCHANGED vars

Startup   == SetupFails \/ ReadStdin \/ StartCanary
Loop      == \/ LoopBudgetExceeded \/ DispatchInvalid \/ Dispatch
             \/ CoreFails \/ FrameInvalid \/ FrameResponds \/ FrameContinues
             \/ EndOfTurn
Effect    == \/ KvGet \/ KvPut \/ LogEmit \/ TimeNow
             \/ FetchRefused \/ FetchBadBody \/ FetchSend
FetchDone == FetchAnswered \/ FetchBreaks

\* Everything but the network: the host's own steps and the core's calls.
HostStep == Startup \/ BeginRequest \/ EmitReport \/ Loop \/ Effect

Next == HostStep \/ FetchDone \/ Reported

Spec == Init /\ [][Next]_vars

\* The host always goes on; a core call returns because it runs on fuel.
\* Nothing bounds the wait for a fetched host: no fairness on FetchDone.
FairSpec == Spec /\ WF_vars(HostStep)

-----------------------------------------------------------------------------
(* Properties.                                                             *)

EnvOf(i)   == steps[i].env
FrameOf(i) == steps[i].frame
Last       == Len(steps)

\* Shape of the variables.
TypeOK ==
    /\ clockMode \in ClockModes
    /\ pc \in {"start", "serve", "dispatch", "core", "effects", "fetch", "reported"}
    /\ requests \in Nat
    /\ outcomes \in Seq(Outcomes)
    /\ \A d \in diags : d.severity \in Severities
    /\ kv \in [Keys -> Sizes \cup {Null}]
    /\ usesNetwork \in BOOLEAN
    /\ usesOsTime \in BOOLEAN
    /\ iter \in 0..MaxEffectSteps
    /\ steps \in Seq([env : [state : States \cup {Null}, effect_results : Seq(Results)],
                      frame : Frames])
    /\ state \in States \cup {Null}
    /\ effect_results \in Seq(Results)
    /\ pending \in Seq(Effects)
    /\ next_results \in Seq(Results)
    /\ result_payload_bytes \in Nat
    /\ asked \subseteq [key : Keys, value : Payloads]
    /\ contacted \subseteq Hosts

Answers(results, effects) ==
    /\ Len(results) = Len(effects)
    /\ \A j \in 1..Len(effects) : results[j].eff = effects[j]

\* The trace of a request is a chain: the first dispatch is empty, and each
\* later one carries the state of the frame before it and exactly one result
\* per effect that frame asked for, in the order it asked (replay.rs:171-216).
\* No step follows a response.
TraceChained ==
    \A i \in 1..Last :
        /\ i = 1 => EnvOf(i) = [state |-> Null, effect_results |-> << >>]
        /\ i > 1 => /\ EnvOf(i).state = FrameOf(i - 1).state
                    /\ Answers(EnvOf(i).effect_results, FrameOf(i - 1).effects)
                    /\ FrameOf(i - 1).response = Null

\* The reducer is called at most --max-effect-steps times for one request,
\* counting the calls that failed (replay.rs:74).
StepBudgetHolds ==
    Last + (IF pc = "core" THEN 1 ELSE 0) <= MaxEffectSteps

\* What the kv store holds was asked for by a kv.put of a recorded frame that
\* carried no response; the other effects of a response frame leave no mark,
\* and a value that did not decode never lands.
KvJustified ==
    \A k \in Keys : kv[k] # Null => [key |-> k, value |-> kv[k]] \in asked

GivenResults == UNION {{EnvOf(i).effect_results[j] : j \in DOMAIN EnvOf(i).effect_results}
                          : i \in 1..Last}

\* The report's nondeterminism flags cover everything the reducer was given:
\* a clock reading or a fetched response in a dispatch implies its flag, a
\* raised network flag implies a granted host, and no clock reading is ever
\* given when the capabilities deny the clock (replay.rs:336-446).
NondeterminismHonest ==
    /\ \A r \in GivenResults :
          /\ r.ok /\ r.eff.type = "time.now"   => usesOsTime /\ clockMode # "deny"
          /\ r.ok /\ r.eff.type = "http.fetch" => usesNetwork /\ r.eff.host \in contacted
    /\ contacted # {} => usesNetwork
    /\ contacted \subseteq AllowedHosts

\* A request that ended without a response leaves an error in the report, and
\* a report is emitted with one outcome per accepted request: exit code 0
\* means every request got the reducer's own response.
FailureReported ==
    /\ (\E i \in DOMAIN outcomes : outcomes[i] = "failed") => HasError(diags)
    /\ (pc = "reported" /\ ExitCodeOf(diags) = 0)
          => Len(outcomes) = requests /\ \A i \in 1..requests : outcomes[i] = "responded"

\* The command emits its report, unless a fetched peer never answers.
ReportedUnlessPeerStalls == <>(pc = "reported") \/ <>[](pc = "fetch")

\* The loop implements the contract: what a caller can rely on when it reads
\* only the outcomes, the error state and the store.
Phase == IF pc = "start" THEN "opening" ELSE IF pc = "reported" THEN "closed" ELSE "open"

Contract == INSTANCE HttpServeContract WITH
    Values   <- Sizes,
    NoValue  <- Null,
    phase    <- Phase,
    accepted <- requests,
    answers  <- outcomes,
    errors   <- HasError(diags),
    store    <- kv

ImplementsContract == Contract!Spec
=============================================================================
