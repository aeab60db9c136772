----------------------- MODULE HttpEffectLoopProofs -----------------------
(***************************************************************************)
(* Proofs about HttpEffectLoop for every value of its constants: first the *)
(* trace of a request (IInv), then what the caller of `http serve` can     *)
(* rely on (AllInv): a failure is always in the report, the loop           *)
(* implements HttpServeContract.  Last, what the store and the flags say   *)
(* of the effects (StoreInv, HonestInv).                                   *)
(***************************************************************************)
EXTENDS HttpEffectLoop, FiniteSetTheorems, TLAPS

Turning   == {"dispatch", "core"}
Executes  == {"effects", "fetch"}

\* Between turns, what is about to be dispatched continues the last frame.
BetweenTurns ==
    pc \in Turning =>
        /\ Last = iter
        /\ iter = 0 => state = Null /\ effect_results = << >>
        /\ iter > 0 => /\ state = FrameOf(Last).state
                       /\ Answers(effect_results, FrameOf(Last).effects)
                       /\ FrameOf(Last).response = Null

\* Within a turn, the results so far answer a prefix of the last frame's
\* effects and the pending effects are the rest.
WithinTurn ==
    pc \in Executes =>
        /\ Last = iter + 1
        /\ FrameOf(Last).response = Null
        /\ state = FrameOf(Last).state
        /\ Len(next_results) + Len(pending) = Len(FrameOf(Last).effects)
        /\ \A j \in 1..Len(next_results) : next_results[j].eff = FrameOf(Last).effects[j]
        /\ \A j \in 1..Len(pending) :
              pending[j] = FrameOf(Last).effects[Len(next_results) + j]
        /\ result_payload_bytes <= MaxEffectResultsBytes

\* A turn only starts within the budget, and a fetch waits for its effect.
Guarded ==
    /\ pc \in {"core"} \cup Executes => iter < MaxEffectSteps
    /\ pc = "fetch" => pending # << >> /\ Head(pending).type = "http.fetch"

\* Idle commands keep the trace of the last request, still within budget.
TraceBounded == Last <= MaxEffectSteps

IInv == TypeOK /\ TraceChained /\ BetweenTurns /\ WithinTurn /\ Guarded /\ TraceBounded
-----------------------------------------------------------------------------
(* Lemmas about the data.                                                  *)

\* The effects of a frame are a sequence of effects (x07-http.frame.schema).
LEMMA FrameEffects ==
    ASSUME NEW frame \in Frames
    PROVE  frame.effects \in Seq(Effects)
  BY ConstantsAssumption DEF Frames

\* The two ways execute_effect reports on an effect are results.
LEMMA ResultForms ==
    ASSUME NEW eff \in Effects, NEW n \in Nat, NEW valid \in BOOLEAN
    PROVE  /\ Done(eff, n) \in Results /\ Done(eff, n).eff = eff
           /\ Refused(eff) \in Results /\ Refused(eff).eff = eff
           /\ [Done(eff, n) EXCEPT !.inSchema = valid] \in Results
           /\ [Done(eff, n) EXCEPT !.inSchema = valid].eff = eff
  BY DEF Done, Refused, Results

\* Every diagnostic the loop emits has a severity the report knows.
LEMMA DiagForms ==
    ASSUME NEW name, NEW stage, NEW family
    PROVE  /\ Error(name, stage, family).severity = "error"
           /\ Warning(name, stage).severity = "warning"
  BY DEF Error, Warning, Diag

-----------------------------------------------------------------------------
\* The initial state satisfies the inductive invariant.
LEMMA InitInv == Init => IInv
  <1> SUFFICES ASSUME Init PROVE IInv
    OBVIOUS
  <1> USE DEF Init
  <1>1. TypeOK
    <2>1. kv \in [Keys -> Sizes \cup {Null}]
      OBVIOUS
    <2>2. iter \in 0..MaxEffectSteps
      BY ConstantsAssumption
    <2>3. << >> \in Seq(Outcomes) /\ << >> \in Seq(Effects) /\ << >> \in Seq(Results)
      OBVIOUS
    <2>4. steps \in Seq([env : [state : States \cup {Null}, effect_results : Seq(Results)],
                        frame : Frames])
      OBVIOUS
    <2> QED BY <2>1, <2>2, <2>3, <2>4 DEF TypeOK
  <1>2. Len(steps) = 0
    OBVIOUS
  <1>3. TraceChained /\ TraceBounded
    BY <1>2, ConstantsAssumption DEF TraceChained, TraceBounded, Last
  <1>4. BetweenTurns /\ WithinTurn /\ Guarded
    BY DEF BetweenTurns, WithinTurn, Guarded, Turning, Executes
  <1> QED BY <1>1, <1>3, <1>4 DEF IInv

\* Settling one effect keeps the results aligned with the effects and the
\* payload total within the budget, or abandons the request (replay.rs:199-214).
LEMMA SettleInv ==
    ASSUME IInv, pc \in Executes, pending # << >>,
           NEW res \in Results, res.eff = Head(pending),
           NEW ds, \A d \in ds : d.severity \in Severities,
           Settle(res, ds),
           kv' \in [Keys -> Sizes \cup {Null}],
           usesNetwork' \in BOOLEAN, usesOsTime' \in BOOLEAN, contacted' \subseteq Hosts
    PROVE  IInv'
  <1> USE DEF IInv
  <1> DEFINE total == result_payload_bytes + PayloadBytes(res)
  <1>1. total \in Nat
    BY DEF TypeOK, PayloadBytes, Results
  <1>2. Tail(pending) \in Seq(Effects) /\ Head(pending) \in Effects
    BY DEF TypeOK
  <1>3. CASE total > MaxEffectResultsBytes
    <2>1. Abandon(ds \cup {Error("HTTP_EFFECT_RESULT_BYTES", "run", "budget")})
          /\ UNCHANGED next_results
      BY <1>3, <1>1, ConstantsAssumption DEF Settle
    <2>2. TypeOK'
      BY <1>1, <1>2, <2>1, DiagForms DEF TypeOK, Settle, Abandon, Outcomes, Severities
    <2>3. TraceChained' /\ TraceBounded'
      BY DEF Settle, TraceChained, TraceBounded, Last, EnvOf, FrameOf
    <2> QED
      BY <2>1, <2>2, <2>3
      DEF Abandon, BetweenTurns, WithinTurn, Guarded, Turning, Executes
  <1>4. CASE total <= MaxEffectResultsBytes
    <2>1. /\ next_results' = Append(next_results, res)
          /\ diags' = diags \cup ds
          /\ pc' = "effects"
          /\ UNCHANGED outcomes
      BY <1>4, <1>1, ConstantsAssumption DEF Settle
    <2>2. TypeOK'
      BY <1>1, <1>2, <2>1 DEF TypeOK, Settle
    <2>3. TraceChained' /\ TraceBounded'
      BY DEF Settle, TraceChained, TraceBounded, Last, EnvOf, FrameOf
    <2>4. /\ Len(next_results') = Len(next_results) + 1
          /\ Len(pending') = Len(pending) - 1
          /\ \A j \in 1..Len(next_results) : next_results'[j] = next_results[j]
          /\ next_results'[Len(next_results) + 1] = res
          /\ \A j \in 1..Len(pending') : pending'[j] = pending[j + 1]
          /\ Head(pending) = pending[1]
      BY <2>1 DEF TypeOK, Settle
    <2>5. UNCHANGED <<steps, iter, state>> /\ result_payload_bytes' = total
      BY DEF Settle
    <2>6. WithinTurn'
      <3>1. Len(pending) \in Nat \ {0} /\ Len(next_results) \in Nat
        BY DEF TypeOK
      <3>2. Len(next_results') + Len(pending') = Len(FrameOf(Last).effects)
        <4>1. Len(next_results) + Len(pending) = Len(FrameOf(Last).effects)
          BY DEF WithinTurn
        <4>2. Len(next_results') + Len(pending') = Len(next_results) + Len(pending)
          BY <2>4, <3>1
        <4> QED BY <4>1, <4>2
      <3>3. ASSUME NEW j \in 1..Len(next_results')
            PROVE  next_results'[j].eff = FrameOf(Last).effects[j]
        <4>1. CASE j \in 1..Len(next_results)
          BY <4>1, <2>4 DEF WithinTurn
        <4>2. CASE j = Len(next_results) + 1
          <5>1. pending[1] = FrameOf(Last).effects[Len(next_results) + 1]
            BY <3>1 DEF WithinTurn
          <5> QED BY <4>2, <5>1, <2>4
        <4> QED BY <4>1, <4>2, <3>1, <2>4
      <3>4. ASSUME NEW j \in 1..Len(pending')
            PROVE  pending'[j] = FrameOf(Last).effects[Len(next_results') + j]
        <4>1. j + 1 \in 1..Len(pending)
          BY <2>4, <3>1
        <4>2. pending[j + 1] = FrameOf(Last).effects[Len(next_results) + (j + 1)]
          BY <4>1 DEF WithinTurn
        <4>3. Len(next_results') + j = Len(next_results) + (j + 1)
          BY <2>4, <3>1
        <4> QED BY <4>2, <4>3, <2>4
      <3>5. Last' = Last /\ FrameOf(Last)' = FrameOf(Last)
        BY <2>5 DEF Last, FrameOf
      <3> QED
        BY <3>2, <3>3, <3>4, <3>5, <2>5, <1>4 DEF WithinTurn
    <2>7. BetweenTurns' /\ Guarded'
      BY <2>1, <2>5 DEF BetweenTurns, Guarded, Turning, Executes
    <2> QED BY <2>2, <2>3, <2>6, <2>7
  <1> QED
    BY <1>1, <1>3, <1>4, ConstantsAssumption

-----------------------------------------------------------------------------
\* Every effect action settles the effect at the head of the queue.
LEMMA EffectInv ==
    ASSUME IInv, Effect \/ FetchDone
    PROVE  IInv'
  <1>1. ASSUME pc \in Executes, pending # << >>
        PROVE  /\ Head(pending) \in Effects
               /\ Done(Head(pending), 0) \in Results
               /\ Done(Head(pending), 0).eff = Head(pending)
               /\ Refused(Head(pending)) \in Results
               /\ Refused(Head(pending)).eff = Head(pending)
    <2>1. Head(pending) \in Effects
      BY <1>1 DEF IInv, TypeOK
    <2> QED BY <2>1, ResultForms
  <1>2. /\ kv \in [Keys -> Sizes \cup {Null}]
        /\ usesNetwork \in BOOLEAN /\ usesOsTime \in BOOLEAN /\ contacted \subseteq Hosts
    BY DEF IInv, TypeOK
  <1>3. CASE KvGet
    <2> DEFINE eff == Head(pending)
               n == IF kv[eff.key] = Null THEN 0 ELSE kv[eff.key]
    <2>1. pc \in Executes /\ pending # << >> /\ eff.type = "kv.get"
      BY <1>3 DEF KvGet, Executing, Executes
    <2>2. eff \in Effects
      BY <2>1, <1>1
    <2>3. eff.key \in Keys
      BY <2>1, <2>2 DEF Effects
    <2>4. n \in Nat
      BY <2>3, <1>2, ConstantsAssumption
    <2>5. Done(eff, n) \in Results /\ Done(eff, n).eff = eff
      BY <2>2, <2>4, ResultForms
    <2>6. Settle(Done(eff, n), {}) /\ UNCHANGED <<kv, usesNetwork, usesOsTime, contacted>>
      BY <1>3 DEF KvGet
    <2> HIDE DEF n, eff
    <2> QED BY <2>1, <2>5, <2>6, <1>2, SettleInv DEF eff
  <1>4. CASE KvPut
    <2> DEFINE eff == Head(pending)
               ds == {Error("HTTP_EFFECT_KV_IO_FAILED", "run", "tool")}
    <2>1. pc \in Executes /\ pending # << >> /\ eff.type = "kv.put"
          /\ UNCHANGED <<usesNetwork, usesOsTime, contacted>>
      BY <1>4 DEF KvPut, Executing, Executes
    <2>2. eff.key \in Keys /\ eff.value \in Payloads
      BY <2>1, <1>1 DEF Effects
    <2>3. CASE eff.value # BadPayload
      <3>1. kv' = [kv EXCEPT ![eff.key] = eff.value] /\ Settle(Done(eff, 0), {})
        BY <1>4, <2>3 DEF KvPut
      <3>2. kv' \in [Keys -> Sizes \cup {Null}]
        BY <3>1, <2>2, <2>3, <1>2 DEF Payloads
      <3> QED BY <3>1, <3>2, <2>1, <1>1, <1>2, SettleInv
    <2>4. CASE eff.value = BadPayload
      <3>1. UNCHANGED kv /\ Settle(Refused(eff), ds)
        BY <1>4, <2>4 DEF KvPut
      <3>2. \A d \in ds : d.severity \in Severities
        BY DiagForms DEF Severities
      <3> HIDE DEF ds
      <3> QED BY <3>1, <3>2, <2>1, <1>1, <1>2, SettleInv
    <2> QED BY <2>3, <2>4
  <1>5. CASE LogEmit
    <2>1. /\ pc \in Executes /\ pending # << >> /\ Settle(Done(Head(pending), 0), {})
          /\ UNCHANGED <<kv, usesNetwork, usesOsTime, contacted>>
      BY <1>5 DEF LogEmit, Executing, Executes
    <2> QED BY <2>1, <1>1, <1>2, SettleInv
  <1>6. CASE TimeNow
    <2> DEFINE ds == {Error("CAPS_CLOCK_DENIED", "run", "general")}
    <2>1. /\ pc \in Executes /\ pending # << >>
          /\ UNCHANGED <<kv, usesNetwork, contacted>>
          /\ usesOsTime' \in BOOLEAN
          /\ \/ Settle(Refused(Head(pending)), ds)
             \/ Settle(Done(Head(pending), 0), {})
      BY <1>6, <1>2 DEF TimeNow, Executing, Executes
    <2>2. \A d \in ds : d.severity \in Severities
      BY DiagForms DEF Severities
    <2> HIDE DEF ds
    <2> QED BY <2>1, <2>2, <1>1, <1>2, SettleInv
  <1>7. CASE FetchRefused
    <2> DEFINE ds == IF Head(pending).host = BadUrl \/ clockMode = "none" THEN {FetchFailed}
                     ELSE {Error("CAPS_NET_DENIED", "run", "general")}
    <2>1. /\ pc \in Executes /\ pending # << >> /\ Settle(Refused(Head(pending)), ds)
          /\ UNCHANGED <<kv, usesNetwork, usesOsTime, contacted>>
      BY <1>7 DEF FetchRefused, Executing, Executes
    <2>2. \A d \in ds : d.severity \in Severities
      BY DiagForms DEF Severities, FetchFailed
    <2> HIDE DEF ds
    <2> QED BY <2>1, <2>2, <1>1, <1>2, SettleInv
  <1>8. CASE FetchBadBody
    <2>1. /\ pc \in Executes /\ pending # << >> /\ Settle(Refused(Head(pending)), {FetchFailed})
          /\ UNCHANGED <<kv, usesOsTime, contacted>> /\ usesNetwork' \in BOOLEAN
      BY <1>8 DEF FetchBadBody, Executing, Executes
    <2>2. \A d \in {FetchFailed} : d.severity \in Severities
      BY DiagForms DEF Severities, FetchFailed
    <2> QED BY <2>1, <2>2, <1>1, <1>2, SettleInv
  <1>9. CASE FetchSend
    <2>1. /\ pc = "effects" /\ pc' = "fetch"
          /\ pending # << >> /\ Head(pending).type = "http.fetch"
          /\ usesNetwork' \in BOOLEAN /\ contacted' \subseteq Hosts
          /\ UNCHANGED <<clockMode, requests, outcomes, diags, kv, usesOsTime, asked, loopVars>>
      BY <1>9, <1>2, ConstantsAssumption DEF FetchSend, Executing
    <2>2. TypeOK' /\ TraceChained' /\ TraceBounded'
      BY <2>1 DEF IInv, TypeOK, TraceChained, TraceBounded, Last, EnvOf, FrameOf, loopVars
    <2>3. BetweenTurns' /\ WithinTurn' /\ Guarded'
      BY <2>1 DEF IInv, BetweenTurns, WithinTurn, Guarded, Last, FrameOf, Turning,
                  Executes, loopVars
    <2> QED BY <2>2, <2>3 DEF IInv
  <1>10. CASE FetchAnswered
    <2>1. pc \in Executes /\ pending # << >>
      BY <1>10 DEF FetchAnswered, Executes, IInv, Guarded
    <2>2. PICK n \in Sizes, valid \in BOOLEAN :
             Settle([Done(Head(pending), n) EXCEPT !.inSchema = valid], {})
      BY <1>10 DEF FetchAnswered
    <2> DEFINE res == [Done(Head(pending), n) EXCEPT !.inSchema = valid]
    <2>3. res \in Results /\ res.eff = Head(pending)
      BY <2>1, <1>1, ResultForms, ConstantsAssumption
    <2>4. UNCHANGED <<kv, usesNetwork, usesOsTime, contacted>>
      BY <1>10 DEF FetchAnswered
    <2>5. Settle(res, {})
      BY <2>2
    <2> HIDE DEF res
    <2> QED BY <2>1, <2>3, <2>4, <2>5, <1>2, SettleInv
  <1>11. CASE FetchBreaks
    <2>1. /\ pc \in Executes /\ pending # << >> /\ Settle(Refused(Head(pending)), {FetchFailed})
          /\ UNCHANGED <<kv, usesNetwork, usesOsTime, contacted>>
      BY <1>11 DEF FetchBreaks, Executes, IInv, Guarded
    <2>2. \A d \in {FetchFailed} : d.severity \in Severities
      BY DiagForms DEF Severities, FetchFailed
    <2> QED BY <2>1, <2>2, <1>1, <1>2, SettleInv
  <1> QED
    BY <1>3, <1>4, <1>5, <1>6, <1>7, <1>8, <1>9, <1>10, <1>11 DEF Effect, FetchDone

\* Abandoning a request touches neither the trace nor the store.
LEMMA AbandonInv ==
    ASSUME IInv, NEW d, d.severity \in Severities, Abandon({d}),
           UNCHANGED <<clockMode, requests, hostVars, loopVars>>
    PROVE  IInv'
  <1>1. TypeOK'
    BY DEF IInv, TypeOK, Abandon, Outcomes, hostVars, loopVars
  <1>2. TraceChained' /\ TraceBounded'
    BY DEF IInv, TraceChained, TraceBounded, Last, EnvOf, FrameOf, loopVars
  <1>3. BetweenTurns' /\ WithinTurn' /\ Guarded'
    BY DEF Abandon, BetweenTurns, WithinTurn, Guarded, Turning, Executes
  <1> QED BY <1>1, <1>2, <1>3 DEF IInv

\* A recorded step extends the chain: the dispatch it answers continued the
\* last frame, whatever the new frame is.
LEMMA RecordChained ==
    ASSUME IInv, pc = "core", NEW frame \in Frames, RecordStep(frame)
    PROVE  /\ steps' \in Seq([env : [state : States \cup {Null},
                                     effect_results : Seq(Results)], frame : Frames])
           /\ Len(steps') = iter + 1
           /\ steps'[iter + 1].frame = frame
           /\ TraceChained'
           /\ TraceBounded'
  <1> DEFINE step == [env |-> [state |-> state, effect_results |-> effect_results],
                      frame |-> frame]
  <1>1. /\ Last = iter /\ iter \in Nat /\ iter < MaxEffectSteps
        /\ iter = 0 => state = Null /\ effect_results = << >>
        /\ iter > 0 => /\ state = FrameOf(Last).state
                       /\ Answers(effect_results, FrameOf(Last).effects)
                       /\ FrameOf(Last).response = Null
    BY ConstantsAssumption DEF IInv, TypeOK, BetweenTurns, Guarded, Turning
  <1>2. step \in [env : [state : States \cup {Null}, effect_results : Seq(Results)],
                  frame : Frames]
    BY DEF IInv, TypeOK
  <1>3. steps' = Append(steps, step)
    BY DEF RecordStep
  <1> HIDE DEF step
  <1>4. /\ steps' \in Seq([env : [state : States \cup {Null},
                                  effect_results : Seq(Results)], frame : Frames])
        /\ Len(steps') = iter + 1
        /\ steps'[iter + 1] = step
        /\ \A i \in 1..iter : steps'[i] = steps[i]
    BY <1>1, <1>2, <1>3 DEF IInv, TypeOK, Last
  <1>5. TraceBounded'
    BY <1>1, <1>4, ConstantsAssumption DEF TraceBounded, Last
  <1>6. step.frame = frame /\ step.env = [state |-> state, effect_results |-> effect_results]
    BY DEF step
  <1>7. TraceChained'
    <2> SUFFICES ASSUME NEW i \in 1..(iter + 1)
                 PROVE  /\ i = 1 => steps'[i].env = [state |-> Null, effect_results |-> << >>]
                        /\ i > 1 =>
                             /\ steps'[i].env.state = steps'[i - 1].frame.state
                             /\ Answers(steps'[i].env.effect_results, steps'[i - 1].frame.effects)
                             /\ steps'[i - 1].frame.response = Null
      BY <1>4 DEF TraceChained, Last, EnvOf, FrameOf, Answers
    <2>1. CASE i <= iter
      <3>1. i \in 1..Last /\ steps'[i] = steps[i] /\ (i > 1 => steps'[i - 1] = steps[i - 1])
        BY <2>1, <1>1, <1>4
      <3> QED BY <3>1 DEF IInv, TraceChained, EnvOf, FrameOf
    <2>2. CASE i = iter + 1
      <3>1. steps'[i].env = [state |-> state, effect_results |-> effect_results]
        BY <2>2, <1>4, <1>6
      <3>2. i > 1 => iter > 0 /\ i - 1 = Last /\ steps'[i - 1] = steps[Last]
        <4>1. ASSUME i > 1 PROVE iter \in 1..iter /\ i - 1 = iter
          BY <4>1, <2>2, <1>1
        <4>2. ASSUME i > 1 PROVE steps'[iter] = steps[iter]
          BY <4>1, <4>2, <1>4
        <4> QED BY <4>1, <4>2, <1>1
      <3>3. i = 1 => iter = 0
        BY <2>2, <1>1
      <3> QED BY <3>1, <3>2, <3>3, <1>1 DEF FrameOf
    <2> QED BY <2>1, <2>2, <1>1
  <1> QED BY <1>4, <1>5, <1>6, <1>7

\* Steps of the loop itself.
LEMMA LoopInv ==
    ASSUME IInv, Loop
    PROVE  IInv'
  <1>1. CASE LoopBudgetExceeded
    BY <1>1, AbandonInv, DiagForms DEF LoopBudgetExceeded, Severities
  <1>2. CASE DispatchInvalid
    BY <1>2, AbandonInv, DiagForms DEF DispatchInvalid, Severities
  <1>3. CASE Dispatch
    <2>1. /\ pc = "dispatch" /\ pc' = "core" /\ iter < MaxEffectSteps
          /\ UNCHANGED <<clockMode, requests, outcomes, diags, hostVars, loopVars>>
      BY <1>3 DEF Dispatch
    <2>2. TypeOK' /\ TraceChained' /\ TraceBounded'
      BY <2>1 DEF IInv, TypeOK, TraceChained, TraceBounded, Last, EnvOf, FrameOf,
                  hostVars, loopVars
    <2>3. BetweenTurns' /\ WithinTurn' /\ Guarded'
      BY <2>1 DEF IInv, BetweenTurns, WithinTurn, Guarded, Last, FrameOf, Turning,
                  Executes, loopVars
    <2> QED BY <2>2, <2>3 DEF IInv
  <1>4. CASE CoreFails
    <2>1. PICK d \in CoreFailures : Abandon({d})
      BY <1>4 DEF CoreFails
    <2>2. d.severity \in Severities
      BY <2>1, DiagForms DEF CoreFailures, Severities
    <2> QED BY <1>4, <2>1, <2>2, AbandonInv DEF CoreFails
  <1>5. CASE FrameInvalid
    BY <1>5, AbandonInv, DiagForms DEF FrameInvalid, Severities
  <1>6. CASE FrameResponds
    <2>1. PICK frame \in Frames :
             /\ RecordStep(frame)
             /\ diags' = diags \cup (IF frame.response.body = BadPayload
                                     THEN {Warning("RESPONSE_BODY_INVALID", "run")} ELSE {})
      BY <1>6 DEF FrameResponds
    <2>2. /\ pc = "core" /\ pc' = "serve" /\ outcomes' = Append(outcomes, "responded")
          /\ UNCHANGED <<clockMode, requests, hostVars, iter, state, effect_results, pending,
                         next_results, result_payload_bytes>>
      BY <1>6 DEF FrameResponds
    <2>3. \A d \in diags' : d.severity \in Severities
      BY <2>1, DiagForms DEF IInv, TypeOK, Severities
    <2>4. TypeOK'
      <3>1. outcomes' \in Seq(Outcomes)
        BY <2>2 DEF IInv, TypeOK, Outcomes
      <3>2. steps' \in Seq([env : [state : States \cup {Null},
                                  effect_results : Seq(Results)], frame : Frames])
        BY <2>1, <2>2, RecordChained
      <3> QED BY <2>2, <2>3, <3>1, <3>2 DEF IInv, TypeOK, hostVars
    <2>5. TraceChained' /\ TraceBounded'
      BY <2>1, <2>2, RecordChained
    <2>6. BetweenTurns' /\ WithinTurn' /\ Guarded'
      BY <2>2 DEF BetweenTurns, WithinTurn, Guarded, Turning, Executes
    <2> QED BY <2>4, <2>5, <2>6 DEF IInv
  <1>7. CASE FrameContinues
    <2>1. PICK frame \in Frames :
             /\ frame.response = Null
             /\ RecordStep(frame)
             /\ state' = frame.state
             /\ pending' = frame.effects
             /\ asked' = asked \cup
                  {[key |-> frame.effects[i].key, value |-> frame.effects[i].value] :
                      i \in {j \in DOMAIN frame.effects : frame.effects[j].type = "kv.put"}}
      BY <1>7 DEF FrameContinues
    <2>2. /\ pc = "core" /\ pc' = "effects"
          /\ next_results' = << >> /\ result_payload_bytes' = 0
          /\ UNCHANGED <<clockMode, requests, outcomes, diags, kv, usesNetwork, usesOsTime,
                         contacted, iter, effect_results>>
      BY <1>7 DEF FrameContinues
    <2>3. frame.effects \in Seq(Effects) /\ frame.state \in States \cup {Null}
      BY <2>1, FrameEffects DEF Frames
    <2>4. asked' \subseteq [key : Keys, value : Payloads]
      <3>1. ASSUME NEW j \in DOMAIN frame.effects, frame.effects[j].type = "kv.put"
            PROVE  frame.effects[j].key \in Keys /\ frame.effects[j].value \in Payloads
        <4>1. frame.effects[j] \in Effects
          BY <2>3
        <4> QED BY <3>1, <4>1 DEF Effects
      <3> QED BY <3>1, <2>1 DEF IInv, TypeOK
    <2>5. /\ Len(steps') = iter + 1 /\ steps'[iter + 1].frame = frame
          /\ TraceChained' /\ TraceBounded'
          /\ steps' \in Seq([env : [state : States \cup {Null},
                                    effect_results : Seq(Results)], frame : Frames])
      BY <2>1, <2>2, RecordChained
    <2>6. << >> \in Seq(Results) /\ Len(<< >>) = 0
      OBVIOUS
    <2>7. TypeOK'
      BY <2>1, <2>2, <2>3, <2>4, <2>5, <2>6 DEF IInv, TypeOK
    <2>8. FrameOf(Last)' = frame /\ Last' = iter' + 1
      BY <2>2, <2>5 DEF FrameOf, Last
    <2>9. Len(pending') \in Nat
      BY <2>1, <2>3
    <2>10. WithinTurn'
      BY <2>1, <2>2, <2>6, <2>8, <2>9, ConstantsAssumption DEF WithinTurn
    <2>11. BetweenTurns' /\ Guarded'
      BY <2>2 DEF IInv, BetweenTurns, Guarded, Turning, Executes
    <2> QED BY <2>5, <2>7, <2>10, <2>11 DEF IInv
  <1>8. CASE EndOfTurn
    <2>1. /\ pc = "effects" /\ pc' = "dispatch" /\ pending = << >>
          /\ effect_results' = next_results /\ iter' = iter + 1
          /\ UNCHANGED <<clockMode, requests, outcomes, diags, hostVars, steps, state, pending,
                         next_results, result_payload_bytes>>
      BY <1>8 DEF EndOfTurn
    <2>2. iter \in Nat /\ iter < MaxEffectSteps
      BY <2>1, ConstantsAssumption DEF IInv, TypeOK, Guarded, Executes
    <2>3. TypeOK'
      BY <2>1, <2>2, ConstantsAssumption DEF IInv, TypeOK, hostVars
    <2>4. TraceChained' /\ TraceBounded'
      BY <2>1 DEF IInv, TraceChained, TraceBounded, Last, EnvOf, FrameOf
    <2>5. Len(pending) = 0 /\ Len(next_results) \in Nat
      BY <2>1 DEF IInv, TypeOK
    <2>6. Answers(next_results, FrameOf(Last).effects)
      BY <2>1, <2>5 DEF IInv, WithinTurn, Executes, Answers
    <2>7. BetweenTurns'
      <3>1. Last' = Last /\ FrameOf(Last)' = FrameOf(Last)
        BY <2>1 DEF Last, FrameOf
      <3>2. Answers(effect_results, FrameOf(Last).effects)'
        BY <2>1, <2>6, <3>1 DEF Answers
      <3> QED
        BY <2>1, <2>2, <3>1, <3>2 DEF IInv, WithinTurn, Executes, BetweenTurns
    <2>8. WithinTurn' /\ Guarded'
      BY <2>1 DEF WithinTurn, Guarded, Executes
    <2> QED BY <2>3, <2>4, <2>7, <2>8 DEF IInv
  <1> QED
    BY <1>1, <1>2, <1>3, <1>4, <1>5, <1>6, <1>7, <1>8 DEF Loop

\* Start-up, the next request, the report.
LEMMA ServeInv ==
    ASSUME IInv, Startup \/ BeginRequest \/ EmitReport \/ Reported
    PROVE  IInv'
  <1>1. CASE SetupFails
    <2>1. /\ pc' = "reported" /\ UNCHANGED <<clockMode, requests, outcomes, hostVars, loopVars>>
          /\ \A d \in diags' : d.severity \in Severities
      BY <1>1, DiagForms DEF SetupFails, SetupFailures, IInv, TypeOK, Severities
    <2> QED
      BY <2>1 DEF IInv, TypeOK, TraceChained, TraceBounded, BetweenTurns, WithinTurn,
                  Guarded, Last, EnvOf, FrameOf, Turning, Executes, hostVars, loopVars
  <1>2. CASE ReadStdin
    <2>0. PICK n \in 0..MaxLines : \E lines \in [1..n -> LineKinds] :
             /\ requests' = Cardinality({i \in 1..n : lines[i] = "envelope"})
             /\ diags' = diags \cup UNION {LineDiag(lines[i]) : i \in 1..n}
      BY <1>2 DEF ReadStdin
    <2>1. PICK lines \in [1..n -> LineKinds] :
             /\ requests' = Cardinality({i \in 1..n : lines[i] = "envelope"})
             /\ diags' = diags \cup UNION {LineDiag(lines[i]) : i \in 1..n}
      BY <2>0
    <2>2. \A kind : \A d \in LineDiag(kind) : d.severity \in Severities
      BY DiagForms DEF LineDiag, Severities
    <2>3. \A d \in diags' : d.severity \in Severities
      <3>1. \A d \in UNION {LineDiag(lines[i]) : i \in 1..n} : d.severity \in Severities
        BY <2>2
      <3> QED BY <2>1, <3>1 DEF IInv, TypeOK
    <2>4. requests' \in Nat
      <3>1. n \in Int /\ IsFiniteSet(1..n)
        BY FS_Interval, ConstantsAssumption
      <3>2. IsFiniteSet({i \in 1..n : lines[i] = "envelope"})
        BY <3>1, FS_Subset
      <3> QED BY <2>1, <3>2, FS_CardinalityType
    <2>5. pc' = "serve" /\ UNCHANGED <<clockMode, outcomes, hostVars, loopVars>>
      BY <1>2 DEF ReadStdin
    <2> QED
      BY <2>3, <2>4, <2>5
      DEF IInv, TypeOK, TraceChained, TraceBounded, BetweenTurns, WithinTurn,
          Guarded, Last, EnvOf, FrameOf, Turning, Executes, hostVars, loopVars
  <1>3. CASE StartCanary \/ EmitReport
    <2>1. /\ pc' \in {"serve", "reported"} /\ requests' \in {1, requests}
          /\ UNCHANGED <<clockMode, outcomes, diags, hostVars, loopVars>>
      BY <1>3 DEF StartCanary, EmitReport
    <2> QED
      BY <2>1 DEF IInv, TypeOK, TraceChained, TraceBounded, BetweenTurns, WithinTurn,
                  Guarded, Last, EnvOf, FrameOf, Turning, Executes, hostVars, loopVars
  <1>4. CASE BeginRequest
    <2>1. /\ pc' = "dispatch" /\ iter' = 0 /\ steps' = << >> /\ state' = Null
          /\ effect_results' = << >> /\ pending' = << >> /\ next_results' = << >>
          /\ result_payload_bytes' = 0
          /\ UNCHANGED <<clockMode, requests, outcomes, diags, hostVars>>
      BY <1>4 DEF BeginRequest
    <2>2. /\ << >> \in Seq(Effects) /\ << >> \in Seq(Results) /\ Len(<< >>) = 0
          /\ << >> \in Seq([env : [state : States \cup {Null},
                                   effect_results : Seq(Results)], frame : Frames])
      OBVIOUS
    <2>3. TypeOK'
      BY <2>1, <2>2, ConstantsAssumption DEF IInv, TypeOK, hostVars
    <2>4. TraceChained' /\ TraceBounded'
      BY <2>1, <2>2, ConstantsAssumption DEF TraceChained, TraceBounded, Last
    <2>5. BetweenTurns' /\ WithinTurn' /\ Guarded'
      BY <2>1, <2>2 DEF BetweenTurns, WithinTurn, Guarded, Last, Turning, Executes
    <2> QED BY <2>3, <2>4, <2>5 DEF IInv
  <1>5. CASE Reported
    BY <1>5 DEF Reported, vars, IInv, TypeOK, TraceChained, TraceBounded, BetweenTurns,
                WithinTurn, Guarded, Last, EnvOf, FrameOf, hostVars, loopVars
  <1> QED BY <1>1, <1>2, <1>3, <1>4, <1>5 DEF Startup

LEMMA StutterInv ==
    ASSUME IInv, UNCHANGED vars
    PROVE  IInv'
  BY DEF vars, IInv, TypeOK, TraceChained, TraceBounded, BetweenTurns, WithinTurn,
         Guarded, Last, EnvOf, FrameOf, hostVars, loopVars

\* The inductive invariant holds in every reachable state.
THEOREM Inductive == Spec => []IInv
  <1>1. IInv /\ [Next]_vars => IInv'
    BY EffectInv, LoopInv, ServeInv, StutterInv DEF Next, HostStep
  <1> QED BY InitInv, <1>1, PTL DEF Spec

\* The variables keep their shape for every instance of the constants.
THEOREM TypeCorrect == Spec => []TypeOK
  BY Inductive, PTL DEF IInv

\* For every reducer and every pair of budgets, the trace of a request is a
\* chain: each dispatch carries one result per effect of the frame before it,
\* in order, and that frame's state (replay.rs:171-216).
THEOREM ChainCorrect == Spec => []TraceChained
  BY Inductive, PTL DEF IInv

\* No request calls the reducer more often than --max-effect-steps allows.
THEOREM StepBudgetCorrect == Spec => []StepBudgetHolds
  <1>1. IInv => StepBudgetHolds
    BY ConstantsAssumption
    DEF IInv, TypeOK, BetweenTurns, Guarded, TraceBounded, StepBudgetHolds, Turning, Last
  <1> QED BY Inductive, <1>1, PTL
-----------------------------------------------------------------------------

\* Diagnostics only accumulate, so an error seen once is in the report.
LEMMA ErrorsAccumulate ==
    ASSUME NEW ds, NEW more, HasError(ds)
    PROVE  HasError(ds \cup more)
  BY DEF HasError, Errors

LEMMA ErrorIsError ==
    ASSUME NEW ds, NEW d \in ds, d.severity = "error"
    PROVE  HasError(ds)
  BY DEF HasError, Errors

LEMMA CodeZero ==
    ASSUME NEW ds, ExitCodeOf(ds) = 0
    PROVE  ~HasError(ds)
  BY DEF ExitCodeOf, HasError, Errors

\* What one step does to the outcomes and to the error state.
LEMMA AbandonReports ==
    ASSUME NEW ds, NEW d \in ds, d.severity = "error", Abandon(ds)
    PROVE  /\ outcomes' = Append(outcomes, "failed")
           /\ HasError(diags')
           /\ pc' = "serve"
  BY ErrorIsError DEF Abandon

LEMMA SettleReports ==
    ASSUME IInv, pc \in Executes, NEW res \in Results, NEW ds, Settle(res, ds)
    PROVE  /\ HasError(diags) => HasError(diags')
           /\ requests' = requests
           /\ \/ /\ outcomes' = Append(outcomes, "failed")
                 /\ HasError(diags')
                 /\ pc' = "serve"
                 /\ result_payload_bytes + PayloadBytes(res) > MaxEffectResultsBytes
              \/ /\ UNCHANGED outcomes
                 /\ diags' = diags \cup ds
                 /\ pc' = "effects"
  <1> DEFINE over == Error("HTTP_EFFECT_RESULT_BYTES", "run", "budget")
  <1>1. over.severity = "error"
    BY DiagForms
  <1>2. requests' = requests
    BY DEF Settle
  <1>3. CASE /\ result_payload_bytes + PayloadBytes(res) > MaxEffectResultsBytes
             /\ Abandon(ds \cup {over})
    <2>1. HasError(diags') /\ outcomes' = Append(outcomes, "failed") /\ pc' = "serve"
      BY <1>1, <1>3, AbandonReports
    <2> QED BY <1>2, <1>3, <2>1
  <1>4. CASE diags' = diags \cup ds /\ pc' = "effects" /\ UNCHANGED outcomes
    BY <1>2, <1>4, ErrorsAccumulate
  <1> QED BY <1>3, <1>4 DEF Settle

\* An effect step either leaves the outcomes alone or adds a reported failure.
LEMMA EffectReports ==
    ASSUME IInv, Effect \/ FetchDone
    PROVE  /\ HasError(diags) => HasError(diags')
           /\ requests' = requests
           /\ pc \in Executes
           /\ \/ UNCHANGED outcomes /\ pc' \in Executes
              \/ outcomes' = Append(outcomes, "failed") /\ HasError(diags') /\ pc' = "serve"
  <1>1. pc \in Executes /\ pending # << >>
    BY DEF Effect, FetchDone, KvGet, KvPut, LogEmit, TimeNow, FetchRefused, FetchBadBody,
           FetchSend, FetchAnswered, FetchBreaks, Executing, Executes, IInv, Guarded
  <1>2. Head(pending) \in Effects
    BY <1>1 DEF IInv, TypeOK
  <1>3. CASE FetchSend
    BY <1>3, <1>1 DEF FetchSend, Executes
  <1>4. CASE ~FetchSend
    <2>1. \E res \in Results, ds \in SUBSET (UNION {{FetchFailed}, {},
                 {Error("HTTP_EFFECT_KV_IO_FAILED", "run", "tool")},
                 {Error("CAPS_CLOCK_DENIED", "run", "general")},
                 {Error("CAPS_NET_DENIED", "run", "general")}}) : Settle(res, ds)
      <3> DEFINE eff == Head(pending)
      <3>1. CASE KvGet
        <4>1. eff.key \in Keys
          BY <1>2, <3>1 DEF KvGet, Executing, Effects
        <4>2. (IF kv[eff.key] = Null THEN 0 ELSE kv[eff.key]) \in Nat
          BY <4>1, ConstantsAssumption DEF IInv, TypeOK
        <4> DEFINE n == IF kv[eff.key] = Null THEN 0 ELSE kv[eff.key]
        <4>3. Done(eff, n) \in Results
          BY <1>2, <4>2, ResultForms
        <4> QED BY <3>1, <4>3 DEF KvGet
      <3>2. CASE KvPut \/ LogEmit \/ TimeNow
        <4>1. Done(eff, 0) \in Results /\ Refused(eff) \in Results
          BY <1>2, ResultForms
        <4> QED BY <3>2, <4>1 DEF KvPut, LogEmit, TimeNow
      <3>3. CASE FetchRefused \/ FetchBadBody \/ FetchBreaks
        <4>1. Refused(eff) \in Results
          BY <1>2, ResultForms
        <4> QED BY <3>3, <4>1 DEF FetchRefused, FetchBadBody, FetchBreaks
      <3>4. CASE FetchAnswered
        <4>1. PICK n \in Sizes, valid \in BOOLEAN :
                 Settle([Done(eff, n) EXCEPT !.inSchema = valid], {})
          BY <3>4 DEF FetchAnswered
        <4>2. [Done(eff, n) EXCEPT !.inSchema = valid] \in Results
          BY <1>2, ResultForms, ConstantsAssumption
        <4> QED BY <4>1, <4>2
      <3> QED BY <1>4, <3>1, <3>2, <3>3, <3>4 DEF Effect, FetchDone
    <2> QED BY <1>1, <2>1, SettleReports DEF Executes
  <1> QED BY <1>3, <1>4

-----------------------------------------------------------------------------
\* Outcomes never run ahead of the accepted requests, and the command only
\* reports when it has served them all or has an error to show.
ServeInvariant ==
    /\ (\E i \in DOMAIN outcomes : outcomes[i] = "failed") => HasError(diags)
    /\ pc = "start" => outcomes = << >>
    /\ pc = "serve" => Len(outcomes) <= requests
    /\ pc \in Turning \cup Executes => Len(outcomes) < requests
    /\ pc = "reported" => HasError(diags) \/ Len(outcomes) = requests

AllInv == IInv /\ ServeInvariant

\* Appending an outcome keeps the report complete.
LEMMA AppendOutcome ==
    ASSUME AllInv, pc \in Turning \cup Executes, requests' = requests, pc' = "serve",
           NEW o \in Outcomes, outcomes' = Append(outcomes, o),
           o = "failed" => HasError(diags'),
           HasError(diags) => HasError(diags')
    PROVE  ServeInvariant'
  <1>1. outcomes \in Seq(Outcomes) /\ requests \in Nat /\ Len(outcomes) < requests
    BY DEF AllInv, IInv, TypeOK, ServeInvariant
  <1>2. Len(outcomes') = Len(outcomes) + 1
    BY <1>1
  <1>3. ASSUME NEW i \in DOMAIN outcomes', outcomes'[i] = "failed"
        PROVE  HasError(diags')
    <2>1. CASE i \in DOMAIN outcomes
      BY <2>1, <1>1, <1>3 DEF AllInv, ServeInvariant
    <2>2. CASE i = Len(outcomes) + 1
      BY <2>2, <1>1, <1>3
    <2> QED BY <2>1, <2>2, <1>1, <1>2
  <1> QED
    BY <1>1, <1>2, <1>3 DEF ServeInvariant, Turning, Executes

LEMMA ServeStep == AllInv /\ [Next]_vars => ServeInvariant'
  <1> SUFFICES ASSUME AllInv, [Next]_vars PROVE ServeInvariant'
    OBVIOUS
  <1> USE DEF AllInv
  <1>0. requests \in Nat /\ outcomes \in Seq(Outcomes) /\ Len(outcomes) \in Nat
    BY DEF IInv, TypeOK
  <1>1. CASE Effect \/ FetchDone
    <2>1. /\ HasError(diags) => HasError(diags')
          /\ requests' = requests
          /\ pc \in Executes
          /\ \/ UNCHANGED outcomes /\ pc' \in Executes
             \/ outcomes' = Append(outcomes, "failed") /\ HasError(diags') /\ pc' = "serve"
      BY <1>1, EffectReports
    <2>2. CASE UNCHANGED outcomes /\ pc' \in Executes
      BY <2>1, <2>2 DEF ServeInvariant, Executes, Turning
    <2>3. CASE outcomes' = Append(outcomes, "failed") /\ HasError(diags') /\ pc' = "serve"
      BY <2>1, <2>3, AppendOutcome DEF Outcomes
    <2> QED BY <2>1, <2>2, <2>3
  <1>2. CASE LoopBudgetExceeded \/ DispatchInvalid \/ CoreFails \/ FrameInvalid
    <2>1. \E d : d.severity = "error" /\ Abandon({d})
      <3>1. CASE CoreFails
        BY <3>1, DiagForms DEF CoreFails, CoreFailures
      <3>2. CASE LoopBudgetExceeded
        BY <3>2, DiagForms DEF LoopBudgetExceeded
      <3>3. CASE DispatchInvalid
        BY <3>3, DiagForms DEF DispatchInvalid
      <3>4. CASE FrameInvalid
        BY <3>4, DiagForms DEF FrameInvalid
      <3> QED BY <1>2, <3>1, <3>2, <3>3, <3>4
    <2>2. outcomes' = Append(outcomes, "failed") /\ HasError(diags') /\ pc' = "serve"
      BY <2>1, AbandonReports
    <2>3. pc \in Turning /\ requests' = requests
      BY <1>2 DEF LoopBudgetExceeded, DispatchInvalid, CoreFails, FrameInvalid, Turning
    <2> QED BY <2>2, <2>3, AppendOutcome DEF Outcomes
  <1>3. CASE FrameResponds
    <2>1. /\ pc \in Turning /\ requests' = requests /\ pc' = "serve"
          /\ outcomes' = Append(outcomes, "responded")
      BY <1>3 DEF FrameResponds, Turning
    <2>2. HasError(diags) => HasError(diags')
      BY <1>3, ErrorsAccumulate DEF FrameResponds
    <2> QED BY <2>1, <2>2, AppendOutcome DEF Outcomes
  <1>4. CASE Dispatch \/ FrameContinues \/ EndOfTurn
    <2>1. /\ pc \in Turning \cup Executes /\ pc' \in Turning \cup Executes
          /\ UNCHANGED <<requests, outcomes, diags>>
      BY <1>4 DEF Dispatch, FrameContinues, EndOfTurn, Turning, Executes
    <2> QED BY <2>1 DEF ServeInvariant, Turning, Executes
  <1>5. CASE SetupFails
    <2>1. PICK d \in SetupFailures : diags' = diags \cup {d}
      BY <1>5 DEF SetupFails
    <2>2. HasError(diags')
      <3>1. d.severity = "error" /\ d \in diags'
        BY <2>1, DiagForms DEF SetupFailures
      <3> QED BY <3>1, ErrorIsError
    <2> QED
      BY <1>5, <2>2 DEF SetupFails, ServeInvariant, Turning, Executes
  <1>6. CASE ReadStdin \/ StartCanary
    <2>1. pc = "start" /\ pc' = "serve" /\ UNCHANGED outcomes
      BY <1>6 DEF ReadStdin, StartCanary
    <2>2. requests' \in Nat
      <3>1. IInv'
        BY <1>6, ServeInv DEF Startup
      <3> QED BY <3>1 DEF IInv, TypeOK
    <2>3. outcomes = << >> /\ outcomes' = << >>
      BY <2>1 DEF ServeInvariant
    <2> QED BY <2>1, <2>2, <2>3 DEF ServeInvariant, Turning, Executes
  <1>7. CASE BeginRequest
    BY <1>7 DEF BeginRequest, ServeInvariant, Turning, Executes
  <1>8. CASE EmitReport
    BY <1>8 DEF EmitReport, ServeInvariant, Turning, Executes
  <1>9. CASE Reported \/ UNCHANGED vars
    BY <1>9 DEF Reported, vars, ServeInvariant
  <1> QED
    BY <1>1, <1>2, <1>3, <1>4, <1>5, <1>6, <1>7, <1>8, <1>9
    DEF Next, HostStep, Startup, Loop

\* The two invariants together are inductive.
THEOREM AllInductive == Spec => []AllInv
  <1>1. Init => ServeInvariant
    BY DEF Init, ServeInvariant, Turning, Executes
  <1>2. AllInv /\ [Next]_vars => ServeInvariant'
    BY ServeStep
  <1>3. IInv /\ ServeInvariant => AllInv
    BY DEF AllInv
  <1>4. AllInv => IInv /\ ServeInvariant
    BY DEF AllInv
  <1> QED BY <1>1, <1>2, <1>3, <1>4, Inductive, PTL DEF Spec

\* A request that ends without a response leaves an error in the report, and
\* exit code 0 means that every accepted request got the reducer's response.
THEOREM FailuresReported == Spec => []FailureReported
  <1>1. AllInv => FailureReported
    <2> SUFFICES ASSUME AllInv PROVE FailureReported
      OBVIOUS
    <2>1. outcomes \in Seq(Outcomes) /\ requests \in Nat
      BY DEF AllInv, IInv, TypeOK
    <2>2. ASSUME pc = "reported", ExitCodeOf(diags) = 0
          PROVE  Len(outcomes) = requests /\ \A i \in 1..requests : outcomes[i] = "responded"
      <3>1. ~HasError(diags)
        BY <2>2, CodeZero
      <3>2. Len(outcomes) = requests
        BY <2>2, <3>1 DEF AllInv, ServeInvariant
      <3>3. \A i \in DOMAIN outcomes : outcomes[i] # "failed" /\ outcomes[i] \in Outcomes
        BY <2>1, <3>1 DEF AllInv, ServeInvariant
      <3> QED BY <2>1, <3>2, <3>3 DEF Outcomes
    <2> QED BY <2>2 DEF FailureReported, AllInv, ServeInvariant
  <1> QED BY <1>1, AllInductive, PTL

-----------------------------------------------------------------------------
(* The loop implements the contract.                                       *)

ContractVarsUnchanged ==
    /\ Phase' = Phase /\ requests' = requests /\ outcomes' = outcomes
    /\ HasError(diags') = HasError(diags) /\ kv' = kv

HasErrorBoolean == HasError(diags) \in BOOLEAN /\ HasError(diags') \in BOOLEAN

\* A kv.put fits the budget: its result carries no payload, so the write and
\* the end of the request are never one step (replay.rs:199-213).
LEMMA PutContinues ==
    ASSUME AllInv, KvPut
    PROVE  /\ UNCHANGED <<outcomes, requests>>
           /\ Phase = "open" /\ Phase' = "open"
           /\ HasError(diags) => HasError(diags')
           /\ \/ UNCHANGED kv
              \/ /\ \E k \in Keys, v \in Sizes : kv' = [kv EXCEPT ![k] = v]
                 /\ diags' = diags
  <1> DEFINE eff == Head(pending)
  <1>1. /\ pc \in Executes /\ pending # << >> /\ eff.type = "kv.put" /\ eff \in Effects
        /\ result_payload_bytes \in Nat /\ result_payload_bytes <= MaxEffectResultsBytes
    BY DEF KvPut, Executing, Executes, AllInv, IInv, TypeOK, WithinTurn
  <1>2. eff.key \in Keys /\ eff.value \in Payloads
    BY <1>1 DEF Effects
  <1>3. ASSUME NEW res \in Results, res \in {Done(eff, 0), Refused(eff)}
        PROVE  result_payload_bytes + PayloadBytes(res) = result_payload_bytes
    <2>1. res.bytes = 0
      BY <1>3 DEF Done, Refused
    <2> QED BY <2>1, <1>1 DEF PayloadBytes
  <1>4. Done(eff, 0) \in Results /\ Refused(eff) \in Results
    BY <1>1, ResultForms
  <1>5. ASSUME NEW res \in Results, res \in {Done(eff, 0), Refused(eff)}, NEW ds, Settle(res, ds)
        PROVE  /\ UNCHANGED <<outcomes, requests>> /\ pc' = "effects"
               /\ diags' = diags \cup ds
    BY <1>1, <1>3, <1>5, SettleReports, ConstantsAssumption DEF AllInv
  <1>6. Phase = "open"
    BY <1>1 DEF Phase, Executes
  <1>7. CASE eff.value # BadPayload
    <2>1. kv' = [kv EXCEPT ![eff.key] = eff.value] /\ Settle(Done(eff, 0), {})
      BY <1>7 DEF KvPut
    <2>2. UNCHANGED <<outcomes, requests, diags>> /\ pc' = "effects"
      BY <2>1, <1>4, <1>5
    <2>3. Phase' = "open"
      BY <2>2 DEF Phase
    <2> QED BY <2>1, <2>2, <2>3, <1>2, <1>6, <1>7 DEF Payloads
  <1>8. CASE eff.value = BadPayload
    <2>1. UNCHANGED kv /\ Settle(Refused(eff), {Error("HTTP_EFFECT_KV_IO_FAILED", "run", "tool")})
      BY <1>8 DEF KvPut
    <2>2. /\ UNCHANGED <<outcomes, requests>> /\ pc' = "effects"
          /\ HasError(diags) => HasError(diags')
      BY <2>1, <1>4, <1>5, ErrorsAccumulate
    <2>3. Phase' = "open"
      BY <2>2 DEF Phase
    <2> QED BY <2>1, <2>2, <2>3, <1>6
  <1> QED BY <1>7, <1>8

\* Every step of the loop is a step of the contract or changes nothing in it.
LEMMA ContractStep ==
    ASSUME AllInv, [Next]_vars
    PROVE  Contract!Next \/ ContractVarsUnchanged
  <1> USE DEF AllInv
  <1>0. HasErrorBoolean
    BY DEF HasErrorBoolean, HasError
  <1>1. CASE KvPut
    <2>1. /\ UNCHANGED <<outcomes, requests>> /\ Phase = "open" /\ Phase' = "open"
          /\ HasError(diags) => HasError(diags')
          /\ \/ UNCHANGED kv
             \/ /\ \E k \in Keys, v \in Sizes : kv' = [kv EXCEPT ![k] = v]
                /\ diags' = diags
      BY <1>1, PutContinues
    <2>2. Len(outcomes) < requests
      BY <1>1 DEF KvPut, Executing, ServeInvariant, Executes
    <2>3. CASE UNCHANGED kv /\ HasError(diags') = HasError(diags)
      BY <2>1, <2>3 DEF ContractVarsUnchanged
    <2>4. CASE UNCHANGED kv /\ HasError(diags') # HasError(diags)
      <3>1. HasError(diags') = TRUE
        BY <2>1, <2>4, <1>0 DEF HasErrorBoolean
      <3> QED BY <2>1, <2>2, <2>4, <3>1 DEF Contract!Next, Contract!Mishap
    <2>5. CASE /\ \E k \in Keys, v \in Sizes : kv' = [kv EXCEPT ![k] = v]
               /\ diags' = diags
      BY <2>1, <2>2, <2>5 DEF Contract!Next, Contract!Write
    <2> QED BY <2>1, <2>3, <2>4, <2>5
  <1>2. CASE (Effect \/ FetchDone) /\ ~KvPut
    <2>1. /\ HasError(diags) => HasError(diags')
          /\ requests' = requests
          /\ pc \in Executes
          /\ \/ UNCHANGED outcomes /\ pc' \in Executes
             \/ outcomes' = Append(outcomes, "failed") /\ HasError(diags') /\ pc' = "serve"
      BY <1>2, EffectReports
    <2>2. UNCHANGED kv
      BY <1>2 DEF Effect, FetchDone, KvGet, LogEmit, TimeNow, FetchRefused, FetchBadBody,
                  FetchSend, FetchAnswered, FetchBreaks
    <2>3. Len(outcomes) < requests /\ Phase = "open" /\ Phase' = "open"
      BY <2>1 DEF ServeInvariant, Executes, Phase
    <2>4. CASE UNCHANGED outcomes /\ HasError(diags') = HasError(diags)
      BY <2>1, <2>2, <2>3, <2>4 DEF ContractVarsUnchanged
    <2>5. CASE UNCHANGED outcomes /\ HasError(diags') # HasError(diags)
      <3>1. HasError(diags') = TRUE
        BY <2>1, <2>5, <1>0 DEF HasErrorBoolean
      <3> QED BY <2>1, <2>2, <2>3, <2>5, <3>1 DEF Contract!Next, Contract!Mishap
    <2>6. CASE outcomes' = Append(outcomes, "failed") /\ HasError(diags')
      <3>1. HasError(diags') = TRUE
        BY <2>6, <1>0 DEF HasErrorBoolean
      <3> QED BY <2>1, <2>2, <2>3, <2>6, <3>1 DEF Contract!Next, Contract!Answer
    <2> QED BY <2>1, <2>4, <2>5, <2>6
  <1>3. CASE LoopBudgetExceeded \/ DispatchInvalid \/ CoreFails \/ FrameInvalid
    <2>1. \E d : d.severity = "error" /\ Abandon({d})
      <3>1. CASE CoreFails
        BY <3>1, DiagForms DEF CoreFails, CoreFailures
      <3>2. CASE LoopBudgetExceeded
        BY <3>2, DiagForms DEF LoopBudgetExceeded
      <3>3. CASE DispatchInvalid
        BY <3>3, DiagForms DEF DispatchInvalid
      <3>4. CASE FrameInvalid
        BY <3>4, DiagForms DEF FrameInvalid
      <3> QED BY <1>3, <3>1, <3>2, <3>3, <3>4
    <2>2. outcomes' = Append(outcomes, "failed") /\ HasError(diags') = TRUE /\ pc' = "serve"
      BY <2>1, <1>0, AbandonReports DEF HasErrorBoolean
    <2>3. pc \in Turning /\ UNCHANGED <<requests, kv>>
      BY <1>3 DEF LoopBudgetExceeded, DispatchInvalid, CoreFails, FrameInvalid, Turning, hostVars
    <2>4. Phase = "open" /\ Phase' = "open" /\ Len(outcomes) < requests
      BY <2>2, <2>3 DEF Phase, Turning, ServeInvariant
    <2> QED BY <2>2, <2>3, <2>4 DEF Contract!Next, Contract!Answer
  <1>4. CASE FrameResponds
    <2>1. /\ pc \in Turning /\ pc' = "serve" /\ UNCHANGED <<requests, kv>>
          /\ outcomes' = Append(outcomes, "responded")
      BY <1>4 DEF FrameResponds, Turning, hostVars
    <2>2. HasError(diags') = HasError(diags)
      <3>1. PICK frame \in Frames :
               diags' = diags \cup (IF frame.response.body = BadPayload
                                    THEN {Warning("RESPONSE_BODY_INVALID", "run")} ELSE {})
        BY <1>4 DEF FrameResponds
      <3>2. Warning("RESPONSE_BODY_INVALID", "run").severity # "error"
        BY DiagForms
      <3>3. Errors(diags') = Errors(diags)
        BY <3>1, <3>2 DEF Errors
      <3> QED BY <3>3 DEF HasError
    <2>3. Phase = "open" /\ Phase' = "open" /\ Len(outcomes) < requests
      BY <2>1 DEF Phase, Turning, ServeInvariant
    <2> QED BY <2>1, <2>2, <2>3 DEF Contract!Next, Contract!Answer
  <1>5. CASE Dispatch \/ FrameContinues \/ EndOfTurn \/ BeginRequest
    <2>1. /\ pc # "start" /\ pc # "reported" /\ pc' # "start" /\ pc' # "reported"
          /\ UNCHANGED <<requests, outcomes, diags, kv>>
      BY <1>5 DEF Dispatch, FrameContinues, EndOfTurn, BeginRequest, hostVars
    <2> QED BY <2>1 DEF ContractVarsUnchanged, Phase
  <1>6. CASE SetupFails
    <2>1. PICK d \in SetupFailures : diags' = diags \cup {d}
      BY <1>6 DEF SetupFails
    <2>2. HasError(diags') = TRUE
      <3>1. d.severity = "error" /\ d \in diags'
        BY <2>1, DiagForms DEF SetupFailures
      <3> QED BY <3>1, <1>0, ErrorIsError DEF HasErrorBoolean
    <2>3. Phase = "opening" /\ Phase' = "closed" /\ UNCHANGED <<requests, outcomes, kv>>
      BY <1>6 DEF SetupFails, Phase, hostVars
    <2> QED BY <2>2, <2>3 DEF Contract!Next, Contract!Close
  <1>7. CASE ReadStdin \/ StartCanary
    <2>1. /\ Phase = "opening" /\ Phase' = "open" /\ UNCHANGED <<outcomes, kv>>
          /\ pc = "start" /\ requests' \in Nat
      <3>1. IInv'
        BY <1>7, ServeInv DEF Startup
      <3>2. requests' \in Nat
        BY <3>1 DEF IInv, TypeOK
      <3>3. pc = "start" /\ pc' = "serve" /\ UNCHANGED <<outcomes, kv>>
        BY <1>7 DEF ReadStdin, StartCanary, hostVars
      <3> QED BY <3>2, <3>3 DEF Phase
    <2>2. HasError(diags) => HasError(diags')
      <3>1. \E more : diags' = diags \cup more
        <4>1. CASE ReadStdin
          BY <1>7, <4>1 DEF ReadStdin
        <4>2. CASE StartCanary
          <5>1. diags' = diags \cup {}
            BY <4>2 DEF StartCanary
          <5> QED BY <5>1
        <4> QED BY <1>7, <4>1, <4>2
      <3> QED BY <3>1, ErrorsAccumulate
    <2>3. HasError(diags') \in {HasError(diags), TRUE}
      BY <2>2, <1>0 DEF HasErrorBoolean
    <2> QED BY <2>1, <2>3 DEF Contract!Next, Contract!Accept, Contract!Note
  <1>8. CASE EmitReport
    <2>1. /\ Phase = "open" /\ Phase' = "closed" /\ Len(outcomes) = requests
          /\ UNCHANGED <<requests, outcomes, diags, kv>>
      BY <1>8 DEF EmitReport, Phase, hostVars
    <2> QED BY <2>1 DEF Contract!Next, Contract!Close
  <1>9. CASE Reported \/ UNCHANGED vars
    BY <1>9 DEF Reported, vars, ContractVarsUnchanged, Phase, hostVars
  <1> QED
    BY <1>1, <1>2, <1>3, <1>4, <1>5, <1>6, <1>7, <1>8, <1>9
    DEF Next, HostStep, Startup, Loop, Effect

\* `http serve` implements its contract for every reducer, every peer and
\* every value of the budgets: requests are answered once, in order; the store
\* changes only while a request is open; an error is never lost.
THEOREM LoopImplementsContract == Spec => ImplementsContract
  <1>1. Init => Contract!Init
    <2> SUFFICES ASSUME Init PROVE Contract!Init
      OBVIOUS
    <2>1. HasError(diags) = FALSE
      BY DEF Init, HasError, Errors
    <2> QED BY <2>1 DEF Init, Contract!Init, Phase
  <1>2. AllInv /\ [Next]_vars => [Contract!Next]_(Contract!vars)
    BY ContractStep DEF ContractVarsUnchanged, Contract!vars
  <1> QED
    BY <1>1, <1>2, AllInductive, PTL DEF Spec, Contract!Spec, ImplementsContract
-----------------------------------------------------------------------------
(* The store and the flags.                                                *)

\* A kv.put that waits for its turn was recorded with the frame it is of.
PendingAsked ==
    \A j \in 1..Len(pending) :
        pending[j].type = "kv.put" => [key |-> pending[j].key, value |-> pending[j].value] \in asked

StoreInv == PendingAsked /\ KvJustified

\* A result says no more than the flags do.
Covered(res, mode, osTime, network, hosts) ==
    /\ res.ok /\ res.eff.type = "time.now"   => osTime /\ mode # "deny"
    /\ res.ok /\ res.eff.type = "http.fetch" => network /\ res.eff.host \in hosts

AllCovered(results) ==
    \A j \in 1..Len(results) : Covered(results[j], clockMode, usesOsTime, usesNetwork, contacted)

\* Results are covered from when they are made, through the next dispatch, to
\* the trace; the flags stand before an answer is in.
CoverInv ==
    /\ AllCovered(next_results) /\ AllCovered(effect_results)
    /\ \A i \in 1..Last : AllCovered(EnvOf(i).effect_results)
    /\ pc = "fetch" => usesNetwork /\ Head(pending).host \in contacted
    /\ contacted # {} => usesNetwork
    /\ contacted \subseteq AllowedHosts

\* Settling leaves the rest of the queue to wait.
LEMMA SettleAsked ==
    ASSUME IInv, StoreInv, pending # << >>, NEW res, NEW ds, Settle(res, ds)
    PROVE  PendingAsked' /\ UNCHANGED <<clockMode, asked>>
  <1>1. pending' = Tail(pending) /\ UNCHANGED <<clockMode, asked>>
    BY DEF Settle
  <1>2. /\ Len(pending') = Len(pending) - 1 /\ Len(pending) \in Nat
        /\ \A j \in 1..Len(pending') : pending'[j] = pending[j + 1]
    BY <1>1 DEF IInv, TypeOK
  <1> QED BY <1>1, <1>2 DEF StoreInv, PendingAsked

\* Every step keeps the store justified: a write is that of the effect at the
\* head of the queue, and nothing asked for is forgotten.
LEMMA StoreStep == IInv /\ StoreInv /\ [Next]_vars => StoreInv'
  <1> SUFFICES ASSUME IInv, StoreInv, [Next]_vars PROVE StoreInv'
    OBVIOUS
  <1>1. CASE KvPut
    <2> DEFINE eff == Head(pending)
    <2>1. /\ pending # << >> /\ eff.type = "kv.put" /\ eff = pending[1]
          /\ Len(pending) \in Nat \ {0} /\ eff \in Effects
      BY <1>1 DEF KvPut, Executing, IInv, TypeOK
    <2>2. \E res, ds : Settle(res, ds)
      BY <1>1 DEF KvPut
    <2>3. PendingAsked' /\ asked' = asked
      BY <2>1, <2>2, SettleAsked
    <2>4. [key |-> eff.key, value |-> eff.value] \in asked /\ eff.key \in Keys
      BY <2>1 DEF StoreInv, PendingAsked, Effects
    <2>5. kv' = kv \/ kv' = [kv EXCEPT ![eff.key] = eff.value]
      BY <1>1 DEF KvPut
    <2>6. kv \in [Keys -> Sizes \cup {Null}]
      BY DEF IInv, TypeOK
    <2> QED BY <2>3, <2>4, <2>5, <2>6 DEF StoreInv, KvJustified
  <1>2. CASE KvGet \/ LogEmit \/ TimeNow \/ FetchRefused \/ FetchBadBody
    <2>1. pending # << >> /\ kv' = kv /\ \E res, ds : Settle(res, ds)
      BY <1>2 DEF KvGet, LogEmit, TimeNow, FetchRefused, FetchBadBody, Executing
    <2> QED BY <2>1, SettleAsked DEF StoreInv, KvJustified
  <1>3. CASE FetchDone
    <2>1. pending # << >> /\ kv' = kv /\ \E res, ds : Settle(res, ds)
      BY <1>3 DEF FetchDone, FetchAnswered, FetchBreaks, IInv, Guarded
    <2> QED BY <2>1, SettleAsked DEF StoreInv, KvJustified
  <1>4. CASE FrameContinues
    <2>1. PICK frame \in Frames :
             /\ pending' = frame.effects
             /\ asked' = asked \cup
                  {[key |-> frame.effects[i].key, value |-> frame.effects[i].value] :
                      i \in {j \in DOMAIN frame.effects : frame.effects[j].type = "kv.put"}}
      BY <1>4 DEF FrameContinues
    <2>2. DOMAIN frame.effects = 1..Len(frame.effects)
      BY FrameEffects
    <2>3. kv' = kv
      BY <1>4 DEF FrameContinues
    <2> QED BY <2>1, <2>2, <2>3 DEF StoreInv, PendingAsked, KvJustified
  <1>5. CASE BeginRequest
    <2>1. Len(pending') = 0 /\ UNCHANGED <<kv, asked>>
      BY <1>5 DEF BeginRequest, hostVars
    <2> QED BY <2>1 DEF StoreInv, PendingAsked, KvJustified
  <1>6. CASE UNCHANGED <<kv, asked, pending>>
    BY <1>6 DEF StoreInv, PendingAsked, KvJustified
  <1>7. CASE FetchSend \/ Startup \/ EmitReport \/ Reported \/ UNCHANGED vars
             \/ (Loop /\ ~FrameContinues)
    BY <1>6, <1>7
    DEF FetchSend, Startup, SetupFails, ReadStdin, StartCanary, EmitReport, Reported,
        Loop, LoopBudgetExceeded, DispatchInvalid, Dispatch, CoreFails, FrameInvalid,
        FrameResponds, EndOfTurn, vars, hostVars, loopVars
  <1> QED
    BY <1>1, <1>2, <1>3, <1>4, <1>5, <1>7 DEF Next, HostStep, Effect

\* A result that was covered stays covered: flags are raised and hosts are
\* added, none is taken back.
LEMMA StaysCovered ==
    ASSUME NEW results, AllCovered(results), clockMode' = clockMode,
           usesOsTime => usesOsTime', usesNetwork => usesNetwork', contacted \subseteq contacted'
    PROVE  \A j \in 1..Len(results) :
              Covered(results[j], clockMode', usesOsTime', usesNetwork', contacted')
  BY DEF AllCovered, Covered

\* Settling a covered result keeps all results covered.
LEMMA SettleCovered ==
    ASSUME IInv, CoverInv, NEW res \in Results, NEW ds, Settle(res, ds),
           Covered(res, clockMode', usesOsTime', usesNetwork', contacted'),
           usesOsTime => usesOsTime', usesNetwork => usesNetwork', UNCHANGED contacted
    PROVE  CoverInv'
  <1>1. UNCHANGED <<clockMode, steps, effect_results>> /\ pc' # "fetch"
    BY DEF Settle, Abandon
  <1>2. next_results' = next_results \/ next_results' = Append(next_results, res)
    BY DEF Settle
  <1>3. AllCovered(next_results)'
    <2>1. \A j \in 1..Len(next_results) :
             Covered(next_results[j], clockMode', usesOsTime', usesNetwork', contacted')
      BY <1>1, StaysCovered DEF CoverInv
    <2>2. next_results \in Seq(Results)
      BY DEF IInv, TypeOK
    <2>3. CASE next_results' = next_results
      BY <2>1, <2>3 DEF AllCovered
    <2>4. CASE next_results' = Append(next_results, res)
      <3>1. /\ Len(next_results') = Len(next_results) + 1 /\ Len(next_results) \in Nat
            /\ \A j \in 1..Len(next_results) : next_results'[j] = next_results[j]
            /\ next_results'[Len(next_results) + 1] = res
        BY <2>2, <2>4
      <3>2. ASSUME NEW j \in 1..Len(next_results')
            PROVE  Covered(next_results'[j], clockMode', usesOsTime', usesNetwork', contacted')
        <4>1. j \in 1..Len(next_results) \/ j = Len(next_results) + 1
          BY <3>1
        <4> QED BY <4>1, <3>1, <2>1
      <3> QED BY <3>2 DEF AllCovered
    <2> QED BY <1>2, <2>3, <2>4
  <1>4. AllCovered(effect_results)'
    BY <1>1, StaysCovered DEF CoverInv, AllCovered
  <1>5. \A i \in 1..Last' : AllCovered(EnvOf(i).effect_results)'
    <2>1. SUFFICES ASSUME NEW i \in 1..Last
                   PROVE  AllCovered(steps[i].env.effect_results)'
      BY <1>1 DEF Last, EnvOf
    <2>2. AllCovered(steps[i].env.effect_results)
      BY DEF CoverInv, EnvOf
    <2>3. steps'[i].env.effect_results = steps[i].env.effect_results
      BY <1>1
    <2> HIDE DEF CoverInv
    <2> QED BY <1>1, <2>2, <2>3, StaysCovered DEF AllCovered
  <1> QED BY <1>1, <1>3, <1>4, <1>5 DEF CoverInv

\* Every step keeps the results covered: a clock reading and an answer of a
\* peer come with their flags, a refusal needs none.
LEMMA CoverStep == IInv /\ CoverInv /\ [Next]_vars => CoverInv'
  <1> SUFFICES ASSUME IInv, CoverInv, [Next]_vars PROVE CoverInv'
    OBVIOUS
  <1>1. ASSUME pending # << >>
        PROVE  /\ Head(pending) \in Effects
               /\ Refused(Head(pending)) \in Results /\ ~Refused(Head(pending)).ok
               /\ \A n \in Nat : Done(Head(pending), n) \in Results
                                 /\ Done(Head(pending), n).eff = Head(pending)
    <2>1. Head(pending) \in Effects
      BY <1>1 DEF IInv, TypeOK
    <2> QED BY <2>1, ResultForms DEF Refused
  <1>2. ASSUME NEW ds, pending # << >>, Settle(Refused(Head(pending)), ds),
               usesOsTime => usesOsTime', usesNetwork => usesNetwork', UNCHANGED contacted
        PROVE  CoverInv'
    <2>1. Covered(Refused(Head(pending)), clockMode', usesOsTime', usesNetwork', contacted')
      BY <1>1, <1>2 DEF Covered
    <2> QED BY <1>1, <1>2, <2>1, SettleCovered
  <1>3. ASSUME NEW ds, NEW n \in Nat, pending # << >>, Settle(Done(Head(pending), n), ds),
               Head(pending).type # "http.fetch",
               Head(pending).type = "time.now" => usesOsTime' /\ clockMode # "deny",
               usesOsTime => usesOsTime', usesNetwork => usesNetwork', UNCHANGED contacted
        PROVE  CoverInv'
    <2>1. clockMode' = clockMode
      BY <1>3 DEF Settle
    <2>2. Covered(Done(Head(pending), n), clockMode', usesOsTime', usesNetwork', contacted')
      BY <1>1, <1>3, <2>1 DEF Covered
    <2> QED BY <1>1, <1>3, <2>2, SettleCovered
  <1>4. CASE KvGet
    <2> DEFINE eff == Head(pending)
               n == IF kv[eff.key] = Null THEN 0 ELSE kv[eff.key]
    <2>1. /\ pending # << >> /\ eff.type = "kv.get" /\ Settle(Done(eff, n), {})
          /\ UNCHANGED <<usesNetwork, usesOsTime, contacted>>
      BY <1>4 DEF KvGet, Executing
    <2>2. n \in Nat
      BY <2>1, <1>1, ConstantsAssumption DEF Effects, IInv, TypeOK
    <2> HIDE DEF n
    <2> QED BY <2>1, <2>2, <1>3
  <1>5. CASE KvPut
    <2>1. /\ pending # << >> /\ Head(pending).type = "kv.put"
          /\ UNCHANGED <<usesNetwork, usesOsTime, contacted>>
          /\ \E ds : Settle(Done(Head(pending), 0), ds) \/ Settle(Refused(Head(pending)), ds)
      BY <1>5 DEF KvPut, Executing
    <2> QED BY <2>1, <1>2, <1>3
  <1>6. CASE LogEmit
    BY <1>6, <1>3 DEF LogEmit, Executing
  <1>7. CASE TimeNow
    <2>1. /\ pending # << >> /\ Head(pending).type = "time.now"
          /\ UNCHANGED <<usesNetwork, contacted>>
          /\ \/ \E ds : Settle(Refused(Head(pending)), ds) /\ UNCHANGED usesOsTime
             \/ clockMode # "deny" /\ usesOsTime' = TRUE /\ Settle(Done(Head(pending), 0), {})
      BY <1>7 DEF TimeNow, Executing
    <2> QED BY <2>1, <1>2, <1>3
  <1>8. CASE FetchRefused
    BY <1>8, <1>2 DEF FetchRefused, Executing
  <1>9. CASE FetchBadBody
    BY <1>9, <1>2 DEF FetchBadBody, Executing
  <1>10. CASE FetchBreaks
    BY <1>10, <1>2 DEF FetchBreaks, IInv, Guarded
  <1>11. CASE FetchAnswered
    <2>1. PICK n \in Sizes, valid \in BOOLEAN :
             Settle([Done(Head(pending), n) EXCEPT !.inSchema = valid], {})
      BY <1>11 DEF FetchAnswered
    <2> DEFINE res == [Done(Head(pending), n) EXCEPT !.inSchema = valid]
    <2>2. /\ pending # << >> /\ Head(pending).type = "http.fetch"
          /\ UNCHANGED <<usesNetwork, usesOsTime, contacted>>
          /\ usesNetwork /\ Head(pending).host \in contacted
      BY <1>11 DEF FetchAnswered, IInv, Guarded, CoverInv
    <2>3. res \in Results /\ res.eff = Head(pending)
      BY <2>1, <2>2, <1>1, ResultForms, ConstantsAssumption
    <2>4. Settle(res, {})
      BY <2>1
    <2> HIDE DEF res
    <2>5. Covered(res, clockMode', usesOsTime', usesNetwork', contacted')
      BY <2>2, <2>3 DEF Covered
    <2> QED BY <2>2, <2>3, <2>4, <2>5, SettleCovered
  <1>12. CASE FetchSend
    <2>1. /\ contacted' = contacted \cup {Head(pending).host} /\ usesNetwork' = TRUE
          /\ Head(pending).host \in AllowedHosts
          /\ UNCHANGED <<clockMode, usesOsTime, steps, effect_results, next_results, pending>>
      BY <1>12 DEF FetchSend, loopVars
    <2>2. \A results : AllCovered(results) =>
             \A j \in 1..Len(results) :
                Covered(results[j], clockMode', usesOsTime', usesNetwork', contacted')
      BY <2>1, StaysCovered
    <2>3. AllCovered(next_results)' /\ AllCovered(effect_results)'
      BY <2>1, <2>2 DEF CoverInv, AllCovered
    <2>4. \A i \in 1..Last' : AllCovered(EnvOf(i).effect_results)'
      BY <2>1, <2>2 DEF CoverInv, AllCovered, Last, EnvOf
    <2> QED BY <2>1, <2>3, <2>4 DEF CoverInv
  <1>13. CASE FrameResponds \/ FrameContinues
    <2>1. PICK frame \in Frames : RecordStep(frame)
      BY <1>13 DEF FrameResponds, FrameContinues
    <2>2. /\ next_results' = next_results \/ next_results' = << >>
          /\ pc' # "fetch"
          /\ UNCHANGED <<clockMode, usesOsTime, usesNetwork, contacted, effect_results>>
      BY <1>13 DEF FrameResponds, FrameContinues, hostVars
    <2>3. /\ Len(steps') = Len(steps) + 1 /\ Len(steps) \in Nat
          /\ \A i \in 1..Len(steps) : steps'[i] = steps[i]
          /\ steps'[Len(steps) + 1].env.effect_results = effect_results
      BY <2>1 DEF RecordStep, IInv, TypeOK
    <2>4. AllCovered(next_results)' /\ AllCovered(effect_results)'
      BY <2>2 DEF CoverInv, AllCovered
    <2>5. ASSUME NEW i \in 1..Len(steps')
          PROVE  AllCovered(steps[i].env.effect_results)'
      <3>1. CASE i \in 1..Len(steps)
        BY <2>2, <2>3, <3>1 DEF CoverInv, AllCovered, Last, EnvOf
      <3>2. CASE i = Len(steps) + 1
        BY <2>2, <2>3, <3>2 DEF CoverInv, AllCovered
      <3> QED BY <2>3, <3>1, <3>2
    <2> QED BY <2>2, <2>4, <2>5 DEF CoverInv, Last, EnvOf
  <1>14. CASE EndOfTurn
    BY <1>14 DEF EndOfTurn, hostVars, CoverInv, AllCovered, Last, EnvOf
  <1>15. CASE BeginRequest
    <2>1. /\ Len(steps') = 0 /\ Len(next_results') = 0 /\ Len(effect_results') = 0
          /\ pc' # "fetch" /\ UNCHANGED <<usesNetwork, contacted>>
      BY <1>15 DEF BeginRequest, hostVars
    <2> QED BY <2>1 DEF CoverInv, AllCovered, Last
  <1>16. CASE \/ Startup \/ EmitReport \/ Reported \/ UNCHANGED vars
              \/ LoopBudgetExceeded \/ DispatchInvalid \/ Dispatch \/ CoreFails \/ FrameInvalid
    <2>1. /\ UNCHANGED <<clockMode, usesOsTime, usesNetwork, contacted, steps, effect_results,
                         next_results, pending>>
          /\ pc' = "fetch" => pc = "fetch"
      BY <1>16
      DEF Startup, SetupFails, ReadStdin, StartCanary, EmitReport, Reported, vars,
          LoopBudgetExceeded, DispatchInvalid, Dispatch, CoreFails, FrameInvalid, Abandon,
          hostVars, loopVars
    <2> QED BY <2>1 DEF CoverInv, AllCovered, Last, EnvOf
  <1> QED
    BY <1>4, <1>5, <1>6, <1>7, <1>8, <1>9, <1>10, <1>11, <1>12, <1>13, <1>14, <1>15, <1>16
    DEF Next, HostStep, Effect, FetchDone, Loop

\* For every reducer and every number of requests, what the store holds was
\* asked for by a recorded frame without a response (replay.rs:273-334).
THEOREM StoreJustified == Spec => []KvJustified
  <1>1. Init => StoreInv
    BY DEF Init, StoreInv, PendingAsked, KvJustified
  <1>2. StoreInv => KvJustified
    BY DEF StoreInv
  <1> QED BY <1>1, <1>2, StoreStep, Inductive, PTL DEF Spec

\* For every reducer, peer and clock mode, the reducer is given no clock
\* reading and no fetched response that the flags of the report do not own up
\* to, nor a reading at all where the clock is denied (replay.rs:336-446).
THEOREM FlagsHonest == Spec => []NondeterminismHonest
  <1>1. Init => CoverInv
    BY DEF Init, CoverInv, AllCovered, Last
  <1>2. IInv /\ CoverInv => NondeterminismHonest
    <2> SUFFICES ASSUME IInv, CoverInv PROVE NondeterminismHonest
      OBVIOUS
    <2>1. ASSUME NEW r \in GivenResults
          PROVE  Covered(r, clockMode, usesOsTime, usesNetwork, contacted)
      <3>1. PICK i \in 1..Last : \E j \in DOMAIN EnvOf(i).effect_results :
                                    r = EnvOf(i).effect_results[j]
        BY <2>1 DEF GivenResults
      <3>2. EnvOf(i).effect_results \in Seq(Results)
        <4> DEFINE Turn == [env : [state : States \cup {Null}, effect_results : Seq(Results)],
                            frame : Frames]
        <4>1. steps[i] \in Turn
          <5>1. steps \in Seq(Turn)
            BY DEF IInv, TypeOK
          <5> HIDE DEF Turn
          <5> QED BY <3>1, <5>1 DEF Last
        <4>2. steps[i].env \in [state : States \cup {Null}, effect_results : Seq(Results)]
          BY <4>1
        <4> QED BY <4>2 DEF EnvOf
      <3>3. AllCovered(EnvOf(i).effect_results)
        BY <3>1 DEF CoverInv
      <3> QED BY <3>1, <3>2, <3>3 DEF AllCovered
    <2> QED BY <2>1 DEF CoverInv, Covered, NondeterminismHonest
  <1> QED BY <1>1, <1>2, CoverStep, Inductive, PTL DEF Spec
=============================================================================
