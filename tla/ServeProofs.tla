---------------------------- MODULE ServeProofs ----------------------------
(***************************************************************************)
(* The safety properties of x07-wasm serve: of HandleRequest for every     *)
(* response limit, chunk size and guest, and of ServeHost for every        *)
(* command line, set of requests and clients.                              *)
(***************************************************************************)
EXTENDS HandleRequest, ServeHost, SequenceTheorems, TLAPS

-----------------------------------------------------------------------------
(* The handling of one request.                                            *)

\* The chunk the host offers and the number of chunks its channel holds.
LEMMA SizesArePositive ==
    /\ ChunkSize \in Nat \ {0}
    /\ BufferChunks \in Nat \ {0}
  <1>1. ChunkSize \in Nat \ {0}
    BY ConstantsAssumption DEF ChunkSize
  <1>2. (MaxResponse + ChunkSize - 1) \div ChunkSize \in Int
    BY <1>1, ConstantsAssumption
  <1> QED BY <1>1, <1>2 DEF BufferChunks

\* A channel full of whole chunks holds all that max_response_bytes allows
\* (serve.rs:1608-1612).
THEOREM ChannelHoldsTheCap == BufferChunks * ChunkSize >= MaxResponse
  <1> DEFINE q == (MaxResponse + ChunkSize - 1) \div ChunkSize
  <1>1. ChunkSize \in Nat /\ ChunkSize >= 1 /\ MaxResponse \in Nat
    BY SizesArePositive, ConstantsAssumption
  <1>2. q \in Int /\ q * ChunkSize > MaxResponse + ChunkSize - 1 - ChunkSize
    BY <1>1, Z3
  <1>3. CASE q < 1
    <2>1. q * ChunkSize <= 0
      BY <1>1, <1>2, <1>3, Z3
    <2> QED BY <2>1, <1>1, <1>2, <1>3 DEF BufferChunks
  <1>4. CASE ~(q < 1)
    BY <1>1, <1>2, <1>4, Z3 DEF BufferChunks
  <1> QED BY <1>3, <1>4

-----------------------------------------------------------------------------
\* What a step relies on between the stages: who is still there, where the
\* refusals are kept, how much a channel of whole chunks holds.
CallStages ==
    /\ stage \notin {"over", "done"} => outcome = Pending
    /\ stage \in {"over", "done"} => outcome # Pending /\ stateDiags = {}
    /\ stage = "setup" => stateDiags = {} /\ ~denied
    /\ stage \in {"recv", "collect"} => guest = "returned"
    /\ stage = "collect" => outparam = "set"

Channel ==
    /\ ~short => written = chunks * ChunkSize
    /\ guest = "blocked" => chunks = BufferChunks

Kept == denied => "net_denied" \in stateDiags \cup reqDiags

IInv == TypeOK /\ CallStages /\ Channel /\ Kept /\ WholeResponseOnly /\ Explained

\* The three kinds of outcome are told apart by their kind.
LEMMA OutcomeForms ==
    /\ Pending \in Outcomes /\ Pending.kind = "pending"
    /\ \A n \in Nat : /\ Response(n) \in Outcomes /\ Response(n).kind = "response"
                      /\ Response(n).len = n /\ Response(n) # Pending
    /\ \A w \in Causes, c \in BOOLEAN :
          /\ Failure(w, c) \in Outcomes /\ Failure(w, c).kind = "failure"
          /\ Failure(w, c) # Pending
  <1>1. Pending \in Outcomes /\ Pending.kind = "pending"
    BY DEF Pending, Outcomes
  <1>2. ASSUME NEW n \in Nat
        PROVE  /\ Response(n) \in Outcomes /\ Response(n).kind = "response" /\ Response(n).len = n
    BY DEF Response, Outcomes
  <1>3. ASSUME NEW w \in Causes, NEW c \in BOOLEAN
        PROVE  Failure(w, c) \in Outcomes /\ Failure(w, c).kind = "failure"
    <2>1. Failure(w, c) \in [kind : {"failure"}, why : Causes, chained : BOOLEAN]
      BY DEF Failure
    <2>2. Failure(w, c).kind = "failure"
      BY DEF Failure
    <2> QED BY <2>1, <2>2 DEF Outcomes
  <1>4. ASSUME NEW o, o.kind # "pending" PROVE o # Pending
    BY <1>1, <1>4
  <1> QED BY <1>1, <1>2, <1>3, <1>4

\* The caller always finds an error for a failure, and only known codes.
LEMMA FailureCodesFacts ==
    ASSUME NEW f, NEW codes \in SUBSET Codes
    PROVE  /\ codes \cup FailureCodes(f, codes) \in SUBSET Codes
           /\ codes \cup FailureCodes(f, codes) # {}
  BY DEF FailureCodes, Codes, Budgets

LEMMA InitInv == Init => IInv
  <1> SUFFICES ASSUME Init PROVE IInv
    OBVIOUS
  <1>1. TypeOK
    <2>1. outcome \in Outcomes
      BY OutcomeForms DEF Init
    <2>2. chunks \in 0..BufferChunks /\ written \in Nat
      BY SizesArePositive DEF Init
    <2>3. /\ stage \in {"setup", "instantiate", "call", "recv", "collect", "over", "done"}
          /\ guest \in {"running", "spinning", "waiting", "blocked", "returned"}
          /\ outparam \in {"held", "set", "error", "dropped", "leaked"}
          /\ body \in {"open", "finished", "abandoned", "leaked"}
          /\ short \in BOOLEAN /\ late \in BOOLEAN /\ denied \in BOOLEAN
          /\ stateDiags \subseteq Codes /\ reqDiags \subseteq Codes /\ reported \subseteq Codes
      BY DEF Init
    <2> QED BY <2>1, <2>2, <2>3 DEF TypeOK
  <1>2. CallStages /\ Channel /\ Kept
    BY SizesArePositive DEF Init, CallStages, Channel, Kept
  <1>3. WholeResponseOnly /\ Explained
    BY OutcomeForms DEF Init, WholeResponseOnly, Explained
  <1> QED BY <1>1, <1>2, <1>3 DEF IInv

\* Giving up keeps the invariant wherever it happens before an answer exists.
LEMMA GiveUpInv ==
    ASSUME IInv, stage \notin {"over", "done"},
           NEW w \in Causes, NEW c \in BOOLEAN, GiveUp(w, c), UNCHANGED guestVars
    PROVE  IInv'
  <1>1. /\ stage' = "over" /\ outcome' \in Outcomes /\ outcome'.kind = "failure"
        /\ outcome' # Pending
        /\ reqDiags' = reqDiags \cup stateDiags /\ stateDiags' = {}
        /\ UNCHANGED <<denied, late, reported>>
    BY OutcomeForms DEF GiveUp
  <1>2. UNCHANGED <<guest, outparam, body, chunks, written, short>>
    BY DEF guestVars
  <1>3. TypeOK'
    BY <1>1, <1>2 DEF IInv, TypeOK
  <1>4. CallStages' /\ Channel' /\ Kept'
    BY <1>1, <1>2 DEF IInv, CallStages, Channel, Kept
  <1>5. WholeResponseOnly' /\ Explained'
    BY <1>1 DEF WholeResponseOnly, Explained
  <1> QED BY <1>3, <1>4, <1>5 DEF IInv

\* The step before the guest runs.
LEMMA SetupInv == IInv /\ BuildWasi => IInv'
  <1> SUFFICES ASSUME IInv, BuildWasi PROVE IInv'
    OBVIOUS
  <1>1. CASE BuildWasi
    <2>1. UNCHANGED <<guest, outparam, body, chunks, written, short, late, denied, stateDiags, reported>>
      BY <1>1 DEF BuildWasi, guestVars
    <2>2. CASE stage' = "instantiate" /\ UNCHANGED <<reqDiags, outcome>>
      <3>1. stage = "setup" /\ outcome = Pending
        BY <1>1 DEF BuildWasi, IInv, CallStages
      <3>2. TypeOK'
        BY <2>1, <2>2 DEF IInv, TypeOK
      <3>3. CallStages' /\ Channel' /\ Kept'
        BY <2>1, <2>2, <3>1 DEF IInv, CallStages, Channel, Kept
      <3>4. WholeResponseOnly' /\ Explained'
        BY <2>1, <2>2, <3>1, OutcomeForms DEF WholeResponseOnly, Explained
      <3> QED BY <3>2, <3>3, <3>4 DEF IInv
    <2>3. CASE /\ stage' = "over" /\ reqDiags' = reqDiags \cup {"caps"}
               /\ outcome' = Failure("caps", FALSE)
      <3>1. outcome' \in Outcomes /\ outcome'.kind = "failure" /\ outcome' # Pending
        BY <2>3, OutcomeForms DEF Causes
      <3>2. reqDiags' \subseteq Codes
        BY <2>3 DEF IInv, TypeOK, Codes
      <3>3. TypeOK'
        BY <2>1, <2>3, <3>1, <3>2 DEF IInv, TypeOK
      <3>4. CallStages' /\ Channel' /\ Kept'
        <4>1. stage = "setup" /\ stateDiags = {} /\ ~denied
          BY <1>1 DEF BuildWasi, IInv, CallStages
        <4>2. CallStages'
          BY <4>1, <2>1, <2>3, <3>1 DEF CallStages
        <4>3. Channel'
          BY <2>1 DEF IInv, Channel
        <4>4. Kept'
          BY <4>1, <2>1 DEF Kept
        <4> QED BY <4>2, <4>3, <4>4
      <3>5. WholeResponseOnly' /\ Explained'
        BY <2>3, <3>1 DEF WholeResponseOnly, Explained
      <3> QED BY <3>3, <3>4, <3>5 DEF IInv
    <2> QED BY <1>1, <2>2, <2>3 DEF BuildWasi
  <1> QED BY <1>1

\* A step of the guest that stays in its stage and leaves the outcome alone.
LEMMA StayInv ==
    ASSUME IInv, stage \in GuestStages, stage' = stage,
           guest' \in {"running", "spinning", "waiting", "blocked"},
           outparam' \in {"held", "set", "error", "dropped", "leaked"},
           body' \in {"open", "finished", "abandoned", "leaked"},
           chunks' \in 0..BufferChunks, written' \in Nat, short' \in BOOLEAN, late' \in BOOLEAN,
           Channel', UNCHANGED <<diagVars, outcome, reported>>
    PROVE  IInv'
  <1>1. outcome = Pending /\ UNCHANGED <<denied, stateDiags, reqDiags, outcome, reported>>
    BY DEF IInv, CallStages, diagVars, GuestStages
  <1>2. TypeOK'
    BY <1>1 DEF IInv, TypeOK
  <1>3. CallStages' /\ Kept'
    BY <1>1 DEF IInv, CallStages, Kept, GuestStages
  <1>4. WholeResponseOnly' /\ Explained'
    BY <1>1, OutcomeForms DEF WholeResponseOnly, Explained, GuestStages
  <1> QED BY <1>2, <1>3, <1>4 DEF IInv

\* The steps of the guest.
LEMMA GuestInv == IInv /\ GuestStep => IInv'
  <1> SUFFICES ASSUME IInv, GuestStep PROVE IInv'
    OBVIOUS
  <1>0. stage \in GuestStages /\ guest = "running"
    BY DEF GuestStep, Running, Instantiate, Spin, Trap, SendDenied, Yield, Write, Finish,
           SetOutparam, Return
  <1>a. stage \notin {"over", "done"} /\ KeepsChain \in BOOLEAN
    BY <1>0 DEF GuestStages, KeepsChain
  <1>1. CASE Spin
    <2>1. Channel'
      BY <1>1 DEF Spin, IInv, Channel
    <2> QED BY <1>0, <1>1, <2>1, StayInv DEF Spin, IInv, TypeOK
  <1>2. CASE Trap
    <2>1. PICK why \in (IF Metered THEN Budgets ELSE Budgets \ {"fuel"}) \cup {"trap"} :
             GiveUp(why, KeepsChain)
      BY <1>2 DEF Trap
    <2>2. why \in Causes
      BY <2>1 DEF Causes
    <2> QED BY <1>a, <1>2, <2>1, <2>2, GiveUpInv DEF Trap
  <1>3. CASE SendDenied
    <2>1. /\ stateDiags' = stateDiags \cup {"net_denied"} /\ denied' = TRUE
          /\ UNCHANGED <<stage, guest, outparam, body, chunks, written, short, late, reqDiags,
                         outcome, reported>>
      BY <1>3 DEF SendDenied, guestVars
    <2>2. stateDiags' \subseteq Codes
      BY <2>1 DEF IInv, TypeOK, Codes
    <2>3. TypeOK'
      BY <2>1, <2>2 DEF IInv, TypeOK
    <2>4. CallStages' /\ Channel' /\ Kept'
      BY <1>0, <2>1 DEF IInv, CallStages, Channel, Kept, GuestStages
    <2>5. WholeResponseOnly' /\ Explained'
      BY <1>a, <2>1 DEF IInv, WholeResponseOnly, Explained
    <2> QED BY <2>3, <2>4, <2>5 DEF IInv
  <1>4. CASE Yield
    <2>1. CASE ~late /\ guest' = "waiting" /\ UNCHANGED <<stage, late, diagVars, outcome, reported>>
      <3>1. UNCHANGED <<outparam, body, chunks, written, short>>
        BY <1>4 DEF Yield
      <3>2. Channel'
        BY <2>1, <3>1 DEF IInv, Channel
      <3> QED BY <1>0, <2>1, <3>1, <3>2, StayInv DEF IInv, TypeOK
    <2>2. CASE late /\ GiveUp("timeout", FALSE) /\ UNCHANGED guest
      <3>1. UNCHANGED guestVars
        BY <1>4, <2>2 DEF Yield, guestVars
      <3> QED BY <1>a, <2>2, <3>1, GiveUpInv DEF Causes
    <2> QED BY <1>4, <2>1, <2>2 DEF Yield
  <1>5. CASE Write
    <2>0. UNCHANGED <<stage, outparam, body, late, diagVars, outcome, reported>>
      BY <1>5 DEF Write
    <2>1. CASE chunks = BufferChunks /\ guest' = "blocked" /\ UNCHANGED <<chunks, written, short>>
      <3>1. Channel'
        BY <2>1 DEF IInv, Channel
      <3> QED BY <1>0, <2>0, <2>1, <3>1, StayInv DEF IInv, TypeOK
    <2>2. ASSUME chunks < BufferChunks, NEW n \in Pieces, n <= ChunkSize,
                 written' = written + n, short' = (short \/ n < ChunkSize),
                 chunks' = chunks + 1, UNCHANGED guest
          PROVE  IInv'
      <3>1. n \in Nat /\ chunks \in Nat /\ written \in Nat /\ ChunkSize \in Nat /\ BufferChunks \in Nat
        BY SizesArePositive, ConstantsAssumption DEF IInv, TypeOK
      <3>2. written' \in Nat /\ chunks' \in 0..BufferChunks /\ short' \in BOOLEAN
        BY <2>2, <3>1
      <3>3. ASSUME ~short' PROVE written' = chunks' * ChunkSize
        <4>0. ~(short \/ n < ChunkSize)
          BY <2>2, <3>3
        <4>1. ~short /\ n = ChunkSize
          BY <2>2, <3>1, <4>0
        <4>2. written = chunks * ChunkSize
          BY <4>1 DEF IInv, Channel
        <4>3. (chunks + 1) * ChunkSize = chunks * ChunkSize + ChunkSize
          BY <3>1, Z3
        <4> QED BY <2>2, <4>1, <4>2, <4>3
      <3>4. Channel'
        BY <1>0, <2>2, <3>3 DEF Channel
      <3> QED BY <1>0, <2>0, <2>2, <3>2, <3>4, StayInv DEF IInv, TypeOK
    <2> QED BY <1>5, <2>1, <2>2 DEF Write
  <1>6. CASE Finish
    <2>1. Channel'
      BY <1>6 DEF Finish, IInv, Channel
    <2> QED BY <1>0, <1>6, <2>1, StayInv DEF Finish, IInv, TypeOK
  <1>7. CASE SetOutparam
    <2>1. Channel'
      BY <1>7 DEF SetOutparam, IInv, Channel
    <2> QED BY <1>0, <1>7, <2>1, StayInv DEF SetOutparam, IInv, TypeOK
  <1>8. CASE Return
    <2>1. /\ guest' = "returned" /\ stage = "call" /\ stage' = "recv"
          /\ outparam' \in {"held", "set", "error", "dropped", "leaked"}
          /\ body' \in {"open", "finished", "abandoned", "leaked"}
          /\ UNCHANGED <<chunks, written, short, late, denied, stateDiags, reqDiags, outcome, reported>>
      BY <1>8 DEF Return, diagVars, IInv, TypeOK
    <2>2. TypeOK'
      BY <2>1 DEF IInv, TypeOK
    <2>3. CallStages' /\ Channel' /\ Kept'
      BY <1>0, <2>1 DEF IInv, CallStages, Channel, Kept
    <2>4. outcome' = Pending
      BY <1>0, <2>1 DEF IInv, CallStages
    <2>5. WholeResponseOnly' /\ Explained'
      BY <2>1, <2>4, OutcomeForms DEF WholeResponseOnly, Explained
    <2> QED BY <2>2, <2>3, <2>5 DEF IInv
  <1>9. CASE Instantiate
    <2>1. CASE stage' = "call" /\ UNCHANGED <<late, diagVars, outcome, reported>>
      <3>1. UNCHANGED <<guest, outparam, body, chunks, written, short, denied, stateDiags, reqDiags>>
        BY <1>9, <2>1 DEF Instantiate, guestVars, diagVars
      <3>2. stage = "instantiate"
        BY <1>9 DEF Instantiate
      <3> QED
        BY <2>1, <3>1, <3>2
        DEF IInv, TypeOK, CallStages, Channel, Kept, WholeResponseOnly, Explained
    <2> QED BY <1>a, <1>9, <2>1, GiveUpInv DEF Instantiate, Causes
  <1> QED BY <1>1, <1>2, <1>3, <1>4, <1>5, <1>6, <1>7, <1>8, <1>9 DEF GuestStep

\* The steps of the host once guest code runs.
LEMMA HostInv ==
    IInv /\ (FuelOut \/ TimeoutFires \/ HostReady \/ Tick \/ Receive \/ Collect \/ Answer) => IInv'
  <1>1. ASSUME IInv, FuelOut PROVE IInv'
    BY <1>1, GiveUpInv DEF FuelOut, GuestStages, KeepsChain, Causes, Budgets
  <1>2. ASSUME IInv, TimeoutFires PROVE IInv'
    BY <1>2, GiveUpInv DEF TimeoutFires, Causes
  <1>3. ASSUME IInv, HostReady PROVE IInv'
    <2>1. Channel'
      BY <1>3 DEF HostReady, IInv, Channel
    <2> QED BY <1>3, <2>1, StayInv DEF HostReady, IInv, TypeOK
  <1>4. ASSUME IInv, Tick PROVE IInv'
    <2>1. UNCHANGED <<stage, guest, outparam, body, chunks, written, short, denied, stateDiags,
                      reqDiags, outcome, reported>> /\ late' = TRUE
      BY <1>4 DEF Tick, guestVars, diagVars
    <2>2. TypeOK' /\ CallStages' /\ Channel' /\ Kept'
      BY <1>4, <2>1 DEF IInv, TypeOK, CallStages, Channel, Kept
    <2>3. WholeResponseOnly' /\ Explained'
      BY <1>4, <2>1 DEF IInv, WholeResponseOnly, Explained
    <2> QED BY <2>2, <2>3 DEF IInv
  <1>5. ASSUME IInv, Receive PROVE IInv'
    <2>1. CASE outparam = "set" /\ stage' = "collect" /\ UNCHANGED <<late, diagVars, outcome, reported>>
      <3>1. /\ stage = "recv"
            /\ UNCHANGED <<guest, outparam, body, chunks, written, short, denied, stateDiags, reqDiags>>
        BY <1>5, <2>1 DEF Receive, guestVars, diagVars
      <3>2. TypeOK' /\ Channel' /\ Kept'
        BY <1>5, <2>1, <3>1 DEF IInv, TypeOK, Channel, Kept
      <3>3. CallStages'
        BY <1>5, <2>1, <3>1 DEF IInv, CallStages
      <3>4. WholeResponseOnly' /\ Explained'
        BY <1>5, <2>1, <3>1, OutcomeForms DEF IInv, CallStages, WholeResponseOnly, Explained
      <3> QED BY <3>2, <3>3, <3>4 DEF IInv
    <2>2. CASE GiveUp("error_code", FALSE)
      BY <1>5, <2>2, GiveUpInv DEF Receive, Causes
    <2>3. CASE GiveUp("no_response", FALSE)
      BY <1>5, <2>3, GiveUpInv DEF Receive, Causes
    <2> QED BY <1>5, <2>1, <2>2, <2>3 DEF Receive
  <1>6. ASSUME IInv, Collect PROVE IInv'
    <2>1. CASE GiveUp("too_large", FALSE)
      BY <1>6, <2>1, GiveUpInv DEF Collect, Causes
    <2>2. CASE GiveUp("unfinished", FALSE)
      BY <1>6, <2>2, GiveUpInv DEF Collect, Causes
    <2>3. CASE /\ written <= MaxResponse /\ body = "finished"
               /\ stage' = "over" /\ outcome' = Response(written)
               /\ reqDiags' = reqDiags \cup stateDiags /\ stateDiags' = {}
               /\ UNCHANGED <<late, denied, reported>>
      <3>1. /\ UNCHANGED <<guest, outparam, body, chunks, written, short>>
            /\ guest = "returned" /\ outparam = "set" /\ written \in Nat
        BY <1>6 DEF Collect, guestVars, IInv, CallStages, TypeOK
      <3>2. /\ outcome' \in Outcomes /\ outcome'.kind = "response" /\ outcome'.len = written
            /\ outcome' # Pending
        BY <2>3, <3>1, OutcomeForms
      <3>3. TypeOK'
        BY <1>6, <2>3, <3>1, <3>2 DEF IInv, TypeOK
      <3>4. CallStages' /\ Channel' /\ Kept'
        BY <1>6, <2>3, <3>1, <3>2 DEF IInv, CallStages, Channel, Kept
      <3>5. WholeResponseOnly' /\ Explained'
        BY <2>3, <3>1, <3>2 DEF WholeResponseOnly, Explained
      <3> QED BY <3>3, <3>4, <3>5 DEF IInv
    <2> QED BY <1>6, <2>1, <2>2, <2>3 DEF Collect
  <1>7. ASSUME IInv, Answer PROVE IInv'
    <2>1. /\ stage = "over" /\ stage' = "done" /\ reqDiags \in SUBSET Codes /\ stateDiags = {}
          /\ UNCHANGED <<guest, outparam, body, chunks, written, short, late, denied, stateDiags,
                         reqDiags, outcome>>
      BY <1>7 DEF Answer, guestVars, diagVars, IInv, TypeOK, CallStages
    <2>2. /\ reported' \in SUBSET Codes /\ reqDiags \subseteq reported'
          /\ outcome.kind = "failure" => reported' # {}
      BY <1>7, <2>1, FailureCodesFacts DEF Answer
    <2>3. TypeOK'
      BY <1>7, <2>1, <2>2 DEF IInv, TypeOK
    <2>4. CallStages' /\ Channel' /\ Kept'
      BY <1>7, <2>1 DEF IInv, CallStages, Channel, Kept
    <2>5. WholeResponseOnly' /\ Explained'
      BY <1>7, <2>1, <2>2 DEF IInv, Kept, WholeResponseOnly, Explained
    <2> QED BY <2>3, <2>4, <2>5 DEF IInv
  <1> QED BY <1>1, <1>2, <1>3, <1>4, <1>5, <1>6, <1>7

LEMMA StutterInv == IInv /\ UNCHANGED vars => IInv'
  <1> SUFFICES ASSUME IInv, UNCHANGED vars PROVE IInv'
    OBVIOUS
  <1>1. UNCHANGED <<stage, guest, outparam, body, chunks, written, short, late, denied,
                    stateDiags, reqDiags, outcome, reported>>
    BY DEF vars, guestVars, diagVars
  <1> QED BY <1>1 DEF IInv, TypeOK, CallStages, Channel, Kept, WholeResponseOnly, Explained

THEOREM Inductive == Spec => []IInv
  <1>1. IInv /\ [Next]_vars => IInv'
    BY SetupInv, GuestInv, HostInv, StutterInv DEF Next, HostStep, Rest
  <1> QED BY InitInv, <1>1, PTL DEF Spec

\* The variables keep their shape; in particular the body channel never holds
\* more chunks than it was made for.
THEOREM TypeCorrect == Spec => []TypeOK
  BY Inductive, PTL DEF IInv

\* A guest that writes whole chunks is never stopped below the response limit.
THEOREM RoomCorrect == Spec => []RoomForTheCap
  <1>1. IInv => RoomForTheCap
    <2> SUFFICES ASSUME IInv, guest = "blocked", ~short PROVE written >= MaxResponse
      BY DEF RoomForTheCap
    <2> QED BY ChannelHoldsTheCap DEF IInv, Channel
  <1> QED BY <1>1, Inductive, PTL

\* A response is whole, finished and within the limit.
THEOREM WholeCorrect == Spec => []WholeResponseOnly
  BY Inductive, PTL DEF IInv

\* Refusals and failures are in the report however the request ends.
THEOREM ExplainedCorrect == Spec => []Explained
  BY Inductive, PTL DEF IInv

-----------------------------------------------------------------------------
(* The loops around the requests.                                          *)

\* What the counters leave room for at each place.
Counting ==
    /\ pc = "reading" => seq < handled
    /\ pc \in {"reading", "body", "handling"} => Len(responses) < handled /\ runs < handled

\* The request in hand, and which places belong to the accept loop.
Places ==
    /\ pc \in {"body", "handling", "replying"} => request \in Dirs
    /\ pc \in {"reading", "body", "replying"} => Mode = "listen"

\* A failure has left an error with the command or with the requests.
Failures ==
    (\E i \in DOMAIN responses : Failed(responses[i])) \/ underflow
        => HasError(diags \cup accDiags)

\* Before and after the loop nothing is left to collect, and the report is
\* what was found.
Settled ==
    /\ pc \in {"setup", "report", "stopped"} => accDiags = {}
    /\ pc = "setup" => incidents = {}
    /\ emitted.done => /\ pc = "stopped"
                       /\ emitted.ok = ReportOk(diags)
                       /\ emitted.osTime = osTime

\* The flag is raised at once by the canary loop and at the end by the other.
Clock == incidents # {} => osTime \/ (Mode = "listen" /\ pc \notin {"report", "stopped"})

ServeInv == /\ ServeTypeOK /\ Counting /\ Places /\ Failures /\ Settled /\ Clock
        /\ ListedComplete /\ BundleOfOneRun

-----------------------------------------------------------------------------
\* More diagnostics never make an error go away.
LEMMA ErrorsStay ==
    ASSUME NEW a, NEW b, a \subseteq b, HasError(a)
    PROVE  HasError(b)
  BY DEF HasError, Errors

\* One error among the diagnostics is enough.
LEMMA ErrorFound ==
    ASSUME NEW a, NEW d \in a, d.severity = "error"
    PROVE  HasError(a)
  BY DEF HasError, Errors

\* The errors that requests bring.
LEMMA RequestErrors ==
    /\ Denied.severity = "error" /\ CapsRefused.severity = "error" /\ RequestFailed.severity = "error"
    /\ BudgetFailed.severity = "error" /\ EvidenceBad.severity = "error"
    /\ \A gd \in GuestDiags : gd.severity = "error"
  BY DEF Denied, CapsRefused, RequestFailed, BudgetFailed, EvidenceBad, GuestDiags, GuestDiag, UnlistedDiag, Error, Diag

\* A failed request always brings an error, of its own or of its evidence.
LEMMA FailureHasError ==
    ASSUME NEW ed \in {{}, {EvidenceBad}}, NEW fd \in FailureDiags(ed)
    PROVE  HasError(fd \cup ed)
  <1>1. CASE Evidence = "replay" /\ ed # {}
    BY <1>1, RequestErrors, ErrorFound
  <1>2. CASE ~(Evidence = "replay" /\ ed # {})
    <2>1. \E d \in fd : d.severity = "error"
      BY <1>2, RequestErrors DEF FailureDiags
    <2> QED BY <2>1, ErrorFound
  <1> QED BY <1>1, <1>2

\* What writing a bundle can leave behind.
LEMMA BundleWritesFacts ==
    ASSUME NEW b \in Bundles, NEW n \in Nat \ {0}, NEW given, NEW w \in BundleWrites(b, n, given)
    PROVE  /\ w.bundle \in Bundles
           /\ w.ok => w.bundle.request # 0 /\ w.bundle.manifest # 0
           /\ ~w.ok => /\ b.request # 0 => w.bundle.request # 0
                       /\ w.bundle.manifest = b.manifest
           /\ ~WritesFail => w.ok /\ (given # "none" => w.bundle.response = w.bundle.manifest)
  <1> DEFINE req  == [b EXCEPT !.request = n]
             resp == IF given = "none" THEN req ELSE [req EXCEPT !.response = n]
             full == [resp EXCEPT !.manifest = n]
             part == [req EXCEPT !.manifest = n]
  <1>1. /\ req \in Bundles /\ req.request = n /\ req.manifest = b.manifest
    BY DEF Bundles
  <1>2. /\ resp \in Bundles /\ resp.request = n /\ resp.manifest = b.manifest
        /\ given # "none" => resp.response = n
    BY <1>1 DEF Bundles
  <1>3. /\ full \in Bundles /\ full.request = n /\ full.manifest = n
        /\ given # "none" => full.response = n
    <2> HIDE DEF resp
    <2> QED BY <1>2 DEF Bundles
  <1>4. part \in Bundles /\ part.request = n /\ part.manifest = n
    <2> HIDE DEF req
    <2> QED BY <1>1 DEF Bundles
  <1>5. \/ w = [ok |-> TRUE, bundle |-> full]
        \/ WritesFail /\ w \in {[ok |-> FALSE, bundle |-> b], [ok |-> FALSE, bundle |-> req],
                                [ok |-> FALSE, bundle |-> resp], [ok |-> TRUE, bundle |-> part]}
    <2>1. BundleWrites(b, n, given) =
             {[ok |-> TRUE, bundle |-> full]}
             \cup (IF WritesFail
                     THEN {[ok |-> FALSE, bundle |-> b], [ok |-> FALSE, bundle |-> req],
                           [ok |-> FALSE, bundle |-> resp]}
                          \cup (IF given = "status" THEN {[ok |-> TRUE, bundle |-> part]} ELSE {})
                     ELSE {})
      BY DEF BundleWrites
    <2> HIDE DEF req, resp, full, part
    <2> QED BY <2>1
  <1> HIDE DEF req, resp, full, part
  <1> QED BY <1>1, <1>2, <1>3, <1>4, <1>5

\* The invariant holds initially.
LEMMA ServeInitInv == ServeInit => ServeInv
  <1> SUFFICES ASSUME ServeInit PROVE ServeInv
    OBVIOUS
  <1>1. ServeTypeOK
    <2>1. responses \in Seq(Summaries) /\ Len(responses) = 0
      BY EmptySeq DEF ServeInit
    <2>2. DOMAIN disk = {} /\ disk \in [DOMAIN disk -> Bundles]
      <3>1. disk = [dir \in {} |-> NoBundle]
        BY DEF ServeInit
      <3>2. [dir \in {} |-> NoBundle] \in [{} -> Bundles]
        OBVIOUS
      <3> QED BY <3>1, <3>2
    <2>3. DOMAIN disk \subseteq Dirs /\ incidents \subseteq DOMAIN disk
      BY <2>2 DEF ServeInit
    <2>4. /\ handled \in Nat /\ seq \in 0..handled /\ runs \in 0..handled
          /\ Len(responses) <= handled
      BY <2>1 DEF ServeInit
    <2>5. /\ setting \in Settings /\ request \in Dirs \cup {NoRequest}
          /\ pc \in {"setup", "accept", "reading", "body", "handling", "replying", "report", "stopped"}
          /\ osTime \in BOOLEAN /\ underflow \in BOOLEAN
          /\ emitted \in [ok : BOOLEAN, osTime : BOOLEAN, done : BOOLEAN]
      BY DEF ServeInit, NotYet
    <2> QED BY <2>1, <2>2, <2>3, <2>4, <2>5 DEF ServeTypeOK
  <1>2. Counting /\ Places /\ Failures /\ Settled /\ Clock
    BY DEF ServeInit, Counting, Places, Failures, Settled, Clock, NotYet
  <1>3. ListedComplete /\ BundleOfOneRun
    BY DEF ServeInit, ListedComplete, BundleOfOneRun
  <1> QED BY <1>1, <1>2, <1>3 DEF ServeInv

-----------------------------------------------------------------------------
\* The mode is one of two.
LEMMA Modes == ServeTypeOK => Mode \in {"canary", "listen"}
  BY ServeConstants DEF ServeTypeOK, Mode

\* A summary more, and what that says about failures.
LEMMA SummaryAdded ==
    ASSUME NEW s \in Seq(Summaries), NEW r \in Summaries
    PROVE  /\ Append(s, r) \in Seq(Summaries)
           /\ Len(Append(s, r)) = Len(s) + 1
           /\ \A i \in DOMAIN Append(s, r) :
                 Failed(Append(s, r)[i]) => Failed(r) \/ \E j \in DOMAIN s : Failed(s[j])
  BY AppendProperties

\* Steps that write no bundle and do not end the command.
LEMMA BundlesKept ==
    ASSUME ServeInv, UNCHANGED <<setting, disk, incidents, emitted>>, pc' # "stopped"
    PROVE  /\ ListedComplete' /\ BundleOfOneRun'
           /\ DOMAIN disk' \subseteq Dirs /\ disk' \in [DOMAIN disk' -> Bundles]
           /\ incidents' \subseteq DOMAIN disk'
  BY DEF ServeInv, ServeTypeOK, ListedComplete, BundleOfOneRun, Mode, WritesFail

\* Setting up leads to the loop or, with an error, to the report.
LEMMA ServeSetupInv == ServeInv /\ Setup => ServeInv'
  <1> SUFFICES ASSUME ServeInv, Setup PROVE ServeInv'
    OBVIOUS
  <1>1. /\ pc = "setup" /\ pc' \in {"accept", "report"} /\ diags \subseteq diags'
        /\ UNCHANGED <<setting, handled, seq, request, runs, accDiags, responses, incidents, osTime,
                       disk, underflow, emitted>>
    BY DEF Setup
  <1>2. ServeTypeOK'
    BY <1>1, BundlesKept DEF ServeInv, ServeTypeOK
  <1>3. Counting' /\ Places'
    BY <1>1 DEF Counting, Places
  <1>4. Failures'
    BY <1>1, ErrorsStay DEF ServeInv, Failures
  <1>5. ~emitted.done
    BY <1>1 DEF ServeInv, Settled
  <1>6. Settled' /\ Clock'
    BY <1>1, <1>5 DEF ServeInv, Settled, Clock
  <1> QED BY <1>1, <1>2, <1>3, <1>4, <1>6, BundlesKept DEF ServeInv

\* A connection or a turn is counted before anything comes of it.
LEMMA AcceptInv == ServeInv /\ (Accept \/ CanaryTurn) => ServeInv'
  <1> SUFFICES ASSUME ServeInv, Accept \/ CanaryTurn PROVE ServeInv'
    OBVIOUS
  <1>1. /\ pc = "accept" /\ handled' = handled + 1
        /\ UNCHANGED <<setting, seq, runs, diags, accDiags, responses, incidents, osTime,
                       disk, underflow, emitted>>
        /\ \/ Mode = "listen" /\ pc' = "reading" /\ UNCHANGED request
           \/ Mode = "canary" /\ pc' = "handling" /\ request' \in Dirs
    BY DEF Accept, CanaryTurn, Dirs
  <1>2. ServeTypeOK'
    BY <1>1, BundlesKept DEF ServeInv, ServeTypeOK, Dirs, NoRequest
  <1>3. Counting' /\ Places'
    BY <1>1 DEF ServeInv, ServeTypeOK, Counting, Places, Mode
  <1>4. Failures' /\ Settled' /\ Clock'
    BY <1>1, Modes DEF ServeInv, Failures, Settled, Clock, Mode
  <1> QED BY <1>1, <1>2, <1>3, <1>4, BundlesKept DEF ServeInv

\* Reading a request, its body or nothing, and answering it.
LEMMA ReadInv == ServeInv /\ (ReadHead \/ ReadBody \/ Reply) => ServeInv'
  <1> SUFFICES ASSUME ServeInv, ReadHead \/ ReadBody \/ Reply PROVE ServeInv'
    OBVIOUS
  <1>1. CASE ReadHead
    <2>1. /\ pc = "reading" /\ pc' = "body" /\ request' \in Dirs /\ seq' \in {seq, seq + 1}
          /\ UNCHANGED <<setting, handled, runs, diags, accDiags, responses, incidents, osTime,
                         disk, underflow, emitted>>
      BY <1>1, ServeConstants DEF ReadHead, Dirs, ServeInv, ServeTypeOK
    <2>2. ServeTypeOK'
      BY <2>1, BundlesKept DEF ServeInv, ServeTypeOK, Counting, Dirs, NoRequest
    <2>3. Counting' /\ Places'
      BY <2>1 DEF ServeInv, Counting, Places, Mode
    <2>4. Failures' /\ Settled' /\ Clock'
      BY <2>1 DEF ServeInv, Failures, Settled, Clock, Mode
    <2> QED BY <2>1, <2>2, <2>3, <2>4, BundlesKept DEF ServeInv
  <1>2. CASE ReadBody
    <2> DEFINE r == [ok |-> FALSE, status |-> 413, of |-> request]
    <2>1. /\ pc = "body" /\ pc' \in {"handling", "replying"}
          /\ \/ pc' = "handling" /\ UNCHANGED responses
             \/ pc' = "replying" /\ responses' = Append(responses, r)
          /\ UNCHANGED <<setting, handled, seq, request, runs, diags, accDiags, incidents, osTime,
                         disk, underflow, emitted>>
      BY <1>2 DEF ReadBody
    <2>2. r \in Summaries /\ ~Failed(r)
      BY <2>1 DEF ServeInv, Places, Summaries, Failed
    <2> HIDE DEF r
    <2>3. /\ responses' \in Seq(Summaries) /\ Len(responses') <= handled
          /\ pc' = "handling" => Len(responses') < handled
          /\ \A i \in DOMAIN responses' :
                Failed(responses'[i]) => \E j \in DOMAIN responses : Failed(responses[j])
      <3>1. responses \in Seq(Summaries) /\ Len(responses) < handled /\ handled \in Nat
        BY <2>1 DEF ServeInv, ServeTypeOK, Counting
      <3>2. CASE UNCHANGED responses
        BY <3>1, <3>2
      <3>3. CASE pc' = "replying" /\ responses' = Append(responses, r)
        <4>1. /\ Append(responses, r) \in Seq(Summaries)
              /\ Len(Append(responses, r)) = Len(responses) + 1
              /\ \A i \in DOMAIN Append(responses, r) :
                    Failed(Append(responses, r)[i])
                       => Failed(r) \/ \E j \in DOMAIN responses : Failed(responses[j])
          BY <2>2, <3>1, SummaryAdded
        <4>2. Len(responses) \in Nat
          BY <3>1, LenProperties
        <4> QED BY <2>2, <3>1, <3>3, <4>1, <4>2
      <3> QED BY <2>1, <3>2, <3>3
    <2>4. ServeTypeOK'
      BY <2>1, <2>3, BundlesKept DEF ServeInv, ServeTypeOK, Dirs
    <2>5. Counting' /\ Places'
      BY <2>1, <2>3 DEF ServeInv, Counting, Places, Mode
    <2>6. Failures' /\ Settled' /\ Clock'
      BY <2>1, <2>3 DEF ServeInv, Failures, Settled, Clock, Mode
    <2> QED BY <2>1, <2>4, <2>5, <2>6, BundlesKept DEF ServeInv
  <1>3. CASE Reply
    <2>1. /\ pc = "replying" /\ pc' = "accept" /\ request' = NoRequest
          /\ UNCHANGED <<setting, handled, seq, runs, diags, accDiags, responses, incidents, osTime,
                         disk, underflow, emitted>>
      BY <1>3 DEF Reply
    <2>2. ServeTypeOK'
      BY <2>1, BundlesKept DEF ServeInv, ServeTypeOK
    <2>3. Counting' /\ Places'
      BY <2>1 DEF Counting, Places
    <2>4. Failures' /\ Settled' /\ Clock'
      BY <2>1 DEF ServeInv, Failures, Settled, Clock, Mode
    <2> QED BY <2>1, <2>2, <2>3, <2>4, BundlesKept DEF ServeInv
  <1> QED BY <1>1, <1>2, <1>3

\* A connection that ends takes nothing with it that was already noted.
LEMMA ConnectionInv == ServeInv /\ ConnectionEnds => ServeInv'
  <1> SUFFICES ASSUME ServeInv, ConnectionEnds PROVE ServeInv'
    OBVIOUS
  <1>1. /\ pc \in {"reading", "body", "handling", "replying"} /\ pc' = "accept"
        /\ request' = NoRequest /\ diags \subseteq diags'
        /\ runs' = (IF pc = "handling" THEN runs + 1 ELSE runs)
        /\ UNCHANGED <<setting, handled, seq, accDiags, responses, incidents, osTime, disk,
                       underflow, emitted>>
    BY DEF ConnectionEnds
  <1>2. ServeTypeOK'
    BY <1>1, BundlesKept DEF ServeInv, ServeTypeOK, Counting
  <1>3. Counting' /\ Places'
    BY <1>1 DEF Counting, Places
  <1>4. Failures'
    BY <1>1, ErrorsStay DEF ServeInv, Failures
  <1>5. Settled' /\ Clock'
    BY <1>1 DEF ServeInv, Settled, Clock, Mode
  <1> QED BY <1>1, <1>2, <1>3, <1>4, <1>5, BundlesKept DEF ServeInv

-----------------------------------------------------------------------------
\* What a run of the guest does apart from its bundle.
LEMMA RunFacts ==
    ASSUME ServeInv, pc = "handling", AfterRun, runs' = runs + 1,
           UNCHANGED <<setting, handled, seq, request, emitted>>,
           NEW r \in Summaries, responses' = Append(responses, r),
           NEW ds, AddDiags(ds), underflow' \in BOOLEAN,
           Failed(r) \/ (underflow' /\ ~underflow) => HasError(ds),
           DOMAIN disk' \subseteq Dirs, disk' \in [DOMAIN disk' -> Bundles],
           incidents' \subseteq DOMAIN disk', osTime' \in BOOLEAN,
           incidents' # {} => osTime' \/ Mode = "listen"
    PROVE  /\ ServeTypeOK' /\ Counting' /\ Places' /\ Failures' /\ Settled' /\ Clock'
  <1>1. /\ responses \in Seq(Summaries) /\ Len(responses) < handled /\ runs < handled
        /\ handled \in Nat /\ Len(responses) \in Nat /\ runs \in Nat
    BY LenProperties DEF ServeInv, ServeTypeOK, Counting
  <1>2. /\ responses' \in Seq(Summaries) /\ Len(responses') = Len(responses) + 1
        /\ \A i \in DOMAIN responses' :
              Failed(responses'[i]) => Failed(r) \/ \E j \in DOMAIN responses : Failed(responses[j])
    <2>1. /\ Append(responses, r) \in Seq(Summaries)
          /\ Len(Append(responses, r)) = Len(responses) + 1
          /\ \A i \in DOMAIN Append(responses, r) :
                Failed(Append(responses, r)[i])
                   => Failed(r) \/ \E j \in DOMAIN responses : Failed(responses[j])
      BY <1>1, SummaryAdded
    <2> QED BY <2>1
  <1>3. pc' \in {"accept", "replying"} /\ (pc' = "replying" => Mode = "listen")
    BY Modes DEF AfterRun, ServeInv
  <1>4. ServeTypeOK'
    BY <1>1, <1>2, <1>3 DEF ServeInv, ServeTypeOK, Dirs
  <1>5. Counting' /\ Places'
    BY <1>3 DEF ServeInv, Counting, Places, Mode
  <1>6. Failures'
    <2>1. diags \cup accDiags \subseteq diags' \cup accDiags' /\ ds \subseteq diags' \cup accDiags'
      BY DEF AddDiags
    <2>2. SUFFICES ASSUME (\E i \in DOMAIN responses' : Failed(responses'[i])) \/ underflow'
                   PROVE  HasError(diags' \cup accDiags')
      BY DEF Failures, Failed
    <2>3. CASE HasError(ds)
      BY <2>1, <2>3, ErrorsStay
    <2>4. CASE ~HasError(ds)
      <3>1. HasError(diags \cup accDiags)
        BY <1>2, <2>2, <2>4 DEF ServeInv, Failures
      <3> QED BY <2>1, <3>1, ErrorsStay
    <2> QED BY <2>3, <2>4
  <1>7. Settled' /\ Clock'
    BY <1>3 DEF ServeInv, Settled, Clock, Mode
  <1> QED BY <1>4, <1>5, <1>6, <1>7

\* What writing the bundle of a run does.
LEMMA IncidentFacts ==
    ASSUME ServeInv, pc = "handling", AfterRun, runs' = runs + 1,
           UNCHANGED <<setting, request, emitted>>,
           NEW given, NEW lost, NEW add, WriteIncident(given, lost, add),
           Mode = "listen" => given # "none"
    PROVE  /\ DOMAIN disk' \subseteq Dirs /\ disk' \in [DOMAIN disk' -> Bundles]
           /\ incidents' \subseteq DOMAIN disk' /\ osTime' \in BOOLEAN
           /\ incidents' # {} => osTime' \/ Mode = "listen"
           /\ ListedComplete' /\ BundleOfOneRun'
  <1>1. PICK w \in BundleWrites(BundleOf(request), runs', given) :
           /\ disk' = [dir \in DOMAIN disk \cup {request} |->
                         IF dir = request THEN w.bundle ELSE disk[dir]]
           /\ \/ /\ w.ok
                 /\ incidents' = incidents \cup {request}
                 /\ osTime' = (osTime \/ Mode = "canary")
              \/ /\ ~w.ok
                 /\ UNCHANGED <<incidents, osTime>>
    BY DEF WriteIncident
  <1>2. request \in Dirs /\ runs' \in Nat \ {0}
    BY DEF ServeInv, ServeTypeOK, Places
  <1>3. BundleOf(request) \in Bundles
    BY DEF BundleOf, NoBundle, Bundles, ServeInv, ServeTypeOK
  <1>4. /\ w.bundle \in Bundles
        /\ w.ok => w.bundle.request # 0 /\ w.bundle.manifest # 0
        /\ ~w.ok => /\ BundleOf(request).request # 0 => w.bundle.request # 0
                    /\ w.bundle.manifest = BundleOf(request).manifest
        /\ ~WritesFail => w.ok /\ (given # "none" => w.bundle.response = w.bundle.manifest)
    BY <1>2, <1>3, BundleWritesFacts
  <1>5. DOMAIN disk' = DOMAIN disk \cup {request}
    BY <1>1
  <1>6. \A dir \in DOMAIN disk' : disk'[dir] = IF dir = request THEN w.bundle ELSE disk[dir]
    BY <1>1, <1>5
  <1>7. DOMAIN disk' \subseteq Dirs /\ disk' \in [DOMAIN disk' -> Bundles]
    <2>1. \A dir \in DOMAIN disk : disk[dir] \in Bundles
      BY DEF ServeInv, ServeTypeOK
    <2>2. disk' \in [DOMAIN disk \cup {request} -> Bundles]
      BY <1>1, <1>4, <2>1
    <2> QED BY <1>2, <1>5, <2>2 DEF ServeInv, ServeTypeOK
  <1>8. incidents' \subseteq DOMAIN disk' /\ osTime' \in BOOLEAN
    BY <1>1, <1>5 DEF ServeInv, ServeTypeOK
  <1>9. incidents' # {} => osTime' \/ Mode = "listen"
    BY <1>1, Modes DEF ServeInv, Clock
  <1>10. ListedComplete'
    <2>1. pc' # "stopped"
      BY DEF AfterRun
    <2>2. ASSUME NEW dir \in incidents'
          PROVE  disk'[dir].request # 0 /\ disk'[dir].manifest # 0
      <3>1. CASE dir # request
        BY <1>1, <1>6, <1>8, <3>1 DEF ServeInv, ListedComplete
      <3>2. CASE dir = request /\ w.ok
        BY <1>4, <1>6, <1>8, <3>2
      <3>3. CASE dir = request /\ ~w.ok
        <4>1. request \in incidents /\ request \in DOMAIN disk
          BY <1>1, <3>3 DEF ServeInv, ServeTypeOK
        <4>2. BundleOf(request).request # 0 /\ BundleOf(request).manifest # 0
          BY <4>1 DEF BundleOf, ServeInv, ListedComplete
        <4> QED BY <1>4, <1>6, <1>8, <3>3, <4>2
      <3> QED BY <3>1, <3>2, <3>3
    <2> QED BY <2>1, <2>2 DEF ListedComplete
  <1>11. BundleOfOneRun'
    <2>1. SUFFICES ASSUME Mode = "listen", ~WritesFail, NEW dir \in incidents'
                   PROVE  disk'[dir].response = disk'[dir].manifest
      BY DEF BundleOfOneRun, Mode, WritesFail
    <2>2. CASE dir = request
      BY <1>4, <1>6, <1>8, <2>1, <2>2
    <2>3. CASE dir # request
      BY <1>1, <1>6, <1>8, <2>1, <2>3 DEF ServeInv, BundleOfOneRun
    <2> QED BY <2>2, <2>3
  <1> QED BY <1>7, <1>8, <1>9, <1>10, <1>11

\* The evidence of a run: an underflow is an error.
LEMMA EvidenceFacts ==
    ASSUME ServeInv, NEW ed, EvidenceEnds(ed)
    PROVE  /\ underflow' \in BOOLEAN
           /\ underflow' /\ ~underflow => HasError(ed)
  <1>1. HasError({EvidenceBad})
    BY RequestErrors, ErrorFound
  <1>2. CASE UNCHANGED underflow
    BY <1>2 DEF ServeInv, ServeTypeOK
  <1>3. CASE underflow' \in BOOLEAN /\ ed = IF underflow' THEN {EvidenceBad} ELSE {}
    BY <1>1, <1>3
  <1> QED BY <1>2, <1>3 DEF EvidenceEnds

\* A run that answers.
LEMMA AnswersInv == ServeInv /\ Answers => ServeInv'
  <1> SUFFICES ASSUME ServeInv, Answers PROVE ServeInv'
    OBVIOUS
  <1> DEFINE r == [ok |-> TRUE, status |-> 200, of |-> request]
  <1>1. PICK rd \in AnswerDiags, ed \in {{}, {EvidenceBad}} : EvidenceEnds(ed) /\ AddDiags(rd \cup ed)
    BY DEF Answers
  <1>2. /\ pc = "handling" /\ runs' = runs + 1 /\ AfterRun /\ responses' = Append(responses, r)
        /\ UNCHANGED <<setting, handled, seq, request, incidents, osTime, disk, emitted>>
    BY DEF Answers
  <1>3. r \in Summaries /\ ~Failed(r)
    BY <1>2 DEF ServeInv, Places, Summaries, Failed
  <1>4. pc' # "stopped"
    BY <1>2 DEF AfterRun
  <1>5. underflow' \in BOOLEAN /\ (underflow' /\ ~underflow => HasError(rd \cup ed))
    BY <1>1, EvidenceFacts, ErrorsStay
  <1>6. osTime' \in BOOLEAN /\ (incidents' # {} => osTime' \/ Mode = "listen")
    BY <1>2 DEF ServeInv, ServeTypeOK, Clock
  <1> HIDE DEF r
  <1>7. ServeTypeOK' /\ Counting' /\ Places' /\ Failures' /\ Settled' /\ Clock'
    BY <1>1, <1>2, <1>3, <1>4, <1>5, <1>6, RunFacts, BundlesKept
  <1> QED BY <1>2, <1>4, <1>7, BundlesKept DEF ServeInv

\* A run whose answer carries a diagnostic.
LEMMA AnswersWithDiagInv == ServeInv /\ AnswersWithDiag => ServeInv'
  <1> SUFFICES ASSUME ServeInv, AnswersWithDiag PROVE ServeInv'
    OBVIOUS
  <1> DEFINE r == [ok |-> FALSE, status |-> 200, of |-> request]
  <1>1. PICK rd \in AnswerDiags, ed \in {{}, {EvidenceBad}}, wd \in {{}, BundleLost},
              gd \in GuestDiags :
           /\ EvidenceEnds(ed)
           /\ WriteIncident("buffered", BundleLost, wd)
           /\ AddDiags(rd \cup ed \cup {gd} \cup wd)
    BY DEF AnswersWithDiag
  <1>2. /\ pc = "handling" /\ runs' = runs + 1 /\ AfterRun /\ responses' = Append(responses, r)
        /\ UNCHANGED <<setting, handled, seq, request, emitted>>
    BY DEF AnswersWithDiag
  <1>3. r \in Summaries
    BY <1>2 DEF ServeInv, Places, Summaries
  <1>4. underflow' \in BOOLEAN
    BY <1>1, EvidenceFacts
  <1>5. HasError(rd \cup ed \cup {gd} \cup wd)
    BY RequestErrors, ErrorFound
  <1>6. /\ DOMAIN disk' \subseteq Dirs /\ disk' \in [DOMAIN disk' -> Bundles]
        /\ incidents' \subseteq DOMAIN disk' /\ osTime' \in BOOLEAN
        /\ incidents' # {} => osTime' \/ Mode = "listen"
        /\ ListedComplete' /\ BundleOfOneRun'
    BY <1>1, <1>2, IncidentFacts
  <1> HIDE DEF r
  <1>7. ServeTypeOK' /\ Counting' /\ Places' /\ Failures' /\ Settled' /\ Clock'
    BY <1>1, <1>2, <1>3, <1>4, <1>5, <1>6, RunFacts
  <1> QED BY <1>6, <1>7 DEF ServeInv

\* A run that fails.
LEMMA FailsInv == ServeInv /\ Fails => ServeInv'
  <1> SUFFICES ASSUME ServeInv, Fails PROVE ServeInv'
    OBVIOUS
  <1> DEFINE r     == [ok |-> FALSE, status |-> IF Mode = "canary" THEN 0 ELSE 500, of |-> request]
             given == IF Mode = "canary" THEN "none" ELSE "status"
             lost  == IF Mode = "canary" THEN BundleLost ELSE {}
  <1>1. PICK ed \in {{}, {EvidenceBad}}, wd \in {{}, BundleLost} :
           \E fd \in FailureDiags(ed) :
              EvidenceEnds(ed) /\ WriteIncident(given, lost, wd) /\ AddDiags(fd \cup ed \cup wd)
    BY DEF Fails
  <1>2. PICK fd \in FailureDiags(ed) :
           EvidenceEnds(ed) /\ WriteIncident(given, lost, wd) /\ AddDiags(fd \cup ed \cup wd)
    BY <1>1
  <1>3. /\ pc = "handling" /\ runs' = runs + 1 /\ AfterRun /\ responses' = Append(responses, r)
        /\ UNCHANGED <<setting, handled, seq, request, emitted>>
    BY DEF Fails
  <1>4. r \in Summaries
    BY <1>3 DEF ServeInv, Places, Summaries
  <1>5. underflow' \in BOOLEAN
    BY <1>2, EvidenceFacts
  <1>6. HasError(fd \cup ed \cup wd)
    BY FailureHasError, ErrorsStay
  <1>7. Mode = "listen" => given # "none"
    OBVIOUS
  <1> HIDE DEF r, given, lost
  <1>8. /\ DOMAIN disk' \subseteq Dirs /\ disk' \in [DOMAIN disk' -> Bundles]
        /\ incidents' \subseteq DOMAIN disk' /\ osTime' \in BOOLEAN
        /\ incidents' # {} => osTime' \/ Mode = "listen"
        /\ ListedComplete' /\ BundleOfOneRun'
    BY <1>2, <1>3, <1>7, IncidentFacts
  <1>9. ServeTypeOK' /\ Counting' /\ Places' /\ Failures' /\ Settled' /\ Clock'
    BY <1>2, <1>3, <1>4, <1>5, <1>6, <1>8, RunFacts
  <1> QED BY <1>8, <1>9 DEF ServeInv

-----------------------------------------------------------------------------
\* The diagnostics of the requests join the report on every way out.
LEMMA CloseInv ==
    ASSUME ServeInv, pc = "accept", NEW ds, CloseLoop(ds),
           UNCHANGED <<setting, handled, seq, request, runs, responses, incidents, disk, underflow, emitted>>
    PROVE  ServeInv'
  <1>1. /\ pc' = "report" /\ accDiags' = {} /\ diags \cup accDiags \subseteq diags' \cup accDiags'
        /\ osTime' = (osTime \/ (Mode = "listen" /\ incidents # {}))
    BY DEF CloseLoop
  <1>2. ServeTypeOK'
    BY <1>1, BundlesKept DEF ServeInv, ServeTypeOK
  <1>3. Counting' /\ Places'
    BY <1>1 DEF Counting, Places
  <1>4. Failures'
    BY <1>1, ErrorsStay DEF ServeInv, Failures
  <1>5. Settled' /\ Clock'
    BY <1>1 DEF ServeInv, Settled, Clock, Mode
  <1> QED BY <1>1, <1>2, <1>3, <1>4, <1>5, BundlesKept DEF ServeInv

\* The report says what was found, and its copies complete the bundles.
LEMMA EmitInv == ServeInv /\ EmitReport => ServeInv'
  <1> SUFFICES ASSUME ServeInv, EmitReport PROVE ServeInv'
    OBVIOUS
  <1>1. /\ pc = "report" /\ pc' = "stopped"
        /\ \/ emitted' = [ok |-> ReportOk(diags), osTime |-> osTime, done |-> TRUE]
           \/ emitted' = emitted
        /\ UNCHANGED <<setting, handled, seq, request, runs, diags, accDiags, responses, incidents,
                       osTime, underflow>>
    BY DEF EmitReport
  <1>2. /\ DOMAIN disk' = DOMAIN disk /\ disk' \in [DOMAIN disk -> Bundles]
        /\ \A dir \in DOMAIN disk : /\ disk'[dir].request  = disk[dir].request
                                   /\ disk'[dir].response = disk[dir].response
                                   /\ disk'[dir].manifest = disk[dir].manifest
        /\ ~ReportOk(diags) /\ ~WritesFail => \A dir \in incidents : disk'[dir].report
    <2>1. disk \in [DOMAIN disk -> Bundles] /\ incidents \subseteq DOMAIN disk
      BY DEF ServeInv, ServeTypeOK
    <2>2. CASE ReportOk(diags)
      BY <2>1, <2>2 DEF EmitReport
    <2>3. CASE ~ReportOk(diags)
      <3>1. PICK complete \in SUBSET incidents :
               /\ WritesFail \/ complete = incidents
               /\ disk' = [dir \in DOMAIN disk |->
                             IF dir \in complete THEN [disk[dir] EXCEPT !.report = TRUE]
                                                ELSE disk[dir]]
        BY <2>3 DEF EmitReport
      <3>2. ASSUME NEW dir \in DOMAIN disk
            PROVE  LET b == [disk[dir] EXCEPT !.report = TRUE]
                   IN b \in Bundles /\ b.report /\ b.request = disk[dir].request
                      /\ b.response = disk[dir].response /\ b.manifest = disk[dir].manifest
        BY <2>1 DEF Bundles
      <3> QED BY <2>1, <3>1, <3>2
    <2> QED BY <2>2, <2>3
  <1>3. ServeTypeOK'
    <2>1. /\ emitted \in [ok : BOOLEAN, osTime : BOOLEAN, done : BOOLEAN]
          /\ osTime \in BOOLEAN
      BY DEF ServeInv, ServeTypeOK
    <2>2. CASE emitted' = emitted
      BY <1>1, <1>2, <2>2 DEF ServeInv, ServeTypeOK
    <2>3. CASE emitted' = [ok |-> ReportOk(diags), osTime |-> osTime, done |-> TRUE]
      <3>1. emitted' \in [ok : BOOLEAN, osTime : BOOLEAN, done : BOOLEAN]
        BY <2>1, <2>3 DEF ReportOk, HasError
      <3> QED BY <1>1, <1>2, <3>1 DEF ServeInv, ServeTypeOK
    <2> QED BY <1>1, <2>2, <2>3
  <1>4. Counting' /\ Places' /\ Failures' /\ Settled' /\ Clock'
    BY <1>1 DEF ServeInv, Counting, Places, Failures, Settled, Clock, Failed, Mode
  <1>5. ListedComplete'
    BY <1>1, <1>2 DEF ServeInv, ServeTypeOK, ListedComplete, WritesFail
  <1>6. BundleOfOneRun'
    BY <1>1, <1>2 DEF ServeInv, ServeTypeOK, BundleOfOneRun, WritesFail, Mode
  <1> QED BY <1>3, <1>4, <1>5, <1>6 DEF ServeInv

\* Every step keeps the invariant.
LEMMA NextInv == ServeInv /\ [ServeNext]_serveVars => ServeInv'
  <1> SUFFICES ASSUME ServeInv, [ServeNext]_serveVars PROVE ServeInv'
    OBVIOUS
  <1>1. CASE AcceptFails \/ LoopEnds
    BY <1>1, CloseInv DEF AcceptFails, LoopEnds
  <1>2. CASE ServeRest \/ UNCHANGED serveVars
    <2>1. UNCHANGED serveVars
      BY <1>2 DEF ServeRest
    <2> QED BY <2>1 DEF serveVars, ServeInv, ServeTypeOK, Counting, Places, Failures, Settled, Clock,
                        ListedComplete, BundleOfOneRun, Mode, WritesFail
  <1>3. CASE Run
    BY <1>3, AnswersInv, AnswersWithDiagInv, FailsInv DEF Run
  <1> QED BY <1>1, <1>2, <1>3, ServeSetupInv, AcceptInv, ReadInv, ConnectionInv, EmitInv DEF ServeNext

\* The strengthened invariant holds for every instance of the constants.
THEOREM ServeInductive == ServeSpec => []ServeInv
  BY ServeInitInv, NextInv, PTL DEF ServeSpec

\* Every state has the types that serve.rs gives its variables.
THEOREM ServeTypeCorrect == ServeSpec => []ServeTypeOK
  BY ServeInductive, PTL DEF ServeInv

\* A failed request and a replay without evidence make the report a failure,
\* whichever way the command ends (serve.rs:610-637).
THEOREM FailuresReachReport == ServeSpec => []FailureReachesReport
  <1>1. ServeInv => FailureReachesReport
    BY DEF ServeInv, Failures, Settled, FailureReachesReport, ReportOk
  <1> QED BY <1>1, ServeInductive, PTL

\* A bundle the report lists has its request, its manifest and, if nothing
\* fails to be written, the report (serve.rs:1872-1954).
THEOREM ListedCorrect == ServeSpec => []ListedComplete
  BY ServeInductive, PTL DEF ServeInv

\* The bundles of the accept loop never mix two failures (serve.rs:1512-1533).
THEOREM BundleCorrect == ServeSpec => []BundleOfOneRun
  BY ServeInductive, PTL DEF ServeInv

\* A report with incidents admits the clock (serve.rs:1574-1576).
THEOREM ClockCorrect == ServeSpec => []ClockAdmitted
  <1>1. ServeInv => ClockAdmitted
    BY DEF ServeInv, Settled, Clock, ClockAdmitted
  <1> QED BY <1>1, ServeInductive, PTL

-----------------------------------------------------------------------------
(* The bundles of failures.                                                *)

\* A failed request is on record from when it is answered, wherever the
\* diagnostics are kept by then.
OnRecord(r) ==
    \/ r.of \in incidents
    \/ BundleLost \subseteq diags \cup accDiags
    \/ WritesFail /\ r.status = 500

RecordInv == \A i \in 1..Len(responses) : Failed(responses[i]) => OnRecord(responses[i])

\* What is on record stays there: incidents and diagnostics are only added to.
LEMMA StaysOnRecord ==
    ASSUME NEW r, OnRecord(r), UNCHANGED setting, incidents \subseteq incidents',
           diags \cup accDiags \subseteq diags' \cup accDiags'
    PROVE  \/ r.of \in incidents'
           \/ BundleLost \subseteq diags' \cup accDiags'
           \/ WritesFail' /\ r.status = 500
  BY DEF OnRecord, WritesFail

\* Steps that answer no request.
LEMMA RecordKept ==
    ASSUME RecordInv, UNCHANGED <<setting, responses>>, incidents \subseteq incidents',
           diags \cup accDiags \subseteq diags' \cup accDiags'
    PROVE  RecordInv'
  <1>1. ASSUME NEW i \in 1..Len(responses), Failed(responses[i])
        PROVE  OnRecord(responses[i])'
    <2>1. OnRecord(responses[i])
      BY <1>1 DEF RecordInv
    <2> QED BY <2>1, StaysOnRecord DEF OnRecord
  <1> QED BY <1>1 DEF RecordInv, Failed

\* A step that answers with r.
LEMMA RecordAdded ==
    ASSUME ServeInv, RecordInv, NEW r \in Summaries, responses' = Append(responses, r),
           UNCHANGED setting, incidents \subseteq incidents',
           diags \cup accDiags \subseteq diags' \cup accDiags',
           Failed(r) => \/ r.of \in incidents'
                        \/ BundleLost \subseteq diags' \cup accDiags'
                        \/ WritesFail' /\ r.status = 500
    PROVE  RecordInv'
  <1>1. responses \in Seq(Summaries)
    BY DEF ServeInv, ServeTypeOK
  <1>2. /\ Len(responses') = Len(responses) + 1 /\ Len(responses) \in Nat
        /\ \A i \in 1..Len(responses) : responses'[i] = responses[i]
        /\ responses'[Len(responses) + 1] = r
    BY <1>1
  <1>3. ASSUME NEW i \in 1..Len(responses'), Failed(responses'[i])
        PROVE  OnRecord(responses[i])'
    <2>1. CASE i \in 1..Len(responses)
      <3>1. OnRecord(responses[i]) /\ responses'[i] = responses[i]
        BY <1>2, <1>3, <2>1 DEF RecordInv
      <3> QED BY <3>1, StaysOnRecord DEF OnRecord
    <2>2. CASE i = Len(responses) + 1
      BY <1>2, <1>3, <2>2 DEF OnRecord
    <2> QED BY <1>2, <2>1, <2>2
  <1> QED BY <1>3 DEF RecordInv, Failed

\* Every step keeps failures on record: the run that fails writes the bundle
\* or says that it could not, unless it is a 500 of the accept loop.
LEMMA RecordStep == ServeInv /\ RecordInv /\ [ServeNext]_serveVars => RecordInv'
  <1> SUFFICES ASSUME ServeInv, RecordInv, [ServeNext]_serveVars PROVE RecordInv'
    OBVIOUS
  <1>1. CASE ReadBody
    <2> DEFINE r == [ok |-> FALSE, status |-> 413, of |-> request]
    <2>1. /\ UNCHANGED <<setting, incidents, diags, accDiags>>
          /\ UNCHANGED responses \/ responses' = Append(responses, r)
      BY <1>1 DEF ReadBody
    <2>2. r \in Summaries /\ ~Failed(r)
      BY <1>1 DEF ReadBody, ServeInv, Places, Summaries, Failed
    <2> HIDE DEF r
    <2> QED BY <2>1, <2>2, RecordKept, RecordAdded
  <1>2. CASE Answers
    <2> DEFINE r == [ok |-> TRUE, status |-> 200, of |-> request]
    <2>1. /\ UNCHANGED <<setting, incidents>> /\ responses' = Append(responses, r)
          /\ diags \cup accDiags \subseteq diags' \cup accDiags'
      BY <1>2 DEF Answers, AddDiags
    <2>2. r \in Summaries /\ ~Failed(r)
      BY <1>2 DEF Answers, ServeInv, Places, Summaries, Failed
    <2> HIDE DEF r
    <2> QED BY <2>1, <2>2, RecordAdded
  <1>3. CASE AnswersWithDiag
    <2> DEFINE r == [ok |-> FALSE, status |-> 200, of |-> request]
    <2>1. PICK rd \in AnswerDiags, ed \in {{}, {EvidenceBad}}, wd \in {{}, BundleLost},
                gd \in GuestDiags :
             /\ WriteIncident("buffered", BundleLost, wd)
             /\ AddDiags(rd \cup ed \cup {gd} \cup wd)
      BY <1>3 DEF AnswersWithDiag
    <2>2. \/ incidents' = incidents \cup {request}
          \/ incidents' = incidents /\ wd = BundleLost
      BY <2>1 DEF WriteIncident
    <2>3. diags \cup accDiags \cup wd \subseteq diags' \cup accDiags'
      BY <2>1 DEF AddDiags
    <2>4. UNCHANGED setting /\ responses' = Append(responses, r) /\ r.of = request
      BY <1>3 DEF AnswersWithDiag
    <2>5. r \in Summaries
      BY <1>3 DEF AnswersWithDiag, ServeInv, Places, Summaries
    <2> HIDE DEF r
    <2> QED BY <2>2, <2>3, <2>4, <2>5, RecordAdded
  <1>4. CASE Fails
    <2> DEFINE r     == [ok |-> FALSE, status |-> IF Mode = "canary" THEN 0 ELSE 500, of |-> request]
               given == IF Mode = "canary" THEN "none" ELSE "status"
               lost  == IF Mode = "canary" THEN BundleLost ELSE {}
    <2>1. PICK ed \in {{}, {EvidenceBad}}, wd \in {{}, BundleLost} :
             \E fd \in FailureDiags(ed) : WriteIncident(given, lost, wd) /\ AddDiags(fd \cup ed \cup wd)
      BY <1>4 DEF Fails
    <2>2. diags \cup accDiags \cup wd \subseteq diags' \cup accDiags'
      BY <2>1 DEF AddDiags
    <2>3. pc = "handling" /\ runs' = runs + 1 /\ UNCHANGED setting
          /\ responses' = Append(responses, r)
      BY <1>4 DEF Fails
    <2>4. r \in Summaries /\ r.of = request /\ (Mode # "canary" => r.status = 500)
      BY <2>3 DEF ServeInv, Places, Summaries
    <2>5. PICK w \in BundleWrites(BundleOf(request), runs', given) :
             \/ w.ok /\ incidents' = incidents \cup {request}
             \/ ~w.ok /\ incidents' = incidents /\ wd = lost
      BY <2>1 DEF WriteIncident
    <2>6. w.ok \/ WritesFail
      <3>1. BundleOf(request) \in Bundles /\ runs' \in Nat \ {0}
        BY <2>3 DEF BundleOf, NoBundle, Bundles, ServeInv, ServeTypeOK
      <3> HIDE DEF given
      <3> QED BY <3>1, BundleWritesFacts
    <2> HIDE DEF r, given
    <2> QED BY <2>2, <2>3, <2>4, <2>5, <2>6, RecordAdded DEF WritesFail
  <1>5. CASE \/ Setup \/ Accept \/ AcceptFails \/ ReadHead \/ ConnectionEnds \/ Reply
             \/ CanaryTurn \/ LoopEnds \/ EmitReport \/ ServeRest \/ UNCHANGED serveVars
    <2>1. /\ UNCHANGED <<setting, responses, incidents>>
          /\ diags \cup accDiags \subseteq diags' \cup accDiags'
      BY <1>5
      DEF Setup, Accept, AcceptFails, CloseLoop, ReadHead, ConnectionEnds, Reply, CanaryTurn,
          LoopEnds, EmitReport, ServeRest, serveVars
    <2> QED BY <2>1, RecordKept
  <1> QED BY <1>1, <1>2, <1>3, <1>4, <1>5 DEF ServeNext, Run

\* For every number of requests and whatever fails, a failed request has its
\* bundle in the report or the report says that it could not be written, but
\* for a 500 of the accept loop (serve.rs:1397-1420, 1512-1533).
THEOREM FailuresRecorded == ServeSpec => []FailureRecorded
  <1>1. ServeInit => RecordInv
    <2>1. ServeInit => Len(responses) = 0
      BY EmptySeq DEF ServeInit
    <2> QED BY <2>1 DEF RecordInv
  <1>2. ServeInv /\ RecordInv => FailureRecorded
    <2>1. ServeInv => DOMAIN responses = 1..Len(responses)
      BY DEF ServeInv, ServeTypeOK
    <2> QED BY <2>1 DEF ServeInv, Settled, RecordInv, OnRecord, FailureRecorded
  <1> QED BY <1>1, <1>2, RecordStep, ServeInductive, PTL DEF ServeSpec

-----------------------------------------------------------------------------
(* A request as the loops take it: what HandleRequest leaves behind is what  *)
(* ServeHost gives its requests.                                             *)

\* The diagnostic a code of HandleRequest stands for.
Coded(code) ==
    CASE code = "net_denied"     -> Denied
      [] code = "caps"           -> CapsRefused
      [] code = "request_failed" -> RequestFailed
      [] OTHER                   -> BudgetFailed

\* A replay error counts as the request's own: it is not also said to have failed.
Left(ed) ==
    {Coded(code) : code \in IF Evidence = "replay" /\ ed # {} THEN reported \ {"request_failed"}
                                                              ELSE reported}

TakenByHost ==
    stage = "done" =>
        \A ed \in {{}, {EvidenceBad}} :
           \/ outcome.kind = "response" /\ {Coded(code) : code \in reported} \in AnswerDiags
           \/ outcome.kind = "failure"  /\ Left(ed) \in FailureDiags(ed)

\* How a request can have ended: nothing but refusals are collected, and the
\* set-up of the capabilities fails before anything is.
Endings ==
    /\ stateDiags \subseteq {"net_denied"}
    /\ stage = "setup" => stateDiags = {}
    /\ stage \notin {"over", "done"} => reqDiags = {}
    /\ stage \in {"over", "done"} =>
          \/ outcome.kind = "response" /\ reqDiags \subseteq {"net_denied"}
          \/ outcome.kind = "failure" /\ reqDiags \subseteq {"net_denied"}
          \/ outcome.kind = "failure" /\ ~outcome.chained /\ reqDiags = {"caps"}
    /\ stage = "done" =>
          reported = reqDiags \cup (IF outcome.kind = "failure" THEN FailureCodes(outcome, reqDiags) ELSE {})

LEMMA GiveUpEndings ==
    ASSUME Endings, stage \notin {"over", "done"}, NEW why \in Causes, NEW chained \in BOOLEAN,
           GiveUp(why, chained)
    PROVE  Endings'
  <1>1. /\ stage' = "over" /\ stateDiags' = {} /\ reqDiags' = reqDiags \cup stateDiags
        /\ outcome'.kind = "failure" /\ outcome'.chained = chained
    BY DEF GiveUp, Failure
  <1> QED BY <1>1 DEF Endings

LEMMA EndingsStep == Endings /\ [Next]_vars => Endings'
  <1> SUFFICES ASSUME Endings, [Next]_vars PROVE Endings'
    OBVIOUS
  <1> USE DEF diagVars
  <1>1. CASE BuildWasi
    BY <1>1 DEF BuildWasi, Endings, Failure
  <1>2. CASE Instantiate
    <2>1. CASE stage' = "call" /\ UNCHANGED <<late, diagVars, outcome, reported>>
      BY <1>2, <2>1 DEF Instantiate, Endings
    <2> QED BY <1>2, <2>1, GiveUpEndings DEF Instantiate, Causes
  <1>3. CASE SendDenied
    BY <1>3 DEF SendDenied, Running, GuestStages, Endings
  <1>4. CASE Spin \/ Write \/ Finish \/ SetOutparam \/ Return \/ HostReady \/ Tick
    BY <1>4 DEF Spin, Write, Finish, SetOutparam, Return, HostReady, Tick, Running, GuestStages, Endings
  <1>5. CASE Trap
    BY <1>5, GiveUpEndings DEF Trap, Running, GuestStages, KeepsChain, Causes
  <1>6. CASE Yield
    <2>1. CASE UNCHANGED <<stage, late, diagVars, outcome, reported>>
      BY <2>1 DEF Endings
    <2> QED BY <1>6, <2>1, GiveUpEndings DEF Yield, Running, GuestStages, Causes
  <1>7. CASE FuelOut \/ TimeoutFires
    BY <1>7, GiveUpEndings DEF FuelOut, TimeoutFires, GuestStages, KeepsChain, Causes, Budgets
  <1>8. CASE Receive
    <2>1. CASE stage' = "collect" /\ UNCHANGED <<late, diagVars, outcome, reported>>
      BY <1>8, <2>1 DEF Receive, Endings
    <2> QED BY <1>8, <2>1, GiveUpEndings DEF Receive, Causes
  <1>9. CASE Collect
    <2>1. CASE stage' = "over" /\ outcome' = Response(written)
               /\ reqDiags' = reqDiags \cup stateDiags /\ stateDiags' = {}
      BY <1>9, <2>1 DEF Collect, Endings, Response
    <2> QED BY <1>9, <2>1, GiveUpEndings DEF Collect, Causes
  <1>10. CASE Answer
    <2>1. stage = "over" /\ stage' = "done" /\ UNCHANGED <<stateDiags, reqDiags, outcome>>
      BY <1>10 DEF Answer
    <2>2. reported' = reqDiags \cup (IF outcome.kind = "failure" THEN FailureCodes(outcome, reqDiags) ELSE {})
      BY <1>10 DEF Answer
    <2> QED BY <2>1, <2>2 DEF Endings
  <1>11. CASE UNCHANGED vars
    BY <1>11 DEF vars, Endings
  <1> QED
    BY <1>1, <1>2, <1>3, <1>4, <1>5, <1>6, <1>7, <1>8, <1>9, <1>10, <1>11
    DEF Next, HostStep, GuestStep, Rest

\* What one code leaves, and none.
LEMMA CodedSets ==
    /\ {Coded(code) : code \in {}} = {}
    /\ \A code : {Coded(c) : c \in {code}} = {Coded(code)}
    /\ \A why \in Budgets : Coded(why) = BudgetFailed
    /\ Coded("net_denied") = Denied /\ Coded("caps") = CapsRefused
    /\ Coded("request_failed") = RequestFailed
  BY DEF Coded, Budgets

\* Every way in which handle_one_request can end, for any guest and limits, is
\* one of those the loops are modelled with, and they are told apart in the
\* same way: the diagnostics of a response are refusals, those of a failure
\* one error, or a refusal and the budget that start code then used up
\* (serve.rs:1025-1060, 1472-1510).
THEOREM OutcomesTaken == Spec => []TakenByHost
  <1>1. Init => Endings
    BY DEF Init, Endings
  <1>2. Endings => TakenByHost
    <2> SUFFICES ASSUME Endings, stage = "done", NEW ed \in {{}, {EvidenceBad}}
                 PROVE  \/ outcome.kind = "response" /\ {Coded(code) : code \in reported} \in AnswerDiags
                        \/ outcome.kind = "failure"  /\ Left(ed) \in FailureDiags(ed)
      BY DEF TakenByHost
    <2> DEFINE own == reqDiags \cup FailureCodes(outcome, reqDiags)
    <2>1. CASE outcome.kind = "response" /\ reqDiags \subseteq {"net_denied"}
      <3>1. reported = {} \/ reported = {"net_denied"}
        BY <2>1 DEF Endings
      <3> QED BY <2>1, <3>1, CodedSets DEF AnswerDiags
    <2>2. CASE outcome.kind = "failure" /\ reqDiags \in {{"net_denied"}, {"caps"}}
      <3>1. reported = own /\ (reqDiags = {"caps"} => ~outcome.chained)
        BY <2>2 DEF Endings
      <3>2. CASE outcome.chained /\ outcome.why \in Budgets
        <4>1. reported = {"net_denied", outcome.why} /\ outcome.why # "request_failed"
          BY <2>2, <3>1, <3>2 DEF FailureCodes, Budgets
        <4>2. {Coded(code) : code \in reported} = {Denied, BudgetFailed}
          BY <3>2, <4>1, CodedSets
        <4>3. reported \ {"request_failed"} = reported
          BY <4>1
        <4>4. Left(ed) = {Denied, BudgetFailed}
          BY <4>2, <4>3 DEF Left
        <4> QED BY <2>2, <4>4 DEF FailureDiags
      <3>3. CASE ~(outcome.chained /\ outcome.why \in Budgets)
        <4>1. reported = reqDiags
          BY <2>2, <3>1, <3>3 DEF FailureCodes
        <4>2. Left(ed) = {Denied} \/ Left(ed) = {CapsRefused}
          BY <2>2, <4>1, CodedSets DEF Left
        <4> QED BY <2>2, <4>2 DEF FailureDiags
      <3> QED BY <3>2, <3>3
    <2>3. CASE outcome.kind = "failure" /\ reqDiags = {}
      <3>1. reported = own
        BY <2>3 DEF Endings
      <3>2. CASE outcome.chained /\ outcome.why \in Budgets
        <4>1. reported = {outcome.why} /\ outcome.why # "request_failed"
          BY <2>3, <3>1, <3>2 DEF FailureCodes, Budgets
        <4>2. Left(ed) = {BudgetFailed}
          BY <3>2, <4>1, CodedSets DEF Left
        <4> QED BY <2>3, <4>2 DEF FailureDiags
      <3>3. CASE ~(outcome.chained /\ outcome.why \in Budgets)
        <4>1. reported = {"request_failed"}
          BY <2>3, <3>1, <3>3 DEF FailureCodes
        <4>2. CASE Evidence = "replay" /\ ed # {}
          <5>1. Left(ed) = {}
            BY <4>1, <4>2 DEF Left
          <5> QED BY <2>3, <4>2, <5>1 DEF FailureDiags
        <4>3. CASE ~(Evidence = "replay" /\ ed # {})
          <5>1. Left(ed) = {RequestFailed}
            BY <4>1, <4>3, CodedSets DEF Left
          <5> QED BY <2>3, <4>3, <5>1 DEF FailureDiags
        <4> QED BY <4>2, <4>3
      <3> QED BY <3>2, <3>3
    <2> QED BY <2>1, <2>2, <2>3 DEF Endings
  <1> QED BY <1>1, <1>2, EndingsStep, PTL DEF Spec
=============================================================================
