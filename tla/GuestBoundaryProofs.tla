------------------------ MODULE GuestBoundaryProofs ------------------------
(***************************************************************************)
(* What crosses the boundary between the host and its guest: the calls of  *)
(* SolveAbi, whose layout and output checks hold for every guest and every *)
(* value of the constants, and the readings of CapsEvidence, which are in  *)
(* the evidence and come back in a replay.  The two machines share nothing *)
(* but the place where they run, and each theorem is about one of them.    *)
(***************************************************************************)
EXTENDS SolveAbi, CapsEvidence, SequenceTheorems, TLAPS

(* Calls: SolveAbi.                                                        *)

\* align_up returns the least multiple of 8 that is not below its argument.
LEMMA AlignUpFacts ==
    ASSUME NEW x \in Nat
    PROVE  /\ AlignUp(x) \in Nat
           /\ AlignUp(x) % 8 = 0
           /\ x <= AlignUp(x)
           /\ AlignUp(x) < x + 8
  BY DEF AlignUp

\* The three regions of a call follow one another above the static data, for
\* every input length (abi_solve_v2.rs:68-75).
THEOREM LayoutCorrect ==
    ASSUME NEW n \in Nat
    PROVE  /\ RetPtr \in Nat /\ InputPtr \in Nat /\ ArenaPtr(n) \in Nat /\ ArenaEnd(n) \in Nat
           /\ HeapBase <= RetPtr /\ DataEnd <= RetPtr
           /\ RetPtr + 8 <= InputPtr
           /\ InputPtr + n <= ArenaPtr(n)
           /\ ArenaPtr(n) <= ArenaEnd(n)
           /\ RetPtr % 8 = 0 /\ InputPtr % 8 = 0 /\ ArenaPtr(n) % 8 = 0
           /\ 8 <= ArenaPtr(n)
  <1>1. AllocBase \in Nat /\ HeapBase <= AllocBase /\ DataEnd <= AllocBase /\ ArenaCap \in Nat
    BY AbiAssumption DEF AllocBase
  <1>2. RetPtr \in Nat /\ RetPtr % 8 = 0 /\ AllocBase <= RetPtr
    BY <1>1, AlignUpFacts DEF RetPtr
  <1>3. InputPtr \in Nat /\ InputPtr % 8 = 0 /\ RetPtr + 8 <= InputPtr
    <2>1. RetPtr + 8 \in Nat
      BY <1>2
    <2> QED BY <2>1, AlignUpFacts DEF InputPtr
  <1>4. ArenaPtr(n) \in Nat /\ ArenaPtr(n) % 8 = 0 /\ InputPtr + n <= ArenaPtr(n)
    <2>1. InputPtr + n \in Nat
      BY <1>3
    <2> QED BY <2>1, AlignUpFacts DEF ArenaPtr
  <1>5. 8 <= ArenaPtr(n)
    <2>1. 8 <= InputPtr
      BY <1>2, <1>3
    <2> QED BY <2>1, <1>3, <1>4
  <1>6. ArenaEnd(n) \in Nat /\ ArenaPtr(n) <= ArenaEnd(n)
    BY <1>1, <1>4 DEF ArenaEnd
  <1>7. HeapBase <= RetPtr /\ DataEnd <= RetPtr
    BY <1>1, <1>2, AbiAssumption
  <1> QED BY <1>2, <1>3, <1>4, <1>5, <1>6, <1>7

-----------------------------------------------------------------------------
\* A call in flight: its regions fit the memory it was checked against, the
\* memory only grew since, the fuel is the call's own allowance and the return
\* slot is clear until the guest writes it.
InFlight ==
    stage # "idle" =>
        /\ ArenaEnd(len) <= memAtCall
        /\ memAtCall <= mem
        /\ ~wrote => ret = NoBytes
        /\ result = Failed("none_yet")
        /\ stage = "guest" => fuel = MaxFuel

SInv == AbiTypeOK /\ InFlight /\ OutputSound /\ FuelPerCall

\* A failure is a result that is not ok, told apart by its reason.
LEMMA FailedForm ==
    /\ \A w \in Failures : Failed(w) \in Results /\ ~Failed(w).ok
    /\ \A w \in Failures \ {"fuel"} : Failed(w) # Failed("fuel")
    /\ \A w \in {"too_small", "ptr_overflow", "none_yet", "memory", "trap", "fuel",
                   "output_limit", "outside_arena", "out_of_bounds"} : w \in Failures
  <1>1. ASSUME NEW w \in Failures PROVE Failed(w) \in Results /\ ~Failed(w).ok
    BY DEF Failed, Results
  <1>2. ASSUME NEW w \in Failures, w # "fuel" PROVE Failed(w) # Failed("fuel")
    <2>1. Failed(w).why = w /\ Failed("fuel").why = "fuel"
      BY DEF Failed
    <2> QED BY <2>1, <1>2
  <1> QED BY <1>1, <1>2 DEF Failures

\* An output is a result that is ok.
LEMMA OutputForm ==
    ASSUME NEW p \in Pairs
    PROVE  /\ Output(p) \in Results /\ Output(p).ok
           /\ Output(p).ptr = p.ptr /\ Output(p).len = p.len
           /\ \A w \in Failures : Output(p) # Failed(w)
  <1>1. p.ptr \in 0..(Word - 1) /\ p.len \in 0..(Word - 1)
    BY DEF Pairs
  <1>2. Output(p) \in Results /\ Output(p).ok /\ Output(p).ptr = p.ptr /\ Output(p).len = p.len
    BY <1>1 DEF Output, Results
  <1> QED BY <1>2, FailedForm

LEMMA AbiInitInv == AbiInit => SInv
  <1> SUFFICES ASSUME AbiInit PROVE SInv
    OBVIOUS
  <1>1. result = Failed("none_yet") /\ result \in Results /\ ~result.ok /\ result # Failed("fuel")
    BY FailedForm DEF AbiInit, Failures
  <1>2. NoBytes \in Pairs
    BY AbiAssumption DEF NoBytes, Pairs
  <1>3. AbiTypeOK
    <2>1. mem \in 0..Word /\ memAtCall \in 0..Word
      BY AbiAssumption DEF AbiInit
    <2>2. fuel \in 0..MaxFuel /\ need \in 0..(MaxFuel + 1) /\ len \in 0..(Word - 1)
      BY AbiAssumption DEF AbiInit
    <2> QED BY <1>1, <1>2, <2>1, <2>2 DEF AbiInit, AbiTypeOK
  <1>4. InFlight /\ OutputSound /\ FuelPerCall
    BY <1>1 DEF AbiInit, InFlight, OutputSound, FuelPerCall
  <1> QED BY <1>3, <1>4 DEF SInv

\* What the checks let through lies in the arena and within the limit.
LEMMA VerdictSound ==
    ASSUME NEW p \in Pairs, NEW n \in 0..(Word - 1), NEW size \in Nat
    PROVE  /\ Verdict(p, n, size) \in Results
           /\ Verdict(p, n, size).ok =>
                 /\ Verdict(p, n, size) = Output(p)
                 /\ ArenaPtr(n) <= p.ptr
                 /\ p.ptr + p.len <= ArenaEnd(n)
                 /\ p.ptr + p.len <= size
                 /\ p.len <= MaxOutput
           /\ Verdict(p, n, size) # Failed("fuel")
  <1>1. n \in Nat
    BY AbiAssumption
  <1>2. /\ p.ptr \in Nat /\ p.len \in Nat /\ MaxOutput \in Nat
        /\ ArenaPtr(n) \in Nat /\ ArenaEnd(n) \in Nat
    <2>1. p.ptr \in 0..(Word - 1) /\ p.len \in 0..(Word - 1)
      BY DEF Pairs
    <2>2. ArenaPtr(n) \in Nat /\ ArenaEnd(n) \in Nat
      BY <1>1, LayoutCorrect
    <2> QED BY <2>1, <2>2, AbiAssumption
  <1>3. CASE p.len > MaxOutput \/ p.ptr < ArenaPtr(n) \/ p.ptr + p.len > ArenaEnd(n)
             \/ p.ptr + p.len > size
    <2>1. \E w \in {"output_limit", "outside_arena", "out_of_bounds"} :
             Verdict(p, n, size) = Failed(w)
      BY <1>3 DEF Verdict
    <2>2. PICK w \in {"output_limit", "outside_arena", "out_of_bounds"} :
             Verdict(p, n, size) = Failed(w)
      BY <2>1
    <2>3. w \in Failures /\ w # "fuel"
      BY <2>2 DEF Failures
    <2>4. Failed(w) \in Results /\ ~Failed(w).ok /\ Failed(w) # Failed("fuel")
      BY <2>3, FailedForm
    <2> QED BY <2>2, <2>4
  <1>4. CASE ~(p.len > MaxOutput \/ p.ptr < ArenaPtr(n) \/ p.ptr + p.len > ArenaEnd(n)
               \/ p.ptr + p.len > size)
    <2>1. Verdict(p, n, size) = Output(p)
      BY <1>4 DEF Verdict
    <2>2. Output(p) \in Results /\ Output(p) # Failed("fuel")
      BY OutputForm DEF Failures
    <2> QED BY <2>1, <2>2, <1>4, <1>2
  <1> QED BY <1>3, <1>4

LEMMA AbiNextInv == SInv /\ [AbiNext]_abiVars => SInv'
  <1> SUFFICES ASSUME SInv, [AbiNext]_abiVars PROVE SInv'
    OBVIOUS
  <1> USE DEF SInv
  <1>1. CASE BeginCall
    <2>1. PICK n \in InputLens :
             /\ len' = n
             /\ \/ /\ ArenaEnd(n) > mem
                   /\ result' = Failed("too_small")
                   /\ UNCHANGED <<stage, ret, wrote>>
                \/ /\ ArenaEnd(n) <= mem /\ ArenaPtr(n) >= Word
                   /\ result' = Failed("ptr_overflow")
                   /\ UNCHANGED <<stage, ret, wrote>>
                \/ /\ ArenaEnd(n) <= mem /\ ArenaPtr(n) < Word
                   /\ ret' = NoBytes
                   /\ wrote' = FALSE
                   /\ stage' = "guest"
                   /\ result' = Failed("none_yet")
      BY <1>1 DEF BeginCall
    <2>2. /\ stage = "idle" /\ fuel' = MaxFuel /\ memAtCall' = mem /\ mem' = mem
          /\ need' \in 0..(MaxFuel + 1) /\ n \in 0..(Word - 1)
      BY <1>1, AbiAssumption DEF BeginCall
    <2> /\ result' \in Results /\ ~result'.ok /\ result' # Failed("fuel")
        /\ NoBytes \in Pairs /\ MaxFuel \in Nat
      BY <2>1, FailedForm, AbiAssumption DEF Failures, NoBytes, Pairs
    <2>3. AbiTypeOK'
      <3>1. stage' \in {"idle", "guest", "check"} /\ ret' \in Pairs /\ wrote' \in BOOLEAN
        BY <2>1, <2>2 DEF AbiTypeOK
      <3>2. mem' \in 0..Word /\ memAtCall' \in 0..Word /\ fuel' \in 0..MaxFuel
        BY <2>2 DEF AbiTypeOK
      <3> QED BY <3>1, <3>2, <2>1, <2>2 DEF AbiTypeOK
    <2>4. InFlight'
      BY <2>1, <2>2 DEF InFlight, AbiTypeOK, ArenaEnd, ArenaPtr
    <2>5. OutputSound' /\ FuelPerCall'
      BY DEF OutputSound, FuelPerCall
    <2> QED BY <2>3, <2>4, <2>5
  <1>2. CASE Writes
    <2>1. ret' \in Pairs
      BY <1>2, AbiAssumption DEF Writes, Pairs
    <2>2. result = Failed("none_yet") /\ ~result.ok
      BY <1>2, FailedForm DEF Writes, InFlight, Failures
    <2> QED
      BY <1>2, <2>1, <2>2 DEF Writes, AbiTypeOK, InFlight, OutputSound, FuelPerCall
  <1>3. CASE Grows
    <2>1. /\ stage = "guest" /\ UNCHANGED <<memAtCall, fuel, need, len, ret, wrote>>
          /\ mem' \in 0..Word /\ mem <= mem'
          /\ \/ UNCHANGED <<stage, result>>
             \/ result' = Failed("memory") /\ stage' = "idle"
      BY <1>3, AbiAssumption DEF Grows, AbiTypeOK
    <2> /\ result' \in Results /\ ~result'.ok /\ result' # Failed("fuel")
      BY <2>1, FailedForm DEF Failures, InFlight
    <2>2. AbiTypeOK'
      BY <2>1 DEF AbiTypeOK
    <2>3. InFlight'
      BY <2>1, AbiAssumption DEF InFlight, AbiTypeOK, ArenaEnd, ArenaPtr
    <2>4. OutputSound' /\ FuelPerCall'
      BY DEF OutputSound, FuelPerCall
    <2> QED BY <2>2, <2>3, <2>4
  <1>4. CASE Traps
    <2>1. /\ stage = "guest" /\ stage' = "idle" /\ UNCHANGED <<mem, memAtCall, need, len, ret, wrote>>
          /\ fuel' \in 0..MaxFuel
          /\ \/ result' = Failed("fuel") /\ need > MaxFuel
             \/ result' = Failed("trap")
      BY <1>4, AbiAssumption DEF Traps, AbiTypeOK, InFlight
    <2> /\ result' \in Results /\ ~result'.ok
        /\ result' = Failed("fuel") => need > MaxFuel
      BY <2>1, FailedForm DEF Failures
    <2>2. AbiTypeOK'
      BY <2>1 DEF AbiTypeOK
    <2>3. InFlight' /\ OutputSound' /\ FuelPerCall'
      BY <2>1 DEF InFlight, OutputSound, FuelPerCall
    <2> QED BY <2>2, <2>3
  <1>5. CASE Returns
    <2>1. /\ stage = "guest" /\ stage' = "check" /\ fuel' \in 0..MaxFuel
          /\ UNCHANGED <<mem, memAtCall, need, len, ret, wrote, result>>
      BY <1>5, AbiAssumption DEF Returns, AbiTypeOK
    <2> QED
      BY <2>1 DEF AbiTypeOK, InFlight, OutputSound, FuelPerCall
  <1>6. CASE EndCall
    <2>1. /\ stage = "check" /\ stage' = "idle" /\ result' = Verdict(ret, len, memAtCall)
          /\ UNCHANGED <<mem, memAtCall, fuel, need, len, ret, wrote>>
      BY <1>6 DEF EndCall
    <2>2. /\ ret \in Pairs /\ len \in 0..(Word - 1) /\ len \in Nat
          /\ memAtCall \in Nat /\ mem \in Nat /\ memAtCall <= mem
      BY <2>1, AbiAssumption DEF AbiTypeOK, InFlight
    <2>3. AbiTypeOK'
      BY <2>1, <2>2, VerdictSound DEF AbiTypeOK
    <2>4. OutputSound'
      <3>1. ASSUME result'.ok
            PROVE  /\ result' = Output(ret) /\ ArenaPtr(len) <= ret.ptr
                   /\ ret.ptr + ret.len <= ArenaEnd(len)
                   /\ ret.ptr + ret.len <= memAtCall /\ ret.len <= MaxOutput
        BY <3>1, <2>1, <2>2, VerdictSound
      <3>2. ASSUME result'.ok PROVE wrote
        <4>1. 8 <= ArenaPtr(len) /\ ArenaPtr(len) \in Nat /\ ret.ptr \in Nat
          BY <2>2, LayoutCorrect DEF Pairs
        <4>2. ret # NoBytes
          BY <3>1, <3>2, <4>1 DEF NoBytes
        <4> QED BY <4>2, <2>1 DEF InFlight
      <3>3. ret.ptr \in Nat /\ ret.len \in Nat
        BY <2>2 DEF Pairs
      <3> QED
        BY <3>1, <3>2, <3>3, <2>1, <2>2 DEF OutputSound, Output, ArenaEnd, ArenaPtr
    <2>5. FuelPerCall'
      BY <2>1, <2>2, VerdictSound DEF FuelPerCall
    <2> QED BY <2>1, <2>3, <2>4, <2>5 DEF InFlight
  <1>7. CASE UNCHANGED abiVars
    BY <1>7 DEF abiVars, AbiTypeOK, InFlight, OutputSound, FuelPerCall
  <1> QED BY <1>1, <1>2, <1>3, <1>4, <1>5, <1>6, <1>7 DEF AbiNext

THEOREM AbiInductive == AbiSpec => []SInv
  BY AbiInitInv, AbiNextInv, PTL DEF AbiSpec

\* The variables keep their shape.
THEOREM AbiTypeCorrect == AbiSpec => []AbiTypeOK
  BY AbiInductive, PTL DEF SInv

\* While a guest runs, the return slot, the input and the arena are disjoint,
\* above its static data and inside its memory.
THEOREM RegionsCorrect == AbiSpec => []RegionsDisjoint
  <1>1. SInv => RegionsDisjoint
    <2> SUFFICES ASSUME SInv, stage # "idle"
                 PROVE  /\ HeapBase <= RetPtr /\ DataEnd <= RetPtr
                        /\ RetPtr + 8 <= InputPtr
                        /\ InputPtr + len <= ArenaPtr(len)
                        /\ ArenaEnd(len) <= mem
                        /\ RetPtr % 8 = 0 /\ InputPtr % 8 = 0 /\ ArenaPtr(len) % 8 = 0
      BY DEF RegionsDisjoint
    <2>1. len \in Nat /\ memAtCall \in Nat /\ mem \in Nat
      BY AbiAssumption DEF SInv, AbiTypeOK
    <2>2. ArenaEnd(len) <= memAtCall /\ memAtCall <= mem /\ ArenaEnd(len) \in Nat
      BY <2>1, LayoutCorrect DEF SInv, InFlight
    <2> QED BY <2>1, <2>2, LayoutCorrect
  <1> QED BY <1>1, AbiInductive, PTL

\* No guest can make the host read outside its arena, return more than the
\* limit, or hand out what an earlier call left behind.
THEOREM OutputCorrect == AbiSpec => []OutputSound
  BY AbiInductive, PTL DEF SInv

\* Fuel spent by one call is never missing from a later one.
THEOREM FuelCorrect == AbiSpec => []FuelPerCall
  BY AbiInductive, PTL DEF SInv

-----------------------------------------------------------------------------
(* Readings: CapsEvidence.                                                 *)

\* What a guest can ask for, and what it was answered.
Entries == {e \in [src : Streams \cup {"seed", "outside"}, n : Nat, answer : Seq(Values), short : BOOLEAN] :
               Len(e.answer) = e.n}

SameRead(e, f) == e.src = f.src /\ e.n = f.n /\ e.answer = f.answer

SameUpTo(h, g, k) == \A i \in 1..k : SameRead(h[i], g[i])

\* What the variables allow each other.
Shape ==
    /\ TypeOK
    /\ caps \in Profiles /\ sameGuest \in BOOLEAN /\ cut \in BOOLEAN
    /\ DOMAIN evidence = Streams \cup {"seed"} /\ DOMAIN at = Streams
    /\ hist \in Seq(Entries) /\ recorded \in Seq(Entries)
    /\ pc = "build" => hist = <<>>
    /\ run = "record" /\ pc \in {"ended", "stopped"} => recorded = hist
    /\ caps.random = "record" /\ pc = "guest" => seed = evidence.seed

\* Of a recorded run: every answer was given in full, and the seed is that of
\* the evidence.
Faithful(h) ==
    /\ \A i \in 1..Len(h) : ~h[i].short
    /\ caps.random = "record" => \A i \in 1..Len(h) : h[i].src = "seed" => h[i].answer = <<evidence.seed>>

Kept ==
    /\ run = "record" => Faithful(hist) /\ EvidenceComplete
    /\ run = "replay" => Faithful(recorded) /\ ReplayFromEvidence

\* The same guest is where the recorded one was after as many reads, or beyond
\* the end of a run that was cut off.
Following ==
    /\ Len(hist) <= Len(recorded) /\ SameUpTo(hist, recorded, Len(hist))
    /\ errors = {}
    /\ \A s \in Streams :
          \E d \in [0..Len(recorded) -> 0..Len(evidence[s])] :
             Offsets(d, recorded, s, evidence[s], Len(evidence[s])) /\ at[s] = d[Len(hist)]

Beyond == cut /\ Len(recorded) < Len(hist) /\ SameUpTo(hist, recorded, Len(recorded))

Same ==
    /\ run = "replay" /\ sameGuest
    /\ caps = [clocks |-> "record", random |-> "record"]
    /\ ~\E i \in DOMAIN recorded : recorded[i].src = "outside"
    => Following \/ Beyond

EvInv == Shape /\ Kept /\ Same

-----------------------------------------------------------------------------
\* A read is answered: what it was given is appended, and no more is known.
LEMMA AnsweredFacts ==
    ASSUME Shape, NEW op \in Reads, NEW a \in Bytes(op.n), NEW b \in BOOLEAN, Answered(op, a, b)
    PROVE  LET e == [src |-> op.src, n |-> op.n, answer |-> a, short |-> b] IN
           /\ e \in Entries /\ hist' \in Seq(Entries) /\ Len(hist') = Len(hist) + 1
           /\ \A i \in 1..Len(hist) : hist'[i] = hist[i]
           /\ hist'[Len(hist) + 1] = e
  <1> DEFINE e == [src |-> op.src, n |-> op.n, answer |-> a, short |-> b]
  <1>1. op.n \in Nat /\ op.src \in Streams \cup {"seed", "outside"}
    <2>1. CASE op \in [src : Clocks \cup {"seed", "outside"}, n : {1}]
      BY <2>1 DEF Streams
    <2>2. CASE op \in [src : Randoms, n : Lens]
      BY <2>2, ConstantsAssumption DEF Streams
    <2> QED BY <2>1, <2>2 DEF Reads
  <1>2. a \in Seq(Values) /\ Len(a) = op.n
    BY <1>1 DEF Bytes
  <1>3. e \in Entries
    BY <1>1, <1>2 DEF Entries
  <1>4. hist' = Append(hist, e) /\ hist \in Seq(Entries)
    BY DEF Answered, Shape
  <1> HIDE DEF e
  <1>5. /\ hist' \in Seq(Entries) /\ Len(hist') = Len(hist) + 1
        /\ \A i \in 1..Len(hist) : hist'[i] = hist[i]
        /\ hist'[Len(hist) + 1] = e
    BY <1>3, <1>4, AppendProperties
  <1> QED BY <1>3, <1>5 DEF e

\* A sequence that was extended begins as before.
Extends(g, h) == Len(g) = Len(h) + 1 /\ \A i \in 1..Len(h) : g[i] = h[i]

\* Where one read has been answered from.
Placed(e, s, x, from, to) ==
    IF e.src = s /\ ~e.short
      THEN /\ to = from + e.n
           /\ \A j \in 1..e.n : e.answer[j] = x[from + j]
      ELSE to = from

LEMMA OffsetsPlaced ==
    ASSUME NEW c, NEW h, NEW s, NEW x, NEW k
    PROVE  Offsets(c, h, s, x, k) <=>
              /\ c[0] = 0 /\ c[Len(h)] = k
              /\ \A i \in 1..Len(h) : Placed(h[i], s, x, c[i - 1], c[i])
  BY DEF Offsets, Placed

\* One more read moves a stream on by what it was given, or not at all.
LEMMA GivenMore ==
    ASSUME NEW h, Len(h) \in Nat, NEW g, Extends(g, h), NEW s, NEW x, NEW k \in Nat, NEW m \in Nat, k <= m,
           Given(h, s, x, k), Placed(g[Len(h) + 1], s, x, k, m)
    PROVE  Given(g, s, x, m)
  <1>1. PICK c \in [0..Len(h) -> 0..k] : Offsets(c, h, s, x, k)
    BY DEF Given
  <1>2. /\ c[0] = 0 /\ c[Len(h)] = k
        /\ \A i \in 1..Len(h) : Placed(h[i], s, x, c[i - 1], c[i])
    BY <1>1, OffsetsPlaced
  <1> DEFINE d == [i \in 0..Len(g) |-> IF i <= Len(h) THEN c[i] ELSE m]
  <1>3. Len(g) = Len(h) + 1 /\ \A i \in 1..Len(h) : g[i] = h[i]
    BY DEF Extends
  <1>4. d \in [0..Len(g) -> 0..m]
    BY <1>3
  <1>5. (\A i \in 0..Len(h) : d[i] = c[i]) /\ d[Len(h) + 1] = m
    BY <1>3
  <1> HIDE DEF d
  <1>6. ASSUME NEW i \in 1..Len(g) PROVE Placed(g[i], s, x, d[i - 1], d[i])
    <2>1. CASE i \in 1..Len(h)
      <3>1. d[i] = c[i] /\ d[i - 1] = c[i - 1] /\ g[i] = h[i]
        BY <1>3, <1>5, <2>1
      <3> QED BY <1>2, <2>1, <3>1
    <2>2. CASE i = Len(h) + 1
      <3>1. d[i] = m /\ d[i - 1] = k
        BY <1>2, <1>5, <2>2
      <3> QED BY <2>2, <3>1
    <2> QED BY <1>3, <2>1, <2>2
  <1>7. d[0] = 0 /\ d[Len(g)] = m
    BY <1>2, <1>3, <1>5
  <1>8. Offsets(d, g, s, x, m)
    BY <1>6, <1>7, OffsetsPlaced
  <1> QED BY <1>4, <1>8 DEF Given

\* A read of something else leaves a stream where it was.
LEMMA GivenOther ==
    ASSUME NEW h, Len(h) \in Nat, NEW g, Extends(g, h), NEW s, NEW x, NEW k \in Nat, Given(h, s, x, k),
           ~(g[Len(h) + 1].src = s /\ ~g[Len(h) + 1].short)
    PROVE  Given(g, s, x, k)
  <1>1. Placed(g[Len(h) + 1], s, x, k, k)
    BY DEF Placed
  <1> QED BY <1>1, GivenMore

\* What was given depends on the part of a stream it was taken from only.
LEMMA GivenSame ==
    ASSUME NEW h, Len(h) \in Nat, NEW s, NEW x, NEW y, NEW k \in Nat, Given(h, s, x, k),
           \A j \in 1..k : y[j] = x[j],
           \A i \in 1..Len(h) : h[i].n \in Nat
    PROVE  Given(h, s, y, k)
  <1>1. PICK c \in [0..Len(h) -> 0..k] : Offsets(c, h, s, x, k)
    BY DEF Given
  <1>2. ASSUME NEW i \in 1..Len(h) PROVE Placed(h[i], s, y, c[i - 1], c[i])
    <2> DEFINE e == h[i]
               from == c[i - 1]
               to == c[i]
    <2>1. Placed(e, s, x, from, to) /\ e.n \in Nat
      BY <1>1, OffsetsPlaced
    <2>2. from \in 0..k /\ to \in 0..k
      <3>1. i \in 0..Len(h) /\ i - 1 \in 0..Len(h)
        BY <1>2
      <3> QED BY <3>1
    <2> HIDE DEF e, from, to
    <2>3. ASSUME e.src = s /\ ~e.short, NEW j \in 1..e.n PROVE e.answer[j] = y[from + j]
      <3>1. to = from + e.n /\ e.answer[j] = x[from + j]
        BY <2>1, <2>3 DEF Placed
      <3>2. from + j \in 1..k
        BY <2>1, <2>2, <3>1
      <3> QED BY <3>1, <3>2
    <2>4. Placed(e, s, y, from, to)
      BY <2>1, <2>3 DEF Placed
    <2> QED BY <2>4 DEF e, from, to
  <1>3. c[0] = 0 /\ c[Len(h)] = k
    BY <1>1, OffsetsPlaced
  <1> QED BY <1>1, <1>2, <1>3, OffsetsPlaced DEF Given

\* A prefix of what a guest has seen is one read by read.
LEMMA PrefixFacts ==
    ASSUME NEW h \in Seq(Entries), NEW g \in Seq(Entries)
    PROVE  IsPrefix(Seen(h), Seen(g)) <=> Len(h) <= Len(g) /\ SameUpTo(h, g, Len(h))
  <1> DEFINE H == Seen(h)
             G == Seen(g)
             E == [src : Streams \cup {"seed", "outside"}, n : Nat, answer : Seq(Values)]
  <1>1. /\ H \in Seq(E) /\ Len(H) = Len(h)
        /\ \A i \in 1..Len(h) : H[i] = [src |-> h[i].src, n |-> h[i].n, answer |-> h[i].answer]
    <2>1. DOMAIN h = 1..Len(h) /\ Len(h) \in Nat
      OBVIOUS
    <2>2. H \in [1..Len(h) -> E]
      BY <2>1 DEF Seen, Entries
    <2> QED BY <2>1, <2>2, IsASeq DEF Seen
  <1>2. /\ G \in Seq(E) /\ Len(G) = Len(g)
        /\ \A i \in 1..Len(g) : G[i] = [src |-> g[i].src, n |-> g[i].n, answer |-> g[i].answer]
    <2>1. DOMAIN g = 1..Len(g) /\ Len(g) \in Nat
      OBVIOUS
    <2>2. G \in [1..Len(g) -> E]
      BY <2>1 DEF Seen, Entries
    <2> QED BY <2>1, <2>2, IsASeq DEF Seen
  <1> HIDE DEF H, G, E
  <1>3. Len(h) \in Nat /\ Len(g) \in Nat
    OBVIOUS
  <1>4. CASE Len(h) <= Len(g)
    <2>1. /\ Len(SubSeq(H, 1, Len(h))) = Len(h) /\ SubSeq(H, 1, Len(h)) \in Seq(E)
          /\ \A i \in 1..Len(h) : SubSeq(H, 1, Len(h))[i] = H[i]
      BY <1>1, <1>3, SubSeqProperties
    <2>2. /\ Len(SubSeq(G, 1, Len(h))) = Len(h) /\ SubSeq(G, 1, Len(h)) \in Seq(E)
          /\ \A i \in 1..Len(h) : SubSeq(G, 1, Len(h))[i] = G[i]
      BY <1>2, <1>3, <1>4, SubSeqProperties
    <2>3. SubSeq(H, 1, Len(h)) = SubSeq(G, 1, Len(h)) <=> (\A i \in 1..Len(h) : H[i] = G[i])
      BY <2>1, <2>2, SeqEqual
    <2>4. \A i \in 1..Len(h) : (H[i] = G[i]) <=> SameRead(h[i], g[i])
      <3> SUFFICES ASSUME NEW i \in 1..Len(h)
                   PROVE  H[i] = G[i] <=> SameRead(h[i], g[i])
        OBVIOUS
      <3>1. H[i] = [src |-> h[i].src, n |-> h[i].n, answer |-> h[i].answer]
        BY <1>1
      <3>2. G[i] = [src |-> g[i].src, n |-> g[i].n, answer |-> g[i].answer]
        BY <1>2, <1>3, <1>4
      <3> QED BY <3>1, <3>2 DEF SameRead
    <2>5. IsPrefix(H, G) <=> SubSeq(H, 1, Len(h)) = SubSeq(G, 1, Len(h))
      BY <1>1, <1>2, <1>4 DEF IsPrefix
    <2> QED BY <1>4, <2>3, <2>4, <2>5 DEF SameUpTo, H, G
  <1>5. CASE ~(Len(h) <= Len(g))
    BY <1>1, <1>2, <1>5 DEF IsPrefix, H, G
  <1> QED BY <1>4, <1>5

\* Nothing is given to nobody.
LEMMA GivenNone == \A s, x : Given(<<>>, s, x, 0)
  <1> SUFFICES ASSUME NEW s, NEW x PROVE Given(<<>>, s, x, 0)
    OBVIOUS
  <1> DEFINE c == [i \in 0..0 |-> 0]
  <1>1. Len(<<>>) = 0
    OBVIOUS
  <1>2. c \in [0..0 -> 0..0] /\ c[0] = 0
    OBVIOUS
  <1>3. Offsets(c, <<>>, s, x, 0)
    BY <1>1, <1>2 DEF Offsets
  <1> QED BY <1>1, <1>2, <1>3 DEF Given

\* The four ways in which a read is answered: on the record, from it, with
\* zeros because it has come to its end, or from elsewhere.
Recorded(op, a) ==
    /\ op.src \in Streams /\ ModeOf(op.src) = "record" /\ run = "record"
    /\ evidence' = [evidence EXCEPT ![op.src] = @ \o a]
    /\ UNCHANGED <<at, errors>>

Replayed(op, a) ==
    /\ op.src \in Streams /\ ModeOf(op.src) = "record" /\ run = "replay"
    /\ at[op.src] + op.n <= Len(evidence[op.src])
    /\ \A j \in 1..op.n : a[j] = evidence[op.src][at[op.src] + j]
    /\ at' = [at EXCEPT ![op.src] = at[op.src] + op.n]
    /\ UNCHANGED <<evidence, errors>>

Missing(op) ==
    /\ op.src \in Streams /\ ModeOf(op.src) = "record" /\ run = "replay"
    /\ ~(at[op.src] + op.n <= Len(evidence[op.src]))
    /\ at' = [at EXCEPT ![op.src] = at[op.src]]
    /\ errors' = errors \cup {op.src}
    /\ UNCHANGED evidence

Elsewhere(op, a) ==
    /\ \/ op.src = "seed" /\ a = <<seed>>
       \/ op.src = "outside"
       \/ op.src \in Streams /\ ModeOf(op.src) # "record"
    /\ UNCHANGED <<evidence, at, errors>>

LEMMA ReadFacts ==
    ASSUME EvInv, Read
    PROVE  /\ pc = "guest" /\ UNCHANGED <<caps, sameGuest, run, pc, seed, recorded, cut>>
           /\ \E op \in Reads : \E a \in Bytes(op.n), b \in BOOLEAN :
                 /\ MayRead(op) /\ Answered(op, a, b)
                 /\ \/ ~b /\ Recorded(op, a)
                    \/ ~b /\ Replayed(op, a)
                    \/ b /\ Missing(op)
                    \/ ~b /\ Elsewhere(op, a)
  <1>1. pc = "guest" /\ UNCHANGED <<caps, sameGuest, run, pc, seed, recorded, cut>>
    BY DEF Read
  <1>2. PICK op \in Reads : MayRead(op) /\ (ReadRecording(op) \/ ReadReplaying(op) \/ ReadUnrecorded(op))
    BY DEF Read
  <1> DEFINE Way(a, b) == \/ ~b /\ Recorded(op, a)
                          \/ ~b /\ Replayed(op, a)
                          \/ b /\ Missing(op)
                          \/ ~b /\ Elsewhere(op, a)
  <1>3. op.n \in Nat /\ (op.src \in {"seed", "outside"} => op.n = 1)
    <2>1. CASE op \in [src : Clocks \cup {"seed", "outside"}, n : {1}]
      BY <2>1
    <2>2. CASE op \in [src : Randoms, n : Lens]
      BY <2>2, ConstantsAssumption DEF Randoms
    <2> QED BY <2>1, <2>2 DEF Reads
  <1>4. Zeros(op.n) \in Bytes(op.n)
    BY ConstantsAssumption DEF Zeros, Bytes
  <1>5. CASE ReadRecording(op)
    <2>1. PICK a \in Bytes(op.n) : evidence' = [evidence EXCEPT ![op.src] = @ \o a] /\ Answered(op, a, FALSE)
      BY <1>5 DEF ReadRecording
    <2>2. Recorded(op, a)
      BY <1>5, <2>1 DEF ReadRecording, Recorded
    <2> QED BY <1>1, <1>2, <2>1, <2>2
  <1>6. CASE ReadReplaying(op)
    <2> DEFINE s == op.src
               t == Take(s, op.n)
    <2>1. /\ s \in Streams /\ ModeOf(s) = "record" /\ run = "replay"
          /\ Answered(op, t.answer, t.short) /\ at' = [at EXCEPT ![s] = t.next]
          /\ errors' = IF t.short THEN errors \cup {s} ELSE errors
          /\ UNCHANGED evidence
      BY <1>6 DEF ReadReplaying
    <2>2. evidence[s] \in Seq(Values) /\ at[s] \in 0..Len(evidence[s])
      BY <2>1 DEF EvInv, Shape, TypeOK
    <2>3. CASE at[s] + op.n <= Len(evidence[s])
      <3> DEFINE a == SubSeq(evidence[s], at[s] + 1, at[s] + op.n)
      <3>1. t.answer = a /\ t.next = at[s] + op.n /\ t.short = FALSE
        BY <2>3 DEF Take
      <3>2. at[s] \in Nat /\ Len(evidence[s]) \in Nat
        BY <2>2
      <3>3. \A i \in (at[s] + 1) .. (at[s] + op.n) : evidence[s][i] \in Values
        BY <1>3, <2>2, <2>3, <3>2
      <3>4. /\ a \in Seq(Values)
            /\ Len(a) = IF at[s] + 1 <= at[s] + op.n THEN (at[s] + op.n) - (at[s] + 1) + 1 ELSE 0
            /\ \A i \in 1 .. ((at[s] + op.n) - (at[s] + 1) + 1) : a[i] = evidence[s][(at[s] + 1) + i - 1]
        <4>1. at[s] + 1 \in Int /\ at[s] + op.n \in Int
          BY <1>3, <3>2
        <4> QED BY <3>3, <4>1, SubSeqProperties
      <3> HIDE DEF a
      <3>5. Len(a) = op.n /\ \A j \in 1..op.n : a[j] = evidence[s][at[s] + j]
        <4>1. (at[s] + op.n) - (at[s] + 1) + 1 = op.n /\ (at[s] + 1 <= at[s] + op.n <=> op.n # 0)
          BY <1>3, <3>2
        <4>2. \A j \in 1..op.n : (at[s] + 1) + j - 1 = at[s] + j
          BY <1>3, <3>2
        <4> QED BY <3>4, <4>1, <4>2
      <3>6. a \in Bytes(op.n)
        BY <3>4, <3>5 DEF Bytes
      <3>7. Replayed(op, a)
        BY <2>1, <2>3, <3>1, <3>5 DEF Replayed
      <3> QED BY <1>1, <1>2, <2>1, <3>1, <3>6, <3>7
    <2>4. CASE ~(at[s] + op.n <= Len(evidence[s]))
      <3>1. t.answer = Zeros(op.n) /\ t.next = at[s] /\ t.short = TRUE
        BY <2>4 DEF Take
      <3>2. Missing(op)
        BY <2>1, <2>4, <3>1 DEF Missing
      <3> QED BY <1>1, <1>2, <1>4, <2>1, <3>1, <3>2
    <2> QED BY <2>3, <2>4
  <1>7. CASE ReadUnrecorded(op)
    <2>1. PICK a \in Bytes(op.n) :
             /\ Answered(op, a, FALSE)
             /\ \/ op.src = "seed" /\ a = <<seed>>
                \/ op.src = "outside"
                \/ op.src \in Streams /\ ModeOf(op.src) # "record"
      <3>1. op.src = "seed" => <<seed>> \in Bytes(op.n)
        BY <1>3 DEF EvInv, Shape, TypeOK, Bytes
      <3>2. op.src = "outside" => Bytes(1) = Bytes(op.n)
        BY <1>3
      <3> QED BY <1>4, <1>7, <3>1, <3>2 DEF ReadUnrecorded
    <2>2. Elsewhere(op, a)
      BY <1>7, <2>1 DEF ReadUnrecorded, Elsewhere
    <2> QED BY <1>1, <1>2, <2>1, <2>2
  <1> QED BY <1>2, <1>5, <1>6, <1>7

\* Before the first read nothing has been given.
LEMMA EvInitInv == Init => EvInv
  <1> SUFFICES ASSUME Init PROVE EvInv
    OBVIOUS
  <1>1. \A s \in Streams : evidence[s] = <<>> /\ at[s] = 0
    BY DEF Init, Streams, Clocks, Randoms
  <1>2. TypeOK
    <2>1. \A s \in Streams : evidence[s] \in Seq(Values) /\ at[s] \in 0..Len(evidence[s])
      <3>1. <<>> \in Seq(Values) /\ 0 \in 0..Len(<<>>)
        OBVIOUS
      <3> QED BY <1>1, <3>1
    <2>2. seed \in Values /\ evidence.seed \in Values
      BY ConstantsAssumption DEF Init
    <2> QED BY <2>1, <2>2 DEF Init, TypeOK
  <1>3. Shape
    <2>1. DOMAIN evidence = Streams \cup {"seed"}
      BY DEF Init, Streams, Clocks, Randoms
    <2>2. hist \in Seq(Entries) /\ recorded \in Seq(Entries)
      BY DEF Init
    <2> QED BY <1>2, <2>1, <2>2 DEF Init, Shape
  <1>4. Faithful(hist)
    BY DEF Init, Faithful
  <1>5. EvidenceComplete
    BY <1>1, GivenNone DEF Init, EvidenceComplete
  <1> QED BY <1>3, <1>4, <1>5 DEF Init, EvInv, Kept, Same

\* A step that moves no history and no stream disturbs the shape only.
LEMMA Unmoved ==
    ASSUME EvInv, Shape', \A s \in Streams : evidence'[s] = evidence[s],
           evidence'.seed = evidence.seed \/ (hist = <<>> /\ run = "record"),
           UNCHANGED <<caps, sameGuest, run, at, errors, hist>>,
           run = "replay" => UNCHANGED <<recorded, cut>>
    PROVE  EvInv'
  <1>1. \A s \in Streams : ModeOf(s)' = ModeOf(s)
    BY DEF ModeOf
  <1>2. Faithful(hist) => Faithful(hist)'
    BY DEF Faithful
  <1>3. run = "replay" /\ Faithful(recorded) => Faithful(recorded)'
    BY DEF Faithful
  <1>4. EvidenceComplete => EvidenceComplete'
    BY <1>1 DEF EvidenceComplete
  <1>5. run = "replay" /\ ReplayFromEvidence => ReplayFromEvidence'
    BY <1>1 DEF ReplayFromEvidence
  <1>6. Kept'
    BY <1>2, <1>3, <1>4, <1>5 DEF EvInv, Kept
  <1>7. Same'
    <2>1. run = "replay" /\ Following => Following'
      BY DEF Following, SameUpTo, SameRead
    <2>2. run = "replay" /\ Beyond => Beyond'
      BY DEF Beyond, SameUpTo, SameRead
    <2> QED BY <2>1, <2>2 DEF EvInv, Same
  <1> QED BY <1>6, <1>7 DEF EvInv

LEMMA BuildInv == EvInv /\ Build => EvInv'
  <1> SUFFICES ASSUME EvInv, Build PROVE EvInv'
    OBVIOUS
  <1>1. /\ pc = "build" /\ pc' = "guest" /\ hist = <<>>
        /\ UNCHANGED <<caps, sameGuest, run, at, errors, hist, recorded, cut>>
    BY DEF Build, EvInv, Shape
  <1>2. /\ seed' \in Values /\ evidence'.seed \in Values
        /\ DOMAIN evidence' = Streams \cup {"seed"}
        /\ \A s \in Streams : evidence'[s] = evidence[s]
        /\ caps.random = "record" => seed' = evidence'.seed
        /\ run = "replay" => evidence'.seed = evidence.seed
    <2>1. "seed" \notin Streams
      BY DEF Streams, Clocks, Randoms
    <2>2. DOMAIN evidence = Streams \cup {"seed"} /\ evidence.seed \in Values /\ 0 \in Values
      BY ConstantsAssumption DEF EvInv, Shape, TypeOK
    <2>3. caps \in [clocks : {"deny", "record", "allow"}, random : {"deny", "record", "allow"}]
      BY ConstantsAssumption DEF EvInv, Shape
    <2>4. run \in {"record", "replay"}
      BY DEF EvInv, Shape, TypeOK
    <2>5. CASE UNCHANGED evidence /\ seed' \in Values /\ caps.random # "record"
      BY <2>2, <2>5
    <2>6. CASE run = "record" /\ seed' \in Values /\ evidence' = [evidence EXCEPT !.seed = seed']
      BY <2>1, <2>2, <2>6
    <2>7. CASE run = "replay" /\ seed' = evidence.seed /\ UNCHANGED evidence
      BY <2>2, <2>7
    <2> QED BY <1>1, <2>2, <2>3, <2>4, <2>5, <2>6, <2>7 DEF Build, BuildSeed
  <1>3. Shape'
    BY <1>1, <1>2 DEF EvInv, Shape, TypeOK
  <1>4. run \in {"record", "replay"}
    BY DEF EvInv, Shape, TypeOK
  <1> QED BY <1>1, <1>2, <1>3, <1>4, Unmoved

LEMMA BuildRefusedInv == EvInv /\ BuildRefused => EvInv'
  <1> SUFFICES ASSUME EvInv, BuildRefused PROVE EvInv'
    OBVIOUS
  <1>1. hist = <<>> /\ pc' = "ended" /\ UNCHANGED <<caps, sameGuest, run, evidence, at, errors, seed, hist>>
    BY DEF BuildRefused, EvInv, Shape
  <1>2. recorded' \in Seq(Entries) /\ cut' \in BOOLEAN /\ (run = "record" => recorded' = hist)
    BY <1>1 DEF BuildRefused, EvInv, Shape
  <1>3. run = "replay" => UNCHANGED <<recorded, cut>>
    BY DEF BuildRefused
  <1>4. Shape'
    BY <1>1, <1>2 DEF EvInv, Shape, TypeOK
  <1> QED BY <1>1, <1>3, <1>4, Unmoved

LEMMA EndGuestInv == EvInv /\ EndGuest => EvInv'
  <1> SUFFICES ASSUME EvInv, EndGuest PROVE EvInv'
    OBVIOUS
  <1>1. pc' = "ended" /\ UNCHANGED <<caps, sameGuest, run, evidence, at, errors, seed, hist>>
    BY DEF EndGuest
  <1>2. recorded' \in Seq(Entries) /\ cut' \in BOOLEAN /\ (run = "record" => recorded' = hist)
    BY DEF EndGuest, EvInv, Shape
  <1>3. run = "replay" => UNCHANGED <<recorded, cut>>
    BY DEF EndGuest
  <1>4. Shape'
    BY <1>1, <1>2 DEF EvInv, Shape, TypeOK
  <1> QED BY <1>1, <1>3, <1>4, Unmoved

LEMMA StopInv == EvInv /\ (Stop \/ UNCHANGED vars) => EvInv'
  <1> SUFFICES ASSUME EvInv, Stop \/ UNCHANGED vars PROVE EvInv'
    OBVIOUS
  <1>1. /\ UNCHANGED <<caps, sameGuest, run, evidence, at, errors, seed, hist, recorded, cut>>
        /\ pc' = pc \/ (pc = "ended" /\ pc' = "stopped")
    BY DEF Stop, vars
  <1>2. Shape'
    BY <1>1 DEF EvInv, Shape, TypeOK
  <1> QED BY <1>1, <1>2, Unmoved

\* The replay starts with what was written, at its beginning.
LEMMA ReloadInv == EvInv /\ Reload => EvInv'
  <1> SUFFICES ASSUME EvInv, Reload PROVE EvInv'
    OBVIOUS
  <1>1. /\ run = "record" /\ pc = "ended" /\ run' = "replay" /\ pc' = "build"
        /\ at' = [s \in Streams |-> 0] /\ errors' = {} /\ hist' = <<>>
        /\ recorded = hist
        /\ UNCHANGED <<caps, sameGuest, evidence, seed, recorded, cut>>
    BY DEF Reload, EvInv, Shape
  <1>2. Shape'
    <2>1. \A s \in Streams : evidence[s] \in Seq(Values) /\ 0 \in 0..Len(evidence[s])
      BY DEF EvInv, Shape, TypeOK
    <2> QED BY <1>1, <2>1 DEF EvInv, Shape, TypeOK
  <1>3. \A s \in Streams : ModeOf(s)' = ModeOf(s)
    BY <1>1 DEF ModeOf
  <1>4. Faithful(recorded)'
    BY <1>1 DEF EvInv, Kept, Faithful
  <1>5. \A s \in Streams : ModeOf(s) = "record" => Given(recorded, s, evidence[s], Len(evidence[s]))
    BY <1>1 DEF EvInv, Kept, EvidenceComplete
  <1>6. ReplayFromEvidence'
    BY <1>1, <1>3, <1>5, GivenNone DEF ReplayFromEvidence
  <1>7. Same'
    <2> SUFFICES ASSUME caps = [clocks |-> "record", random |-> "record"] PROVE Following'
      BY <1>1 DEF Same
    <2>1. \A s \in Streams : ModeOf(s) = "record"
      BY DEF ModeOf
    <2>2. ASSUME NEW s \in Streams
          PROVE  \E d \in [0..Len(recorded) -> 0..Len(evidence[s])] :
                    Offsets(d, recorded, s, evidence[s], Len(evidence[s])) /\ at'[s] = d[0]
      <3>1. PICK d \in [0..Len(recorded) -> 0..Len(evidence[s])] :
               Offsets(d, recorded, s, evidence[s], Len(evidence[s]))
        BY <1>5, <2>1 DEF Given
      <3>2. d[0] = 0
        BY <3>1 DEF Offsets
      <3> QED BY <1>1, <3>1, <3>2
    <2>3. Len(hist') = 0 /\ Len(recorded) \in Nat
      BY <1>1 DEF EvInv, Shape
    <2>4. SameUpTo(hist', recorded, Len(hist'))
      BY <2>3 DEF SameUpTo
    <2> QED BY <1>1, <2>2, <2>3, <2>4 DEF Following
  <1> QED BY <1>2, <1>1, <1>4, <1>6, <1>7 DEF EvInv, Kept

\* A read is answered in one of the four ways.
Answering(op, a, b) ==
    /\ op \in Reads /\ a \in Bytes(op.n) /\ b \in BOOLEAN
    /\ MayRead(op) /\ Answered(op, a, b)
    /\ \/ ~b /\ Recorded(op, a)
       \/ ~b /\ Replayed(op, a)
       \/ b /\ Missing(op)
       \/ ~b /\ Elsewhere(op, a)
    /\ pc = "guest" /\ UNCHANGED <<caps, sameGuest, run, pc, seed, recorded, cut>>

\* A stream grows by what it gave, and the seed stays what it was.
LEMMA StreamFacts ==
    ASSUME EvInv, NEW op, NEW a, NEW b, Answering(op, a, b)
    PROVE  /\ op.n \in Nat /\ a \in Seq(Values) /\ Len(a) = op.n
           /\ \A s \in Streams :
                 /\ evidence'[s] \in Seq(Values) /\ at'[s] \in 0..Len(evidence'[s])
                 /\ s # op.src => evidence'[s] = evidence[s] /\ at'[s] = at[s]
           /\ op.src \in Streams /\ Recorded(op, a) =>
                 /\ Len(evidence'[op.src]) = Len(evidence[op.src]) + op.n
                 /\ \A j \in 1..Len(evidence[op.src]) : evidence'[op.src][j] = evidence[op.src][j]
                 /\ \A j \in 1..op.n : evidence'[op.src][Len(evidence[op.src]) + j] = a[j]
           /\ ~Recorded(op, a) => UNCHANGED evidence
           /\ ~Replayed(op, a) => \A s \in Streams : at'[s] = at[s]
           /\ evidence'.seed = evidence.seed
           /\ DOMAIN evidence' = Streams \cup {"seed"} /\ DOMAIN at' = Streams
  <1>1. op.n \in Nat /\ a \in Seq(Values) /\ Len(a) = op.n
    <2>1. op \in Reads /\ a \in Bytes(op.n)
      BY DEF Answering
    <2>2. op.n \in Nat
      <3>1. CASE op \in [src : Clocks \cup {"seed", "outside"}, n : {1}]
        BY <3>1
      <3>2. CASE op \in [src : Randoms, n : Lens]
        BY <3>2, ConstantsAssumption
      <3> QED BY <2>1, <3>1, <3>2 DEF Reads
    <2> QED BY <2>1, <2>2 DEF Bytes
  <1>2. /\ \A s \in Streams : evidence[s] \in Seq(Values) /\ at[s] \in 0..Len(evidence[s])
        /\ DOMAIN evidence = Streams \cup {"seed"} /\ DOMAIN at = Streams
    BY DEF EvInv, Shape, TypeOK
  <1>3. "seed" \notin Streams
    BY DEF Streams, Clocks, Randoms
  <1>4. CASE Recorded(op, a)
    <2> DEFINE s == op.src
    <2>1. s \in Streams /\ evidence' = [evidence EXCEPT ![s] = evidence[s] \o a] /\ UNCHANGED <<at, errors>>
      BY <1>4 DEF Recorded
    <2>2. evidence'[s] = evidence[s] \o a /\ \A r \in Streams \cup {"seed"} : r # s => evidence'[r] = evidence[r]
      BY <1>2, <2>1
    <2>3. /\ evidence[s] \o a \in Seq(Values)
          /\ Len(evidence[s] \o a) = Len(evidence[s]) + op.n
          /\ \A j \in 1..(Len(evidence[s]) + op.n) :
                (evidence[s] \o a)[j] = IF j <= Len(evidence[s]) THEN evidence[s][j] ELSE a[j - Len(evidence[s])]
      <3> DEFINE x == evidence[s]
      <3>1. x \in Seq(Values)
        BY <1>2, <2>1
      <3> HIDE DEF x
      <3>2. /\ x \o a \in Seq(Values) /\ Len(x \o a) = Len(x) + Len(a)
            /\ \A j \in 1..(Len(x) + Len(a)) : (x \o a)[j] = IF j <= Len(x) THEN x[j] ELSE a[j - Len(x)]
        BY <1>1, <3>1, ConcatProperties, Zenon
      <3> QED BY <1>1, <3>2, Zenon DEF x
    <2>4. Len(evidence[s]) \in Nat
      BY <1>2, <2>1
    <2> HIDE DEF s
    <2>5. /\ \A j \in 1..Len(evidence[s]) : evidence'[s][j] = evidence[s][j]
          /\ \A j \in 1..op.n : evidence'[s][Len(evidence[s]) + j] = a[j]
      <3>1. ASSUME NEW j \in 1..Len(evidence[s]) PROVE evidence'[s][j] = evidence[s][j]
        BY <1>1, <2>2, <2>3, <2>4
      <3>2. ASSUME NEW j \in 1..op.n PROVE evidence'[s][Len(evidence[s]) + j] = a[j]
        <4> DEFINE i == Len(evidence[s]) + j
        <4>1. i \in 1..(Len(evidence[s]) + op.n) /\ ~(i <= Len(evidence[s])) /\ i - Len(evidence[s]) = j
          BY <1>1, <2>4
        <4> HIDE DEF i
        <4>2. (evidence[s] \o a)[i] = a[j]
          BY <2>3, <4>1
        <4> QED BY <2>2, <4>2 DEF i
      <3> QED BY <3>1, <3>2
    <2>6. \A r \in Streams : evidence'[r] \in Seq(Values) /\ at'[r] \in 0..Len(evidence'[r])
      <3> SUFFICES ASSUME NEW r \in Streams
                   PROVE  evidence'[r] \in Seq(Values) /\ at'[r] \in 0..Len(evidence'[r])
        OBVIOUS
      <3>1. CASE r = s
        BY <1>1, <1>2, <2>1, <2>2, <2>3, <2>4, <3>1
      <3>2. CASE r # s
        BY <1>2, <2>1, <2>2, <3>2
      <3> QED BY <3>1, <3>2
    <2>7. Len(evidence'[s]) = Len(evidence[s]) + op.n
      BY <2>2, <2>3
    <2>8. evidence'.seed = evidence.seed /\ DOMAIN evidence' = Streams \cup {"seed"} /\ at' = at
      BY <1>2, <1>3, <2>1, <2>2
    <2> QED BY <1>1, <1>2, <1>4, <2>2, <2>5, <2>6, <2>7, <2>8 DEF s
  <1>5. CASE Replayed(op, a)
    <2>1. /\ op.src \in Streams /\ at' = [at EXCEPT ![op.src] = at[op.src] + op.n]
          /\ at[op.src] + op.n <= Len(evidence[op.src])
          /\ UNCHANGED evidence /\ run = "replay" /\ ~Recorded(op, a)
      BY <1>5 DEF Replayed, Recorded
    <2>2. \A s \in Streams : at'[s] = IF s = op.src THEN at[s] + op.n ELSE at[s]
      BY <1>2, <2>1
    <2>3. \A s \in Streams : at'[s] \in 0..Len(evidence[s])
      BY <1>1, <1>2, <2>1, <2>2
    <2> QED BY <1>1, <1>2, <1>5, <2>1, <2>2, <2>3
  <1>6. CASE Missing(op) \/ Elsewhere(op, a)
    <2>1. UNCHANGED evidence
      BY <1>6 DEF Missing, Elsewhere
    <2>2. (\A s \in Streams : at'[s] = at[s]) /\ DOMAIN at' = Streams
      BY <1>2, <1>6 DEF Missing, Elsewhere
    <2>3. ~Recorded(op, a)
      BY <1>3, <1>6 DEF Missing, Elsewhere, Recorded, Streams, Clocks, Randoms
    <2> QED BY <1>1, <1>2, <2>1, <2>2, <2>3
  <1> QED BY <1>4, <1>5, <1>6 DEF Answering

\* What one read adds to the history.
LEMMA HistoryFacts ==
    ASSUME EvInv, NEW op, NEW a, NEW b, Answering(op, a, b)
    PROVE  /\ hist' \in Seq(Entries) /\ Extends(hist', hist) /\ Len(hist) \in Nat
           /\ hist'[Len(hist) + 1] = [src |-> op.src, n |-> op.n, answer |-> a, short |-> b]
           /\ \A i \in 1..Len(hist) : hist[i].n \in Nat
  <1>1. op \in Reads /\ a \in Bytes(op.n) /\ b \in BOOLEAN /\ Answered(op, a, b) /\ Shape
    BY DEF Answering, EvInv
  <1>2. hist \in Seq(Entries)
    BY <1>1 DEF Shape
  <1>3. Len(hist) \in Nat /\ \A i \in 1..Len(hist) : hist[i] \in Entries
    BY <1>2
  <1>4. \A e \in Entries : e.n \in Nat
    BY DEF Entries
  <1> QED BY <1>1, <1>3, <1>4, AnsweredFacts DEF Extends

LEMMA ReadShape ==
    ASSUME EvInv, NEW op, NEW a, NEW b, Answering(op, a, b)
    PROVE  Shape'
  <1>1. /\ pc = "guest" /\ UNCHANGED <<caps, sameGuest, run, pc, seed, recorded, cut>>
        /\ \/ UNCHANGED <<at, errors>>
           \/ run = "replay" /\ (errors' = errors \/ (op.src \in Streams /\ errors' = errors \cup {op.src}))
    BY DEF Answering, Recorded, Replayed, Missing, Elsewhere
  <1>2. /\ \A s \in Streams : evidence'[s] \in Seq(Values) /\ at'[s] \in 0..Len(evidence'[s])
        /\ evidence'.seed = evidence.seed
        /\ DOMAIN evidence' = Streams \cup {"seed"} /\ DOMAIN at' = Streams
    BY StreamFacts
  <1>3. hist' \in Seq(Entries)
    BY HistoryFacts
  <1>4. TypeOK'
    BY <1>1, <1>2 DEF EvInv, Shape, TypeOK
  <1> QED BY <1>1, <1>2, <1>3, <1>4 DEF EvInv, Shape

\* Whatever is read, the evidence is what was given.
LEMMA ReadKept ==
    ASSUME EvInv, NEW op, NEW a, NEW b, Answering(op, a, b)
    PROVE  Kept'
  <1> DEFINE L == Len(hist)
  <1>1. /\ Extends(hist', hist) /\ L \in Nat
        /\ hist'[L + 1] = [src |-> op.src, n |-> op.n, answer |-> a, short |-> b]
        /\ \A i \in 1..L : hist[i].n \in Nat
    BY HistoryFacts
  <1>2. Len(hist') = L + 1 /\ \A i \in 1..L : hist'[i] = hist[i]
    BY <1>1 DEF Extends
  <1>3. /\ hist'[L + 1].src = op.src /\ hist'[L + 1].n = op.n /\ hist'[L + 1].answer = a
        /\ hist'[L + 1].short = b
    BY <1>1
  <1>4. UNCHANGED <<caps, sameGuest, run, pc, seed, recorded, cut>> /\ pc = "guest"
    BY DEF Answering
  <1>5. \A s \in Streams : ModeOf(s)' = ModeOf(s)
    BY <1>4 DEF ModeOf
  <1>6. evidence'.seed = evidence.seed /\ op.n \in Nat
    BY StreamFacts
  <1>7. "seed" \notin Streams /\ run \in {"record", "replay"}
    BY DEF Streams, Clocks, Randoms, EvInv, Shape, TypeOK
  <1>8. \A s \in Streams : Len(evidence[s]) \in Nat /\ at[s] \in Nat
    BY DEF EvInv, Shape, TypeOK
  <1>9. CASE run = "record"
    <2>1. ~b /\ (Recorded(op, a) \/ Elsewhere(op, a)) /\ Faithful(hist) /\ EvidenceComplete
      BY <1>9 DEF Answering, Replayed, Missing, EvInv, Kept
    <2>2. caps.random = "record" /\ op.src = "seed" => a = <<evidence.seed>>
      BY <1>4, <1>7, <2>1 DEF Recorded, Elsewhere, EvInv, Shape
    <2>3. Faithful(hist)'
      BY <1>1, <1>2, <1>3, <1>4, <1>6, <2>1, <2>2 DEF Faithful
    <2>4. ASSUME NEW s \in Streams
          PROVE  IF ModeOf(s) = "record" THEN Given(hist', s, evidence'[s], Len(evidence'[s]))
                                         ELSE evidence'[s] = <<>>
      <3>1. CASE ModeOf(s) = "record" /\ s = op.src
        <4>1. Recorded(op, a)
          BY <1>7, <2>1, <3>1 DEF Elsewhere, Streams, Clocks, Randoms
        <4>2. /\ Len(evidence'[s]) = Len(evidence[s]) + op.n
              /\ \A j \in 1..Len(evidence[s]) : evidence'[s][j] = evidence[s][j]
              /\ \A j \in 1..op.n : evidence'[s][Len(evidence[s]) + j] = a[j]
          BY <3>1, <4>1, StreamFacts
        <4>3. Given(hist, s, evidence[s], Len(evidence[s]))
          BY <1>9, <2>1, <3>1 DEF EvidenceComplete
        <4>4. Given(hist', s, evidence'[s], Len(evidence[s]) + op.n)
          <5>1. Given(hist, s, evidence'[s], Len(evidence[s]))
            BY <1>1, <1>8, <4>2, <4>3, GivenSame
          <5>2. Placed(hist'[L + 1], s, evidence'[s], Len(evidence[s]), Len(evidence[s]) + op.n)
            BY <1>3, <2>1, <3>1, <4>2 DEF Placed
          <5>3. Len(evidence[s]) + op.n \in Nat /\ Len(evidence[s]) <= Len(evidence[s]) + op.n
            BY <1>6, <1>8
          <5> QED BY <1>1, <1>8, <5>1, <5>2, <5>3, GivenMore
        <4> QED BY <3>1, <4>2, <4>4
      <3>2. CASE ModeOf(s) = "record" /\ s # op.src
        <4>1. evidence'[s] = evidence[s]
          BY <3>2, StreamFacts
        <4>2. Given(hist, s, evidence[s], Len(evidence[s]))
          BY <1>9, <2>1, <3>2 DEF EvidenceComplete
        <4>3. Given(hist', s, evidence[s], Len(evidence[s]))
          BY <1>1, <1>3, <1>8, <3>2, <4>2, GivenOther
        <4> QED BY <3>2, <4>1, <4>3
      <3>3. CASE ModeOf(s) # "record"
        <4>1. evidence[s] = <<>>
          BY <1>9, <2>1, <3>3 DEF EvidenceComplete
        <4>2. evidence'[s] = evidence[s]
          BY <3>3, StreamFacts DEF Recorded
        <4> QED BY <3>3, <4>1, <4>2
      <3> QED BY <3>1, <3>2, <3>3
    <2>5. EvidenceComplete'
      BY <1>5, <2>4 DEF EvidenceComplete
    <2> QED BY <1>4, <1>9, <2>3, <2>5 DEF Kept
  <1>10. CASE run = "replay"
    <2>1. UNCHANGED evidence /\ Faithful(recorded) /\ ReplayFromEvidence
      BY <1>10 DEF Answering, Recorded, Replayed, Missing, Elsewhere, EvInv, Kept
    <2>2. Faithful(recorded)'
      BY <1>4, <2>1 DEF Faithful
    <2>3. ASSUME NEW s \in Streams, ModeOf(s) = "record"
          PROVE  /\ Given(hist', s, evidence[s], at'[s])
                 /\ (\E i \in DOMAIN hist' : hist'[i].src = s /\ hist'[i].short) => s \in errors'
      <3>1. /\ Given(hist, s, evidence[s], at[s])
            /\ (\E i \in DOMAIN hist : hist[i].src = s /\ hist[i].short) => s \in errors
        BY <1>10, <2>1, <2>3 DEF ReplayFromEvidence
      <3>2. Given(hist', s, evidence[s], at'[s])
        <4>1. CASE Replayed(op, a) /\ ~b /\ s = op.src
          <5>1. /\ at'[s] = at[s] + op.n
                /\ \A j \in 1..op.n : a[j] = evidence[s][at[s] + j]
            BY <4>1 DEF Replayed, EvInv, Shape
          <5>2. Placed(hist'[L + 1], s, evidence[s], at[s], at'[s])
            BY <1>3, <4>1, <5>1 DEF Placed
          <5>3. at'[s] \in Nat /\ at[s] <= at'[s]
            BY <1>6, <1>8, <5>1
          <5> QED BY <1>1, <1>8, <3>1, <5>2, <5>3, GivenMore
        <4>2. CASE s # op.src
          <5>1. at'[s] = at[s]
            BY <4>2, StreamFacts
          <5>2. Given(hist', s, evidence[s], at[s])
            BY <1>1, <1>3, <1>8, <3>1, <4>2, GivenOther
          <5> QED BY <5>1, <5>2
        <4>3. CASE Missing(op) /\ b
          <5>1. at'[s] = at[s]
            BY <4>3, StreamFacts DEF Missing, Replayed
          <5>2. Given(hist', s, evidence[s], at[s])
            BY <1>1, <1>3, <1>8, <3>1, <4>3, GivenOther
          <5> QED BY <5>1, <5>2
        <4>4. s = op.src => (Replayed(op, a) /\ ~b) \/ (Missing(op) /\ b)
          BY <1>7, <1>10, <2>3 DEF Answering, Recorded, Elsewhere, Streams, Clocks, Randoms
        <4> QED BY <4>1, <4>2, <4>3, <4>4
      <3>3. ASSUME NEW i \in DOMAIN hist', hist'[i].src = s, hist'[i].short PROVE s \in errors'
        <4>1. errors \subseteq errors'
          BY <1>10 DEF Answering, Recorded, Replayed, Missing, Elsewhere
        <4>2. DOMAIN hist' = 1..(L + 1) /\ DOMAIN hist = 1..L
          <5>1. hist' \in Seq(Entries) /\ hist \in Seq(Entries)
            BY HistoryFacts DEF EvInv, Shape
          <5> QED BY <1>2, <5>1
        <4>3. CASE i \in 1..L
          BY <1>2, <3>1, <3>3, <4>1, <4>2, <4>3
        <4>4. CASE i = L + 1
          <5>1. b /\ op.src = s
            BY <1>3, <3>3, <4>4
          <5>2. Missing(op)
            BY <5>1 DEF Answering
          <5> QED BY <5>1, <5>2 DEF Missing
        <4> QED BY <1>1, <4>2, <4>3, <4>4
      <3> QED BY <3>2, <3>3
    <2>4. ReplayFromEvidence'
      BY <1>4, <1>5, <1>10, <2>1, <2>3 DEF ReplayFromEvidence
    <2> QED BY <1>4, <1>10, <2>2, <2>4 DEF Kept
  <1> QED BY <1>7, <1>9, <1>10

\* The same guest reads what it read before, until there is nothing left that
\* it had come to read.
LEMMA ReadSame ==
    ASSUME EvInv, NEW op, NEW a, NEW b, Answering(op, a, b)
    PROVE  Same'
  <1> DEFINE L == Len(hist)
             K == Len(recorded)
  <1>1. UNCHANGED <<caps, sameGuest, run, pc, seed, recorded, cut>> /\ pc = "guest"
    BY DEF Answering
  <1> SUFFICES ASSUME run = "replay", sameGuest, caps = [clocks |-> "record", random |-> "record"],
                      ~\E i \in DOMAIN recorded : recorded[i].src = "outside"
               PROVE  Following' \/ Beyond'
    BY <1>1 DEF Same
  <1>2. \A s \in Streams : ModeOf(s) = "record"
    BY DEF ModeOf
  <1>3. /\ hist' \in Seq(Entries) /\ Extends(hist', hist) /\ L \in Nat
        /\ hist'[L + 1] = [src |-> op.src, n |-> op.n, answer |-> a, short |-> b]
    BY HistoryFacts
  <1>4. Len(hist') = L + 1 /\ \A i \in 1..L : hist'[i] = hist[i]
    BY <1>3 DEF Extends
  <1>5. /\ hist \in Seq(Entries) /\ recorded \in Seq(Entries) /\ K \in Nat
        /\ DOMAIN recorded = 1..K
    BY DEF EvInv, Shape
  <1>6. UNCHANGED evidence
    BY DEF Answering, Recorded, Replayed, Missing, Elsewhere
  <1>7. Following \/ Beyond
    BY DEF EvInv, Same
  <1>8. CASE Beyond
    <2>1. cut /\ K < L /\ SameUpTo(hist, recorded, K)
      BY <1>8 DEF Beyond
    <2>2. \A i \in 1..K : hist'[i] = hist[i]
      BY <1>3, <1>4, <1>5, <2>1
    <2>3. SameUpTo(hist', recorded, K)
      BY <2>1, <2>2 DEF SameUpTo
    <2>4. K < Len(hist')
      BY <1>3, <1>4, <1>5, <2>1
    <2> QED BY <1>1, <2>1, <2>3, <2>4 DEF Beyond
  <1>9. CASE Following
    <2>1. L <= K /\ SameUpTo(hist, recorded, L) /\ errors = {}
      BY <1>9 DEF Following
    <2>2. Alike
      BY <1>5, <2>1, PrefixFacts DEF Alike
    <2>3. SameUpTo(hist', recorded, L)
      BY <1>4, <2>1 DEF SameUpTo
    <2>4. CASE L = K /\ cut
      <3>1. K < Len(hist') /\ SameUpTo(hist', recorded, K)
        BY <1>3, <1>4, <2>3, <2>4
      <3> QED BY <1>1, <2>4, <3>1 DEF Beyond
    <2>5. CASE L < K /\ op.src = recorded[L + 1].src /\ op.n = recorded[L + 1].n
      <3> DEFINE r == recorded[L + 1]
      <3>1. L + 1 \in 1..K /\ r \in Entries /\ ~r.short /\ r.src # "outside"
        <4>1. L + 1 \in 1..K
          BY <1>3, <1>5, <2>5
        <4>2. Faithful(recorded)
          BY DEF EvInv, Kept
        <4> QED BY <1>5, <4>1, <4>2 DEF Faithful
      <3>2. r.n = op.n /\ r.src = op.src /\ r.answer \in Seq(Values) /\ Len(r.answer) = op.n
        BY <2>5, <3>1 DEF Entries
      <3>3. op.n \in Nat /\ a \in Seq(Values) /\ Len(a) = op.n
        BY StreamFacts
      <3>4. ASSUME NEW s \in Streams, NEW d \in [0..K -> 0..Len(evidence[s])],
                   Offsets(d, recorded, s, evidence[s], Len(evidence[s])), at[s] = d[L]
            PROVE  IF s = op.src
                     THEN /\ d[L + 1] = at[s] + op.n /\ d[L + 1] <= Len(evidence[s])
                          /\ \A j \in 1..op.n : r.answer[j] = evidence[s][at[s] + j]
                     ELSE d[L + 1] = at[s]
        <4>1. (L + 1) - 1 = L /\ L + 1 \in 0..K
          BY <1>3, <3>1
        <4>2. d[L + 1] \in 0..Len(evidence[s]) /\ Len(evidence[s]) \in Nat
          BY <4>1 DEF EvInv, Shape, TypeOK
        <4>3. IF r.src = s /\ ~r.short
                THEN /\ d[L + 1] = d[L] + r.n
                     /\ \A j \in 1..r.n : r.answer[j] = evidence[s][d[L] + j]
                ELSE d[L + 1] = d[L]
          BY <3>1, <3>4, <4>1 DEF Offsets
        <4> QED BY <3>1, <3>2, <3>4, <4>2, <4>3
      <3>5. \A s \in Streams :
               \E d \in [0..K -> 0..Len(evidence[s])] :
                  Offsets(d, recorded, s, evidence[s], Len(evidence[s])) /\ at[s] = d[L]
        BY <1>9 DEF Following
      <3>6. /\ ~Missing(op)
            /\ op.src \in Streams => Replayed(op, a) /\ at'[op.src] = at[op.src] + op.n
            /\ op.src \notin Streams => op.src = "seed" /\ a = <<seed>>
            /\ errors' = errors /\ ~b
        <4>1. ~Missing(op)
          <5> SUFFICES ASSUME op.src \in Streams PROVE at[op.src] + op.n <= Len(evidence[op.src])
            BY DEF Missing
          <5> QED BY <3>4, <3>5
        <4>2. op.src \in Streams => Replayed(op, a)
          BY <1>2, <4>1 DEF Answering, Recorded, Elsewhere, Streams, Clocks, Randoms
        <4>3. op.src \in Streams => at'[op.src] = at[op.src] + op.n
          BY <4>2 DEF Replayed, EvInv, Shape
        <4>4. op.src \notin Streams => op.src = "seed" /\ a = <<seed>>
          BY <3>1, <3>2, <4>1 DEF Answering, Recorded, Replayed, Elsewhere
        <4>5. errors' = errors /\ ~b
          BY <4>1 DEF Answering, Recorded, Replayed, Elsewhere
        <4> QED BY <4>1, <4>2, <4>3, <4>4, <4>5
      <3>7. a = r.answer
        <4>1. CASE op.src \in Streams
          <5>1. \A j \in 1..op.n : a[j] = evidence[op.src][at[op.src] + j]
            BY <3>6, <4>1 DEF Replayed
          <5>2. \A j \in 1..op.n : r.answer[j] = evidence[op.src][at[op.src] + j]
            BY <3>4, <3>5, <4>1
          <5> HIDE DEF r
          <5> QED BY <3>2, <3>3, <5>1, <5>2, SeqEqual
        <4>2. CASE op.src \notin Streams
          <5>1. op.src = "seed" /\ a = <<seed>>
            BY <3>6, <4>2
          <5>2. r.answer = <<evidence.seed>>
            BY <1>5, <3>1, <3>2, <5>1 DEF EvInv, Kept, Faithful
          <5> QED BY <1>1, <5>1, <5>2 DEF EvInv, Shape
        <4> QED BY <4>1, <4>2
      <3>8. SameUpTo(hist', recorded, L + 1)
        <4>1. SameRead(hist'[L + 1], r)
          BY <1>3, <3>2, <3>7 DEF SameRead
        <4>2. ASSUME NEW i \in 1..(L + 1) PROVE SameRead(hist'[i], recorded[i])
          <5>1. i \in 1..L \/ i = L + 1
            BY <1>3
          <5> QED BY <2>3, <4>1, <5>1 DEF SameUpTo
        <4> QED BY <4>2 DEF SameUpTo
      <3>9. ASSUME NEW s \in Streams
            PROVE  \E d \in [0..K -> 0..Len(evidence[s])] :
                      Offsets(d, recorded, s, evidence[s], Len(evidence[s])) /\ at'[s] = d[L + 1]
        <4>1. PICK d \in [0..K -> 0..Len(evidence[s])] :
                 Offsets(d, recorded, s, evidence[s], Len(evidence[s])) /\ at[s] = d[L]
          BY <3>5
        <4>2. IF s = op.src THEN d[L + 1] = at[s] + op.n ELSE d[L + 1] = at[s]
          BY <3>4, <4>1
        <4>3. s # op.src => at'[s] = at[s]
          BY StreamFacts
        <4> QED BY <3>6, <4>1, <4>2, <4>3
      <3>10. L + 1 <= K
        BY <3>1
      <3> HIDE DEF r
      <3> QED BY <1>1, <1>4, <1>6, <2>1, <3>6, <3>8, <3>9, <3>10 DEF Following
    <2>6. \/ L < K /\ op.src = recorded[L + 1].src /\ op.n = recorded[L + 1].n
          \/ L = K /\ cut
      BY <2>2 DEF Answering, MayRead
    <2> QED BY <2>4, <2>5, <2>6
  <1> QED BY <1>7, <1>8, <1>9

LEMMA ReadInv == EvInv /\ Read => EvInv'
  <1> SUFFICES ASSUME EvInv, Read PROVE EvInv'
    OBVIOUS
  <1>1. PICK op \in Reads : \E a \in Bytes(op.n), b \in BOOLEAN : Answering(op, a, b)
    BY ReadFacts DEF Answering
  <1>2. PICK a \in Bytes(op.n), b \in BOOLEAN : Answering(op, a, b)
    BY <1>1
  <1> QED BY <1>2, ReadShape, ReadKept, ReadSame DEF EvInv

\* The evidence invariant holds in every state, for all capabilities, values,
\* lengths and numbers of reads.
THEOREM EvInductive == Spec => []EvInv
  <1>1. EvInv /\ [Next]_vars => EvInv'
    BY BuildInv, BuildRefusedInv, ReadInv, EndGuestInv, ReloadInv, StopInv DEF Next, Stopped
  <1> QED BY <1>1, EvInitInv, PTL DEF Spec

\* Streams hold readings, and a replay stands inside its evidence.
THEOREM TypeCorrect == Spec => []TypeOK
  <1>1. EvInv => TypeOK
    BY DEF EvInv, Shape
  <1> QED BY <1>1, EvInductive, PTL

\* However long a recorded run is and whatever it reads in which order, its
\* evidence is stream by stream what its guest was given, and nothing is kept
\* of a source that is not recorded (evidence.rs, the record mode).
THEOREM EvidenceIsComplete == Spec => []EvidenceComplete
  <1>1. EvInv => EvidenceComplete
    BY DEF EvInv, Kept, EvidenceComplete
  <1> QED BY <1>1, EvInductive, PTL

\* No guest, the recorded one or any other, can make a replay hand out
\* something else than the evidence in its order, or hide that it came to its
\* end (evidence.rs, the replay mode).
THEOREM ReplaysFromEvidence == Spec => []ReplayFromEvidence
  <1>1. EvInv => ReplayFromEvidence
    BY DEF EvInv, Kept, ReplayFromEvidence
  <1> QED BY <1>1, EvInductive, PTL

\* A guest whose every source is recorded sees in the replay what it saw in the
\* recorded run, however many reads it makes.
THEOREM ReplaysSame == Spec => []ReplaySame
  <1>1. EvInv => ReplaySame
    <2> SUFFICES ASSUME EvInv, run = "replay", sameGuest,
                        caps = [clocks |-> "record", random |-> "record"],
                        ~\E i \in DOMAIN recorded : recorded[i].src = "outside"
                 PROVE  /\ \/ IsPrefix(Seen(hist), Seen(recorded))
                           \/ cut /\ IsPrefix(Seen(recorded), Seen(hist))
                        /\ errors # {} => cut
      BY DEF ReplaySame
    <2>1. hist \in Seq(Entries) /\ recorded \in Seq(Entries)
      BY DEF EvInv, Shape
    <2>2. CASE Following
      BY <2>1, <2>2, PrefixFacts DEF Following
    <2>3. CASE Beyond
      <3>1. cut /\ Len(recorded) < Len(hist) /\ SameUpTo(hist, recorded, Len(recorded))
        BY <2>3 DEF Beyond
      <3>2. SameUpTo(recorded, hist, Len(recorded))
        BY <3>1 DEF SameUpTo, SameRead
      <3>3. Len(recorded) <= Len(hist)
        BY <2>1, <3>1
      <3> QED BY <2>1, <3>1, <3>2, <3>3, PrefixFacts
    <2> QED BY <2>2, <2>3 DEF EvInv, Same
  <1> QED BY <1>1, EvInductive, PTL
=============================================================================
