------------------------------ MODULE SolveAbi ------------------------------
(***************************************************************************)
(* The x07_solve_v2 calling convention and the runner that keeps one core  *)
(* instance for every call (crates/x07-wasm/src/wasm/abi_solve_v2.rs,      *)
(* core_replay.rs, wasmtime_limits.rs).                                    *)
(*                                                                         *)
(* Above the guest's static data the host lays out an 8 byte return slot,  *)
(* the input and an arena; the guest writes its output into the arena and  *)
(* a (pointer, length) pair into the return slot.  The guest is not        *)
(* trusted: it may write any pair, none, burn its fuel, grow its memory or *)
(* trap, and the same instance is called again afterwards.                 *)
(***************************************************************************)
EXTENDS Integers

CONSTANTS
    Word,         \* 2^32: pointers are u32
    HeapBase,     \* the guest's exported __heap_base
    DataEnd,      \* the guest's exported __data_end
    ArenaCap,     \* arena_cap_bytes
    MaxOutput,    \* max_output_bytes
    InitialMem,   \* linear memory of the fresh instance, in bytes
    MemLimit,     \* max_memory_bytes; 0 sets no limit
    MaxFuel,      \* max_fuel, per call
    Page,         \* unit of memory growth
    InputLens,    \* lengths of the inputs callers pass
    GuestPtrs,    \* pointers and lengths a guest may write to the return slot
    GuestLens

ASSUME AbiAssumption ==
    /\ Word \in Nat
    /\ HeapBase \in 0..(Word - 1)
    /\ DataEnd \in 0..(Word - 1)
    /\ ArenaCap \in 0..(Word - 1)
    /\ MaxOutput \in 0..(Word - 1)
    /\ InitialMem \in 0..Word
    /\ MemLimit \in Nat
    /\ MaxFuel \in Nat
    /\ Page \in Nat \ {0}
    /\ InputLens \subseteq 0..(Word - 1)
    /\ GuestPtrs \subseteq 0..(Word - 1)
    /\ GuestLens \subseteq 0..(Word - 1)

-----------------------------------------------------------------------------
(* Memory layout of one call.                                              *)

\* Mutant of AlignUp: computed on a u32, which wraps near the top of the
\* address space to a small address.
AlignUp32(x) == (((x + 7) % Word) \div 8) * 8

\* (x + 7) & !7 on a u64.
AlignUp(x) == ((x + 7) \div 8) * 8

AllocBase     == IF HeapBase > DataEnd THEN HeapBase ELSE DataEnd
RetPtr        == AlignUp(AllocBase)
InputPtr      == AlignUp(RetPtr + 8)
ArenaPtr(n)   == AlignUp(InputPtr + n)
ArenaEnd(n)   == ArenaPtr(n) + ArenaCap

-----------------------------------------------------------------------------
VARIABLES
    stage,     \* "idle", "guest" or "check"
    mem,       \* current size of the linear memory
    memAtCall, \* its size when the layout was checked
    fuel,      \* fuel left in the store
    need,      \* fuel the guest uses for this call
    len,       \* length of the input of this call
    ret,       \* the return slot: what the last write to it left there
    wrote,     \* history: the guest wrote the slot during this call
    result     \* what the call gave its caller, Failed("none_yet") until then

abiVars == <<stage, mem, memAtCall, fuel, need, len, ret, wrote, result>>

Pairs      == [ptr : 0..(Word - 1), len : 0..(Word - 1)]
NoBytes    == [ptr |-> 0, len |-> 0]
Output(p)  == [ok |-> TRUE, ptr |-> p.ptr, len |-> p.len]
Failed(why) == [ok |-> FALSE, why |-> why]
Failures   == {"none_yet", "too_small", "ptr_overflow", "fuel", "memory", "trap",
               "output_limit", "outside_arena", "out_of_bounds"}
Results    == [ok : {TRUE}, ptr : 0..(Word - 1), len : 0..(Word - 1)]
                \cup [ok : {FALSE}, why : Failures]

\* CoreWasmRunner::new: the limiter also sees the initial memory.
AbiInit ==
    /\ stage = "idle"
    /\ mem = InitialMem
    /\ MemLimit = 0 \/ InitialMem <= MemLimit
    /\ memAtCall = InitialMem
    /\ fuel = MaxFuel
    /\ need = 0
    /\ len = 0
    /\ ret = NoBytes           \* fresh linear memory is zero
    /\ wrote = FALSE
    /\ result = Failed("none_yet")

\* Mutant of BeginCall: the return slot is not cleared.
BeginCallOldSlot ==
    /\ stage = "idle"
    /\ \E n \in InputLens :
          /\ len' = n
          /\ \/ /\ ArenaEnd(n) > mem
                /\ result' = Failed("too_small")
                /\ UNCHANGED <<stage, ret, wrote>>
             \/ /\ ArenaEnd(n) <= mem
                /\ wrote' = FALSE
                /\ stage' = "guest"
                /\ result' = Failed("none_yet")
                /\ UNCHANGED ret
    /\ memAtCall' = mem
    /\ fuel' = MaxFuel
    /\ \E f \in 0..(MaxFuel + 1) : need' = f
    /\ UNCHANGED mem

\* CoreWasmRunner::call up to func.call: refuel, lay out, clear the return
\* slot, write the input.
BeginCall ==
    /\ stage = "idle"
    /\ fuel' = MaxFuel
    /\ memAtCall' = mem
    /\ \E f \in 0..(MaxFuel + 1) : need' = f
    /\ \E n \in InputLens :
          /\ len' = n
          /\ \/ /\ ArenaEnd(n) > mem
                /\ result' = Failed("too_small")
                /\ UNCHANGED <<stage, ret, wrote>>
             \/ /\ ArenaEnd(n) <= mem /\ ArenaPtr(n) >= Word
                /\ result' = Failed("ptr_overflow")
                /\ UNCHANGED <<stage, ret, wrote>>
             \/ /\ ArenaEnd(n) <= mem /\ ArenaPtr(n) < Word
                /\ ret' = NoBytes
                /\ wrote' = FALSE
                /\ stage' = "guest"
                /\ result' = Failed("none_yet")
    /\ UNCHANGED mem

-----------------------------------------------------------------------------
(* The guest.                                                              *)

Writes ==
    /\ stage = "guest"
    /\ ~wrote
    /\ \E p \in GuestPtrs, n \in GuestLens : ret' = [ptr |-> p, len |-> n]
    /\ wrote' = TRUE
    /\ UNCHANGED <<stage, mem, memAtCall, fuel, need, len, result>>

\* memory_growing: a size over the limit is an error that ends the call.
Grows ==
    /\ stage = "guest"
    /\ \E size \in {mem + Page, mem + 2 * Page} \cap (0..Word) :
          \/ /\ MemLimit = 0 \/ size <= MemLimit
             /\ mem' = size
             /\ UNCHANGED <<stage, result>>
          \/ /\ MemLimit # 0 /\ size > MemLimit
             /\ result' = Failed("memory")
             /\ stage' = "idle"
             /\ UNCHANGED mem
    /\ UNCHANGED <<memAtCall, fuel, need, len, ret, wrote>>

\* Out of fuel is classified as a budget, every other trap is a call failure.
Traps ==
    /\ stage = "guest"
    /\ \/ /\ need > fuel
          /\ fuel' = 0
          /\ result' = Failed("fuel")
       \/ /\ fuel' \in 0..fuel
          /\ result' = Failed("trap")
    /\ stage' = "idle"
    /\ UNCHANGED <<mem, memAtCall, need, len, ret, wrote>>

Returns ==
    /\ stage = "guest"
    /\ need <= fuel
    /\ fuel' = fuel - need
    /\ stage' = "check"
    /\ UNCHANGED <<mem, memAtCall, need, len, ret, wrote, result>>

-----------------------------------------------------------------------------
(* Checks on what came back.                                               *)

\* Mutant of Verdict: the end of the output is not compared with the arena.
VerdictStartOnly(p, n, size) ==
    IF p.len > MaxOutput                        THEN Failed("output_limit")
    ELSE IF p.ptr < ArenaPtr(n)                 THEN Failed("outside_arena")
    ELSE IF p.ptr + p.len > size                THEN Failed("out_of_bounds")
    ELSE Output(p)

\* The checks of call_solve_v2, in their order.
Verdict(p, n, size) ==
    IF p.len > MaxOutput                        THEN Failed("output_limit")
    ELSE IF \/ p.ptr < ArenaPtr(n)
            \/ p.ptr + p.len > ArenaEnd(n)      THEN Failed("outside_arena")
    ELSE IF p.ptr + p.len > size                THEN Failed("out_of_bounds")
    ELSE Output(p)

EndCall ==
    /\ stage = "check"
    /\ result' = Verdict(ret, len, memAtCall)
    /\ stage' = "idle"
    /\ UNCHANGED <<mem, memAtCall, fuel, need, len, ret, wrote>>

AbiNext == BeginCall \/ Writes \/ Grows \/ Traps \/ Returns \/ EndCall

AbiSpec == AbiInit /\ [][AbiNext]_abiVars

-----------------------------------------------------------------------------
(* Properties.                                                             *)

AbiTypeOK ==
    /\ stage \in {"idle", "guest", "check"}
    /\ mem \in 0..Word /\ memAtCall \in 0..Word
    /\ fuel \in 0..MaxFuel /\ need \in 0..(MaxFuel + 1)
    /\ len \in 0..(Word - 1)
    /\ ret \in Pairs
    /\ wrote \in BOOLEAN
    /\ result \in Results

\* While the guest runs, the bytes the host wrote lie in memory, above the
\* static data, and neither overlaps the arena handed to the guest.
RegionsDisjoint ==
    stage # "idle" =>
        /\ HeapBase <= RetPtr /\ DataEnd <= RetPtr
        /\ RetPtr + 8 <= InputPtr
        /\ InputPtr + len <= ArenaPtr(len)
        /\ ArenaEnd(len) <= mem
        /\ RetPtr % 8 = 0 /\ InputPtr % 8 = 0 /\ ArenaPtr(len) % 8 = 0

\* An output handed to the caller was written by this very call, lies in the
\* arena of this call and in the memory the guest has now, and is no longer
\* than the profile allows.  In particular it is never the output an earlier
\* call left in the return slot.
OutputSound ==
    result.ok =>
        /\ wrote
        /\ ArenaPtr(len) <= result.ptr
        /\ result.ptr + result.len <= ArenaEnd(len)
        /\ result.ptr + result.len <= mem
        /\ result.len <= MaxOutput

\* Fuel is an allowance per call: a call that needs no more than max_fuel does
\* not run out of it, however much the calls before it used.
FuelPerCall ==
    result = Failed("fuel") => need > MaxFuel
=============================================================================
