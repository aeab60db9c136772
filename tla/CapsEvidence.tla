---------------------------- MODULE CapsEvidence ----------------------------
(***************************************************************************)
(* Record and replay of what a component reads from clocks and random      *)
(* sources under `x07-wasm serve --ops --evidence-out / --evidence-in`     *)
(* (crates/x07-wasm/src/caps/evidence.rs, caps/enforce.rs, serve.rs).      *)
(*                                                                         *)
(* A recorded run is followed by a replay of its evidence.  The guest is a *)
(* deterministic program: what it reads next depends on what it has read   *)
(* so far.  The replay may run the same guest or another one, and what it  *)
(* reads from outside (files, network, environment) is not in the evidence.*)
(***************************************************************************)
EXTENDS Naturals, Sequences, SequencesExt

CONSTANTS
    Profiles,  \* capabilities: clocks.mode and random.mode
    Values,    \* readings and bytes
    Lens,      \* lengths of random reads
    MaxReads   \* bound: reads of one run

Clocks  == {"wall", "mono"}
Randoms == {"secure", "insecure"}
Streams == Clocks \cup Randoms

ASSUME ConstantsAssumption ==
    /\ Profiles \subseteq [clocks : {"deny", "record", "allow"}, random : {"deny", "record", "allow"}]
    /\ Values \subseteq Nat /\ 0 \in Values
    /\ Lens \subseteq Nat
    /\ MaxReads \in Nat

VARIABLES
    caps,       \* the capabilities of both runs
    sameGuest,  \* the replay runs the recorded component
    run,        \* "record" or "replay"
    pc,         \* "build", "guest", "ended" or "stopped"
    evidence,   \* the recorded streams, and the seed
    at,         \* how far the replay has consumed each stream
    errors,     \* replay_errors, as a set of streams
    seed,       \* insecure_random_seed of the context
    hist,       \* history: the reads of this run and their answers
    recorded,   \* history: those of the recorded run
    cut         \* history: the recorded run did not come to its own end

vars == <<caps, sameGuest, run, pc, evidence, at, errors, seed, hist, recorded, cut>>

Zeros(n)   == [i \in 1..n |-> 0]
Bytes(n)   == [1..n -> Values]
ModeOf(s)  == IF s \in Clocks THEN caps.clocks ELSE caps.random
Reads      == [src : Clocks \cup {"seed", "outside"}, n : {1}] \cup [src : Randoms, n : Lens]

\* What a guest has seen; `short` is not visible to it.
Seen(h) == [i \in DOMAIN h |-> [src |-> h[i].src, n |-> h[i].n, answer |-> h[i].answer]]

\* new_record.
Init ==
    /\ caps \in Profiles
    /\ sameGuest \in BOOLEAN
    /\ run = "record"
    /\ pc = "build"
    /\ evidence = [wall |-> <<>>, mono |-> <<>>, secure |-> <<>>, insecure |-> <<>>, seed |-> 0]
    /\ at = [s \in Streams |-> 0]
    /\ errors = {}
    /\ seed = 0
    /\ hist = <<>> /\ recorded = <<>>
    /\ cut = FALSE

-----------------------------------------------------------------------------
(* build_wasi_ctx_from_caps.                                               *)

\* Mutant of BuildSeed: the replay draws a seed of its own.
BuildSeedAfresh ==
    \/ caps.random = "deny"   /\ seed' = 0 /\ UNCHANGED evidence
    \/ caps.random = "allow"  /\ seed' \in Values /\ UNCHANGED evidence
    \/ /\ caps.random = "record"
       /\ seed' \in Values
       /\ evidence' = [evidence EXCEPT !.seed = seed']

BuildSeed ==
    \/ caps.random = "deny"   /\ seed' = 0 /\ UNCHANGED evidence
    \/ caps.random = "allow"  /\ seed' \in Values /\ UNCHANGED evidence
    \/ /\ caps.random = "record" /\ run = "record"
       /\ seed' \in Values
       /\ evidence' = [evidence EXCEPT !.seed = seed']
    \/ /\ caps.random = "record" /\ run = "replay"
       /\ seed' = evidence.seed
       /\ UNCHANGED evidence

Build ==
    /\ pc = "build"
    /\ BuildSeed
    /\ pc' = "guest"
    /\ UNCHANGED <<caps, sameGuest, run, at, errors, hist, recorded, cut>>

\* A preopened directory or a secret is missing: the guest does not run, and
\* the evidence is written all the same.
BuildRefused ==
    /\ pc = "build"
    /\ recorded' = IF run = "record" THEN <<>> ELSE recorded
    /\ cut' = IF run = "record" THEN TRUE ELSE cut
    /\ pc' = "ended"
    /\ UNCHANGED <<caps, sameGuest, run, evidence, at, errors, seed, hist>>

-----------------------------------------------------------------------------
(* What the guest reads.                                                   *)

\* Mutant of Take: a read beyond the end is given what there is.
TakeRest(s, n) ==
    IF at[s] + n <= Len(evidence[s])
      THEN [answer |-> SubSeq(evidence[s], at[s] + 1, at[s] + n), next |-> at[s] + n, short |-> FALSE]
      ELSE [answer |-> [i \in 1..n |-> IF at[s] + i <= Len(evidence[s])
                                         THEN evidence[s][at[s] + i] ELSE 0],
            next |-> Len(evidence[s]), short |-> FALSE]

\* replay_*: the next n readings or bytes, or zeros, an error, and no progress.
Take(s, n) ==
    IF at[s] + n <= Len(evidence[s])
      THEN [answer |-> SubSeq(evidence[s], at[s] + 1, at[s] + n), next |-> at[s] + n, short |-> FALSE]
      ELSE [answer |-> Zeros(n), next |-> at[s], short |-> TRUE]

Answered(op, a, isShort) ==
    hist' = Append(hist, [src |-> op.src, n |-> op.n, answer |-> a, short |-> isShort])

\* Mutant of ReadRecording: the secure bytes are not recorded.
ReadRecordingPartly(op) ==
    /\ op.src \in Streams /\ ModeOf(op.src) = "record" /\ run = "record"
    /\ \E a \in Bytes(op.n) :
          /\ evidence' = IF op.src = "secure" THEN evidence
                                              ELSE [evidence EXCEPT ![op.src] = @ \o a]
          /\ Answered(op, a, FALSE)
    /\ UNCHANGED <<at, errors>>

\* EvidenceWallClock, EvidenceMonotonicClock and EvidenceRng in record mode.
ReadRecording(op) ==
    /\ op.src \in Streams /\ ModeOf(op.src) = "record" /\ run = "record"
    /\ \E a \in Bytes(op.n) :
          /\ evidence' = [evidence EXCEPT ![op.src] = @ \o a]
          /\ Answered(op, a, FALSE)
    /\ UNCHANGED <<at, errors>>

\* Mutant of ReadReplaying: one position for both random streams.
ReadReplayingShared(op) ==
    /\ op.src \in Streams /\ ModeOf(op.src) = "record" /\ run = "replay"
    /\ LET t == Take(op.src, op.n) IN
       /\ Answered(op, t.answer, t.short)
       /\ at' = [s \in Streams |-> IF s = op.src \/ {s, op.src} = Randoms THEN t.next ELSE at[s]]
       /\ errors' = IF t.short THEN errors \cup {op.src} ELSE errors
    /\ UNCHANGED evidence

\* The same in replay mode.
ReadReplaying(op) ==
    /\ op.src \in Streams /\ ModeOf(op.src) = "record" /\ run = "replay"
    /\ LET t == Take(op.src, op.n) IN
       /\ Answered(op, t.answer, t.short)
       /\ at' = [at EXCEPT ![op.src] = t.next]
       /\ errors' = IF t.short THEN errors \cup {op.src} ELSE errors
    /\ UNCHANGED evidence

\* Denied sources answer zeros, allowed ones and the outside anything.
ReadUnrecorded(op) ==
    /\ \/ op.src = "seed" /\ Answered(op, <<seed>>, FALSE)
       \/ op.src = "outside" /\ \E a \in Bytes(1) : Answered(op, a, FALSE)
       \/ op.src \in Streams /\ ModeOf(op.src) = "deny" /\ Answered(op, Zeros(op.n), FALSE)
       \/ op.src \in Streams /\ ModeOf(op.src) = "allow" /\ \E a \in Bytes(op.n) : Answered(op, a, FALSE)
    /\ UNCHANGED <<evidence, at, errors>>

\* The same guest goes on like the recorded one while it has seen the same.
Alike == run = "replay" /\ sameGuest /\ IsPrefix(Seen(hist), Seen(recorded))

MayRead(op) ==
    Alike => \/ /\ Len(hist) < Len(recorded)
                /\ op.src = recorded[Len(hist) + 1].src /\ op.n = recorded[Len(hist) + 1].n
             \/ Len(hist) = Len(recorded) /\ cut

Read ==
    /\ pc = "guest"
    /\ Len(hist) < MaxReads
    /\ \E op \in Reads :
          /\ MayRead(op)
          /\ ReadRecording(op) \/ ReadReplaying(op) \/ ReadUnrecorded(op)
    /\ UNCHANGED <<caps, sameGuest, run, pc, seed, recorded, cut>>

-----------------------------------------------------------------------------
(* The end of a run, and the evidence file between the two.                *)

\* The guest comes to its end, or a budget cuts it off.
EndGuest ==
    /\ pc = "guest"
    /\ IF run = "record"
         THEN recorded' = hist /\ cut' \in BOOLEAN
         ELSE UNCHANGED <<recorded, cut>>
    /\ pc' = "ended"
    /\ UNCHANGED <<caps, sameGuest, run, evidence, at, errors, seed, hist>>

\* build_doc, and new_replay with what it wrote.
Reload ==
    /\ pc = "ended" /\ run = "record"
    /\ run' = "replay"
    /\ pc' = "build"
    /\ at' = [s \in Streams |-> 0]
    /\ errors' = {}
    /\ hist' = <<>>
    /\ UNCHANGED <<caps, sameGuest, evidence, seed, recorded, cut>>

\* The evidence could not be written, or the replay is over.
Stop ==
    /\ pc = "ended"
    /\ pc' = "stopped"
    /\ UNCHANGED <<caps, sameGuest, run, evidence, at, errors, seed, hist, recorded, cut>>

Stopped == pc = "stopped" /\ UNCHANGED vars

Next == Build \/ BuildRefused \/ Read \/ EndGuest \/ Reload \/ Stop \/ Stopped

Spec == Init /\ [][Next]_vars

-----------------------------------------------------------------------------
(* Properties.                                                             *)

TypeOK ==
    /\ run \in {"record", "replay"} /\ pc \in {"build", "guest", "ended", "stopped"}
    /\ \A s \in Streams : evidence[s] \in Seq(Values) /\ at[s] \in 0..Len(evidence[s])
    /\ seed \in Values /\ evidence.seed \in Values
    /\ errors \subseteq Streams
    /\ run = "record" => errors = {} /\ at = [s \in Streams |-> 0]

\* The reads of s in h were given the first k of x, one after the other, each
\* from where c says that the one before it has stopped; short ones are left out.
Offsets(c, h, s, x, k) ==
    /\ c[0] = 0 /\ c[Len(h)] = k
    /\ \A i \in 1..Len(h) :
          IF h[i].src = s /\ ~h[i].short
            THEN /\ c[i] = c[i - 1] + h[i].n
                 /\ \A j \in 1..h[i].n : h[i].answer[j] = x[c[i - 1] + j]
            ELSE c[i] = c[i - 1]

Given(h, s, x, k) == \E c \in [0..Len(h) -> 0..k] : Offsets(c, h, s, x, k)

\* The evidence of a run is what its guest was given, stream by stream: all of
\* it, in order, and nothing else.
EvidenceComplete ==
    run = "record" =>
        \A s \in Streams :
           IF ModeOf(s) = "record" THEN Given(hist, s, evidence[s], Len(evidence[s]))
                                   ELSE evidence[s] = <<>>

\* Whatever guest a replay runs, the evidence is still that of the recorded
\* run, and a recorded source gives the guest a beginning of it, in order, or
\* zeros and an error.
ReplayFromEvidence ==
    run = "replay" =>
        \A s \in Streams :
           ModeOf(s) = "record" =>
              /\ Given(recorded, s, evidence[s], Len(evidence[s]))
              /\ Given(hist, s, evidence[s], at[s])
              /\ (\E i \in DOMAIN hist : hist[i].src = s /\ hist[i].short) => s \in errors

\* With every source recorded and nothing read from outside, the same guest
\* sees in the replay what it saw in the recorded run, and no evidence is
\* missing unless the recorded run was cut off.
ReplaySame ==
    /\ run = "replay" /\ sameGuest
    /\ caps = [clocks |-> "record", random |-> "record"]
    /\ ~\E i \in DOMAIN recorded : recorded[i].src = "outside"
    => /\ \/ IsPrefix(Seen(hist), Seen(recorded))
          \/ cut /\ IsPrefix(Seen(recorded), Seen(hist))
       /\ errors # {} => cut
=============================================================================
