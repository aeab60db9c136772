---------------------------- MODULE ComponentRun ----------------------------
(***************************************************************************)
(* x07-wasm component run, invoked again and again over one file system    *)
(* (crates/x07-wasm/src/component/run.rs, guest_diag.rs).                  *)
(*                                                                         *)
(* An invocation runs a command component with its output captured, turns  *)
(* the outcome and the sentinel lines of stderr into diagnostics, writes   *)
(* an incident bundle file by file when there is an error, then the output *)
(* files, then the report.  Any write may fail, the process may be killed  *)
(* between and during writes, and the component file may be replaced while *)
(* nothing runs or before it is compiled.  A file is represented by the    *)
(* number of the invocation that wrote it.                                 *)
(***************************************************************************)
EXTENDS Naturals, Sequences, FiniteSets, ExitCode

CONSTANTS
    Components,  \* component files, up to their digest
    Missing,     \* no component file; its digest in reports is all zeros
    Inputs,      \* contents of stdin
    Args,        \* argument lists
    Paths,       \* output files
    None,        \* an option that is not given
    Invalid,     \* --args-json or --stdin that cannot be read
    Commands,    \* command lines
    Lines,       \* lines a guest writes to stderr
    OutputCap,   \* --max-output-bytes, in lines
    ScanCap,     \* MAX_SCAN_BYTES, in lines
    MaxRuns      \* bound: invocations

Sentinels == {"general", "budget", "tool", "unlisted"}
CodeLines == Sentinels \cup {"garbled"}
DataLines == {"data", "bad data"}

ASSUME ConstantsAssumption ==
    /\ Components # {} /\ Missing \notin Components
    /\ Invalid \notin Inputs \cup Args /\ None \notin Paths
    /\ Commands \subseteq [input : Inputs \cup {Invalid}, args : Args \cup {Invalid},
                             out : Paths \cup {None}, err : Paths \cup {None}, wall : BOOLEAN]
    /\ Lines \subseteq CodeLines \cup DataLines \cup {"text"}
    /\ OutputCap \in Nat /\ ScanCap \in Nat /\ MaxRuns \in Nat

VARIABLES
    deployed,  \* the file at --component
    pc,        \* "idle", "compile", "guest", "bundle", "stdout", "stderr" or "emit"
    started,   \* history: command line and component digest of each invocation
    diags,     \* diagnostics of the invocation
    outcome,   \* RunOutcome, "none" until the guest has ended
    stdout,    \* what the stdout pipe holds, as a length
    stderr,    \* the lines the stderr pipe holds
    cut,       \* history: a write did not fit into its pipe
    todo,      \* files of the incident bundle still to write
    incident,  \* incident_dir is set
    files,     \* the output files
    bundles,   \* the incident directories
    exit       \* exit code of the last invocation; 9 while it runs and when it was killed

vars == <<deployed, pc, started, diags, outcome, stdout, stderr, cut, todo, incident, files,
          bundles, exit>>

Deployments == Components \cup {Missing}
Runs        == 0..MaxRuns
Contents    == [of : Runs, whole : BOOLEAN]
Absent      == [of |-> 0, whole |-> FALSE]
BundleFiles == {"manifest", "stdin", "stdout", "stderr", "report"}
Keys        == [component : Deployments, input : Inputs]

this == Len(started)
cmd  == started[this].cmd
Own  == [of |-> this, whole |-> TRUE]
Torn == [of |-> this, whole |-> FALSE]

Init ==
    /\ deployed \in Deployments
    /\ pc = "idle"
    /\ started = <<>>
    /\ diags = {} /\ outcome = "none"
    /\ stdout = 0 /\ stderr = <<>> /\ cut = FALSE
    /\ todo = <<>> /\ incident = FALSE
    /\ files = [p \in Paths |-> Absent]
    /\ bundles = [k \in Keys |-> [f \in BundleFiles |-> Absent]]
    /\ exit = 9

-----------------------------------------------------------------------------
(* Before the guest runs.                                                  *)

\* Somebody builds another component or removes it.  Once it is compiled
\* the file is not read again.
Deploy ==
    /\ pc = "compile" \/ (pc = "idle" /\ this < MaxRuns)
    /\ deployed' \in Deployments \ {deployed}
    /\ UNCHANGED <<pc, started, diags, outcome, stdout, stderr, cut, todo, incident, files,
                   bundles, exit>>

ReadFailed  == Error("X07WASM_COMPONENT_RUN_COMPONENT_READ_FAILED", "parse", "general")
ArgsInvalid == Error("X07WASM_COMPONENT_RUN_ARGS_JSON_INVALID", "parse", "general")

\* A missing component and bad arguments are noted and the command goes on;
\* stdin that cannot be loaded ends it at once, without a report.
Start ==
    /\ pc = "idle"
    /\ this < MaxRuns
    /\ \E c \in Commands :
          /\ started' = Append(started, [cmd |-> c, component |-> deployed])
          /\ diags' = (IF deployed = Missing THEN {ReadFailed} ELSE {})
                      \cup (IF c.args = Invalid THEN {ArgsInvalid} ELSE {})
          /\ IF c.input = Invalid THEN pc' = "idle" /\ exit' = 2
                                  ELSE pc' = "compile" /\ exit' = 9
    /\ outcome' = "none"
    /\ stdout' = 0 /\ stderr' = <<>> /\ cut' = FALSE
    /\ todo' = <<>> /\ incident' = FALSE
    /\ UNCHANGED <<deployed, files, bundles>>

SetupErrors ==
    {Error("X07WASM_WASMTIME_ENGINE_FAILED", "run", "general"),
     Error("X07WASM_COMPONENT_RUN_COMPONENT_COMPILE_FAILED", "run", "general"),
     Error("X07WASM_COMPONENT_RUN_LINKER_FAILED", "run", "general")}

\* The early returns: a report, but neither a bundle nor output files.
SetupFails ==
    /\ pc = "compile"
    /\ \E d \in SetupErrors : diags' = diags \cup {d}
    /\ pc' = "emit"
    /\ UNCHANGED <<deployed, started, outcome, stdout, stderr, cut, todo, incident, files,
                   bundles, exit>>

Compile ==
    /\ pc = "compile"
    /\ deployed \in Components
    /\ pc' = "guest"
    /\ UNCHANGED <<deployed, started, diags, outcome, stdout, stderr, cut, todo, incident, files,
                   bundles, exit>>

-----------------------------------------------------------------------------
(* The guest and what is made of it.                                       *)

\* MemoryOutputPipe: a write takes what fits; a guest that goes on after that
\* is told that the stream is closed.
WriteStdout ==
    /\ pc = "guest"
    /\ \E n \in 1..2 :
          /\ stdout' = IF stdout + n <= OutputCap THEN stdout + n ELSE OutputCap
          /\ cut' = (cut \/ stdout + n > OutputCap)
    /\ UNCHANGED <<deployed, pc, started, diags, outcome, stderr, todo, incident, files, bundles,
                   exit>>

WriteStderr ==
    /\ pc = "guest"
    /\ IF Len(stderr) < OutputCap
         THEN (\E l \in Lines : stderr' = Append(stderr, l)) /\ UNCHANGED cut
         ELSE cut' = TRUE /\ UNCHANGED stderr
    /\ UNCHANGED <<deployed, pc, started, diags, outcome, stdout, todo, incident, files, bundles,
                   exit>>

Trapped    == Error("X07WASM_COMPONENT_RUN_TRAP", "run", "general")
OutputOver == Error("X07WASM_BUDGET_EXCEEDED_OUTPUT", "run", "budget")
\* Stands for fuel, stack, memory and table.
BudgetOver == Error("X07WASM_BUDGET_EXCEEDED_CPU_FUEL", "run", "budget")

AtCap == OutputCap > 0 /\ OutputCap \in {stdout, Len(stderr)}

\* Mutant of TrapDiags: only the message of the pipe counts.
TrapDiagsMessageOnly(cause, beyond) == {cause} \cup (IF beyond THEN {OutputOver} ELSE {})

TrapDiags(cause, beyond) == {cause} \cup (IF beyond \/ AtCap THEN {OutputOver} ELSE {})

\* extract_guest_diag_from_stderr, on the lines it looks at.
Scanned(err) == SubSeq(err, 1, IF Len(err) < ScanCap THEN Len(err) ELSE ScanCap)
At(err, kinds) == {i \in DOMAIN err : err[i] \in kinds}

Malformed(err) ==
    \/ Cardinality(At(err, CodeLines)) > 1
    \/ Cardinality(At(err, DataLines)) > 1
    \/ At(err, DataLines) # {} /\ At(err, CodeLines) = {}
    \/ At(err, {"garbled"}) # {}
    \/ At(err, {"bad data"}) # {}

HostDiag == Error("X07WASM_HOST_DIAG_CLI", "run", "general")

\* The family is what the guest's code spells; "unlisted" is a code that
\* guest_diag.rs takes and the schema of diagnostics refuses.
GuestDiag(code) ==
    Error(code, "run", IF code \in Families THEN code ELSE "general")

SentinelDiags(err) ==
    IF Malformed(Scanned(err)) THEN {HostDiag}
    ELSE {GuestDiag(Scanned(err)[i]) : i \in At(Scanned(err), CodeLines)}

SchemaAccepts(ds) == GuestDiag("unlisted") \notin ds

\* Files of the bundle in the order they are written; of empty streams none.
Bundle ==
    <<"manifest", "stdin">> \o (IF stdout > 0 THEN <<"stdout">> ELSE <<>>)
                            \o (IF stderr # <<>> THEN <<"stderr">> ELSE <<>>)

\* Mutant of Conclude: whether to keep a bundle is decided before stderr is read.
ConcludeTooEarly(how, ds) ==
    /\ pc = "guest"
    /\ outcome' = how
    /\ diags' = diags \cup ds \cup SentinelDiags(stderr)
    /\ IF ReportOk(diags \cup ds) THEN pc' = "stdout" /\ UNCHANGED todo
                                  ELSE pc' = "bundle" /\ todo' = Bundle
    /\ UNCHANGED <<deployed, started, stdout, stderr, cut, incident, files, bundles, exit>>

Conclude(how, ds) ==
    /\ pc = "guest"
    /\ outcome' = how
    /\ diags' = diags \cup ds \cup SentinelDiags(stderr)
    /\ IF ReportOk(diags') THEN pc' = "stdout" /\ UNCHANGED todo
                           ELSE pc' = "bundle" /\ todo' = Bundle
    /\ UNCHANGED <<deployed, started, stdout, stderr, cut, incident, files, bundles, exit>>

Returns  == Conclude("ok", {})
ExitsErr == Conclude("err", {Error("X07WASM_COMPONENT_RUN_EXIT_FAILURE", "run", "general")})
TimesOut == /\ pc = "guest" /\ cmd.wall
            /\ Conclude("timeout", {Error("X07WASM_BUDGET_EXCEEDED_WALLTIME", "run", "budget")})

\* Also when the component cannot be instantiated.  A guest that writes more
\* than the pipe has announced is trapped by it.
Traps ==
    \/ \E cause \in {BudgetOver, Trapped} : Conclude("trap", TrapDiags(cause, FALSE))
    \/ Conclude("trap", TrapDiags(Trapped, TRUE))

-----------------------------------------------------------------------------
(* The incident bundle, the output files and the report.                   *)

\* The directory depends on component and stdin alone, and on the day.
Key == [component |-> started[this].component, input |-> cmd.input]

BundleLost == Warning("X07WASM_INCIDENT_BUNDLE_WRITE_FAILED", "run")

\* Mutant of WriteBundle: what is in the directory already is kept.
WriteBundleOnce ==
    /\ pc = "bundle"
    /\ bundles' = IF bundles[Key][Head(todo)] = Absent
                    THEN [bundles EXCEPT ![Key][Head(todo)] = Own] ELSE bundles
    /\ todo' = Tail(todo)
    /\ IF todo' = <<>> THEN incident' = TRUE /\ pc' = "stdout" ELSE UNCHANGED <<incident, pc>>
    /\ UNCHANGED <<deployed, started, diags, outcome, stdout, stderr, cut, files, exit>>

WriteBundle ==
    /\ pc = "bundle"
    /\ bundles' = [bundles EXCEPT ![Key][Head(todo)] = Own]
    /\ todo' = Tail(todo)
    /\ IF todo' = <<>> THEN incident' = TRUE /\ pc' = "stdout" ELSE UNCHANGED <<incident, pc>>
    /\ UNCHANGED <<deployed, started, diags, outcome, stdout, stderr, cut, files, exit>>

\* One file cannot be written: the rest is not tried, a warning is left.
LoseBundle ==
    /\ pc = "bundle"
    /\ bundles' \in {bundles, [bundles EXCEPT ![Key][Head(todo)] = Torn]}
    /\ diags' = diags \cup {BundleLost}
    /\ todo' = <<>>
    /\ pc' = "stdout"
    /\ UNCHANGED <<deployed, started, outcome, stdout, stderr, cut, incident, files, exit>>

WriteErrors == {Error("X07WASM_COMPONENT_RUN_STDOUT_WRITE_FAILED", "run", "tool"),
                Error("X07WASM_COMPONENT_RUN_STDERR_WRITE_FAILED", "run", "tool")}

\* Mutant of Deliver: a file that cannot be written is only warned about.
DeliverMildly(path, next) ==
    /\ \/ files' = [files EXCEPT ![path] = Own] /\ UNCHANGED diags
       \/ /\ files' \in {files, [files EXCEPT ![path] = Torn]}
          /\ diags' = diags \cup {Warning("X07WASM_COMPONENT_RUN_STDOUT_WRITE_FAILED", "run")}
    /\ pc' = next

Deliver(path, next) ==
    /\ \/ files' = [files EXCEPT ![path] = Own] /\ UNCHANGED diags
       \/ /\ files' \in {files, [files EXCEPT ![path] = Torn]}
          /\ \E d \in WriteErrors : diags' = diags \cup {d}
    /\ pc' = next

DeliverStdout ==
    /\ pc = "stdout"
    /\ IF cmd.out = None THEN pc' = "stderr" /\ UNCHANGED <<files, diags>>
                         ELSE Deliver(cmd.out, "stderr")
    /\ UNCHANGED <<deployed, started, outcome, stdout, stderr, cut, todo, incident, bundles, exit>>

DeliverStderr ==
    /\ pc = "stderr"
    /\ IF cmd.err = None THEN pc' = "emit" /\ UNCHANGED <<files, diags>>
                         ELSE Deliver(cmd.err, "emit")
    /\ UNCHANGED <<deployed, started, outcome, stdout, stderr, cut, todo, incident, bundles, exit>>

\* The bundle gets its copy first, without a look at the result.  A report
\* that its schema refuses, or that cannot be printed, ends the command with 2.
EmitReport ==
    /\ pc = "emit"
    /\ IF incident THEN bundles' \in {bundles, [bundles EXCEPT ![Key]["report"] = Own]}
                   ELSE UNCHANGED bundles
    /\ \/ SchemaAccepts(diags) /\ exit' = ExitCodeOf(diags)
       \/ exit' = 2
    /\ pc' = "idle"
    /\ UNCHANGED <<deployed, started, diags, outcome, stdout, stderr, cut, todo, incident, files>>

\* The process is killed, perhaps in the middle of a write.
Kill ==
    /\ pc # "idle"
    /\ pc' = "idle"
    /\ exit' = 9
    /\ \/ UNCHANGED <<files, bundles>>
       \/ /\ pc = "bundle"
          /\ bundles' = [bundles EXCEPT ![Key][Head(todo)] = Torn] /\ UNCHANGED files
       \/ /\ pc = "stdout" /\ cmd.out # None
          /\ files' = [files EXCEPT ![cmd.out] = Torn] /\ UNCHANGED bundles
       \/ /\ pc = "stderr" /\ cmd.err # None
          /\ files' = [files EXCEPT ![cmd.err] = Torn] /\ UNCHANGED bundles
    /\ diags' = {} /\ outcome' = "none"
    /\ stdout' = 0 /\ stderr' = <<>> /\ cut' = FALSE
    /\ todo' = <<>> /\ incident' = FALSE
    /\ UNCHANGED <<deployed, started>>

Rest == pc = "idle" /\ this = MaxRuns /\ UNCHANGED vars

Next ==
    \/ Deploy \/ Start \/ SetupFails \/ Compile
    \/ WriteStdout \/ WriteStderr \/ Returns \/ ExitsErr \/ TimesOut \/ Traps
    \/ WriteBundle \/ LoseBundle \/ DeliverStdout \/ DeliverStderr \/ EmitReport
    \/ Kill \/ Rest

Spec == Init /\ [][Next]_vars

-----------------------------------------------------------------------------
(* Properties.                                                             *)

TypeOK ==
    /\ deployed \in Deployments
    /\ pc \in {"idle", "compile", "guest", "bundle", "stdout", "stderr", "emit"}
    /\ started \in Seq([cmd : Commands, component : Deployments]) /\ this <= MaxRuns
    /\ pc # "idle" => this > 0 /\ cmd.input \in Inputs
    /\ outcome \in {"none", "ok", "err", "timeout", "trap"}
    /\ stdout \in 0..OutputCap
    /\ stderr \in Seq(Lines) /\ Len(stderr) <= OutputCap
    /\ cut \in BOOLEAN /\ incident \in BOOLEAN
    /\ todo \in Seq(BundleFiles) /\ (pc = "bundle" => todo # <<>>)
    /\ files \in [Paths -> Contents]
    /\ bundles \in [Keys -> [BundleFiles -> Contents]]
    /\ exit \in {0, 1, 2, 3, 4, 9}

\* Exit code 0 means that the guest has returned Ok, that the host saw no
\* sentinel line, and that the output files asked for hold this run's output,
\* whatever earlier runs, failed writes or kills have left at those paths.
SuccessDelivered ==
    pc = "idle" /\ exit = 0 =>
        /\ outcome = "ok"
        /\ At(Scanned(stderr), CodeLines \cup DataLines) = {}
        /\ cmd.err # None => files[cmd.err] = Own
        /\ cmd.out # None => files[cmd.out] = Own

\* An error of the run leaves its bundle or a word about it, even when the
\* report itself is lost.  Errors before the guest runs and failing output
\* files leave none.
FailureRecorded ==
    pc = "idle" /\ exit # 9 /\ outcome # "none" /\ Errors(diags) \ WriteErrors # {} =>
        incident \/ BundleLost \in diags

\* The bundle a finished command names is its own in every file it wrote, over
\* whatever an earlier run with the same component and stdin, or one killed
\* half way, has left there.  A file of an empty stream is not removed.
BundleOfThisRun ==
    pc = "idle" /\ exit # 9 /\ incident =>
        LET b == bundles[Key] IN
        /\ b["manifest"] = Own /\ b["stdin"] = Own
        /\ stdout > 0     => b["stdout"] = Own
        /\ stderr # <<>>  => b["stderr"] = Own

\* A bundle is never handed to another cause: whoever wrote its files last ran
\* the component with the digest, and the stdin, that its directory stands for.
BundlesKeepCause ==
    \A i \in DOMAIN started, f \in BundleFiles, k \in Keys :
        bundles[k][f].of = i => started[i].component = k.component /\ started[i].cmd.input = k.input

\* A guest whose output did not fit and that trapped is reported to have
\* exceeded the output budget, whichever way the pipe told it.
OverflowReported ==
    OutputCap > 0 /\ cut /\ outcome = "trap" => OutputOver \in diags
=============================================================================
