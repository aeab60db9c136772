------------------------------- MODULE WasmRun -------------------------------
(***************************************************************************)
(* x07-wasm run, by several processes over one file system while somebody  *)
(* rebuilds the module (crates/x07-wasm/src/wasm/run.rs, incident.rs,      *)
(* inspect.rs, memory_plan.rs, blob.rs).                                   *)
(*                                                                         *)
(* A process reads the module once, checks it against the profile, calls   *)
(* x07_solve_v2, delivers the output, and when there is an error collects  *)
(* an incident bundle and writes it file by file into a directory named    *)
(* after the module and the input.  A file is written in two steps, cut    *)
(* to nothing and filled, and nothing keeps two processes from doing so    *)
(* at once.  A process may be killed at any time.                          *)
(***************************************************************************)
EXTENDS Naturals, Sequences, FiniteSets, ExitCode

CONSTANTS
    Procs,      \* processes, each one invocation
    Builds,     \* what successive builds put at --wasm, in order
    Inputs,     \* contents of --input
    Paths,      \* output files
    None,       \* an option, a limit or a memory maximum that is not given
    Commands    \* command lines, with what the profile expects of the memory

Limits == Nat \cup {None}

ASSUME ConstantsAssumption ==
    /\ None \notin Nat \cup Procs \cup Paths
    /\ Builds \in Seq([initial : Nat, max : Limits]) /\ Len(Builds) \in Nat \ {0}
    /\ Commands \subseteq [input : Inputs, out : Paths \cup {None},
                             json : BOOLEAN, initial : Limits, max : Limits, fixed : BOOLEAN]

\* Build 0 is no module at all; its digest in reports is all zeros.
Modules     == 0..Len(Builds)
\* stderr.txt, written last, goes the way of the report.
BundleFiles == {"input", "report", "manifest"}
Keys        == [module : Modules, input : Inputs]
Writers     == Procs \cup {None}
Contents    == [by : Writers, whole : BOOLEAN]
Absent      == [by |-> None, whole |-> FALSE]
Own(p)      == [by |-> p, whole |-> TRUE]
Torn(p)     == [by |-> p, whole |-> FALSE]

VARIABLES
    module,    \* the build whose module lies at --wasm
    manifest,  \* the build whose artifact manifest lies next to it, 0 for none
    pc,        \* "start", "read", "call", "output", "collect", "bundle", "emit" or "done"
    cmd,       \* command line
    ran,       \* the build that was read, as the report names it
    diags,     \* diagnostics
    about,     \* the builds the manifest of the bundle speaks of
    todo,      \* files of the bundle still to write
    open,      \* a file is cut to nothing and not filled yet
    files,     \* the output files
    bundles,   \* the incident directories
    shown,     \* what the caller gets to see: "output", "report", "error"; "held" when the
               \* tail of the output went to the buffer of stdout, "lost" when it stayed there
    steady,    \* history: from the reading of the module to that of its manifest neither changed
    recorded,  \* history: the bundle was written to its end
    exit       \* exit code; 9 until there is one

here  == <<module, manifest>>
vars  == <<module, manifest, pc, cmd, ran, diags, about, todo, open, files, bundles, shown,
           steady, recorded, exit>>

Init ==
    /\ module \in 0..1 /\ manifest \in 0..module
    /\ pc = [p \in Procs |-> "start"]
    /\ cmd \in [Procs -> Commands]
    /\ ran = [p \in Procs |-> 0]
    /\ diags = [p \in Procs |-> {}]
    /\ about = [p \in Procs |-> {}]
    /\ todo = [p \in Procs |-> <<>>]
    /\ open = [p \in Procs |-> FALSE]
    /\ files = [f \in Paths |-> Absent]
    /\ bundles = [k \in Keys |-> [f \in BundleFiles |-> Absent]]
    /\ shown = [p \in Procs |-> {}]
    /\ steady = [p \in Procs |-> FALSE]
    /\ recorded = [p \in Procs |-> FALSE]
    /\ exit = [p \in Procs |-> 9]

-----------------------------------------------------------------------------
(* x07-wasm build: the module first, then its manifest, or none.           *)

\* When every process has ended it is of no concern any more.
Rebuild ==
    /\ module < Len(Builds)
    /\ \E p \in Procs : pc[p] # "done"
    /\ module' = module + 1
    /\ steady' = [p \in Procs |-> steady[p] /\ pc[p] \notin {"call", "output", "collect"}]
    /\ UNCHANGED <<manifest, pc, cmd, ran, diags, about, todo, open, files, bundles, shown,
                   recorded, exit>>

WriteManifest ==
    /\ manifest < module
    /\ \E p \in Procs : pc[p] # "done"
    /\ manifest' = module
    /\ UNCHANGED <<module, pc, cmd, ran, diags, about, todo, open, files, bundles, shown, steady,
                   recorded, exit>>

-----------------------------------------------------------------------------
(* Up to the call.                                                         *)

General(code) == Error(code, "run", "general")
Parse(code)   == Error(code, "parse", "general")

Goto(p, where) == pc' = [pc EXCEPT ![p] = where]
Say(p, ds)     == diags' = [diags EXCEPT ![p] = @ \cup ds]
Show(p, what)  == shown' = [shown EXCEPT ![p] = @ \cup what]

\* Stands for a profile that cannot be loaded as well.
InputFailed   == Parse("X07WASM_INPUT_READ_FAILED")
ReadFailed    == Parse("X07WASM_WASM_READ_FAILED")
InspectFailed == General("X07WASM_WASM_INSPECT_FAILED")

\* Without a profile or an input there is a report and nothing else.
Start(p) ==
    /\ pc[p] = "start"
    /\ \/ Goto(p, "read") /\ UNCHANGED diags
       \/ Goto(p, "emit") /\ Say(p, {InputFailed})
    /\ UNCHANGED <<here, cmd, ran, about, todo, open, files, bundles, shown, steady, recorded,
                   exit>>

\* A limit that is not given is not compared; a memory without a maximum
\* counts as one that ends where it begins.
Differs(limit, pages) == limit # None /\ limit # pages

Growable(b) == b.max = None \/ b.max > b.initial

\* All are noted before any of them ends the command.
MemoryErrors(b, c) ==
    LET last == IF b.max = None THEN b.initial ELSE b.max IN
    (IF b.initial = 0 THEN {General("X07WASM_WASM_NO_MEMORY")} ELSE {})
    \cup (IF Differs(c.initial, b.initial)
            THEN {General("X07WASM_MEMORY_INITIAL_MISMATCH")} ELSE {})
    \cup (IF Differs(c.max, last) THEN {General("X07WASM_MEMORY_MAX_MISMATCH")} ELSE {})
    \cup (IF c.fixed /\ Growable(b) THEN {General("X07WASM_MEMORY_GROWABLE")} ELSE {})

\* A module that is missing or does not parse, as one that the linker is still
\* writing, leaves the placeholder in the report.
ReadModule(p) ==
    /\ pc[p] = "read"
    /\ \/ /\ module = 0
          /\ Say(p, {ReadFailed}) /\ Goto(p, "collect")
          /\ UNCHANGED <<ran, steady>>
       \/ /\ module # 0
          /\ Say(p, {InspectFailed}) /\ Goto(p, "collect")
          /\ UNCHANGED <<ran, steady>>
       \/ /\ module # 0
          /\ LET ds == MemoryErrors(Builds[module], cmd[p]) IN
             Say(p, ds) /\ Goto(p, IF ds = {} THEN "call" ELSE "collect")
          /\ ran' = [ran EXCEPT ![p] = module]
          /\ steady' = [steady EXCEPT ![p] = manifest \in {0, module}]
    /\ UNCHANGED <<here, cmd, about, todo, open, files, bundles, shown, recorded, exit>>

\* Stands for missing exports, the engine and its limits, validation, the
\* compiler, imports, fuel, the instance, its exports and its globals.
SetupErrors == {General("X07WASM_WASM_INSTANTIATE_FAILED")}

SetupFails(p) ==
    /\ pc[p] = "call"
    /\ \E d \in SetupErrors : Say(p, {d})
    /\ Goto(p, "collect")
    /\ UNCHANGED <<here, cmd, ran, about, todo, open, files, bundles, shown, steady, recorded,
                   exit>>

\* The output is too long, a budget of the engine is exceeded, or anything else;
\* which of them is told by SolveAbi.
CallErrors == {General("X07WASM_RUN_FAILED")}

CallFails(p) ==
    /\ pc[p] = "call"
    /\ \E d \in CallErrors : Say(p, {d})
    /\ Goto(p, "collect")
    /\ UNCHANGED <<here, cmd, ran, about, todo, open, files, bundles, shown, steady, recorded,
                   exit>>

CallReturns(p) ==
    /\ pc[p] = "call"
    /\ Goto(p, "output")
    /\ UNCHANGED <<here, cmd, ran, diags, about, todo, open, files, bundles, shown, steady,
                   recorded, exit>>

-----------------------------------------------------------------------------
(* The output.                                                             *)

\* Or X07WASM_OUTPUT_IO_FAILED, when its directory cannot be made.
OutputWriteFailed == Error("X07WASM_OUTPUT_WRITE_FAILED", "run", "tool")

\* fs::write: the file is cut to nothing, then filled.
OpenOutput(p) ==
    /\ pc[p] = "output" /\ cmd[p].out # None /\ ~open[p]
    /\ files' = [files EXCEPT ![cmd[p].out] = Torn(p)]
    /\ open' = [open EXCEPT ![p] = TRUE]
    /\ UNCHANGED <<here, pc, cmd, ran, diags, about, todo, bundles, shown, steady, recorded, exit>>

\* What another process wrote since is overwritten, its end may remain.
Filled(p, content) ==
    IF content.by = p THEN {Own(p)} ELSE {Own(p), Torn(p)}

\* Mutant: what could not be written is not noticed.
FillOutputUnchecked(p) ==
    /\ pc[p] = "output" /\ open[p]
    /\ files' \in {files} \cup {[files EXCEPT ![cmd[p].out] = w] : w \in Filled(p, files[cmd[p].out])}
    /\ open' = [open EXCEPT ![p] = FALSE]
    /\ Goto(p, "emit")
    /\ UNCHANGED <<here, cmd, ran, diags, about, todo, bundles, shown, steady, recorded, exit>>

FillOutput(p) ==
    /\ pc[p] = "output" /\ open[p]
    /\ \E w \in Filled(p, files[cmd[p].out]) : files' = [files EXCEPT ![cmd[p].out] = w]
    /\ open' = [open EXCEPT ![p] = FALSE]
    /\ Goto(p, "emit")
    /\ UNCHANGED <<here, cmd, ran, diags, about, todo, bundles, shown, steady, recorded, exit>>

\* No directory, no permission, no space.
OutputFails(p) ==
    /\ pc[p] = "output" /\ cmd[p].out # None
    /\ Say(p, {OutputWriteFailed})
    /\ open' = [open EXCEPT ![p] = FALSE]
    /\ Goto(p, "collect")
    /\ UNCHANGED <<here, cmd, ran, about, todo, files, bundles, shown, steady, recorded, exit>>

\* Without a file and without --json the bytes go to stdout, which is buffered
\* by lines and not flushed: a write that fails ends the command on the spot,
\* but what follows the last newline may only have been taken into the buffer.
\* With --json short output is inlined.
PrintOutput(p) ==
    /\ pc[p] = "output" /\ cmd[p].out = None
    /\ \/ /\ cmd[p].json
          /\ Goto(p, "emit") /\ UNCHANGED <<shown, exit>>
       \/ /\ ~cmd[p].json
          /\ \E what \in {"output", "held"} : Show(p, {what})
          /\ Goto(p, "emit") /\ UNCHANGED exit
       \/ /\ ~cmd[p].json
          /\ Show(p, {"error"})
          /\ Goto(p, "done") /\ exit' = [exit EXCEPT ![p] = 2]
    /\ UNCHANGED <<here, cmd, ran, diags, about, todo, open, files, bundles, steady, recorded>>

-----------------------------------------------------------------------------
(* The incident bundle.                                                    *)

\* The day is left out.
Key(p) == [module |-> ran[p], input |-> cmd[p].input]

BundleOrder == <<"input", "report", "manifest">>

\* The artifact manifest is copied; when there is none, one is made up from
\* the report and the module, which is read again.  The placeholder's path has
\* neither.
Collect(p) ==
    /\ pc[p] = "collect"
    /\ about' = [about EXCEPT ![p] = IF ran[p] = 0 THEN {}
                                     ELSE IF manifest # 0 THEN {manifest}
                                     ELSE {ran[p], module}]
    /\ todo' = [todo EXCEPT ![p] = BundleOrder]
    /\ Goto(p, "bundle")
    /\ UNCHANGED <<here, cmd, ran, diags, open, files, bundles, shown, steady, recorded, exit>>

OpenBundleFile(p) ==
    /\ pc[p] = "bundle" /\ ~open[p]
    /\ bundles' = [bundles EXCEPT ![Key(p)][Head(todo[p])] = Torn(p)]
    /\ open' = [open EXCEPT ![p] = TRUE]
    /\ UNCHANGED <<here, pc, cmd, ran, diags, about, todo, files, shown, steady, recorded, exit>>

\* Mutant: the manifest is read when it is copied.
FillBundleFileLate(p) ==
    /\ pc[p] = "bundle" /\ open[p]
    /\ LET f == Head(todo[p]) IN
       /\ \E w \in IF f = "input" THEN {Own(p)} ELSE Filled(p, bundles[Key(p)][f]) :
             bundles' = [bundles EXCEPT ![Key(p)][f] = w]
       /\ about' = IF f = "manifest" /\ ran[p] # 0 /\ manifest # 0
                     THEN [about EXCEPT ![p] = {manifest}] ELSE about
    /\ open' = [open EXCEPT ![p] = FALSE]
    /\ todo' = [todo EXCEPT ![p] = Tail(@)]
    /\ IF todo'[p] = <<>>
         THEN Goto(p, "emit") /\ recorded' = [recorded EXCEPT ![p] = TRUE]
         ELSE UNCHANGED <<pc, recorded>>
    /\ UNCHANGED <<here, cmd, ran, diags, files, shown, steady, exit>>

\* The input is the same whoever writes it.
FillBundleFile(p) ==
    /\ pc[p] = "bundle" /\ open[p]
    /\ LET f == Head(todo[p]) IN
       \E w \in IF f = "input" THEN {Own(p)} ELSE Filled(p, bundles[Key(p)][f]) :
          bundles' = [bundles EXCEPT ![Key(p)][f] = w]
    /\ open' = [open EXCEPT ![p] = FALSE]
    /\ todo' = [todo EXCEPT ![p] = Tail(@)]
    /\ IF todo'[p] = <<>>
         THEN Goto(p, "emit") /\ recorded' = [recorded EXCEPT ![p] = TRUE]
         ELSE UNCHANGED <<pc, recorded>>
    /\ UNCHANGED <<here, cmd, ran, diags, about, files, shown, steady, exit>>

BundleLost == Warning("X07WASM_INCIDENT_BUNDLE_WRITE_FAILED", "run")

\* Mutant: the file that failed is left out.
LoseBundleSkipping(p) ==
    /\ pc[p] = "bundle"
    /\ Say(p, {BundleLost})
    /\ open' = [open EXCEPT ![p] = FALSE]
    /\ todo' = [todo EXCEPT ![p] = Tail(@)]
    /\ IF todo'[p] = <<>>
         THEN Goto(p, "emit") /\ recorded' = [recorded EXCEPT ![p] = TRUE]
         ELSE UNCHANGED <<pc, recorded>>
    /\ UNCHANGED <<here, cmd, ran, about, files, bundles, shown, steady, exit>>

\* Mutant: no word about it.
LoseBundleQuietly(p) ==
    /\ pc[p] = "bundle"
    /\ open' = [open EXCEPT ![p] = FALSE]
    /\ todo' = [todo EXCEPT ![p] = <<>>]
    /\ Goto(p, "emit")
    /\ UNCHANGED <<here, cmd, ran, diags, about, files, bundles, shown, steady, recorded, exit>>

\* The rest of the files is not tried.
LoseBundle(p) ==
    /\ pc[p] = "bundle"
    /\ Say(p, {BundleLost})
    /\ open' = [open EXCEPT ![p] = FALSE]
    /\ todo' = [todo EXCEPT ![p] = <<>>]
    /\ Goto(p, "emit")
    /\ UNCHANGED <<here, cmd, ran, about, files, bundles, shown, steady, recorded, exit>>

\* The buffer of stdout is emptied as the process exits, whose code is settled
\* by then: a tail that cannot be written is dropped without a word.
AtExit(p) == IF "held" \in shown[p] THEN {{"output"}, {"lost"}} ELSE {{}}

\* The exit code is that of the diagnostics before the bundle was tried.  A
\* report its schema refuses, or that cannot be written, ends the command with 2.
EmitReport(p) ==
    /\ pc[p] = "emit"
    /\ \E tail \in AtExit(p) :
          \/ /\ exit' = [exit EXCEPT ![p] = ExitCodeOf(diags[p] \ {BundleLost})]
             /\ Show(p, tail \cup (IF cmd[p].json THEN {"report"} ELSE {}))
          \/ /\ exit' = [exit EXCEPT ![p] = 2]
             /\ Show(p, tail \cup {"error"})
    /\ Goto(p, "done")
    /\ UNCHANGED <<here, cmd, ran, diags, about, todo, open, files, bundles, steady, recorded>>

\* Elsewhere a killed process is as good as one that takes no more steps.
Kill(p) ==
    /\ pc[p] \in {"output", "bundle"}
    /\ Goto(p, "done")
    /\ UNCHANGED <<here, cmd, ran, diags, about, todo, open, files, bundles, shown, steady,
                   recorded, exit>>

Rest == (\A p \in Procs : pc[p] = "done") /\ UNCHANGED vars

Next ==
    \/ Rebuild \/ WriteManifest
    \/ \E p \in Procs :
          \/ Start(p) \/ ReadModule(p) \/ SetupFails(p) \/ CallFails(p) \/ CallReturns(p)
          \/ OpenOutput(p) \/ FillOutput(p) \/ OutputFails(p) \/ PrintOutput(p)
          \/ Collect(p) \/ OpenBundleFile(p) \/ FillBundleFile(p) \/ LoseBundle(p)
          \/ EmitReport(p) \/ Kill(p)
    \/ Rest

Spec == Init /\ [][Next]_vars

-----------------------------------------------------------------------------
(* Properties.                                                             *)

\* What a run may say.
Names ==
    {"X07WASM_INPUT_READ_FAILED", "X07WASM_WASM_READ_FAILED", "X07WASM_WASM_INSPECT_FAILED",
     "X07WASM_WASM_NO_MEMORY", "X07WASM_MEMORY_INITIAL_MISMATCH", "X07WASM_MEMORY_MAX_MISMATCH",
     "X07WASM_MEMORY_GROWABLE", "X07WASM_WASM_INSTANTIATE_FAILED", "X07WASM_RUN_FAILED",
     "X07WASM_OUTPUT_WRITE_FAILED", "X07WASM_INCIDENT_BUNDLE_WRITE_FAILED"}

Diagnostics == [name : Names, severity : Severities, stage : Stages, family : Families]

TypeOK ==
    /\ module \in Modules /\ manifest \in 0..module
    /\ pc \in [Procs -> {"start", "read", "call", "output", "collect", "bundle", "emit", "done"}]
    /\ cmd \in [Procs -> Commands]
    /\ ran \in [Procs -> Modules]
    /\ diags \in [Procs -> SUBSET Diagnostics]
    /\ about \in [Procs -> SUBSET Modules]
    /\ todo \in [Procs -> Seq(BundleFiles)]
    /\ \A p \in Procs : pc[p] = "bundle" => todo[p] # <<>>
    /\ open \in [Procs -> BOOLEAN] /\ steady \in [Procs -> BOOLEAN]
    /\ recorded \in [Procs -> BOOLEAN]
    /\ files \in [Paths -> Contents]
    /\ bundles \in [Keys -> [BundleFiles -> Contents]]
    /\ shown \in [Procs -> SUBSET {"output", "held", "lost", "report", "error"}]
    /\ exit \in [Procs -> {0, 1, 2, 3, 4, 9}]

Ended(p)  == pc[p] = "done" /\ exit[p] # 9

\* An error that calls for a bundle.
Failing(p) == Errors(diags[p]) \ {InputFailed} # {}

Rivals(p) == {q \in Procs \ {p} : cmd[q].out = cmd[p].out}

\* Exit code 0 means that the output was delivered whole, and that no bundle
\* was left behind, but in two cases: another process writes to the same file,
\* or all that could be written at once was, and a tail without a newline,
\* left to the buffer of stdout, was lost when the process exited.
SuccessDelivered ==
    \A p \in Procs :
        Ended(p) /\ exit[p] = 0 =>
            /\ cmd[p].out # None /\ Rivals(p) = {} => files[cmd[p].out] = Own(p)
            /\ cmd[p].out = None /\ ~cmd[p].json =>
                  "output" \in shown[p] \/ {"held", "lost"} \subseteq shown[p]
            /\ \A k \in Keys, f \in BundleFiles : bundles[k][f].by # p

\* "On x07-wasm run failures, an incident bundle is written": a run that has
\* read its input and whose diagnostics hold an error leaves one, or a warning.
\* And a command that fails says why: in its bundle, in its report or on
\* stderr; only without --json is a failure that leaves no bundle told by the
\* exit code alone.
FailureRecorded ==
    \A p \in Procs :
        /\ Ended(p) /\ Failing(p) => recorded[p] \/ BundleLost \in diags[p]
        /\ Ended(p) /\ exit[p] # 0 =>
              \/ recorded[p]
              \/ shown[p] \cap {"report", "error"} # {}
              \/ ~cmd[p].json /\ diags[p] \cap {BundleLost, InputFailed} # {}

AtBundle(p, k) == pc[p] = "bundle" /\ Key(p) = k
\* Killed or failed while the bundle was half written.
LeftBundle(p, k) == ~recorded[p] /\ Key(p) = k /\ \E f \in BundleFiles : bundles[k][f].by = p

\* Whenever nobody is at a bundle that was written to its end, its input can
\* be replayed, and its report and manifest are not mixed unless a second
\* process with the same module and input was there; only one that was killed
\* or that failed in between may have cut a file.
BundleUsable ==
    \A p \in Procs :
        recorded[p] /\ (\A q \in Procs : ~AtBundle(q, Key(p)) /\ ~LeftBundle(q, Key(p))) =>
            LET b == bundles[Key(p)] IN
            /\ b["input"].whole
            /\ (\A q \in Procs \ {p} : Failing(q) => Key(q) # Key(p)) =>
                   \A f \in BundleFiles : b[f] = Own(p)

\* The directory a bundle lies in is named after the module that ran, however
\* often it was rebuilt since; all modules that cannot be parsed share one.
NamedAfterModule ==
    \A k \in Keys, f \in BundleFiles, p \in Procs :
        bundles[k][f].by = p => k.module = ran[p] /\ k.input = cmd[p].input

\* The manifest in a bundle speaks of the module that ran, and of no other,
\* unless the module was rebuilt before its manifest was looked at, or lay
\* beside an older manifest already when it was read.
ManifestOfModule ==
    \A p \in Procs :
        pc[p] \in {"bundle", "emit", "done"} /\ steady[p] => about[p] \subseteq {ran[p]}

\* A bundle stands for the module that ran: in its name and in its manifest.
BundlesKeepModule == NamedAfterModule /\ ManifestOfModule

\* With a profile that gives all three expectations, as the shipped ones do,
\* no module is called whose memory is not fixed at what they say.
MemoryFixed ==
    \A p \in Procs :
        pc[p] \in {"call", "output"} /\ cmd[p].fixed /\ cmd[p].initial # None /\ cmd[p].max # None =>
            Builds[ran[p]].initial = cmd[p].initial /\ Builds[ran[p]].max = cmd[p].max
=============================================================================
