---------------------------- MODULE ArtifactBuild ----------------------------
(***************************************************************************)
(* x07-wasm build and x07-wasm component build, invoked again and again    *)
(* over one output directory (crates/x07-wasm/src/wasm/build.rs,           *)
(* component/build.rs, component/compose.rs, adapters.rs, util.rs).        *)
(*                                                                         *)
(* A build is a pipeline of external programs, each reading files the ones *)
(* before it have written, with a digest taken of the product and put into *)
(* a manifest next to it.  Nothing is removed when a build starts, and     *)
(* whether a failing step ends its function, the whole build or nothing    *)
(* differs from step to step.  So what a step reads may have been left by  *)
(* an earlier invocation, one that failed or was killed half way included. *)
(*                                                                         *)
(* The pipelines are data: a function of the code is the sequence of its   *)
(* steps, an invocation works off `todo`, and there is one action per kind *)
(* of step.  The content of a file is the set of source generations that   *)
(* went into it; equal content stands for equal digests.                   *)
(*                                                                         *)
(* What is assumed of the programs: one that exits with 0 has written its  *)
(* output anew and to its end.  Two of them are not taken at their word,   *)
(* as they decide for themselves whether there is anything to do, and the  *)
(* code only looks whether there is a file when they are done: x07 as the  *)
(* native backend, and cargo, whose output is read at a fixed path in its  *)
(* target directory.  These may exit with 0 and leave that file as it was. *)
(***************************************************************************)
EXTENDS Naturals, Sequences, ExitCode

CONSTANTS
    Histories,  \* the command lines, one after the other, a directory may see
    MaxSource   \* bound: generations of project, profiles and adapter sources

Emits    == {"wasm", "compose", "solve", "http", "http-state-doc", "cli", "http-native",
             "cli-native", "http-adapter", "cli-adapter", "all"}
Backends == {"c", "native"}

Lines == [emit : Emits, backend : Backends, clean : BOOLEAN, manifest : BOOLEAN,
           fromSource : BOOLEAN]

ASSUME ConstantsAssumption ==
    /\ \A h \in Histories : h \in Seq(Lines) /\ h # <<>>
    /\ MaxSource \in Nat \ {0}

Adapters == {"http-adapter", "http-state-doc-adapter", "cli-adapter"}
Products == {"wasm", "solve", "http", "cli"} \cup Adapters
Objects  == {"program.o", "solve glue.o", "http glue.o", "cli glue.o"}
\* Read only after the same function has written them anew.
Scratch  == {"program.c", "glue.c", "emit.o", "shim.o", "core", "tmp"}
\* What a program may leave as it was that exits with 0: solve.core.raw.wasm,
\* and the adapter in the target directory of cargo.
Outputs  == {"raw", "built"}
Files    == Products \cup Objects \cup Outputs \cup Scratch
\* Not in the directory that --clean removes.
Outside  == {"wasm", "built"}

Sources  == 1..MaxSource
\* claimed is history: it goes back to the output of a program that exited
\* with 0 and had left it as it was.
Contents == [from : SUBSET Sources, whole : BOOLEAN, claimed : BOOLEAN]
Absent   == [from |-> {}, whole |-> FALSE, claimed |-> FALSE]
Torn     == [from |-> Sources, whole |-> FALSE, claimed |-> FALSE]
Made(gs) == [from |-> gs, whole |-> TRUE, claimed |-> FALSE]
Claim(c) == [c EXCEPT !.claimed = TRUE]
There(c) == c.whole \/ c.from # {}

Ops    == {"make", "run", "look", "copy", "digest", "manifest", "check", "gate", "unlink", "rename", "clean", "emit",
           "solve", "call", "answer", "return"}
OnFail == {"note", "stop", "raise"}
Inputs == {"project", "profile", "crate"}

Step(op, reads, file, fail) == [op |-> op, reads |-> reads, file |-> file, fail |-> fail]
Steps == [op : Ops, reads : SUBSET (Files \cup Inputs), file : Files \cup {"none"}, fail : OnFail]

Make(reads, file, fail) == Step("make", reads, file, fail)
\* A program that may leave its output as it was, and the look for that.
Run(reads, file)        == Step("run", reads, file, "stop")
Look(file)              == Step("look", {}, file, "stop")
Copy(from, file)        == Step("copy", {from}, file, "stop")
Digest(file, fail)      == Step("digest", {file}, file, fail)
Manifest(file, fail)    == Step("manifest", {file}, file, fail)
Check(fail)             == Step("check", {}, "none", fail)
Require(files)          == Step("check", files, "none", "stop")
Gate                    == Step("gate", {}, "none", "stop")
\* A command of x07-wasm that another one calls and whose exit code it reads.
Call                    == Step("call", {}, "none", "stop")
Answer                  == Step("answer", {}, "none", "stop")
Nested(steps)           == <<Call>> \o steps \o <<Answer>>
\* A solve component, unless there is one.
SolveStep               == Step("solve", {}, "none", "raise")
\* The end of a function; "stop" when its caller catches the errors that it
\* passes on, "raise" when the caller passes them on as well.
Return(function, fail)  == Step("return", {}, function, fail)

-----------------------------------------------------------------------------
(* The pipelines.                                                          *)

\* Profile, backend, digests of project and entry, directories, dependencies.
WasmInputs == <<Check("stop")>>

\* x07 build and digests of what it wrote; with the native backend it writes
\* the module itself.
WasmCodegen(backend, out) ==
    <<IF backend = "c" THEN Make({"project", "profile"}, "program.c", "stop")
                       ELSE Run({"project", "profile"}, out),
      Check("stop")>>

\* Shim and clang, twice.
WasmObjects ==
    <<Make({}, "glue.c", "stop"), Check("note"), Make({"program.c"}, "emit.o", "stop"),
      Make({"glue.c"}, "shim.o", "stop")>>

\* wasm-ld, or only a look whether the module is there.
WasmLink(backend, out) ==
    IF backend = "c" THEN <<Make({"emit.o", "shim.o"}, out, "stop")>> ELSE <<Look(out)>>

\* Digest, inspection, exports and memory.
WasmInspect(out) == <<Digest(out, "stop"), Check("stop"), Check("note")>>

\* The artifact document; nobody reads that of the module that goes into a
\* native solve component.
WasmDescribe(out, manifest) ==
    CASE manifest /\ out = "raw" -> <<Check("note")>>
      [] manifest /\ out # "raw" -> <<Manifest(out, "note")>>
      [] OTHER -> <<>>

WasmBuild(backend, out, manifest) ==
    WasmInputs \o WasmCodegen(backend, out)
    \o (IF backend = "c" THEN WasmObjects ELSE <<>>) \o WasmLink(backend, out)
    \o WasmInspect(out) \o WasmDescribe(out, manifest)

GlueObject(kind) ==
    CASE kind = "solve" -> "solve glue.o" [] kind = "http" -> "http glue.o" [] OTHER -> "cli glue.o"

\* Mode, directory, dependencies, x07 build.
Codegen == <<Check("stop"), Make({"project"}, "program.c", "stop"), Digest("program.c", "raise")>>

\* wit-bindgen, shims and glue, where the limits of the profile come in.
Glue == <<Make({"profile"}, "glue.c", "stop"), Digest("glue.c", "raise")>>

\* compile_one_c notes a failure and lets its caller go on.
Objs(kind) == <<Make({"program.c"}, "program.o", "note"), Make({"glue.c"}, GlueObject(kind), "note")>>

Link(kind) == <<Make({"program.o", GlueObject(kind)}, "core", "stop"), Digest("core", "raise")>>

\* Mutant: a component that was not made is noted and described.
ComponentizeGoesOn(kind) == <<Make({"core"}, kind, "note"), Digest(kind, "raise")>>

\* wasm-tools component new, and the artifact document.
Componentize(kind) == <<Make({"core"}, kind, "stop"), Digest(kind, "raise")>>
Describe(kind)     == <<Check("stop"), Manifest(kind, "raise")>>

FromC(kind) == Codegen \o Glue \o Objs(kind) \o Link(kind) \o Componentize(kind) \o Describe(kind)

HttpNative == FromC("http") \o <<Return("http", "stop")>>
CliNative  == FromC("cli") \o <<Return("cli", "stop")>>

\* The module of a nested x07-wasm build gets the exports of the canonical ABI.
SolveNative ==
    <<Check("stop")>> \o Nested(WasmBuild("native", "raw", TRUE))
    \o <<Make({"raw", "profile"}, "core", "raise"), Digest("core", "raise")>>
    \o Componentize("solve") \o Describe("solve")

Solve(backend) ==
    (IF backend = "c" THEN FromC("solve") ELSE SolveNative) \o <<Return("solve", "raise")>>

\* The bytes are embedded, or cargo builds them and they are read at a fixed
\* path.  write_bytes removes the old component and its temporary file, writes
\* the temporary file and renames it.
Adapter(name, fromSource) ==
    (IF fromSource THEN <<Run({"crate"}, "built"), Look("built")>> ELSE <<>>)
    \o <<Step("unlink", {}, name, "stop"),
         IF fromSource THEN Copy("built", "tmp") ELSE Make({}, "tmp", "stop"),
         Step("rename", {"tmp"}, name, "stop")>>
    \o <<Digest(name, "stop"), Check("stop"), Manifest(name, "stop")>>

\* Mutant: the artifact document is written before the output is digested.
ComposeDescribesFirst(adapter, out) ==
    <<Digest("solve", "note"), Digest(adapter, "note"), Check("note"), Gate,
      Make({"solve", adapter}, out, "stop"), Check("stop"), Manifest(out, "note"),
      Digest(out, "note")>>

\* x07-wasm component compose: its inputs are noted, wac plugs them together.
Compose(adapter, out) ==
    <<Digest("solve", "note"), Digest(adapter, "note"), Check("note"), Gate>>
    \o <<Make({"solve", adapter}, out, "stop"), Digest(out, "note"), Check("stop"),
         Manifest(out, "note")>>

\* build_composed_component: only that the parts are there is asked before
\* they are composed.
Composed(adapter, out, fromSource) ==
    <<SolveStep>> \o Adapter(adapter, fromSource) \o <<Return(adapter, "raise")>>
    \o <<Require({"solve", adapter})>> \o Nested(Compose(adapter, out))
    \o <<Return(out, "stop")>>

\* The dispatch on --emit.
Emit(c) ==
    CASE c.emit = "solve"          -> <<SolveStep, Return("none", "stop")>>
      [] c.emit = "http"           -> Composed("http-adapter", "http", c.fromSource)
      [] c.emit = "http-state-doc" -> Composed("http-state-doc-adapter", "http", c.fromSource)
      [] c.emit = "cli"            -> Composed("cli-adapter", "cli", c.fromSource)
      [] c.emit = "http-native"    -> HttpNative
      [] c.emit = "cli-native"     -> CliNative
      [] c.emit \in Adapters       -> Adapter(c.emit, c.fromSource) \o <<Return("none", "stop")>>
      [] c.emit = "all"            -> <<SolveStep, Return("none", "stop")>>
                                      \o Composed("http-adapter", "http", c.fromSource)
                                      \o Composed("cli-adapter", "cli", c.fromSource)

\* Project digest, the two profiles, --clean, the directory.
ComponentBuild(c) ==
    <<Check("note"), Check("stop")>>
    \o (IF c.clean THEN <<Step("clean", {}, "none", "note")>> ELSE <<>>)
    \o <<Check("note"), Gate, Step("emit", {}, "none", "stop")>>

\* x07-wasm component compose with --targets-check, on parts that lie there.
ComposeCommand == Compose("http-adapter", "http") \o <<Check("note")>>

Pipeline(c) ==
    CASE c.emit = "wasm"    -> WasmBuild(c.backend, "wasm", c.manifest)
      [] c.emit = "compose" -> ComposeCommand
      [] OTHER              -> ComponentBuild(c)

-----------------------------------------------------------------------------
VARIABLES
    source,     \* generation of project, profiles and adapter sources
    files,      \* the files of the output directory
    manifests,  \* the manifests next to the products
    history,    \* the command lines of this directory
    runs,       \* invocations so far
    running,    \* the last of them is under way
    loaded,     \* generation of the profiles it has loaded
    todo,       \* its steps
    noted,      \* the digest taken last
    diags,      \* its diagnostics
    nested,     \* a nested command is running
    inner,      \* the diagnostics of that one
    core,       \* build_solve_component has the digest of the core module
    solved,     \* solve_core_wasm_digest is set
    failed,     \* history: a step of this invocation failed by itself
    exit        \* exit code of the last invocation; 9 while it runs and when it was killed

disk  == <<files, manifests>>
memo  == <<noted, core, solved>>
said  == <<diags, nested, inner>>
fixed == <<source, history, runs, running, loaded, exit>>
vars  == <<source, files, manifests, history, runs, running, loaded, todo, noted, diags, nested,
           inner, core, solved, failed, exit>>

Unread == [of |-> Absent, whole |-> FALSE]

\* The command line of the last invocation.
cmd == history[runs]

Init ==
    /\ source = 1
    /\ files = [f \in Files |-> Absent]
    /\ manifests = [p \in Products |-> Unread]
    /\ history \in Histories
    /\ runs = 0 /\ running = FALSE /\ loaded = 1
    /\ todo = <<>>
    /\ noted = Absent /\ core = FALSE /\ solved = FALSE
    /\ diags = {} /\ nested = FALSE /\ inner = {}
    /\ failed = FALSE
    /\ exit = 9

\* Somebody edits the sources, during a build or between two.
EditSource ==
    /\ source < MaxSource
    /\ source' = source + 1
    /\ UNCHANGED <<disk, history, runs, running, loaded, todo, memo, said, failed, exit>>

Start ==
    /\ ~running
    /\ runs < Len(history)
    /\ runs' = runs + 1 /\ running' = TRUE /\ loaded' = source
    /\ todo' = Pipeline(history[runs + 1])
    /\ noted' = Absent /\ core' = FALSE /\ solved' = FALSE
    /\ diags' = {} /\ nested' = FALSE /\ inner' = {}
    /\ failed' = FALSE
    /\ exit' = 9
    /\ UNCHANGED <<source, history, disk>>

-----------------------------------------------------------------------------
(* How a step goes on.                                                     *)

step   == Head(todo)
At(op) == running /\ todo # <<>> /\ step.op = op

Content(f) ==
    CASE f \in {"project", "crate"} -> Made({source})
      [] f = "profile"              -> Made({loaded})
      [] OTHER                      -> files[f]

Ready(fs) == \A f \in fs : Content(f).whole
Union(fs) == [from |-> UNION {Content(f).from : f \in fs}, whole |-> TRUE,
              claimed |-> \E f \in fs : Content(f).claimed]

\* Where the function that runs is left, where the one that called a nested
\* command is left, and where an error that is passed on is caught.
Leaving  == {s \in Steps : s.op = IF nested THEN "answer" ELSE "return"}
Returns  == {s \in Steps : s.op = "return"}
Catching == {s \in Returns : s.fail = "stop"}

\* The steps from the first one of s on that is one of those.
From(s, those) ==
    LET ends == {i \in DOMAIN s : s[i] \in those} IN
    IF ends = {} THEN <<>>
    ELSE SubSeq(s, CHOOSE i \in ends : \A j \in ends : i <= j, Len(s))

Note(d) ==
    IF nested THEN inner' = inner \cup {d} /\ UNCHANGED <<diags, nested>>
              ELSE diags' = diags \cup {d} /\ UNCHANGED <<inner, nested>>

Internal == Error("X07WASM_INTERNAL_COMPONENT_BUILD_FAILED", "run", "tool")
\* The codes of the failures of the steps, and of these only that most are
\* not of the tool itself, are not told apart.
Failed   == Error("FAILED", "run", "general")

\* A failing step leaves its diagnostic and goes on, returns from its
\* function, or hands an error to whoever catches it.
Fail(d) ==
    CASE step.fail = "note"  -> Note(d) /\ todo' = Tail(todo)
      [] step.fail = "stop"  -> Note(d) /\ todo' = From(Tail(todo), Leaving)
      [] step.fail = "raise" -> /\ diags' = diags \cup {Internal}
                                /\ nested' = FALSE /\ inner' = {}
                                /\ todo' = From(Tail(todo), Catching)

GoOn == todo' = Tail(todo) /\ UNCHANGED <<said, failed>>

-----------------------------------------------------------------------------
(* The kinds of steps.                                                     *)

\* A program makes a file from others, or the build writes it itself.
MakeFile ==
    /\ At("make") \/ At("run")
    /\ Ready(step.reads)
    /\ files' = [files EXCEPT ![step.file] = Union(step.reads)]
    /\ GoOn
    /\ UNCHANGED <<fixed, manifests, memo>>

\* It exits with 0 and has written nothing.
LeavesFile ==
    /\ At("run")
    /\ files' = [files EXCEPT ![step.file] = Claim(@)]
    /\ GoOn
    /\ UNCHANGED <<fixed, manifests, memo>>

\* What is not written to its end is copied as well.
CopyFile ==
    /\ At("copy")
    /\ \E f \in step.reads : files' = [files EXCEPT ![step.file] = files[f]]
    /\ GoOn
    /\ UNCHANGED <<fixed, manifests, memo>>

\* Programs refuse files that are missing or were cut short.  One that fails
\* leaves its output alone, removed or cut short; a scratch file is then as
\* good as missing.
MakeFails ==
    /\ At("make") \/ At("run") \/ At("copy")
    /\ failed' = (failed \/ \A f \in step.reads : Content(f).whole \/ Content(f).claimed)
    /\ \E left \in IF step.file \in Scratch THEN {Absent} ELSE {files[step.file], Absent, Torn} :
          files' = [files EXCEPT ![step.file] = left]
    /\ Fail(Failed)
    /\ UNCHANGED <<fixed, manifests, memo>>

TakeDigest ==
    /\ At("digest")
    /\ There(files[step.file])
    /\ noted' = files[step.file]
    /\ core' = (core \/ step.file = "core")
    /\ GoOn
    /\ UNCHANGED <<fixed, disk, solved>>

\* Without a digest the product goes on as one of length zero.
DigestFails ==
    /\ At("digest")
    /\ failed' = (failed \/ There(files[step.file]))
    /\ noted' = Absent
    /\ Fail(Failed)
    /\ UNCHANGED <<fixed, disk, core, solved>>

WriteManifest ==
    /\ At("manifest")
    /\ manifests' = [manifests EXCEPT ![step.file] = [of |-> noted, whole |-> TRUE]]
    /\ GoOn
    /\ UNCHANGED <<fixed, files, memo>>

ManifestFails ==
    /\ At("manifest")
    /\ manifests' \in {manifests, [manifests EXCEPT ![step.file] = Unread]}
    /\ failed' = TRUE
    /\ Fail(Failed)
    /\ UNCHANGED <<fixed, files, memo>>

Passes ==
    /\ At("check")
    /\ \A f \in step.reads : There(files[f])
    /\ GoOn
    /\ UNCHANGED <<fixed, disk, memo>>

\* is_file alone cannot fail of itself.
Refuses ==
    /\ At("check")
    /\ step.reads = {} \/ \E f \in step.reads : ~There(files[f])
    /\ failed' = (failed \/ step.reads = {})
    /\ Fail(Failed)
    /\ UNCHANGED <<fixed, disk, memo>>

Finds ==
    /\ At("look")
    /\ There(files[step.file])
    /\ GoOn
    /\ UNCHANGED <<fixed, disk, memo>>

Misses ==
    /\ At("look")
    /\ ~There(files[step.file])
    /\ failed' = TRUE
    /\ Fail(Failed)
    /\ UNCHANGED <<fixed, disk, memo>>

\* Nothing more is done when there is an error already.
PassGate ==
    /\ At("gate")
    /\ todo' = IF HasError(IF nested THEN inner ELSE diags)
                 THEN From(Tail(todo), Leaving) ELSE Tail(todo)
    /\ UNCHANGED <<fixed, disk, memo, said, failed>>

\* preunlink_out; its errors are not looked at.
Unlink ==
    /\ At("unlink")
    /\ files' \in {files, [files EXCEPT ![step.file] = Absent]}
    /\ GoOn
    /\ UNCHANGED <<fixed, manifests, memo>>

Rename ==
    /\ At("rename")
    /\ files' = [files EXCEPT ![step.file] = files["tmp"], !["tmp"] = Absent]
    /\ GoOn
    /\ UNCHANGED <<fixed, manifests, memo>>

RenameFails ==
    /\ At("rename")
    /\ failed' = TRUE
    /\ Fail(Failed)
    /\ UNCHANGED <<fixed, disk, memo>>

\* remove_dir_all; it may stop half way.
Clean ==
    /\ At("clean")
    /\ \/ /\ files' = [f \in Files |-> IF f \in Outside THEN files[f] ELSE Absent]
          /\ manifests' = [p \in Products |-> IF p = "wasm" THEN manifests[p] ELSE Unread]
          /\ GoOn
       \/ /\ UNCHANGED disk
          /\ failed' = TRUE
          /\ Fail(Failed)
    /\ UNCHANGED <<fixed, memo>>

Dispatch ==
    /\ At("emit")
    /\ todo' = Emit(cmd)
    /\ UNCHANGED <<fixed, disk, memo, said, failed>>

\* Mutant: a solve component that lies there is taken.
BuildSolveIfMissing ==
    /\ At("solve")
    /\ IF files["solve"].whole
         THEN todo' = Tail(todo) /\ UNCHANGED core
         ELSE /\ todo' = Solve(cmd.backend) \o Tail(todo)
              /\ core' = FALSE
    /\ UNCHANGED <<fixed, disk, noted, solved, said, failed>>

\* A component that is composed needs its solve part only once.
BuildSolve ==
    /\ At("solve")
    /\ IF solved THEN todo' = Tail(todo) /\ UNCHANGED core
                 ELSE /\ todo' = Solve(cmd.backend) \o Tail(todo)
                      /\ core' = FALSE
    /\ UNCHANGED <<fixed, disk, noted, solved, said, failed>>

ReturnFrom ==
    /\ At("return")
    /\ solved' = IF step.file = "solve" THEN core ELSE solved
    /\ GoOn
    /\ UNCHANGED <<fixed, disk, noted, core>>

CallNested ==
    /\ At("call")
    /\ nested' = TRUE /\ inner' = {}
    /\ todo' = Tail(todo)
    /\ UNCHANGED <<fixed, disk, memo, diags, failed>>

\* Mutant: the exit code of the nested command is not looked at.
TakeAnswerUnread ==
    /\ At("answer")
    /\ nested' = FALSE /\ inner' = {}
    /\ todo' = Tail(todo)
    /\ UNCHANGED <<fixed, disk, memo, diags, failed>>

\* The nested command has returned its exit code.
TakeAnswer ==
    /\ At("answer")
    /\ nested' = FALSE /\ inner' = {}
    /\ IF ExitCodeOf(inner) = 0
         THEN todo' = Tail(todo) /\ UNCHANGED diags
         ELSE todo' = From(Tail(todo), Returns) /\ diags' = diags \cup {Internal}
    /\ UNCHANGED <<fixed, disk, memo, failed>>

\* The report of the nested command cannot be written.
AnswerLost ==
    /\ At("answer")
    /\ failed' = TRUE
    /\ nested' = FALSE /\ inner' = {}
    /\ todo' = From(Tail(todo), Catching) /\ diags' = diags \cup {Internal}
    /\ UNCHANGED <<fixed, disk, memo>>

\* What is read only after being written anew in the next run is forgotten.
Forget == [f \in Files |-> IF f \in Scratch THEN Absent ELSE files[f]]

EmitReport ==
    /\ running /\ todo = <<>>
    /\ \/ exit' = ExitCodeOf(diags) /\ UNCHANGED failed
       \/ exit' = 2 /\ failed' = TRUE
    /\ running' = FALSE
    /\ files' = Forget
    /\ UNCHANGED <<source, manifests, history, runs, loaded, todo, memo, said>>

\* The process is killed, and with it the program it waits for.
Kill ==
    /\ running
    /\ running' = FALSE /\ todo' = <<>>
    /\ files' = IF (At("make") \/ At("run")) /\ step.file \notin Scratch
                  THEN [Forget EXCEPT ![step.file] = Torn] ELSE Forget
    /\ manifests' = IF At("manifest") THEN [manifests EXCEPT ![step.file] = Unread] ELSE manifests
    /\ noted' = Absent /\ core' = FALSE /\ solved' = FALSE
    /\ diags' = {} /\ nested' = FALSE /\ inner' = {}
    /\ failed' = TRUE
    /\ UNCHANGED <<source, history, runs, loaded, exit>>

Rest == ~running /\ runs = Len(history) /\ UNCHANGED vars

Next ==
    \/ EditSource \/ Start \/ MakeFile \/ LeavesFile \/ CopyFile \/ MakeFails
    \/ Finds \/ Misses \/ TakeDigest \/ DigestFails
    \/ WriteManifest \/ ManifestFails \/ Passes \/ Refuses \/ PassGate
    \/ Unlink \/ Rename \/ RenameFails \/ Clean \/ Dispatch \/ BuildSolve \/ ReturnFrom
    \/ CallNested \/ TakeAnswer \/ AnswerLost \/ EmitReport \/ Kill \/ Rest

Spec == Init /\ [][Next]_vars

-----------------------------------------------------------------------------
(* Properties.                                                             *)

TypeOK ==
    /\ source \in Sources /\ loaded \in 1..source
    /\ files \in [Files -> Contents]
    /\ manifests \in [Products -> [of : Contents, whole : BOOLEAN]]
    /\ history \in Histories /\ runs \in 0..Len(history) /\ running \in BOOLEAN
    /\ todo \in Seq(Steps)
    /\ noted \in Contents /\ core \in BOOLEAN /\ solved \in BOOLEAN
    /\ diags \subseteq {Failed, Internal} /\ inner \subseteq {Failed}
    /\ nested \in BOOLEAN /\ failed \in BOOLEAN
    /\ exit \in {0, 1, 2, 9}

\* What a command promises to leave behind.
Goals(c) ==
    CASE c.emit = "wasm"           -> {"wasm"}
      [] c.emit \in {"compose", "http-native"} -> {"http"}
      [] c.emit = "cli-native"     -> {"cli"}
      [] c.emit = "solve"          -> {"solve"}
      [] c.emit = "http"           -> {"solve", "http-adapter", "http"}
      [] c.emit = "http-state-doc" -> {"solve", "http-state-doc-adapter", "http"}
      [] c.emit = "cli"            -> {"solve", "cli-adapter", "cli"}
      [] c.emit \in Adapters       -> {c.emit}
      [] c.emit = "all"            -> {"solve", "http-adapter", "http", "cli-adapter", "cli"}

Succeeded == ~running /\ exit = 0

Fresh(c) == c.whole /\ (cmd.emit # "compose" => \A g \in c.from : g >= loaded)

\* Exit code 0 means that all that was asked for is there; and it is complete
\* and made of nothing older than the build itself, of no object, part or
\* adapter that an earlier run, a failing compiler or a kill has left in the
\* directory.  Only what goes back to the output of cargo or of the native
\* backend may be older or cut short, when that program has exited with 0 and
\* left its output as it was: no look at a file tells that.
SuccessFresh ==
    Succeeded =>
        \A p \in Goals(cmd) :
            There(files[p]) /\ (files[p].claimed \/ Fresh(files[p]))

\* After exit code 0 the manifest next to a product describes that product.
\* With --no-manifest an older one stays.
SuccessDescribed ==
    Succeeded /\ cmd.manifest =>
        \A p \in Goals(cmd) : manifests[p] = [of |-> files[p], whole |-> TRUE]

\* A manifest that can be read is never about a component that was not
\* written to its end, whatever failed or was killed, unless the component goes
\* back to an output left as it was by a program that exited with 0; it may
\* name nothing.
ManifestOfWhole ==
    \A p \in Products : LET of == manifests[p].of IN of = Absent \/ of.whole \/ of.claimed

\* Exit code 0 means that no step has failed, in the build or in a command
\* nested in it, and a build no step of which fails of itself ends with exit
\* code 0 whatever earlier runs have left in the directory; only compose, on
\* its own, may not find its parts.
ExitTellsFailure ==
    ~running /\ exit # 9 =>
        /\ failed => exit # 0
        /\ ~failed /\ cmd.emit # "compose" => exit = 0

=============================================================================
