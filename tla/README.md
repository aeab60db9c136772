# TLA+ models of x07-wasm

`x07-wasm` (crates/x07-wasm) is the WebAssembly backend of the x07 toolchain: one command line
program that builds x07 projects to wasm modules and components, runs them under limits, serves
them over HTTP, and reports every outcome as a JSON document with pinned diagnostic codes.

This directory holds TLA+ modules of its core logic, the TLC configurations that check them on
small instances, and TLAPS proofs of what matters most for every value of the constants. All paths
below are relative to `crates/x07-wasm/src/` unless they begin with another directory.

1. [Inventory](#1-inventory): the parts of the system, what is hard about them
2. [Modules](#2-modules): which module models what, and how state and actions correspond to code
3. [Runs](#3-runs): what each TLC run checks and shows, bounds, fairness
4. [Proofs](#4-proofs): theorems, assumptions, inductive invariants
5. [Findings](#5-findings): where code and documentation disagree
6. [Limits](#6-limits): what is only model-checked, what is not modelled
7. [Plan](#7-plan): what comes next

## 1. Inventory

Every command has the same frame. It reads its inputs, collects diagnostics in the order it meets
them, does its work, writes output files and perhaps an incident bundle, and ends by building a
report: the report is ok when no diagnostic is an error, the exit code is derived from the
diagnostics (`report/exit_code.rs`), and the document is validated against its schema before it is
printed. A report that its own schema refuses is not printed, and the command exits with 2. What
differs is what happens between.

### 1.1 Parts that keep state or meet an environment

| Part | Code | State | Operations | Talks to |
|---|---|---|---|---|
| http reducer serve loop | `http_reducer/serve.rs`, `replay.rs` | kv store, nondeterminism flags, trace of the request, turn counter, byte counter, diagnostics, outcomes | read stdin, start the canary, dispatch, record a frame, execute an effect (kv.get, kv.put, log.emit, time.now, http.fetch), end a turn, abandon or answer a request, report | the reducer through the core runner; hosts on the network; the caller through stdin and the report |
| core solve ABI and instance reuse | `wasm/abi_solve_v2.rs`, `core_replay.rs`, `wasmtime_limits.rs` | linear memory, fuel, return slot of one instance that serves every call | lay out a call, call, check the output, classify a trap | the guest: untrusted, may write any pointer |
| serve: one request | `serve.rs` 1590-1790 | response outparam, body channel, timeout, diagnostics of the store | build the WASI context, instantiate, call, receive, collect, derive diagnostics | the guest on the same thread; hosts under the policy of the capabilities |
| serve: host | `serve.rs` | connections handled, request sequence, diagnostics of the requests apart from those of the command, response summaries, incident directories, the flag that the clock was read | canary turn, accept, read the request, run it, write a bundle, reply, close the evidence, report | clients; one request (above); the file system |
| capabilities: evidence | `caps/evidence.rs`, `caps/enforce.rs` | four recorded streams and a seed; a position per stream in a replay; replay errors | read clocks, read random bytes, draw the seed, write and reload evidence | the guest through WASI |
| capabilities: document and policy | `caps/doc.rs`, `caps/enforce.rs` | none, once loaded | decide on an outbound connection, mount, environment variable, secret | serve, http serve |
| component run | `component/run.rs`, `guest_diag.rs` | two capped pipes, diagnostics, bundle directory, output files | run, scan stderr for sentinel lines, write bundle and outputs, report | a command component; the file system, which other invocations share |
| wasm run | `wasm/run.rs`, `wasm/incident.rs`, `wasm/inspect.rs` | the module as it was read, diagnostics, incident directory, output file | read and check the module, call, write output, collect and write the bundle, report | solve ABI; the file system, which other processes share while they run |
| build and compose | `wasm/build.rs`, `component/build.rs`, `component/compose.rs`, `adapters.rs`, `util.rs` | intermediate files, products and artifact documents in one directory; the digest of the solve part | run a tool, take a digest, write a document, build the solve part once, run a nested build or compose, clean | compilers, linkers, wasm-tools, wac and cargo as subprocesses; what earlier builds have left |
| http test, regress | `http_reducer/test.rs`, `regress_from_incident.rs` | one instance for all cases, the trace and its step; incidents, fixtures and scripts on disk | replay a trace frame by frame, write an incident, turn one into a fixture and a script | the reducer; the file system, which others change meanwhile |

| workload, topology, bindings | `workload/`, `topology/preview.rs`, `binding/resolve.rs` | what was loaded of project and manifest; documents, copied sources and the runtime pack in one output directory | load and validate, build, pack, inspect, preview, resolve, validate contracts | whoever edits the project meanwhile; readers of the pack |

### 1.2 Parts without state

Exit codes and diagnostics (`report/exit_code.rs`, `diag.rs`), limits and profiles, reports,
schemas and metadata, command line parsing, profile validation, policy and ops documents, the WIT
registry, doctor and validate, the guest adapters
(`guest/`), C glue and benchmarks. `PROJECT.json` lists each with its status.

### 1.3 What is hard

**One instance, many calls.** The reducer core is instantiated once. Fuel, memory and the return
slot that one call leaves behind are there for the next one, a trap included
(`core_replay.rs:101`). Nothing may leak from one call to the other: not an output, not the fuel.
*Correct means:* regions disjoint and in memory, an output written by this call, fuel per call.

**State that outlives a request.** The kv store and the nondeterminism flags live for the whole
command; a request can be abandoned between any two of its effects (`replay.rs:202`).
*Correct means:* results reach the reducer aligned with the effects that asked for them; both
budgets hold; what is in the store was asked for; the flags cover all that came from outside;
a request fails only with an error in the report.

**Host and guest on one thread.** `serve` runs the guest on the thread that holds the timeout, and
reads the body only after the call has returned (`serve.rs:1673`). A body channel that is too small
is a deadlock, a guest that never waits cannot be timed out, and start code that does wait is not
timed out either: the guest is instantiated before the timeout begins (`serve.rs:1644`).
*Correct means:* a guest that writes whole chunks within the limit never blocks; only whole
responses get through; refusals survive every early return; the request ends unless the guest is
stuck in a way that can be named, or its start code keeps waiting.

**Failures that must not get lost.** Diagnostics are collected per request, apart from those of the
command, and joined after the loop on each way out of it (`serve.rs:1569`). Bundles are written file
by file into directories named after the cause, so two failures may share one.
*Correct means:* a failed request fails the report and leaves a complete bundle, or a word about it;
a bundle is of one failure.

**Crashes between writes.** `component run` writes a bundle, output files and a report, and may be
killed between any two of them; the next invocation finds what is left.
*Correct means:* exit code 0 means this run's output is at the paths asked for; a finished run's
bundle is its own, whatever it found there.

**Processes side by side.** Two runs of `x07-wasm run` that fail on one module and one input write
the same incident directory at the same time, and a build may replace the module between its reading
and the look at its manifest (`wasm/incident.rs:31`, `wasm/run.rs:1112`).
*Correct means:* exit code 0 means the output was delivered, but for a tail that stdout's buffer loses
(`wasm/run.rs:787`); a bundle is of one module and its input can be replayed; every failure has left
its cause somewhere.

**Builds over the remains of builds.** A component build is dozens of steps in one directory that
is not cleaned, and whether a failing step ends its function, the build or nothing differs from step
to step (`component/build.rs:3155`, `:738`, `component/compose.rs:149`).
*Correct means:* exit code 0 means that everything asked for is there, complete, fresh and described,
as far as the programs called have kept their word; no failure is hidden by what an earlier build left.

**Replays.** Evidence recorded in one run feeds another, perhaps of another component.
*Correct means:* the evidence is what the guest was given; a replay gives nothing else; the same
guest sees the same run.

**Failures that become tests.** A failed case of `http test` leaves an incident, an incident becomes a
fixture, a test of the fixture plays it again in another process and perhaps on another build. All cases of a command
share one instance, and the trace file is read again for the incident (`test.rs:178`, `:425`).
*Correct means:* a verdict is about the reducer and not about what was played before; a regression
fails until the reducer has changed.

**Documents and the files they are about.** A workload pack is made in three passes: documents of the
project as loaded, copies of its files, read again, and a list of digests of what lies in a directory
that is not cleaned (`workload/pack.rs:46`, `workload/surface.rs:1334`).
*Correct means:* the list is true of what lies there; the documents are of one run; nothing that
belongs to the project is missing or old; a pack answers without the project.

The complete list, each hazard at its line and with the properties that cover it or the reason why
none does, is `hazards` in `PROJECT.json`.

## 2. Modules

Data is abstracted to what the properties tell apart; control is kept. A payload is its length, a
file is the number of the run that wrote it, a diagnostic is its severity, stage and the family its
code belongs to, a component is its digest. `map` in `PROJECT.json` names the lines each definition
translates. A definition whose comment begins with "Mutant of" is not part of a specification: it
is a plausible mistake in the definition it names, and each property is known to fail with one.

### ExitCode

`exit_code_for_diagnostics` with its early returns in order: 2 for tool failures, 3 for invalid
input, 4 for exceeded budgets, 1 for the rest. Extended by every module that ends in a report.

### HttpEffectLoop, HttpServeContract

`x07-wasm http serve`. State: `pc` is the place in `cmd_http_serve` / `run_http_reducer_loop`; `kv`,
`usesNetwork`, `usesOsTime` are `HttpEffectState`, which outlives a request; `clockMode` is
`caps.clocks.mode` of the command line and never changes; `iter`, `steps`,
`state`, `effect_results`, `pending`, `next_results`, `result_payload_bytes` are the locals of the
loop; `diags`, `outcomes` what the report will say. `asked` and `contacted` are history variables.

| Actions | Code |
|---|---|
| `ReadStdin`, `StartCanary`, `SetupFails` | `cmd_http_serve` before the requests |
| `BeginRequest`, `EmitReport` | its loop over envelopes and its end |
| `Dispatch`, `DispatchInvalid`, `LoopBudgetExceeded` | head of a turn: the budget, the schema of the dispatch |
| `CoreFails`, `FrameInvalid`, `FrameResponds`, `FrameContinues` | the core call and its frame |
| `KvGet`, `KvPut`, `LogEmit`, `TimeNow`, `FetchRefused`, `FetchBadBody`, `FetchSend` | `execute_effect` per effect, with the count of payload bytes (`Settle`) |
| `FetchAnswered`, `FetchBreaks` | the environment: a host answers, or the connection fails |
| `EndOfTurn` | the results become those of the next dispatch |

The reducer is the environment: because one instance serves all calls, its frames are *any* frames
that pass the schema, not a function of the dispatch.

`HttpServeContract` says what a caller relies on who sees only outcomes, errors and the store: a
number of requests is accepted once; each is answered once, in order; a request may write to the
store while it is open; it can fail only by leaving an error that the report cannot lose.
`ImplementsContract` is the contract under the mapping phase <- `pc`, accepted <- `requests`,
answers <- `outcomes`, errors <- "some diagnostic is an error", store <- `kv`.

### SolveAbi

The `x07_solve_v2` convention and the runner that keeps one instance. `BeginCall` computes the
layout in 64 bits, refuses it when it leaves 2^32 or the memory, writes input and clears the return
slot, and refuels; `Writes`, `Grows`, `Traps`, `Returns` are an arbitrary guest; `EndCall` applies
the checks of `call_solve_v2` in their order. `Word` stands for 2^32.

### HandleRequest

`handle_one_request`, `send_request` of the outbound policy, and what the callers make of the
result. `stage` is the place of the host, `guest` that of the guest on the same thread: the host
advances during a run only while it is `waiting` or `blocked`. The guest runs twice, its start code in the
stage "instantiate", which has no limit but fuel and memory, and the handler in the stage "call", where
the timeout can fire (`TimeoutFires`). `outparam`, `body`, `chunks`
are the response outparam and the body channel of `BufferChunks` chunks. `late` says that
`--max-wall-ms-per-request` has passed. `FailureCodes` is what the callers derive from the error:
`chained` records whether the wasmtime error can still be found in it.

### ServeHost

`cmd_serve` around single requests, of which it sees a response, a response with a guest diagnostic,
or an error, each with any diagnostics `HandleRequest` can leave. The canary loop (`CanaryTurn`) and the
accept loop (`Accept`, `ReadHead`, `ReadBody`, `Reply`, `ConnectionEnds`, `AcceptFails`) share the
three outcomes of a request (`Answers`, `AnswersWithDiag`, `Fails`) and the end (`LoopEnds`,
`EmitReport`). Bundles are records of the run that wrote each file; `BundleWrites` gives the states
in which `write_http_incident` can leave one. The command line (`setting`) is chosen initially and
never changes. That single requests end in no other way is `OutcomesTaken` (section 4).

### CapsEvidence

A recorded run, then a replay of its evidence (`Reload` = `build_doc`, then `new_replay`), by the same
component or by another. `ReadRecording`, `ReadReplaying`, `ReadUnrecorded` are the clocks and
random sources under the three modes; `Take` advances the position of one stream, or answers zeros,
leaves an error and does not advance. That the same guest is deterministic is `MayRead`: while it has
seen the same as before it reads the same next.

### ComponentRun

`x07-wasm component run`, invoked up to `MaxRuns` times over one file system. `Start`, `SetupFails`,
`Compile` are the command before the guest; `WriteStdout`, `WriteStderr` an arbitrary guest on
capped pipes; `Returns`, `ExitsErr`, `TimesOut`, `Traps` the four `RunOutcome`s with the scan of
stderr for sentinel lines; `WriteBundle`, `LoseBundle`, `DeliverStdout`, `DeliverStderr` write one
file each, so that `Kill` can strike between and during writes; `Deploy` replaces the component
while nothing runs, or after its digest was taken and before it is compiled.

### ArtifactBuild

`x07-wasm build`, `x07-wasm component build` for every value of `--emit`, and `x07-wasm component
compose`, invoked one after the other over one directory. The pipelines are data: each function of
the code is a sequence of steps (`Codegen`, `Glue`, `Objs`, `Link`, `Componentize`, `Describe`,
`Adapter`, `Compose`, ...), an invocation works off `todo`, and there is one action per kind of step.
A step carries what the code does when it fails: go on (`note`), return from the function (`stop`), or
pass the error up (`raise`). What is left of `todo` then begins at a landing step: the end of the function
that runs, or, in a nested command, its answer (`Leaving`); the end of the function that called one whose
answer is an error (`Returns`); the end of a function whose caller catches errors (`Catching`).

| Actions | Code |
|---|---|
| `Start`, `PassGate`, `Dispatch`, `Clean`, `EmitReport` | `cmd_component_build` around the dispatch on `--emit` |
| `MakeFile`, `MakeFails` | a subprocess or an embedded file: `run_tool_cmd_capture`, `compile_one_c` |
| `LeavesFile`, `Finds`, `Misses`, `CopyFile` | a program that exits with 0 and leaves its output as it was, the look whether there is one (`wasm/build.rs:682`, `adapters.rs:91`), and the copy of what lies there |
| `TakeDigest`, `DigestFails`, `WriteManifest`, `ManifestFails` | `file_digest` and the artifact document |
| `Passes`, `Refuses` | the checks between the steps, `is_file` of the parts among them |
| `Unlink`, `Rename`, `RenameFails` | `preunlink_out`, `write_file_atomic` |
| `BuildSolve`, `ReturnFrom` | `build_composed_component`: the solve part once, its digest handed back |
| `CallNested`, `TakeAnswer`, `AnswerLost` | a build or compose inside the build (`Nested`), known by its exit code |
| `EditSource`, `Kill` | the environment |

The content of a file is the set of source generations that went into it, so that "stale" can be
said; equal content stands for equal digests. `Goals` is what a command line promises.

Of the programs the model assumes that one which exits with 0 has written its output anew and to its
end; the code has no other check of compilers, linkers, wasm-tools and wac. Two are not taken at their
word, because they decide for themselves whether there is anything to do and the code looks for a file
when they are done: `x07` as the native backend, and cargo, whose output is read at a fixed path in its
target directory. They may exit with 0 and leave that file as it was, old, cut short or missing; what is
made of it is then marked `claimed`, a history variable. The raw module and the target directory outlast
the invocation (`Outputs`); files that are only read after the same function has written them do not
(`Scratch`).

### WasmRun

`x07-wasm run` by several processes at once, while somebody rebuilds the module and its manifest
(`Rebuild`, `WriteManifest`). A process reads the module once (`ReadModule`), calls it (`SetupFails`,
`CallFails`, `CallReturns`; the call itself is `SolveAbi`), delivers the output (`OpenOutput`,
`FillOutput`, `OutputFails`, `PrintOutput`), and when there is an error looks up the manifest
(`Collect`) and writes the bundle (`OpenBundleFile`, `FillBundleFile`, `LoseBundle`) before the report
(`EmitReport`). `fs::write` is two steps, cut and fill, so two writers of one file can leave a mixture
(`Filled`). Output that is printed goes through a buffer of lines that nobody flushes: `PrintOutput`
writes it, leaves a tail "held", or fails with exit code 2; a tail is written or lost `AtExit`, when the
exit code is settled. `steady` and `recorded` are history variables: neither module nor manifest changed since
the module was read; the bundle was written to its end.

### HttpRegress

`x07-wasm http test` and `http regress from-incident`, one command after the other over one file system,
while others change traces and reducers (`Deploy`, `EditCase`).

| Actions | Code |
|---|---|
| `StartTest`, `LoadFails`, `Load`, `LastCase` | `cmd_http_test` around the cases, one `CoreWasmRunner` for all of them; on traces, or on a fixture (`FixtureTests`) |
| `RunScript` | a generated script; the command line refuses its options (section 5), so that it ends where it begins |
| `CaseUnreadable`, `ReadCase`, `StepMatches`, `StepFails`, `CasePasses` | `run_trace_case` |
| `WriteIncident`, `IncidentFails` | `write_http_test_incident`; digest and content are read anew, so the directory may be of an older content |
| `StartRegress`, `WriteFixture`, `FixtureFails`, `WriteScript`, `ScriptFails` | `cmd_http_regress_from_incident` |
| `EmitReport`, `Kill` | the end of either command |

A build is a function from the dispatch, and whether its instance was called before, to a frame or a
way to break; a build is `Pure` when the second does not matter. That an instance holds no more than
this is an abstraction; that it holds nothing else is the code: nothing is imported. `Replays` is what
the build does with a trace in an instance of its own. The `of` of an incident is a history variable:
the build that has failed on it, when the failure is one of the build.

### WorkloadPack

`x07-wasm workload build`, `pack`, `inspect` and `contracts-validate`, `topology preview` and `binding
resolve`, one command after the other over one project and one output directory, which lies outside the
module roots of the project.

| Actions | Code |
|---|---|
| `Start`, `ReadProject`, `ReadManifest`, `LoadFails` | `load_source`, `load_source_from_pack`, `validate_source_docs` |
| `WriteDoc`, `DocsWritten`, `WriteFails` | `write_build_outputs`, `write_json_doc`, and the starters of embedded kernels |
| `Walk`, `Copy`, `CopyRefused`, `SourcesCopied` | `write_pack_sources`: directories in any order, each file read again and written once |
| `WriteRuntimePack` | `build_runtime_pack_doc`: digests of what the directory holds (`Listed`) |
| `Answer`, `AnswerFails` | the commands that read |
| `Edit`, `Kill` | the environment |

A document is the pair of project and manifest it is made of, and the part it is about; a file is its
content, which stands for its digest. A manifest keeps what is compared across its parts: names and
kinds of bindings, keys, groups, ingress and class of cells, profiles. `Valid` is `validate_source_docs`
over these; a word outside its vocabulary is `Garbage`. `steady` and `packed` are history variables:
nothing was edited since the last command has begun; what the directory is a pack of.

### MC modules and proof modules

`MC*` extend a module and define the small sets its cfg uses. `*Proofs` extend a module and TLAPS.
No module declares a RECURSIVE operator.

## 3. Runs

| Run | Instance | Question |
|---|---|---|
| `http_turns` | up to 2 lines on stdin of all four kinds, up to 3 turns, frames of up to 5 effects, one key, values that fit the byte budget once and not twice or do not decode, fetches to a granted, a refused and an unusable URL, a clock that is denied or recorded, fairness | Do results stay aligned with the effects that asked for them, across turns? Do the budgets hold? Is the store's content always justified by a recorded frame? Are failures reported, do the flags cover all that came from outside, is the contract implemented, and does the command end? |
| `solve_abi` | words of 56, memory 32 growing to 48, an arena of 6; input lengths 0 to 33, pointers and lengths around every edge | Regions, outputs and fuel, over any number of calls on one instance |
| `handle_request` | a limit of 5 with chunks of 2 (no multiple), pieces of 1, 2 and 3, metered, with capabilities, fairness; start code as arbitrary as the handler | Room, wholeness, explanation, and the end of a request |
| `serve_host` | 8 command lines, 2 connections, two requests (one whose headers bring it over the limit), clients that send the id the host gives out itself | Do failures reach the report and leave a bundle? |
| `caps_evidence` | 2 reads per run of lengths 1 and 2 over 2 values, one profile that records all and one that mixes `allow` and `deny` | Is the evidence complete, and is a replay bounded by it? |
| `component_run` | 2 invocations, 3 command lines (two that share an output path, one whose stdin cannot be read), pipes of one line, three kinds of lines | Exit code 0, bundles and outputs under failing writes, kills and replaced components |
| `artifact_build` | 9 histories of 1 to 3 command lines over one directory: both backends, every kind of product, a clean build, adapters embedded and built from source, `--emit all`, compose on its own, the native backend and cargo twice over the output of the first time; sources edited once | Does exit code 0 mean fresh, complete, described artifacts, as far as x07 and cargo keep their word? Is a failure ever hidden by what lay there? |
| `wasm_run` | 2 processes, one input, one output file, 2 builds of which one has a memory of no maximum, 2 command lines (file, `--json` and a profile with three expectations; neither) | Is success delivered, in a file, inlined or through stdout, and failure recorded, and is a bundle of one module, with writes that interleave, fail, or are killed? |
| `http_regress` | 3 commands, 2 reducer paths, 2 trace files, a pure build and one that answers only its first call, traces of 2 steps (one the pure build repeats, one it does not, one outside the schema), 1 edit | Is a verdict about the reducer alone? Does a failure stay one through incident, fixture and a test of it, on any reducer, with lost writes, kills and edits? |
| `workload_pack` | 3 commands, 1 edit; a project with a module under a root and an entry outside of it, a service of three cells in two groups and two profiles, one of a cell and no profile, one that is refused; packs under the default names, another manifest, and one outside the project | Is the runtime pack true of what lies there and of one run? Is a pack whole over the remains of others, and does it answer for itself? |
| `handle_budget`, `serve_report` | as the run of the same module | Statements of the documentation the code does not keep: see [Findings](#5-findings) |

### Why the bounds are enough

Each bound is chosen so that the next larger case is of the same kind.

- *http_turns.* A misalignment needs a turn after a turn with two results; a third turn makes the
  second one's results the input of another. The value of length 2 against a budget of 3 makes the
  first effect fit and the second cross. State leaks from one request to the next; two requests
  suffice, and the lines in between may be blank, not JSON or outside the schema. One of the frames
  carries everything that is refused, between which a step goes on; the others put, get twice, fetch and
  do nothing.
- *solve_abi.* The number of calls is not bounded: the state space is finite. The word is small
  enough that a layout can leave it and the arena can end exactly at the memory's end.
- *handle_request.* A limit of 5 with chunks of 2 takes three chunks, rounding up; rounding down
  would give two and the run finds the deadlock. Start code and handler may each do all that a guest can.
- *serve_host.* Two failures of one request id share a directory; a third adds nothing new to it.
  `MaxConnections` bounds the clients, not the server: a server without `--stop-after` then waits.
- *caps_evidence.* Two reads: a short one and one behind it in the same stream, or one each of two streams.
- *component_run.* The second invocation meets what the first, finished or killed, has left. A pipe
  of one line is full after one write, which is where the interesting cases begin; larger pipes and
  more lines multiply the state space beyond what is practical.
- *artifact_build.* What an invocation can find is what one before it has left, whole, cut or of
  another kind; the histories pair each product with another that shares files with it, and the one of
  three ends with a compose of parts two builds have left. A program that leaves its output as it was is
  of interest once an earlier build has made one. Two generations tell old from new.
- *wasm_run.* A bundle or an output file is disturbed by one other process; two builds make the
  manifest older than the module, newer, or absent. Both processes have every stage, so all pairs of
  stages meet. The processes are interchangeable, and `Procs` is a symmetry set.

- *http_regress.* The way from a failure to a test of its fixture takes three commands: test, regress,
  test; the third may be the script as well. The
  second case of a test meets the instance the first has left. One edit, at any time, replaces a
  reducer or a trace before, between or during them.

- *workload_pack.* A pack meets what one before it has left, and a third command reads it. One edit
  falls before, into or between them; more edits repeat this.

Deadlock is checked in every run. A command that has ended, a server that waits for clients that do
not come and a request that is stuck stutter through an explicit action (`Reported`, `Rest`,
`Stopped`), so any other state without a successor is an error.

### Fairness

- `HttpEffectLoop!FairSpec` is weak fairness of `HostStep`: the host's own code goes on, and a core
  call returns because it runs on fuel. There is none for `FetchDone`: the connection has no timeout
  and a peer may stay silent, which is why `ReportedUnlessPeerStalls` has its second disjunct.
- `HandleRequest!FairSpec` is weak fairness of `HostStep`, of `GuestStep` (the guest's code is run by
  the host's thread) and of `Tick` (time passes). There is none for `HostReady`, whatever the guest
  waits for. A guest that takes forever without waiting is in the model as `spinning`, and
  `Stuck` names it, unless it is metered, as one of four ways to be stuck for good; the others are start
  code that waits for room in a body nobody reads yet, and a response or a body left in the resource
  table by a guest that returned. Start code that waits for something outside is not stuck, as its peer
  may answer, but nothing limits it: the call is under the timeout, instantiation is not
  (`StartWaits`).
- No liveness is stated of the accept loop: it waits for clients, and reading a request has no
  timeout.

### Properties

| Module | Property | Says |
|---|---|---|
| HttpEffectLoop | `TraceChained` | each dispatch of a trace carries the state of the frame before and exactly one result per effect, in order; nothing follows a response |
| | `KvJustified` | what the store holds was asked for by a recorded frame without a response, and did decode |
| | `NondeterminismHonest` | flags and granted hosts cover every clock reading and response the reducer was given |
| | `FailureReported` | failed requests leave an error; exit code 0 means every request got the reducer's response |
| | `ImplementsContract` | refinement of `HttpServeContract` |
| | `ReportedUnlessPeerStalls` | liveness |
| SolveAbi | `RegionsDisjoint` | return slot, input, arena and static data are disjoint, aligned and in memory |
| | `OutputSound` | an output is of this call, in its arena, in memory, within the limit |
| HandleRequest | `RoomForTheCap` | whole chunks within the limit never block |
| | `WholeResponseOnly` | a response is set, finished, complete and within the limit |
| | `Explained` | a refusal by the policy and a failure each leave an error, on every way out |
| | `EndsUnlessStuck` | liveness, up to four named ways to be stuck and start code found waiting again and again |
| ServeHost | `FailureReachesReport` | a failed request or a replay without evidence fails the report |
| | `FailureRecorded` | a failed request has its bundle in the report, or a word about its loss |
| | `ListedComplete` | a listed bundle is complete |
| | `BundleOfOneRun` | a bundle of the accept loop holds the response of the failure it describes |
| CapsEvidence | `EvidenceComplete` | the evidence is what the guest was given |
| | `ReplayFromEvidence` | a replay gives a prefix of the evidence, or zeros and an error |
| | `ReplaySame` | the same guest sees the same run |
| ComponentRun | `SuccessDelivered` | exit code 0: the guest returned Ok, no sentinel was seen, the outputs are this run's |
| | `FailureRecorded` | an error of the run leaves its bundle or a word about its loss |
| | `BundleOfThisRun` | a finished run's bundle is its own in every file it wrote |
| | `OverflowReported` | a guest that trapped with cut output is reported to have exceeded the output budget |
| ArtifactBuild | `SuccessFresh` | exit code 0: all that was asked for is there, whole, and made of nothing older than the build, but for what goes back to an output that x07 or cargo has left as it was while exiting with 0 |
| | `SuccessDescribed` | after exit code 0 the artifact document describes the product beside it |
| | `ManifestOfWhole` | no document is ever about a component that was not written to its end, with the same exception |
| | `ExitTellsFailure` | exit code 0 if and only if no step has failed, nested commands included, whatever lay there |
| WasmRun | `SuccessDelivered` | exit code 0: the output is in its file or printed, but for a tail without a newline that stdout lost at exit, and no incident is of this run |
| | `FailureRecorded` | a failing run leaves its bundle or a warning, and tells its cause unless one of two named cases is met |
| | `BundleUsable` | a bundle that is finished holds a whole input, whoever wrote it at the same time |
| | `BundlesKeepModule` | directory and manifest of a bundle are of the module that ran |
| HttpRegress | `VerdictOfReducer` | exit code 0: some case was played and the build repeats all of them on its own, the first one only if it is not pure; and a pure build that repeats them passes |
| | `RegressComplete` | a regress that succeeds leaves the trace of its incident and a script, whatever lay there; fixtures are in the schema |
| | `RegressionKeepsFailing` | a test of the fixture made from the failure of a build never succeeds on that build |
| WorkloadPack | `PackListsTruth` | exit code 0 of a pack: the digests are of what lies there, all sources, previews and starters among it, whatever was edited in between |
| | `PackIsWhole` | a pack of a project nobody edits has every file that belongs to it, as it is, over the remains of any other |
| | `PackStandsAlone` | what is read from a pack under the default names is about the project that was packed, whatever became of it |
| | `RuntimePackCoherent` | at any time a runtime pack lists documents of one run, made of the sources beside them unless there was an edit |
| | `PreviewSound` | a preview puts each cell into one group, exposes what takes requests, and tells a class only if all cells share it |

Theorems that no run repeats: `StepBudgetHolds` (no request calls the reducer more than
`--max-effect-steps` times), `FuelPerCall` (only a call that needs more than the allowance runs out of
fuel), `ClockAdmitted` (incident directories, named after the day, imply the flag that the clock was
read), `BundlesKeepCause` (no bundle is handed to another component or stdin), `MemoryFixed` (with
the expectations of the shipped profiles no module runs with another memory, or one that grows) and
`TakenByHost` (every ending of `HandleRequest` is one `ServeHost` knows).

Each module has one type invariant: `TypeOK`, and in modules that share their proof module with another
`AbiTypeOK` and `ServeTypeOK`. All of them are theorems (section 4), which is why most cfg files leave
them out in favour of the properties above. Every safety property of the table is a theorem as well.

## 4. Proofs

TLAPS checks the theorems below for every value of the constants that satisfies the module's
`ConstantsAssumption` (`AbiAssumption`, `ServeConstants` where two modules share a proof module): lengths
and limits are naturals, markers (`Null`, `BadPayload`, `BadUrl`) lie outside the sets they mark, pointers
and lengths fit the word, modes are among those of the code. Limits may be zero, except `ChunkCap` and
`Page`, which the code fixes above zero. `ArtifactBuild` asks that there is a first generation of sources
and that a history has a command line, `WasmRun` that there is a build. `WorkloadPack` assumes the shapes its structs have (`ShapesAssumption`,
`DocumentsAssumption`), that a pack is made of a project and not of a pack (`CommandsAssumption`), and that
there are finitely many files below a module root: `Walk` puts them into a sequence. No other set is
assumed to be finite, so the number of processes, requests, commands, paths, components and documents is
any. TLC evaluates each assumption in the runs of its module.

| Proof module | Of | Theorems | Inductive invariant |
|---|---|---|---|
| HttpEffectLoopProofs | HttpEffectLoop | `TypeCorrect`, `ChainCorrect`, `StepBudgetCorrect` | `IInv` |
| | | `FailuresReported`, `LoopImplementsContract` | `AllInv` |
| | | `StoreJustified`, `FlagsHonest` | `StoreInv`, `CoverInv`, beside `IInv` |
| GuestBoundaryProofs | SolveAbi | `LayoutCorrect`, `AbiTypeCorrect`, `RegionsCorrect`, `OutputCorrect`, `FuelCorrect` | `SInv` |
| | CapsEvidence | `TypeCorrect`, `EvidenceIsComplete`, `ReplaysFromEvidence`, `ReplaysSame` | `EvInv` |
| ServeProofs | HandleRequest | `ChannelHoldsTheCap`, `TypeCorrect`, `RoomCorrect`, `WholeCorrect`, `ExplainedCorrect` | `IInv` |
| | ServeHost | `ServeTypeCorrect`, `FailuresReachReport`, `ListedCorrect`, `BundleCorrect`, `ClockCorrect` | `ServeInv` |
| | | `FailuresRecorded` | `RecordInv`, beside `ServeInv` |
| | both | `OutcomesTaken` | `Endings` |
| ArtifactBuildProofs | ArtifactBuild | `TypeCorrect`, `FreshOnSuccess`, `DescribedOnSuccess`, `ManifestsOfWhole`, `ExitTells` | `IInv` |
| WorkloadPackProofs | WorkloadPack | `TypeCorrect`, `PackTruthful`, `PackWhole`, `PackAlone`, `PackCoherent`, `PreviewCorrect` | `IInv` |
| WasmRunProofs | WasmRun | `TypeCorrect`, `FailuresRecorded`, `BundlesOfOneModule`, `SuccessIsDelivered`, `BundlesUsable`, `MemoryIsFixed` | `TInv`, `BInv`, `DInv`, `UInv`, each the one before and more |
| ComponentRunProofs | ComponentRun | `TypeCorrect`, `SuccessIsDelivered`, `FailuresRecorded`, `OverflowIsReported`, `BundlesHaveOneCause`, `BundlesAreOwn` | `RInv`, `BInv` |
| HttpRegressProofs | HttpRegress | `TypeCorrect`, `VerdictIsOfReducer`, `RegressIsComplete`, `RegressionsKeepFailing` | `VInv`, and `RInv`, which is `VInv` and more |

**The effect loop.** `TraceChained` is not inductive: it speaks of frames already recorded, while
what is about to be dispatched sits in the locals. `BetweenTurns` says that `state` and
`effect_results` continue the last frame whenever the next step may dispatch; `WithinTurn` says that
`next_results` answers a prefix of the last frame's effects and `pending` is the rest. `Settle` moves
one effect from the second to the first, and `EndOfTurn`, with nothing pending, turns `WithinTurn`
into `BetweenTurns`. `Guarded` and `TraceBounded` carry the step budget.

**Reports and refinement.** `ServeInvariant` adds that outcomes never outnumber requests, that a
failed one has its error, and that the command reports only when all are served or an error is
there. With it every step of the loop is a step of `HttpServeContract` or leaves its variables alone:
`FrameContinues` and its like stutter, a successful `KvPut` is `Write`, an abandoned request is `Answer`
with a failure. The step that could have been two at once
is a `kv.put` whose result crosses the byte budget: it would write and end the request. It cannot,
because the result of a put carries no payload (`PutContinues`), so the invariant
`result_payload_bytes <= MaxEffectResultsBytes` of `WithinTurn` keeps the request open.

**The store and the flags.** `PendingAsked` says that a `kv.put` that waits for its turn belongs to a
recorded frame; with it `KvJustified` is inductive, over all requests of a command, because `asked` only
grows. For the flags `CoverInv` follows an answer from outside from `next_results`, where it is made,
through `effect_results` to the dispatch of the trace: wherever it is, the flag that admits it stands.
`FetchSend` raises it before there is an answer, and no flag is ever taken back.

**The solve ABI.** `LayoutCorrect` is the arithmetic: with 8-byte alignment, for any heap base and
length, the regions are disjoint. `InFlight` says that the arena fitted the memory at the time of
the check and memory only grew since, that fuel is the full allowance while the guest runs, and that
the return slot is clear until the guest writes it. The last part is what makes `OutputSound`
inductive: without it an output could be one an earlier call left in the slot.

**Evidence and replay.** `Shape` ties the place of a run to what was kept of it, and `Kept` holds
`EvidenceComplete` while recording and `ReplayFromEvidence` while replaying. Both speak of what was
consumed of a stream after so many reads. That is a sum over the history; the module states it by a
function of offsets, which must exist, rather than by a recursive one, so that a step of the run extends
the function by one value. `ReplaysSame` needs more than it says: that the same guest has so far seen the
same is kept up only if its position in every stream is where the recorded run was after as many reads
(`Following`), or the recorded run was cut short and the replay is past its end (`Beyond`).

**One request of serve.** `ChannelHoldsTheCap` is the arithmetic of the channel: chunks times chunk
size is at least the limit. `Channel` says how much a channel of whole chunks holds; `CallStages` ties the
stages to the guest, the outparam and the diagnostics; `Kept` says where a refusal is until the
report.

**The serve host.** `Failures` says that a failure has left an error with the command *or* with the
requests, since the two are joined only at the end; `Settled` that nothing is left to collect before
the report and after it; `Counting` and `Places` which counters and requests a place has; `Clock` that
the flag is raised at once in one loop and at the end in the other. `RecordInv` is about responses
already sent: a failed one has its bundle on the list, or a word about its loss among the diagnostics of the
command or of the requests, whose lists are only added to, or it is the one case of the accept loop that
says nothing (section 5).

**The two together.** `ServeHost` does not run `HandleRequest`: it takes an outcome and a set of
diagnostics. `OutcomesTaken` says that whatever `HandleRequest` ends with is among them (`AnswerDiags`,
`FailureDiags`), so what is shown of the loops holds for every guest of the other module. `Endings` says how
a request can have ended: only refusals are collected, a budget is only recognised before the guest is
called, capabilities fail before anything is collected. Start code may be refused a host and then run out
of its budget, so that a budget beside a refusal is among the `FailureDiags`, although no call leaves one.

**Runs of one module, side by side.** The theorems hold for any number of processes, command lines,
builds, inputs and paths. `Told` says for each place what a process has said by then: nothing before
its output, an error before it collects a bundle, and at the end of either a bundle or a warning.
`Written` says that a file of a bundle was written by a failing process in its own directory, which
ties the directory to the module although anybody may be writing it; `Steady` that as long as nothing
was rebuilt module and manifest are those of the run. `Delivery` follows the output file of a process
without rivals. For `BundleUsable`, `Filed` says which files of a bundle are settled: `todo` is one of
the suffixes of the fixed order, what it no longer lists is this process's own, or was written since
by one that is still there or that shares module and input; `CutInput` that an input is cut only while
somebody is at the bundle or was killed there.

**One component run after the other.** `CutAtCap` says that a stream is cut only where the pipe is full,
which is what `TrapDiags` looks at; `Concluded` what diagnostics the outcome has left when the guest is
done; `Delivered` which output files are this run's at each place after that, and `Recorded` that an error
has its bundle, the warning, or is about to have one of them. The bundles need two more facts: `Caused`
says that every file of a bundle was written by a run of its component and stdin, and `Filed` that those
no longer on the list of the bundle being written are this run's own.

**Tests and regressions.** `Playing` says that the steps played so far are as the build answers them in an
instance of its own, provided the build is pure or the case is the first, and that the first case has
called the instance once per step. `Failing` turns a step that differs into a trace the build does not
repeat; `Judged` and `Blamed` sum that up over the cases in the two directions of the verdict. For
regressions `Kept` says that what lies in incidents and fixtures is not repeated by the build it is
kept against, and `Scripted` that a test of a fixture plays it first and nothing else, so that its verdict
is about that trace in an instance of its own.

**Builds.** An invocation is a sequence of dozens of steps, of which a failing one drops any
number, so an invariant that names places would be as long as the code. The proof reads each step by what
it `Needs`, `Takes` and `Gives`. The things are, of a file: that it is fine (complete and not older than the
build), that it is described, that the last digest is of it; these are owed only as long as nothing has
failed (`Good`). Two more last whatever has failed: that a file is whole, and that the last digest is of a
whole file or of none. A file a program says it has written is, until the look at it, fine if it is there
(`Said`); nothing is claimed of the content of one that was left as it was, and the mark goes wherever
its content goes. `Supplied(todo, H, G)` says that the steps left can be worked off from the things
`H` and end in `G`. It is shown once per function of the code, from its parts (`FitConcat`). Then
`IInv` says that what is left is supplied by what holds now (`Have`) and ends in what the command line
promises (`Owed`), and each action is one link of that chain. A step that fails jumps; a jump is sound
because the steps it lands on rely on nothing that lasts (`Over`), and everything else is owed no more.
The rest of `IInv` is about the order of the steps: calls and answers nest (`Closed`, `Awaits`), the solve
part is built once and nothing touches it after it was handed back (`Once`, `SolveKept`), and an error is
among the diagnostics if a step has failed and only then (`Honest`). `ManifestsOfWhole` is the reason for
the lasting things: a manifest is written after failures too.
The landing after a nested command that fails is where the attempt to prove this has corrected the model:
the function that called it ends, its callers go on (`component/build.rs:1286`).

**Workload packs.** `Progress` says of documents on their way that each is in the directory or still on the
list, `Awaits` the same of files, which may also lie below a module root the list still has. `Loaded` says
that what is in hand is valid and, unless something was edited, what lies in the project; `Copied` that a
file once seen lies in the pack as it is. When the lists are empty these give `Listing`, which a runtime
pack keeps as long as the command that wrote it stands. Afterwards `Standing` says that a pack that
has succeeded is left alone and that a command that reads from it has in hand what was packed; the edit of a
project does not reach it. `PreviewCorrect` needs only that what is in hand is valid, and is about
`Preview` for any manifest.

**Out of reach of the prover** and therefore with TLC: liveness under fairness
(`ReportedUnlessPeerStalls`, `EndsUnlessStuck`).

## 5. Findings

Two runs check what a document says of the program and find it violated.

| Run | Property | The code | The documentation |
|---|---|---|---|
| `handle_budget` | `BudgetSurfaces` | the error of the call is turned into its message, so that no budget is recognised in it (`serve.rs:1683`) | "Budget failures surface as pinned diagnostics" (`docs/execution-hardening.md:36`) |
| `serve_report` | `EndsWithReport` | a guest code that the header parser takes and the schema refuses costs the whole report (`serve.rs:635`, `guest_diag.rs:48`) | serve extracts guest diagnostics into `diagnostics[]` (`docs/native-component-targets.md:56`) |

Met while modelling, in the model as the code has them, without a run of their own:

- `--max-wall-ms-per-request`, "Hard cap on wall time spent per request (ms)." (`cli/mod.rs:500`), covers
  the call alone (`serve.rs:1673`). It cannot strike while the guest computes, start code waits without a
  limit (`serve.rs:1644`), and a response or body the guest keeps is waited for after it: the ways to be
  stuck that `EndsUnlessStuck` names.
- `--max-effect-results-bytes`, "Max total effect result bytes." (`cli/mod.rs:954`), is counted anew in
  every turn (`http_reducer/replay.rs:197`).
- `--max-request-bytes`, documented as body and headers, is compared with the body
  (`cli/mod.rs:492`, `serve.rs:1309`).
- `--stop-after` counts accepted connections, of which one may carry no request (`cli/mod.rs:476`).
- The limit on concurrent requests is parsed and not used (`cli/mod.rs:504`): connections are served
  one at a time.
- `time.now` of the reducer under clocks.mode = record reads the clock and records nothing
  (`http_reducer/replay.rs`).
- A stream that ends exactly at the cap turns an unrelated trap of `component run` into an exceeded
  output budget (`component/run.rs:308`).
- A component replaced between its digest and its compilation is run under the digest of the old one
  (`component/run.rs:178`).
- The accept loop does not warn of a bundle it could not write for a failed request
  (`serve.rs:1532`), and the canary loop leaves the response of an earlier turn in a bundle
  (`serve.rs:1061`).

Of builds (`ArtifactBuild`):

- A C compiler that fails in a component build is only noted. The object of an earlier build is linked,
  and the stale component gets a fresh manifest; the build does fail (`component/build.rs:3155`).
- Before composing only `is_file` is asked of the parts (`component/build.rs:738`).
- `x07-wasm build` writes the manifest although its checks of exports and memory have failed, and with
  `--no-manifest` it leaves an older manifest beside the new module, with exit code 0
  (`wasm/build.rs:853`).
- `component compose` may write an artifact document with the digest of nothing, of length zero
  (`component/compose.rs:301`).
- A native backend that exits with 0 and writes no module is noticed only if no earlier build has left one
  (`wasm/build.rs:682`).
- An adapter built by cargo is read at a fixed path of its target directory (`adapters.rs:91`). With
  another target directory in the environment what an earlier cargo left there is taken, or nothing is
  found, after cargo has exited with 0.
- Profiles are loaded and the project is digested before the compiler reads the sources again.
- `http`, `http-state-doc` and `http-native` write the same `http.component.wasm`.
- Built from source, an adapter is removed only after cargo has succeeded (`adapters.rs:43`); the
  comment on `preunlink_out` speaks of failing closed (`util.rs:75`).
- After a failed solve build `--emit all` builds the solve part again; the comment at
  `component/build.rs:648` says exactly once per invocation.

Of runs (`WasmRun`):

- A profile or an input that cannot be loaded leaves no bundle, nor does output that cannot be printed;
  `docs/solve-pure-wasm.md:48` says that failures of `x07-wasm run` leave one.
- Without `--json` a failing run prints nothing, and the warning that the bundle was lost is lost too.
  With `--json` and no `--output-out`, output of more than 4096 bytes is delivered nowhere.
- Printed output goes to a stdout that is buffered by lines and never flushed (`wasm/run.rs:787`): bytes
  after the last newline that a full device or a closed pipe does not take are lost at exit, with exit
  code 0. What fails at once gives exit code 2.
- Modules that cannot be read or parsed share one incident directory, that of the all-zero digest.
- The expectation `--max-memory` passes for a memory without a maximum; only `--no-growable-memory`
  refuses it.

Of packs (`WorkloadPack`):

- The output directory is not cleaned. Previews and sources of an earlier pack, and temporary files a
  kill has left beside the sources, are listed in the next runtime pack with their digests, and a build
  into the directory of a pack leaves its runtime pack with digests that no longer hold.
- `--pack-manifest` names a directory only: the sources are read under the default names, whatever
  `--project` and `--manifest` were (`workload/surface.rs:213`), so a pack under other names is not read,
  or an older one is.
- A file that is gone between loading and copying is passed over without a word (`workload/surface.rs:1325`).
- With a manifest that has no profiles any `--profile` gives the default one (`workload/surface.rs:538`).
- An output directory inside a module root is copied into itself (`workload/surface.rs:1292`); the module
  leaves this out.

Of tests and regressions (`HttpRegress`):

- The generated script, described by "Generate a regression test + trace fixture" (`cli/specrows.rs:108`),
  never tests anything: it gives `--quiet-json` without the `--report-out` that the command line requires
  with it (`regress_from_incident.rs:171`, `cli/mod.rs:53`), and ends with exit code 3 whatever the reducer
  does. `RegressionKeepsFailing` is therefore about `http test` with the fixture as its trace.
- An incident of `http test` does not say which reducer has failed, so the script names
  `dist/http_reducer.wasm` for all (`regress_from_incident.rs:169`).
- An incident that cannot be written is not mentioned (`test.rs:452`); without its directory there is a
  warning.
- A trace outside the schema is played all the same and counts among the cases that are ok, although
  the exit code is not 0 (`test.rs:244`).
- A fixture that cannot be written does not keep the script from being written, and what an earlier
  regress has left is digested into the report; the exit code is 2 (`regress_from_incident.rs:154`).
- A case that cannot be read leaves no incident (`test.rs:178`).

## 6. Limits

**Only model-checked**, on the instances above: the two liveness properties, and that the statements
of section 5 are violated.

**Known and not covered by a property:** the nondeterminism flags of a failed request are lost with its
store (`serve.rs:1471`); reading a request has no timeout (`serve.rs:1262`); secrets are resolved anew in
a replay (`caps/enforce.rs:52`); the look at the cap, the order of the two output files and the scan of
stderr in `component run` (`component/run.rs:308`, `:311`, `:424`, `guest_diag.rs:265`).

**Abstracted.** The reducer and the guests are arbitrary; wasmtime is modelled from how the code uses
it (fuel, traps, growth, pipes). A trap's classification is a choice among the budgets. Byte counts of
payloads are lengths; base64, JSON and schemas appear as "decodes or not", "in schema or not".
Days do not pass: the directory of a bundle also carries the date, and a run that crosses midnight is
left out. The file system fails per write, and a torn file is visible as such.

**Not modelled**, with the reason:

- *Profile validation, policy and ops documents, command line, doctor*:
  validation of documents in a fixed order, without state or interaction.
- *Reports, schemas, canonical JSON*: formatting, but for the one case that a report is refused.
- *Inside the builds*: compilers, linkers, wasm-tools, wac and cargo are external, and so is the wasm
  code `component/build.rs` injects into a native solve module; `component targets` compares worlds.
- *Inside a workload*: probes, rollout, autoscaling and schedules, vocabularies and texts of documents,
  and the contract schemas, which accept or refuse.
- *WIT registry*: planned.
- *http contracts validate*: shipped fixtures against schemas, without state.
- *C glue, generated bindings, benchmarks*: generated code, or no part of the system's behaviour.

## 7. Plan

Done, in this order: `ExitCode`; `HttpEffectLoop` with its contract, the most intricate loop of
the program; `SolveAbi` below it; `HandleRequest` and `ServeHost`, the two halves of `serve`;
`CapsEvidence`; `ComponentRun`; `ArtifactBuild`; `WasmRun`; `HttpRegress`; `WorkloadPack`, with proofs of every
safety property.

Next:

1. *CapsPolicy:* the decision on an outbound connection, mount, variable and secret
   (`caps/enforce.rs`, `caps/doc.rs`) with the digests and obligations of policy and ops documents.
2. *BumpRealloc:* the allocator the native glue injects, over sequences of allocations.
3. *WitDeps:* the closure of package dependencies (`wit/index.rs`, `wit/bundle.rs`) and its order.
