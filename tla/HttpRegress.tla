----------------------------- MODULE HttpRegress -----------------------------
(***************************************************************************)
(* x07-wasm http test and x07-wasm http regress from-incident, one command *)
(* after the other over one file system (crates/x07-wasm/src/http_reducer/ *)
(* test.rs, regress_from_incident.rs, core_replay.rs).                     *)
(*                                                                         *)
(* A test replays trace files on a reducer and compares frame by frame.    *)
(* All cases of a command are played on one instance, one after the other. *)
(* A case that fails leaves an incident, and an incident can be turned     *)
(* into a fixture, which is the trace of another test, and a script, whose *)
(* command line x07-wasm refuses.  In between, and while they run, others  *)
(* change traces and reducers.                                             *)
(***************************************************************************)
EXTENDS Naturals, Sequences, ExitCode

CONSTANTS
    Versions,    \* builds of the reducer
    Components,  \* paths a reducer can lie at
    Default,     \* dist/http_reducer.wasm, which generated scripts name
    Cases,       \* trace files written by hand
    Envs,        \* dispatches in the schema
    BadEnv,      \* a dispatch outside of it
    Frames,      \* frames in the schema
    Traces,      \* contents of trace files that are JSON
    MaxSteps,    \* the longest of them
    Answers,     \* what a build answers in an instance, called before or not
    Null,        \* no file, or one that is cut short
    Tests,       \* command lines of http test, the traces sorted by path
    MaxRuns,     \* bound: commands
    MaxEdits     \* bound: changes by others

\* A trap, an exhausted budget, no JSON, and JSON outside the schema.
Breaks == {"trap", "budget", "garbled", "off schema"}

ASSUME ConstantsAssumption ==
    /\ Default \in Components
    /\ Null \notin Versions \cup Traces
    /\ BadEnv \notin Envs /\ Breaks \cap Frames = {}
    /\ Answers \in [Versions -> [BOOLEAN -> [Envs -> Frames \cup Breaks]]]
    /\ \A t \in Traces :
          /\ t.valid \in BOOLEAN
          /\ t.steps \in Seq([env : Envs \cup {BadEnv}, frame : Frames])
          /\ Len(t.steps) <= MaxSteps
          /\ t.valid => \A i \in DOMAIN t.steps : t.steps[i].env # BadEnv
    /\ \A t \in Tests : t.component \in Components /\ t.cases \in Seq(Cases)
    /\ MaxSteps \in Nat /\ MaxRuns \in Nat /\ MaxEdits \in Nat

\* Directories of incidents: a digest of the case and the number of the step.
Dirs == [trace : Traces \cup {Null}, step : 1..MaxSteps]

VARIABLES
    deployed,   \* the reducer at each path
    cases,      \* the contents of the trace files
    incidents,  \* by directory: the trace and, as history, the build that failed on it
    fixtures,   \* by directory they come from: likewise
    scripts,    \* the directories a script was made from
    edits,      \* changes by others so far
    runs,       \* commands so far
    command,    \* the last one: its kind, component, cases still to play, directory
    pc,         \* "idle", "load", "case", "step", "incident", "fixture", "script" or "emit"
    version,    \* the build the instance was made of
    called,     \* the instance has been called
    fresh,      \* history: it had not been when the case began
    trace,      \* the trace that is played
    at,         \* its step
    played,     \* history: the traces that were read, and whether by a fresh instance
    diags,      \* diagnostics
    broken,     \* history: something could not be read, written or made
    exit        \* exit code of the last command; 9 while it runs and when it was killed

world == <<deployed, cases, edits>>
store == <<incidents, fixtures, scripts>>
core  == <<version, called>>
place == <<trace, at, fresh, played>>
vars  == <<world, store, runs, command, pc, core, place, diags, broken, exit>>

Nothing == [trace |-> Null, of |-> Null]

Init ==
    /\ deployed \in [Components -> Versions \cup {Null}]
    /\ cases \in [Cases -> Traces \cup {Null}]
    /\ incidents = [k \in Dirs |-> Nothing]
    /\ fixtures = [k \in Dirs |-> Nothing]
    /\ scripts = {}
    /\ edits = 0 /\ runs = 0 /\ pc = "idle"
    /\ command = [kind |-> "none", component |-> Default, cases |-> <<>>, dir |-> Null]
    /\ version = Null /\ called = FALSE /\ fresh = TRUE
    /\ trace = Null /\ at = 1 /\ played = {}
    /\ diags = {} /\ broken = FALSE /\ exit = 9

-----------------------------------------------------------------------------
(* Others.                                                                 *)

MayEdit == edits < MaxEdits /\ (pc # "idle" \/ runs < MaxRuns)

\* Somebody builds or removes a reducer.
Deploy ==
    /\ MayEdit
    /\ \E c \in Components : \E v \in (Versions \cup {Null}) \ {deployed[c]} :
          deployed' = [deployed EXCEPT ![c] = v]
    /\ edits' = edits + 1
    /\ UNCHANGED <<cases, store, runs, command, pc, core, place, diags, broken, exit>>

EditCase ==
    /\ MayEdit
    /\ \E f \in Cases : \E t \in (Traces \cup {Null}) \ {cases[f]} :
          cases' = [cases EXCEPT ![f] = t]
    /\ edits' = edits + 1
    /\ UNCHANGED <<deployed, store, runs, command, pc, core, place, diags, broken, exit>>

-----------------------------------------------------------------------------
(* http test: the reducer.                                                 *)

General(code) == Error(code, "run", "general")
Parse(code)   == Error(code, "parse", "general")

ComponentReadFailed == Parse("X07WASM_HTTP_TEST_COMPONENT_READ_FAILED")
LoadErrors == {Parse("X07WASM_WASM_PROFILE_LOAD_FAILED"),
               General("X07WASM_HTTP_TEST_COMPONENT_LOAD_FAILED")}
TraceMissing == Parse("X07WASM_HTTP_TEST_TRACE_MISSING")

\* A fixture is given as the only trace.
OfFixture(c, k) == [kind |-> "test", component |-> c, cases |-> <<k>>, dir |-> k]
FixtureTests == {OfFixture(p, k) : p \in Components, k \in {d \in Dirs : fixtures[d] # Nothing}}

ByHand == {[kind |-> "test", component |-> t.component, cases |-> t.cases, dir |-> Null] : t \in Tests}

Begin(c) ==
    /\ pc = "idle" /\ runs < MaxRuns
    /\ runs' = runs + 1
    /\ command' = c
    /\ trace' = Null /\ at' = 1 /\ fresh' = TRUE /\ played' = {}
    /\ exit' = 9
    /\ UNCHANGED <<world, store>>

StartTest ==
    \E c \in ByHand \cup FixtureTests :
        /\ Begin(c)
        /\ version' = Null /\ called' = FALSE
        /\ IF deployed[c.component] = Null
             THEN pc' = "emit" /\ diags' = {ComponentReadFailed} /\ broken' = TRUE
             ELSE pc' = "load" /\ diags' = {} /\ broken' = FALSE

\* A script names the default path, whatever reducer has failed, as incidents
\* do not say where it lay; and --quiet-json without the --report-out that the
\* command line requires with it, so that it never gets to a test.
Script(k)   == [kind |-> "script", component |-> Default, cases |-> <<>>, dir |-> k]
ArgsInvalid == Parse("X07WASM_CLI_ARGS_INVALID")

RunScript ==
    \E k \in scripts :
        /\ Begin(Script(k))
        /\ pc' = "emit" /\ diags' = {ArgsInvalid} /\ broken' = FALSE
        /\ UNCHANGED core

\* The reducer is read a second time.
LoadFails ==
    /\ pc = "load"
    /\ \E d \in LoadErrors : diags' = diags \cup {d}
    /\ pc' = "emit" /\ broken' = TRUE
    /\ UNCHANGED <<world, store, runs, command, core, place, exit>>

Load ==
    /\ pc = "load" /\ deployed[command.component] # Null
    /\ version' = deployed[command.component] /\ called' = FALSE
    /\ diags' = IF command.cases = <<>> THEN {TraceMissing} ELSE diags
    /\ pc' = "case"
    /\ UNCHANGED <<world, store, runs, command, place, broken, exit>>

-----------------------------------------------------------------------------
(* http test: a case.                                                      *)

CaseFailed   == General("X07WASM_HTTP_TEST_CASE_FAILED")
TraceInvalid == Parse("X07WASM_SCHEMA_INVALID")

Content(f) == IF f \in Dirs THEN fixtures[f].trace ELSE cases[f]
Case       == Head(command.cases)
NextCase   == command' = [command EXCEPT !.cases = Tail(@)] /\ pc' = "case"

\* It cannot be read, or is no JSON; such a case leaves no incident.
CaseUnreadable ==
    /\ pc = "case" /\ command.cases # <<>>
    /\ diags' = diags \cup {CaseFailed} /\ broken' = TRUE
    /\ NextCase
    /\ UNCHANGED <<world, store, runs, core, place, exit>>

\* A trace outside the schema is noted, and played all the same.
ReadCase ==
    /\ pc = "case" /\ command.cases # <<>> /\ Content(Case) # Null
    /\ trace' = Content(Case) /\ at' = 1 /\ fresh' = ~called
    /\ played' = played \cup {[trace |-> trace', fresh |-> fresh']}
    /\ diags' = IF trace'.valid THEN diags ELSE diags \cup {TraceInvalid}
    /\ pc' = "step"
    /\ UNCHANGED <<world, store, runs, command, core, broken, exit>>

env   == trace.steps[at].env
reply == Answers[version][called][env]

\* A budget the engine exceeds, any other failure of the call, frames that are
\* no JSON or outside the schema, and frames other than the recorded one.
StepError ==
    CASE env = BadEnv                         -> Parse("X07WASM_HTTP_DISPATCH_SCHEMA_INVALID")
      [] reply = "budget"                     -> Error("X07WASM_BUDGET_EXCEEDED_CPU_FUEL", "run", "budget")
      [] reply = "trap"                       -> General("X07WASM_HTTP_TEST_CALL_FAILED")
      [] reply \in {"garbled", "off schema"}  -> Parse("X07WASM_HTTP_FRAME_SCHEMA_INVALID")
      [] OTHER                                -> General("X07WASM_HTTP_TEST_FRAME_MISMATCH")

\* Mutant of Matches: any frame in the schema will do.
MatchesShape == env # BadEnv /\ reply \in Frames

Matches == env # BadEnv /\ reply = trace.steps[at].frame

StepMatches ==
    /\ pc = "step" /\ at <= Len(trace.steps) /\ Matches
    /\ called' = TRUE
    /\ at' = at + 1
    /\ UNCHANGED <<world, store, runs, command, pc, version, trace, fresh, played, diags, broken, exit>>

\* The rest of the trace is not played.
StepFails ==
    /\ pc = "step" /\ at <= Len(trace.steps) /\ ~Matches
    /\ called' = (called \/ env # BadEnv)
    /\ diags' = diags \cup {StepError}
    /\ pc' = "incident"
    /\ UNCHANGED <<world, store, runs, command, version, place, broken, exit>>

CasePasses ==
    /\ pc = "step" /\ at > Len(trace.steps)
    /\ NextCase
    /\ UNCHANGED <<world, store, runs, core, place, diags, broken, exit>>

\* Each build is a function of the dispatch and of what the instance holds, for
\* nothing is imported; a pure one holds nothing.
Pure(v) == Answers[v][TRUE] = Answers[v][FALSE]

\* The trace file is read twice again, for its digest and for its content, and
\* somebody may have changed it before either.
IncidentDirs == {[trace |-> t, step |-> at] : t \in {trace, Content(Case)}}

Incident ==
    [trace |-> Content(Case),
     of    |-> IF Content(Case) = trace /\ (Pure(version) \/ fresh) THEN version ELSE Null]

WriteIncident ==
    /\ pc = "incident"
    /\ \E k \in IncidentDirs : incidents' = [incidents EXCEPT ![k] = Incident]
    /\ NextCase
    /\ UNCHANGED <<world, fixtures, scripts, runs, core, place, diags, broken, exit>>

\* Not written, or cut short.
IncidentLost ==
    \/ UNCHANGED incidents
    \/ \E k \in IncidentDirs : incidents' = [incidents EXCEPT ![k] = Nothing]

\* Without a directory there is a warning, without the file not even that.
IncidentFails ==
    /\ pc = "incident"
    /\ \/ /\ diags' = diags \cup {Warning("X07WASM_HTTP_TEST_INCIDENT_DIR_CREATE_FAILED", "run")}
          /\ UNCHANGED incidents
       \/ IncidentLost /\ UNCHANGED diags
    /\ NextCase
    /\ UNCHANGED <<world, fixtures, scripts, runs, core, place, broken, exit>>

LastCase ==
    /\ pc = "case" /\ command.cases = <<>>
    /\ pc' = "emit"
    /\ UNCHANGED <<world, store, runs, command, core, place, diags, broken, exit>>

-----------------------------------------------------------------------------
(* http regress from-incident.                                             *)

\* No file, no JSON, or of another kind.
IncidentInvalid == Parse("X07WASM_HTTP_INCIDENT_READ_FAILED")
OutDirFailed    == General("X07WASM_HTTP_REGRESS_OUTDIR_CREATE_FAILED")
WriteFailed     == Error("X07WASM_HTTP_REGRESS_WRITE_FAILED", "run", "tool")

StartRegress ==
    \E k \in Dirs :
        /\ incidents[k] # Nothing \/ k.step = 1
        /\ Begin([kind |-> "regress", component |-> Default, cases |-> <<>>, dir |-> k])
        /\ LET t == incidents[k].trace IN
           \/ pc' = "emit" /\ diags' = {IncidentInvalid}
           \/ t # Null /\ ~t.valid /\ pc' = "emit" /\ diags' = {TraceInvalid}
           \/ t # Null /\ t.valid /\ pc' = "emit" /\ diags' = {OutDirFailed}
           \/ t # Null /\ t.valid /\ pc' = "fixture" /\ diags' = {}
        /\ broken' = FALSE
        /\ UNCHANGED core

FixtureLost == fixtures' \in {fixtures, [fixtures EXCEPT ![command.dir] = Nothing]}
ScriptLost  == scripts' \in {scripts, scripts \ {command.dir}}

\* Mutant of WriteFixture: only the steps before the failing one are kept.
WriteFixtureBeforeFailure ==
    /\ pc = "fixture"
    /\ fixtures' = [fixtures EXCEPT ![command.dir] =
                       [incidents[command.dir] EXCEPT !.trace.steps = SubSeq(@, 1, command.dir.step - 1)]]
    /\ pc' = "script"
    /\ UNCHANGED <<world, incidents, scripts, runs, command, core, place, diags, broken, exit>>

\* The name of the fixture comes from that of the directory alone.
WriteFixture ==
    /\ pc = "fixture"
    /\ fixtures' = [fixtures EXCEPT ![command.dir] = incidents[command.dir]]
    /\ pc' = "script"
    /\ UNCHANGED <<world, incidents, scripts, runs, command, core, place, diags, broken, exit>>

\* Mutant of FixtureFails: the failure is not told.
FixtureFailsQuietly ==
    /\ pc = "fixture"
    /\ FixtureLost
    /\ pc' = "script"
    /\ UNCHANGED <<world, incidents, scripts, runs, command, core, place, diags, broken, exit>>

\* The script is written all the same.
FixtureFails ==
    /\ pc = "fixture"
    /\ FixtureLost
    /\ diags' = diags \cup {WriteFailed}
    /\ pc' = "script"
    /\ UNCHANGED <<world, incidents, scripts, runs, command, core, place, broken, exit>>

WriteScript ==
    /\ pc = "script"
    /\ scripts' = scripts \cup {command.dir}
    /\ pc' = "emit"
    /\ UNCHANGED <<world, incidents, fixtures, runs, command, core, place, diags, broken, exit>>

ScriptFails ==
    /\ pc = "script"
    /\ ScriptLost
    /\ diags' = diags \cup {WriteFailed}
    /\ pc' = "emit"
    /\ UNCHANGED <<world, incidents, fixtures, runs, command, core, place, broken, exit>>

-----------------------------------------------------------------------------
(* The end of a command.                                                   *)

\* A report that cannot be written ends the command with 2.
EmitReport ==
    /\ pc = "emit"
    /\ \/ exit' = ExitCodeOf(diags) /\ UNCHANGED broken
       \/ exit' = 2 /\ broken' = TRUE
    /\ pc' = "idle"
    /\ UNCHANGED <<world, store, runs, command, core, place, diags>>

\* Perhaps in the middle of a write.
Kill ==
    /\ pc # "idle"
    /\ pc' = "idle"
    /\ CASE pc = "incident" -> IncidentLost /\ UNCHANGED <<fixtures, scripts>>
         [] pc = "fixture"  -> FixtureLost /\ UNCHANGED <<incidents, scripts>>
         [] pc = "script"   -> ScriptLost /\ UNCHANGED <<incidents, fixtures>>
         [] OTHER           -> UNCHANGED store
    /\ UNCHANGED <<world, runs, command, core, place, diags, broken, exit>>

Rest == pc = "idle" /\ runs = MaxRuns /\ UNCHANGED vars

Next ==
    \/ Deploy \/ EditCase
    \/ StartTest \/ RunScript \/ LoadFails \/ Load \/ CaseUnreadable \/ ReadCase \/ StepMatches \/ StepFails
    \/ CasePasses \/ WriteIncident \/ IncidentFails \/ LastCase
    \/ StartRegress \/ WriteFixture \/ FixtureFails \/ WriteScript \/ ScriptFails
    \/ EmitReport \/ Kill \/ Rest

Spec == Init /\ [][Next]_vars

-----------------------------------------------------------------------------
(* Properties.                                                             *)

TypeOK ==
    /\ deployed \in [Components -> Versions \cup {Null}]
    /\ cases \in [Cases -> Traces \cup {Null}]
    /\ incidents \in [Dirs -> [trace : Traces \cup {Null}, of : Versions \cup {Null}]]
    /\ fixtures \in [Dirs -> [trace : Traces \cup {Null}, of : Versions \cup {Null}]]
    /\ scripts \subseteq Dirs
    /\ edits \in 0..MaxEdits /\ runs \in 0..MaxRuns
    /\ command \in [kind : {"none", "test", "script", "regress"}, component : Components,
                   cases : Seq(Cases \cup Dirs), dir : Dirs \cup {Null}]
    /\ pc \in {"idle", "load", "case", "step", "incident", "fixture", "script", "emit"}
    /\ version \in Versions \cup {Null} /\ called \in BOOLEAN /\ fresh \in BOOLEAN
    /\ trace \in Traces \cup {Null} /\ at \in 1..(MaxSteps + 1)
    /\ pc \in {"step", "incident"} => trace # Null /\ version # Null /\ command.cases # <<>>
    /\ played \subseteq [trace : Traces, fresh : BOOLEAN]
    /\ broken \in BOOLEAN
    /\ exit \in {0, 1, 2, 3, 4, 9}

Ended(kind) == pc = "idle" /\ command.kind = kind /\ exit # 9

\* What the build answers in an instance of its own.
Replays(v, t) ==
    \A i \in DOMAIN t.steps :
        t.steps[i].env # BadEnv /\ Answers[v][i > 1][t.steps[i].env] = t.steps[i].frame

\* The verdict of a test is about the reducer alone: exit code 0 means that
\* every trace is in the schema and that the build that was loaded gives its
\* frames in an instance of its own, for all cases when it is pure and for the
\* first one when it is not; and the test of a pure one succeeds when they all
\* do, whatever the cases before have left in the instance.
VerdictOfReducer ==
    Ended("test") =>
        /\ exit = 0 =>
              /\ played # {}
              /\ \A p \in played :
                    p.trace.valid /\ (Pure(version) \/ p.fresh => Replays(version, p.trace))
        /\ /\ ~broken /\ played # {}
           /\ Pure(version) /\ \A p \in played : p.trace.valid /\ Replays(version, p.trace)
           => exit = 0

\* Exit code 0 of a regress means that the fixture of the directory is the
\* trace of its incident and that there is a script for it, over whatever an
\* earlier regress, one that failed or was killed, has left; and a fixture is
\* never outside the schema, where a test of it could not succeed.
RegressComplete ==
    /\ Ended("regress") /\ exit = 0 =>
          fixtures[command.dir] = incidents[command.dir] /\ command.dir \in scripts
    /\ \A k \in Dirs : fixtures[k].trace # Null => fixtures[k].trace.valid

\* A regression keeps failing until the reducer has changed: a test of the
\* fixture that was made from the failure of a build never succeeds on that
\* build, wherever it lies, through the incident, the fixture, and another
\* instance.  Of a build that is not pure this holds for a failure in the first
\* case only.
RegressionKeepsFailing ==
    Ended("test") /\ command.dir # Null /\ exit = 0 => version # fixtures[command.dir].of
=============================================================================
