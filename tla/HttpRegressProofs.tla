------------------------- MODULE HttpRegressProofs -------------------------
(***************************************************************************)
(* The safety properties of HttpRegress for any number of commands, edits, *)
(* traces and reducers.                                                    *)
(***************************************************************************)
EXTENDS HttpRegress, SequenceTheorems, TLAPS

\* The exit code is 0 exactly when no diagnostic is an error.
LEMMA ExitCodeFacts ==
    ASSUME NEW ds
    PROVE  /\ ExitCodeOf(ds) \in {0, 1, 2, 3, 4}
           /\ ExitCodeOf(ds) = 0 <=> Errors(ds) = {}
  BY DEF ExitCodeOf

\* More diagnostics have more errors, and all that are noted are errors but
\* the one about the directory of an incident.
LEMMA ErrorsGrow ==
    ASSUME NEW ds, NEW es
    PROVE  /\ Errors(ds) \subseteq Errors(ds \cup es)
           /\ \A d \in es : d.severity = "error" => Errors(ds \cup es) # {}
  BY DEF Errors

LEMMA DiagForms ==
    /\ \A d \in LoadErrors : d.severity = "error"
    /\ \A d \in {ComponentReadFailed, TraceMissing, CaseFailed, TraceInvalid, IncidentInvalid,
                 OutDirFailed, WriteFailed, ArgsInvalid} : d.severity = "error"
    /\ StepError.severity = "error"
  <1>1. \A n, s, f : Error(n, s, f).severity = "error"
    BY DEF Error, Diag
  <1>2. \A n : Parse(n).severity = "error" /\ General(n).severity = "error"
    BY <1>1 DEF Parse, General
  <1>3. StepError.severity = "error"
    BY <1>1, <1>2 DEF StepError
  <1> QED
    BY <1>1, <1>2, <1>3 DEF LoadErrors, ComponentReadFailed, TraceMissing, CaseFailed, TraceInvalid,
       IncidentInvalid, OutDirFailed, WriteFailed, ArgsInvalid

-----------------------------------------------------------------------------
(* Types.                                                                  *)

Stores == [trace : Traces \cup {Null}, of : Versions \cup {Null}]

LEMMA HeadTail ==
    ASSUME NEW S, NEW s \in Seq(S), s # <<>>
    PROVE  Head(s) \in S /\ Tail(s) \in Seq(S)
  OBVIOUS

LEMMA ContentType ==
    ASSUME TypeOK, NEW f \in Cases \cup Dirs
    PROVE  Content(f) \in Traces \cup {Null}
  BY DEF TypeOK, Content

LEMMA TraceForm ==
    ASSUME NEW t \in Traces
    PROVE  /\ t.valid \in BOOLEAN /\ Len(t.steps) \in 0..MaxSteps
           /\ DOMAIN t.steps = 1..Len(t.steps)
           /\ \A i \in DOMAIN t.steps : t.steps[i].env \in Envs \cup {BadEnv}
  <1>1. t.valid \in BOOLEAN /\ t.steps \in Seq([env : Envs \cup {BadEnv}, frame : Frames])
           /\ Len(t.steps) <= MaxSteps /\ MaxSteps \in Nat
    BY ConstantsAssumption
  <1>2. DOMAIN t.steps = 1..Len(t.steps) /\ Len(t.steps) \in Nat
    BY <1>1, LenProperties
  <1>3. \A i \in DOMAIN t.steps : t.steps[i] \in [env : Envs \cup {BadEnv}, frame : Frames]
    <2> DEFINE S == [env : Envs \cup {BadEnv}, frame : Frames]
    <2>1. t.steps \in Seq(S)
      BY <1>1
    <2> HIDE DEF S
    <2>2. \A i \in 1..Len(t.steps) : t.steps[i] \in S
      BY <2>1, ElementOfSeq
    <2> QED BY <1>2, <2>2 DEF S
  <1> QED BY <1>1, <1>2, <1>3

LEMMA CaseType ==
    ASSUME TypeOK, command.cases # <<>>
    PROVE  /\ Case \in Cases \cup Dirs /\ Content(Case) \in Traces \cup {Null}
           /\ Tail(command.cases) \in Seq(Cases \cup Dirs)
  <1>1. command.cases \in Seq(Cases \cup Dirs)
    BY DEF TypeOK
  <1> QED BY <1>1, HeadTail, ContentType DEF Case

Commands == [kind : {"none", "test", "script", "regress"}, component : Components,
             cases : Seq(Cases \cup Dirs), dir : Dirs \cup {Null}]

LEMMA InitType == Init => TypeOK
  <1> SUFFICES ASSUME Init PROVE TypeOK
    OBVIOUS
  <1>1. Nothing \in Stores
    BY DEF Nothing, Stores
  <1>2. <<>> \in Seq(Cases \cup Dirs)
    OBVIOUS
  <1>3. command \in Commands
    BY <1>2, ConstantsAssumption DEF Init, Commands
  <1>4. incidents \in [Dirs -> Stores] /\ fixtures \in [Dirs -> Stores]
    BY <1>1 DEF Init
  <1>5. edits \in 0..MaxEdits /\ runs \in 0..MaxRuns /\ at \in 1..(MaxSteps + 1)
    BY ConstantsAssumption DEF Init
  <1> QED BY <1>3, <1>4, <1>5 DEF Init, TypeOK, Stores, Commands

\* Which command is at which step, and when its exit code is out.
Phases ==
    /\ pc \in {"load", "case", "step", "incident"} => command.kind = "test"
    /\ pc \in {"fixture", "script"} => command.kind = "regress"
    /\ command.kind = "regress" => command.dir \in Dirs
    /\ pc # "idle" => exit = 9
    /\ pc = "case" => version # Null

LEMMA NextCaseType ==
    ASSUME TypeOK, command.cases # <<>>, NextCase
    PROVE  /\ command' \in Commands /\ pc' = "case"
           /\ command'.kind = command.kind /\ command'.dir = command.dir
           /\ command'.cases = Tail(command.cases)
  <1>1. Tail(command.cases) \in Seq(Cases \cup Dirs)
    BY CaseType
  <1> QED BY <1>1 DEF TypeOK, NextCase, Commands

LEMMA FixtureType ==
    ASSUME NEW k \in Dirs, NEW p \in Components
    PROVE  OfFixture(p, k) \in Commands /\ Script(k) \in Commands
  <1>1. <<k>> \in Seq(Cases \cup Dirs) /\ <<>> \in Seq(Cases \cup Dirs)
    OBVIOUS
  <1> QED BY <1>1, ConstantsAssumption DEF OfFixture, Script, Commands

LEMMA ByHandType == ByHand \subseteq Commands
  <1>1. \A t \in Tests : t.cases \in Seq(Cases \cup Dirs)
    <2> SUFFICES ASSUME NEW t \in Tests PROVE t.cases \in Seq(Cases \cup Dirs)
      OBVIOUS
    <2>1. t.cases \in Seq(Cases)
      BY ConstantsAssumption
    <2>2. Cases \subseteq Cases \cup Dirs
      OBVIOUS
    <2> QED BY <2>1, <2>2
  <1> QED BY <1>1, ConstantsAssumption DEF ByHand, Commands

LEMMA LostType ==
    ASSUME TypeOK
    PROVE  /\ \A k : [incidents EXCEPT ![k] = Nothing] \in [Dirs -> Stores]
           /\ \A k : [fixtures EXCEPT ![k] = Nothing] \in [Dirs -> Stores]
  BY DEF TypeOK, Stores, Nothing

LEMMA WorldTypeStep ==
    ASSUME TypeOK, Deploy \/ EditCase
    PROVE  TypeOK'
  <1>1. CASE Deploy
    <2>1. deployed' \in [Components -> Versions \cup {Null}]
      BY <1>1 DEF Deploy, TypeOK
    <2>2. edits' \in 0..MaxEdits
      BY <1>1, ConstantsAssumption DEF Deploy, MayEdit, TypeOK
    <2> QED
      BY <1>1, <2>1, <2>2 DEF Deploy, TypeOK, store, core, place
  <1>2. CASE EditCase
    <2>1. cases' \in [Cases -> Traces \cup {Null}]
      BY <1>2 DEF EditCase, TypeOK
    <2>2. edits' \in 0..MaxEdits
      BY <1>2, ConstantsAssumption DEF EditCase, MayEdit, TypeOK
    <2> QED
      BY <1>2, <2>1, <2>2 DEF EditCase, TypeOK, store, core, place
  <1> QED BY <1>1, <1>2

LEMMA BeginType ==
    ASSUME TypeOK, NEW c \in Commands, Begin(c)
    PROVE  /\ runs' \in 0..MaxRuns /\ command' \in Commands
           /\ trace' \in Traces \cup {Null} /\ at' \in 1..(MaxSteps + 1)
           /\ fresh' \in BOOLEAN /\ played' = {} /\ exit' = 9
           /\ UNCHANGED <<deployed, cases, edits, incidents, fixtures, scripts>>
  BY ConstantsAssumption DEF TypeOK, Begin, world, store

LEMMA StartTypeStep ==
    ASSUME TypeOK, StartTest \/ RunScript \/ StartRegress
    PROVE  TypeOK' /\ Phases'
  <1>1. CASE StartTest
    <2>1. PICK c \in ByHand \cup FixtureTests : StartTest!(c)
      BY <1>1 DEF StartTest
    <2>2. c \in Commands /\ c.kind = "test"
      <3>1. CASE c \in ByHand
        BY <3>1, ByHandType DEF ByHand
      <3>2. ASSUME NEW p \in Components, NEW k \in Dirs, c = OfFixture(p, k)
            PROVE  c \in Commands /\ c.kind = "test"
        BY <3>2, FixtureType DEF OfFixture
      <3> QED BY <2>1, <3>1, <3>2 DEF FixtureTests
    <2>3. pc' \in {"load", "emit"} /\ broken' \in BOOLEAN /\ version' = Null /\ called' = FALSE
      BY <2>1
    <2>4. Begin(c)
      BY <2>1
    <2>5. command' = c /\ command'.kind = "test"
      BY <2>2, <2>4 DEF Begin
    <2> QED
      BY <2>2, <2>3, <2>4, <2>5, BeginType DEF TypeOK, Phases, Commands
  <1>2. CASE StartRegress
    <2>1. PICK k \in Dirs : StartRegress!(k)
      BY <1>2 DEF StartRegress
    <2> DEFINE c == [kind |-> "regress", component |-> Default, cases |-> <<>>, dir |-> k]
    <2>2. c \in Commands
      BY ConstantsAssumption DEF Commands
    <2>3. /\ pc' \in {"emit", "fixture"} /\ broken' = FALSE
          /\ version' = version /\ called' = called
      BY <2>1 DEF core
    <2>4. Begin(c)
      BY <2>1
    <2>5. command' = c
      BY <2>4 DEF Begin
    <2>6. command'.kind = "regress" /\ command'.dir = k
      BY <2>5
    <2> HIDE DEF c
    <2> QED
      BY <2>2, <2>3, <2>4, <2>6, BeginType DEF TypeOK, Phases, Commands
  <1>3. CASE RunScript
    <2>1. PICK k \in scripts : RunScript!(k)
      BY <1>3 DEF RunScript
    <2>2. Script(k) \in Commands
      BY FixtureType, ConstantsAssumption DEF TypeOK
    <2>3. Begin(Script(k)) /\ pc' = "emit" /\ broken' = FALSE /\ UNCHANGED <<version, called>>
      BY <2>1 DEF core
    <2>4. command' = Script(k) /\ command'.kind = "script"
      BY <2>3 DEF Begin, Script
    <2> QED
      BY <2>2, <2>3, <2>4, BeginType DEF TypeOK, Phases, Commands
  <1> QED BY <1>1, <1>2, <1>3

LEMMA TestTypeStep ==
    ASSUME TypeOK, Phases,
           \/ LoadFails \/ Load \/ CaseUnreadable \/ ReadCase \/ StepMatches \/ StepFails
           \/ CasePasses \/ LastCase
    PROVE  TypeOK' /\ Phases'
  <1>1. CASE LoadFails
    BY <1>1 DEF LoadFails, TypeOK, Phases, world, store, core, place
  <1>2. CASE Load
    <2>1. version' \in Versions
      BY <1>2 DEF Load, TypeOK
    <2> QED
      BY <1>2, <2>1, ConstantsAssumption DEF Load, TypeOK, Phases, world, store, place
  <1>3. CASE CaseUnreadable
    <2>1. command.cases # <<>> /\ NextCase
      BY <1>3 DEF CaseUnreadable
    <2> QED
      BY <1>3, <2>1, NextCaseType DEF CaseUnreadable, TypeOK, Phases, Commands, world, store, core, place
  <1>4. CASE ReadCase
    <2>1. trace' \in Traces
      BY <1>4, CaseType DEF ReadCase
    <2>2. fresh' \in BOOLEAN
      BY <1>4 DEF ReadCase, TypeOK
    <2>3. played' \subseteq [trace : Traces, fresh : BOOLEAN]
      <3>1. played' = played \cup {[trace |-> trace', fresh |-> fresh']}
        BY <1>4 DEF ReadCase
      <3>2. [trace |-> trace', fresh |-> fresh'] \in [trace : Traces, fresh : BOOLEAN]
        BY <2>1, <2>2
      <3> QED BY <3>1, <3>2 DEF TypeOK
    <2>4. at' \in 1..(MaxSteps + 1)
      BY <1>4, ConstantsAssumption DEF ReadCase
    <2> QED
      BY <1>4, <2>1, <2>2, <2>3, <2>4, ConstantsAssumption
      DEF ReadCase, TypeOK, Phases, world, store, core
  <1>5. CASE StepMatches
    <2>1. trace \in Traces
      BY <1>5 DEF StepMatches, TypeOK
    <2>2. at' \in 1..(MaxSteps + 1)
      BY <1>5, <2>1, TraceForm, ConstantsAssumption DEF StepMatches, TypeOK
    <2> QED
      BY <1>5, <2>2 DEF StepMatches, TypeOK, Phases, world, store
  <1>6. CASE StepFails
    <2>1. called' \in BOOLEAN
      BY <1>6 DEF StepFails, TypeOK
    <2> QED
      BY <1>6, <2>1 DEF StepFails, TypeOK, Phases, world, store, place
  <1>7. CASE CasePasses
    <2>1. command.cases # <<>> /\ NextCase /\ version # Null
      BY <1>7 DEF CasePasses, TypeOK
    <2> QED
      BY <1>7, <2>1, NextCaseType DEF CasePasses, TypeOK, Phases, Commands, world, store, core, place
  <1>8. CASE LastCase
    BY <1>8 DEF LastCase, TypeOK, Phases, world, store, core, place
  <1> QED BY <1>1, <1>2, <1>3, <1>4, <1>5, <1>6, <1>7, <1>8

LEMMA IncidentTypeStep ==
    ASSUME TypeOK, Phases, WriteIncident \/ IncidentFails
    PROVE  TypeOK' /\ Phases'
  <1>1. command.cases # <<>> /\ NextCase /\ version # Null /\ pc = "incident"
    BY DEF WriteIncident, IncidentFails, TypeOK
  <1>2. Incident \in Stores
    BY <1>1, CaseType DEF Incident, Stores, TypeOK
  <1>3. incidents' \in [Dirs -> Stores]
    <2>1. incidents \in [Dirs -> Stores]
      BY DEF TypeOK, Stores
    <2>2. \A k : [incidents EXCEPT ![k] = Incident] \in [Dirs -> Stores]
      BY <1>2, <2>1
    <2>3. CASE WriteIncident
      BY <2>3, <2>2 DEF WriteIncident
    <2>4. CASE IncidentFails
      BY <2>4, <2>1, LostType DEF IncidentFails, IncidentLost
    <2> QED BY <2>3, <2>4
  <1>4. /\ UNCHANGED <<world, fixtures, scripts, runs, core, place, broken, exit>>
    BY DEF WriteIncident, IncidentFails
  <1> QED
    BY <1>1, <1>3, <1>4, NextCaseType DEF TypeOK, Phases, Commands, Stores, world, core, place

LEMMA RegressTypeStep ==
    ASSUME TypeOK, Phases, WriteFixture \/ FixtureFails \/ WriteScript \/ ScriptFails
    PROVE  TypeOK' /\ Phases'
  <1>1. /\ UNCHANGED <<world, incidents, runs, command, core, place, broken, exit>>
        /\ pc \in {"fixture", "script"} /\ pc' \in {"script", "emit"}
    BY DEF WriteFixture, FixtureFails, WriteScript, ScriptFails
  <1>2. command.kind = "regress" /\ command.dir \in Dirs
    BY <1>1 DEF Phases
  <1>3. fixtures' \in [Dirs -> Stores]
    <2>1. incidents \in [Dirs -> Stores] /\ fixtures \in [Dirs -> Stores]
      BY DEF TypeOK, Stores
    <2>2. CASE WriteFixture
      BY <2>1, <2>2 DEF WriteFixture
    <2>3. CASE FixtureFails
      BY <2>1, <2>3, LostType DEF FixtureFails, FixtureLost
    <2>4. CASE WriteScript \/ ScriptFails
      BY <2>1, <2>4 DEF WriteScript, ScriptFails
    <2> QED BY <2>2, <2>3, <2>4
  <1>4. scripts' \subseteq Dirs
    BY <1>2 DEF WriteFixture, FixtureFails, WriteScript, ScriptFails, ScriptLost, TypeOK
  <1> QED
    BY <1>1, <1>3, <1>4 DEF TypeOK, Phases, Stores, world, core, place

LEMMA EndTypeStep ==
    ASSUME TypeOK, Phases, EmitReport \/ Kill \/ Rest
    PROVE  TypeOK' /\ Phases'
  <1>1. CASE EmitReport
    <2>1. exit' \in {0, 1, 2, 3, 4, 9} /\ broken' \in BOOLEAN
      BY <1>1, ExitCodeFacts DEF EmitReport, TypeOK
    <2> QED
      BY <1>1, <2>1 DEF EmitReport, TypeOK, Phases, world, store, core, place
  <1>2. CASE Kill
    <2>1. UNCHANGED <<world, runs, command, core, place, broken, exit>> /\ pc' = "idle"
      BY <1>2 DEF Kill
    <2>2. /\ incidents' \in [Dirs -> Stores] /\ fixtures' \in [Dirs -> Stores]
          /\ scripts' \subseteq Dirs
      <3>1. /\ incidents \in [Dirs -> Stores] /\ fixtures \in [Dirs -> Stores]
            /\ scripts \subseteq Dirs
        BY DEF TypeOK, Stores
      <3>2. CASE pc = "incident"
        BY <1>2, <3>1, <3>2, LostType DEF Kill, IncidentLost
      <3>3. CASE pc = "fixture"
        BY <1>2, <3>1, <3>3, LostType DEF Kill, FixtureLost
      <3>4. CASE pc = "script"
        BY <1>2, <3>1, <3>4 DEF Kill, ScriptLost
      <3>5. CASE pc \notin {"incident", "fixture", "script"}
        BY <1>2, <3>1, <3>5 DEF Kill, store
      <3> QED BY <3>2, <3>3, <3>4, <3>5
    <2> QED
      BY <2>1, <2>2 DEF TypeOK, Phases, Stores, world, core, place
  <1>3. CASE Rest
    BY <1>3 DEF Rest, vars, TypeOK, Phases, world, store, core, place
  <1> QED BY <1>1, <1>2, <1>3

LEMMA TypeStep == TypeOK /\ Phases /\ [Next]_vars => TypeOK' /\ Phases'
  <1> SUFFICES ASSUME TypeOK, Phases, [Next]_vars PROVE TypeOK' /\ Phases'
    OBVIOUS
  <1>1. CASE Deploy \/ EditCase
    <2>1. UNCHANGED <<pc, command, exit, version>>
      BY <1>1 DEF Deploy, EditCase, core
    <2> QED BY <1>1, <2>1, WorldTypeStep DEF Phases
  <1>2. CASE UNCHANGED vars
    BY <1>2 DEF vars, TypeOK, Phases, world, store, core, place
  <1> QED
    BY <1>1, <1>2, StartTypeStep, TestTypeStep, IncidentTypeStep, RegressTypeStep, EndTypeStep DEF Next

\* TypeOK is an invariant for every instance of the constants.
THEOREM TypeCorrect == Spec => []TypeOK
  <1>1. Init => TypeOK /\ Phases
    BY InitType DEF Init, Phases
  <1> QED BY <1>1, TypeStep, PTL DEF Spec

-----------------------------------------------------------------------------
(* The verdict of a test.                                                  *)

Sound   == Pure(version) \/ fresh
Current == [trace |-> trace, fresh |-> fresh]

\* The step is answered as recorded, in an instance of its own.
Holds(i) ==
    /\ trace.steps[i].env # BadEnv
    /\ Answers[version][i > 1][trace.steps[i].env] = trace.steps[i].frame

\* The steps that were played are all as recorded.
Playing ==
    pc = "step" =>
        /\ Current \in played /\ at <= Len(trace.steps) + 1
        /\ fresh => called = (at > 1)
        /\ Sound => \A i \in 1..(at - 1) : Holds(i)

\* A case that ends in an incident has failed for what the reducer answered.
Failing ==
    pc = "incident" =>
        /\ Current \in played /\ Errors(diags) # {}
        /\ Sound => ~Replays(version, trace)

\* Without an error every case is as recorded, but for the one being played.
Judged ==
    (pc # "idle" \/ exit # 9) /\ Errors(diags) = {} =>
        \A p \in played :
            /\ p.trace.valid
            /\ ~(pc = "step" /\ p = Current) /\ (Pure(version) \/ p.fresh) => Replays(version, p.trace)

\* Without an error some case is played before the command ends.
Counted ==
    Errors(diags) = {} =>
        /\ pc = "case" => played # {} \/ command.cases # <<>>
        /\ command.kind = "test" /\ (pc = "emit" \/ (pc = "idle" /\ exit # 9)) => played # {}

\* An error is about a case that was played, unless there is none.
Blamed ==
    command.kind = "test" /\ ~broken /\ Errors(diags) # {} =>
        \/ command.cases = <<>> /\ played = {}
        \/ \E p \in played : p.trace.valid /\ Pure(version) => ~Replays(version, p.trace)

Beginning == pc = "load" => played = {} /\ diags = {}

Exits ==
    pc = "idle" /\ exit # 9 =>
        /\ exit = 0 => Errors(diags) = {}
        /\ exit # 0 /\ ~broken => Errors(diags) # {}

VInv ==
    /\ TypeOK /\ Phases
    /\ Playing /\ Failing /\ Judged /\ Counted /\ Blamed /\ Beginning /\ Exits

\* What the instance has seen does not matter to a pure build, and the first
\* case of a command sees what an instance of its own would see.
LEMMA StepForm ==
    ASSUME TypeOK, Playing, pc = "step", Sound, at <= Len(trace.steps)
    PROVE  Matches <=> Holds(at)
  <1>1. trace.steps[at].env = BadEnv \/ reply = Answers[version][at > 1][env]
    <2>1. CASE fresh
      <3>1. called = (at > 1)
        BY <2>1 DEF Playing
      <3> QED BY <3>1 DEF reply
    <2>2. CASE Pure(version)
      <3>1. called \in BOOLEAN /\ (at > 1) \in BOOLEAN
        BY DEF TypeOK
      <3>2. \A b, c \in BOOLEAN : Answers[version][b] = Answers[version][c]
        BY <2>2 DEF Pure
      <3>3. Answers[version][called] = Answers[version][at > 1]
        BY <3>1, <3>2
      <3> QED BY <3>3 DEF reply
    <2> QED BY <2>1, <2>2 DEF Sound
  <1> QED BY <1>1 DEF Matches, Holds, env

LEMMA TraceAt ==
    ASSUME TypeOK, pc \in {"step", "incident"}
    PROVE  /\ trace \in Traces /\ version \in Versions /\ command.cases # <<>>
           /\ DOMAIN trace.steps = 1..Len(trace.steps) /\ Len(trace.steps) \in Nat /\ at \in Nat /\ at >= 1
  <1>1. trace \in Traces /\ version \in Versions /\ command.cases # <<>>
    BY DEF TypeOK
  <1> QED BY <1>1, TraceForm, ConstantsAssumption DEF TypeOK

LEMMA ReplaysForm ==
    ASSUME TypeOK, pc \in {"step", "incident"}
    PROVE  Replays(version, trace) <=> \A i \in 1..Len(trace.steps) : Holds(i)
  BY TraceAt DEF Replays, Holds

LEMMA PlayStep ==
    ASSUME VInv, StepMatches \/ StepFails \/ CasePasses
    PROVE  VInv'
  <1>1. TypeOK' /\ Phases'
    BY TestTypeStep DEF VInv
  <1>2. TypeOK /\ Playing /\ pc = "step" /\ Current \in played /\ exit = 9
    BY DEF VInv, Playing, StepMatches, StepFails, CasePasses, Phases
  <1>3. CASE StepMatches
    <2>1. /\ UNCHANGED <<command, pc, version, trace, fresh, played, diags, broken, exit>>
          /\ at' = at + 1 /\ called' = TRUE /\ at <= Len(trace.steps)
      BY <1>3 DEF StepMatches
    <2>2. Sound => Holds(at)
      BY <1>2, <1>3, <2>1, StepForm DEF StepMatches
    <2>3. Playing'
      <3>1. Current' = Current /\ (Sound' <=> Sound) /\ \A i : Holds(i)' <=> Holds(i)
        BY <2>1 DEF Current, Sound, Holds
      <3>2. called' = (at' > 1)
        <4>1. (at' > 1) = TRUE
          BY <1>2, <2>1, TraceAt
        <4> QED BY <2>1, <4>1
      <3>3. at' <= Len(trace'.steps) + 1
        BY <1>2, <2>1, TraceAt
      <3>4. ASSUME Sound, NEW i \in 1..(at' - 1) PROVE Holds(i)
        BY <1>2, <2>1, <2>2, <3>4, TraceAt DEF Playing
      <3> QED BY <1>2, <2>1, <3>1, <3>2, <3>3, <3>4 DEF Playing
    <2> QED
      BY <1>1, <1>2, <2>1, <2>3 DEF VInv, Failing, Judged, Counted, Blamed, Beginning, Exits, Current
  <1>4. CASE StepFails
    <2>1. /\ UNCHANGED <<command, version, trace, fresh, played, broken, exit>>
          /\ pc' = "incident" /\ at <= Len(trace.steps) /\ ~Matches
          /\ diags' = diags \cup {StepError}
      BY <1>4 DEF StepFails, place
    <2>2. Errors(diags') # {}
      BY <2>1, ErrorsGrow, DiagForms
    <2>3. Sound => ~Replays(version, trace)
      <3>1. Sound => ~Holds(at)
        BY <1>2, <2>1, StepForm
      <3> QED BY <1>2, <2>1, <3>1, ReplaysForm, TraceAt
    <2>4. Failing'
      BY <1>2, <2>1, <2>2, <2>3 DEF Failing, Sound, Current
    <2>5. Blamed'
      <3>1. Current \in played' /\ (Pure(version) => ~Replays(version, Current.trace))
        BY <1>2, <2>1, <2>3 DEF Sound, Current
      <3> QED BY <2>1, <3>1 DEF Blamed
    <2> QED
      BY <1>1, <2>1, <2>2, <2>4, <2>5 DEF VInv, Playing, Judged, Counted, Beginning, Exits
  <1>5. CASE CasePasses
    <2>1. /\ UNCHANGED <<version, trace, fresh, played, diags, broken, exit>>
          /\ pc' = "case" /\ at > Len(trace.steps)
          /\ command'.kind = command.kind
          /\ command.cases # <<>>
      BY <1>2, <1>5, NextCaseType, TraceAt DEF CasePasses, core, place
    <2>2. Sound => Replays(version, trace)
      BY <1>2, <2>1, ReplaysForm, TraceAt DEF Playing
    <2>3. Judged'
      <3> SUFFICES ASSUME Errors(diags) = {}, NEW p \in played
                   PROVE  /\ p.trace.valid
                          /\ Pure(version) \/ p.fresh => Replays(version, p.trace)
        BY <2>1 DEF Judged
      <3>1. /\ p.trace.valid
            /\ p # Current /\ (Pure(version) \/ p.fresh) => Replays(version, p.trace)
        BY <1>2 DEF VInv, Judged
      <3>2. p = Current => (Pure(version) \/ p.fresh => Replays(version, p.trace))
        BY <2>2 DEF Sound, Current
      <3> QED BY <3>1, <3>2
    <2>4. Blamed'
      BY <1>2, <2>1 DEF VInv, Blamed
    <2> QED
      BY <1>1, <1>2, <2>1, <2>3, <2>4 DEF VInv, Playing, Failing, Counted, Beginning, Exits
  <1> QED BY <1>3, <1>4, <1>5

LEMMA BeginVerdict ==
    ASSUME VInv, StartTest \/ RunScript \/ StartRegress
    PROVE  VInv'
  <1>1. TypeOK' /\ Phases'
    BY StartTypeStep DEF VInv
  <1>2. played' = {} /\ exit' = 9 /\ pc' \notin {"step", "incident", "case", "idle"}
    BY DEF StartTest, RunScript, StartRegress, Begin
  <1>3. CASE StartTest
    <2>1. \/ pc' = "emit" /\ diags' = {ComponentReadFailed} /\ broken' = TRUE
          \/ pc' = "load" /\ diags' = {} /\ broken' = FALSE
      BY <1>3 DEF StartTest
    <2>2. Errors({ComponentReadFailed}) # {} /\ Errors({}) = {}
      BY DiagForms DEF Errors
    <2> QED
      BY <1>1, <1>2, <2>1, <2>2
      DEF VInv, Playing, Failing, Judged, Counted, Blamed, Beginning, Exits
  <1>4. CASE StartRegress
    <2>1. pc' \in {"emit", "fixture"} /\ command'.kind = "regress"
      BY <1>4 DEF StartRegress, Begin
    <2> QED
      BY <1>1, <1>2, <2>1
      DEF VInv, Playing, Failing, Judged, Counted, Blamed, Beginning, Exits
  <1>5. CASE RunScript
    <2>1. pc' = "emit" /\ command'.kind = "script"
      BY <1>5 DEF RunScript, Begin, Script
    <2> QED
      BY <1>1, <1>2, <2>1
      DEF VInv, Playing, Failing, Judged, Counted, Blamed, Beginning, Exits
  <1> QED BY <1>3, <1>4, <1>5

LEMMA CaseVerdict ==
    ASSUME VInv, LoadFails \/ Load \/ CaseUnreadable \/ ReadCase \/ LastCase
    PROVE  VInv'
  <1>1. TypeOK' /\ Phases'
    BY TestTypeStep DEF VInv
  <1>2. pc \in {"load", "case"} /\ exit = 9 /\ exit' = 9
    BY DEF VInv, Phases, LoadFails, Load, CaseUnreadable, ReadCase, LastCase
  <1>3. CASE LoadFails
    <2>1. PICK d \in LoadErrors : diags' = diags \cup {d}
      BY <1>3 DEF LoadFails
    <2>2. Errors(diags') # {}
      BY <2>1, ErrorsGrow, DiagForms
    <2> QED
      BY <1>1, <1>3, <2>2
      DEF VInv, Playing, Failing, Judged, Counted, Blamed, Beginning, Exits, LoadFails
  <1>4. CASE Load
    <2>1. played' = {} /\ pc' = "case" /\ command' = command /\ diags = {}
      BY <1>4 DEF Load, place, VInv, Beginning
    <2>2. Errors({TraceMissing}) # {} /\ Errors({}) = {}
      BY DiagForms DEF Errors
    <2>3. CASE command.cases = <<>>
      <3>1. Errors(diags') # {}
        BY <1>4, <2>2, <2>3 DEF Load
      <3> QED
        BY <1>1, <2>1, <2>3, <3>1
        DEF VInv, Playing, Failing, Judged, Counted, Blamed, Beginning, Exits
    <2>4. CASE command.cases # <<>>
      <3>1. Errors(diags') = {}
        BY <1>4, <2>1, <2>2, <2>4 DEF Load
      <3> QED
        BY <1>1, <2>1, <2>4, <3>1
        DEF VInv, Playing, Failing, Judged, Counted, Blamed, Beginning, Exits
    <2> QED BY <2>3, <2>4
  <1>5. CASE CaseUnreadable
    <2>1. Errors(diags') # {}
      BY <1>5, ErrorsGrow, DiagForms DEF CaseUnreadable
    <2>2. pc' = "case" /\ broken' = TRUE
      BY <1>5 DEF CaseUnreadable, NextCase
    <2> QED
      BY <1>1, <2>1, <2>2
      DEF VInv, Playing, Failing, Judged, Counted, Blamed, Beginning, Exits
  <1>6. CASE ReadCase
    <2>1. /\ pc' = "step" /\ at' = 1 /\ fresh' = ~called /\ pc = "case"
          /\ played' = played \cup {Current'}
          /\ UNCHANGED <<command, version, called, broken>>
          /\ diags' = IF trace'.valid THEN diags ELSE diags \cup {TraceInvalid}
          /\ trace' \in Traces
      BY <1>6, CaseType DEF ReadCase, Current, core, VInv
    <2>2. Playing'
      <3>1. fresh' => called' = (at' > 1)
        <4>1. (at' > 1) = FALSE
          BY <2>1
        <4>2. called \in BOOLEAN
          BY DEF VInv, TypeOK
        <4> QED BY <2>1, <4>1, <4>2
      <3>2. Len(trace'.steps) \in Nat
        BY <2>1, TraceForm, ConstantsAssumption
      <3>3. 1..(at' - 1) = {}
        BY <2>1
      <3> QED BY <2>1, <3>1, <3>2, <3>3 DEF Playing, Current
    <2>3. CASE trace'.valid
      <3>1. Judged'
        BY <1>2, <2>1, <2>3 DEF VInv, Judged, Current
      <3>2. Blamed'
        <4>1. ~(command.cases = <<>>)
          BY <1>6 DEF ReadCase
        <4> QED BY <2>1, <2>3, <4>1 DEF VInv, Blamed
      <3> QED
        BY <1>1, <2>1, <2>2, <3>1, <3>2 DEF VInv, Failing, Counted, Beginning, Exits
    <2>4. CASE ~trace'.valid
      <3>1. Errors(diags') # {}
        BY <2>1, <2>4, ErrorsGrow, DiagForms
      <3>2. Current' \in played' /\ ~Current'.trace.valid
        BY <2>1, <2>4 DEF Current
      <3> QED
        BY <1>1, <2>1, <2>2, <3>1, <3>2 DEF VInv, Failing, Judged, Counted, Blamed, Beginning, Exits
    <2> QED BY <2>3, <2>4
  <1>7. CASE LastCase
    <2>1. /\ pc = "case" /\ command.cases = <<>> /\ pc' = "emit"
          /\ UNCHANGED <<command, version, trace, fresh, played, diags, broken>>
      BY <1>7 DEF LastCase, core, place
    <2>2. Judged'
      BY <1>2, <2>1 DEF VInv, Judged
    <2> QED
      BY <1>1, <2>1, <2>2 DEF VInv, Playing, Failing, Counted, Blamed, Beginning, Exits
  <1> QED BY <1>3, <1>4, <1>5, <1>6, <1>7

LEMMA IncidentVerdict ==
    ASSUME VInv, WriteIncident \/ IncidentFails
    PROVE  VInv'
  <1>1. TypeOK' /\ Phases'
    BY IncidentTypeStep DEF VInv
  <1>2. /\ pc = "incident" /\ pc' = "case" /\ exit = 9
        /\ UNCHANGED <<version, trace, fresh, played, broken, exit>>
        /\ command'.kind = command.kind
    BY TraceAt, NextCaseType DEF VInv, Phases, WriteIncident, IncidentFails, core, place
  <1>3. Errors(diags) # {} /\ Errors(diags') # {}
    <2>1. Errors(diags) # {}
      BY <1>2 DEF VInv, Failing
    <2> QED BY <2>1, ErrorsGrow DEF WriteIncident, IncidentFails
  <1>4. command.cases # <<>>
    BY <1>2, TraceAt DEF VInv
  <1>5. Blamed'
    BY <1>2, <1>3, <1>4 DEF VInv, Blamed
  <1> QED
    BY <1>1, <1>2, <1>3, <1>5 DEF VInv, Playing, Failing, Judged, Counted, Beginning, Exits

LEMMA OtherVerdict ==
    ASSUME VInv, \/ Deploy \/ EditCase \/ WriteFixture \/ FixtureFails \/ WriteScript \/ ScriptFails
                 \/ EmitReport \/ Kill \/ Rest \/ UNCHANGED vars
    PROVE  VInv'
  <1>1. TypeOK' /\ Phases'
    BY TypeStep DEF VInv, Next
  <1>2. CASE Deploy \/ EditCase \/ Rest \/ UNCHANGED vars
    <2>1. UNCHANGED <<command, pc, version, called, trace, at, fresh, played, diags, broken, exit>>
      BY <1>2 DEF Deploy, EditCase, Rest, vars, core, place
    <2> QED
      BY <1>1, <2>1
      DEF VInv, Playing, Failing, Judged, Counted, Blamed, Beginning, Exits, Sound, Current, Holds
  <1>3. CASE WriteFixture \/ FixtureFails \/ WriteScript \/ ScriptFails
    <2>1. /\ UNCHANGED <<command, version, trace, fresh, played, broken, exit>>
          /\ pc \in {"fixture", "script"} /\ pc' \in {"script", "emit"}
          /\ Errors(diags) \subseteq Errors(diags')
      BY <1>3, ErrorsGrow DEF WriteFixture, FixtureFails, WriteScript, ScriptFails, core, place
    <2>2. command.kind = "regress" /\ exit = 9
      BY <2>1 DEF VInv, Phases
    <2>3. Judged'
      BY <2>1, <2>2 DEF VInv, Judged
    <2> QED
      BY <1>1, <2>1, <2>2, <2>3 DEF VInv, Playing, Failing, Counted, Blamed, Beginning, Exits
  <1>4. CASE EmitReport
    <2>1. /\ pc = "emit" /\ pc' = "idle" /\ exit = 9
          /\ UNCHANGED <<command, version, trace, fresh, played, diags>>
          /\ \/ exit' = ExitCodeOf(diags) /\ broken' = broken
             \/ exit' = 2 /\ broken' = TRUE
      BY <1>4 DEF EmitReport, VInv, Phases, core, place
    <2>2. Exits'
      BY <2>1, ExitCodeFacts DEF Exits
    <2>3. Judged'
      BY <2>1 DEF VInv, Judged
    <2>4. Blamed'
      BY <2>1 DEF VInv, Blamed
    <2>5. Counted'
      BY <2>1 DEF VInv, Counted
    <2> QED
      BY <1>1, <2>1, <2>2, <2>3, <2>4, <2>5 DEF VInv, Playing, Failing, Beginning
  <1>5. CASE Kill
    <2>1. /\ pc # "idle" /\ pc' = "idle" /\ exit' = 9
          /\ UNCHANGED <<command, version, played, diags, broken>>
      BY <1>5 DEF Kill, VInv, Phases, core, place
    <2>2. Blamed'
      BY <2>1 DEF VInv, Blamed
    <2> QED
      BY <1>1, <2>1, <2>2 DEF VInv, Playing, Failing, Judged, Counted, Beginning, Exits
  <1> QED BY <1>2, <1>3, <1>4, <1>5

LEMMA InitVerdict == Init => VInv
  <1> SUFFICES ASSUME Init PROVE VInv
    OBVIOUS
  <1>1. TypeOK /\ Phases
    BY InitType DEF Init, Phases
  <1> QED
    BY <1>1 DEF Init, VInv, Playing, Failing, Judged, Counted, Blamed, Beginning, Exits, Errors

LEMMA VerdictStep == VInv /\ [Next]_vars => VInv'
  BY PlayStep, BeginVerdict, CaseVerdict, IncidentVerdict, OtherVerdict DEF Next

\* The verdict of a test is about the reducer alone, whatever was played
\* before, for every series of commands, edits and failures.
THEOREM VerdictIsOfReducer == Spec => []VerdictOfReducer
  <1>1. VInv => VerdictOfReducer
    <2> SUFFICES ASSUME VInv, Ended("test")
                 PROVE  /\ exit = 0 =>
                              /\ played # {}
                              /\ \A p \in played :
                                    p.trace.valid /\ (Pure(version) \/ p.fresh => Replays(version, p.trace))
                        /\ ~broken /\ played # {} /\ Pure(version)
                           /\ (\A p \in played : p.trace.valid /\ Replays(version, p.trace)) => exit = 0
      BY DEF VerdictOfReducer
    <2>1. pc = "idle" /\ command.kind = "test" /\ exit # 9
      BY DEF Ended
    <2>2. ASSUME exit = 0
          PROVE  /\ played # {}
                 /\ \A p \in played :
                       p.trace.valid /\ (Pure(version) \/ p.fresh => Replays(version, p.trace))
      BY <2>1, <2>2 DEF VInv, Exits, Judged, Counted
    <2>3. ASSUME ~broken, played # {}, Pure(version),
                 \A p \in played : p.trace.valid /\ Replays(version, p.trace)
          PROVE  exit = 0
      BY <2>1, <2>3 DEF VInv, Exits, Blamed
    <2> QED BY <2>2, <2>3
  <1> QED BY <1>1, InitVerdict, VerdictStep, PTL DEF Spec

-----------------------------------------------------------------------------
(* Incidents, fixtures and scripts.                                        *)

\* A build that a trace is kept against does not replay it.
Kept(files) ==
    \A k \in Dirs : files[k].of # Null =>
        files[k].trace \in Traces /\ ~Replays(files[k].of, files[k].trace)

ValidFixtures == \A k \in Dirs : fixtures[k].trace # Null => fixtures[k].trace.valid

Loaded == played # {} => version # Null

\* A test of a fixture plays it first, in an instance of its own, and nothing else.
Fixture == [trace |-> fixtures[command.dir].trace, fresh |-> TRUE]

Scripted ==
    command.kind = "test" /\ command.dir # Null =>
        /\ pc = "load" => command.cases = <<command.dir>>
        /\ pc = "case" => \/ command.cases = <<command.dir>> /\ called = FALSE
                          \/ command.cases = <<>> /\ (Errors(diags) # {} \/ Fixture \in played)
        /\ pc \in {"step", "incident"} => command.cases = <<command.dir>> /\ Current = Fixture
        /\ pc = "emit" \/ (pc = "idle" /\ exit # 9) => Errors(diags) # {} \/ Fixture \in played

\* How far a regress has come when nothing has failed.
Filing ==
    command.kind = "regress" =>
        /\ pc = "fixture" => incidents[command.dir].trace # Null /\ incidents[command.dir].trace.valid
        /\ Errors(diags) = {} =>
              /\ pc = "script" => fixtures[command.dir] = incidents[command.dir]
              /\ pc = "emit" \/ (pc = "idle" /\ exit # 9) =>
                    fixtures[command.dir] = incidents[command.dir] /\ command.dir \in scripts

RInv == VInv /\ Kept(incidents) /\ Kept(fixtures) /\ ValidFixtures /\ Loaded /\ Scripted /\ Filing

LEMMA NullFacts == Null \notin Traces /\ Null \notin Versions /\ Nothing.of = Null /\ Nothing.trace = Null
  BY ConstantsAssumption DEF Nothing

\* What is lost is not kept against any build.
LEMMA LostKept ==
    ASSUME TypeOK
    PROVE  /\ Kept(incidents) => \A k : Kept([incidents EXCEPT ![k] = Nothing])
           /\ Kept(fixtures) => \A k : Kept([fixtures EXCEPT ![k] = Nothing])
           /\ ValidFixtures => \A k, j \in Dirs :
                 [fixtures EXCEPT ![k] = Nothing][j].trace # Null => [fixtures EXCEPT ![k] = Nothing][j].trace.valid
  BY NullFacts DEF TypeOK, Kept, ValidFixtures

LEMMA BeginKept ==
    ASSUME RInv, StartTest \/ RunScript \/ StartRegress
    PROVE  RInv'
  <1>1. VInv'
    BY BeginVerdict DEF RInv
  <1>2. UNCHANGED <<incidents, fixtures, scripts>> /\ played' = {} /\ pc' # "idle"
    BY DEF StartTest, RunScript, StartRegress, Begin, store
  <1>3. Kept(incidents)' /\ Kept(fixtures)' /\ ValidFixtures' /\ Loaded'
    BY <1>2 DEF RInv, Kept, ValidFixtures, Loaded
  <1>4. CASE StartTest
    <2>1. PICK c \in ByHand \cup FixtureTests : StartTest!(c)
      BY <1>4 DEF StartTest
    <2>2. command' = c /\ c.kind = "test" /\ (c.dir # Null => c.cases = <<c.dir>>)
      BY <2>1 DEF Begin, ByHand, FixtureTests, OfFixture
    <2>3. pc' = "load" \/ (pc' = "emit" /\ Errors(diags') # {})
      BY <2>1, DiagForms DEF Errors
    <2>4. Scripted' /\ Filing'
      BY <2>2, <2>3 DEF Scripted, Filing
    <2> QED BY <1>1, <1>3, <2>4 DEF RInv
  <1>5. CASE StartRegress
    <2>1. PICK k \in Dirs : StartRegress!(k)
      BY <1>5 DEF StartRegress
    <2>2. command'.kind = "regress" /\ command'.dir = k
      BY <2>1 DEF Begin
    <2>3. \/ pc' = "emit" /\ Errors(diags') # {}
          \/ pc' = "fixture" /\ incidents[k].trace # Null /\ incidents[k].trace.valid
      BY <2>1, DiagForms DEF Errors
    <2>4. Scripted' /\ Filing'
      BY <1>2, <2>2, <2>3 DEF Scripted, Filing
    <2> QED BY <1>1, <1>3, <2>4 DEF RInv
  <1>6. CASE RunScript
    <2>1. command'.kind = "script"
      BY <1>6 DEF RunScript, Begin, Script
    <2>2. Scripted' /\ Filing'
      BY <2>1 DEF Scripted, Filing
    <2> QED BY <1>1, <1>3, <2>2 DEF RInv
  <1> QED BY <1>4, <1>5, <1>6

\* While a test runs fixtures do not change.
LEMMA TestKept ==
    ASSUME RInv,
           \/ LoadFails \/ Load \/ CaseUnreadable \/ ReadCase \/ StepMatches \/ StepFails
           \/ CasePasses \/ LastCase
    PROVE  RInv'
  <1>1. VInv'
    BY CaseVerdict, PlayStep DEF RInv
  <1>2. /\ UNCHANGED <<incidents, fixtures, scripts>>
        /\ pc \in {"load", "case", "step"}
    BY DEF LoadFails, Load, CaseUnreadable, ReadCase, StepMatches, StepFails, CasePasses, LastCase, store
  <1>3. Kept(incidents)' /\ Kept(fixtures)' /\ ValidFixtures'
    BY <1>2 DEF RInv, Kept, ValidFixtures
  <1>4. command.kind = "test" /\ TypeOK /\ (pc = "case" => version # Null)
    BY <1>2 DEF RInv, VInv, Phases
  <1>5. CASE LoadFails
    <2>1. Errors(diags') # {}
      <3>1. PICK d \in LoadErrors : diags' = diags \cup {d}
        BY <1>5 DEF LoadFails
      <3> QED BY <3>1, ErrorsGrow, DiagForms
    <2>2. /\ UNCHANGED <<command, version, played>> /\ pc' = "emit"
      BY <1>5 DEF LoadFails, core, place
    <2> QED
      BY <1>1, <1>3, <1>4, <2>1, <2>2 DEF RInv, Loaded, Scripted, Filing
  <1>6. CASE Load
    <2>1. /\ UNCHANGED <<command, played>> /\ pc' = "case" /\ pc = "load" /\ called' = FALSE
          /\ version' # Null
      BY <1>6 DEF Load, place
    <2> QED
      BY <1>1, <1>3, <1>4, <2>1 DEF RInv, Loaded, Scripted, Filing
  <1>7. CASE CaseUnreadable
    <2>1. Errors(diags') # {}
      BY <1>7, ErrorsGrow, DiagForms DEF CaseUnreadable
    <2>2. /\ UNCHANGED <<version, played>> /\ pc' = "case" /\ pc = "case" /\ command.cases # <<>>
          /\ command'.kind = command.kind /\ command'.dir = command.dir
          /\ command'.cases = Tail(command.cases)
      BY <1>4, <1>7, NextCaseType DEF CaseUnreadable, core, place
    <2>3. Tail(<<command.dir>>) = <<>>
      OBVIOUS
    <2>4. Scripted'
      BY <1>2, <1>4, <2>1, <2>2, <2>3 DEF RInv, Scripted
    <2> QED
      BY <1>1, <1>3, <1>4, <2>2, <2>4 DEF RInv, Loaded, Filing
  <1>8. CASE ReadCase
    <2>1. /\ UNCHANGED <<command, version>> /\ pc' = "step" /\ pc = "case"
          /\ trace' = Content(Case) /\ fresh' = ~called /\ command.cases # <<>>
      BY <1>8 DEF ReadCase, core
    <2>2. ASSUME command.dir # Null
          PROVE  command.cases = <<command.dir>> /\ Current' = Fixture'
      <3>1. command.cases = <<command.dir>> /\ called = FALSE
        BY <1>4, <2>1, <2>2 DEF RInv, Scripted
      <3>2. Case = command.dir
        BY <3>1 DEF Case
      <3>3. command.dir \in Dirs
        BY <1>4, <2>2 DEF TypeOK
      <3>4. trace' = fixtures[command.dir].trace /\ fresh' = TRUE
        BY <2>1, <3>1, <3>2, <3>3 DEF Content
      <3> QED BY <1>2, <2>1, <3>1, <3>4 DEF Current, Fixture
    <2>3. Scripted'
      BY <1>4, <2>1, <2>2 DEF Scripted
    <2> QED
      BY <1>1, <1>3, <1>4, <2>1, <2>3 DEF RInv, Loaded, Filing
  <1>9. CASE StepMatches \/ StepFails
    <2>1. /\ UNCHANGED <<command, version, trace, fresh, played>>
          /\ pc = "step" /\ pc' \in {"step", "incident"}
      BY <1>9 DEF StepMatches, StepFails, place
    <2>2. Current' = Current /\ Fixture' = Fixture
      BY <1>2, <2>1 DEF Current, Fixture
    <2>3. Scripted'
      BY <1>4, <2>1, <2>2 DEF RInv, Scripted
    <2> QED
      BY <1>1, <1>3, <1>4, <2>1, <2>3 DEF RInv, Loaded, Filing
  <1>10. CASE CasePasses
    <2>1. /\ UNCHANGED <<version, played>> /\ pc' = "case" /\ pc = "step"
          /\ command'.kind = command.kind /\ command'.dir = command.dir
          /\ command'.cases = Tail(command.cases)
      BY <1>4, <1>10, TraceAt, NextCaseType DEF CasePasses, core, place
    <2>2. Current \in played
      BY <2>1 DEF RInv, VInv, Playing
    <2>3. Tail(<<command.dir>>) = <<>>
      OBVIOUS
    <2>4. Fixture' = Fixture
      BY <1>2, <2>1 DEF Fixture
    <2>5. Scripted'
      BY <1>4, <2>1, <2>2, <2>3, <2>4 DEF RInv, Scripted
    <2> QED
      BY <1>1, <1>3, <1>4, <2>1, <2>5 DEF RInv, Loaded, Filing
  <1>11. CASE LastCase
    <2>1. /\ UNCHANGED <<command, version, played, diags>> /\ pc' = "emit" /\ pc = "case"
          /\ command.cases = <<>>
      BY <1>11 DEF LastCase, core, place
    <2>2. <<command.dir>> # <<>>
      OBVIOUS
    <2>3. Fixture' = Fixture
      BY <1>2, <2>1 DEF Fixture
    <2>4. Scripted'
      BY <1>4, <2>1, <2>2, <2>3 DEF RInv, Scripted
    <2> QED
      BY <1>1, <1>3, <1>4, <2>1, <2>4 DEF RInv, Loaded, Filing
  <1> QED BY <1>5, <1>6, <1>7, <1>8, <1>9, <1>10, <1>11

\* What is written down against a build is the trace it has failed on.
LEMMA IncidentKept ==
    ASSUME RInv, WriteIncident \/ IncidentFails
    PROVE  RInv'
  <1>1. VInv'
    BY IncidentVerdict DEF RInv
  <1>2. /\ UNCHANGED <<fixtures, scripts, version, played>> /\ pc = "incident" /\ pc' = "case"
    BY DEF WriteIncident, IncidentFails, NextCase, core, place
  <1>3. TypeOK /\ command.kind = "test" /\ version \in Versions /\ trace \in Traces
    BY <1>2, TraceAt DEF RInv, VInv, Phases
  <1>4. /\ command.cases # <<>> /\ command'.kind = command.kind /\ command'.dir = command.dir
        /\ command'.cases = Tail(command.cases)
    BY <1>2, <1>3, TraceAt, NextCaseType DEF WriteIncident, IncidentFails
  <1>5. Incident.of # Null => Incident.trace \in Traces /\ ~Replays(Incident.of, Incident.trace)
    BY <1>2, <1>3 DEF RInv, VInv, Failing, Sound, Incident
  <1>6. Kept(incidents')
    <2>1. \A k : Kept([incidents EXCEPT ![k] = Incident])
      BY <1>3, <1>5 DEF RInv, TypeOK, Kept
    <2>2. CASE WriteIncident
      BY <2>1, <2>2 DEF WriteIncident
    <2>3. CASE IncidentFails
      BY <1>3, <2>3, LostKept DEF RInv, IncidentFails, IncidentLost
    <2> QED BY <2>2, <2>3
  <1>7. Kept(fixtures') /\ ValidFixtures' /\ Loaded'
    BY <1>2 DEF RInv, Kept, ValidFixtures, Loaded
  <1>8. Errors(diags') # {}
    <2>1. Errors(diags) # {}
      BY <1>2 DEF RInv, VInv, Failing
    <2> QED BY <2>1, ErrorsGrow DEF WriteIncident, IncidentFails
  <1>9. Tail(<<command.dir>>) = <<>>
    OBVIOUS
  <1>10. Scripted' /\ Filing'
    BY <1>2, <1>3, <1>4, <1>8, <1>9 DEF RInv, Scripted, Filing
  <1> QED BY <1>1, <1>6, <1>7, <1>10 DEF RInv, Kept

LEMMA RegressKept ==
    ASSUME RInv, WriteFixture \/ FixtureFails \/ WriteScript \/ ScriptFails
    PROVE  RInv'
  <1>1. VInv'
    BY OtherVerdict DEF RInv
  <1>2. /\ UNCHANGED <<incidents, command, version, played, exit>>
        /\ pc \in {"fixture", "script"} /\ pc' \in {"script", "emit"}
    BY DEF WriteFixture, FixtureFails, WriteScript, ScriptFails, core, place
  <1>3. TypeOK /\ command.kind = "regress" /\ command.dir \in Dirs
    BY <1>2 DEF RInv, VInv, Phases
  <1>4. Kept(incidents)' /\ Loaded' /\ Scripted'
    BY <1>2, <1>3 DEF RInv, Kept, Loaded, Scripted
  <1>5. CASE WriteFixture
    <2>1. /\ fixtures' = [fixtures EXCEPT ![command.dir] = incidents[command.dir]]
          /\ pc = "fixture" /\ pc' = "script"
      BY <1>5 DEF WriteFixture
    <2>2. \A k \in Dirs : fixtures'[k] = IF k = command.dir THEN incidents[k] ELSE fixtures[k]
      BY <1>3, <2>1 DEF TypeOK
    <2>3. Kept(fixtures')
      BY <2>2 DEF RInv, Kept
    <2>4. ValidFixtures'
      BY <1>3, <2>1, <2>2 DEF RInv, ValidFixtures, Filing
    <2>5. Filing'
      BY <1>2, <1>3, <2>1, <2>2 DEF Filing
    <2> QED BY <1>1, <1>4, <2>3, <2>4, <2>5 DEF RInv, Kept
  <1>6. CASE FixtureFails
    <2>1. fixtures' = fixtures \/ fixtures' = [fixtures EXCEPT ![command.dir] = Nothing]
      BY <1>6 DEF FixtureFails, FixtureLost
    <2>2. Kept(fixtures')
      BY <1>3, <2>1, LostKept DEF RInv
    <2>3. ValidFixtures'
      BY <1>3, <2>1, LostKept DEF RInv, ValidFixtures
    <2>4. Errors(diags') # {} /\ pc' = "script"
      BY <1>6, ErrorsGrow, DiagForms DEF FixtureFails
    <2>5. Filing'
      BY <2>4 DEF Filing
    <2> QED BY <1>1, <1>4, <2>2, <2>3, <2>5 DEF RInv, Kept
  <1>7. CASE WriteScript
    <2>1. /\ UNCHANGED <<fixtures, diags>> /\ pc = "script" /\ pc' = "emit"
          /\ scripts' = scripts \cup {command.dir}
      BY <1>7 DEF WriteScript
    <2>2. Filing'
      BY <1>2, <1>3, <2>1 DEF RInv, Filing
    <2>3. Kept(fixtures)' /\ ValidFixtures'
      BY <2>1 DEF RInv, Kept, ValidFixtures
    <2> QED BY <1>1, <1>4, <2>2, <2>3 DEF RInv
  <1>8. CASE ScriptFails
    <2>1. fixtures' = fixtures /\ pc' = "emit"
      BY <1>8 DEF ScriptFails
    <2>2. Errors(diags') # {}
      BY <1>8, ErrorsGrow, DiagForms DEF ScriptFails
    <2>3. Filing'
      BY <2>1, <2>2 DEF Filing
    <2>4. Kept(fixtures)' /\ ValidFixtures'
      BY <2>1 DEF RInv, Kept, ValidFixtures
    <2> QED BY <1>1, <1>4, <2>3, <2>4 DEF RInv
  <1> QED BY <1>5, <1>6, <1>7, <1>8

LEMMA OtherKept ==
    ASSUME RInv, Deploy \/ EditCase \/ EmitReport \/ Kill \/ Rest \/ UNCHANGED vars
    PROVE  RInv'
  <1>1. VInv' /\ TypeOK
    BY OtherVerdict DEF RInv, VInv
  <1>2. CASE Deploy \/ EditCase \/ Rest \/ UNCHANGED vars
    <2>1. UNCHANGED <<incidents, fixtures, scripts, command, pc, version, called, trace, fresh, played, diags, exit>>
      BY <1>2 DEF Deploy, EditCase, Rest, vars, store, core, place
    <2> QED
      BY <1>1, <2>1 DEF RInv, Kept, ValidFixtures, Loaded, Scripted, Filing, Current, Fixture
  <1>3. CASE EmitReport
    <2>1. /\ UNCHANGED <<incidents, fixtures, scripts, command, version, played, diags>>
          /\ pc = "emit" /\ pc' = "idle"
      BY <1>3 DEF EmitReport, store, core, place
    <2>2. Kept(incidents)' /\ Kept(fixtures)' /\ ValidFixtures' /\ Loaded'
      BY <2>1 DEF RInv, Kept, ValidFixtures, Loaded
    <2>3. Fixture' = Fixture /\ Errors(diags)' = Errors(diags)
      BY <2>1 DEF Fixture
    <2>4. Scripted'
      BY <2>1, <2>3 DEF RInv, Scripted
    <2>5. Filing'
      BY <2>1, <2>3 DEF RInv, Filing
    <2> QED BY <1>1, <2>2, <2>4, <2>5 DEF RInv
  <1>4. CASE Kill
    <2>1. /\ UNCHANGED <<command, version, played>> /\ pc' = "idle" /\ exit' = 9
      BY <1>4 DEF Kill, RInv, VInv, Phases, core, place
    <2>2. /\ \/ incidents' = incidents
             \/ \E k : incidents' = [incidents EXCEPT ![k] = Nothing]
          /\ \/ fixtures' = fixtures
             \/ fixtures' = [fixtures EXCEPT ![command.dir] = Nothing] /\ command.dir \in Dirs
      <3>1. CASE pc = "incident"
        BY <1>4, <3>1 DEF Kill, IncidentLost
      <3>2. CASE pc = "fixture"
        BY <1>4, <3>2 DEF Kill, FixtureLost, RInv, VInv, Phases
      <3>3. CASE pc = "script"
        BY <1>4, <3>3 DEF Kill
      <3>4. CASE pc \notin {"incident", "fixture", "script"}
        BY <1>4, <3>4 DEF Kill, store
      <3> QED BY <3>1, <3>2, <3>3, <3>4
    <2>3. Kept(incidents') /\ Kept(fixtures')
      <3>1. Kept(incidents) /\ Kept(fixtures)
        BY DEF RInv
      <3>2. ASSUME NEW k, incidents' = [incidents EXCEPT ![k] = Nothing]
            PROVE  Kept(incidents')
        BY <1>1, <3>1, <3>2, LostKept
      <3>3. Kept(incidents')
        BY <2>2, <3>1, <3>2
      <3>4. Kept(fixtures')
        BY <1>1, <2>2, <3>1, LostKept
      <3> QED BY <3>3, <3>4
    <2>4. ValidFixtures'
      BY <1>1, <2>2, LostKept DEF RInv, ValidFixtures
    <2>5. Loaded' /\ Scripted' /\ Filing'
      BY <2>1 DEF RInv, Loaded, Scripted, Filing
    <2> QED BY <1>1, <2>3, <2>4, <2>5 DEF RInv, Kept
  <1> QED BY <1>2, <1>3, <1>4

LEMMA InitKept == Init => RInv
  <1> SUFFICES ASSUME Init PROVE RInv
    OBVIOUS
  <1>1. Kept(incidents) /\ Kept(fixtures) /\ ValidFixtures
    BY NullFacts DEF Init, Kept, ValidFixtures
  <1> QED BY <1>1, InitVerdict DEF Init, RInv, Loaded, Scripted, Filing

LEMMA KeptStep == RInv /\ [Next]_vars => RInv'
  BY BeginKept, TestKept, IncidentKept, RegressKept, OtherKept DEF Next

\* A regress that succeeds leaves the trace of its incident and a script for
\* it, and no fixture is ever outside the schema.
THEOREM RegressIsComplete == Spec => []RegressComplete
  <1>1. RInv => RegressComplete
    <2> SUFFICES ASSUME RInv PROVE RegressComplete
      OBVIOUS
    <2>1. ASSUME Ended("regress"), exit = 0
          PROVE  fixtures[command.dir] = incidents[command.dir] /\ command.dir \in scripts
      <3>1. Errors(diags) = {} /\ pc = "idle" /\ command.kind = "regress" /\ exit # 9
        BY <2>1 DEF RInv, VInv, Exits, Ended
      <3> QED BY <3>1 DEF RInv, Filing
    <2> QED BY <2>1 DEF RInv, ValidFixtures, RegressComplete
  <1> QED BY <1>1, InitKept, KeptStep, PTL DEF Spec

\* A test of a fixture fails until the reducer has changed, through incident
\* and fixture, whatever else was run, edited, lost or killed.
THEOREM RegressionsKeepFailing == Spec => []RegressionKeepsFailing
  <1>1. RInv => RegressionKeepsFailing
    <2> SUFFICES ASSUME RInv, Ended("test"), command.dir # Null, exit = 0
                 PROVE  version # fixtures[command.dir].of
      BY DEF RegressionKeepsFailing
    <2>1. pc = "idle" /\ command.kind = "test" /\ exit # 9 /\ Errors(diags) = {}
      BY DEF RInv, VInv, Exits, Ended
    <2>2. Fixture \in played /\ version # Null
      BY <2>1 DEF RInv, Scripted, Loaded
    <2>3. Replays(version, fixtures[command.dir].trace)
      BY <2>1, <2>2 DEF RInv, VInv, Judged, Fixture
    <2>4. command.dir \in Dirs
      BY DEF RInv, VInv, TypeOK
    <2> QED BY <2>2, <2>3, <2>4 DEF RInv, Kept
  <1> QED BY <1>1, InitKept, KeptStep, PTL DEF Spec
=============================================================================
