--------------------------- MODULE WasmRunProofs ---------------------------
(***************************************************************************)
(* The safety properties of WasmRun for any number of processes, builds    *)
(* and command lines.                                                      *)
(***************************************************************************)
EXTENDS WasmRun, TLAPS

\* The errors that call for a bundle.
RunErrors == {d \in Diagnostics : d.severity = "error" /\ d # InputFailed}

\* What the run says is known to be an error or a warning.
LEMMA DiagForms ==
    /\ ReadFailed \in RunErrors /\ InspectFailed \in RunErrors /\ OutputWriteFailed \in RunErrors
    /\ SetupErrors \subseteq RunErrors /\ CallErrors \subseteq RunErrors
    /\ \A b, c : MemoryErrors(b, c) \subseteq RunErrors
    /\ InputFailed \in Diagnostics /\ InputFailed.severity = "error"
    /\ BundleLost \in Diagnostics /\ BundleLost.severity = "warning"
  <1>1. ASSUME NEW n \in Names, n # "X07WASM_INPUT_READ_FAILED"
        PROVE  General(n) \in RunErrors /\ Parse(n) \in RunErrors
    <2>1. General(n) \in Diagnostics /\ Parse(n) \in Diagnostics
      BY DEF General, Parse, Error, Diag, Diagnostics, Severities, Stages, Families
    <2> QED BY <2>1, <1>1 DEF General, Parse, Error, Diag, RunErrors, InputFailed
  <1>2. OutputWriteFailed \in RunErrors
    <2>1. OutputWriteFailed \in Diagnostics
      BY DEF OutputWriteFailed, Error, Diag, Diagnostics, Names, Severities, Stages, Families
    <2> QED BY <2>1 DEF OutputWriteFailed, Parse, Error, Diag, RunErrors, InputFailed
  <1>3. /\ InputFailed \in Diagnostics /\ InputFailed.severity = "error"
        /\ BundleLost \in Diagnostics /\ BundleLost.severity = "warning"
    BY DEF InputFailed, BundleLost, Parse, Error, Warning, Diag, Diagnostics, Names, Severities,
           Stages, Families
  <1>4. ReadFailed \in RunErrors /\ InspectFailed \in RunErrors
    BY <1>1 DEF ReadFailed, InspectFailed, Names
  <1>5. SetupErrors \subseteq RunErrors /\ CallErrors \subseteq RunErrors
    BY <1>1 DEF SetupErrors, CallErrors, Names
  <1>6. \A b, c : MemoryErrors(b, c) \subseteq RunErrors
    BY <1>1 DEF MemoryErrors, Names
  <1> QED BY <1>2, <1>3, <1>4, <1>5, <1>6

\* The exit code is 0 exactly when no diagnostic is an error.
LEMMA ExitCodeFacts ==
    ASSUME NEW ds
    PROVE  /\ ExitCodeOf(ds) \in {0, 1, 2, 3, 4}
           /\ ExitCodeOf(ds) = 0 <=> Errors(ds) = {}
  BY DEF ExitCodeOf

-----------------------------------------------------------------------------
(* The inductive invariant.                                                *)

LEMMA ContentForms ==
    ASSUME NEW p \in Procs
    PROVE  Own(p) \in Contents /\ Torn(p) \in Contents /\ Own(p).by = p /\ Torn(p).by = p
  BY DEF Own, Torn, Contents, Writers

LEMMA InitType == Init => TypeOK
  <1> SUFFICES ASSUME Init PROVE TypeOK
    OBVIOUS
  <1> USE DEF Init
  <1>1. module \in Modules /\ manifest \in 0..module
    BY ConstantsAssumption DEF Modules
  <1> QED BY <1>1, ConstantsAssumption DEF TypeOK, Modules, Contents, Absent, Writers

LEMMA NextType == TypeOK /\ [Next]_vars => TypeOK'
  <1> SUFFICES ASSUME TypeOK, [Next]_vars PROVE TypeOK'
    OBVIOUS
  <1> USE DEF TypeOK, here
  <1>1. CASE Rebuild
    BY <1>1, ConstantsAssumption DEF Rebuild, Modules
  <1>2. CASE WriteManifest
    BY <1>2 DEF WriteManifest, Modules
  <1>3. CASE UNCHANGED vars
    BY <1>3 DEF vars
  <1>4. ASSUME NEW p \in Procs, Start(p) PROVE TypeOK'
    <2>1. pc' \in [Procs -> {"start", "read", "call", "output", "collect", "bundle", "emit", "done"}]
          /\ \A q \in Procs : pc'[q] = "bundle" => pc[q] = "bundle"
      BY <1>4 DEF Start, Goto
    <2>2. diags' \in [Procs -> SUBSET Diagnostics]
      <3>1. CASE UNCHANGED diags
        BY <3>1
      <3>2. CASE Say(p, {InputFailed})
        BY <3>2, DiagForms DEF Say
      <3> QED BY <1>4, <3>1, <3>2 DEF Start
    <2> QED BY <1>4, <2>1, <2>2 DEF Start
  <1>5. ASSUME NEW p \in Procs, ReadModule(p) PROVE TypeOK'
    <2>1. PICK ds \in SUBSET RunErrors : Say(p, ds)
      BY <1>5, DiagForms DEF ReadModule
    <2>2. diags' \in [Procs -> SUBSET Diagnostics]
      BY <2>1 DEF Say, RunErrors
    <2>3. PICK w \in {"call", "collect"} : Goto(p, w)
      BY <1>5 DEF ReadModule
    <2>4. pc' \in [Procs -> {"start", "read", "call", "output", "collect", "bundle", "emit", "done"}]
          /\ \A q \in Procs : pc'[q] = "bundle" => pc[q] = "bundle"
      BY <2>3 DEF Goto
    <2>5. ran' \in [Procs -> Modules]
      BY <1>5 DEF ReadModule
    <2>6. steady' \in [Procs -> BOOLEAN]
      <3>1. (manifest \in {0, module}) \in BOOLEAN
        OBVIOUS
      <3> QED BY <1>5, <3>1 DEF ReadModule
    <2> QED BY <1>5, <2>2, <2>4, <2>5, <2>6 DEF ReadModule
  <1>6. ASSUME NEW p \in Procs, SetupFails(p) PROVE TypeOK'
    BY <1>6, DiagForms DEF SetupFails, Goto, Say, RunErrors
  <1>7. ASSUME NEW p \in Procs, CallFails(p) PROVE TypeOK'
    BY <1>7, DiagForms DEF CallFails, Goto, Say, RunErrors
  <1>8. ASSUME NEW p \in Procs, CallReturns(p) PROVE TypeOK'
    BY <1>8 DEF CallReturns, Goto
  <1>9. ASSUME NEW p \in Procs, OpenOutput(p) PROVE TypeOK'
    BY <1>9 DEF OpenOutput, Torn, Contents, Writers
  <1>10. ASSUME NEW p \in Procs, FillOutput(p) PROVE TypeOK'
    <2>1. pc' \in [Procs -> {"start", "read", "call", "output", "collect", "bundle", "emit", "done"}]
          /\ \A q \in Procs : pc'[q] = "bundle" => pc[q] = "bundle"
      BY <1>10 DEF FillOutput, Goto
    <2>2. files' \in [Paths -> Contents] /\ open' \in [Procs -> BOOLEAN]
      <3>1. PICK w \in {Own(p), Torn(p)} : files' = [files EXCEPT ![cmd[p].out] = w]
        BY <1>10 DEF FillOutput, Filled
      <3> QED BY <1>10, <3>1, ContentForms DEF FillOutput
    <2> QED BY <1>10, <2>1, <2>2 DEF FillOutput
  <1>11. ASSUME NEW p \in Procs, OutputFails(p) PROVE TypeOK'
    BY <1>11, DiagForms DEF OutputFails, Goto, Say, RunErrors
  <1>12. ASSUME NEW p \in Procs, PrintOutput(p) PROVE TypeOK'
    <2>1. pc' \in [Procs -> {"start", "read", "call", "output", "collect", "bundle", "emit", "done"}]
          /\ \A q \in Procs : pc'[q] = "bundle" => pc[q] = "bundle"
      BY <1>12 DEF PrintOutput, Goto
    <2>2. exit' \in [Procs -> {0, 1, 2, 3, 4, 9}]
      BY <1>12 DEF PrintOutput
    <2>3. shown' \in [Procs -> SUBSET {"output", "held", "lost", "report", "error"}]
      BY <1>12 DEF PrintOutput, Show
    <2> QED BY <1>12, <2>1, <2>2, <2>3 DEF PrintOutput
  <1>13. ASSUME NEW p \in Procs, Collect(p) PROVE TypeOK'
    BY <1>13 DEF Collect, Goto, BundleOrder, BundleFiles, Modules
  <1>14. ASSUME NEW p \in Procs, OpenBundleFile(p) PROVE TypeOK'
    BY <1>14 DEF OpenBundleFile, Torn, Contents, Writers
  <1>15. ASSUME NEW p \in Procs, FillBundleFile(p) PROVE TypeOK'
    <2>1. todo' \in [Procs -> Seq(BundleFiles)]
          /\ \A q \in Procs : q # p => todo'[q] = todo[q]
      BY <1>15 DEF FillBundleFile
    <2>2. pc' \in [Procs -> {"start", "read", "call", "output", "collect", "bundle", "emit", "done"}]
          /\ recorded' \in [Procs -> BOOLEAN]
          /\ \A q \in Procs : pc'[q] = "bundle" => pc[q] = "bundle" /\ todo'[q] # <<>>
      <3>1. CASE todo'[p] = <<>>
        <4>1. pc' = [pc EXCEPT ![p] = "emit"] /\ recorded' = [recorded EXCEPT ![p] = TRUE]
          BY <1>15, <3>1 DEF FillBundleFile, Goto
        <4> QED BY <4>1, <2>1
      <3>2. CASE todo'[p] # <<>>
        BY <1>15, <2>1, <3>2 DEF FillBundleFile, Goto
      <3> QED BY <3>1, <3>2
    <2>3. bundles' \in [Keys -> [BundleFiles -> Contents]]
      <3>1. PICK w \in {Own(p), Torn(p)} :
               bundles' = [bundles EXCEPT ![Key(p)][Head(todo[p])] = w]
        BY <1>15 DEF FillBundleFile, Filled
      <3>2. w \in Contents
        BY <3>1, ContentForms
      <3> QED BY <3>1, <3>2
    <2>4. open' \in [Procs -> BOOLEAN]
      BY <1>15 DEF FillBundleFile
    <2> QED BY <1>15, <2>1, <2>2, <2>3, <2>4 DEF FillBundleFile
  <1>16. ASSUME NEW p \in Procs, LoseBundle(p) PROVE TypeOK'
    BY <1>16, DiagForms DEF LoseBundle, Goto, Say
  <1>17. ASSUME NEW p \in Procs, EmitReport(p) PROVE TypeOK'
    <2>1. pc' \in [Procs -> {"start", "read", "call", "output", "collect", "bundle", "emit", "done"}]
          /\ \A q \in Procs : pc'[q] = "bundle" => pc[q] = "bundle"
      BY <1>17 DEF EmitReport, Goto
    <2>2. exit' \in [Procs -> {0, 1, 2, 3, 4, 9}]
      BY <1>17, ExitCodeFacts DEF EmitReport
    <2>3. shown' \in [Procs -> SUBSET {"output", "held", "lost", "report", "error"}]
      <3>1. PICK what \in SUBSET {"output", "held", "lost", "report", "error"} : Show(p, what)
        BY <1>17 DEF EmitReport, AtExit
      <3> QED BY <3>1 DEF Show
    <2> QED BY <1>17, <2>1, <2>2, <2>3 DEF EmitReport
  <1>18. ASSUME NEW p \in Procs, Kill(p) PROVE TypeOK'
    BY <1>18 DEF Kill, Goto
  <1> QED BY <1>1, <1>2, <1>3, <1>4, <1>5, <1>6, <1>7, <1>8, <1>9, <1>10, <1>11, <1>12, <1>13,
             <1>14, <1>15, <1>16, <1>17, <1>18 DEF Next, Rest

\* Type correctness.
THEOREM TypeCorrect == Spec => []TypeOK
  <1>1. Init => TypeOK
    BY InitType
  <1>2. TypeOK /\ [Next]_vars => TypeOK'
    BY NextType
  <1> QED BY <1>1, <1>2, PTL DEF Spec

-----------------------------------------------------------------------------
\* What a process has said when it comes to a stage: nothing up to its output,
\* an error before it collects a bundle, and the end of either later.
Told(p) ==
    /\ pc[p] \in {"start", "read", "call", "output"} => diags[p] = {}
    /\ pc[p] \in {"collect", "bundle"} => Failing(p)
    /\ (pc[p] = "emit" \/ Ended(p)) /\ Failing(p) => recorded[p] \/ BundleLost \in diags[p]
    /\ pc[p] \in {"emit", "done"} /\ ~Failing(p) => diags[p] \subseteq {InputFailed}
    /\ pc[p] # "done" => exit[p] = 9
    /\ pc[p] = "done" /\ exit[p] \notin {0, 9} =>
          \/ diags[p] # {}
          \/ "error" \in shown[p]
    /\ pc[p] = "done" /\ exit[p] # 9 /\ diags[p] # {} =>
          \/ shown[p] \cap {"report", "error"} # {}
          \/ ~cmd[p].json

TInv == TypeOK /\ \A p \in Procs : Told(p)

\* A process is failing exactly when a diagnostic of it is one of RunErrors.
LEMMA FailingForm ==
    ASSUME TypeOK, NEW p \in Procs
    PROVE  Failing(p) <=> diags[p] \cap RunErrors # {}
  BY DEF TypeOK, Failing, Errors, RunErrors

\* A process that takes no step keeps what the invariant says of it.
LEMMA ToldKept ==
    ASSUME NEW q \in Procs, Told(q),
           pc'[q] = pc[q], diags'[q] = diags[q], exit'[q] = exit[q], shown'[q] = shown[q],
           recorded'[q] = recorded[q], cmd'[q] = cmd[q]
    PROVE  Told(q)'
  BY DEF Told, Ended, Failing

\* Adding an error makes a process failing.
LEMMA ErrorSaid ==
    ASSUME TypeOK, NEW p \in Procs, NEW ds \in SUBSET RunErrors, ds # {}, Say(p, ds)
    PROVE  Failing(p)' /\ diags'[p] # {}
  BY DEF TypeOK, Say, Failing, Errors, RunErrors

LEMMA NextTold == TInv /\ [Next]_vars => TInv'
  <1> SUFFICES ASSUME TInv, [Next]_vars PROVE \A q \in Procs : Told(q)'
    BY NextType DEF TInv
  <1> USE DEF TInv
  <1>0. TypeOK'
    BY NextType
  <1>1. CASE UNCHANGED vars \/ Rebuild \/ WriteManifest
    BY <1>1, ToldKept DEF vars, Rebuild, WriteManifest
  <1>2. ASSUME NEW p \in Procs, Start(p) PROVE \A q \in Procs : Told(q)'
    <2>1. ASSUME NEW q \in Procs \ {p} PROVE Told(q)'
      BY <1>2, ToldKept DEF Start, Goto, Say, TypeOK
    <2>2. Told(p)'
      BY <1>2, DiagForms DEF Start, Goto, Say, TypeOK, Told, Ended, Failing, Errors
    <2> QED BY <2>1, <2>2
  <1>3. ASSUME NEW p \in Procs, ReadModule(p) PROVE \A q \in Procs : Told(q)'
    <2>1. ASSUME NEW q \in Procs \ {p} PROVE Told(q)'
      BY <1>3, ToldKept DEF ReadModule, Goto, Say, TypeOK
    <2>2. PICK ds \in SUBSET RunErrors :
             Say(p, ds) /\ Goto(p, IF ds = {} THEN "call" ELSE "collect")
      BY <1>3, DiagForms DEF ReadModule
    <2>3. Told(p)'
      BY <1>3, <2>2, ErrorSaid DEF ReadModule, Goto, Say, TypeOK, Told, Ended
    <2> QED BY <2>1, <2>3
  <1>4. ASSUME NEW p \in Procs, SetupFails(p) \/ CallFails(p) \/ OutputFails(p)
        PROVE  \A q \in Procs : Told(q)'
    <2>1. ASSUME NEW q \in Procs \ {p} PROVE Told(q)'
      BY <1>4, ToldKept DEF SetupFails, CallFails, OutputFails, Goto, Say, TypeOK
    <2>2. PICK d \in RunErrors : Say(p, {d})
      BY <1>4, DiagForms DEF SetupFails, CallFails, OutputFails
    <2>3. pc'[p] = "collect" /\ exit'[p] = exit[p] /\ pc[p] # "done"
      BY <1>4 DEF SetupFails, CallFails, OutputFails, Goto, TypeOK
    <2>4. Failing(p)'
      BY <2>2, ErrorSaid
    <2>5. Told(p)'
      BY <2>3, <2>4 DEF Told, Ended
    <2> QED BY <2>1, <2>5
  <1>5. ASSUME NEW p \in Procs, CallReturns(p) \/ FillOutput(p) PROVE \A q \in Procs : Told(q)'
    <2>1. ASSUME NEW q \in Procs \ {p} PROVE Told(q)'
      BY <1>5, ToldKept DEF CallReturns, FillOutput, Goto, TypeOK
    <2>2. Told(p)'
      BY <1>5 DEF CallReturns, FillOutput, Goto, TypeOK, Told, Ended, Failing, Errors
    <2> QED BY <2>1, <2>2
  <1>6. ASSUME NEW p \in Procs, OpenOutput(p) \/ OpenBundleFile(p)
        PROVE  \A q \in Procs : Told(q)'
    BY <1>6, ToldKept DEF OpenOutput, OpenBundleFile, TypeOK
  <1>7. ASSUME NEW p \in Procs, PrintOutput(p) PROVE \A q \in Procs : Told(q)'
    <2>1. ASSUME NEW q \in Procs \ {p} PROVE Told(q)'
      BY <1>7, ToldKept DEF PrintOutput, Goto, Show, TypeOK
    <2>2. diags[p] = {} /\ diags' = diags /\ exit[p] = 9
      BY <1>7 DEF PrintOutput, Told, Ended
    <2>3. CASE Goto(p, "emit") /\ UNCHANGED exit
      <3>1. pc'[p] = "emit" /\ exit'[p] = 9 /\ diags'[p] = {}
        BY <2>2, <2>3 DEF Goto, TypeOK
      <3>2. ~Failing(p)'
        BY <3>1 DEF Failing, Errors
      <3>3. Told(p)'
        BY <3>1, <3>2 DEF Told, Ended
      <3> QED BY <2>1, <3>3
    <2>4. CASE Goto(p, "done") /\ Show(p, {"error"})
      <3>1. pc'[p] = "done" /\ "error" \in shown'[p]
        BY <2>4 DEF Goto, Show, TypeOK
      <3>2. diags'[p] = {} /\ ~Failing(p)'
        BY <2>2 DEF Failing, Errors
      <3> QED BY <2>1, <3>1, <3>2 DEF Told, Ended
    <2> QED BY <1>7, <2>1, <2>3, <2>4 DEF PrintOutput
  <1>8. ASSUME NEW p \in Procs, Collect(p) PROVE \A q \in Procs : Told(q)'
    <2>1. ASSUME NEW q \in Procs \ {p} PROVE Told(q)'
      BY <1>8, ToldKept DEF Collect, Goto, TypeOK
    <2>2. Told(p)'
      BY <1>8 DEF Collect, Goto, TypeOK, Told, Ended, Failing
    <2> QED BY <2>1, <2>2
  <1>9. ASSUME NEW p \in Procs, FillBundleFile(p) PROVE \A q \in Procs : Told(q)'
    <2>1. ASSUME NEW q \in Procs \ {p} PROVE Told(q)'
      BY <1>9, ToldKept DEF FillBundleFile, Goto, TypeOK
    <2>2. CASE Goto(p, "emit") /\ recorded' = [recorded EXCEPT ![p] = TRUE]
      BY <1>9, <2>2 DEF FillBundleFile, Goto, TypeOK, Told, Ended, Failing
    <2>3. CASE UNCHANGED <<pc, recorded>>
      BY <1>9, <2>3 DEF FillBundleFile, Told, Ended, Failing
    <2> QED BY <1>9, <2>1, <2>2, <2>3 DEF FillBundleFile
  <1>10. ASSUME NEW p \in Procs, LoseBundle(p) PROVE \A q \in Procs : Told(q)'
    <2>1. ASSUME NEW q \in Procs \ {p} PROVE Told(q)'
      BY <1>10, ToldKept DEF LoseBundle, Goto, Say, TypeOK
    <2>2. Failing(p)' /\ BundleLost \in diags'[p]
      BY <1>10 DEF LoseBundle, Say, TypeOK, Told, Ended, Failing, Errors
    <2>3. Told(p)'
      BY <1>10, <2>2 DEF LoseBundle, Goto, TypeOK, Told, Ended
    <2> QED BY <2>1, <2>3
  <1>11. ASSUME NEW p \in Procs, EmitReport(p) PROVE \A q \in Procs : Told(q)'
    <2>1. ASSUME NEW q \in Procs \ {p} PROVE Told(q)'
      BY <1>11, ToldKept DEF EmitReport, Goto, Show, TypeOK
    <2>2. pc'[p] = "done" /\ UNCHANGED <<diags, recorded, cmd>>
      BY <1>11 DEF EmitReport, Goto, TypeOK
    <2>3. Failing(p)' <=> Failing(p)
      BY <2>2 DEF Failing
    <2>4. /\ Failing(p) => recorded[p] \/ BundleLost \in diags[p]
          /\ ~Failing(p) => diags[p] \subseteq {InputFailed}
      BY <1>11 DEF EmitReport, Told, Ended
    <2>5. ASSUME exit' = [exit EXCEPT ![p] = ExitCodeOf(diags[p] \ {BundleLost})],
                 NEW tail, Show(p, tail \cup (IF cmd[p].json THEN {"report"} ELSE {}))
          PROVE  \A q \in Procs : Told(q)'
      <3>1. exit'[p] # 0 => diags[p] # {}
        BY <2>5, ExitCodeFacts DEF TypeOK, Errors
      <3>2. cmd[p].json => "report" \in shown'[p]
        BY <2>5 DEF Show, TypeOK
      <3>3. shown'[p] \cap {"report", "error"} # {} \/ ~cmd'[p].json
        BY <3>2, <2>2
      <3>4. recorded'[p] = recorded[p] /\ diags'[p] = diags[p]
        BY <2>2
      <3> QED BY <2>1, <2>2, <2>3, <2>4, <3>1, <3>3, <3>4 DEF Told, Ended
    <2>6. ASSUME NEW tail, Show(p, tail \cup {"error"}) PROVE \A q \in Procs : Told(q)'
      <3>1. "error" \in shown'[p]
        BY <2>6 DEF Show, TypeOK
      <3>2. shown'[p] \cap {"report", "error"} # {}
        BY <3>1
      <3>3. recorded'[p] = recorded[p] /\ diags'[p] = diags[p]
        BY <2>2
      <3> QED BY <2>1, <2>2, <2>3, <2>4, <3>1, <3>2, <3>3 DEF Told, Ended
    <2> QED BY <1>11, <2>1, <2>5, <2>6 DEF EmitReport
  <1>12. ASSUME NEW p \in Procs, Kill(p) PROVE \A q \in Procs : Told(q)'
    <2>1. ASSUME NEW q \in Procs \ {p} PROVE Told(q)'
      BY <1>12, ToldKept DEF Kill, Goto, TypeOK
    <2>2. Told(p)'
      BY <1>12 DEF Kill, Goto, TypeOK, Told, Ended, Failing, Errors
    <2> QED BY <2>1, <2>2
  <1> QED BY <1>1, <1>2, <1>3, <1>4, <1>5, <1>6, <1>7, <1>8, <1>9, <1>10, <1>11, <1>12
          DEF Next, Rest

LEMMA InitTold == Init => TInv
  <1> SUFFICES ASSUME Init PROVE TInv
    OBVIOUS
  <1>1. \A p \in Procs : Told(p)
    BY DEF Init, Told, Ended
  <1> QED BY <1>1, InitType DEF TInv

\* A run that has read its input and has an error to tell leaves a bundle or a
\* warning, and a command that fails says why, unless the bundle or the input
\* failed and nobody asked for a report (run.rs:1031-1058).
THEOREM FailuresRecorded == Spec => []FailureRecorded
  <1>1. TInv => FailureRecorded
    <2> SUFFICES ASSUME TInv, NEW p \in Procs, Ended(p)
                 PROVE  /\ Failing(p) => recorded[p] \/ BundleLost \in diags[p]
                        /\ exit[p] # 0 =>
                              \/ recorded[p]
                              \/ shown[p] \cap {"report", "error"} # {}
                              \/ /\ ~cmd[p].json
                                 /\ diags[p] \cap {BundleLost, InputFailed} # {}
      BY DEF FailureRecorded
    <2>1. Told(p) /\ pc[p] = "done" /\ exit[p] # 9
      BY DEF TInv, Ended
    <2> QED BY <2>1 DEF Told, Ended
  <1> QED BY <1>1, InitTold, NextTold, PTL DEF Spec

-----------------------------------------------------------------------------
\* A file of a bundle was written by a process that is failing, in the
\* directory of its module and input.
Written ==
    \A k \in Keys, f \in BundleFiles, p \in Procs :
        bundles[k][f].by = p =>
            Failing(p) /\ pc[p] \in {"bundle", "emit", "done"} /\ k = Key(p)

\* As long as nothing was rebuilt the module that was read lies there still,
\* without a manifest or with its own.
Steady(p) ==
    /\ pc[p] \in {"start", "read"} => ~steady[p]
    /\ pc[p] \in {"start", "read", "call", "output", "collect"} => about[p] = {}
    /\ steady[p] => /\ pc[p] \in {"call", "output", "collect"} =>
                          module = ran[p] /\ manifest \in {0, ran[p]}
                    /\ pc[p] \in {"bundle", "emit", "done"} => about[p] \subseteq {ran[p]}

BInv == TInv /\ Written /\ \A p \in Procs : Steady(p)

LEMMA KeyForm == ASSUME TypeOK, NEW p \in Procs PROVE Key(p) \in Keys
  BY ConstantsAssumption DEF TypeOK, Key, Keys

\* A process that is failing stays so, and its bundle keeps its directory.
LEMMA FailingKept ==
    ASSUME TInv, [Next]_vars, NEW q \in Procs, Failing(q)
    PROVE  /\ Failing(q)' /\ Key(q)' = Key(q)
           /\ pc[q] \in {"bundle", "emit", "done"} => pc'[q] \in {"bundle", "emit", "done"}
  <1>1. Told(q) /\ TypeOK /\ TypeOK'
    BY NextType DEF TInv
  <1>2. diags[q] # {}
    BY DEF Failing, Errors
  <1>3. pc[q] \in {"collect", "bundle", "emit", "done"}
    BY <1>1, <1>2 DEF Told, TypeOK
  <1>4. cmd' = cmd
    BY DEF Next, vars, Rebuild, WriteManifest, Start, ReadModule, SetupFails, CallFails, CallReturns,
           OpenOutput, FillOutput, OutputFails, PrintOutput, Collect, OpenBundleFile,
           FillBundleFile, LoseBundle, EmitReport, Kill, Rest
  <1>5. ran'[q] = ran[q]
    <2>1. ASSUME NEW p \in Procs, ReadModule(p) PROVE ran'[q] = ran[q]
      BY <2>1, <1>1, <1>3 DEF ReadModule, TypeOK
    <2> QED BY <2>1 DEF Next, vars, Rebuild, WriteManifest, Start, SetupFails, CallFails, CallReturns,
                        OpenOutput, FillOutput, OutputFails, PrintOutput, Collect, OpenBundleFile,
                        FillBundleFile, LoseBundle, EmitReport, Kill, Rest
  <1>6. diags[q] \subseteq diags'[q]
    <2>1. ASSUME NEW p \in Procs, NEW ds, Say(p, ds) PROVE diags[q] \subseteq diags'[q]
      BY <2>1, <1>1 DEF Say, TypeOK
    <2>2. CASE UNCHANGED diags
      BY <2>2
    <2> QED BY <2>1, <2>2 DEF Next, vars, Rebuild, WriteManifest, Start, ReadModule, SetupFails,
                        CallFails, CallReturns, OpenOutput, FillOutput, OutputFails, PrintOutput,
                        Collect, OpenBundleFile, FillBundleFile, LoseBundle, EmitReport, Kill, Rest
  <1>7. ASSUME pc[q] \in {"bundle", "emit", "done"} PROVE pc'[q] \in {"bundle", "emit", "done"}
    <2>1. ASSUME NEW p \in Procs, NEW w \in {"emit", "done"}, Goto(p, w)
          PROVE  pc'[q] \in {"bundle", "emit", "done"}
      BY <2>1, <1>1, <1>7 DEF Goto, TypeOK
    <2>2. ASSUME NEW p \in Procs, NEW w, Goto(p, w), pc[p] \notin {"bundle", "emit", "done"}
          PROVE  pc'[q] \in {"bundle", "emit", "done"}
      BY <2>2, <1>1, <1>7 DEF Goto, TypeOK
    <2>3. CASE UNCHANGED pc
      BY <2>3, <1>7
    <2> QED BY <2>1, <2>2, <2>3 DEF Next, vars, Rebuild, WriteManifest, Start, ReadModule, SetupFails,
                        CallFails, CallReturns, OpenOutput, FillOutput, OutputFails, PrintOutput,
                        Collect, OpenBundleFile, FillBundleFile, LoseBundle, EmitReport, Kill, Rest
  <1>8. Failing(q)'
    BY <1>6 DEF Failing, Errors
  <1> QED BY <1>4, <1>5, <1>7, <1>8 DEF Key

\* Only a process at its bundle writes to one, and only in its own directory.
LEMMA BundleWrites ==
    ASSUME TInv, [Next]_vars, NEW k \in Keys, NEW f \in BundleFiles
    PROVE  \/ bundles'[k][f] = bundles[k][f]
           \/ \E p \in Procs :
                 /\ OpenBundleFile(p) \/ FillBundleFile(p)
                 /\ Failing(p) /\ k = Key(p) /\ f = Head(todo[p])
                 /\ bundles'[k][f] \in {Own(p), Torn(p)} /\ bundles'[k][f].by = p
  <1>1. TypeOK
    BY DEF TInv
  <1>2. ASSUME NEW p \in Procs, OpenBundleFile(p) \/ FillBundleFile(p),
               bundles'[k][f] # bundles[k][f]
        PROVE  /\ Failing(p) /\ k = Key(p) /\ f = Head(todo[p])
               /\ bundles'[k][f] \in {Own(p), Torn(p)} /\ bundles'[k][f].by = p
    <2>1. Failing(p)
      BY <1>2 DEF TInv, Told, OpenBundleFile, FillBundleFile
    <2>2. PICK w \in {Own(p), Torn(p)} : bundles' = [bundles EXCEPT ![Key(p)][Head(todo[p])] = w]
      BY <1>2 DEF OpenBundleFile, FillBundleFile, Filled
    <2>3. Key(p) \in Keys
      BY <1>1, KeyForm
    <2>4. k = Key(p) /\ f = Head(todo[p])
      BY <1>1, <1>2, <2>2, <2>3 DEF TypeOK
    <2>5. bundles'[k][f] = w
      BY <1>1, <2>2, <2>3, <2>4 DEF TypeOK
    <2> QED BY <2>1, <2>4, <2>5, ContentForms
  <1>3. CASE UNCHANGED bundles
    BY <1>3
  <1> QED BY <1>2, <1>3 DEF Next, vars, Rebuild, WriteManifest, Start, ReadModule, SetupFails,
                        CallFails, CallReturns, OpenOutput, FillOutput, OutputFails, PrintOutput,
                        Collect, OpenBundleFile, FillBundleFile, LoseBundle, EmitReport, Kill, Rest

LEMMA NextWritten == TInv /\ Written /\ [Next]_vars => Written'
  <1> SUFFICES ASSUME TInv, Written, [Next]_vars,
                      NEW k \in Keys, NEW f \in BundleFiles, NEW p \in Procs,
                      bundles'[k][f].by = p
               PROVE  Failing(p)' /\ pc'[p] \in {"bundle", "emit", "done"} /\ k = Key(p)'
    BY DEF Written
  <1>1. Failing(p) /\ pc[p] \in {"bundle", "emit", "done"} /\ k = Key(p)
    BY BundleWrites DEF Written, OpenBundleFile, FillBundleFile
  <1> QED BY <1>1, FailingKept

LEMMA SteadyKept ==
    ASSUME NEW q \in Procs, Steady(q), UNCHANGED here,
           pc'[q] = pc[q], ran'[q] = ran[q], about'[q] = about[q], steady'[q] = steady[q]
    PROVE  Steady(q)'
  BY DEF Steady, here

LEMMA NextSteady ==
    ASSUME TypeOK, \A p \in Procs : Steady(p), [Next]_vars
    PROVE  \A q \in Procs : Steady(q)'
  <1>1. CASE UNCHANGED vars
    BY <1>1 DEF vars, here, Steady
  <1>2. CASE Rebuild
    BY <1>2 DEF Rebuild, Steady, TypeOK
  <1>3. CASE WriteManifest
    BY <1>3 DEF WriteManifest, Steady, TypeOK
  <1>4. ASSUME NEW p \in Procs, Start(p) PROVE \A q \in Procs : Steady(q)'
    <2>1. ASSUME NEW q \in Procs \ {p} PROVE Steady(q)'
      BY <1>4, <2>1, SteadyKept DEF Start, Goto, TypeOK
    <2>2. Steady(p)'
      BY <1>4 DEF Start, Goto, TypeOK, Steady, here
    <2> QED BY <2>1, <2>2
  <1>5. ASSUME NEW p \in Procs, ReadModule(p) PROVE \A q \in Procs : Steady(q)'
    <2>1. ASSUME NEW q \in Procs \ {p} PROVE Steady(q)'
      BY <1>5, <2>1, SteadyKept DEF ReadModule, Goto, TypeOK
    <2>2. pc'[p] \in {"call", "collect"} /\ about'[p] = {} /\ UNCHANGED here
      BY <1>5 DEF ReadModule, Goto, TypeOK, Steady
    <2>3. steady'[p] => ran'[p] = module /\ manifest \in {0, module}
      BY <1>5 DEF ReadModule, TypeOK, Steady
    <2>4. Steady(p)'
      BY <2>2, <2>3 DEF Steady, here
    <2> QED BY <2>1, <2>4
  <1>6. ASSUME NEW p \in Procs,
               \/ SetupFails(p) \/ CallFails(p) \/ CallReturns(p) \/ FillOutput(p)
               \/ OutputFails(p) \/ PrintOutput(p) \/ LoseBundle(p) \/ EmitReport(p) \/ Kill(p)
        PROVE  \A q \in Procs : Steady(q)'
    <2>1. /\ UNCHANGED <<here, ran, about, steady>>
          /\ \/ pc[p] = "call" /\ Goto(p, "collect")
             \/ pc[p] = "call" /\ Goto(p, "output")
             \/ pc[p] = "output" /\ (Goto(p, "collect") \/ Goto(p, "emit") \/ Goto(p, "done"))
             \/ pc[p] \in {"bundle", "emit"} /\ (Goto(p, "emit") \/ Goto(p, "done"))
      BY <1>6 DEF SetupFails, CallFails, CallReturns, FillOutput, OutputFails, PrintOutput,
                  LoseBundle, EmitReport, Kill
    <2>2. ASSUME NEW q \in Procs \ {p} PROVE Steady(q)'
      BY <2>1, <2>2, SteadyKept DEF Goto, TypeOK
    <2>3. Steady(p)'
      BY <2>1 DEF Goto, TypeOK, Steady, here
    <2> QED BY <2>2, <2>3
  <1>7. ASSUME NEW p \in Procs, OpenOutput(p) \/ OpenBundleFile(p) PROVE \A q \in Procs : Steady(q)'
    BY <1>7, SteadyKept DEF OpenOutput, OpenBundleFile
  <1>8. ASSUME NEW p \in Procs, Collect(p) PROVE \A q \in Procs : Steady(q)'
    <2>1. ASSUME NEW q \in Procs \ {p} PROVE Steady(q)'
      BY <1>8, <2>1, SteadyKept DEF Collect, Goto, TypeOK
    <2>2. pc'[p] = "bundle" /\ UNCHANGED <<here, ran, steady>>
      BY <1>8 DEF Collect, Goto, TypeOK
    <2>3. steady[p] => about'[p] \subseteq {ran[p]}
      BY <1>8 DEF Collect, Steady, TypeOK
    <2>4. Steady(p)'
      BY <2>2, <2>3 DEF Steady
    <2> QED BY <2>1, <2>4
  <1>9. ASSUME NEW p \in Procs, FillBundleFile(p) PROVE \A q \in Procs : Steady(q)'
    <2>1. ASSUME NEW q \in Procs \ {p} PROVE Steady(q)'
      BY <1>9, <2>1, SteadyKept DEF FillBundleFile, Goto, TypeOK
    <2>2. pc'[p] \in {"bundle", "emit"} /\ UNCHANGED <<here, ran, about, steady>>
      BY <1>9 DEF FillBundleFile, Goto, TypeOK
    <2>3. Steady(p)'
      BY <1>9, <2>2 DEF Steady, FillBundleFile
    <2> QED BY <2>1, <2>3
  <1> QED BY <1>1, <1>2, <1>3, <1>4, <1>5, <1>6, <1>7, <1>8, <1>9 DEF Next, Rest

LEMMA InitBundles == Init => BInv
  <1> SUFFICES ASSUME Init PROVE BInv
    OBVIOUS
  <1>1. Written
    BY ConstantsAssumption DEF Init, Written, Absent
  <1>2. \A p \in Procs : Steady(p)
    BY DEF Init, Steady
  <1> QED BY <1>1, <1>2, InitTold DEF BInv

LEMMA NextBundles == BInv /\ [Next]_vars => BInv'
  BY NextTold, NextWritten, NextSteady DEF BInv, TInv

\* A bundle is named after the module that was run, and its manifest is that of
\* this module as long as nobody rebuilt it in between (incident.rs:5-20,
\* run.rs:1093-1180).
THEOREM BundlesOfOneModule == Spec => []BundlesKeepModule
  <1>1. BInv => BundlesKeepModule
    <2> SUFFICES ASSUME BInv PROVE BundlesKeepModule
      OBVIOUS
    <2>1. NamedAfterModule
      BY DEF BInv, Written, NamedAfterModule, Key
    <2>2. ManifestOfModule
      BY DEF BInv, Steady, ManifestOfModule
    <2> QED BY <2>1, <2>2 DEF BundlesKeepModule
  <1> QED BY <1>1, InitBundles, NextBundles, PTL DEF Spec

-----------------------------------------------------------------------------
\* The output on its way: who holds the output file open, what is there at the
\* end of a command without diagnostics.
Delivery(p) ==
    /\ pc[p] = "output" /\ open[p] =>
          cmd[p].out # None /\ (Rivals(p) = {} => files[cmd[p].out].by = p)
    /\ pc[p] \in {"start", "read", "call", "collect"} => ~open[p]
    /\ Ended(p) /\ exit[p] = 0 => diags[p] = {}
    /\ (pc[p] = "emit" \/ (Ended(p) /\ exit[p] = 0)) /\ diags[p] = {} =>
          /\ cmd[p].out # None /\ Rivals(p) = {} => files[cmd[p].out] = Own(p)
          /\ cmd[p].out = None /\ ~cmd[p].json =>
                IF pc[p] = "emit" THEN {"output", "held"} \cap shown[p] # {}
                                  ELSE "output" \in shown[p] \/ {"held", "lost"} \subseteq shown[p]

DInv == BInv /\ \A p \in Procs : Delivery(p)

\* Only a process with the same output file can disturb it.
LEMMA FileKept ==
    ASSUME TypeOK, NEW q \in Procs, NEW p \in Procs \ {q}, NEW w, cmd[p].out # None,
           cmd[q].out # None, Rivals(q) = {}, files' = [files EXCEPT ![cmd[p].out] = w]
    PROVE  files'[cmd[q].out] = files[cmd[q].out]
  <1>1. cmd[p].out # cmd[q].out
    BY DEF Rivals
  <1>2. cmd[q].out \in Paths /\ cmd[p].out \in Paths
    BY ConstantsAssumption DEF TypeOK
  <1> QED BY <1>1, <1>2 DEF TypeOK

LEMMA DeliveryKept ==
    ASSUME TypeOK, NEW q \in Procs, Delivery(q),
           pc'[q] = pc[q], diags'[q] = diags[q], exit'[q] = exit[q], shown'[q] = shown[q],
           open'[q] = open[q], cmd' = cmd,
           \/ UNCHANGED files
           \/ \E p \in Procs \ {q}, w \in Contents :
                 cmd[p].out # None /\ files' = [files EXCEPT ![cmd[p].out] = w]
    PROVE  Delivery(q)'
  <1>1. cmd[q].out # None /\ Rivals(q) = {} => files'[cmd[q].out] = files[cmd[q].out]
    BY FileKept
  <1>2. Rivals(q)' = Rivals(q)
    BY DEF Rivals
  <1> QED BY <1>1, <1>2 DEF Delivery, Ended

LEMMA NextDelivery == DInv /\ [Next]_vars => DInv'
  <1> SUFFICES ASSUME DInv, [Next]_vars PROVE \A q \in Procs : Delivery(q)'
    BY NextBundles DEF DInv
  <1>0. TypeOK /\ \A q \in Procs : Delivery(q) /\ Told(q)
    BY DEF DInv, BInv, TInv
  <1>1. CASE UNCHANGED vars \/ Rebuild \/ WriteManifest
    <2>1. UNCHANGED <<pc, diags, exit, shown, open, cmd, files>>
      BY <1>1 DEF vars, Rebuild, WriteManifest
    <2> QED BY <2>1, <1>0, DeliveryKept
  <1>2. ASSUME NEW p \in Procs, Start(p) PROVE \A q \in Procs : Delivery(q)'
    <2>1. ASSUME NEW q \in Procs \ {p} PROVE Delivery(q)'
      BY <1>0, <1>2, <2>1, DeliveryKept DEF Start, Goto, Say, TypeOK
    <2>2. ~Ended(p)' /\ pc'[p] \in {"read", "emit"} /\ ~open'[p]
      BY <1>0, <1>2 DEF Start, Goto, TypeOK, Ended, Delivery
    <2>3. pc'[p] = "emit" => diags'[p] # {}
      <3>1. pc'[p] = "emit" => Say(p, {InputFailed})
        BY <1>0, <1>2 DEF Start, Goto, TypeOK
      <3>2. Say(p, {InputFailed}) => InputFailed \in diags'[p]
        BY <1>0 DEF Say, TypeOK
      <3> QED BY <3>1, <3>2
    <2>4. Delivery(p)'
      BY <2>2, <2>3 DEF Delivery
    <2> QED BY <2>1, <2>4
  <1>3. ASSUME NEW p \in Procs,
               \/ ReadModule(p) \/ SetupFails(p) \/ CallFails(p) \/ CallReturns(p)
               \/ OutputFails(p) \/ Collect(p) \/ LoseBundle(p) \/ OpenBundleFile(p)
        PROVE  \A q \in Procs : Delivery(q)'
    <2>1. ASSUME NEW q \in Procs \ {p} PROVE Delivery(q)'
      BY <1>0, <1>3, <2>1, DeliveryKept
      DEF ReadModule, SetupFails, CallFails, CallReturns, OutputFails, Collect, LoseBundle,
          OpenBundleFile, Goto, Say, TypeOK
    <2>2. ~Ended(p)' /\ pc'[p] \in {"call", "collect", "output", "bundle", "emit"}
      BY <1>3, <1>0
      DEF ReadModule, SetupFails, CallFails, CallReturns, OutputFails, Collect, LoseBundle,
          OpenBundleFile, Goto, TypeOK, Ended
    <2>3. pc'[p] \in {"call", "collect", "output"} => ~open'[p]
      BY <1>3, <1>0
      DEF ReadModule, SetupFails, CallFails, CallReturns, OutputFails, Collect, LoseBundle,
          OpenBundleFile, Goto, TypeOK, Delivery
    <2>4. pc'[p] = "emit" => BundleLost \in diags'[p]
      BY <1>3, <1>0
      DEF ReadModule, SetupFails, CallFails, CallReturns, OutputFails, Collect, LoseBundle,
          OpenBundleFile, Goto, Say, TypeOK
    <2>5. Delivery(p)'
      BY <2>2, <2>3, <2>4 DEF Delivery
    <2> QED BY <2>1, <2>5
  <1>4. ASSUME NEW p \in Procs, OpenOutput(p) PROVE \A q \in Procs : Delivery(q)'
    <2>1. files' = [files EXCEPT ![cmd[p].out] = Torn(p)] /\ cmd[p].out # None
          /\ UNCHANGED <<pc, diags, exit, shown, cmd>>
      BY <1>4 DEF OpenOutput
    <2>2. ASSUME NEW q \in Procs \ {p} PROVE Delivery(q)'
      <3>1. open'[q] = open[q]
        BY <1>0, <1>4, <2>2 DEF OpenOutput, TypeOK
      <3> QED BY <1>0, <2>1, <2>2, <3>1, DeliveryKept, ContentForms
    <2>3. files'[cmd[p].out].by = p /\ ~Ended(p)' /\ pc'[p] = "output"
      BY <1>0, <1>4, <2>1, ConstantsAssumption, ContentForms DEF TypeOK, OpenOutput, Ended
    <2>4. Delivery(p)'
      BY <2>1, <2>3 DEF Delivery
    <2> QED BY <2>2, <2>4
  <1>5. ASSUME NEW p \in Procs, FillOutput(p) PROVE \A q \in Procs : Delivery(q)'
    <2>1. PICK w \in {Own(p), Torn(p)} :
             /\ files' = [files EXCEPT ![cmd[p].out] = w]
             /\ files[cmd[p].out].by = p => w = Own(p)
      BY <1>5 DEF FillOutput, Filled
    <2>2. cmd[p].out # None /\ (Rivals(p) = {} => files[cmd[p].out].by = p)
      BY <1>0, <1>5 DEF FillOutput, Delivery
    <2>3. ASSUME NEW q \in Procs \ {p} PROVE Delivery(q)'
      <3>1. pc'[q] = pc[q] /\ open'[q] = open[q] /\ UNCHANGED <<diags, exit, shown, cmd>>
        BY <1>0, <1>5, <2>3 DEF FillOutput, Goto, TypeOK
      <3> QED BY <1>0, <2>1, <2>2, <2>3, <3>1, DeliveryKept, ContentForms
    <2>4. Rivals(p) = {} => files'[cmd[p].out] = Own(p)
      BY <1>0, <2>1, <2>2, ConstantsAssumption DEF TypeOK
    <2>5. pc'[p] = "emit" /\ cmd' = cmd
      BY <1>0, <1>5 DEF FillOutput, Goto, TypeOK
    <2>6. Rivals(p)' = Rivals(p)
      BY <2>5 DEF Rivals
    <2>7. Delivery(p)'
      BY <2>2, <2>4, <2>5, <2>6 DEF Delivery, Ended
    <2> QED BY <2>3, <2>7
  <1>6. ASSUME NEW p \in Procs, PrintOutput(p) PROVE \A q \in Procs : Delivery(q)'
    <2>1. ASSUME NEW q \in Procs \ {p} PROVE Delivery(q)'
      BY <1>0, <1>6, <2>1, DeliveryKept DEF PrintOutput, Goto, Show, TypeOK
    <2>2. CASE /\ Goto(p, "emit")
               /\ ~cmd[p].json => \E what \in {"output", "held"} : Show(p, {what})
      <3>1. pc'[p] = "emit" /\ cmd'[p] = cmd[p] /\ cmd[p].out = None
        BY <1>0, <1>6, <2>2 DEF PrintOutput, Goto, TypeOK
      <3>2. ~cmd[p].json => {"output", "held"} \cap shown'[p] # {}
        <4> SUFFICES ASSUME ~cmd[p].json PROVE {"output", "held"} \cap shown'[p] # {}
          OBVIOUS
        <4>1. PICK what \in {"output", "held"} : shown' = [shown EXCEPT ![p] = @ \cup {what}]
          BY <2>2 DEF Show
        <4>2. what \in shown'[p]
          BY <1>0, <4>1 DEF TypeOK
        <4> QED BY <4>2
      <3>3. Delivery(p)'
        BY <3>1, <3>2 DEF Delivery, Ended
      <3> QED BY <2>1, <3>3
    <2>3. CASE Goto(p, "done") /\ exit' = [exit EXCEPT ![p] = 2]
      <3>1. pc'[p] = "done" /\ exit'[p] = 2
        BY <1>0, <2>3 DEF Goto, TypeOK
      <3>2. Delivery(p)'
        BY <3>1 DEF Delivery, Ended
      <3> QED BY <2>1, <3>2
    <2> QED BY <1>6, <2>2, <2>3 DEF PrintOutput
  <1>7. ASSUME NEW p \in Procs, FillBundleFile(p) PROVE \A q \in Procs : Delivery(q)'
    <2>1. ASSUME NEW q \in Procs \ {p} PROVE Delivery(q)'
      BY <1>0, <1>7, <2>1, DeliveryKept DEF FillBundleFile, Goto, TypeOK
    <2>2. diags'[p] # {} /\ ~Ended(p)' /\ pc'[p] \in {"bundle", "emit"}
      BY <1>0, <1>7 DEF FillBundleFile, Goto, TypeOK, Told, Failing, Errors, Ended
    <2>3. Delivery(p)'
      BY <2>2 DEF Delivery
    <2> QED BY <2>1, <2>3
  <1>8. ASSUME NEW p \in Procs, EmitReport(p) PROVE \A q \in Procs : Delivery(q)'
    <2>1. ASSUME NEW q \in Procs \ {p} PROVE Delivery(q)'
      BY <1>0, <1>8, <2>1, DeliveryKept DEF EmitReport, Goto, Show, TypeOK
    <2>2. pc'[p] = "done" /\ UNCHANGED <<diags, cmd, files, open>> /\ pc[p] = "emit"
      BY <1>0, <1>8 DEF EmitReport, Goto, TypeOK
    <2>3. exit'[p] = 0 => diags[p] = {}
      <3> SUFFICES ASSUME exit'[p] = 0 PROVE diags[p] = {}
        OBVIOUS
      <3>1. exit'[p] = ExitCodeOf(diags[p] \ {BundleLost})
        BY <1>0, <1>8 DEF EmitReport, TypeOK
      <3>2. Errors(diags[p] \ {BundleLost}) = {}
        BY <3>1, ExitCodeFacts
      <3>3. \A d \in diags[p] : d.severity # "error"
        BY <3>2, DiagForms DEF Errors
      <3>4. ~Failing(p)
        BY <3>3 DEF Failing, Errors
      <3>5. diags[p] \subseteq {InputFailed}
        BY <1>0, <2>2, <3>4 DEF Told
      <3> QED BY <3>3, <3>5, DiagForms
    <2>4. {"output", "held"} \cap shown[p] # {} =>
              "output" \in shown'[p] \/ {"held", "lost"} \subseteq shown'[p]
      <3>1. PICK tail \in AtExit(p) : \E what : Show(p, tail \cup what)
        BY <1>8 DEF EmitReport
      <3>2. shown[p] \subseteq shown'[p] /\ tail \subseteq shown'[p]
        BY <1>0, <3>1 DEF Show, TypeOK
      <3>3. "held" \in shown[p] => tail = {"output"} \/ tail = {"lost"}
        BY <3>1 DEF AtExit
      <3> QED BY <3>2, <3>3
    <2>5. Rivals(p)' = Rivals(p)
      BY <2>2 DEF Rivals
    <2>6. Delivery(p)'
      BY <1>0, <2>2, <2>3, <2>4, <2>5 DEF Delivery, Ended
    <2> QED BY <2>1, <2>6
  <1>9. ASSUME NEW p \in Procs, Kill(p) PROVE \A q \in Procs : Delivery(q)'
    <2>1. ASSUME NEW q \in Procs \ {p} PROVE Delivery(q)'
      BY <1>0, <1>9, <2>1, DeliveryKept DEF Kill, Goto, TypeOK
    <2>2. pc'[p] = "done" /\ exit'[p] = 9
      BY <1>0, <1>9 DEF Kill, Goto, TypeOK, Told
    <2>3. Delivery(p)'
      BY <2>2 DEF Delivery, Ended
    <2> QED BY <2>1, <2>3
  <1> QED BY <1>1, <1>2, <1>3, <1>4, <1>5, <1>6, <1>7, <1>8, <1>9 DEF Next, Rest

LEMMA InitDelivery == Init => DInv
  <1> SUFFICES ASSUME Init PROVE DInv
    OBVIOUS
  <1>1. \A p \in Procs : Delivery(p)
    BY DEF Init, Delivery, Ended
  <1> QED BY <1>1, InitBundles DEF DInv

\* Exit code 0 means that no bundle is this command's and that the output was
\* delivered whole, unless a process with the same output file was there, or
\* the tail that stayed in the buffer of stdout was lost at exit
\* (run.rs:748-834, 1001-1058).
THEOREM SuccessIsDelivered == Spec => []SuccessDelivered
  <1>1. DInv => SuccessDelivered
    <2> SUFFICES ASSUME DInv, NEW p \in Procs, Ended(p), exit[p] = 0
                 PROVE  /\ cmd[p].out # None /\ Rivals(p) = {} => files[cmd[p].out] = Own(p)
                        /\ cmd[p].out = None /\ ~cmd[p].json =>
                              "output" \in shown[p] \/ {"held", "lost"} \subseteq shown[p]
                        /\ \A k \in Keys, f \in BundleFiles : bundles[k][f].by # p
      BY DEF SuccessDelivered
    <2>1. Delivery(p) /\ Written
      BY DEF DInv, BInv
    <2>2. diags[p] = {} /\ ~Failing(p)
      BY <2>1 DEF Delivery, Failing, Errors
    <2> QED BY <2>1, <2>2 DEF Delivery, Written, Ended
  <1> QED BY <1>1, InitDelivery, NextDelivery, PTL DEF Spec

-----------------------------------------------------------------------------
\* What may be left of BundleOrder.
Rests == {<<"input", "report", "manifest">>, <<"report", "manifest">>, <<"manifest">>}

\* The files are worked off from the front.
LEMMA RestFacts ==
    ASSUME NEW t \in Rests
    PROVE  /\ Head(t) \in BundleFiles
           /\ Tail(t) \in Rests \cup {<<>>}
           /\ Head(t) = "input" => Tail(t) # <<>>
           /\ \A g : (\A i \in 1..Len(Tail(t)) : Tail(t)[i] # g) /\ g # Head(t) =>
                  \A i \in 1..Len(t) : t[i] # g
           /\ \A g : (\A i \in 1..Len(t) : t[i] # g) => g # Head(t)
  <1>1. CASE t = <<"input", "report", "manifest">>
    <2>1. Head(t) = "input" /\ Tail(t) = <<"report", "manifest">> /\ Len(t) = 3
      BY <1>1
    <2> QED BY <1>1, <2>1 DEF Rests, BundleFiles
  <1>2. CASE t = <<"report", "manifest">>
    <2>1. Head(t) = "report" /\ Tail(t) = <<"manifest">> /\ Len(t) = 2
      BY <1>2
    <2> QED BY <1>2, <2>1 DEF Rests, BundleFiles
  <1>3. CASE t = <<"manifest">>
    <2>1. Head(t) = "manifest" /\ Tail(t) = <<>> /\ Len(t) = 1
      BY <1>3
    <2> QED BY <1>3, <2>1 DEF Rests, BundleFiles
  <1> QED BY <1>1, <1>2, <1>3 DEF Rests

\* Another failing process with the same module and input.
Rivaled(p) == \E q \in Procs \ {p} : Failing(q) /\ Key(q) = Key(p)

\* A file of the bundle of p that it is done with: somebody's, and cut short by
\* p itself only where a rival was at it as well.
Settled(p, f) ==
    LET c == bundles[Key(p)][f] IN c.by \in Procs /\ (c = Torn(p) => Rivaled(p))

\* How far a process has come with its bundle.
Filed(p) ==
    /\ pc[p] = "bundle" =>
          /\ todo[p] \in Rests
          /\ \A f \in BundleFiles :
                (\A i \in 1..Len(todo[p]) : todo[p][i] # f) => Settled(p, f)
          /\ open[p] => LET c == bundles[Key(p)][Head(todo[p])] IN
                           c.by \in Procs /\ (c.by # p => Rivaled(p))
    /\ recorded[p] => /\ pc[p] \in {"emit", "done"} /\ Failing(p)
                      /\ \A f \in BundleFiles : Settled(p, f)

\* Only one that is at its bundle, or left it half written, has cut an input.
CutInput ==
    \A k \in Keys, q \in Procs :
        bundles[k]["input"] = Torn(q) =>
            ~recorded[q] /\ (pc[q] = "bundle" => Head(todo[q]) = "input")

UInv == DInv /\ CutInput /\ \A p \in Procs : Filed(p)

\* What a process has done with a file lasts, or a rival comes.
LEMMA SettledKept ==
    ASSUME BInv, [Next]_vars, NEW p \in Procs, Failing(p)
    PROVE  /\ Rivaled(p) => Rivaled(p)'
           /\ \A f \in BundleFiles :
                 \/ bundles'[Key(p)'][f] = bundles[Key(p)][f]
                 \/ bundles'[Key(p)'][f].by = p /\ (OpenBundleFile(p) \/ FillBundleFile(p))
                    /\ f = Head(todo[p])
                 \/ /\ Rivaled(p)'
                    /\ \E q \in Procs \ {p} : bundles'[Key(p)'][f] \in {Own(q), Torn(q)}
  <1>1. TInv /\ Key(p)' = Key(p) /\ Key(p) \in Keys
    BY FailingKept, KeyForm DEF BInv, TInv
  <1>2. \A q \in Procs : Failing(q) => Failing(q)' /\ Key(q)' = Key(q)
    BY <1>1, FailingKept
  <1>3. Rivaled(p) => Rivaled(p)'
    BY <1>1, <1>2 DEF Rivaled
  <1>4. ASSUME NEW f \in BundleFiles, bundles'[Key(p)'][f] # bundles[Key(p)][f]
        PROVE  \/ bundles'[Key(p)'][f].by = p /\ (OpenBundleFile(p) \/ FillBundleFile(p))
                  /\ f = Head(todo[p])
               \/ /\ Rivaled(p)'
                  /\ \E q \in Procs \ {p} : bundles'[Key(p)'][f] \in {Own(q), Torn(q)}
    <2>1. PICK q \in Procs :
             /\ OpenBundleFile(q) \/ FillBundleFile(q)
             /\ Failing(q) /\ Key(p) = Key(q) /\ f = Head(todo[q])
             /\ bundles'[Key(p)][f] \in {Own(q), Torn(q)} /\ bundles'[Key(p)][f].by = q
      BY <1>1, <1>4, BundleWrites
    <2>2. CASE q = p
      BY <1>1, <2>1, <2>2
    <2>3. CASE q # p
      BY <1>1, <1>2, <2>1, <2>3 DEF Rivaled
    <2> QED BY <2>2, <2>3
  <1> QED BY <1>3, <1>4

\* A settled file stays settled unless its owner writes it again.
LEMMA SettledStays ==
    ASSUME BInv, [Next]_vars, NEW p \in Procs, Failing(p), NEW f \in BundleFiles, Settled(p, f),
           ~((OpenBundleFile(p) \/ FillBundleFile(p)) /\ f = Head(todo[p]))
    PROVE  Settled(p, f)'
  <1>1. \A q \in Procs \ {p} : Own(q) # Torn(p) /\ Torn(q) # Torn(p)
    BY ContentForms
  <1>2. CASE bundles'[Key(p)'][f] = bundles[Key(p)][f]
    BY <1>2, SettledKept DEF Settled, Torn
  <1>3. CASE \E q \in Procs \ {p} : bundles'[Key(p)'][f] \in {Own(q), Torn(q)}
    BY <1>1, <1>3, ContentForms DEF Settled, Torn
  <1> QED BY <1>2, <1>3, SettledKept

\* A bundle that was written to its end is left alone by its process.
LEMMA RecordedKept ==
    ASSUME BInv, [Next]_vars, NEW q \in Procs, Filed(q), recorded[q]
    PROVE  /\ pc'[q] \in {"emit", "done"} /\ Failing(q)'
           /\ \A f \in BundleFiles : Settled(q, f)'
  <1>1. pc[q] \in {"emit", "done"} /\ Failing(q) /\ \A f \in BundleFiles : Settled(q, f)
    BY DEF Filed
  <1>2. ~OpenBundleFile(q) /\ ~FillBundleFile(q)
    BY <1>1 DEF OpenBundleFile, FillBundleFile
  <1>3. TypeOK /\ TInv
    BY DEF BInv, TInv
  <1>4. pc'[q] \in {"emit", "done"}
    <2>1. ASSUME NEW p \in Procs, NEW w \in {"emit", "done"}, Goto(p, w)
          PROVE  pc'[q] \in {"emit", "done"}
      BY <2>1, <1>1, <1>3 DEF Goto, TypeOK
    <2>2. ASSUME NEW p \in Procs, NEW w, Goto(p, w), pc[p] \notin {"emit", "done"}
          PROVE  pc'[q] \in {"emit", "done"}
      BY <2>2, <1>1, <1>3 DEF Goto, TypeOK
    <2>3. CASE UNCHANGED pc
      BY <2>3, <1>1
    <2> QED BY <2>1, <2>2, <2>3 DEF Next, vars, Rebuild, WriteManifest, Start, ReadModule, SetupFails,
                        CallFails, CallReturns, OpenOutput, FillOutput, OutputFails, PrintOutput,
                        Collect, OpenBundleFile, FillBundleFile, LoseBundle, EmitReport, Kill, Rest
  <1> QED BY <1>1, <1>2, <1>3, <1>4, SettledStays, FailingKept

\* Neither does a step of somebody else set a process back.
LEMMA FiledKept ==
    ASSUME BInv, [Next]_vars, NEW q \in Procs, Filed(q),
           pc'[q] = pc[q], todo'[q] = todo[q], open'[q] = open[q], recorded'[q] = recorded[q]
    PROVE  Filed(q)'
  <1>1. TypeOK /\ TInv /\ Told(q)
    BY DEF BInv, TInv
  <1>2. ~OpenBundleFile(q) /\ ~FillBundleFile(q)
    BY <1>1 DEF OpenBundleFile, FillBundleFile, TypeOK
  <1>3. CASE recorded[q]
    BY <1>3, RecordedKept DEF Filed
  <1>4. CASE ~recorded[q] /\ pc[q] # "bundle"
    BY <1>4 DEF Filed
  <1>5. CASE ~recorded[q] /\ pc[q] = "bundle"
    <2>1. Failing(q) /\ todo[q] # <<>>
      BY <1>1, <1>5 DEF Told, TypeOK
    <2>2. \A f \in BundleFiles : (\A i \in 1..Len(todo'[q]) : todo'[q][i] # f) => Settled(q, f)'
      BY <1>2, <1>5, <2>1, SettledStays DEF Filed
    <2>3. Head(todo[q]) \in BundleFiles
      <3>1. todo[q] \in Rests
        BY <1>5 DEF Filed
      <3> QED BY <3>1, RestFacts
    <2>4. open[q] => LET c == bundles'[Key(q)'][Head(todo[q])] IN
                        c.by \in Procs /\ (c.by # q => Rivaled(q)')
      BY <1>2, <1>5, <2>1, <2>3, SettledKept, ContentForms DEF Filed
    <2> QED BY <1>5, <2>2, <2>4 DEF Filed
  <1> QED BY <1>3, <1>4, <1>5

\* A step of its own that does not lead to a bundle.
LEMMA FiledAway ==
    ASSUME BInv, [Next]_vars, NEW q \in Procs, Filed(q),
           pc'[q] # "bundle", recorded'[q] = recorded[q]
    PROVE  Filed(q)'
  BY RecordedKept DEF Filed

LEMMA FillFiled ==
    ASSUME BInv, [Next]_vars, NEW p \in Procs, Filed(p), FillBundleFile(p)
    PROVE  Filed(p)'
  <1>1. TypeOK /\ TInv /\ Told(p) /\ Key(p) \in Keys
    BY KeyForm DEF BInv, TInv
  <1>2. pc[p] = "bundle" /\ open[p] /\ Failing(p) /\ ~recorded[p]
    BY <1>1 DEF FillBundleFile, Told, Filed
  <1> DEFINE c == bundles[Key(p)][Head(todo[p])]
  <1>3. PICK f \in BundleFiles : f = Head(todo[p])
    BY <1>2, RestFacts DEF Filed
  <1>4. c.by \in Procs /\ (c.by # p => Rivaled(p))
    BY <1>2 DEF Filed
  <1>5. PICK w \in {Own(p), Torn(p)} :
           /\ bundles' = [bundles EXCEPT ![Key(p)][f] = w]
           /\ f = "input" \/ c.by = p => w = Own(p)
    BY <1>2, <1>3 DEF FillBundleFile, Filled
  <1>6. Key(p)' = Key(p) /\ (Rivaled(p) => Rivaled(p)') /\ Failing(p)'
    BY <1>1, <1>2, FailingKept, SettledKept
  <1>7. bundles'[Key(p)'][f] = w
    BY <1>1, <1>3, <1>5, <1>6 DEF TypeOK
  <1>8. Settled(p, f)'
    BY <1>4, <1>5, <1>6, <1>7, ContentForms DEF Settled, Own, Torn
  <1>9. ASSUME NEW g \in BundleFiles, g # f, Settled(p, g) PROVE Settled(p, g)'
    BY <1>2, <1>3, <1>9, SettledStays
  <1>10. todo'[p] = Tail(todo[p]) /\ open'[p] = FALSE
    BY <1>1 DEF FillBundleFile, TypeOK
  <1>11. \A g \in BundleFiles :
            (\A i \in 1..Len(todo'[p]) : todo'[p][i] # g) => Settled(p, g)'
    <2> SUFFICES ASSUME NEW g \in BundleFiles, \A i \in 1..Len(todo'[p]) : todo'[p][i] # g, g # f
                 PROVE  Settled(p, g)
      BY <1>8, <1>9
    <2>1. \A i \in 1..Len(todo[p]) : todo[p][i] # g
      BY <1>2, <1>3, <1>10, RestFacts DEF Filed
    <2> QED BY <1>2, <2>1 DEF Filed
  <1>12. CASE todo'[p] = <<>>
    <2>1. pc'[p] = "emit"
      BY <1>1, <1>12 DEF FillBundleFile, Goto, TypeOK
    <2>2. \A g \in BundleFiles : Settled(p, g)'
      BY <1>11, <1>12
    <2> QED BY <2>1, <2>2, <1>6 DEF Filed
  <1>13. CASE todo'[p] # <<>>
    <2>1. pc'[p] = "bundle" /\ ~recorded'[p]
      BY <1>2, <1>13 DEF FillBundleFile
    <2>2. todo'[p] \in Rests
      BY <1>2, <1>10, <1>13, RestFacts DEF Filed
    <2> QED BY <2>1, <2>2, <1>10, <1>11 DEF Filed
  <1> QED BY <1>12, <1>13

LEMMA OpenFiled ==
    ASSUME BInv, [Next]_vars, NEW p \in Procs, Filed(p), OpenBundleFile(p)
    PROVE  Filed(p)'
  <1>1. TypeOK /\ TInv /\ Told(p) /\ Key(p) \in Keys
    BY KeyForm DEF BInv, TInv
  <1>2. pc[p] = "bundle" /\ Failing(p) /\ ~recorded[p] /\ UNCHANGED <<pc, todo, recorded>>
    BY <1>1 DEF OpenBundleFile, Told, Filed
  <1>3. Key(p)' = Key(p) /\ Head(todo[p]) \in BundleFiles
    BY <1>1, <1>2, FailingKept, RestFacts DEF Filed
  <1>4. bundles'[Key(p)'][Head(todo[p])].by = p
    BY <1>1, <1>3, ContentForms DEF OpenBundleFile, TypeOK
  <1>5. \A f \in BundleFiles : (\A i \in 1..Len(todo'[p]) : todo'[p][i] # f) => Settled(p, f)'
    <2> SUFFICES ASSUME NEW f \in BundleFiles, \A i \in 1..Len(todo[p]) : todo[p][i] # f
                 PROVE  Settled(p, f)'
      BY <1>2
    <2>1. Settled(p, f) /\ todo[p] \in Rests
      BY <1>2 DEF Filed
    <2>2. f # Head(todo[p])
      BY <2>1, RestFacts
    <2> QED BY <1>2, <2>1, <2>2, SettledStays
  <1> QED BY <1>2, <1>4, <1>5 DEF Filed

LEMMA NextFiled ==
    ASSUME DInv, \A p \in Procs : Filed(p), [Next]_vars
    PROVE  \A q \in Procs : Filed(q)'
  <1>0. BInv /\ TypeOK /\ \A q \in Procs : Filed(q) /\ Delivery(q)
    BY DEF DInv, BInv, TInv
  <1>1. CASE UNCHANGED vars \/ Rebuild \/ WriteManifest
    <2>1. UNCHANGED <<pc, todo, open, recorded>>
      BY <1>1 DEF vars, Rebuild, WriteManifest
    <2> QED BY <2>1, <1>0, FiledKept
  <1>2. ASSUME NEW p \in Procs,
               \/ Start(p) \/ ReadModule(p) \/ SetupFails(p) \/ CallFails(p) \/ CallReturns(p)
               \/ OpenOutput(p) \/ FillOutput(p) \/ OutputFails(p) \/ PrintOutput(p)
               \/ LoseBundle(p) \/ EmitReport(p) \/ Kill(p)
        PROVE  \A q \in Procs : Filed(q)'
    <2>1. pc'[p] # "bundle" /\ UNCHANGED recorded
      BY <1>0, <1>2 DEF Start, ReadModule, SetupFails, CallFails, CallReturns, OpenOutput, FillOutput,
             OutputFails, PrintOutput, LoseBundle, EmitReport, Kill, Goto, TypeOK
    <2>2. Filed(p)'
      BY <1>0, <2>1, FiledAway
    <2>3. ASSUME NEW q \in Procs \ {p} PROVE Filed(q)'
      <3>1. pc'[q] = pc[q] /\ todo'[q] = todo[q] /\ open'[q] = open[q]
        BY <1>0, <1>2, <2>3 DEF Start, ReadModule, SetupFails, CallFails, CallReturns, OpenOutput,
             FillOutput, OutputFails, PrintOutput, LoseBundle, EmitReport, Kill, Goto, TypeOK
      <3> QED BY <1>0, <2>1, <3>1, FiledKept
    <2> QED BY <2>2, <2>3
  <1>3. ASSUME NEW p \in Procs, Collect(p) PROVE \A q \in Procs : Filed(q)'
    <2>1. ASSUME NEW q \in Procs \ {p} PROVE Filed(q)'
      <3>1. /\ pc'[q] = pc[q] /\ todo'[q] = todo[q] /\ open'[q] = open[q]
            /\ recorded'[q] = recorded[q]
        BY <1>0, <1>3, <2>1 DEF Collect, Goto, TypeOK
      <3> QED BY <1>0, <3>1, FiledKept
    <2>2. ~open'[p] /\ ~recorded'[p] /\ todo'[p] = <<"input", "report", "manifest">>
      BY <1>0, <1>3 DEF Collect, Delivery, Filed, TypeOK, BundleOrder
    <2>3. \A f \in BundleFiles : \E i \in 1..Len(todo'[p]) : todo'[p][i] = f
      <3>1. Len(todo'[p]) = 3 /\ todo'[p][1] = "input" /\ todo'[p][2] = "report"
            /\ todo'[p][3] = "manifest"
        BY <2>2
      <3> QED BY <3>1 DEF BundleFiles
    <2>4. Filed(p)'
      BY <2>2, <2>3 DEF Filed, Rests
    <2> QED BY <2>1, <2>4
  <1>4. ASSUME NEW p \in Procs, OpenBundleFile(p) \/ FillBundleFile(p)
        PROVE  \A q \in Procs : Filed(q)'
    <2>1. ASSUME NEW q \in Procs \ {p} PROVE Filed(q)'
      <3>1. /\ pc'[q] = pc[q] /\ todo'[q] = todo[q] /\ open'[q] = open[q]
            /\ recorded'[q] = recorded[q]
        BY <1>0, <1>4, <2>1 DEF OpenBundleFile, FillBundleFile, Goto, TypeOK
      <3> QED BY <1>0, <3>1, FiledKept
    <2>2. Filed(p)'
      BY <1>0, <1>4, OpenFiled, FillFiled
    <2> QED BY <2>1, <2>2
  <1> QED BY <1>1, <1>2, <1>3, <1>4 DEF Next, Rest

LEMMA NextCutInput ==
    ASSUME DInv, \A p \in Procs : Filed(p), CutInput, [Next]_vars
    PROVE  CutInput'
  <1>0. BInv /\ TInv /\ TypeOK /\ Written
    BY DEF DInv, BInv, TInv
  <1>1. ASSUME NEW p \in Procs, FillBundleFile(p), Head(todo[p]) = "input"
        PROVE  bundles'[Key(p)]["input"] = Own(p)
    <2>1. bundles' = [bundles EXCEPT ![Key(p)]["input"] = Own(p)]
      BY <1>1 DEF FillBundleFile
    <2>2. Key(p) \in Keys
      BY <1>0, KeyForm
    <2> QED BY <1>0, <2>1, <2>2 DEF TypeOK, BundleFiles
  <1> SUFFICES ASSUME NEW k \in Keys, NEW q \in Procs, bundles'[k]["input"] = Torn(q)
               PROVE  ~recorded'[q] /\ (pc'[q] = "bundle" => Head(todo'[q]) = "input")
    BY DEF CutInput, Torn
  <1>2. Torn(q) # Own(q) /\ "input" \in BundleFiles /\ bundles'[k]["input"].by = q
    BY ContentForms DEF Own, Torn, BundleFiles
  <1>3. CASE bundles[k]["input"] = Torn(q)
    <2>1. ~recorded[q] /\ (pc[q] = "bundle" => Head(todo[q]) = "input")
      BY <1>3 DEF CutInput
    <2>2. pc[q] \in {"bundle", "emit", "done"} /\ k = Key(q)
      BY <1>0, <1>2, <1>3, ContentForms DEF Written
    <2>3. ~FillBundleFile(q)
      <3> SUFFICES ASSUME FillBundleFile(q) PROVE FALSE
        OBVIOUS
      <3>1. Head(todo[q]) = "input"
        BY <2>1 DEF FillBundleFile
      <3>2. bundles'[Key(q)]["input"] = Own(q)
        BY <1>1, <3>1
      <3> QED BY <1>2, <2>2, <3>2
    <2>4. recorded'[q] = recorded[q] /\ (pc'[q] = "bundle" => pc[q] = "bundle" /\ todo'[q] = todo[q])
      <3>1. ASSUME NEW p \in Procs, FillBundleFile(p)
            PROVE  /\ recorded'[q] = recorded[q]
                   /\ pc'[q] = "bundle" => pc[q] = "bundle" /\ todo'[q] = todo[q]
        BY <1>0, <2>3, <3>1 DEF FillBundleFile, Goto, TypeOK
      <3>2. ASSUME NEW p \in Procs, Collect(p)
            PROVE  /\ recorded'[q] = recorded[q]
                   /\ pc'[q] = "bundle" => pc[q] = "bundle" /\ todo'[q] = todo[q]
        BY <1>0, <2>2, <3>2 DEF Collect, Goto, TypeOK
      <3>3. ASSUME NEW p \in Procs, LoseBundle(p)
            PROVE  /\ recorded'[q] = recorded[q]
                   /\ pc'[q] = "bundle" => pc[q] = "bundle" /\ todo'[q] = todo[q]
        BY <1>0, <3>3 DEF LoseBundle, Goto, TypeOK
      <3>4. ASSUME NEW p \in Procs, NEW w \in {"read", "call", "collect", "output", "emit", "done"},
                   Goto(p, w), UNCHANGED <<todo, recorded>>
            PROVE  /\ recorded'[q] = recorded[q]
                   /\ pc'[q] = "bundle" => pc[q] = "bundle" /\ todo'[q] = todo[q]
        BY <1>0, <3>4 DEF Goto, TypeOK
      <3>5. CASE UNCHANGED <<pc, todo, recorded>>
        BY <3>5
      <3> QED BY <3>1, <3>2, <3>3, <3>4, <3>5
              DEF Next, vars, Rebuild, WriteManifest, Start, ReadModule, SetupFails, CallFails,
                  CallReturns, OpenOutput, FillOutput, OutputFails, PrintOutput, OpenBundleFile,
                  EmitReport, Kill, Rest
    <2> QED BY <2>1, <2>4
  <1>4. CASE bundles[k]["input"] # Torn(q)
    <2>1. PICK p \in Procs :
             /\ OpenBundleFile(p) \/ FillBundleFile(p)
             /\ Failing(p) /\ k = Key(p) /\ "input" = Head(todo[p])
             /\ bundles'[k]["input"] \in {Own(p), Torn(p)} /\ bundles'[k]["input"].by = p
      BY <1>0, <1>2, <1>4, BundleWrites
    <2>2. p = q
      BY <1>2, <2>1
    <2>3. OpenBundleFile(q)
      <3>1. CASE FillBundleFile(q)
        <4>1. bundles'[Key(q)]["input"] = Own(q)
          BY <1>1, <2>1, <2>2, <3>1
        <4> QED BY <1>2, <2>1, <2>2, <4>1
      <3> QED BY <2>1, <2>2, <3>1
    <2> QED BY <1>0, <2>1, <2>2, <2>3 DEF OpenBundleFile, Filed
  <1> QED BY <1>3, <1>4

LEMMA NextUsable == UInv /\ [Next]_vars => UInv'
  BY NextDelivery, NextFiled, NextCutInput DEF UInv

LEMMA InitUsable == Init => UInv
  <1> SUFFICES ASSUME Init PROVE UInv
    OBVIOUS
  <1>1. \A p \in Procs : Filed(p)
    BY DEF Init, Filed
  <1>2. CutInput
    BY ConstantsAssumption DEF Init, CutInput, Absent, Torn, BundleFiles
  <1> QED BY <1>1, <1>2, InitDelivery DEF UInv

\* Whenever nobody is at a bundle that was written to its end, or has left it
\* half written, its input is whole; and all its files are those of one process
\* unless a second one failed with the same module and input
\* (incident.rs:22-51).
THEOREM BundlesUsable == Spec => []BundleUsable
  <1>1. UInv => BundleUsable
    <2> SUFFICES ASSUME UInv, NEW p \in Procs, recorded[p],
                        \A q \in Procs : ~AtBundle(q, Key(p)) /\ ~LeftBundle(q, Key(p))
                 PROVE  /\ bundles[Key(p)]["input"].whole
                        /\ (\A q \in Procs \ {p} : Failing(q) => Key(q) # Key(p)) =>
                              \A f \in BundleFiles : bundles[Key(p)][f] = Own(p)
      BY DEF BundleUsable
    <2>1. TypeOK /\ Written /\ CutInput /\ Filed(p)
      BY DEF UInv, DInv, BInv, TInv
    <2>2. Key(p) \in Keys
      BY <2>1, KeyForm
    <2>3. \A f \in BundleFiles : Settled(p, f)
      BY <2>1 DEF Filed
    <2>4. \A c \in Contents : c.by \in Procs => c = Own(c.by) \/ c = Torn(c.by)
      BY DEF Contents, Own, Torn
    <2>5. \A f \in BundleFiles : bundles[Key(p)][f] \in Contents
      BY <2>1, <2>2 DEF TypeOK
    <2>6. bundles[Key(p)]["input"].whole
      <3>1. PICK q \in Procs : bundles[Key(p)]["input"] \in {Own(q), Torn(q)}
                               /\ bundles[Key(p)]["input"].by = q
        BY <2>3, <2>4, <2>5 DEF Settled, BundleFiles
      <3>2. CASE bundles[Key(p)]["input"] = Own(q)
        BY <3>2 DEF Own
      <3>3. CASE bundles[Key(p)]["input"] = Torn(q)
        <4>1. ~recorded[q] /\ Key(q) = Key(p)
          BY <2>1, <2>2, <3>1, <3>3 DEF CutInput, Written, BundleFiles
        <4>2. LeftBundle(q, Key(p))
          BY <3>1, <4>1 DEF LeftBundle, BundleFiles
        <4> QED BY <4>2
      <3> QED BY <3>1, <3>2, <3>3
    <2>7. ASSUME \A q \in Procs \ {p} : Failing(q) => Key(q) # Key(p), NEW f \in BundleFiles
          PROVE  bundles[Key(p)][f] = Own(p)
      <3>1. bundles[Key(p)][f].by = p
        BY <2>1, <2>2, <2>3, <2>7 DEF Settled, Written
      <3>2. bundles[Key(p)][f] # Torn(p)
        BY <2>3, <2>7 DEF Settled, Rivaled
      <3> QED BY <2>4, <2>5, <3>1, <3>2
    <2> QED BY <2>6, <2>7
  <1> QED BY <1>1, InitUsable, NextUsable, PTL DEF Spec

-----------------------------------------------------------------------------
\* A memory none of the three expectations complains about is what they say.
LEMMA NoMemoryErrors ==
    ASSUME NEW b \in [initial : Nat, max : Limits], NEW c \in Commands,
           MemoryErrors(b, c) = {}, c.fixed, c.initial # None, c.max # None
    PROVE  b.initial = c.initial /\ b.max = c.max
  <1>1. ~Differs(c.initial, b.initial) /\ ~Growable(b)
    BY DEF MemoryErrors
  <1>2. b.max # None
    BY <1>1 DEF Growable
  <1>3. ~Differs(c.max, b.max)
    BY <1>2 DEF MemoryErrors
  <1> QED BY <1>1, <1>3 DEF Differs

LEMMA ElementInRange ==
    ASSUME NEW S, NEW s \in Seq(S), NEW i \in 1..Len(s)
    PROVE  s[i] \in S
  OBVIOUS

LEMMA NextMemory ==
    ASSUME TypeOK, MemoryFixed, [Next]_vars
    PROVE  MemoryFixed'
  <1>1. ASSUME NEW p \in Procs, ReadModule(p) PROVE MemoryFixed'
    <2> SUFFICES ASSUME NEW q \in Procs, pc'[q] \in {"call", "output"}, cmd'[q].fixed,
                        cmd'[q].initial # None, cmd'[q].max # None
                 PROVE  /\ Builds[ran'[q]].initial = cmd'[q].initial
                        /\ Builds[ran'[q]].max = cmd'[q].max
      BY DEF MemoryFixed
    <2>1. CASE q # p
      BY <1>1, <2>1 DEF ReadModule, Goto, TypeOK, MemoryFixed
    <2>2. CASE q = p
      <3>1. /\ module # 0 /\ ran'[p] = module /\ cmd' = cmd
            /\ MemoryErrors(Builds[module], cmd[p]) = {}
        BY <1>1, <2>2 DEF ReadModule, Goto, TypeOK
      <3>2. module \in 1..Len(Builds)
        BY <3>1, ConstantsAssumption DEF TypeOK, Modules
      <3>3. Builds[module] \in [initial : Nat, max : Limits]
        <4>1. Builds \in Seq([initial : Nat, max : Limits])
          BY ConstantsAssumption
        <4> QED BY <3>2, <4>1, ElementInRange
      <3>4. cmd[p] \in Commands
        BY DEF TypeOK
      <3> QED BY <2>2, <3>1, <3>3, <3>4, NoMemoryErrors
    <2> QED BY <2>1, <2>2
  <1>2. ASSUME NEW p \in Procs, CallReturns(p) PROVE MemoryFixed'
    BY <1>2 DEF CallReturns, Goto, TypeOK, MemoryFixed
  <1>3. ASSUME NEW p \in Procs, NEW w \in {"read", "collect", "bundle", "emit", "done"}, Goto(p, w),
               UNCHANGED <<ran, cmd>>
        PROVE  MemoryFixed'
    BY <1>3 DEF Goto, TypeOK, MemoryFixed
  <1>4. CASE UNCHANGED <<pc, ran, cmd>>
    BY <1>4 DEF MemoryFixed
  <1> QED BY <1>1, <1>2, <1>3, <1>4
          DEF Next, vars, Rebuild, WriteManifest, Start, SetupFails, CallFails, OpenOutput, FillOutput,
              OutputFails, PrintOutput, Collect, OpenBundleFile, FillBundleFile, LoseBundle,
              EmitReport, Kill, Rest

\* With all three expectations given, as in the shipped profiles, a module that
\* is called has a memory fixed at what they say (run.rs:143-236).
THEOREM MemoryIsFixed == Spec => []MemoryFixed
  <1>1. Init => TypeOK /\ MemoryFixed
    BY InitType DEF Init, MemoryFixed
  <1>2. TypeOK /\ MemoryFixed /\ [Next]_vars => TypeOK' /\ MemoryFixed'
    BY NextType, NextMemory
  <1> QED BY <1>1, <1>2, PTL DEF Spec
=============================================================================
