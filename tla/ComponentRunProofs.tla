------------------------- MODULE ComponentRunProofs -------------------------
(***************************************************************************)
(* The safety properties of ComponentRun for any number of invocations,    *)
(* command lines, components and pipes.                                    *)
(***************************************************************************)
EXTENDS ComponentRun, SequenceTheorems, TLAPS

\* The exit code is 0 exactly when no diagnostic is an error.
LEMMA ExitCodeFacts ==
    ASSUME NEW ds
    PROVE  /\ ExitCodeOf(ds) \in {0, 1, 2, 3, 4}
           /\ ExitCodeOf(ds) = 0 <=> Errors(ds) = {}
  BY DEF ExitCodeOf

\* What the host makes of stderr is errors only, and none exactly when there
\* is no sentinel line.
LEMMA SentinelFacts ==
    ASSUME NEW err
    PROVE  /\ \A d \in SentinelDiags(err) : d.severity = "error"
           /\ SentinelDiags(err) = {} => At(Scanned(err), CodeLines \cup DataLines) = {}
  <1>1. \A c : GuestDiag(c).severity = "error"
    BY DEF GuestDiag, Error, Diag
  <1>2. HostDiag.severity = "error"
    BY DEF HostDiag, Error, Diag
  <1>3. \A d \in SentinelDiags(err) : d.severity = "error"
    BY <1>1, <1>2 DEF SentinelDiags
  <1>4. ASSUME SentinelDiags(err) = {}
        PROVE  At(Scanned(err), CodeLines \cup DataLines) = {}
    <2>1. ~Malformed(Scanned(err))
      BY <1>4 DEF SentinelDiags
    <2>2. At(Scanned(err), CodeLines) = {}
      BY <1>4, <2>1 DEF SentinelDiags
    <2>3. At(Scanned(err), DataLines) = {}
      BY <2>1, <2>2 DEF Malformed
    <2> QED BY <2>2, <2>3 DEF At
  <1> QED BY <1>3, <1>4

\* The errors of the pipeline are errors, its warning is not.
LEMMA DiagForms ==
    /\ BundleLost.severity = "warning"
    /\ \A d \in WriteErrors : d.severity = "error"
    /\ \A d \in SetupErrors : d.severity = "error"
  BY DEF BundleLost, WriteErrors, SetupErrors, Error, Warning, Diag

\* What a bundle is made of.
Listed == {"manifest", "stdin"} \cup (IF stdout > 0 THEN {"stdout"} ELSE {})
                                \cup (IF stderr # <<>> THEN {"stderr"} ELSE {})

LEMMA BundleForm ==
    /\ Bundle \in Seq(BundleFiles) /\ Bundle # <<>>
    /\ \A f \in Listed : \E i \in 1..Len(Bundle) : Bundle[i] = f
  <1> DEFINE a == IF stdout > 0 THEN <<"stdout">> ELSE <<>>
             b == IF stderr # <<>> THEN <<"stderr">> ELSE <<>>
             h == <<"manifest", "stdin">>
  <1>1. h \in Seq(BundleFiles) /\ a \in Seq(BundleFiles) /\ b \in Seq(BundleFiles)
    <2>1. {"manifest", "stdin", "stdout", "stderr"} \subseteq BundleFiles
      BY DEF BundleFiles
    <2> HIDE DEF BundleFiles
    <2>2. \A x \in BundleFiles : <<x>> \in Seq(BundleFiles)
      OBVIOUS
    <2>3. <<>> \in Seq(BundleFiles)
      OBVIOUS
    <2>4. \A x, y \in BundleFiles : <<x, y>> \in Seq(BundleFiles)
      OBVIOUS
    <2> QED BY <2>1, <2>2, <2>3, <2>4
  <1>2. Len(h) = 2 /\ h[1] = "manifest" /\ h[2] = "stdin"
    OBVIOUS
  <1>3. /\ stdout > 0 => Len(a) = 1 /\ a[1] = "stdout"
        /\ stderr # <<>> => Len(b) = 1 /\ b[1] = "stderr"
        /\ Len(a) \in {0, 1} /\ Len(b) \in {0, 1}
    OBVIOUS
  <1>4. Bundle = (h \o a) \o b
    BY DEF Bundle
  <1> HIDE DEF a, b, h
  <1>5. /\ h \o a \in Seq(BundleFiles) /\ Len(h \o a) = 2 + Len(a)
        /\ (h \o a)[1] = "manifest" /\ (h \o a)[2] = "stdin"
        /\ Len(a) = 1 => (h \o a)[3] = a[1]
    BY <1>1, <1>2, <1>3, ConcatProperties
  <1>6. /\ Bundle \in Seq(BundleFiles) /\ Len(Bundle) = 2 + Len(a) + Len(b)
        /\ Bundle[1] = "manifest" /\ Bundle[2] = "stdin"
        /\ Len(a) = 1 => Bundle[3] = a[1]
        /\ Len(b) = 1 => Bundle[3 + Len(a)] = b[1]
    BY <1>1, <1>3, <1>4, <1>5, ConcatProperties
  <1>7. ASSUME NEW f \in Listed PROVE \E i \in 1..Len(Bundle) : Bundle[i] = f
    <2>1. CASE f \in {"manifest", "stdin"}
      BY <2>1, <1>3, <1>6
    <2>2. CASE stdout > 0 /\ f = "stdout"
      BY <2>2, <1>3, <1>6
    <2>3. CASE stderr # <<>> /\ f = "stderr"
      <3>1. 3 + Len(a) \in 1..Len(Bundle) /\ Bundle[3 + Len(a)] = f
        BY <2>3, <1>3, <1>6
      <3> QED BY <3>1
    <2> QED BY <2>1, <2>2, <2>3 DEF Listed
  <1> QED BY <1>3, <1>6, <1>7

-----------------------------------------------------------------------------
(* Types.                                                                  *)

LEMMA ContentForms ==
    ASSUME TypeOK
    PROVE  Own \in Contents /\ Torn \in Contents /\ Own.of = this /\ Torn.of = this
  BY ConstantsAssumption DEF TypeOK, Own, Torn, Contents, Runs, this

LEMMA ElementInRange ==
    ASSUME NEW S, NEW s \in Seq(S), NEW i \in 1..Len(s)
    PROVE  s[i] \in S
  OBVIOUS

\* The invocation under way.
LEMMA ThisForm ==
    ASSUME TypeOK, pc # "idle"
    PROVE  started[this] \in [cmd : Commands, component : Deployments]
  <1>1. this \in 1..Len(started)
    BY DEF TypeOK, this
  <1> QED BY <1>1, ElementInRange DEF TypeOK

LEMMA KeyForm == ASSUME TypeOK, pc # "idle" PROVE Key \in Keys
  <1> QED BY ThisForm DEF TypeOK, Key, Keys

\* What the command line says of the output files.
LEMMA CommandForm ==
    ASSUME TypeOK, pc # "idle"
    PROVE  cmd \in Commands /\ cmd.out \in Paths \cup {None} /\ cmd.err \in Paths \cup {None}
  <1> QED BY ThisForm, ConstantsAssumption DEF cmd

LEMMA InitType == Init => TypeOK
  <1> SUFFICES ASSUME Init PROVE TypeOK
    OBVIOUS
  <1>1. Absent \in Contents
    BY ConstantsAssumption DEF Absent, Contents, Runs
  <1>2. /\ files \in [Paths -> Contents]
        /\ bundles \in [Keys -> [BundleFiles -> Contents]]
    BY <1>1 DEF Init
  <1>3. started \in Seq([cmd : Commands, component : Deployments]) /\ this <= MaxRuns
    BY ConstantsAssumption DEF Init, this
  <1>4. /\ stdout \in 0..OutputCap /\ stderr \in Seq(Lines) /\ Len(stderr) <= OutputCap
        /\ todo \in Seq(BundleFiles) /\ pc = "idle"
    BY ConstantsAssumption DEF Init
  <1> QED BY <1>2, <1>3, <1>4 DEF Init, TypeOK

\* A file that is written has a known writer.
LEMMA WriteForms ==
    ASSUME TypeOK, NEW c \in Contents, NEW k \in Keys, NEW f \in BundleFiles
    PROVE  [bundles EXCEPT ![k][f] = c] \in [Keys -> [BundleFiles -> Contents]]
  <1>1. bundles \in [Keys -> [BundleFiles -> Contents]]
    BY DEF TypeOK
  <1> HIDE DEF Keys, BundleFiles, Contents
  <1> QED BY <1>1

LEMMA OutputForms ==
    ASSUME TypeOK, NEW c \in Contents, NEW p \in Paths
    PROVE  [files EXCEPT ![p] = c] \in [Paths -> Contents]
  BY DEF TypeOK

LEMMA StartType == TypeOK /\ Start => TypeOK'
  <1> SUFFICES ASSUME TypeOK, Start PROVE TypeOK'
    OBVIOUS
  <1>1. PICK c \in Commands :
          /\ started' = Append(started, [cmd |-> c, component |-> deployed])
          /\ IF c.input = Invalid THEN pc' = "idle" /\ exit' = 2
                                  ELSE pc' = "compile" /\ exit' = 9
    BY DEF Start
  <1>2. [cmd |-> c, component |-> deployed] \in [cmd : Commands, component : Deployments]
    BY DEF TypeOK
  <1>3. /\ started' \in Seq([cmd : Commands, component : Deployments])
        /\ Len(started') = Len(started) + 1
        /\ started'[Len(started')] = [cmd |-> c, component |-> deployed]
    BY <1>1, <1>2 DEF TypeOK
  <1>4. c.input \in Inputs \cup {Invalid}
    BY ConstantsAssumption
  <1>5. this' > 0 /\ this' <= MaxRuns /\ cmd' = c
    BY <1>3, ConstantsAssumption DEF Start, TypeOK, this, cmd
  <1>6. /\ pc' \in {"idle", "compile"} /\ exit' \in {2, 9}
        /\ pc' # "idle" => c.input \in Inputs
    BY <1>1, <1>4
  <1>7. /\ outcome' = "none" /\ stdout' \in 0..OutputCap /\ cut' = FALSE /\ incident' = FALSE
        /\ stderr' \in Seq(Lines) /\ Len(stderr') <= OutputCap /\ todo' \in Seq(BundleFiles)
    BY ConstantsAssumption DEF Start
  <1>8. UNCHANGED <<deployed, files, bundles>>
    BY DEF Start
  <1> QED BY <1>3, <1>5, <1>6, <1>7, <1>8 DEF TypeOK

LEMMA NextType == TypeOK /\ [Next]_vars => TypeOK'
  <1> SUFFICES ASSUME TypeOK, [Next]_vars PROVE TypeOK'
    OBVIOUS
  <1> USE DEF this, cmd
  <1>1. CASE Deploy
    BY <1>1 DEF Deploy, TypeOK
  <1>2. CASE Start
    BY <1>2, StartType
  <1>3. CASE SetupFails
    BY <1>3 DEF SetupFails, TypeOK
  <1>4. CASE Compile
    BY <1>4 DEF Compile, TypeOK
  <1>5. CASE WriteStdout
    BY <1>5, ConstantsAssumption DEF WriteStdout, TypeOK
  <1>6. CASE WriteStderr
    <2>1. CASE Len(stderr) < OutputCap
      <3>1. PICK l \in Lines : stderr' = Append(stderr, l) /\ cut' = cut
        BY <1>6, <2>1 DEF WriteStderr
      <3>2. stderr \in Seq(Lines) /\ OutputCap \in Nat
        BY ConstantsAssumption DEF TypeOK
      <3>3. stderr' \in Seq(Lines) /\ Len(stderr') <= OutputCap
        BY <2>1, <3>1, <3>2
      <3> QED BY <3>1, <3>3, <1>6 DEF WriteStderr, TypeOK
    <2>2. CASE ~(Len(stderr) < OutputCap)
      BY <1>6, <2>2 DEF WriteStderr, TypeOK
    <2> QED BY <2>1, <2>2
  <1>7. ASSUME NEW how \in {"ok", "err", "timeout", "trap"}, NEW ds, Conclude(how, ds)
        PROVE  TypeOK'
    BY <1>7, BundleForm DEF Conclude, TypeOK
  <1>8. CASE WriteBundle
    <2>1. Key \in Keys /\ Own \in Contents /\ Head(todo) \in BundleFiles
          /\ Tail(todo) \in Seq(BundleFiles)
      BY <1>8, KeyForm, ContentForms DEF WriteBundle, TypeOK
    <2> QED BY <2>1, <1>8 DEF WriteBundle, TypeOK
  <1>9. CASE LoseBundle
    <2>1. Key \in Keys /\ Torn \in Contents /\ Head(todo) \in BundleFiles
      BY <1>9, KeyForm, ContentForms DEF LoseBundle, TypeOK
    <2>2. bundles' \in [Keys -> [BundleFiles -> Contents]]
      <3>1. [bundles EXCEPT ![Key][Head(todo)] = Torn] \in [Keys -> [BundleFiles -> Contents]]
        BY <2>1, WriteForms
      <3> QED BY <3>1, <1>9 DEF LoseBundle, TypeOK
    <2> QED BY <2>2, <1>9 DEF LoseBundle, TypeOK
  <1>10. ASSUME NEW path \in Paths, NEW next \in {"stderr", "emit"}, Deliver(path, next)
         PROVE  files' \in [Paths -> Contents] /\ pc' = next
    BY <1>10, ContentForms DEF Deliver, TypeOK
  <1>11. CASE DeliverStdout
    <2>1. files' \in [Paths -> Contents] /\ pc' = "stderr"
      BY <1>11, <1>10, CommandForm DEF DeliverStdout, TypeOK
    <2> QED BY <2>1, <1>11 DEF DeliverStdout, TypeOK
  <1>12. CASE DeliverStderr
    <2>1. files' \in [Paths -> Contents] /\ pc' = "emit"
      BY <1>12, <1>10, CommandForm DEF DeliverStderr, TypeOK
    <2> QED BY <2>1, <1>12 DEF DeliverStderr, TypeOK
  <1>13. CASE EmitReport
    <2>1. Key \in Keys /\ Own \in Contents
      BY <1>13, KeyForm, ContentForms DEF EmitReport
    <2>2. bundles' \in [Keys -> [BundleFiles -> Contents]]
      <3>1. "report" \in BundleFiles
        BY DEF BundleFiles
      <3>2. [bundles EXCEPT ![Key]["report"] = Own] \in [Keys -> [BundleFiles -> Contents]]
        BY <2>1, <3>1, WriteForms
      <3> QED BY <3>2, <1>13 DEF EmitReport, TypeOK
    <2>3. exit' \in {0, 1, 2, 3, 4}
      BY <1>13, ExitCodeFacts DEF EmitReport
    <2> QED BY <2>2, <2>3, <1>13 DEF EmitReport, TypeOK
  <1>14. CASE Kill
    <2>1. /\ Key \in Keys /\ Torn \in Contents
          /\ cmd.out \in Paths \cup {None} /\ cmd.err \in Paths \cup {None}
          /\ pc = "bundle" => Head(todo) \in BundleFiles
      BY <1>14, KeyForm, ContentForms, CommandForm DEF Kill, TypeOK
    <2> HIDE DEF cmd
    <2>2. files' \in [Paths -> Contents] /\ bundles' \in [Keys -> [BundleFiles -> Contents]]
      <3>0. files \in [Paths -> Contents] /\ bundles \in [Keys -> [BundleFiles -> Contents]]
        BY DEF TypeOK
      <3>1. CASE UNCHANGED <<files, bundles>>
        BY <3>0, <3>1
      <3>2. CASE pc = "bundle" /\ bundles' = [bundles EXCEPT ![Key][Head(todo)] = Torn]
                 /\ UNCHANGED files
        <4>1. [bundles EXCEPT ![Key][Head(todo)] = Torn] \in [Keys -> [BundleFiles -> Contents]]
          BY <3>2, <2>1, WriteForms
        <4> QED BY <4>1, <3>0, <3>2
      <3>3. CASE cmd.out # None /\ files' = [files EXCEPT ![cmd.out] = Torn] /\ UNCHANGED bundles
        <4>1. cmd.out \in Paths
          BY <3>3, <2>1
        <4>2. [files EXCEPT ![cmd.out] = Torn] \in [Paths -> Contents]
          BY <4>1, <2>1, OutputForms
        <4> QED BY <4>2, <3>0, <3>3
      <3>4. CASE cmd.err # None /\ files' = [files EXCEPT ![cmd.err] = Torn] /\ UNCHANGED bundles
        <4>1. cmd.err \in Paths
          BY <3>4, <2>1
        <4>2. [files EXCEPT ![cmd.err] = Torn] \in [Paths -> Contents]
          BY <4>1, <2>1, OutputForms
        <4> QED BY <4>2, <3>0, <3>4
      <3> QED BY <3>1, <3>2, <3>3, <3>4, <1>14 DEF Kill
    <2>3. /\ outcome' = "none" /\ stdout' \in 0..OutputCap /\ cut' = FALSE /\ incident' = FALSE
          /\ stderr' \in Seq(Lines) /\ Len(stderr') <= OutputCap /\ todo' \in Seq(BundleFiles)
          /\ pc' = "idle" /\ exit' = 9 /\ UNCHANGED <<deployed, started>>
      BY <1>14, ConstantsAssumption DEF Kill
    <2> QED BY <2>2, <2>3 DEF TypeOK
  <1>15. CASE UNCHANGED vars
    BY <1>15 DEF vars, TypeOK
  <1> QED BY <1>1, <1>2, <1>3, <1>4, <1>5, <1>6, <1>7, <1>8, <1>9, <1>11, <1>12, <1>13, <1>14, <1>15
          DEF Next, Returns, ExitsErr, TimesOut, Traps, Rest

\* The variables of ComponentRun keep their types, and a stage that reads a
\* file of the bundle has one left to write (run.rs:605-626).
THEOREM TypeCorrect == Spec => []TypeOK
  BY InitType, NextType, PTL DEF Spec

-----------------------------------------------------------------------------
(* Outcome, exit code and output files.                                    *)

\* A full pipe is what cuts a write.
CutAtCap ==
    /\ pc = "compile" => ~cut
    /\ pc = "guest" /\ cut => OutputCap \in {stdout, Len(stderr)}

\* What the diagnostics say once the guest has ended, and that a command
\* without an outcome has an error to report.
Concluded ==
    /\ pc \in {"compile", "guest"} => outcome = "none"
    /\ pc \in {"bundle", "stdout", "stderr"} => outcome # "none"
    /\ outcome # "none" =>
          /\ SentinelDiags(stderr) \subseteq diags
          /\ outcome # "ok" => HasError(diags)
          /\ outcome = "trap" /\ OutputCap > 0 /\ cut => OutputOver \in diags
    /\ pc = "emit" /\ outcome = "none" => HasError(diags)

\* How far the output files are this run's own, unless there is an error.
Delivered ==
    /\ pc # "idle" => exit = 9
    /\ pc = "idle" /\ exit = 0 => outcome # "none"
    /\ pc = "idle" /\ exit = 0 => ~HasError(diags)
    /\ pc \in {"stderr", "emit"} /\ ~HasError(diags) /\ cmd.out # None =>
          files[cmd.out] = Own
    /\ pc = "emit" /\ ~HasError(diags) /\ cmd.err # None => files[cmd.err] = Own
    /\ pc = "idle" /\ exit = 0 =>
          /\ cmd.out # None => files[cmd.out] = Own
          /\ cmd.err # None => files[cmd.err] = Own

\* Once the bundle is behind, an error of the run has one or a warning.
Recorded ==
    pc # "bundle" /\ outcome # "none" /\ Errors(diags) \ WriteErrors # {} =>
        incident \/ BundleLost \in diags

RInv == TypeOK /\ CutAtCap /\ Concluded /\ Delivered /\ Recorded

\* An error that is added is an error of the whole, and none is ever taken away.
LEMMA ErrorFacts ==
    ASSUME NEW ds, NEW es, ds \subseteq es
    PROVE  /\ Errors(ds) \subseteq Errors(es)
           /\ HasError(ds) => HasError(es)
           /\ \A d \in es : d.severity = "error" => HasError(es)
  BY DEF Errors, HasError

\* Every outcome of the guest but "ok" comes with its error, and one with cut
\* output with that of the output budget.
LEMMA EndForms ==
    ASSUME CutAtCap, pc = "guest",
           Returns \/ ExitsErr \/ TimesOut \/ Traps
    PROVE  \E how \in {"ok", "err", "timeout", "trap"} : \E ds :
              /\ Conclude(how, ds)
              /\ how # "ok" => \E d \in ds : d.severity = "error"
              /\ how = "trap" /\ OutputCap > 0 /\ cut => OutputOver \in ds
  <1>1. CASE Returns
    BY <1>1 DEF Returns
  <1>2. CASE ExitsErr
    BY <1>2 DEF ExitsErr, Error, Diag
  <1>3. CASE TimesOut
    BY <1>3 DEF TimesOut, Error, Diag
  <1>4. ASSUME NEW cause \in {BudgetOver, Trapped}, NEW beyond \in BOOLEAN,
               Conclude("trap", TrapDiags(cause, beyond))
        PROVE  \E how \in {"ok", "err", "timeout", "trap"} : \E ds :
                  /\ Conclude(how, ds)
                  /\ how # "ok" => \E d \in ds : d.severity = "error"
                  /\ how = "trap" /\ OutputCap > 0 /\ cut => OutputOver \in ds
    <2>1. cause \in TrapDiags(cause, beyond) /\ cause.severity = "error"
      BY DEF TrapDiags, BudgetOver, Trapped, Error, Diag
    <2>2. OutputCap > 0 /\ cut => OutputOver \in TrapDiags(cause, beyond)
      BY DEF CutAtCap, TrapDiags, AtCap
    <2> QED BY <1>4, <2>1, <2>2
  <1> QED BY <1>1, <1>2, <1>3, <1>4 DEF Traps

LEMMA InitRun == Init => RInv
  BY InitType DEF Init, RInv, CutAtCap, Concluded, Delivered, Recorded

LEMMA ConcludeRun ==
    ASSUME RInv, NEW how \in {"ok", "err", "timeout", "trap"}, NEW ds, Conclude(how, ds),
           how # "ok" => \E d \in ds : d.severity = "error",
           how = "trap" /\ OutputCap > 0 /\ cut => OutputOver \in ds
    PROVE  CutAtCap' /\ Concluded' /\ Delivered' /\ Recorded'
  <1>1. /\ pc' = IF ReportOk(diags') THEN "stdout" ELSE "bundle"
        /\ outcome' = how /\ diags' = diags \cup ds \cup SentinelDiags(stderr)
        /\ UNCHANGED <<started, stdout, stderr, cut, files, exit>>
        /\ pc = "guest"
    BY DEF Conclude
  <1>2. HasError(ds) => HasError(diags')
    BY <1>1, ErrorFacts
  <1>3. how # "ok" => HasError(diags')
    BY <1>2 DEF HasError, Errors
  <1>4. CutAtCap'
    BY <1>1 DEF CutAtCap
  <1>5. Concluded'
    BY <1>1, <1>3 DEF Concluded
  <1>6. Delivered'
    BY <1>1 DEF RInv, Delivered
  <1>7. Recorded'
    BY <1>1 DEF Recorded, ReportOk, HasError
  <1> QED BY <1>4, <1>5, <1>6, <1>7

LEMMA DeliverRun ==
    ASSUME RInv, DeliverStdout \/ DeliverStderr
    PROVE  CutAtCap' /\ Concluded' /\ Delivered' /\ Recorded'
  <1>1. /\ UNCHANGED <<started, outcome, stdout, stderr, cut, todo, incident, bundles, exit>>
        /\ pc \in {"stdout", "stderr"} /\ pc' \in {"stderr", "emit"} /\ cmd' = cmd /\ Own' = Own
    BY DEF DeliverStdout, DeliverStderr, Deliver, cmd, Own, this
  <1>2. /\ diags \subseteq diags' /\ diags' \ diags \subseteq WriteErrors
        /\ diags' = diags \/ HasError(diags')
    <2>1. ASSUME NEW path, NEW next, Deliver(path, next)
          PROVE  \/ diags' = diags
                 \/ \E d \in WriteErrors : diags' = diags \cup {d}
      BY <2>1 DEF Deliver
    <2>2. diags' = diags \/ \E d \in WriteErrors : diags' = diags \cup {d}
      BY <2>1 DEF DeliverStdout, DeliverStderr
    <2> QED BY <2>2, DiagForms DEF HasError, Errors
  <1>3. HasError(diags) => HasError(diags')
    BY <1>2, ErrorFacts
  <1>4. CutAtCap' /\ Concluded'
    BY <1>1, <1>2, <1>3 DEF RInv, CutAtCap, Concluded
  <1>5. Recorded'
    BY <1>1, <1>2 DEF RInv, Recorded, Errors
  <1>6. Delivered'
    <2>1. CASE HasError(diags')
      BY <1>1, <2>1 DEF RInv, Delivered
    <2>2. CASE ~HasError(diags')
      <3>1. diags' = diags /\ ~HasError(diags)
        BY <1>2, <2>2
      <3>2. cmd \in Commands /\ cmd.out \in Paths \cup {None} /\ cmd.err \in Paths \cup {None}
        BY <1>1, CommandForm DEF RInv
      <3>3. ASSUME NEW path, NEW next, Deliver(path, next)
            PROVE  files' = [files EXCEPT ![path] = Own]
        <4>1. ASSUME NEW d \in WriteErrors, diags' = diags \cup {d}
              PROVE  FALSE
          BY <4>1, <2>2, DiagForms DEF HasError, Errors
        <4> QED BY <3>3, <4>1 DEF Deliver
      <3>4. CASE DeliverStdout
        BY <1>1, <3>1, <3>2, <3>3, <3>4 DEF DeliverStdout, Deliver, RInv, Delivered, TypeOK
      <3>5. CASE DeliverStderr
        BY <1>1, <3>1, <3>2, <3>3, <3>5 DEF DeliverStderr, Deliver, RInv, Delivered, TypeOK
      <3> QED BY <3>4, <3>5
    <2> QED BY <2>1, <2>2
  <1> QED BY <1>4, <1>5, <1>6

LEMMA NextRun == RInv /\ [Next]_vars => RInv'
  <1> SUFFICES ASSUME RInv, [Next]_vars
               PROVE  CutAtCap' /\ Concluded' /\ Delivered' /\ Recorded'
    BY NextType DEF RInv
  <1> USE DEF RInv
  <1>1. CASE Deploy
    BY <1>1 DEF Deploy, CutAtCap, Concluded, Delivered, Recorded, cmd, Own, this
  <1>2. CASE Start
    <2>1. /\ pc' \in {"idle", "compile"} /\ outcome' = "none" /\ cut' = FALSE
          /\ pc' = "idle" => exit' = 2
          /\ pc' # "idle" => exit' = 9
      BY <1>2 DEF Start
    <2> QED BY <2>1 DEF CutAtCap, Concluded, Delivered, Recorded
  <1>3. CASE SetupFails
    <2>1. /\ pc = "compile" /\ pc' = "emit" /\ HasError(diags')
          /\ UNCHANGED <<started, outcome, stdout, stderr, cut, files, exit>>
      BY <1>3, DiagForms DEF SetupFails, HasError, Errors
    <2> QED BY <2>1 DEF CutAtCap, Concluded, Delivered, Recorded
  <1>4. CASE Compile
    <2>1. cut = cut' /\ pc = "compile"
      BY <1>4 DEF Compile
    <2> QED BY <1>4, <2>1 DEF Compile, CutAtCap, Concluded, Delivered, Recorded
  <1>5. CASE WriteStdout
    BY <1>5, ConstantsAssumption DEF WriteStdout, CutAtCap, Concluded, Delivered, Recorded, TypeOK
  <1>6. CASE WriteStderr
    BY <1>6, ConstantsAssumption DEF WriteStderr, CutAtCap, Concluded, Delivered, Recorded, TypeOK
  <1>7. CASE Returns \/ ExitsErr \/ TimesOut \/ Traps
    <2>1. pc = "guest"
      BY <1>7 DEF Returns, ExitsErr, TimesOut, Traps, Conclude
    <2> QED BY <1>7, <2>1, EndForms, ConcludeRun
  <1>8. CASE WriteBundle
    <2>1. /\ pc = "bundle" /\ pc' \in {"bundle", "stdout"} /\ (pc' = "stdout" => incident')
          /\ UNCHANGED <<started, diags, outcome, stdout, stderr, cut, files, exit>>
      BY <1>8 DEF WriteBundle
    <2> QED BY <2>1 DEF CutAtCap, Concluded, Delivered, Recorded
  <1>9. CASE LoseBundle
    <2>1. /\ pc = "bundle" /\ pc' = "stdout" /\ diags' = diags \cup {BundleLost}
          /\ UNCHANGED <<started, outcome, stdout, stderr, cut, files, exit>>
      BY <1>9 DEF LoseBundle
    <2>2. HasError(diags) => HasError(diags')
      BY <2>1, ErrorFacts
    <2> QED BY <2>1, <2>2 DEF CutAtCap, Concluded, Delivered, Recorded
  <1>10. CASE DeliverStdout \/ DeliverStderr
    BY <1>10, DeliverRun
  <1>11. CASE EmitReport
    <2>1. /\ pc = "emit" /\ pc' = "idle" /\ cmd' = cmd /\ Own' = Own
          /\ exit' = ExitCodeOf(diags) \/ exit' = 2
          /\ UNCHANGED <<started, diags, outcome, stdout, stderr, cut, incident, files>>
      BY <1>11 DEF EmitReport, cmd, Own, this
    <2>2. exit' = 0 => ~HasError(diags)
      BY <2>1, ExitCodeFacts DEF HasError
    <2> QED BY <2>1, <2>2 DEF CutAtCap, Concluded, Delivered, Recorded
  <1>12. CASE Kill
    BY <1>12 DEF Kill, CutAtCap, Concluded, Delivered, Recorded
  <1>13. CASE UNCHANGED vars
    BY <1>13 DEF vars, CutAtCap, Concluded, Delivered, Recorded, cmd, Own, this
  <1> QED BY <1>1, <1>2, <1>3, <1>4, <1>5, <1>6, <1>7, <1>8, <1>9, <1>10, <1>11, <1>12, <1>13
          DEF Next, Rest

\* Exit code 0 means that the guest returned Ok without a sentinel line, and
\* that this run's output is in the files asked for (run.rs:385-452).
THEOREM SuccessIsDelivered == Spec => []SuccessDelivered
  <1>1. RInv => SuccessDelivered
    <2> SUFFICES ASSUME RInv, pc = "idle", exit = 0
                 PROVE  /\ outcome = "ok"
                        /\ At(Scanned(stderr), CodeLines \cup DataLines) = {}
                        /\ cmd.err # None => files[cmd.err] = Own
                        /\ cmd.out # None => files[cmd.out] = Own
      BY DEF SuccessDelivered
    <2>1. ~HasError(diags) /\ outcome # "none" /\ SentinelDiags(stderr) \subseteq diags
      BY DEF RInv, Delivered, Concluded
    <2>2. SentinelDiags(stderr) = {}
      BY <2>1, SentinelFacts, ErrorFacts
    <2>3. At(Scanned(stderr), CodeLines \cup DataLines) = {}
      BY <2>2, SentinelFacts
    <2> QED BY <2>1, <2>3 DEF RInv, Delivered, Concluded
  <1> QED BY <1>1, InitRun, NextRun, PTL DEF Spec

\* An error of the run leaves its bundle or the warning that it could not be
\* written (run.rs:388-410).
THEOREM FailuresRecorded == Spec => []FailureRecorded
  <1>1. RInv => FailureRecorded
    BY DEF RInv, Recorded, FailureRecorded
  <1> QED BY <1>1, InitRun, NextRun, PTL DEF Spec

\* A guest that trapped after output of it was cut is reported to have exceeded
\* the output budget (run.rs:306-331).
THEOREM OverflowIsReported == Spec => []OverflowReported
  <1>1. RInv => OverflowReported
    BY DEF RInv, Concluded, OverflowReported
  <1> QED BY <1>1, InitRun, NextRun, PTL DEF Spec

-----------------------------------------------------------------------------
(* Incident bundles.                                                       *)

\* No file of a bundle is of a run to come, and each is of a run with the
\* component and the stdin of its directory.
Caused ==
    /\ BundlesKeepCause
    /\ \A k \in Keys, f \in BundleFiles : bundles[k][f].of <= this

\* The files of the bundle still to write, and this run's own.
Filed ==
    /\ pc \in {"compile", "guest", "bundle"} => ~incident
    /\ pc = "bundle" =>
          \A f \in Listed : bundles[Key][f] = Own \/ \E i \in 1..Len(todo) : todo[i] = f
    /\ incident => \A f \in Listed : bundles[Key][f] = Own

BInv == TypeOK /\ Caused /\ Filed

LEMMA InitBundles == Init => BInv
  <1> SUFFICES ASSUME Init PROVE Caused /\ Filed
    BY InitType DEF BInv
  <1>1. Filed
    BY DEF Init, Filed
  <1>2. \A k \in Keys, f \in BundleFiles : bundles[k][f].of = 0
    BY DEF Init, Absent
  <1>3. DOMAIN started = {} /\ this = 0
    BY DEF Init, this
  <1> QED BY <1>1, <1>2, <1>3 DEF Caused, BundlesKeepCause

\* Only this run's directory is written to, and only by this run.
LEMMA BundleWrites ==
    ASSUME BInv, [Next]_vars, ~Start
    PROVE  /\ started' = started
           /\ \A k \in Keys, f \in BundleFiles :
                 \/ bundles'[k][f] = bundles[k][f]
                 \/ pc # "idle" /\ k = Key /\ bundles'[k][f].of = this
  <1> USE DEF BInv
  <1>1. CASE WriteBundle
    <2>1. Own.of = this /\ pc = "bundle"
      BY <1>1, ContentForms DEF WriteBundle
    <2> QED BY <1>1, <2>1 DEF WriteBundle, TypeOK
  <1>2. CASE LoseBundle
    <2>1. Torn.of = this /\ pc = "bundle"
      BY <1>2, ContentForms DEF LoseBundle
    <2> QED BY <1>2, <2>1 DEF LoseBundle, TypeOK
  <1>3. CASE EmitReport
    <2>1. Own.of = this /\ pc = "emit"
      BY <1>3, ContentForms DEF EmitReport
    <2> QED BY <1>3, <2>1 DEF EmitReport, TypeOK
  <1>4. CASE Kill
    <2>1. Torn.of = this
      BY ContentForms
    <2> QED BY <1>4, <2>1 DEF Kill, TypeOK
  <1>5. CASE UNCHANGED <<started, bundles>>
    BY <1>5
  <1> QED BY <1>1, <1>2, <1>3, <1>4, <1>5
          DEF Next, vars, Deploy, SetupFails, Compile, WriteStdout, WriteStderr, Returns, ExitsErr,
              TimesOut, Traps, Conclude, DeliverStdout, DeliverStderr, Rest

LEMMA NextCaused == BInv /\ [Next]_vars => Caused'
  <1> SUFFICES ASSUME BInv, [Next]_vars PROVE Caused'
    OBVIOUS
  <1>1. CASE Start
    <2>1. PICK c \in Commands : started' = Append(started, [cmd |-> c, component |-> deployed])
      BY <1>1 DEF Start
    <2>2. /\ DOMAIN started' = 1..(this + 1) /\ this' = this + 1 /\ this \in Nat
          /\ DOMAIN started = 1..this
          /\ \A i \in 1..this : started'[i] = started[i]
      BY <2>1 DEF BInv, TypeOK, this
    <2>3. bundles' = bundles
      BY <1>1 DEF Start
    <2>4. \A k \in Keys, f \in BundleFiles : bundles[k][f].of \in Nat
      BY ConstantsAssumption DEF BInv, TypeOK, Contents, Runs
    <2>5. ASSUME NEW k \in Keys, NEW f \in BundleFiles, NEW i \in DOMAIN started',
                 bundles'[k][f].of = i
          PROVE  started'[i].component = k.component /\ started'[i].cmd.input = k.input
      <3>1. i \in 1..this
        BY <2>2, <2>3, <2>4, <2>5 DEF BInv, Caused
      <3> QED BY <2>2, <2>3, <2>5, <3>1 DEF BInv, Caused, BundlesKeepCause
    <2>6. ASSUME NEW k \in Keys, NEW f \in BundleFiles
          PROVE  bundles'[k][f].of <= this'
      BY <2>2, <2>3, <2>4 DEF BInv, Caused
    <2> QED BY <2>5, <2>6 DEF Caused, BundlesKeepCause
  <1>2. CASE ~Start
    <2>1. started' = started /\ this' = this /\ this \in Nat
      BY <1>2, BundleWrites DEF this, BInv, TypeOK
    <2>2. ASSUME NEW k \in Keys, NEW f \in BundleFiles, NEW i \in DOMAIN started',
                 bundles'[k][f].of = i
          PROVE  started'[i].component = k.component /\ started'[i].cmd.input = k.input
      <3>1. CASE bundles'[k][f] = bundles[k][f]
        BY <2>1, <2>2, <3>1 DEF BInv, Caused, BundlesKeepCause
      <3>2. CASE k = Key /\ bundles'[k][f].of = this
        BY <2>1, <2>2, <3>2 DEF Key, cmd
      <3> QED BY <1>2, <3>1, <3>2, BundleWrites
    <2>3. ASSUME NEW k \in Keys, NEW f \in BundleFiles
          PROVE  bundles'[k][f].of <= this'
      <3>1. CASE bundles'[k][f] = bundles[k][f]
        BY <2>1, <3>1 DEF BInv, Caused
      <3>2. CASE bundles'[k][f].of = this
        BY <2>1, <3>2
      <3> QED BY <1>2, <3>1, <3>2, BundleWrites
    <2> QED BY <2>2, <2>3 DEF Caused, BundlesKeepCause
  <1> QED BY <1>1, <1>2

LEMMA NextFiled == BInv /\ [Next]_vars => Filed'
  <1> SUFFICES ASSUME BInv, [Next]_vars PROVE Filed'
    OBVIOUS
  <1> USE DEF BInv
  <1>1. CASE Start
    <2>1. pc' \in {"idle", "compile"} /\ ~incident'
      BY <1>1 DEF Start
    <2> QED BY <2>1 DEF Filed
  <1>2. CASE Kill
    BY <1>2 DEF Kill, Filed
  <1>3. CASE WriteBundle
    <2>1. /\ Key' = Key /\ Own' = Own /\ Listed' = Listed
          /\ Key \in Keys /\ Head(todo) \in BundleFiles
      BY <1>3, KeyForm DEF WriteBundle, Key, cmd, this, Own, Listed, TypeOK
    <2>2. todo \in Seq(BundleFiles) /\ todo # <<>> /\ todo' = Tail(todo)
      BY <1>3 DEF WriteBundle, TypeOK
    <2>3. /\ bundles'[Key][Head(todo)] = Own
          /\ \A f \in BundleFiles : f # Head(todo) => bundles'[Key][f] = bundles[Key][f]
      BY <1>3, <2>1 DEF WriteBundle, TypeOK
    <2>4. ASSUME NEW f \in Listed
          PROVE  bundles'[Key][f] = Own \/ \E i \in 1..Len(todo') : todo'[i] = f
      <3>1. f \in BundleFiles
        BY DEF Listed, BundleFiles
      <3>2. CASE f = Head(todo)
        BY <2>3, <3>2
      <3>3. CASE f # Head(todo) /\ bundles[Key][f] = Own
        BY <2>3, <3>1, <3>3
      <3>4. CASE f # Head(todo) /\ bundles[Key][f] # Own
        <4>1. PICK i \in 1..Len(todo) : todo[i] = f
          BY <1>3, <3>4 DEF Filed, WriteBundle
        <4>2. i # 1
          BY <2>2, <3>4, <4>1
        <4>3. i - 1 \in 1..Len(todo') /\ todo'[i - 1] = f
          BY <2>2, <4>1, <4>2
        <4> QED BY <4>3
      <3> QED BY <3>2, <3>3, <3>4
    <2>5. ASSUME todo' = <<>> PROVE \A f \in Listed : bundles'[Key][f] = Own
      BY <2>4, <2>5
    <2>6. \/ todo' = <<>> /\ incident' /\ pc' = "stdout"
          \/ ~incident' /\ pc' = "bundle"
      BY <1>3 DEF WriteBundle, Filed
    <2> QED BY <2>1, <2>4, <2>5, <2>6 DEF Filed
  <1>4. CASE LoseBundle
    <2>1. ~incident' /\ pc' = "stdout"
      BY <1>4 DEF LoseBundle, Filed
    <2> QED BY <2>1 DEF Filed
  <1>5. CASE EmitReport
    <2>1. /\ Key' = Key /\ Own' = Own /\ Listed' = Listed /\ Key \in Keys
          /\ incident' = incident /\ pc' = "idle"
      BY <1>5, KeyForm DEF EmitReport, Key, cmd, this, Own, Listed
    <2>2. \A f \in Listed : f # "report" /\ f \in BundleFiles
      BY DEF Listed, BundleFiles
    <2>3. \A f \in Listed : bundles'[Key][f] = bundles[Key][f]
      BY <1>5, <2>1, <2>2 DEF EmitReport, TypeOK
    <2> QED BY <2>1, <2>3 DEF Filed
  <1>6. ASSUME NEW how \in {"ok", "err", "timeout", "trap"}, NEW ds, Conclude(how, ds)
        PROVE  Filed'
    <2>1. /\ pc = "guest" /\ pc' \in {"stdout", "bundle"} /\ (pc' = "bundle" => todo' = Bundle)
          /\ UNCHANGED <<incident, bundles>> /\ Listed' = Listed
      BY <1>6 DEF Conclude, Listed
    <2> QED BY <2>1, BundleForm DEF Filed
  <1>7. CASE SetupFails \/ Compile \/ WriteStdout \/ WriteStderr
    <2>1. /\ pc \in {"compile", "guest"} /\ pc' \in {"guest", "emit"} /\ incident' = incident
      BY <1>7 DEF SetupFails, Compile, WriteStdout, WriteStderr
    <2> QED BY <2>1 DEF Filed
  <1>8. CASE Deploy \/ DeliverStdout \/ DeliverStderr \/ UNCHANGED vars
    <2>1. /\ Key' = Key /\ Own' = Own /\ Listed' = Listed
          /\ UNCHANGED <<incident, bundles, todo>>
          /\ pc' = pc \/ pc' \in {"stderr", "emit"}
      BY <1>8 DEF Deploy, DeliverStdout, DeliverStderr, Deliver, vars, Key, cmd, this, Own, Listed
    <2> QED BY <2>1 DEF Filed
  <1> QED BY <1>1, <1>2, <1>3, <1>4, <1>5, <1>6, <1>7, <1>8
          DEF Next, Returns, ExitsErr, TimesOut, Traps, Rest

LEMMA NextBundles == BInv /\ [Next]_vars => BInv'
  BY NextType, NextCaused, NextFiled DEF BInv

\* No bundle is handed to another component or stdin: who wrote its files ran
\* what its directory is named after (run.rs:598-626).
THEOREM BundlesHaveOneCause == Spec => []BundlesKeepCause
  <1>1. BInv => BundlesKeepCause
    BY DEF BInv, Caused
  <1> QED BY <1>1, InitBundles, NextBundles, PTL DEF Spec

\* The bundle a finished command names is its own in every file it wrote,
\* whatever lay there before (run.rs:392-410, 605-626).
THEOREM BundlesAreOwn == Spec => []BundleOfThisRun
  <1>1. BInv => BundleOfThisRun
    BY DEF BInv, Filed, Listed, BundleOfThisRun
  <1> QED BY <1>1, InitBundles, NextBundles, PTL DEF Spec
=============================================================================
