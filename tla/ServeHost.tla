----------------------------- MODULE ServeHost -----------------------------
(***************************************************************************)
(* x07-wasm serve around the handling of single requests: the canary loop, *)
(* the accept loop of --mode listen, the incident bundles of failed        *)
(* requests and the report (crates/x07-wasm/src/serve.rs).                 *)
(*                                                                         *)
(* What happens inside handle_one_request is HandleRequest; here it gives  *)
(* a response, with or without a guest diagnostic in its headers, or an    *)
(* error, and in each case a set of diagnostics.  A bundle is kept in a    *)
(* directory named after the component and the request, so the same        *)
(* request failing twice writes into the same directory.  A file of a      *)
(* bundle is represented by the number of the run that wrote it.           *)
(***************************************************************************)
EXTENDS Naturals, Sequences, ExitCode

CONSTANTS
    Settings,        \* command lines: --mode, --stop-after, --evidence-in or -out;
                     \* and whether files of an incident bundle may fail to be written
    Contents,        \* requests, up to their id
    HeadLen,         \* length of the headers of a request
    BodyLen,         \* length of its body
    MaxRequest,      \* --max-request-bytes
    ClientIds,       \* the ids clients send, as the n of "req<n>"
    MaxConnections   \* bound: connections the clients open in all

ASSUME ServeConstants ==
    /\ Settings \subseteq [mode : {"canary", "listen"}, stopAfter : Nat,
                             evidence : {"none", "record", "replay"}, writesFail : BOOLEAN]
    /\ HeadLen \in [Contents -> Nat] /\ BodyLen \in [Contents -> Nat]
    /\ MaxRequest \in Nat
    /\ ClientIds \subseteq Nat
    /\ MaxConnections \in Nat

VARIABLES
    setting,    \* the command line of this run
    pc,         \* "setup", "accept", "reading", "body", "handling", "replying",
                \* "report" or "stopped"
    handled,    \* connections accepted, or turns of the canary loop
    seq,        \* request_seq
    request,    \* the request in hand
    runs,       \* requests given to the guest so far
    diags,      \* diagnostics of the command
    accDiags,   \* diagnostics_acc: those of the requests, until the loop ends
    responses,  \* response summaries
    incidents,  \* incident_dirs
    osTime,     \* meta.nondeterminism.uses_os_time
    disk,       \* the incident directories
    underflow,  \* history: a replay ran out of evidence
    emitted     \* the report, once it is emitted

serveVars == <<setting, pc, handled, seq, request, runs, diags, accDiags, responses, incidents,
               osTime, disk, underflow, emitted>>

Mode       == setting.mode
StopAfter  == setting.stopAfter
Evidence   == setting.evidence
WritesFail == setting.writesFail

Dirs      == [content : Contents, id : Nat]
NoRequest == [content |-> "none"]
NoBundle  == [request |-> 0, response |-> 0, manifest |-> 0, report |-> FALSE]
NotYet    == [ok |-> TRUE, osTime |-> FALSE, done |-> FALSE]
BundleOf(dir) == IF dir \in DOMAIN disk THEN disk[dir] ELSE NoBundle

ServeInit ==
    /\ setting \in Settings
    /\ pc = "setup"
    /\ handled = 0 /\ seq = 0 /\ runs = 0
    /\ request = NoRequest
    /\ diags = {} /\ accDiags = {}
    /\ responses = <<>>
    /\ incidents = {}
    /\ osTime = FALSE
    /\ disk = [dir \in {} |-> NoBundle]
    /\ underflow = FALSE
    /\ emitted = NotYet

-----------------------------------------------------------------------------
(* Incident bundles.                                                       *)

\* Mutant of BundleWrites: the manifest is written last but not checked.
BundleWritesUnchecked(b, run, given) ==
    LET req  == [b EXCEPT !.request = run]
        resp == IF given = "none" THEN req ELSE [req EXCEPT !.response = run]
        full == [resp EXCEPT !.manifest = run]
    IN {[ok |-> TRUE, bundle |-> full]}
       \cup (IF WritesFail THEN {[ok |-> TRUE, bundle |-> resp]} ELSE {})

\* write_http_incident: request, response, manifest, in this order.  given is
\* "buffered", "status" or "none": a response made from a bare status is
\* written without a look at the result, and without either the file of an
\* earlier run stays.
BundleWrites(b, run, given) ==
    LET req  == [b EXCEPT !.request = run]
        resp == IF given = "none" THEN req ELSE [req EXCEPT !.response = run]
        full == [resp EXCEPT !.manifest = run]
    IN {[ok |-> TRUE, bundle |-> full]}
       \cup (IF WritesFail
               THEN {[ok |-> FALSE, bundle |-> b], [ok |-> FALSE, bundle |-> req],
                     [ok |-> FALSE, bundle |-> resp]}
                    \cup (IF given = "status"
                            THEN {[ok |-> TRUE, bundle |-> [req EXCEPT !.manifest = run]]}
                            ELSE {})
               ELSE {})

\* The bundle of the request in hand, written by run runs'; lost is what a
\* failed write adds to the diagnostics.
WriteIncident(given, lost, add) ==
    \E w \in BundleWrites(BundleOf(request), runs', given) :
       /\ disk' = [dir \in DOMAIN disk \cup {request} |->
                     IF dir = request THEN w.bundle ELSE disk[dir]]
       /\ \/ /\ w.ok
             /\ incidents' = incidents \cup {request}
             /\ osTime' = (osTime \/ Mode = "canary")
             /\ add = {}
          \/ /\ ~w.ok
             /\ UNCHANGED <<incidents, osTime>>
             /\ add = lost

BundleLost == {Warning("X07WASM_INCIDENT_BUNDLE_WRITE_FAILED", "run")}

-----------------------------------------------------------------------------
(* Setting up.                                                             *)

\* cmd_serve up to the runtime, and what each mode checks first.
SetupErrors ==
    {Error("X07WASM_SERVE_COMPONENT_COMPILE_FAILED", "run", "general"),
     Error("X07WASM_POLICY_OBLIGATION_UNSATISFIED", "parse", "general"),
     IF Mode = "canary" THEN Error("X07WASM_SERVE_PATH_INVALID", "parse", "general")
                        ELSE Error("X07WASM_SERVE_LISTEN_FAILED", "run", "general")}

EvidenceAllowed == Evidence # "none" => Mode = "canary" /\ StopAfter = 1

Setup ==
    /\ pc = "setup"
    /\ \/ /\ EvidenceAllowed
          /\ pc' = "accept"
          /\ UNCHANGED diags
       \/ /\ pc' = "report"
          /\ \E d \in SetupErrors : diags' = diags \cup {d}
    /\ UNCHANGED <<setting, handled, seq, request, runs, accDiags, responses, incidents, osTime, disk,
                   underflow, emitted>>

-----------------------------------------------------------------------------
(* Listening.                                                              *)

LoopGoesOn == (Mode = "listen" /\ StopAfter = 0) \/ handled < StopAfter

Accept ==
    /\ Mode = "listen"
    /\ pc = "accept"
    /\ LoopGoesOn
    /\ handled < MaxConnections
    /\ handled' = handled + 1
    /\ pc' = "reading"
    /\ UNCHANGED <<setting, seq, request, runs, diags, accDiags, responses, incidents, osTime, disk,
                   underflow, emitted>>

\* Mutant of CloseLoop: the diagnostics of the requests are dropped.
CloseLoopForgets(ds) ==
    /\ diags' = diags \cup ds
    /\ accDiags' = {}
    /\ osTime' = (osTime \/ (Mode = "listen" /\ incidents # {}))
    /\ pc' = "report"

\* After either loop: the diagnostics of the requests join those of the command.
CloseLoop(ds) ==
    /\ diags' = diags \cup accDiags \cup ds
    /\ accDiags' = {}
    /\ osTime' = (osTime \/ (Mode = "listen" /\ incidents # {}))
    /\ pc' = "report"

AcceptFails ==
    /\ Mode = "listen"
    /\ pc = "accept"
    /\ LoopGoesOn
    /\ CloseLoop({Error("X07WASM_SERVE_ACCEPT_FAILED", "run", "general")})
    /\ UNCHANGED <<setting, handled, seq, request, runs, responses, incidents, disk, underflow, emitted>>

\* The head of a request: its id is the client's or the next of the host.
ReadHead ==
    /\ pc = "reading"
    /\ \E c \in Contents :
          \/ /\ \E n \in ClientIds : request' = [content |-> c, id |-> n]
             /\ UNCHANGED seq
          \/ /\ request' = [content |-> c, id |-> seq]
             /\ seq' = seq + 1
    /\ pc' = "body"
    /\ UNCHANGED <<setting, handled, runs, diags, accDiags, responses, incidents, osTime, disk,
                   underflow, emitted>>

\* collect_body_with_limit: any error, also a broken body, is answered 413.
ReadBody ==
    /\ pc = "body"
    /\ \/ /\ BodyLen[request.content] <= MaxRequest
          /\ pc' = "handling"
          /\ UNCHANGED responses
       \/ /\ pc' = "replying"
          /\ responses' = Append(responses, [ok |-> FALSE, status |-> 413, of |-> request])
    /\ UNCHANGED <<setting, handled, seq, request, runs, diags, accDiags, incidents, osTime, disk,
                   underflow, emitted>>

\* The connection ends before its time: hyper drops the future that handles
\* the request.  A client that closes before it sent anything is no error.
ConnectionEnds ==
    /\ Mode = "listen"
    /\ pc \in {"reading", "body", "handling", "replying"}
    /\ \/ diags' = diags \cup {Warning("X07WASM_SERVE_HTTP1_CONN_FAILED", "run")}
       \/ pc = "reading" /\ UNCHANGED diags
    /\ runs' = IF pc = "handling" THEN runs + 1 ELSE runs
    /\ request' = NoRequest
    /\ pc' = "accept"
    /\ UNCHANGED <<setting, handled, seq, accDiags, responses, incidents, osTime, disk, underflow, emitted>>

Reply ==
    /\ pc = "replying"
    /\ request' = NoRequest
    /\ pc' = "accept"
    /\ UNCHANGED <<setting, handled, seq, runs, diags, accDiags, responses, incidents, osTime, disk,
                   underflow, emitted>>

-----------------------------------------------------------------------------
(* The canary loop: the same request, always with the id req0.             *)

CanaryTurn ==
    /\ Mode = "canary"
    /\ pc = "accept"
    /\ handled < StopAfter
    /\ handled' = handled + 1
    /\ \E c \in Contents :
          /\ request.content # "none" => c = request.content
          /\ request' = [content |-> c, id |-> 0]
    /\ pc' = "handling"
    /\ UNCHANGED <<setting, seq, runs, diags, accDiags, responses, incidents, osTime, disk,
                   underflow, emitted>>

-----------------------------------------------------------------------------
(* A request in the hands of the guest.                                    *)

Denied        == Error("X07WASM_CAPS_NET_DENIED", "run", "general")
CapsRefused   == Error("X07WASM_CAPS_FS_DENIED", "parse", "general")
RequestFailed == Error("X07WASM_SERVE_REQUEST_FAILED", "run", "general")
BudgetFailed  == Error("X07WASM_BUDGET_EXCEEDED_MEMORY", "run", "budget")
EvidenceBad   == Error("X07WASM_POLICY_OBLIGATION_UNSATISFIED", "run", "general")

\* Guest diagnostics: guest_diag.rs takes codes of up to 128 of [A-Z0-9_], of
\* which the schema of diagnostics refuses those above 64 and those that do
\* not begin with a letter.
GuestDiag     == Error("X07APP_GUEST_DIAGNOSTIC", "run", "general")
UnlistedDiag  == Error("_CODE_OUTSIDE_THE_SCHEMA", "run", "general")
GuestDiags    == {GuestDiag, UnlistedDiag}
SchemaAccepts(ds) == UnlistedDiag \notin ds

\* Diagnostics of a run that answered, and of one that failed: a failure
\* brings an error of its own unless it already has one, replay errors included.
\* These are the endings of HandleRequest; CapsRefused stands for whatever keeps
\* the capabilities from being set up, BudgetFailed for every budget.
AnswerDiags  == {{}, {Denied}}
FailureDiags(replayErrors) ==
    {{Denied}, {CapsRefused}, {BudgetFailed}, {Denied, BudgetFailed},
     IF Evidence = "replay" /\ replayErrors # {} THEN {} ELSE {RequestFailed}}

\* The canary loop reports at once, the accept loop when it ends.
AddDiags(ds) ==
    IF Mode = "canary" THEN diags' = diags \cup ds /\ UNCHANGED accDiags
                       ELSE accDiags' = accDiags \cup ds /\ UNCHANGED diags

\* Replay errors, and in record mode the evidence file.
EvidenceEnds(ds) ==
    \/ /\ Evidence = "none"
       /\ ds = {} /\ UNCHANGED underflow
    \/ /\ Evidence = "record"
       /\ ds \in {{}, {EvidenceBad}} /\ UNCHANGED underflow
    \/ /\ Evidence = "replay"
       /\ underflow' \in BOOLEAN
       /\ ds = IF underflow' THEN {EvidenceBad} ELSE {}

AfterRun == pc' = IF Mode = "canary" THEN "accept" ELSE "replying"

\* Ok(buf) without a guest diagnostic.
Answers ==
    /\ pc = "handling"
    /\ runs' = runs + 1
    /\ \E rd \in AnswerDiags, ed \in {{}, {EvidenceBad}} :
          /\ EvidenceEnds(ed)
          /\ AddDiags(rd \cup ed)
    /\ responses' = Append(responses, [ok |-> TRUE, status |-> 200, of |-> request])
    /\ AfterRun
    /\ UNCHANGED <<setting, handled, seq, request, incidents, osTime, disk, emitted>>

\* Ok(buf) with a guest diagnostic in the headers, or one that does not decode.
AnswersWithDiag ==
    /\ pc = "handling"
    /\ runs' = runs + 1
    /\ \E rd \in AnswerDiags, ed \in {{}, {EvidenceBad}}, wd \in {{}, BundleLost}, gd \in GuestDiags :
          /\ EvidenceEnds(ed)
          /\ WriteIncident("buffered", BundleLost, wd)
          /\ AddDiags(rd \cup ed \cup {gd} \cup wd)
    /\ responses' = Append(responses, [ok |-> FALSE, status |-> 200, of |-> request])
    /\ AfterRun
    /\ UNCHANGED <<setting, handled, seq, request, emitted>>

\* Mutant of Fails: the canary forgets a bundle it could not write.
FailsQuietly ==
    /\ pc = "handling"
    /\ runs' = runs + 1
    /\ \E ed \in {{}, {EvidenceBad}}, wd \in {{}, BundleLost} :
       \E fd \in FailureDiags(ed) :
          /\ EvidenceEnds(ed)
          /\ WriteIncident(IF Mode = "canary" THEN "none" ELSE "status", {}, wd)
          /\ AddDiags(fd \cup ed)
    /\ responses' = Append(responses,
                           [ok |-> FALSE, status |-> IF Mode = "canary" THEN 0 ELSE 500, of |-> request])
    /\ AfterRun
    /\ UNCHANGED <<setting, handled, seq, request, emitted>>

\* Mutant of Fails: the accept loop gives no response to the bundle either.
FailsWithoutStatus ==
    /\ pc = "handling"
    /\ runs' = runs + 1
    /\ \E ed \in {{}, {EvidenceBad}}, wd \in {{}, BundleLost} :
       \E fd \in FailureDiags(ed) :
          /\ EvidenceEnds(ed)
          /\ WriteIncident("none", IF Mode = "canary" THEN BundleLost ELSE {}, wd)
          /\ AddDiags(fd \cup ed \cup wd)
    /\ responses' = Append(responses,
                           [ok |-> FALSE, status |-> IF Mode = "canary" THEN 0 ELSE 500, of |-> request])
    /\ AfterRun
    /\ UNCHANGED <<setting, handled, seq, request, emitted>>

\* Err(err): the canary has no response to put into the bundle and warns when
\* it is lost; the accept loop answers 500 and does not warn.
Fails ==
    /\ pc = "handling"
    /\ runs' = runs + 1
    /\ \E ed \in {{}, {EvidenceBad}}, wd \in {{}, BundleLost} :
       \E fd \in FailureDiags(ed) :
          /\ EvidenceEnds(ed)
          /\ WriteIncident(IF Mode = "canary" THEN "none" ELSE "status",
                           IF Mode = "canary" THEN BundleLost ELSE {}, wd)
          /\ AddDiags(fd \cup ed \cup wd)
    /\ responses' = Append(responses,
                           [ok |-> FALSE, status |-> IF Mode = "canary" THEN 0 ELSE 500, of |-> request])
    /\ AfterRun
    /\ UNCHANGED <<setting, handled, seq, request, emitted>>

-----------------------------------------------------------------------------
(* The end.                                                                *)

LoopEnds ==
    /\ pc = "accept"
    /\ ~LoopGoesOn
    /\ CloseLoop({})
    /\ UNCHANGED <<setting, handled, seq, request, runs, responses, incidents, disk, underflow, emitted>>

\* A copy of the report goes into every bundle when it is not ok.  Then the
\* report is validated, and one that its own schema refuses is not emitted.
EmitReport ==
    /\ pc = "report"
    /\ \/ /\ SchemaAccepts(diags)
          /\ emitted' = [ok |-> ReportOk(diags), osTime |-> osTime, done |-> TRUE]
       \/ /\ ~SchemaAccepts(diags)
          /\ UNCHANGED emitted
    /\ IF ReportOk(diags)
         THEN UNCHANGED disk
         ELSE \E written \in SUBSET incidents :
                 /\ WritesFail \/ written = incidents
                 /\ disk' = [dir \in DOMAIN disk |->
                               IF dir \in written THEN [disk[dir] EXCEPT !.report = TRUE]
                                                  ELSE disk[dir]]
    /\ pc' = "stopped"
    /\ UNCHANGED <<setting, handled, seq, request, runs, diags, accDiags, responses, incidents, osTime,
                   underflow>>

\* A server waits for connections that no client opens any more.
ServeRest ==
    /\ \/ pc = "stopped"
       \/ pc = "accept" /\ Mode = "listen" /\ LoopGoesOn /\ handled = MaxConnections
    /\ UNCHANGED serveVars

Run == Answers \/ AnswersWithDiag \/ Fails

ServeNext ==
    \/ Setup \/ Accept \/ AcceptFails \/ ReadHead \/ ReadBody \/ ConnectionEnds \/ Reply
    \/ CanaryTurn \/ Run \/ LoopEnds \/ EmitReport \/ ServeRest

ServeSpec == ServeInit /\ [][ServeNext]_serveVars

-----------------------------------------------------------------------------
(* Properties.                                                             *)

Bundles   == [request : Nat, response : Nat, manifest : Nat, report : BOOLEAN]
Summaries == [ok : BOOLEAN, status : Nat, of : Dirs]

ServeTypeOK ==
    /\ setting \in Settings
    /\ pc \in {"setup", "accept", "reading", "body", "handling", "replying", "report", "stopped"}
    /\ handled \in Nat /\ seq \in 0..handled /\ runs \in 0..handled
    /\ responses \in Seq(Summaries) /\ Len(responses) <= handled
    /\ request \in Dirs \cup {NoRequest}
    /\ DOMAIN disk \subseteq Dirs /\ disk \in [DOMAIN disk -> Bundles]
    /\ incidents \subseteq DOMAIN disk
    /\ osTime \in BOOLEAN /\ underflow \in BOOLEAN
    /\ emitted \in [ok : BOOLEAN, osTime : BOOLEAN, done : BOOLEAN]

Failed(r) == ~r.ok /\ r.status # 413

\* A request that failed or brought a guest diagnostic, and a replay that ran
\* out of evidence, make the whole report a failure.
FailureReachesReport ==
    emitted.done =>
        ((\E i \in DOMAIN responses : Failed(responses[i])) \/ underflow => ~emitted.ok)

\* Every failed request has its bundle in the report, or the report says that
\* the bundle could not be written; the accept loop does not say so of a 500.
FailureRecorded ==
    emitted.done =>
        \A i \in DOMAIN responses :
           Failed(responses[i]) =>
              \/ responses[i].of \in incidents
              \/ BundleLost \subseteq diags
              \/ WritesFail /\ responses[i].status = 500

\* A bundle the report lists is complete.
ListedComplete ==
    \A dir \in incidents :
       /\ disk[dir].request # 0 /\ disk[dir].manifest # 0
       /\ pc = "stopped" /\ ~WritesFail /\ ~ReportOk(diags) => disk[dir].report

\* Where files can be written, the response in a bundle of the accept loop is
\* that of the failure its manifest describes.  The canary loop writes no
\* response for a failed turn and leaves that of an earlier one in place.
BundleOfOneRun ==
    Mode = "listen" /\ ~WritesFail =>
        \A dir \in incidents : disk[dir].response = disk[dir].manifest

\* A report that lists incident directories, named after the day, admits that
\* the command read the clock.
ClockAdmitted == emitted.done /\ incidents # {} => emitted.osTime

\* What the guest says of itself never costs the command its report: a
\* diagnostic the host has taken from the headers can be reported.
EndsWithReport == pc = "stopped" => emitted.done
=============================================================================
