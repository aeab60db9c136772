------------------------------ MODULE ExitCode ------------------------------
(***************************************************************************)
(* Diagnostics and the process exit code every command derives from them   *)
(* (crates/x07-wasm/src/report/exit_code.rs).                              *)
(*                                                                         *)
(* A diagnostic keeps the fields the exit code reads: its severity, its    *)
(* stage, and the family its code belongs to.  The code classifies by the  *)
(* spelling of the code: "tool" stands for the suffixes _SPAWN_FAILED,     *)
(* _WRITE_FAILED and _IO_FAILED and the prefix X07WASM_INTERNAL_, "budget" *)
(* for the prefix X07WASM_BUDGET_EXCEEDED_, "general" for every other one. *)
(***************************************************************************)
EXTENDS Naturals

Severities == {"error", "warning"}
Stages     == {"parse", "lint", "run"}
Families   == {"tool", "budget", "general"}

\* Diagnostic::new(code, severity, stage, message), the message dropped.
Diag(name, severity, stage, family) ==
    [name |-> name, severity |-> severity, stage |-> stage, family |-> family]
Error(name, stage, family) == Diag(name, "error", stage, family)
Warning(name, stage)       == Diag(name, "warning", stage, "general")

Errors(ds)   == {d \in ds : d.severity = "error"}
HasError(ds) == Errors(ds) # {}

\* A report is ok when no diagnostic is an error.
ReportOk(ds) == ~HasError(ds)

IsToolFailure(d)    == d.family = "tool"
IsInvalidInput(d)   == d.stage = "parse"
IsBudgetExceeded(d) == d.family = "budget"

\* exit_code_for_diagnostics: the early returns, in their order.
ExitCodeOf(ds) ==
    LET errs == Errors(ds) IN
    IF errs = {}                                 THEN 0
    ELSE IF \E d \in errs : IsToolFailure(d)      THEN 2
    ELSE IF \E d \in errs : IsInvalidInput(d)     THEN 3
    ELSE IF \E d \in errs : IsBudgetExceeded(d)   THEN 4
    ELSE 1
=============================================================================
