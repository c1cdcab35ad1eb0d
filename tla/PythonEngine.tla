---------------------------- MODULE PythonEngine ----------------------------
(***************************************************************************)
(* One run of the Python whitebox engine: the child process of             *)
(* src/python/engine.py, the lines it streams to its stdout, and           *)
(* PythonSpawner.Run (src/go/internal/engine/spawner.go), which folds      *)
(* every line into a streamResult and then classifies the whole run.       *)
(*                                                                         *)
(* The pipe is lossless and ordered and readFindings takes no line back,   *)
(* so printing a line and reading it are one step; what stays separate is  *)
(* the end of the process and the moment the spawner asks its context.     *)
(* A finding is only counted.  Lines longer than the reader's 1 MiB buffer *)
(* are left out: the analyzers cut the text they quote.                    *)
(***************************************************************************)
EXTENDS Naturals, Sequences, FiniteSets

CONSTANTS
  MaxFaults,    \* bound: abnormal outcomes of one scan
  MaxFindings   \* bound: findings the child prints

ASSUME FaultsAssumption == MaxFaults \in Nat /\ MaxFindings \in Nat

VARIABLES
  child,    \* the process and, as ghosts, what it printed and completed
  stream,   \* the spawner's streamResult
  faults    \* how many abnormal outcomes the scan has met

pyVars == <<child, stream, faults>>

(* expectedPythonChecks: what a protocol-2 engine reports once each. *)
PythonChecks == {"auth", "injection", "deps"}
CheckOrder == <<"auth", "injection", "deps">>
AfterChecks == Len(CheckOrder) + 1
Printed == AfterChecks + 1        \* the done line is out

(* What a check finds when it is reached: it was not asked for, has no     *)
(* input, has an input that cannot be read, or can work.                   *)
Plans == {"not_requested", "no_input", "unreadable", "work"}

EmptyStream == [findings |-> 0, total |-> 0, protocol |-> 0, sawDone |-> FALSE,
                malformed |-> 0, checks |-> <<>>]
NoChild == [state |-> "none", at |-> 1, printed |-> 0, clean |-> FALSE, protocol |-> 2,
            plan |-> [c \in PythonChecks |-> "not_requested"], whole |-> {}]

(* An abnormal outcome uses up one of the scan's MaxFaults. *)
Spend(abnormal) ==
  IF abnormal THEN faults < MaxFaults /\ faults' = faults + 1 ELSE UNCHANGED faults

-----------------------------------------------------------------------------
Running == child.state = "running"
Current == CheckOrder[child.at]

Spawn(protocol, plan) ==
  /\ child.state = "none"
  /\ child' = [NoChild EXCEPT !.state = "running", !.protocol = protocol, !.plan = plan]
  /\ stream' = EmptyStream

(* emit_finding: the counter moves with the line.  A library that prints   *)
(* to stdout without a newline garbles the line, which is then malformed.  *)
PrintFinding(garbled) ==
  /\ Running /\ child.at < AfterChecks /\ child.plan[Current] = "work"
  /\ child.printed < MaxFindings
  /\ child' = [child EXCEPT !.printed = @ + 1]
  /\ stream' = IF garbled THEN [stream EXCEPT !.malformed = @ + 1]
                          ELSE [stream EXCEPT !.findings = @ + 1]
  /\ Spend(garbled)

(* What _run_check and _injection_support can answer: an ImportError is a  *)
(* missing dependency, any other exception an execution error, and a tree  *)
(* of JavaScript alone is no target for taint analysis.  The analyzers     *)
(* return at once, without an exception, from a directory they cannot      *)
(* list, and pass over a file they cannot read or parse and a manifest     *)
(* whose tool fails: such a check is ok over nothing, or over a part.      *)
Answers(check) ==
  CASE child.plan[check] = "not_requested" -> {"disabled_by_flag"}
    [] child.plan[check] = "no_input"      -> {"not_applicable"}
    [] child.plan[check] = "unreadable"    -> {"ok"}
    [] OTHER -> {"ok", "dependency_missing", "execution_error"}
                  \cup (IF check = "injection" THEN {"unsupported_target"} ELSE {})

(* One status line per check on every path: the completeness guarantee     *)
(* behind protocol 2.  A legacy tree prints none.  all: the check read     *)
(* everything it was given, which its line does not tell.                  *)
EndCheck(answer, all) ==
  /\ Running /\ child.at < AfterChecks /\ answer \in Answers(Current)
  /\ all => answer = "ok" /\ child.plan[Current] = "work"
  /\ child' = [child EXCEPT !.at = @ + 1, !.whole = IF all THEN @ \cup {Current} ELSE @]
  /\ stream' = IF child.protocol < 2 THEN stream
               ELSE [stream EXCEPT !.checks = Append(@, [check |-> Current, reason |-> answer])]
  /\ Spend(child.plan[Current] = "work" /\ answer # "unsupported_target" /\ ~all)

PrintDone ==
  /\ Running /\ child.at = AfterChecks
  /\ child' = [child EXCEPT !.at = Printed]
  /\ stream' = [stream EXCEPT !.sawDone = TRUE, !.total = child.printed, !.protocol = child.protocol]
  /\ UNCHANGED faults

Exit ==
  /\ Running /\ child.at = Printed
  /\ child' = [child EXCEPT !.state = "exited", !.clean = TRUE]
  /\ UNCHANGED <<stream, faults>>

(* The process dies between any two lines; a library that ends it by       *)
(* itself can do so with status 0.                                         *)
Crash(clean) ==
  /\ Running
  /\ child' = [child EXCEPT !.state = "exited", !.clean = clean]
  /\ Spend(TRUE) /\ UNCHANGED stream

(* exec.CommandContext kills the child once the context has ended. *)
Kill ==
  /\ Running
  /\ child' = [child EXCEPT !.state = "exited", !.clean = FALSE]
  /\ UNCHANGED <<stream, faults>>

ChildStep ==
  \/ \E garbled \in BOOLEAN : PrintFinding(garbled)
  \/ \E answer \in {"ok", "not_applicable", "disabled_by_flag", "dependency_missing",
                    "unsupported_target", "execution_error"}, all \in BOOLEAN : EndCheck(answer, all)
  \/ PrintDone
  \/ Exit
  \/ \E clean \in BOOLEAN : Crash(clean)

-----------------------------------------------------------------------------
ReportedChecks == {stream.checks[i].check : i \in DOMAIN stream.checks}

(* childProtocolError: a check nobody knows, or one reported twice. *)
ChildProtocolError ==
  \/ ~(ReportedChecks \subseteq PythonChecks)
  \/ Cardinality(ReportedChecks) < Len(stream.checks)

(* Mutant of SpawnOutcome: the end of the stream stands for the done line. *)
SpawnOutcomeAtEOF(ended) ==
  LET v2 == stream.protocol >= 2 IN
  IF ended THEN "cancelled"
  ELSE IF ~child.clean THEN "exit_error"
  ELSE IF stream.malformed > 0 THEN "malformed"
  ELSE IF v2 /\ ReportedChecks # PythonChecks THEN "truncated"
  ELSE IF stream.sawDone /\ stream.total # stream.findings THEN "truncated"
  ELSE "ok"

(* PythonSpawner.Run's ranking of what it saw, the worst first.  ended:    *)
(* the context has ended by the time the child has been waited for.        *)
SpawnOutcome(ended) ==
  LET v2 == stream.protocol >= 2 IN
  IF ended THEN "cancelled"
  ELSE IF ~child.clean THEN "exit_error"
  ELSE IF stream.malformed > 0 THEN "malformed"
  ELSE IF ~stream.sawDone THEN "truncated"
  ELSE IF v2 /\ ChildProtocolError THEN "malformed"
  ELSE IF v2 /\ ReportedChecks # PythonChecks THEN "truncated"
  ELSE IF stream.total # stream.findings THEN "truncated"
  ELSE "ok"

(* The parent entry recordPythonEngine writes for it. *)
ParentReason(ended) ==
  CASE SpawnOutcome(ended) = "ok"        -> "ok"
    [] SpawnOutcome(ended) = "malformed" -> "malformed_output"
    [] SpawnOutcome(ended) = "truncated" -> "truncated_output"
    [] OTHER                             -> "execution_error"

(* The status lines the caller sees: those of a stream that never declared *)
(* protocol 2 are dropped.                                                 *)
ChildReports == IF stream.protocol >= 2 THEN stream.checks ELSE <<>>
=============================================================================
