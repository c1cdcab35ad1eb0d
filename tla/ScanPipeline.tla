---------------------------- MODULE ScanPipeline ----------------------------
(***************************************************************************)
(* `fendix scan`, from discovery to the exit code: Orchestrator.Run of     *)
(* src/go/internal/engine/orchestrator.go and the coverage contract it     *)
(* records (scannerstatus.go, registry.go, reporters/coverage.go).         *)
(*                                                                         *)
(* The stages run one after the other in one goroutine.  Around them, the  *)
(* context can end at any moment (Ctrl-C, --max-duration, the request      *)
(* budget), every tool and network call can fail, and the Python engine is *)
(* a process of its own.  Each stage leaves one entry in the scan's status *)
(* list; the report's coverage block and the exit code are derived from    *)
(* that list alone, so what it says has to be what happened.               *)
(*                                                                         *)
(* `status' maps a registry name to its entries in the order they were     *)
(* recorded: the report sorts the list by name, stably, so nothing else of *)
(* its order is visible.  An entry's state follows from its reason, "ok"   *)
(* standing for an entry without one.                                      *)
(***************************************************************************)
EXTENDS PythonEngine

CONSTANT Scans   \* the command lines, with the working tree each one meets

Dependencies == {"govulncheck", "pip", "npm"}
FileScanners == {"secrets", "textscan", "semgrep"}
CodeAnalyzers == Dependencies \cup FileScanners
BaseAnalyzers == {"dast", "spec", "active-probes", "python-engine", "plugins"} \cup CodeAnalyzers
Child == [auth |-> "python-engine/auth", injection |-> "python-engine/injection",
          deps |-> "python-engine/deps"]
PythonChildren == {Child[c] : c \in PythonChecks}
Registry == BaseAnalyzers \cup PythonChildren

Gates == {"scanner_error", "coverage_gap"}   \* the --fail-on-... flags

(* A file's content in HEAD is 0; index and tree are what git status sees. *)
FileKinds == {"source", "go_manifest", "py_manifest", "npm_manifest"}
FileStates == [index: 0..1, tree: 0..2]

(* The flags of one command line that Run reads, and the working tree. *)
ScanType ==
  [url: BOOLEAN, spec: {"none", "good", "bad"}, active: BOOLEAN, maxRequests: BOOLEAN,
   maxDuration: BOOLEAN, code: {"none", "ok", "missing", "unlistable"}, fast: BOOLEAN,
   nativeDeps: BOOLEAN, offline: {"no", "snapshot", "no_snapshot"}, pipAudit: {"off", "installed", "missing"},
   diff: {"off", "bare", "ref", "staged"}, python: {"off", "auto", "explicit"},
   tree: {"v2", "legacy", "missing"}, checks: SUBSET PythonChecks, plugins: BOOLEAN,
   imports: BOOLEAN, gates: SUBSET Gates, required: SUBSET Registry, files: [FileKinds -> FileStates]]

(* The CLI refuses a scan without a target, and enables the Python engine  *)
(* by itself only for --code.                                              *)
ASSUME ScansAssumption ==
  /\ Scans \subseteq ScanType
  /\ \A c \in Scans : /\ c.url \/ c.spec # "none" \/ c.code # "none"
                      /\ c.python = "auto" => c.code # "none"

SkipReasons == {"not_applicable", "diff_unchanged", "disabled_by_flag", "disabled_offline",
                "dependency_missing", "unsupported_target"}
FailReasons == {"network_error", "timeout", "execution_error", "malformed_output",
                "truncated_output", "input_error", "no_endpoints"}
Reasons == {"ok"} \cup SkipReasons \cup FailReasons

StageOrder == <<"discover", "sweep", "code", "diff", "govulncheck", "pip", "npm", "secrets",
                "semgrep", "textscan", "python-engine", "plugins", "imports", "finalize", "exit",
                "returned">>
Stages == {StageOrder[i] : i \in DOMAIN StageOrder}

VARIABLES
  cfg,         \* the scan's flags and working tree
  stage,       \* where Run is
  ctx,         \* the context: live, or what ended it first
  discovered,  \* whether there are endpoints, and whether the spec failed to parse
  scope,       \* the diff allowlist: everything, or the kinds of file named
  tries,       \* outcomes of a dependency scanner's attempts
  status,      \* the status list
  missed,      \* ghost: analyzers that had work and did not get it done
  passedOver,  \* ghost: those that took a part of their input as if it were not there
  held,        \* a tool has ended, and a process it left behind holds its output
  report,      \* the report has been rendered
  exitCode     \* what Run returns

vars == <<cfg, stage, ctx, discovered, scope, tries, status, missed, passedOver, held, report,
          exitCode, pyVars>>

NoCode == 3    \* exitCode of a scan that has not returned
ContextEnds == {"deadline", "budget", "interrupted"}
DependencyOutcomes == {"found", "absent", "no_lock", "skipped_manifest", "hidden_manifest", "network",
                       "timeout", "broken"}

TypeOK ==
  /\ cfg \in Scans /\ stage \in Stages /\ ctx \in {"live"} \cup ContextEnds
  /\ discovered \in [endpoints: BOOLEAN, specErr: BOOLEAN]
  /\ scope \in [full: BOOLEAN, files: SUBSET FileKinds]
  /\ tries \in [Dependencies -> Seq(DependencyOutcomes)]
  /\ status \in [Registry -> Seq([reason: Reasons, attempts: 1..2])]
  /\ missed \subseteq Registry /\ passedOver \subseteq Registry /\ held \in BOOLEAN
  /\ report \in BOOLEAN /\ exitCode \in {0, 1, 2, NoCode}
  /\ child.state \in {"none", "running", "exited"} /\ child.at \in 1..Printed
  /\ child.printed \in 0..MaxFindings /\ faults \in 0..MaxFaults

Init ==
  /\ cfg \in Scans /\ stage = "discover" /\ ctx = "live"
  /\ discovered = [endpoints |-> FALSE, specErr |-> FALSE]
  /\ scope = [full |-> TRUE, files |-> {}]
  /\ tries = [a \in Dependencies |-> <<>>]
  /\ status = [n \in Registry |-> <<>>]
  /\ missed = {} /\ passedOver = {} /\ held = FALSE /\ report = FALSE /\ exitCode = NoCode
  /\ child = NoChild /\ stream = EmptyStream /\ faults = 0

-----------------------------------------------------------------------------
(* The status list and what is derived from it. *)

With(list, names, reason) ==
  [n \in Registry |-> IF n \in names THEN Append(list[n], [reason |-> reason, attempts |-> 1])
                                     ELSE list[n]]

Class(reason) ==
  CASE reason = "ok" -> "ok"
    [] reason \in {"not_applicable", "diff_unchanged"} -> "not_applicable"
    [] reason \in {"disabled_by_flag", "disabled_offline"} -> "disabled"
    [] reason = "dependency_missing" -> "unavailable"
    [] reason = "unsupported_target" -> "unsupported"
    [] OTHER -> "failed"

IsGap(reason) == Class(reason) \in {"unavailable", "failed"}

Entries(n) == {status[n][i].reason : i \in DOMAIN status[n]}

Gaps == {n \in Registry : \E r \in Entries(n) : IsGap(r)}
ConfiguredComplete == Gaps = {}
HasFailure == \E n \in Registry : Entries(n) \cap FailReasons # {}

(* Mutant of RequiredGaps: a required analyzer without an entry passes. *)
RequiredGapsAmongEntries ==
  {n \in cfg.required : \E r \in Entries(n) : Class(r) \notin {"ok", "not_applicable"}}

(* BuildCoverage looks a required name up in a map keyed by name, in which *)
(* the last entry of a name stays.                                         *)
RequiredGaps ==
  {n \in cfg.required : \/ status[n] = <<>>
                        \/ Class(status[n][Len(status[n])].reason) \notin {"ok", "not_applicable"}}

-----------------------------------------------------------------------------
(* Ctrl-C at any moment; --max-duration is a deadline on the same context. *)
EndContext(why) ==
  /\ stage # "returned" /\ ctx = "live"
  /\ why = "deadline" => cfg.maxDuration
  /\ ctx' = why
  /\ UNCHANGED <<cfg, stage, discovered, scope, tries, status, missed, passedOver, held, report, exitCode, pyVars>>

(* --python-engine by name without an engine to run: exit 2 before         *)
(* anything is scanned.                                                    *)
EngineErr == cfg.python = "explicit" /\ cfg.tree = "missing"

Abort ==
  /\ stage = "discover" /\ EngineErr
  /\ stage' = "returned" /\ exitCode' = 2
  /\ UNCHANGED <<cfg, ctx, discovered, scope, tries, status, missed, passedOver, held, report, pyVars>>

(* CrawlEndpoints: a spec that cannot be read or parsed is kept in SpecErr *)
(* and discovery goes on with the URL; a context that has ended shortens   *)
(* it without an error.                                                    *)
Discover(endpoints, specErr) ==
  /\ stage = "discover" /\ ~EngineErr
  /\ cfg.spec = "none" => ~specErr
  /\ cfg.spec = "bad" => specErr
  /\ cfg.spec = "good" /\ specErr => ctx # "live"
  /\ endpoints => cfg.url \/ (cfg.spec = "good" /\ ~specErr)
  /\ discovered' = [endpoints |-> endpoints, specErr |-> specErr]
  /\ stage' = "sweep"
  /\ UNCHANGED <<cfg, ctx, scope, tries, status, missed, passedOver, held, report, exitCode, pyVars>>

(* Mutant of DastReason: the request budget is forgotten. *)
DastReasonDeadlineOnly(why, refused) ==
  IF ~cfg.url THEN "not_applicable"
  ELSE IF ~discovered.endpoints THEN "no_endpoints"
  ELSE IF why = "deadline" THEN "timeout" ELSE "ok"

(* recordBlackbox, from the context and the refused requests. *)
DastReason(why, refused) ==
  IF ~cfg.url THEN "not_applicable"
  ELSE IF ~discovered.endpoints THEN "no_endpoints"
  ELSE IF why = "deadline" THEN "timeout"
  ELSE IF refused THEN "execution_error"
  ELSE "ok"

SpecReason ==
  IF cfg.spec = "none" THEN "not_applicable" ELSE IF discovered.specErr THEN "input_error" ELSE "ok"

ProbeReason(why, refused, probes) ==
  IF ~cfg.active THEN "disabled_by_flag"
  ELSE IF ~discovered.endpoints THEN "not_applicable"
  ELSE IF why = "deadline" THEN "timeout"
  ELSE IF refused THEN "execution_error"
  ELSE IF probes = "none" THEN "not_applicable"
  ELSE IF probes = "silent" THEN "network_error"
  ELSE "ok"

(* The check sweep (its own inside is the module WorkerPool) and the three *)
(* entries about it.  refused: the request budget turned requests away,    *)
(* which ends the context; cut: checks were dropped or their requests      *)
(* failed because of the budget or of the context; probes: what came back  *)
(* from the active probes; unanswered: the passes some of whose requests   *)
(* the target left without an answer, which no entry tells of (that of     *)
(* the probes counts them in its detail, and is ok).  Endpoints of a spec  *)
(* are swept with or without a --url.                                      *)
Sweep(refused, cut, probes, unanswered) ==
  /\ stage = "sweep"
  /\ refused => cut /\ cfg.maxRequests
  /\ cut => discovered.endpoints /\ (refused \/ ctx # "live")
  /\ probes # "none" => cfg.active /\ discovered.endpoints
  /\ unanswered # {} => discovered.endpoints /\ ~cut
  /\ "active-probes" \in unanswered => probes = "answered"
  /\ ctx' = IF refused /\ ctx = "live" THEN "budget" ELSE ctx
  /\ status' = With(With(With(status, {"dast"}, DastReason(ctx', refused)), {"spec"}, SpecReason),
                    {"active-probes"}, ProbeReason(ctx', refused, probes))
  /\ missed' = (IF cut \/ (cfg.url /\ ~discovered.endpoints) THEN {"dast"} ELSE {})
               \cup (IF discovered.specErr THEN {"spec"} ELSE {})
               \cup (IF cfg.active /\ (cut \/ probes = "silent") THEN {"active-probes"} ELSE {})
               \cup unanswered
  /\ passedOver' = passedOver \cup unanswered
  /\ stage' = "code"
  /\ Spend((probes = "silent" /\ ~cut) \/ unanswered # {})
  /\ UNCHANGED <<cfg, discovered, scope, tries, held, report, exitCode, child, stream>>

-----------------------------------------------------------------------------
(* --code: one validation for the six code analyzers, then the scope.      *)

CodeConfigured == cfg.code # "none"
CodeUsable == cfg.code = "ok"

ValidateCode ==
  /\ stage = "code"
  /\ LET failed == IF CodeConfigured /\ ~CodeUsable THEN CodeAnalyzers ELSE {}
     IN  status' = With(status, failed, "input_error") /\ missed' = missed \cup failed
  /\ stage' = "diff"
  /\ UNCHANGED <<cfg, ctx, discovered, scope, tries, passedOver, held, report, exitCode, pyVars>>

(* What `git diff --name-only' lists: with --cached the index against      *)
(* HEAD, with a ref the working tree against the ref (here HEAD), and with *)
(* neither the working tree against the index.                             *)
GitDiff ==
  {k \in FileKinds : LET f == cfg.files[k]
                     IN  CASE cfg.diff = "staged" -> f.index # 0
                           [] cfg.diff = "ref"    -> f.tree # 0
                           [] OTHER               -> f.tree # f.index}

(* What the help of --diff promises: bare --diff is against HEAD as well. *)
Touched ==
  {k \in FileKinds : IF cfg.diff = "staged" THEN cfg.files[k].index # 0 ELSE cfg.files[k].tree # 0}

DiffOn == cfg.diff # "off" /\ CodeConfigured
DiffEmpty == ~scope.full /\ scope.files = {}

(* The file kinds an analyzer reads, and those it should have been given   *)
(* and was not.                                                            *)
Manifest == [govulncheck |-> "go_manifest", pip |-> "py_manifest", npm |-> "npm_manifest"]
Reads(a) == IF a \in Dependencies THEN {Manifest[a]} ELSE FileKinds
Overlooked(a, s) == ~s.full /\ ~((Reads(a) \cap Touched) \subseteq s.files)

NoDiff ==
  /\ stage = "diff" /\ ~DiffOn
  /\ stage' = "govulncheck"
  /\ UNCHANGED <<cfg, ctx, discovered, scope, tries, status, missed, passedOver, held, report, exitCode, pyVars>>

(* A failed git, or a file that cannot be placed under --code, widens to a *)
(* full scan.  An empty list skips the file scanners at once, semgrep only *)
(* when --fast will not skip it below.                                     *)
ResolveDiff(listed) ==
  /\ stage = "diff" /\ DiffOn
  /\ listed => cfg.code # "missing"
  /\ scope' = IF listed THEN [full |-> FALSE, files |-> GitDiff] ELSE scope
  /\ LET skipped == IF listed /\ GitDiff = {}
                      THEN {"secrets", "textscan"} \cup (IF cfg.fast THEN {} ELSE {"semgrep"})
                      ELSE {}
     IN  /\ status' = With(status, skipped, "diff_unchanged")
         /\ missed' = missed \cup {a \in skipped : Overlooked(a, scope')}
  /\ stage' = "govulncheck"
  /\ Spend(~listed /\ ctx = "live" /\ cfg.code # "missing")
  /\ UNCHANGED <<cfg, ctx, discovered, tries, passedOver, held, report, exitCode, child, stream>>

-----------------------------------------------------------------------------
(* The dependency scanners.                                                *)

Then == [govulncheck |-> "pip", pip |-> "npm", npm |-> "secrets", secrets |-> "semgrep",
         semgrep |-> "textscan", textscan |-> "python-engine"]

(* Why a dependency scanner does not run; "recorded" when its entry is     *)
(* already there, "run" when it does.                                      *)
DependencySkip(a) ==
  IF ~CodeConfigured THEN "not_applicable"
  ELSE IF ~CodeUsable THEN "recorded"
  ELSE IF cfg.fast \/ ~cfg.nativeDeps THEN "disabled_by_flag"
  ELSE IF a = "govulncheck" /\ cfg.offline # "no" THEN "disabled_offline"
  ELSE IF ~scope.full /\ Manifest[a] \notin scope.files THEN "diff_unchanged"
  ELSE IF cfg.offline = "no_snapshot" THEN "dependency_missing"
  ELSE "run"

SkipDependency(a) ==
  /\ stage = a /\ DependencySkip(a) # "run"
  /\ LET why == DependencySkip(a) IN
       /\ status' = IF why = "recorded" THEN status ELSE With(status, {a}, why)
       /\ missed' = IF why = "dependency_missing" \/ (why = "diff_unchanged" /\ Overlooked(a, scope))
                      THEN missed \cup {a} ELSE missed
  /\ stage' = Then[a]
  /\ UNCHANGED <<cfg, ctx, discovered, scope, tries, passedOver, held, report, exitCode, pyVars>>

(* pip-audit does the work; without it on PATH, and offline, the OSV       *)
(* client or the snapshot does.                                            *)
ThroughPipAudit == cfg.pipAudit = "installed" /\ cfg.offline = "no"

(* What one attempt can come to.  On each of its three ways pip goes on    *)
(* past a manifest it cannot read, or pip-audit fails on, and its walk     *)
(* past a directory it cannot read, whose manifests might be the only ones.*)
Attempts(a) ==
  {"found", "broken"}
    \cup (IF tries[a] = <<>> THEN {"absent"} ELSE {})
    \cup (IF tries[a] = <<>> /\ a = "npm" THEN {"no_lock"} ELSE {})
    \cup (IF a = "pip" THEN {"skipped_manifest"} ELSE {})
    \cup (IF a = "pip" /\ tries[a] = <<>> THEN {"hidden_manifest"} ELSE {})
    \cup (IF cfg.offline # "no" \/ (a = "pip" /\ ThroughPipAudit) THEN {} ELSE {"network", "timeout"})

DependencyReason(outcome) ==
  CASE outcome \in {"found", "skipped_manifest"} -> "ok"
    [] outcome \in {"absent", "hidden_manifest"} -> "not_applicable"
    [] outcome = "no_lock" -> "unsupported_target"
    [] outcome = "network" -> "network_error"
    [] outcome = "timeout" -> "timeout"
    [] OTHER               -> "execution_error"

Transient(outcome) == outcome \in {"network", "timeout"}

(* The attempt that counts is the last one that ran. *)
Conclude(a, ran) ==
  LET last == ran[Len(ran)] IN
  /\ status' = [status EXCEPT ![a] = Append(@, [reason |-> DependencyReason(last), attempts |-> Len(ran)])]
  /\ missed' = IF last \in {"found", "absent", "no_lock"} THEN missed ELSE missed \cup {a}
  /\ passedOver' = IF last \in {"skipped_manifest", "hidden_manifest"} THEN passedOver \cup {a} ELSE passedOver
  /\ stage' = Then[a]

(* retryTransient: one attempt, and after a transient failure under a live *)
(* context a second one.                                                   *)
AttemptDependency(a, outcome) ==
  /\ stage = a /\ DependencySkip(a) = "run" /\ outcome \in Attempts(a)
  /\ tries' = [tries EXCEPT ![a] = Append(@, outcome)]
  /\ IF tries[a] = <<>> /\ Transient(outcome) /\ ctx = "live"
       THEN UNCHANGED <<stage, status, missed, passedOver>>
       ELSE Conclude(a, tries'[a])
  /\ Spend(outcome \notin {"found", "absent", "no_lock"} /\ ctx = "live")
  /\ UNCHANGED <<cfg, ctx, discovered, scope, held, report, exitCode, child, stream>>

(* The context ends during the pause before the second attempt. *)
GiveUpRetry(a) ==
  /\ stage = a /\ Len(tries[a]) = 1 /\ ctx # "live"
  /\ Conclude(a, tries[a])
  /\ UNCHANGED <<cfg, ctx, discovered, scope, tries, held, report, exitCode, pyVars>>

-----------------------------------------------------------------------------
(* The scanners that read files: secrets, semgrep, textscan.               *)

FileSkip(a) ==
  IF ~CodeConfigured THEN "not_applicable"
  ELSE IF ~CodeUsable THEN "recorded"
  ELSE IF a = "semgrep" /\ cfg.fast THEN "disabled_by_flag"
  ELSE IF DiffEmpty THEN "recorded"
  ELSE "run"

SkipFiles(a) ==
  /\ stage = a /\ FileSkip(a) # "run"
  /\ status' = IF FileSkip(a) = "recorded" THEN status ELSE With(status, {a}, FileSkip(a))
  /\ stage' = Then[a]
  /\ UNCHANGED <<cfg, ctx, discovered, scope, tries, missed, passedOver, held, report, exitCode, pyVars>>

(* partial: a file or a directory could not be read, or semgrep warned of  *)
(* a file, and the scan went on without it.                                *)
FileOutcomes(a) ==
  {"done", "partial", "broken"} \cup (IF a = "textscan" THEN {} ELSE {"gone"})
    \cup (IF a = "semgrep" THEN {"not_installed", "late", "garbled"} ELSE {})
    \cup (IF a # "textscan" /\ ctx # "live" THEN {"cut"} ELSE {})

FileReason(outcome) ==
  CASE outcome \in {"done", "partial"} -> "ok"
    [] outcome = "not_installed" -> "dependency_missing"
    [] outcome = "late"          -> "timeout"
    [] outcome = "garbled"       -> "malformed_output"
    [] outcome = "gone"          -> "input_error"
    [] outcome = "cut"           -> IF ctx = "deadline" THEN "timeout" ELSE "execution_error"
    [] OTHER                     -> "execution_error"

ScanFiles(a, outcome) ==
  /\ stage = a /\ FileSkip(a) = "run" /\ outcome \in FileOutcomes(a)
  /\ status' = With(status, {a}, FileReason(outcome))
  /\ missed' = IF outcome # "done" \/ Overlooked(a, scope) THEN missed \cup {a} ELSE missed
  /\ passedOver' = IF outcome = "partial" THEN passedOver \cup {a} ELSE passedOver
  /\ stage' = Then[a]
  /\ Spend(outcome \notin {"done", "cut"})
  /\ UNCHANGED <<cfg, ctx, discovered, scope, tries, held, report, exitCode, child, stream>>

-----------------------------------------------------------------------------
(* The Python engine.                                                      *)

EngineOn == cfg.python # "off"

PythonSkip ==
  IF ~CodeConfigured /\ cfg.spec = "none" THEN "not_applicable"
  ELSE IF ~EngineOn THEN "disabled_by_flag"
  ELSE IF CodeConfigured /\ ~CodeUsable /\ cfg.spec = "none" THEN "input_error"
  ELSE IF cfg.tree = "missing" THEN "dependency_missing"
  ELSE "run"

LeavePython(reason, lost) ==
  /\ status' = With(status, {"python-engine"}, reason)
  /\ missed' = missed \cup lost
  /\ stage' = "plugins"
  /\ UNCHANGED <<cfg, ctx, discovered, scope, tries, passedOver, held, report, exitCode, child, stream>>

SkipPython ==
  /\ stage = "python-engine" /\ PythonSkip # "run"
  /\ LeavePython(PythonSkip, IF IsGap(PythonSkip) THEN {"python-engine"} ELSE {})
  /\ UNCHANGED faults

(* No interpreter, or a process that does not start. *)
NoPython(why) ==
  /\ stage = "python-engine" /\ PythonSkip = "run" /\ child.state = "none"
  /\ LeavePython(why, {"python-engine"})
  /\ Spend(why = "dependency_missing" \/ ctx = "live")

Requested == IF cfg.checks = {} THEN PythonChecks ELSE cfg.checks

(* --code reaches the engine even when it could not be validated. *)
PythonPlan ==
  [c \in PythonChecks |->
     IF c \notin Requested THEN "not_requested"
     ELSE IF c = "auth" THEN IF cfg.spec = "none" THEN "no_input" ELSE "work"
     ELSE IF ~CodeConfigured THEN "no_input"
     ELSE IF CodeUsable THEN "work" ELSE "unreadable"]

StartPython ==
  /\ stage = "python-engine" /\ PythonSkip = "run" /\ ctx = "live"
  /\ Spawn(IF cfg.tree = "v2" THEN 2 ELSE 1, PythonPlan)
  /\ UNCHANGED <<cfg, stage, ctx, discovered, scope, tries, status, missed, passedOver, held, report, exitCode, faults>>

PythonStep ==
  /\ stage = "python-engine" /\ ChildStep
  /\ UNCHANGED <<cfg, stage, ctx, discovered, scope, tries, status, missed, passedOver, held, report, exitCode>>

(* Mutant of KillPython: a child started without the scan's context. *)
KillPythonAtDeadline ==
  /\ stage = "python-engine" /\ ctx = "deadline" /\ Kill
  /\ UNCHANGED <<cfg, stage, ctx, discovered, scope, tries, status, missed, passedOver, held, report, exitCode>>

KillPython ==
  /\ stage = "python-engine" /\ ctx # "live" /\ Kill
  /\ UNCHANGED <<cfg, stage, ctx, discovered, scope, tries, status, missed, passedOver, held, report, exitCode>>

(* What the engine did not get done, whatever it said of it. *)
PythonLost ==
  (IF child.at < AfterChecks \/ stream.findings < child.printed THEN {"python-engine"} ELSE {})
    \cup {Child[c] : c \in {x \in PythonChecks :
            /\ child.plan[x] \in {"work", "unreadable"} /\ x \notin child.whole
            /\ [check |-> x, reason |-> "unsupported_target"]
                 \notin {stream.checks[i] : i \in DOMAIN stream.checks}}}

(* The checks that called an input whole of which they had read a part.    *)
PythonPassedOver ==
  {Child[c] : c \in {x \in PythonChecks :
     /\ child.plan[x] \in {"work", "unreadable"} /\ x \notin child.whole
     /\ [check |-> x, reason |-> "ok"] \in {stream.checks[i] : i \in DOMAIN stream.checks}}}

(* recordPythonEngine: the parent entry, and one child entry for each      *)
(* status line, the first of a name.                                       *)
PythonReturns ==
  /\ stage = "python-engine" /\ child.state = "exited"
  /\ LET lines == ChildReports
         told(c) == {i \in DOMAIN lines : lines[i].check = c}
         listed == With(status, {"python-engine"}, ParentReason(ctx # "live"))
     IN  status' = [n \in Registry |->
                      IF \E c \in PythonChecks : Child[c] = n /\ told(c) # {} /\ listed[n] = <<>>
                        THEN LET c == CHOOSE x \in PythonChecks : Child[x] = n
                                 i == CHOOSE x \in told(c) : \A y \in told(c) : x <= y
                             IN  <<[reason |-> lines[i].reason, attempts |-> 1]>>
                        ELSE listed[n]]
  /\ missed' = missed \cup PythonLost
  /\ passedOver' = passedOver \cup PythonPassedOver
  /\ stage' = "plugins"
  /\ UNCHANGED <<cfg, ctx, discovered, scope, tries, held, report, exitCode, pyVars>>

-----------------------------------------------------------------------------
(* Plugins, imports, the shared finalization and the exit code.            *)

PluginReason(outcome) ==
  CASE outcome = "disabled" -> "disabled_by_flag"
    [] outcome = "none"     -> "not_applicable"
    [] outcome = "all_ran"  -> "ok"
    [] OTHER                -> "execution_error"

(* dropped: a line of a plugin that is no finding, a plugin whose manifest *)
(* does not parse or a directory of plugins that cannot be read was passed *)
(* over.                                                                   *)
Plugins(outcome, dropped) ==
  /\ stage = "plugins"
  /\ (outcome = "disabled") <=> ~cfg.plugins
  /\ dropped => outcome \in {"none", "all_ran"}
  /\ status' = With(status, {"plugins"}, PluginReason(outcome))
  /\ missed' = IF dropped \/ outcome \in {"undiscoverable", "some_failed"} THEN missed \cup {"plugins"}
                                                                        ELSE missed
  /\ passedOver' = IF dropped THEN passedOver \cup {"plugins"} ELSE passedOver
  /\ stage' = "imports"
  /\ Spend(dropped \/ outcome = "undiscoverable" \/ (outcome = "some_failed" /\ ctx = "live"))
  /\ UNCHANGED <<cfg, ctx, discovered, scope, tries, held, report, exitCode, child, stream>>

(* A SARIF file that does not parse ends the run before its report. *)
Imports(parsed) ==
  /\ stage = "imports" /\ (~parsed => cfg.imports)
  /\ stage' = IF parsed THEN "finalize" ELSE "returned"
  /\ exitCode' = IF parsed THEN exitCode ELSE 2
  /\ Spend(~parsed)
  /\ UNCHANGED <<cfg, ctx, discovered, scope, tries, status, missed, passedOver, held, report, child, stream>>

(* finalize: every fail-closed step of it comes before the report. *)
Finalize(rendered) ==
  /\ stage = "finalize"
  /\ report' = rendered
  /\ stage' = IF rendered THEN "exit" ELSE "returned"
  /\ exitCode' = IF rendered THEN exitCode ELSE 2
  /\ Spend(~rendered)
  /\ UNCHANGED <<cfg, ctx, discovered, scope, tries, status, missed, passedOver, held, child, stream>>

HardExit == ~discovered.endpoints /\ ~CodeConfigured

(* verdict: what the decisions on the findings come to, 0 or 1. *)
ExitCode(verdict) ==
  IF "scanner_error" \in cfg.gates /\ HasFailure THEN 2
  ELSE IF "coverage_gap" \in cfg.gates /\ ~ConfiguredComplete THEN 2
  ELSE IF RequiredGaps # {} THEN 2
  ELSE IF HardExit THEN 2
  ELSE verdict

Return(verdict) ==
  /\ stage = "exit"
  /\ exitCode' = ExitCode(verdict) /\ stage' = "returned"
  /\ UNCHANGED <<cfg, ctx, discovered, scope, tries, status, missed, passedOver, held, report, pyVars>>

-----------------------------------------------------------------------------
(* The stages that read the output of a child process until it closes:     *)
(* git, the go command, pip-audit, semgrep, the Python engine, plugins.    *)
ReadsChild ==
  \/ stage = "diff" /\ DiffOn
  \/ stage = "govulncheck" /\ DependencySkip("govulncheck") = "run"
  \/ stage = "pip" /\ DependencySkip("pip") = "run" /\ ThroughPipAudit
  \/ stage = "semgrep" /\ FileSkip("semgrep") = "run"
  \/ stage = "python-engine" /\ child.state = "exited"
  \/ stage = "plugins" /\ cfg.plugins

(* The tool is over, killed or by itself, and Run still waits: a process   *)
(* it started has inherited its output.  No command has a WaitDelay.       *)
OrphanHolds ==
  /\ ReadsChild /\ ~held /\ held' = TRUE /\ Spend(TRUE)
  /\ UNCHANGED <<cfg, stage, ctx, discovered, scope, tries, status, missed, passedOver, report, exitCode,
                 child, stream>>

OrphanExits ==
  /\ held /\ held' = FALSE
  /\ UNCHANGED <<cfg, stage, ctx, discovered, scope, tries, status, missed, passedOver, report, exitCode,
                 pyVars>>

(* One step of Run. *)
RunStep ==
  /\ ~held
  /\ \/ Abort
     \/ \E endpoints, specErr \in BOOLEAN : Discover(endpoints, specErr)
     \/ \E refused, cut \in BOOLEAN, probes \in {"none", "answered", "silent"},
           unanswered \in SUBSET {"dast", "active-probes"} : Sweep(refused, cut, probes, unanswered)
     \/ ValidateCode
     \/ NoDiff
     \/ \E listed \in BOOLEAN : ResolveDiff(listed)
     \/ \E a \in Dependencies : SkipDependency(a)
     \/ \E a \in Dependencies, outcome \in DependencyOutcomes : AttemptDependency(a, outcome)
     \/ \E a \in Dependencies : GiveUpRetry(a)
     \/ \E a \in FileScanners : SkipFiles(a)
     \/ \E a \in FileScanners : \E outcome \in FileOutcomes(a) : ScanFiles(a, outcome)
     \/ SkipPython
     \/ \E why \in {"dependency_missing", "execution_error"} : NoPython(why)
     \/ StartPython
     \/ KillPython
     \/ PythonReturns
     \/ \E outcome \in {"disabled", "undiscoverable", "none", "all_ran", "some_failed"}, dropped \in BOOLEAN :
          Plugins(outcome, dropped)
     \/ \E parsed \in BOOLEAN : Imports(parsed)
     \/ \E rendered \in BOOLEAN : Finalize(rendered)
     \/ \E verdict \in 0..1 : Return(verdict)

Next ==
  \/ RunStep
  \/ PythonStep
  \/ \E why \in {"deadline", "interrupted"} : EndContext(why)
  \/ OrphanHolds
  \/ OrphanExits

(* Run is one goroutine that goes on while it can, and every analyzer in   *)
(* the process comes back.  Nothing makes the Python child or a process a  *)
(* tool left behind go on, and nothing makes the context end.              *)
Spec == Init /\ [][Next]_vars /\ WF_vars(RunStep)

-----------------------------------------------------------------------------
(* Properties.                                                             *)

(* The scan's status list is complete. *)
Covered == stage \in {"imports", "finalize", "exit"} \/ report

(* --code exists but cannot be listed and its diff is empty: the file      *)
(* scanners are recorded both as failed and as unchanged.                  *)
RecordedTwice == cfg.code = "unlistable" /\ DiffEmpty

(* registry.go: a base analyzer appears exactly once on every scan,        *)
(* whatever combination of flags, failures and cancellation led there, and *)
(* a child of the Python engine at most once, under a parent that ran.     *)
OneEntryEach ==
  Covered =>
    /\ \A a \in BaseAnalyzers :
         Len(status[a]) = IF RecordedTwice /\ a \in FileScanners /\ ~(a = "semgrep" /\ cfg.fast)
                            THEN 2 ELSE 1
    /\ \A n \in PythonChildren :
         /\ Len(status[n]) <= 1
         /\ status[n] # <<>> => child.state = "exited"

(* Where the status list is known not to tell that work was left undone:   *)
(* an interrupted sweep (WorkerPool), the sweep of a spec's own server     *)
(* without --url, a bare --diff, checks of a tree older than protocol 2,   *)
(* and an analyzer that passed over a part of its input: a manifest of     *)
(* pip, a file of a file scanner, an input of a Python check (all of an    *)
(* unusable --code that a --spec lets through), a plugin or a line of one, *)
(* requests to the target that got no answer.                              *)
Silent(n) ==
  \/ n \in {"dast", "active-probes"} /\ ctx = "interrupted"
  \/ n = "dast" /\ ~cfg.url
  \/ n \in CodeAnalyzers /\ cfg.diff = "bare"
  \/ n \in PythonChildren /\ child.protocol < 2
  \/ n \in passedOver

(* An analyzer that did not get its work done has an entry that says so,   *)
(* or, for a Python check that printed no line, a parent that does; and no *)
(* second entry takes it back.                                             *)
GapsAreRecorded ==
  /\ OneEntryEach
  /\ \A n \in missed :
       \/ n \in Gaps
       \/ n \in PythonChildren /\ status[n] = <<>> /\ "python-engine" \in Gaps
       \/ Silent(n)

(* What a pipeline may read into an exit code of 0 or 1: the report is     *)
(* there; under --fail-on-coverage-gap nothing was left undone, under      *)
(* --fail-on-scanner-error nothing but what is not installed, and no       *)
(* analyzer named by --require-analyzers was.                              *)
Passed == stage = "returned" /\ exitCode # 2

GatesHold ==
  Passed =>
    /\ report
    /\ "coverage_gap" \in cfg.gates => \A n \in missed : Silent(n)
    /\ "scanner_error" \in cfg.gates =>
         \A n \in missed : Silent(n) \/ "dependency_missing" \in Entries(n)
    /\ \A n \in cfg.required : n \notin missed \/ Silent(n) \/ (RecordedTwice /\ n \in FileScanners)

(* A python-engine entry that says ok: the child went through every check  *)
(* and ended by itself, every finding it printed was read, and under       *)
(* protocol 2 each check has the one entry its line gave it.               *)
PythonOkIsWhole ==
  "ok" \in Entries("python-engine") =>
    /\ child.clean /\ child.at = Printed /\ stream.findings = child.printed
    /\ child.protocol >= 2 => \A n \in PythonChildren : Len(status[n]) = 1

(* Ctrl-C and --max-duration bound the scan: once the context has ended    *)
(* Run returns, even from a Python child that never ends by itself, if     *)
(* what the tools it kills leave behind lets go of their output.           *)
OutputsClose == []<>~held
EndedScanReturns == OutputsClose => (ctx # "live" ~> stage = "returned")
=============================================================================
