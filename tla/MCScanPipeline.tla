--------------------------- MODULE MCScanPipeline ---------------------------
(***************************************************************************)
(* Model-checking instances of ScanPipeline: families of command lines,    *)
(* each varying the flags that interact and leaving the others at rest.    *)
(***************************************************************************)
EXTENDS ScanPipeline

Clean == [k \in FileKinds |-> [index |-> 0, tree |-> 0]]

(* `fendix scan --code': everything on that works by itself. *)
Code ==
  [url |-> FALSE, spec |-> "none", active |-> FALSE, maxRequests |-> FALSE, maxDuration |-> FALSE,
   code |-> "ok", fast |-> FALSE, nativeDeps |-> TRUE, offline |-> "no", pipAudit |-> "off",
   diff |-> "off", python |-> "off", tree |-> "v2", checks |-> {}, plugins |-> FALSE,
   imports |-> FALSE, gates |-> {}, required |-> {}, files |-> Clean]

Fast == [Code EXCEPT !.fast = TRUE]
NoCodeBase == [Code EXCEPT !.code = "none"]

Targets == [url : BOOLEAN, spec : {"none", "good", "bad"}] \ {[url |-> FALSE, spec |-> "none"]}

(* Black-box scans: every target and budget, with and without probes. *)
Blackbox ==
  {[NoCodeBase EXCEPT !.url = t.url, !.spec = t.spec, !.active = active, !.maxRequests = TRUE,
                      !.maxDuration = TRUE, !.gates = gates, !.imports = active] :
     t \in Targets, active \in BOOLEAN, gates \in {{}, {"coverage_gap"}, {"scanner_error"}}}
  \cup {[NoCodeBase EXCEPT !.url = TRUE, !.required = {"dast"}, !.maxRequests = TRUE]}

(* Diff scans of a tree with one changed kind of file, or none. *)
Changed(k, f) == [Clean EXCEPT ![k] = f]
Trees == {Clean, Changed("source", [index |-> 0, tree |-> 1])}
           \cup {Changed("py_manifest", [index |-> i, tree |-> 1]) : i \in 0..1}

DiffScans ==
  {[Code EXCEPT !.diff = diff, !.files = files, !.offline = "snapshot", !.code = code,
                !.required = {"secrets"}] :
     diff \in {"bare", "ref", "staged"}, code \in {"ok", "unlistable"},
     files \in Trees}
  \cup {[Fast EXCEPT !.diff = "ref", !.code = code] : code \in {"ok", "missing", "unlistable"}}

(* A diff scan in which pip is the one dependency scanner with work. *)
PipAlone == [Code EXCEPT !.diff = "ref", !.files = Changed("py_manifest", [index |-> 0, tree |-> 1])]

(* Dependency scanners: online with pip-audit asked for and not there (as  *)
(* without asking), pip through pip-audit, offline, not at all.            *)
DependencyScans ==
  {[Code EXCEPT !.pipAudit = "missing", !.gates = {"coverage_gap"}]}
  \cup {[PipAlone EXCEPT !.pipAudit = "installed", !.gates = Gates]}
  \cup {[Code EXCEPT !.offline = offline, !.gates = {"scanner_error"}] :
          offline \in {"snapshot", "no_snapshot"}}
  \cup {[Code EXCEPT !.required = {"pip"}, !.nativeDeps = FALSE, !.code = code] : code \in {"ok", "missing"}}

(* The Python engine: every tree, over a code tree, a spec or both.  Asked *)
(* for by name or not, it differs where there is no tree.                  *)
PythonScans ==
  {[Fast EXCEPT !.python = (IF tree = "missing" THEN python ELSE "auto"), !.tree = tree, !.spec = spec,
                !.code = code, !.plugins = (tree = "v2"), !.gates = {"coverage_gap"}] :
     python \in {"auto", "explicit"}, tree \in {"v2", "legacy", "missing"},
     spec \in {"none", "good"}, code \in {"ok", "missing"}}
  \cup {[NoCodeBase EXCEPT !.python = "explicit", !.spec = "good", !.checks = checks,
                           !.maxDuration = TRUE, !.required = {"python-engine/auth"}] :
          checks \in {{}, {"auth"}, {"deps"}}}

MCScans == Blackbox \cup DependencyScans \cup DiffScans \cup PythonScans
=============================================================================
