--------------------------- MODULE ManagedEvidence ---------------------------
(***************************************************************************)
(* The submission a managed scan hands to the backend: the facts of each   *)
(* finding, the analyzers that attest to them and the rules the document   *)
(* must keep (internal/managedci: facts, consistency, analyzers, export,   *)
(* document, githubcontext).  "" stands for a value the contract has none  *)
(* for, {} for a document that was refused.                                *)
(*                                                                         *)
(* A category stands for the dependency or secret reference its findings   *)
(* carry; bytes is the size of a serialized document, one unit for a       *)
(* finding and one for each further place it affects.                      *)
(***************************************************************************)
EXTENDS Evidence

CONSTANTS MaxFindings, MaxAnalyzers, MaxBodyBytes   \* the contract's ceilings

ASSUME CeilingsAssumption == {MaxFindings, MaxAnalyzers, MaxBodyBytes} \subseteq Nat

AnalyzerImplementation(tier) ==
  CASE tier = "native_go" -> "native" [] tier \in {"tree_sitter", "semgrep"} -> tier [] OTHER -> "unspecified"
ObservationSource(s) == IF s \in {"whitebox", "blackbox", "correlated", "imported"} THEN s ELSE ""
RulePrecision(c) == IF ConfidenceRank(c) > 0 THEN c ELSE ""
ResponseContextOf(tag) ==
  CASE tag = "" -> "none" [] tag = "4xx" -> "client_error" [] tag = "static-asset" -> "static_asset" [] OTHER -> ""
AuthExpectation(a) == CASE a = "" -> "unknown" [] a \in {"public", "required"} -> a [] OTHER -> ""
(* The superseded flag of a component nobody imports counts as the verdict. *)
DependencyApplicability(e) ==
  CASE ApplicabilityOf(e) = "" -> "unknown"
    [] ApplicabilityOf(e) \in {"applicable", "evidence_against"} -> ApplicabilityOf(e) [] OTHER -> ""

(* What the engine observed, one field for one: never what it concluded.    *)
FactsFrom(e) ==
  [implementation |-> AnalyzerImplementation(e.tier), auth |-> AuthExpectation(e.auth),
   tools |-> e.tools \ {""}, crossTool |-> e.crossTool, payload |-> e.probe # "",
   applicability |-> DependencyApplicability(e), direct |-> e.direct, fixture |-> e.placeholder,
   inTest |-> e.inTest, source |-> ObservationSource(e.source), provenPath |-> e.provenPath,
   anchored |-> e.anchored, reachable |-> e.reachable, context |-> ResponseContextOf(e.context),
   routeConfirmed |-> e.routeConfirmed, precision |-> RulePrecision(e.confidence),
   unconfirmed |-> e.unconfirmed]
Mappable(facts) == "" \notin {facts.auth, facts.applicability, facts.source, facts.context, facts.precision}

SeverityCap(precision) == CASE precision = "LOW" -> "MEDIUM" [] precision = "MEDIUM" -> "HIGH" [] OTHER -> "CRITICAL"
(* Facts that do not contradict each other.                                 *)
Consistent(facts, severity) ==
  LET live == facts.source \in {"blackbox", "correlated"}
  IN  /\ facts.crossTool <=> facts.tools # {}
      /\ facts.provenPath => facts.routeConfirmed /\ facts.reachable /\ facts.implementation # "semgrep"
      /\ facts.direct => live
      /\ facts.payload => live
      /\ SeverityRank(severity) <= SeverityRank(SeverityCap(facts.precision))

-----------------------------------------------------------------------------
(* The contract's analyzers and the engine's analyzers that back them.      *)
Families == [sast |-> {"textscan", "semgrep", "python-engine", "python-engine/auth", "python-engine/injection", "plugins"},
             sca |-> {"govulncheck", "pip", "npm", "python-engine/deps"},
             secrets |-> {"secrets"},
             dast |-> {"dast", "spec", "active-probes"}]
AttributeFinding(e) ==
  IF e.category = "deps" THEN "sca" ELSE IF e.category = "secrets" THEN "secrets"
  ELSE IF e.source \in {"whitebox", "correlated"} THEN "sast" ELSE IF e.source = "blackbox" THEN "dast" ELSE ""
FamiliesOf(names) == {f \in DOMAIN Families : Families[f] \cap names # {}}

(* Any failure wins, then anything that ran, then why nothing did.          *)
Aggregate(states) ==
  IF "failed" \in states THEN "failed" ELSE IF "ok" \in states THEN "completed"
  ELSE IF "skipped" \notin states /\ "not_applicable" \in states THEN "not_applicable" ELSE "skipped"
(* One entry per family that had a member in this scan.                     *)
BuildAnalyzers(executions, counts) ==
  {[id |-> f, count |-> counts[f],
    status |-> Aggregate({executions[a] : a \in Families[f] \cap DOMAIN executions})]
     : f \in FamiliesOf(DOMAIN executions)}
Observed(analyzers) == {a.id : a \in {x \in analyzers : x.status = "completed"}}
Gaps(analyzers) == {a.id : a \in {x \in analyzers : x.status \in {"failed", "skipped"}}}
CountByAnalyzer(findings) ==
  [f \in DOMAIN Families |-> Cardinality({i \in DOMAIN findings : AttributeFinding(findings[i]) = f})]

(* The parts of a manifest account for each other.                          *)
CheckProvenance(analyzers, findings, observed) ==
  /\ \A a, b \in analyzers : a.id = b.id => a = b
  /\ \A f \in findings : \E a \in analyzers : a.id = f.analyzer
  /\ \A a \in analyzers : a.count = Cardinality({f \in findings : f.analyzer = a.id})
  /\ observed \subseteq {a.id : a \in analyzers}

(* A pull-request run names itself; it makes up no part of its identity.    *)
ContextFromEnv(env) ==
  IF env.event = "pull_request" /\ env.head # "" /\ env.bound /\ env.attempt >= 1
  THEN {[run |-> env.run, attempt |-> env.attempt, head |-> env.head]} ELSE {}
IdempotencyKey(context) == <<context.run, context.attempt, context.head>>

OverCeiling(doc) ==
  \/ doc.bytes > MaxBodyBytes \/ doc.findings > MaxFindings \/ doc.analyzers > MaxAnalyzers
(* A document is recognised by its artifact, which leaves out when it was   *)
(* built but not how long each analyzer took.                               *)
Bytes(findings) == FoldSet(LAMBDA f, n : n + 1 + f.more, 0, findings)
Submission(context, analyzers, findings, id, duration) ==
  [key |-> IdempotencyKey(context), submission |-> id, artifact |-> <<analyzers, findings, duration>>,
   findings |-> Cardinality(findings), analyzers |-> Cardinality(analyzers), bytes |-> Bytes(findings)]
(* {} when anything the backend would refuse, or could not classify, is in. *)
Build(context, analyzers, findings, id, duration) ==
  LET doc == Submission(context, analyzers, findings, id, duration)
  IN  IF /\ CheckProvenance(analyzers, findings, Observed(analyzers))
         /\ \A f \in findings : Consistent(f.facts, f.severity)
         /\ ~OverCeiling(doc)
      THEN {doc} ELSE {}
Export(context, evs, executions, id, duration) ==
  LET counts == CountByAnalyzer(evs)
      finding(i) == [id |-> i, analyzer |-> AttributeFinding(evs[i]), facts |-> FactsFrom(evs[i]),
                     severity |-> evs[i].severity, more |-> Cardinality(evs[i].affected)]
      findings == {finding(i) : i \in DOMAIN evs}
  IN  IF \A f \in findings : f.analyzer # "" /\ Mappable(f.facts)
      THEN Build(context, BuildAnalyzers(executions, counts), findings, id, duration) ELSE {}
=============================================================================
