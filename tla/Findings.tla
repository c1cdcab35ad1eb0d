------------------------------ MODULE Findings ------------------------------
(***************************************************************************)
(* From what the engines reported to the exit code: the second half of     *)
(* Orchestrator.Run and finalize (internal/engine/orchestrator.go), with   *)
(* the grouping of dedup.go and occurrences.go.  Black-box evidence arrives*)
(* in any order, as workers deliver it; static analyzers report one after  *)
(* the other; imported documents are read last.  Then one action per stage.*)
(* Ignore rules and the baseline, which act between grouping and           *)
(* consistency, are in ScanHistory.                                        *)
(***************************************************************************)
EXTENDS Decision, SarifImport, Correlator

CONSTANTS
  Blackbox,     \* the evidence black-box checks may report
  CodeReports,  \* the evidence static analyzers may report, in their order
  Documents,    \* the SARIF documents --import may name, in order; <<>> cannot be parsed
  Policies,     \* the policy files a run may find
  Commands,     \* the settings a command line may make
  MaxEvidence   \* bound on the evidence of one scan

ASSUME FindingsAssumption == MaxEvidence \in Nat

(* What an engine may say: it fills in the published fields but those that  *)
(* later stages set, keeps to the vocabulary of the models package, and     *)
(* speaks of a probe or of a response only when it has sent a request.  No  *)
(* emitter sets InTest, which NewProvenanceIndex derives from the path.     *)
Severities == {"CRITICAL", "HIGH", "MEDIUM", "LOW", "INFO"}
Confidences == {"HIGH", "MEDIUM", "LOW"}
Contexts == {"", "4xx", "static-asset"}
Expectations == {"", "public", "required"}
Verdicts == {"", "applicable", "evidence_against"}
Tiers == {"", "native_go", "tree_sitter", "semgrep"}
IsLocation(at) == at.n \in Nat /\ at.line \in Nat
Emitted(e, source) ==
  /\ DOMAIN e = DOMAIN Blank /\ e.source = source /\ IsLocation(e.at) /\ e.text \in Nat
  /\ e.severity \in Severities /\ e.confidence \in Confidences
  /\ e.context \in Contexts /\ e.auth \in Expectations /\ e.applicability \in Verdicts
  /\ e.tier \in Tiers /\ {e.reachable, e.routeConfirmed, e.provenPath} \subseteq BOOLEAN
  /\ e.probe # "" \/ e.direct => source = "blackbox"
  /\ e.inTest => IsTestPath(e.at)
  /\ e.affected = {} /\ e.tools = {} /\ ~e.crossTool /\ ~e.routeConfirmed /\ ~e.provenPath
(* The locations evidence may name: the text of one is known by its number. *)
Locations ==
  {Unknown} \cup {e.at : e \in Blackbox \cup Range(CodeReports)}
            \cup {res.at : res \in UNION {Range(run.results) : run \in UNION {Range(doc) : doc \in Range(Documents)}}}
ASSUME EmittersAssumption ==
  /\ \A e \in Blackbox : Emitted(e, "blackbox") /\ e.at.url
  /\ CodeReports \in Seq(Range(CodeReports)) /\ \A e \in Range(CodeReports) : Emitted(e, "whitebox")
  /\ Documents \in Seq(Range(Documents))
  /\ \A doc \in Range(Documents) : doc \in Seq(Range(doc))
  /\ \A doc \in Range(Documents) : \A run \in Range(doc) :
       /\ run.results \in Seq(Range(run.results))
       /\ \A res \in Range(run.results) : IsLocation(res.at)
  /\ \A a, b \in Locations : a.n = b.n => a = b

VARIABLES
  stage,      \* what the run does next
  options,    \* the policy it decides under
  raw,        \* what the engines reported, in the order it arrived
  files,      \* the documents it imports
  evs,        \* the evidence, then the findings, of the stage
  stamped,    \* the evidence the provenance index was built from
  imports,    \* what the report says of the imported tools
  decisions,  \* the decision on each finding
  exit        \* the exit code, or Running
vars == <<stage, options, raw, files, evs, stamped, imports, decisions, exit>>

Running == -1
Failed == 2
Defaults == [failOn |-> "", enforce |-> TRUE, deescalate |-> TRUE, blockInapplicable |-> FALSE]

Init == /\ stage = "policy" /\ options = Defaults /\ raw = <<>> /\ files = {} /\ evs = <<>>
        /\ stamped = {} /\ imports = <<>> /\ decisions = <<>> /\ exit = Running

Rest == <<raw, files, evs, stamped, imports, decisions>>
Fail == stage' = "ended" /\ exit' = Failed /\ UNCHANGED <<options, Rest>>

LoadPolicy ==
  /\ stage = "policy"
  /\ \E file \in Policies, cli \in Commands :
       IF PolicyLoads(file)
       THEN /\ options' = ApplyPolicy(cli, file, Defaults) /\ stage' = "blackbox"
            /\ UNCHANGED <<Rest, exit>>
       ELSE Fail

(* Workers hand in their findings in any order.                             *)
ReportBlackbox ==
  /\ stage = "blackbox" /\ Len(raw) < MaxEvidence
  /\ \E e \in Blackbox \ Range(raw) : raw' = Append(raw, e)
  /\ UNCHANGED <<stage, options, files, evs, stamped, imports, decisions, exit>>

(* A static analyzer reports after those before it in the registry.         *)
ReportCode ==
  /\ stage \in {"blackbox", "code"} /\ Len(raw) < MaxEvidence
  /\ \E i \in DOMAIN CodeReports :
       /\ \A j \in DOMAIN CodeReports : j >= i => CodeReports[j] \notin Range(raw)
       /\ raw' = Append(raw, CodeReports[i])
  /\ stage' = "code"
  /\ UNCHANGED <<options, files, evs, stamped, imports, decisions, exit>>

(* Every document is read whole or the run ends.                            *)
Imported(F) == FlattenSeq([d \in DOMAIN Documents |-> IF d \in F THEN Normalize(Documents[d]) ELSE <<>>])
LoadImports ==
  /\ stage \in {"blackbox", "code"}
  /\ \E F \in SUBSET DOMAIN Documents :
       IF \E d \in F : Documents[d] = <<>>
       THEN Fail
       ELSE /\ files' = F /\ stage' = "correlate"
            /\ evs' = raw \o Imported(F)
            /\ imports' = ToolStats([d \in F |-> Documents[d]])
            /\ UNCHANGED <<options, raw, stamped, decisions, exit>>

Correlate ==
  /\ stage = "correlate" /\ stage' = "crosstool"
  /\ evs' = CorrelateEvidence(evs)
  /\ UNCHANGED <<options, raw, files, stamped, imports, decisions, exit>>

CrossTool ==
  /\ stage = "crosstool" /\ stage' = "escalate"
  /\ evs' = CorrelateCrossTool(evs)
  /\ stamped' = Range(CorrelateCrossTool(evs))
  /\ imports' = [t \in DOMAIN imports |->
                   [imports[t] EXCEPT !.corroborated =
                      IF t \in DOMAIN CollapsedByTool(evs) THEN CollapsedByTool(evs)[t] ELSE @]]
  /\ UNCHANGED <<options, raw, files, decisions, exit>>

(* From here on they are published findings.  A proven data flow no live    *)
(* scan joined in raises the severity by one.                               *)
EscalateReachable(f) == IF f.reachable /\ f.source # "correlated"
                        THEN [f EXCEPT !.severity = EscalateSeverity(@)] ELSE f
Escalate ==
  /\ stage = "escalate" /\ stage' = "collapse"
  /\ evs' = [i \in DOMAIN evs |-> EscalateReachable(Published(evs[i]))]
  /\ UNCHANGED <<options, raw, files, stamped, imports, decisions, exit>>

Collapse ==
  /\ stage = "collapse" /\ stage' = "group"
  /\ evs' = CollapseDuplicateLocations(evs)
  /\ UNCHANGED <<options, raw, files, stamped, imports, decisions, exit>>

(* --- grouping (dedup.go) ------------------------------------------------ *)
(* Mutant: imported findings share the native key space.                    *)
KeyOfText(f) == <<f.severity, f.category, f.title>>
(* Imported findings group apart, so that the confidence a foreign tool     *)
(* claims never reaches a native finding.                                   *)
DedupKey(f) == <<f.severity, f.category, f.title, f.source = "imported">>
MergeSource(a, b) == IF "correlated" \in {a, b} THEN "correlated"
                     ELSE IF "blackbox" \in {a, b} THEN "blackbox" ELSE a
(* The chain (or the route) of the member that has one; of two, the one     *)
(* whose holder sorts first, as the group stands when the member joins it.  *)
Prefer(a, b, none, x, y) ==
  CASE x = none -> y [] x # none /\ y = none -> x
    [] x # none /\ y # none /\ FindingLess(b, a) -> y [] OTHER -> x
(* Mutant: the proof of a group is that of its representative.              *)
ProofOfPrimary(g, f) ==
  [(IF FindingLess(f, g) THEN f ELSE g) EXCEPT
     !.source = MergeSource(g.source, f.source), !.refs = g.refs \cup f.refs,
     !.affected = g.affected \cup f.affected]
FoldMember(g, f) ==
  LET primary == IF FindingLess(f, g) THEN f ELSE g
  IN  [primary EXCEPT
        !.confidence = IF ConfidenceRank(f.confidence) > ConfidenceRank(g.confidence)
                       THEN f.confidence ELSE g.confidence,
        !.source = MergeSource(g.source, f.source),
        !.reachable = g.reachable \/ f.reachable,
        !.provenPath = g.provenPath \/ f.provenPath,
        !.routeConfirmed = g.routeConfirmed \/ f.routeConfirmed,
        !.tier = IF TrustRank(f.tier) > TrustRank(g.tier) THEN f.tier ELSE g.tier,
        !.chain = Prefer(g, f, 0, g.chain, f.chain),
        !.route = Prefer(g, f, NoRoute, g.route, f.route),
        !.refs = g.refs \cup f.refs,
        !.affected = g.affected \cup f.affected]
Seed(f) == [f EXCEPT !.affected = @ \cup {f.at}]
(* The finding of the group that starts at i, and one per key, in the order *)
(* their keys first appear.                                                 *)
GroupFrom(fs, i) ==
  LET later == At(fs, {j \in DOMAIN fs : j > i /\ DedupKey(fs[j]) = DedupKey(fs[i])})
  IN  FoldLeft(LAMBDA g, f : FoldMember(g, Seed(f)), Seed(fs[i]), later)
Single(g) == IF Cardinality(g.affected) > 1 THEN g ELSE [g EXCEPT !.affected = {}]
Firsts(fs) == {i \in DOMAIN fs : \A j \in 1 .. i - 1 : DedupKey(fs[j]) # DedupKey(fs[i])}
Deduplicate(fs) == At([i \in DOMAIN fs |-> Single(GroupFrom(fs, i))], Firsts(fs))

Group ==
  /\ stage = "group" /\ stage' = "consistency"
  /\ evs' = Deduplicate(evs)
  /\ UNCHANGED <<options, raw, files, stamped, imports, decisions, exit>>

Consistency ==
  /\ stage = "consistency" /\ stage' = "decide"
  /\ evs' = [i \in DOMAIN evs |-> EnforceSeverityConsistency(evs[i])]
  /\ UNCHANGED <<options, raw, files, stamped, imports, decisions, exit>>

(* A threshold that is no severity is an error, never no threshold.         *)
StampDecisions(fs, index, o) ==
  [i \in DOMAIN fs |-> DecideWithOptions(Restored(index, fs[i]), o.failOn, o)]
Decide ==
  /\ stage = "decide"
  /\ IF options.failOn \in FailOns
     THEN /\ decisions' = StampDecisions(evs, stamped, options)
          /\ evs' = [i \in DOMAIN evs |-> Restored(stamped, evs[i])]
          /\ stage' = "exit"
          /\ UNCHANGED <<options, raw, files, stamped, imports, exit>>
     ELSE Fail

Exit ==
  /\ stage = "exit" /\ stage' = "ended"
  /\ exit' = ExitCode(Range(decisions))
  /\ UNCHANGED <<options, Rest>>

Next == \/ LoadPolicy \/ ReportBlackbox \/ ReportCode \/ LoadImports \/ Correlate \/ CrossTool
        \/ Escalate \/ Collapse \/ Group \/ Consistency \/ Decide \/ Exit
Spec == Init /\ [][Next]_vars

-----------------------------------------------------------------------------
(* What the stages make of what the engines reported, the one element of a  *)
(* set.                                                                     *)
Pipeline(native, F) ==
  LET correlated == {CorrelateCrossTool(e) : e \in {CorrelateEvidence(n) : n \in {native \o Imported(F)}}}
      published(c) == [i \in DOMAIN c |-> EscalateReachable(Published(c[i]))]
      grouped(c) == {Deduplicate(l) : l \in {CollapseDuplicateLocations(p) : p \in {published(c)}}}
  IN  UNION {{[index |-> Range(c), findings |-> [i \in DOMAIN g |-> EnforceSeverityConsistency(g[i])]]
                : g \in grouped(c)} : c \in correlated}
Restorations(outcome) == {Restored(outcome.index, f) : f \in Range(outcome.findings)}
Hybrid == HasSource(raw, "whitebox") /\ HasSource(raw, "blackbox")
AtExit == stage = "exit"
IsImport(f) == f.source = "imported"
Places(f) == {f.at} \cup f.affected
Covers(f, e) == /\ f.category = e.category /\ f.title = e.title /\ IsImport(f) = IsImport(e)
                /\ e.at \in Places(f)
(* Another static engine, more trusted or as trusted, reports the place; or *)
(* so does e's own once more, and collapsing keeps one of the two.          *)
Rivals(e, S) == {x \in S \ {e} : {x.source, e.source} = {"whitebox"} /\ x.category = e.category /\ x.at = e.at}
Outranked(e, S) == \E x \in Rivals(e, S) : x.tier # e.tier /\ TrustRank(x.tier) >= TrustRank(e.tier)
Contested(e, S) == Outranked(e, S) \/ \E x, y \in Rivals(e, S) : x.tier = e.tier /\ y.tier # e.tier

(* Workers finish in any order, and nothing the user reads of a finding     *)
(* that decides, its severity, places, proof flags or status, may depend on *)
(* it ("F-L6").  Said of scans in which no pairing happens: which of several*)
(* black-box findings a white-box one is paired with does follow arrival.   *)
Facts(f) == [k \in DOMAIN f \ {"chain", "route", "refs"} |-> f[k]]
StatusIgnoresOrder ==
  AtExit /\ ~Hybrid =>
    \A p \in Bijection(DOMAIN raw, DOMAIN raw) :
      \A other \in Pipeline([i \in DOMAIN raw |-> raw[p[i]]], files) :
        {<<Facts(f), DecideWithOptions(f, options.failOn, options)>> : f \in Restorations(other)}
          = {<<Facts(evs[i]), decisions[i]>> : i \in DOMAIN evs}

(* Of two static findings of one category at one place one comes first, as  *)
(* collapsing compares them, or they say the same.                          *)
Untied(S) ==
  LET published(e) == EscalateReachable(Published(e))
  IN  \A a, b \in S :
        /\ {a.source, b.source} = {"whitebox"} /\ a.category = b.category /\ a.at = b.at
        /\ ~DuplicateLess(published(a), published(b)) /\ ~DuplicateLess(published(b), published(a))
        => Facts(published(a)) = Facts(published(b))

(* The folds from evidence to finding keep every proof and mint none: a     *)
(* data flow, a corroborating tool or a provider's signature reaches the    *)
(* finding that stands for its evidence, and comes only from evidence that  *)
(* had it; a group is test code only if all of it is.                       *)
ProofSurvives ==
  AtExit =>
    /\ \A e \in stamped : ~Contested(e, stamped) =>
         \E f \in Range(evs) : /\ Covers(f, e)
                               /\ e.reachable => f.reachable
                               /\ e.provenPath => f.provenPath
                               /\ e.anchored => f.anchored
                               /\ e.tools \subseteq f.tools
    /\ \A f \in Range(evs) :
         LET own == {e \in stamped : Identity(e) \in {<<f.category, l, f.title>> : l \in Places(f)}}
         IN  /\ f.reachable => \E e \in own : e.reachable
             /\ f.anchored => \E e \in own : e.anchored
             /\ f.tools = UNION {e.tools : e \in own}
             /\ f.inTest => \A e \in own : e.inTest \/ IsTestPath(e.at)

(* What another tool says reaches a native finding's verdict only through a *)
(* strong match: a native finding no tool corroborates is decided as it     *)
(* would be without the import.  An import that shares category, place and  *)
(* title with a native finding is the exception (see README).               *)
ImportsNeedAStrongMatch ==
  AtExit /\ (\A e \in Range(Imported(files)) : \A x \in Range(raw) : Identity(x) # Identity(e)) =>
    \A without \in Pipeline(raw, {}) : \A i \in DOMAIN evs :
      ~IsImport(evs[i]) /\ ~evs[i].crossTool =>
        \E f \in Restorations(without) :
          /\ <<f.severity, f.category, f.title>> = <<evs[i].severity, evs[i].category, evs[i].title>>
          /\ decisions[i] = DecideWithOptions(f, options.failOn, options)

(* Whatever a finding in production code of MEDIUM severity or more is      *)
(* paired, grouped or de-escalated with, the report still shows it as       *)
(* something to act on.  The engine another one outranks at its place has   *)
(* been replaced by it.                                                     *)
Standing(category, at) ==
  \E i \in DOMAIN evs : /\ evs[i].category = category /\ at \in Places(evs[i])
                        /\ decisions[i].status \in {"BLOCK", "WARN"}
ProductionStaysVisible ==
  AtExit => \A e \in Range(raw) :
    /\ SeverityRank(e.severity) >= SeverityRank("MEDIUM")
    /\ ~IsTestPath(e.at) /\ ~e.inTest /\ ~Outranked(e, Range(raw))
    => \/ Standing(e.category, e.at)
       \/ Hybrid /\ \E p \in Pairing(raw).pairs : e \in {p[1], p[2]} /\ Standing(p[1].category, p[1].at)

(* A relaxed run says of a block that the shipped policy would have held it *)
(* exactly when it would, whatever gate acts after the confidence gate.     *)
RelaxedSaysWhatItOverrode ==
  AtExit /\ ~options.enforce =>
    \A i \in DOMAIN evs :
      decisions[i].override <=>
        /\ decisions[i].status = "BLOCK"
        /\ DecideWithOptions(evs[i], options.failOn, [options EXCEPT !.enforce = TRUE]).status # "BLOCK"

(* The contract refuses a document in which one finding contradicts itself  *)
(* or names no analyzer, and a managed scan that cannot export ends in error*)
(* with no report: whatever pairing, grouping and restoring did, no finding *)
(* of the engine's own is refused (document.go:313, consistency.go).        *)
Managed == INSTANCE ManagedEvidence WITH MaxFindings <- 10000, MaxAnalyzers <- 200, MaxBodyBytes <- 8388608
OwnFindingsExport ==
  AtExit => \A i \in {j \in DOMAIN evs : ~IsImport(evs[j])} :
              LET facts == Managed!FactsFrom(evs[i])
              IN  /\ Managed!AttributeFinding(evs[i]) # "" /\ Managed!Mappable(facts)
                  /\ Managed!Consistent(facts, evs[i].severity)

(* What decision.go says of a credential a provider signed: a label never   *)
(* pushes one whose severity met the threshold below WARN.                  *)
AnchoredStaysVisible ==
  AtExit => \A e \in Range(raw) :
    e.anchored /\ AboveThreshold(e, options.failOn) => Standing(e.category, e.at)
=============================================================================
