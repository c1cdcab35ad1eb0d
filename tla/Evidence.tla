------------------------------ MODULE Evidence ------------------------------
(***************************************************************************)
(* One piece of evidence, the confidence score it earns and the folds that *)
(* carry its provenance across the published finding (internal/evidence,   *)
(* internal/confidence, models/scoring.go).                                *)
(*                                                                         *)
(* A location is a record: n, its place in string order; url, whether it   *)
(* names a route; the method in front of it; its path as a sequence of     *)
(* segments; the line after it; and whether its path is test code.  The    *)
(* probe of an evidence stands for the payload and the response it quotes  *)
(* together; text stands for its snippet, fix and line, in string order.   *)
(***************************************************************************)
EXTENDS Integers, Sequences, FiniteSets, FiniteSetsExt, Functions

SeverityRank(s) == CASE s = "CRITICAL" -> 5 [] s = "HIGH" -> 4 [] s = "MEDIUM" -> 3
                     [] s = "LOW" -> 2 [] s = "INFO" -> 1 [] OTHER -> 0
ConfidenceRank(c) == CASE c = "HIGH" -> 3 [] c = "MEDIUM" -> 2 [] c = "LOW" -> 1 [] OTHER -> 0
TrustRank(tier) == CASE tier = "tree_sitter" -> 3 [] tier = "native_go" -> 2 [] tier = "semgrep" -> 0
                     [] OTHER -> 1

EscalateSeverity(s) == CASE s = "INFO" -> "LOW" [] s = "LOW" -> "MEDIUM" [] s = "MEDIUM" -> "HIGH"
                         [] s = "HIGH" -> "CRITICAL" [] OTHER -> s
HigherSeverity(a, b) == IF SeverityRank(a) >= SeverityRank(b) THEN a ELSE b
MaxSeverityForConfidence(c) == CASE c = "LOW" -> "MEDIUM" [] c = "MEDIUM" -> "HIGH" [] OTHER -> "CRITICAL"
EnforceSeverityConsistency(f) ==
  LET cap == MaxSeverityForConfidence(f.confidence)
  IN  IF SeverityRank(f.severity) > SeverityRank(cap) THEN [f EXCEPT !.severity = cap] ELSE f

(* The elements of a sequence at the indices in S, in order.                *)
At(seq, S) ==
  LET I == S \cap DOMAIN seq
  IN  [n \in 1 .. Cardinality(I) |-> seq[CHOOSE i \in I : Cardinality({k \in I : k < i}) = n - 1]]

(* The classification of a location (models/testpath.go): only a source     *)
(* file can be test code.                                                   *)
IsTestPath(at) == at.test /\ ~at.url

HasStatic(e) == e.source \in {"whitebox", "correlated"}
HasRuntime(e) == e.source \in {"blackbox", "correlated"}
HasDeterministicDetection(e) ==
  HasStatic(e) /\ e.confidence = "HIGH" /\ e.tier # "semgrep" /\ ~e.inTest /\ ~e.placeholder

(* The terms Score adds up, in the code's order, and the clamp at its end.  *)
When(holds, delta) == IF holds THEN delta ELSE 0
ScoreTerms(e) == <<
  When(HasStatic(e), 10), When(HasRuntime(e), 10), When(e.source = "correlated", 25),
  When(e.source = "imported", 10),
  When(e.source = "imported" /\ e.confidence = "HIGH", 25),
  When(e.source = "imported" /\ e.confidence = "LOW", -10),
  When(e.routeConfirmed, 10), When(e.reachable, 10), When(e.provenPath, 5),
  When(e.probe # "", 10), When(HasRuntime(e) /\ e.direct, 30),
  When(HasDeterministicDetection(e), 30),
  When(e.tier = "tree_sitter", 5), When(e.tier = "semgrep", -5),
  When(e.crossTool, 15), When(e.context \in {"4xx", "static-asset"}, -15),
  When(e.placeholder, -20), When(e.notImported, -10)>>
Clamp(v, lo, hi) == IF v < lo THEN lo ELSE IF v > hi THEN hi ELSE v
Score(e) == Clamp(35 + FoldFunction(+, 0, ScoreTerms(e)), 0, 100)
BandFor(score) == IF score >= 70 THEN "HIGH" ELSE IF score >= 40 THEN "MEDIUM" ELSE "LOW"

ApplicabilityOf(e) == IF e.applicability # "" THEN e.applicability
                      ELSE IF e.notImported THEN "evidence_against" ELSE ""

(* A CWE is named by its reference; a foreign tool's weaknesses are its own.*)
CWEs == {"CWE-89", "CWE-798"}
StampWeakness(e) == IF e.source # "imported" /\ e.weakness = {}
                    THEN [e EXCEPT !.weakness = e.refs \cap CWEs] ELSE e

(* An evidence as an emitter starts it: everything it does not say is empty.*)
NoRoute == [method |-> "", pattern |-> <<>>]
Unknown == [n |-> 0, url |-> FALSE, method |-> "", path |-> <<"unknown">>, line |-> 0, test |-> FALSE]
Blank ==
  [source |-> "whitebox", category |-> "", title |-> "", severity |-> "INFO", confidence |-> "LOW",
   tier |-> "", at |-> Unknown, affected |-> {}, text |-> 0, refs |-> {},
   reachable |-> FALSE, chain |-> 0, route |-> NoRoute, routeConfirmed |-> FALSE, provenPath |-> FALSE,
   probe |-> "", context |-> "", inTest |-> FALSE, direct |-> FALSE, unconfirmed |-> FALSE,
   placeholder |-> FALSE, anchored |-> FALSE, notImported |-> FALSE, applicability |-> "", auth |-> "",
   weakness |-> {}, tool |-> "", lineEnd |-> 0, crossTool |-> FALSE, tools |-> {}]

-----------------------------------------------------------------------------
(* What crosses the projection to a published finding and back             *)
(* (ToFinding, FromFinding): every internal field starts empty again.      *)
NoProvenance == [probe |-> "", context |-> "", inTest |-> FALSE, direct |-> FALSE,
                 unconfirmed |-> FALSE, placeholder |-> FALSE, notImported |-> FALSE,
                 anchored |-> FALSE, crossTool |-> FALSE, tools |-> {}, auth |-> "",
                 applicability |-> ""]
NoIdentity == [weakness |-> {}, tool |-> "", lineEnd |-> 0]
Overlay(e, fields) == [k \in DOMAIN e |-> IF k \in DOMAIN fields THEN fields[k] ELSE e[k]]
Published(e) == Overlay(Overlay(e, NoProvenance), NoIdentity)

(* The scoring provenance of an evidence and of an identity: whether a path *)
(* is test code is derived here, from the location of each occurrence.      *)
Provenance(e) == [k \in DOMAIN NoProvenance |->
                    IF k = "inTest" THEN e.inTest \/ IsTestPath(e.at) ELSE e[k]]
Identity(e) == <<e.category, e.at, e.title>>

(* Mutant: one occurrence speaks for the group.                             *)
EitherOf(a, b, none) == IF a = none THEN b ELSE a
AgreementOr(a, b, none) == IF a = b THEN a ELSE none
(* Mutant: the flag of a corroborated finding is kept only if all agree.    *)
FlagByAgreement(a, b) ==
  [k \in DOMAIN NoProvenance |->
     CASE k = "anchored" -> a.anchored \/ b.anchored
       [] k = "tools" -> a.tools \cup b.tools
       [] OTHER -> AgreementOr(a[k], b[k], NoProvenance[k])]
(* Both sides must agree, or the field is dropped; a provider's signature   *)
(* and the tools that corroborated are kept by union.                       *)
MergeScoringProvenance(a, b) ==
  [k \in DOMAIN NoProvenance |->
     CASE k = "anchored" -> a.anchored \/ b.anchored
       [] k = "tools" -> a.tools \cup b.tools
       [] k = "crossTool" -> a.tools \cup b.tools # {}
       [] OTHER -> AgreementOr(a[k], b[k], NoProvenance[k])]
MergeAll(ps) == IF ps = {} THEN NoProvenance
                ELSE LET first == CHOOSE p \in ps : TRUE
                     IN  FoldSet(MergeScoringProvenance, first, ps \ {first})

(* The index over a set of evidence, the lookup of a grouped finding over   *)
(* every location it affects, and the restore: only empty fields are filled.*)
IndexAt(evs, identity) == MergeAll({Provenance(e) : e \in {x \in evs : Identity(x) = identity}})
Lookup(evs, f) ==
  LET at(l) == IndexAt(evs, <<f.category, l, f.title>>)
  IN  MergeAll({at(l) : l \in {f.at} \cup f.affected})
Restored(evs, f) ==
  LET p == Lookup(evs, f)
  IN  [k \in DOMAIN f |-> IF k \in DOMAIN p /\ f[k] = NoProvenance[k] THEN p[k] ELSE f[k]]
=============================================================================
