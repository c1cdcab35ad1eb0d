----------------------------- MODULE SarifImport -----------------------------
(***************************************************************************)
(* The evidence another scanner's SARIF document becomes (sarifimport).    *)
(*                                                                         *)
(* A document is a sequence of runs [tool, version, rules, results].  A    *)
(* rule is [id, level, score, precision, cwes, title]; score is its        *)
(* security severity in tenths, or NoScore.  A result is [ruleId,          *)
(* ruleIndex, level, title, suppressions, cwes, located, at, lineEnd]; its *)
(* ruleIndex counts from 1, 0 when it has none.                            *)
(***************************************************************************)
EXTENDS Evidence, SequencesExt

NoScore == -1
NoRule == [id |-> "", level |-> "", score |-> NoScore, precision |-> "", cwes |-> {}, title |-> ""]

(* One suppression that is accepted, or has no status, suppresses.          *)
IsSuppressed(res) == res.suppressions \cap {"", "accepted"} # {}

(* A valid index into the rules wins over the rule's id; of rules with the  *)
(* same id, the last.                                                       *)
ResolveRule(res, rules) ==
  LET named == {i \in DOMAIN rules : rules[i].id = res.ruleId}
  IN  IF res.ruleIndex \in DOMAIN rules THEN rules[res.ruleIndex]
      ELSE IF named # {} THEN rules[Max(named)] ELSE NoRule
ResolveLevel(res, rule) == IF res.level # "" THEN res.level
                           ELSE IF rule.level # "" THEN rule.level ELSE "warning"

MapSeverity(level, rule) ==
  IF rule.score # NoScore
  THEN IF rule.score >= 90 THEN "CRITICAL" ELSE IF rule.score >= 70 THEN "HIGH"
       ELSE IF rule.score >= 40 THEN "MEDIUM" ELSE "LOW"
  ELSE CASE level = "error" -> "HIGH" [] level \in {"note", "none"} -> "INFO" [] OTHER -> "MEDIUM"
MapConfidence(level, rule) ==
  CASE rule.precision \in {"very-high", "high"} -> "HIGH"
    [] rule.precision = "medium" -> "MEDIUM"
    [] rule.precision = "low" -> "LOW"
    [] OTHER -> IF level = "error" THEN "HIGH" ELSE IF level \in {"note", "none"} THEN "LOW" ELSE "MEDIUM"

(* The category of the first weakness, in string order, that has one.       *)
CweOrder == <<"CWE-798", "CWE-89">>
CweToCategory == [c \in CWEs |-> IF c = "CWE-89" THEN "injection" ELSE "secrets"]
MapCategory(cwes, tool) ==
  LET known == SelectSeq(CweOrder, LAMBDA c : c \in cwes)
  IN  IF known # <<>> THEN CweToCategory[known[1]] ELSE "import/" \o tool

NormalizeLocation(res) == IF res.located THEN res.at ELSE Unknown
NormalizeResult(res, run) ==
  LET rule == ResolveRule(res, run.rules)
      level == ResolveLevel(res, rule)
      cwes == (rule.cwes \cup res.cwes) \cap CWEs
      at == NormalizeLocation(res)
  IN  [Blank EXCEPT
        !.source = "imported",
        !.title = IF rule.title # "" THEN rule.title ELSE res.title,
        !.severity = MapSeverity(level, rule), !.confidence = MapConfidence(level, rule),
        !.category = MapCategory(cwes, run.tool), !.at = at,
        !.lineEnd = IF at.line = 0 \/ res.lineEnd < at.line THEN 0 ELSE res.lineEnd,
        !.weakness = cwes, !.tool = run.tool, !.refs = cwes \cup {"tool:" \o run.tool},
        !.text = at.n]

(* A document is the evidence of its results that are not suppressed, run   *)
(* by run; the counts are kept per tool, over every document of a command,  *)
(* and a tool that reports two versions reports none.                       *)
Normalize(doc) ==
  FlattenSeq([r \in DOMAIN doc |->
     LET kept == At(doc[r].results, {i \in DOMAIN doc[r].results : ~IsSuppressed(doc[r].results[i])})
     IN  [i \in DOMAIN kept |-> NormalizeResult(kept[i], doc[r])]])

ToolStats(docs) ==
  LET runs == UNION {{<<d, r>> : r \in DOMAIN docs[d]} : d \in DOMAIN docs}
      of(t) == {x \in runs : docs[x[1]][x[2]].tool = t}
      count(t, P(_)) == Cardinality(UNION {{<<x, i>> : i \in
                           {j \in DOMAIN docs[x[1]][x[2]].results : P(docs[x[1]][x[2]].results[j])}} : x \in of(t)})
      versions(t) == {docs[x[1]][x[2]].version : x \in of(t)}
  IN  [t \in {docs[x[1]][x[2]].tool : x \in runs} |->
         [version |-> IF Cardinality(versions(t)) = 1 THEN CHOOSE v \in versions(t) : TRUE ELSE "",
          results |-> count(t, LAMBDA res : ~IsSuppressed(res)),
          suppressed |-> count(t, IsSuppressed),
          noLocation |-> count(t, LAMBDA res : ~IsSuppressed(res) /\ ~res.located),
          corroborated |-> 0]]
=============================================================================
