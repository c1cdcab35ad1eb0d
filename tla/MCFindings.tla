---------------------------- MODULE MCFindings ----------------------------
(* A hybrid target and its source: findings that pair by route, by endpoint *)
(* and by segment; static engines that meet at one place; credentials in    *)
(* production and in test code; and two imported tools.                     *)
EXTENDS Findings

Url(n, method, path) == [n |-> n, url |-> TRUE, method |-> method, path |-> path, line |-> 0, test |-> FALSE]
File(n, path, line, test) == [n |-> n, url |-> FALSE, method |-> "", path |-> path, line |-> line, test |-> test]
GetUser == Url(11, "GET", <<"v1", "users", "7">>)
GetOrders == Url(12, "GET", <<"v1", "orders">>)
UsersPy8 == File(2, <<"app", "users", "py">>, 8, FALSE)
UsersPy == File(3, <<"app", "users", "py">>, 10, FALSE)
ConfigPy == File(1, <<"app", "config", "py">>, 3, FALSE)
TestsPy == File(5, <<"tests", "config", "py">>, 5, TRUE)

MCBlackbox == {
  [Blank EXCEPT !.source = "blackbox", !.category = "injection", !.title = "SQL injection",
     !.severity = "HIGH", !.confidence = "HIGH", !.at = GetUser, !.probe = "quote", !.text = 1],
  [Blank EXCEPT !.source = "blackbox", !.category = "injection", !.title = "Boolean SQL injection",
     !.severity = "MEDIUM", !.confidence = "MEDIUM", !.at = GetUser, !.probe = "", !.text = 2],
  [Blank EXCEPT !.source = "blackbox", !.category = "headers", !.title = "Missing CSP",
     !.severity = "MEDIUM", !.confidence = "HIGH", !.at = GetUser, !.direct = TRUE, !.text = 3],
  [Blank EXCEPT !.source = "blackbox", !.category = "headers", !.title = "Missing CSP",
     !.severity = "MEDIUM", !.confidence = "HIGH", !.at = GetOrders, !.direct = TRUE,
     !.context = "4xx", !.text = 3],
  [Blank EXCEPT !.source = "blackbox", !.category = "data_exposure", !.title = "Key in response",
     !.severity = "MEDIUM", !.confidence = "LOW", !.at = GetOrders, !.text = 4]}

Secret == [Blank EXCEPT !.category = "secrets", !.title = "Stripe key", !.severity = "HIGH",
             !.confidence = "HIGH", !.tier = "native_go"]
MCCodeReports == <<
  [Secret EXCEPT !.at = ConfigPy, !.confidence = "MEDIUM", !.text = 1],
  [Secret EXCEPT !.at = TestsPy, !.placeholder = TRUE, !.anchored = TRUE, !.inTest = TRUE, !.text = 2],
  [Blank EXCEPT !.category = "deps", !.title = "CVE-1", !.severity = "HIGH", !.confidence = "HIGH",
     !.at = ConfigPy, !.notImported = TRUE],
  [Blank EXCEPT !.category = "injection", !.title = "SQL injection in query", !.severity = "HIGH",
     !.confidence = "MEDIUM", !.tier = "semgrep", !.at = UsersPy, !.refs = {"CWE-89"}, !.text = 1],
  [Blank EXCEPT !.category = "injection", !.title = "Tainted query", !.severity = "MEDIUM",
     !.confidence = "HIGH", !.tier = "tree_sitter", !.at = UsersPy, !.refs = {"CWE-89"},
     !.reachable = TRUE, !.chain = 1, !.route = [method |-> "GET", pattern |-> <<"v1", "users", "{}">>], !.text = 1],
  [Blank EXCEPT !.category = "injection", !.title = "Tainted query", !.severity = "HIGH",
     !.confidence = "MEDIUM", !.tier = "tree_sitter", !.at = UsersPy8, !.text = 2],
  [Blank EXCEPT !.category = "auth", !.title = "No authentication", !.severity = "HIGH",
     !.confidence = "HIGH", !.at = GetOrders, !.auth = "required"]>>

Rule(id, level, score, precision, cwes, title) ==
  [id |-> id, level |-> level, score |-> score, precision |-> precision, cwes |-> cwes, title |-> title]
Result(id, index, level, at, lineEnd, suppressions) ==
  [ruleId |-> id, ruleIndex |-> index, level |-> level, title |-> "reported", located |-> at # Unknown, at |-> at,
   lineEnd |-> lineEnd, suppressions |-> suppressions, cwes |-> {}]
(* One tool that confirms the tainted query; one that names a credential as *)
(* the native rule does, elsewhere; a document that is no SARIF.            *)
MCDocuments == <<
  <<[tool |-> "codeql", version |-> "2", rules |-> <<Rule("py/sql", "error", 88, "high", {"CWE-89"}, "SQL injection")>>,
     results |-> <<Result("py/sql", 1, "", UsersPy8, 0, {}), Result("py/sql", 7, "note", Unknown, 0, {}),
                   Result("py/sql", 0, "", UsersPy, 0, {"accepted"})>>]>>,
  <<[tool |-> "gitleaks", version |-> "8", rules |-> <<Rule("stripe", "", NoScore, "high", {"CWE-798"}, "Stripe key")>>,
     results |-> <<Result("stripe", 0, "error", File(4, <<"app", "pay", "py">>, 9, FALSE), 0, {"rejected"})>>]>>,
  <<>>>>

MCPolicies == {[version |-> 1, failOn |-> "HIGH", enforce |-> TRUE], [version |-> 2, failOn |-> ""]}
MCCommands == {[k \in {} |-> ""], [failOn |-> "SEVERE"], [failOn |-> "MEDIUM", enforce |-> FALSE]}
===========================================================================
