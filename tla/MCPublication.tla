---------------------------- MODULE MCPublication ----------------------------
(* Two jobs of one workflow run, or of its rerun; reports that share        *)
(* occurrences, join one to a ticketed finding, repeat an id, or hold what  *)
(* cannot be exported.                                                      *)
EXTENDS Publication
CONSTANTS j1, j2

Run(event, n) == [event |-> event, head |-> "sha", bound |-> TRUE, attempt |-> n, run |-> 1]
MCEnvs == {Run("pull_request", 1), Run("pull_request", 2), Run("push", 1)}

Own(category, source, affected) ==
  [Blank EXCEPT !.severity = "HIGH", !.category = category, !.source = source, !.confidence = "HIGH", !.affected = affected]
MCScans == {<<>>, <<Own("injection", "whitebox", {}), Own("secrets", "whitebox", {})>>,
            <<Own("injection", "imported", {})>>,
            <<Own("deps", "whitebox", {Unknown}), Own("deps", "whitebox", {}), Own("headers", "blackbox", {})>>}
Found(id, severity, occ, safe) == [id |-> id, severity |-> severity, occ |-> occ, own |-> "own", safe |-> safe]
MCReports == {
  <<Found(1, "HIGH", <<"a">>, TRUE)>>,
  <<Found(1, "CRITICAL", <<"b", "a", "b">>, TRUE), Found(2, "LOW", <<"c">>, TRUE)>>,
  <<Found(1, "CRITICAL", <<"c">>, FALSE), Found(1, "CRITICAL", <<>>, TRUE)>>,
  <<>>}
MCExecutions == {
  [a \in {"textscan", "semgrep", "pip", "secrets", "dast"} |->
     CASE a = "semgrep" -> "skipped" [] a = "pip" -> "failed" [] a = "dast" -> "not_applicable" [] OTHER -> "ok"]}
MCEdited == {[artifact |-> <<"by hand">>, findings |-> 1, analyzers |-> 1, bytes |-> 9]}
=============================================================================
