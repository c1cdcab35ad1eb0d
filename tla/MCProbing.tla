----------------------------- MODULE MCProbing -----------------------------
(***************************************************************************)
(* Scenes for Probing: for every check a target without flaws, with each   *)
(* flaw and with what may mislead the check; pairs of checks on one        *)
(* endpoint that together pass the cap; GraphQL on two endpoints.          *)
(***************************************************************************)
EXTENDS Probing

Check(name) == [check |-> name, ep |-> "ep1"]

Base == [method |-> "GET", expect |-> "unknown", targets |-> <<>>, objectId |-> FALSE,
         static |-> FALSE, leakPath |-> FALSE, graphqlPaths |-> {}, active |-> TRUE,
         auth |-> "jwt", user2 |-> TRUE, https |-> TRUE, route |-> "ordinary",
         cookies |-> {}, traits |-> {}, running |-> {}]

Query == [at |-> "query", url |-> FALSE]
QueryUrl == [at |-> "query", url |-> TRUE]
Header == [at |-> "header", url |-> FALSE]

\* One check, on each of the trait sets.
Alone(s, name, traitSets) == {[s EXCEPT !.running = {Check(name)}, !.traits = t] : t \in traitSets}

Singles(S) == {{}} \cup {{t} : t \in S}

Payload ==
    Alone(Base, "injection", Singles({"sqliTime", "sqliError", "sqliBool", "cmdi", "crlf", "laggy", "dynamic"}))
    \cup Alone([Base EXCEPT !.targets = <<Header>>], "injection", {{"crlf"}})
    \cup Alone([Base EXCEPT !.targets = <<[Query EXCEPT !.at = "body"]>>], "injection", {{"crlf", "cmdi"}})
    \cup Alone([Base EXCEPT !.targets = <<Query, [Query EXCEPT !.at = "body"]>>], "xss",
               SUBSET {"xssRaw", "echoJson", "errorPage"})
    \cup Alone(Base, "open-redirect", Singles({"redirOpen", "redirSuffix", "redirScheme", "redirOwn"}))
    \cup Alone([Base EXCEPT !.targets = <<Query, QueryUrl>>], "ssrf",
               Singles({"ssrfLeak", "ssrfForward", "ssrfBlocks", "echo", "backend", "laggy"})
               \cup {{"ssrfLeak", "down"}, {"echo", "backend"}})
    \cup Alone(Base, "ssrf", {{"ssrfLeak"}})
    \cup Alone(Base, "host-header", Singles({"hhRedirect", "hhLink", "mention"})
               \cup {{"hhRedirect", "hhLink"}, {"hhLink", "hhReset"}, {"hhLink", "mention"}, {"hhRedirect", "absent"}})

Access ==
    UNION { Alone([Base EXCEPT !.auth = a, !.expect = e], "auth",
                  Singles({"open", "gone"})
                  \cup (IF a = "jwt" THEN {{"anyToken"}, {"noExpiry"}, {"algNone"}} ELSE {}))
            : a \in {"jwt", "opaque"}, e \in {"required", "public", "unknown"} }
    \cup Alone([Base EXCEPT !.objectId = TRUE], "idor", Singles({"noOwner"}))
    \cup Alone(Base, "idor", Singles({"noOwner", "sameForAll", "empty"}))
    \cup UNION { Alone([Base EXCEPT !.auth = a], "method-tamper",
                       Singles({"verbHole", "writable", "traces", "catchAll"}))
                 : a \in {"jwt", "none"} }
    \cup { [Base EXCEPT !.running = {[check |-> "graphql", ep |-> e] : e \in {"ep1", "ep2"}},
                        !.graphqlPaths = {"ep2"}, !.traits = t]
           : t \in {{}, {"introspects"}, {"introspects", "viaGet"}, {"htmlEcho"}} }

Cookies(c, h, sec, ss) == [class |-> c, deletes |-> FALSE, httpOnly |-> h, secure |-> sec, sameSite |-> ss]

Passive ==
    Alone([Base EXCEPT !.leakPath = TRUE], "configleak", Singles({"leaks", "spa"}))
    \cup Alone(Base, "headers", {{"no-hsts", "no-csp", "no-frame", "server-version"}, {"hsts-zero", "csp-silent"}})
    \cup UNION { Alone([Base EXCEPT !.method = m, !.expect = e], "cors",
                       {{}, {"reflects"}, {"reflects", "creds"}, {"reflectsNull"}, {"reflectsNull", "creds"},
                        {"reflects", "nullCreds"}, {"preflightAny", "creds", "reflects"}, {"preflightAny"}})
                 : m \in {"GET", "OPTIONS"}, e \in {"public", "unknown"} }
    \cup Alone(Base, "exposure", {{"password"}, {"password", "real-password", "jwt"}})
    \cup UNION { Alone([Base EXCEPT !.method = m, !.active = a, !.route = r], "ratelimit",
                       Singles({"limits", "limitHeaders"}))
                 : m \in {"GET", "POST", "DELETE"}, a \in BOOLEAN, r \in {"ordinary", "credential-path"} }
    \cup Alone([Base EXCEPT !.cookies = {Cookies("session", FALSE, FALSE, "none"),
                                         Cookies("csrf", FALSE, TRUE, "lax")}], "cookie-flags", {{}})

Together(s, names, t) == [s EXCEPT !.running = {Check(n) : n \in names}, !.traits = t]

Pairs == { Together([Base EXCEPT !.targets = <<QueryUrl>>], {"injection", "ssrf"}, {"sqliBool", "ssrfBlocks"}),
           Together(Base, {"injection", "open-redirect"}, {"sqliTime"}),
           Together(Base, {"method-tamper", "host-header"}, {"writable", "hhLink"}),
           Together(Base, {"open-redirect", "ssrf", "xss"}, {"redirScheme"}) }

MCScenes == Payload \cup Access \cup Passive \cup Pairs
=============================================================================
