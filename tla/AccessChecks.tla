---------------------------- MODULE AccessChecks ----------------------------
(***************************************************************************)
(* The checks about who may do what: unauthenticated access and token      *)
(* validation, access across accounts, method tampering, and GraphQL       *)
(* introspection.                                                          *)
(***************************************************************************)
EXTENDS Probe

(* models/auth.go: the credential is sent as configured; a credential of    *)
(* three dotted parts whose header decodes to one with "alg" is a JWT.      *)
HasAuth(s) == s.auth # "none"
IsJwtAuth(s) == s.auth = "jwt"

-----------------------------------------------------------------------------
(* auth.go                                                                 *)

AuthPlan(s) ==
    [i \in 1..6 |-> Probe(<<"anonymous", "garbage", "real", "malformed", "expired", "alg-none">>[i], 0)]

Accepted(log, kind) == Is2xx(Got(log, Probe(kind, 0)))

\* Mutant of EndpointAcceptsGarbage: open endpoints are not told apart.
NeverAcceptsGarbage(log) == FALSE

\* The endpoint serves anyone and any token: what a tampered token gets shows
\* nothing more.
EndpointAcceptsGarbage(log) == Accepted(log, "anonymous") /\ Accepted(log, "garbage")

AuthWanted(s, log, p) ==
    CASE p.kind = "anonymous" -> HasAuth(s)
      [] p.kind = "garbage"   -> IsJwtAuth(s) /\ Accepted(log, "anonymous")
      [] p.kind = "real"      -> IsJwtAuth(s) /\ ~EndpointAcceptsGarbage(log)
      [] OTHER                -> Accepted(log, "real")

AuthConfidence(a) == IF Shows(a, "body") THEN "HIGH" ELSE "MEDIUM"

\* How bad an anonymous 2xx is depends on what the specification declares.
UnauthenticatedFinding(s, log) ==
    FindingIf(Accepted(log, "anonymous"), "auth/unauthenticated-access",
              CASE s.expect = "required" -> "CRITICAL"
                [] s.expect = "public"   -> "INFO"
                [] OTHER                 -> "MEDIUM",
              AuthConfidence(Got(log, Probe("anonymous", 0))))

JwtRule == [k \in {"malformed", "expired", "alg-none"} |->
               CASE k = "malformed" -> "auth/jwt-not-validated"
                 [] k = "expired"   -> "auth/expired-jwt-accepted"
                 [] k = "alg-none"  -> "auth/jwt-alg-none"]

AuthFindings(s, log) ==
    UnauthenticatedFinding(s, log)
      \cup UNION { FindingIf(Accepted(log, k), JwtRule[k], "CRITICAL",
                             AuthConfidence(Got(log, Probe(k, 0))))
                   : k \in DOMAIN JwtRule }

\* "open" serves everyone; "anyToken" wants a token and never verifies it, the
\* others skip one step of the verification; "gone" has no such route.
AuthAnswers(s, p) ==
    LET accepts == CASE p.kind = "anonymous" -> Has(s, "open")
                     [] p.kind = "garbage"   -> Has(s, "open")
                     [] p.kind = "real"      -> TRUE
                     [] p.kind = "malformed" -> Has(s, "open") \/ Has(s, "anyToken")
                     [] p.kind = "expired"   -> \E t \in {"open", "anyToken", "noExpiry"} : Has(s, t)
                     [] OTHER                -> \E t \in {"open", "anyToken", "algNone"} : Has(s, t)
    IN  IF Has(s, "gone") THEN {Answer(404, {})}
        ELSE IF accepts THEN {Answer(200, {"body"}), Answer(200, {})} ELSE {Answer(401, {})}

-----------------------------------------------------------------------------
(* idor.go: the second account's credential replayed on the first's URL.   *)

IdorPlan(s) == <<Probe("user1", 0), Probe("user2", 0)>>

IdorWanted(s, log, p) ==
    /\ HasAuth(s) /\ s.user2
    /\ p.kind = "user2" => Accepted(log, "user1")

\* JSON objects compare on their stable fields, anything else by length; the
\* marks stand for what is left of a body once volatile fields are dropped.
StructurallyIdentical(a, b) ==
    /\ "empty" \notin a.marks \cup b.marks
    /\ a.marks = b.marks

IdorFindings(s, log) ==
    LET one == Got(log, Probe("user1", 0))
        two == Got(log, Probe("user2", 0))
    IN  IF ~Is2xx(one) \/ ~Answered(log, Probe("user2", 0)) THEN {}
        ELSE IF s.objectId
          THEN FindingIf(Is2xx(two), "idor/cross-tenant-access", "HIGH", "HIGH")
        ELSE FindingIf(one.code = two.code /\ StructurallyIdentical(one, two),
                       "idor/identical-responses", "HIGH", "MEDIUM")

\* "noOwner" serves an object to any account; "sameForAll" is a page that is
\* the same for every account, "empty" one that has no body.
IdorAnswers(s, p) ==
    LET body == IF Has(s, "empty") THEN {"empty"}
                ELSE IF Has(s, "noOwner") \/ Has(s, "sameForAll") \/ p.kind = "user1" THEN {"of-user1"}
                ELSE {"of-user2"}
    IN  IF p.kind = "user2" /\ s.objectId /\ ~Has(s, "noOwner") THEN {Answer(403, {})}
        ELSE {Answer(200, body)}

-----------------------------------------------------------------------------
(* methodtamper.go: every verb the code tries beside the endpoint's own.   *)

AltVerbs == {"GET", "POST", "HEAD", "OPTIONS", "PUT"}
DangerousVerbs == {"TRACE", "danger-PUT", "danger-DELETE"}

MethodTamperPlan(s) ==
    [i \in 1..10 |-> Probe(<<"canonical", "canonical-bare", "GET", "POST", "HEAD", "OPTIONS", "PUT",
                              "TRACE", "danger-PUT", "danger-DELETE">>[i], 0)]

\* Worth looking for a bypass: the endpoint works for us or refuses us, and is
\* not simply open.
DoBypass(s, log) ==
    LET a == Got(log, Probe("canonical", 0))
    IN  (Is2xx(a) /\ HasAuth(s)) \/ a.code \in {401, 403, 405}

Gated(log) == Got(log, Probe("canonical-bare", 0)).code \in {401, 403}

MethodTamperWanted(s, log, p) ==
    \/ p.kind = "canonical"
    \/ /\ Answered(log, Probe("canonical", 0))
       /\ CASE p.kind = "canonical-bare" -> DoBypass(s, log)
            [] p.kind \in AltVerbs -> p.kind # s.method /\ Gated(log)
            [] OTHER -> TRUE

BypassVerbs(log) ==
    {v \in {"GET", "POST", "PUT"} :
        LET a == Got(log, Probe(v, 0)) IN Is2xx(a) /\ Shows(a, "body")}

\* A 2xx that only repeats the catch-all answer does not enable the verb.
EnabledVerbs(log) ==
    LET canon == Got(log, Probe("canonical", 0))
    IN  {v \in DangerousVerbs :
            LET a == Got(log, Probe(v, 0))
            IN  /\ Is2xx(a)
                /\ IF v = "TRACE" THEN Shows(a, "traced") ELSE ~(Is2xx(canon) /\ a = canon)}

MethodTamperFindings(log) ==
    FindingIf(BypassVerbs(log) # {}, "methodtamper/access-control-bypass", "HIGH", "HIGH")
      \cup FindingIf(EnabledVerbs(log) # {}, "methodtamper/dangerous-method", "MEDIUM", "MEDIUM")

\* "verbHole" guards only the endpoint's own verb; "writable" lets anyone PUT
\* and DELETE, "traces" echoes TRACE, "catchAll" answers every verb alike.
MethodTamperAnswers(s, p) ==
    IF Has(s, "catchAll") THEN {Answer(200, {"body"})} ELSE
    CASE p.kind = "canonical" -> {Answer(IF HasAuth(s) THEN 200 ELSE 401, {"body"})}
      [] p.kind = "canonical-bare" -> {Answer(401, {})}
      [] p.kind = "OPTIONS" -> {Answer(200, {})}
      [] p.kind = "TRACE" -> {IF Has(s, "traces") THEN Answer(200, {"traced"}) ELSE Answer(405, {})}
      [] p.kind \in {"PUT", "danger-PUT", "danger-DELETE"} /\ Has(s, "writable") -> {Answer(204, {})}
      [] OTHER -> {IF Has(s, "verbHole") THEN Answer(200, {"body", "other"}) ELSE Answer(401, {"body"})}

-----------------------------------------------------------------------------
(* graphql.go: the known paths of an origin are swept by the first endpoint *)
(* of it to run the check; an endpoint whose own path names GraphQL probes  *)
(* that one too.  Here t numbers the candidates: the known paths come first.*)

KnownPaths == <<"/graphql", "/query">>
OwnPath == Len(KnownPaths) + 1

\* Mutant of GraphqlCandidates: every check sweeps the known paths.
AlwaysKnownPaths(s, ep, sweeps) ==
    IF ep \in s.graphqlPaths THEN <<1, 2, OwnPath>> ELSE <<1, 2>>

GraphqlCandidates(s, ep, sweeps) ==
    LET known == IF sweeps THEN [i \in 1..Len(KnownPaths) |-> i] ELSE <<>>
    IN  IF ep \in s.graphqlPaths THEN Append(known, OwnPath) ELSE known

GraphqlPlan(s, ep, sweeps) ==
    LET C == GraphqlCandidates(s, ep, sweeps)
    IN  [i \in 1..(2 * Len(C)) |-> Probe(IF i % 2 = 1 THEN "introspect" ELSE "get", C[(i + 1) \div 2])]

Introspected(log, u) ==
    {"json", "schema"} \subseteq Got(log, Probe("introspect", u)).marks

\* The sweep stops at the first endpoint found.
GraphqlWanted(log, p) ==
    IF p.kind = "get" THEN Introspected(log, p.t)
    ELSE \A q \in DOMAIN log : ~Introspected(log, q.t)

GraphqlFindings(log) ==
    FindingIf(\E p \in DOMAIN log : Introspected(log, p.t),
              "graphql/introspection-enabled", "HIGH", "HIGH")
      \cup FindingIf(\E p \in DOMAIN log : p.kind = "get" /\ {"json", "schema"} \subseteq log[p].marks,
                    "graphql/get-execution", "MEDIUM", "MEDIUM")

\* "introspects" answers the schema at /query, "viaGet" for GET too; "htmlEcho"
\* shows the words of the query in a page.
GraphqlAnswers(s, p) ==
    LET schema == /\ p.t = 2 /\ Has(s, "introspects")
                  /\ p.kind = "get" => Has(s, "viaGet")
    IN  IF schema THEN {Answer(200, {"json", "schema"})}
        ELSE IF Has(s, "htmlEcho") THEN {Answer(200, {"schema"})} ELSE {Answer(404, {})}
=============================================================================
