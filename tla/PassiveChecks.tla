--------------------------- MODULE PassiveChecks ---------------------------
(***************************************************************************)
(* The checks of the passive tier, which only look at what the endpoint    *)
(* answers: exposed configuration files, security headers, CORS, exposed   *)
(* data, rate limiting, cookie flags.                                      *)
(***************************************************************************)
EXTENDS Probe

\* A response of a route that is not there, or that failed, is not judged.
Judged(a) == a.code # 0 /\ a.code \notin {404, 410} /\ a.code < 500

-----------------------------------------------------------------------------
(* configleak.go: asks only for a path that names a configuration file, and *)
(* takes neither a page nor a JSON catch-all for that file.                 *)

ConfigLeakPlan(s) == <<Probe("leak", 0)>>
ConfigLeakWanted(s) == s.leakPath

ConfigLeakFindings(log) ==
    LET a == Got(log, Probe("leak", 0))
    IN  FindingIf(Is2xx(a) /\ a.marks \cap {"html", "json"} = {}, "configleak", "CRITICAL", "HIGH")

ConfigLeakAnswers(s) ==
    IF Has(s, "leaks") THEN {Answer(200, {})}
    ELSE IF Has(s, "spa") THEN {Answer(200, {"html"}), Answer(200, {"json"})}
    ELSE {Answer(404, {}), Answer(403, {})}

-----------------------------------------------------------------------------
(* headers.go.  A header's state is a mark; the rules below say which marks *)
(* are reported and how badly, and which are about documents only.          *)

HeadersPlan(s) == <<Probe("headers", 0)>>

HeaderRule(mark, rule, severity, document) ==
    [mark |-> mark, rule |-> rule, severity |-> severity, document |-> document]

HeaderRules ==
    { HeaderRule("no-nosniff", "headers/X-Content-Type-Options", "LOW", FALSE),
      HeaderRule("no-frame", "headers/X-Frame-Options", "LOW", TRUE),
      HeaderRule("server-version", "headers/Server", "INFO", FALSE),
      HeaderRule("powered-by", "headers/X-Powered-By", "INFO", FALSE),
      HeaderRule("no-referrer", "headers/Referrer-Policy", "LOW", FALSE),
      HeaderRule("no-permissions", "headers/Permissions-Policy", "INFO", TRUE),
      HeaderRule("no-coop", "headers/Cross-Origin-Opener-Policy", "INFO", TRUE),
      HeaderRule("no-coep", "headers/Cross-Origin-Embedder-Policy", "INFO", TRUE),
      HeaderRule("no-corp", "headers/Cross-Origin-Resource-Policy", "INFO", FALSE) }

\* Strict-Transport-Security: absent, off, or for less than 180 days.
HstsRules ==
    { HeaderRule("no-hsts", "headers/Strict-Transport-Security/missing", "MEDIUM", FALSE),
      HeaderRule("hsts-zero", "headers/Strict-Transport-Security/disabled", "MEDIUM", FALSE),
      HeaderRule("hsts-short", "headers/Strict-Transport-Security/max-age-too-short", "LOW", FALSE) }

\* Content-Security-Policy: absent, one that allows inline scripts or any
\* source, or one without a directive for scripts.
CspRules ==
    { HeaderRule("no-csp", "headers/Content-Security-Policy/missing", "MEDIUM", TRUE),
      HeaderRule("csp-unsafe", "headers/Content-Security-Policy/weak", "MEDIUM", TRUE),
      HeaderRule("csp-silent", "headers/Content-Security-Policy/weak", "LOW", TRUE) }

\* A rule about documents is a remark when the response is known to be data;
\* an unknown content type is judged like a document.
HeadersFindings(log) ==
    LET a == Got(log, Probe("headers", 0))
    IN  IF ~Judged(a) THEN {}
        ELSE { Finding(r.rule,
                       IF r.document /\ Shows(a, "data") THEN "INFO" ELSE r.severity,
                       IF r.rule = "headers/Content-Security-Policy/weak" THEN "MEDIUM" ELSE "HIGH")
               : r \in {r \in HeaderRules \cup HstsRules \cup CspRules : Shows(a, r.mark)} }

\* One answer whose headers are the scene's, in a document, in data, in
\* neither, and one from a failing server.
HeadersAnswers(s) ==
    LET state == s.traits \cap {r.mark : r \in HeaderRules \cup HstsRules \cup CspRules}
    IN  {Answer(200, state \cup {k}) : k \in {"document", "data", "untyped"}}
          \cup {Answer(500, state), Answer(404, state)}

-----------------------------------------------------------------------------
(* cors.go: each origin is tried as a preflight and as a simple request.    *)

\* The third origin ends like the target's own host.
Origins == <<"evil", "null", "suffix">>
IsNull(p) == Origins[p.t] = "null"

CorsPlan(s) ==
    [i \in 1..(IF s.method = "OPTIONS" THEN 3 ELSE 6) |->
        Probe(IF i <= 3 THEN "preflight" ELSE "simple", ((i - 1) % 3) + 1)]

CorsJudged(a) == a.code # 0 /\ a.code # 404 /\ a.code < 500

\* What one response allows: the probe's origin, null, or everyone, and whether
\* with credentials.
Saw(log, allowed, credentialed) ==
    \E p \in DOMAIN log :
        /\ CorsJudged(log[p])
        /\ Shows(log[p], "credentials") \/ ~credentialed
        /\ CASE allowed = "everyone" -> Shows(log[p], "everyone")
             [] allowed = "null"     -> IsNull(p) /\ Shows(log[p], "own")
             [] allowed = "origin"   -> ~IsNull(p) /\ Shows(log[p], "own")

\* The candidates, with the rank the code gives each; only the first is kept.
CorsCandidates(s, log) ==
    LET reflected == Saw(log, "origin", FALSE)
        withCreds == Saw(log, "origin", TRUE)
        public == s.expect = "public"
        candidate(rank, rule, severity) == [rank |-> rank, finding |-> Finding(rule, severity, "HIGH")]
    IN  (IF Saw(log, "everyone", TRUE)
           THEN {candidate(40, "cors/wildcard-with-credentials", "MEDIUM")} ELSE {})
        \cup (IF reflected /\ withCreds
                THEN {candidate(IF public THEN 75 ELSE 90, "cors/reflects-origin-with-credentials",
                                IF public THEN "HIGH" ELSE "CRITICAL")} ELSE {})
        \cup (IF reflected /\ ~withCreds THEN {candidate(70, "cors/reflects-origin", "HIGH")} ELSE {})
        \cup (IF Saw(log, "null", FALSE) /\ ~reflected
                THEN {IF Saw(log, "null", TRUE) THEN candidate(85, "cors/null-origin", "CRITICAL")
                      ELSE candidate(60, "cors/null-origin", "HIGH")} ELSE {})
        \cup (IF Saw(log, "everyone", FALSE) THEN {candidate(30, "cors/wildcard-origin", "MEDIUM")} ELSE {})

MethodFindings(log) ==
    LET saw(mark) == \E p \in DOMAIN log : CorsJudged(log[p]) /\ Shows(log[p], mark)
    IN  FindingIf(saw("any-method"), "cors/wildcard-methods", "MEDIUM", "MEDIUM")
          \cup FindingIf(saw("odd-method") /\ ~saw("any-method"),
                        "cors/nonstandard-method", "LOW", "MEDIUM")

\* Mutant of CorsFindings: the last candidate in the code's order is kept.
LastCandidateKept(s, log) ==
    LET C == CorsCandidates(s, log)
    IN  {c.finding : c \in {c \in C : \A d \in C : d.rank >= c.rank}} \cup MethodFindings(log)

CorsFindings(s, log) ==
    LET C == CorsCandidates(s, log)
    IN  {c.finding : c \in {c \in C : \A d \in C : d.rank <= c.rank}} \cup MethodFindings(log)

\* "reflects" answers every origin with itself, "reflectsNull" only null,
\* "preflightAny" allows everyone in the preflight; "creds" adds credentials
\* ("nullCreds" to null alone).
CorsAnswers(s, p) ==
    LET own == IF Has(s, "reflects") \/ (IsNull(p) /\ Has(s, "reflectsNull")) THEN {"own"} ELSE {}
        allowed == IF p.kind = "preflight" /\ Has(s, "preflightAny") THEN {"everyone", "any-method"} ELSE own
        creds == IF Has(s, "creds") \/ (IsNull(p) /\ Has(s, "nullCreds")) THEN {"credentials"} ELSE {}
    IN  {Answer(200, allowed \cup creds)}

-----------------------------------------------------------------------------
(* exposure.go: patterns of secrets and internals in the body, whatever the *)
(* status; a password that is a mask or a form label does not count.        *)

ExposurePlan(s) == <<Probe("body", 0)>>

ExposurePattern(mark, rule, severity) == [mark |-> mark, rule |-> rule, severity |-> severity]

ExposurePatterns ==
    { ExposurePattern("password", "exposure/password", "CRITICAL"),
      ExposurePattern("secret", "exposure/secret", "CRITICAL"),
      ExposurePattern("token", "exposure/token", "HIGH"),
      ExposurePattern("jwt", "exposure/jwt", "HIGH"),
      ExposurePattern("aws-key", "exposure/aws-key", "CRITICAL"),
      ExposurePattern("private-key", "exposure/private-key", "CRITICAL"),
      ExposurePattern("stack-trace", "exposure/stack-trace", "MEDIUM"),
      ExposurePattern("internal-ip", "exposure/internal-ip", "LOW"),
      ExposurePattern("version", "exposure/version", "INFO") }

\* At least one of the password values is a real one.
PasswordNotMasked(a) == Shows(a, "real-password")

ExposureFindings(log) ==
    LET a == Got(log, Probe("body", 0))
    IN  { Finding(pat.rule, pat.severity, "HIGH") :
            pat \in {pat \in ExposurePatterns :
                        Shows(a, pat.mark) /\ (pat.mark = "password" => PasswordNotMasked(a))} }

ExposureAnswers(s) ==
    {Answer(code, s.traits \cap ({pat.mark : pat \in ExposurePatterns} \cup {"real-password"}))
     : code \in {200, 500}}

-----------------------------------------------------------------------------
(* ratelimit.go: a burst of equal requests; the burst is 4 here for the     *)
(* code's 20, and half of it must be answered for silence to mean anything. *)

RateLimitProbeCount == 4
RateLimitMinProbes == RateLimitProbeCount \div 2

\* Safe verbs always; writes only in an active scan; DELETE never.
ProbeEligible(s) ==
    \/ s.method \in {"GET", "HEAD", "OPTIONS"}
    \/ s.method \in {"POST", "PUT", "PATCH"} /\ s.active

RateLimitPlan(s) == [i \in 1..RateLimitProbeCount |-> Probe("burst", i)]

Limited(log) == \E p \in DOMAIN log : log[p].code = 429 \/ Shows(log[p], "limit-header")

RateLimitWanted(s, log) == ~s.static /\ ProbeEligible(s) /\ ~Limited(log)

\* ratelimit_sensitivity.go: what the absence of a limit would mean here.
AbuseSensitive(s) ==
    \/ s.route = "credential-param"
    \/ s.route = "credential-path" /\ s.method \notin {"GET", "HEAD", "OPTIONS"}
    \/ s.route = "link-driven"
    \/ s.route = "expensive" /\ s.expect # "required"

\* A cancelled burst says nothing at all.
RateLimitFindings(s, log) ==
    LET answered == Cardinality({p \in DOMAIN log : Answered(log, p)})
        cut == \E p \in DOMAIN log : Shows(log[p], "cut")
    IN  IF s.static THEN {}
        ELSE IF ~ProbeEligible(s) THEN {Finding("ratelimit.not-tested", "INFO", "HIGH")}
        ELSE FindingIf(~cut /\ ~Limited(log) /\ answered >= RateLimitMinProbes,
                       "ratelimit/none-observed",
                       IF AbuseSensitive(s) THEN "MEDIUM" ELSE "INFO", "MEDIUM")

\* "limits" refuses from the second request on, "limitHeaders" tells its budget.
RateLimitAnswers(s, p) ==
    IF Has(s, "limits") /\ p.t >= 2 THEN {Answer(429, {})}
    ELSE {Answer(200, IF Has(s, "limitHeaders") THEN {"limit-header"} ELSE {})}

-----------------------------------------------------------------------------
(* cookie_flags.go: the cookies that carry a session, by name or by value.  *)

CookiePlan(s) == <<Probe("cookies", 0)>>

\* Cookies that delete themselves, analytics and preferences are left alone.
ClassifyCookie(c) == IF c.deletes THEN "none" ELSE c.class

CookieFindings(s, log) ==
    LET a == Got(log, Probe("cookies", 0))
        judged == {c \in s.cookies : ClassifyCookie(c) # "none"}
        weak(c) == c.sameSite \in {"unset", "none"}
    IN  IF ~Judged(a) THEN {}
        ELSE UNION { FindingIf(~c.httpOnly,
                               IF c.class = "csrf" THEN "cookies/csrf-no-httponly"
                               ELSE "cookies/session-no-httponly",
                               IF c.class = "csrf" THEN "INFO" ELSE "MEDIUM", "HIGH")
                     \cup FindingIf(s.https /\ ~c.secure, "cookies/session-no-secure", "MEDIUM", "HIGH")
                     \cup FindingIf(weak(c), "cookies/session-weak-samesite",
                                   IF c.sameSite = "none" /\ ~c.secure THEN "MEDIUM" ELSE "LOW",
                                   "MEDIUM")
                     : c \in judged }

CookieAnswers(s) == {Answer(200, {}), Answer(503, {})}
=============================================================================
