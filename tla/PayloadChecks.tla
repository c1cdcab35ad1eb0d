--------------------------- MODULE PayloadChecks ---------------------------
(***************************************************************************)
(* The checks of the active tier that inject payloads.  Each plans its     *)
(* probes, says which of them the answers so far still call for, and reads *)
(* its findings off the log.  The operator named ...Answers is the target, as these requests    *)
(* see it: the set of answers a target with the scene's traits may give.   *)
(***************************************************************************)
EXTENDS Probe

\* Parameters the payloads go to, with the place each is sent in.  Body
\* parameters count for methods that carry a body; an endpoint that declares
\* none that counts is probed on a query parameter "id".
Sendable(s, target) == target.at # "body" \/ s.method \in {"POST", "PUT", "PATCH"}

TargetsForEndpoint(s) ==
    IF \E i \in DOMAIN s.targets : Sendable(s, s.targets[i]) THEN s.targets
    ELSE <<[at |-> "query", url |-> FALSE]>>

Targeted(s, t) == Sendable(s, TargetsForEndpoint(s)[t])

ForEachTarget(s, kinds) == PlanFor(Len(TargetsForEndpoint(s)), kinds)

-----------------------------------------------------------------------------
(* injection.go.  Time-based payloads are two of the five databases'.      *)

InjectionPlan(s) ==
    ForEachTarget(s, <<"base", "time1", "again1", "time2", "again2", "error",
                       "control1", "control2", "true", "false", "cmdi", "crlf">>)

\* Slower than the baseline's median by more than four seconds.
Slow(log, kind, t) ==
    /\ Shows(Got(log, Probe(kind, t)), "slow")
    /\ ~Shows(Got(log, Probe("base", t)), "slow")

TimeBasedWanted(log, p) ==
    CASE p.kind = "base"   -> TRUE
      [] p.kind = "time1"  -> Answered(log, Probe("base", p.t))
      [] p.kind = "again1" -> Slow(log, "time1", p.t)
      [] p.kind = "time2"  -> Answered(log, Probe("base", p.t)) /\ ~Slow(log, "time1", p.t)
      [] p.kind = "again2" -> Slow(log, "time2", p.t)

TimeBasedFindings(log, t) ==
    UNION { FindingIf(Slow(log, pair[1], t), "injection/sqli-time-based", "HIGH",
                      IF Slow(log, pair[2], t) THEN "HIGH" ELSE "MEDIUM")
            : pair \in {<<"time1", "again1">>, <<"time2", "again2">>} }

\* Body lengths further apart than 5% carry different marks.
Lengths == {"len1", "len2", "len3"}
BodyLen(log, kind, t) == Got(log, Probe(kind, t)).marks \cap Lengths

BooleanWanted(log, p) ==
    CASE p.kind = "control1" -> TRUE
      [] p.kind = "control2" -> Answered(log, Probe("control1", p.t))
      [] p.kind = "true"     -> /\ Answered(log, Probe("control2", p.t))
                                /\ BodyLen(log, "control1", p.t) = BodyLen(log, "control2", p.t)
      [] p.kind = "false"    -> Answered(log, Probe("true", p.t))

BooleanFindings(log, t) ==
    LET yes == Got(log, Probe("true", t))
        no  == Got(log, Probe("false", t))
        control == BodyLen(log, "control1", t)
        lengthFlip == /\ BodyLen(log, "true", t) # BodyLen(log, "false", t)
                      /\ control \in {BodyLen(log, "true", t), BodyLen(log, "false", t)}
    IN  FindingIf(/\ Answered(log, Probe("true", t)) /\ Answered(log, Probe("false", t))
                  /\ yes.code # no.code \/ lengthFlip,
                  "injection/sqli-boolean-based", "HIGH", "MEDIUM")

\* Mutant of CrlfWanted: the query parameter assumed when none is declared is
\* left out.
CrlfDeclaredOnly(s, p) == p.t \in DOMAIN s.targets /\ TargetsForEndpoint(s)[p.t].at = "query"

\* A carriage return cannot be carried by a header or a JSON body: only query
\* parameters get the response-splitting probe.
CrlfWanted(s, p) == TargetsForEndpoint(s)[p.t].at = "query"

InjectionWanted(s, log, p) ==
    /\ Targeted(s, p.t)
    /\ CASE p.kind \in {"base", "time1", "again1", "time2", "again2"} -> TimeBasedWanted(log, p)
         [] p.kind \in {"control1", "control2", "true", "false"} -> BooleanWanted(log, p)
         [] p.kind = "crlf" -> CrlfWanted(s, p)
         [] OTHER -> TRUE

ErrorBasedFindings(log, t) ==
    FindingIf(Shows(Got(log, Probe("error", t)), "dberror"),
              "injection/sqli-error-based", "HIGH", "HIGH")
CmdiFindings(log, t) ==
    FindingIf(Shows(Got(log, Probe("cmdi", t)), "computed"),
              "injection/command-injection", "CRITICAL", "HIGH")
CrlfFindings(log, t) ==
    FindingIf(Shows(Got(log, Probe("crlf", t)), "cookie"),
              "injection/header-crlf", "HIGH", "HIGH")

InjectionFindings(s, log) ==
    UNION { TimeBasedFindings(log, t) \cup ErrorBasedFindings(log, t)
              \cup BooleanFindings(log, t) \cup CmdiFindings(log, t) \cup CrlfFindings(log, t)
            : t \in 1..Len(TargetsForEndpoint(s)) }

\* A "laggy" target is late once, by a little or by a lot, when it likes.
Hiccups(s, log) ==
    IF Has(s, "laggy") /\ \A p \in DOMAIN log : ~Shows(log[p], "slow")
    THEN {{"slow"}, {"slow", "stuck"}} ELSE {}

\* Traits: the flaws, and a target whose pages change length on their own
\* ("dynamic").
InjectionAnswers(s, log, p) ==
    LET slow(flawed) == {IF flawed THEN {"slow"} ELSE {}} \cup Hiccups(s, log)
        lens(own) == IF Has(s, "dynamic") THEN {{l} : l \in Lengths} ELSE {{own}}
        marks == CASE p.kind \in {"time2", "again2"} -> slow(Has(s, "sqliTime"))
                   [] p.kind \in {"base", "time1", "again1"} -> slow(FALSE)
                   [] p.kind = "error" -> {IF Has(s, "sqliError") THEN {"dberror"} ELSE {}}
                   [] p.kind \in {"control1", "control2", "true"} -> lens("len1")
                   [] p.kind = "false" -> lens(IF Has(s, "sqliBool") THEN "len2" ELSE "len1")
                   [] p.kind = "cmdi" -> {IF Has(s, "cmdi") THEN {"computed"} ELSE {}}
                   [] p.kind = "crlf" -> {IF Has(s, "crlf") THEN {"cookie"} ELSE {}}
    IN  {Answer(200, m) : m \in marks}
-----------------------------------------------------------------------------
(* xss.go: one probe per parameter, confirmed by the marker coming back    *)
(* unencoded in an HTML page that is not an error.                         *)

XssPlan(s) == ForEachTarget(s, <<"xss">>)

XssWanted(s, p) == Targeted(s, p.t)

XssConfirmed(a) == a.code < 400 /\ {"html", "raw"} \subseteq a.marks

XssFindings(s, log) ==
    FindingIf(\E t \in 1..Len(TargetsForEndpoint(s)) : XssConfirmed(Got(log, Probe("xss", t))),
              "xss/reflected", "HIGH", "HIGH")

\* "echoJson" sends the marker back as data, "errorPage" in an HTML error page.
XssAnswers(s, p) ==
    {Answer(200, {"html"})}
      \cup (IF Has(s, "xssRaw") THEN {Answer(200, {"html", "raw"})} ELSE {})
      \cup (IF Has(s, "echoJson") THEN {Answer(200, {"raw"})} ELSE {})
      \cup (IF Has(s, "errorPage") THEN {Answer(400, {"html", "raw"})} ELSE {})

-----------------------------------------------------------------------------
(* openredirect.go: the guessed parameter names are numbered; the three    *)
(* plain payloads are one, the suffix and the scheme payload are the rest. *)

RedirectParams == 2
RedirectPlan(s) == PlanFor(RedirectParams, <<"plain", "suffix", "scheme">>)

\* The Location's host is the sentinel, a subdomain of it (which counts only
\* for the suffix payload), or its scheme is one that runs code.
RedirectHit(log, p) ==
    LET a == Got(log, p)
    IN  /\ Is3xx(a)
        /\ CASE p.kind = "scheme" -> Shows(a, "runs")
             [] p.kind = "suffix" -> Shows(a, "sentinel") \/ Shows(a, "subdomain")
             [] OTHER             -> Shows(a, "sentinel")

\* A confirmed parameter needs no further payload.
RedirectWanted(log, p) ==
    \A q \in DOMAIN log : q.t = p.t => ~RedirectHit(log, q)

RedirectFindings(log) ==
    UNION { FindingIf(RedirectHit(log, p), "openredirect/confirmed",
                      IF Shows(log[p], "runs") THEN "HIGH" ELSE "MEDIUM",
                      IF p.kind = "suffix" /\ ~Shows(log[p], "runs") THEN "MEDIUM" ELSE "HIGH")
            : p \in DOMAIN log }

\* "redirOpen" follows any host, "redirSuffix" checks the end of the host only,
\* "redirScheme" lets the scheme through, "redirOwn" sends all to its own page.
RedirectAnswers(s, p) ==
    LET marks == CASE p.kind = "plain"  -> IF Has(s, "redirOpen") THEN {"sentinel"} ELSE {}
                   [] p.kind = "suffix" -> IF Has(s, "redirOpen") \/ Has(s, "redirSuffix")
                                           THEN {"subdomain"} ELSE {}
                   [] p.kind = "scheme" -> IF Has(s, "redirScheme") THEN {"runs"} ELSE {}
    IN  IF marks # {} THEN {Answer(302, marks)}
        ELSE IF Has(s, "redirOwn") THEN {Answer(302, {"own"})} ELSE {Answer(200, {})}

-----------------------------------------------------------------------------
(* ssrf.go: only parameters whose name suggests a URL, and only when the   *)
(* endpoint answers the baseline.                                          *)

IsUrlShapedParam(target) == target.url

UrlTarget(s, t) == /\ t \in 1..Len(TargetsForEndpoint(s)) /\ Targeted(s, t)
                   /\ IsUrlShapedParam(TargetsForEndpoint(s)[t])

SsrfPlan(s) ==
    <<Probe("ssrf-base", 0)>>
      \o ForEachTarget(s, <<"canary", "testnet", "redirect", "timing-base", "timing1", "timing2">>)

\* A fetch-stack error alone proves nothing, nor does the canary host echoed.
ErrorLeak(a) == {"fetcherror", "canaryhost"} \subseteq a.marks
RedirectEcho(a) == Is3xx(a) /\ Shows(a, "canaryhost")
\* The median of two samples is their mean: two slow answers pass the threshold,
\* and so does a single one that took twice as long.
FetchBlocks(log, t) ==
    LET samples == {Got(log, Probe(k, t)) : k \in {"timing1", "timing2"}}
    IN  /\ ~Shows(Got(log, Probe("timing-base", t)), "slow")
        /\ \A a \in samples : a.code # 0
        /\ (\A a \in samples : Shows(a, "slow")) \/ (\E a \in samples : Shows(a, "stuck"))

SsrfBaselineServiceable(log) ==
    LET a == Got(log, Probe("ssrf-base", 0)) IN Is2xx(a) \/ Is3xx(a)

\* The four ways to confirm a parameter are tried until one does.
SsrfHit(log, t) ==
    IF \E k \in {"canary", "testnet"} : ErrorLeak(Got(log, Probe(k, t)))
      THEN Finding("ssrf/error-leakage", "HIGH", "HIGH")
    ELSE IF RedirectEcho(Got(log, Probe("redirect", t)))
      THEN Finding("ssrf/confirmed-fetch", "MEDIUM", "MEDIUM")
    ELSE IF FetchBlocks(log, t) THEN Finding("ssrf/timing-differential", "MEDIUM", "MEDIUM")
    ELSE Finding("none", "INFO", "LOW")

SsrfWanted(s, log, p) ==
    CASE p.kind = "ssrf-base" -> \E t \in 1..Len(TargetsForEndpoint(s)) : UrlTarget(s, t)
      [] p.kind = "timing1"   -> Answered(log, Probe("timing-base", p.t))
      [] p.kind = "timing2"   -> Answered(log, Probe("timing1", p.t))
      [] OTHER -> UrlTarget(s, p.t) /\ SsrfBaselineServiceable(log) /\ SsrfHit(log, p.t).rule = "none"

SsrfFindings(s, log) ==
    {SsrfHit(log, t) : t \in 1..Len(TargetsForEndpoint(s))} \ {Finding("none", "INFO", "LOW")}

\* "ssrfLeak" and "ssrfBlocks" fetch what they are given; "echo" prints the
\* value back, "backend" shows errors of fetches of its own.
SsrfAnswers(s, log, p) ==
    LET body == (IF Has(s, "ssrfLeak") \/ Has(s, "echo") THEN {"canaryhost"} ELSE {})
                  \cup (IF Has(s, "ssrfLeak") \/ Has(s, "backend") THEN {"fetcherror"} ELSE {})
        times(own) == {own} \cup Hiccups(s, log)
    IN  CASE p.kind = "ssrf-base" -> {Answer(IF Has(s, "down") THEN 503 ELSE 200, {})}
          [] p.kind \in {"canary", "testnet"} -> {Answer(200, body)}
          [] p.kind = "redirect" -> {IF Has(s, "ssrfForward") THEN Answer(302, {"canaryhost"})
                                     ELSE Answer(200, body)}
          [] p.kind = "timing-base" -> {Answer(200, m) : m \in times({})}
          [] OTHER -> {Answer(200, m) : m \in times(IF Has(s, "ssrfBlocks") THEN {"slow"} ELSE {})}

-----------------------------------------------------------------------------
(* hostheader.go: four headers, until a redirect and a link are both found.*)

HostHeaderVectors == <<"host", "x-forwarded-host", "x-forwarded-server", "forwarded">>

HostHeaderPlan(s) ==
    [i \in 1..5 |-> Probe(IF i = 1 THEN "hh-base" ELSE HostHeaderVectors[i - 1], 0)]

PoisonedRedirect(log, v) ==
    LET a == Got(log, Probe(v, 0))
    IN  Is3xx(a) /\ Shows(a, "sentinel") /\ ~Shows(Got(log, Probe("hh-base", 0)), "sentinel")
PoisonedLink(log, v) ==
    Shows(Got(log, Probe(v, 0)), "link") /\ ~Shows(Got(log, Probe("hh-base", 0)), "link")

\* The vector that settles the redirect; its body is not searched for links.
RedirectVector(log) == SelectInSeq(HostHeaderVectors, LAMBDA v : PoisonedRedirect(log, v))
LinkVector(log) ==
    LET linked == {i \in 1..4 : i # RedirectVector(log) /\ PoisonedLink(log, HostHeaderVectors[i])}
    IN  IF linked = {} THEN 0 ELSE Min(linked)

HostHeaderWanted(log, p) ==
    \/ p.kind = "hh-base"
    \/ /\ Answered(log, Probe("hh-base", 0)) /\ Got(log, Probe("hh-base", 0)).code # 404
       /\ RedirectVector(log) = 0 \/ LinkVector(log) = 0

HostHeaderFindings(log) ==
    LET strong(v) == Shows(Got(log, Probe(v, 0)), "reset")
        grade == IF LinkVector(log) # 0 /\ strong(HostHeaderVectors[LinkVector(log)])
                 THEN "HIGH" ELSE "MEDIUM"
    IN  FindingIf(RedirectVector(log) # 0, "hostheader/redirect-host", "HIGH", "HIGH")
          \cup FindingIf(LinkVector(log) # 0, "hostheader/absolute-link", grade, grade)

\* "hhRedirect" and "hhLink" build URLs from X-Forwarded-Host, "hhReset" does it
\* in a password-reset page; "mention" shows the sentinel to everyone.
HostHeaderAnswers(s, p) ==
    LET poisoned == p.kind = "x-forwarded-host"
        body == (IF (poisoned /\ Has(s, "hhLink")) \/ Has(s, "mention") THEN {"link"} ELSE {})
                  \cup (IF Has(s, "hhReset") THEN {"reset"} ELSE {})
    IN  IF Has(s, "absent") THEN {Answer(404, body)}
        ELSE IF poisoned /\ Has(s, "hhRedirect") THEN {Answer(302, body \cup {"sentinel"})}
        ELSE {Answer(200, body)}
=============================================================================
