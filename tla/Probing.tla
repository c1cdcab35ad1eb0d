------------------------------ MODULE Probing ------------------------------
(***************************************************************************)
(* The black-box checks at work: the workers of the pool run several       *)
(* checks at once, some of them on the same endpoint.  What they share is  *)
(* the audit log, whose count per URL is the cap on active probes, the     *)
(* context that ends them all, and the set of origins already swept for    *)
(* GraphQL.  A check reads the count, sends, and records the probe only    *)
(* when its answer is in.                                                  *)
(***************************************************************************)
EXTENDS PayloadChecks, AccessChecks, PassiveChecks

CONSTANTS
    Scenes,        \* the endpoints, configurations, targets and checks considered
    MaxProbes,     \* cfg.MaxProbesPerEndpoint, or the default
    MaxFailures    \* bound: requests that fail (network, timeout, request budget)

ActiveTier == {"injection", "xss", "open-redirect", "ssrf", "host-header", "graphql", "method-tamper"}
PassiveTier == {"auth", "idor", "configleak", "headers", "cors", "exposure", "ratelimit", "cookie-flags"}

IsScene(s) ==
    /\ IsFiniteSet(s.running) /\ \A c \in s.running : c.check \in ActiveTier \cup PassiveTier
    /\ s.targets \in Seq(ToSet(s.targets))

ASSUME ProbingAssumption ==
    MaxProbes \in Nat \ {0} /\ MaxFailures \in Nat /\ \A s \in Scenes : IsScene(s)

VARIABLES
    scene,      \* chosen once
    stage,      \* of each check: "idle", "ready", "flight", "done"
    plan,       \* of each check taken up: the requests it may send, in order
    log,        \* of each check: what its probes brought
    flight,     \* of each check: the probe under way
    sweeps,     \* the GraphQL checks that got to sweep the known paths
    audit,      \* probes recorded per URL (ProbeAuditLog)
    cancelled,  \* ctx.Done()
    failures,   \* requests failed so far
    found       \* of each check: its findings once it returned

vars == <<scene, stage, plan, log, flight, sweeps, audit, cancelled, failures, found>>

Running == scene.running
Urls == {c.ep : c \in Running} \cup ToSet(KnownPaths)
NoProbe == Probe("none", 0)

-----------------------------------------------------------------------------
\* Each check's plan, in the order it sends.
Plan(s, c, sweep) ==
    CASE c.check = "injection"     -> InjectionPlan(s)
      [] c.check = "xss"           -> XssPlan(s)
      [] c.check = "open-redirect" -> RedirectPlan(s)
      [] c.check = "ssrf"          -> SsrfPlan(s)
      [] c.check = "host-header"   -> HostHeaderPlan(s)
      [] c.check = "graphql"       -> GraphqlPlan(s, c.ep, sweep)
      [] c.check = "method-tamper" -> MethodTamperPlan(s)
      [] c.check = "auth"          -> AuthPlan(s)
      [] c.check = "idor"          -> IdorPlan(s)
      [] c.check = "configleak"    -> ConfigLeakPlan(s)
      [] c.check = "headers"       -> HeadersPlan(s)
      [] c.check = "cors"          -> CorsPlan(s)
      [] c.check = "exposure"      -> ExposurePlan(s)
      [] c.check = "ratelimit"     -> RateLimitPlan(s)
      [] c.check = "cookie-flags"  -> CookiePlan(s)

\* Whether what its probes brought so far calls for one more.
Wanted(s, c, seen, p) ==
    CASE c.check = "injection"     -> InjectionWanted(s, seen, p)
      [] c.check = "xss"           -> XssWanted(s, p)
      [] c.check = "open-redirect" -> RedirectWanted(seen, p)
      [] c.check = "ssrf"          -> SsrfWanted(s, seen, p)
      [] c.check = "host-header"   -> HostHeaderWanted(seen, p)
      [] c.check = "graphql"       -> GraphqlWanted(seen, p)
      [] c.check = "method-tamper" -> MethodTamperWanted(s, seen, p)
      [] c.check = "auth"          -> AuthWanted(s, seen, p)
      [] c.check = "idor"          -> IdorWanted(s, seen, p)
      [] c.check = "configleak"    -> ConfigLeakWanted(s)
      [] c.check = "ratelimit"     -> RateLimitWanted(s, seen)
      [] OTHER                     -> TRUE

FindingsOf(s, c, seen) ==
    CASE c.check = "injection"     -> InjectionFindings(s, seen)
      [] c.check = "xss"           -> XssFindings(s, seen)
      [] c.check = "open-redirect" -> RedirectFindings(seen)
      [] c.check = "ssrf"          -> SsrfFindings(s, seen)
      [] c.check = "host-header"   -> HostHeaderFindings(seen)
      [] c.check = "graphql"       -> GraphqlFindings(seen)
      [] c.check = "method-tamper" -> MethodTamperFindings(seen)
      [] c.check = "auth"          -> AuthFindings(s, seen)
      [] c.check = "idor"          -> IdorFindings(s, seen)
      [] c.check = "configleak"    -> ConfigLeakFindings(seen)
      [] c.check = "headers"       -> HeadersFindings(seen)
      [] c.check = "cors"          -> CorsFindings(s, seen)
      [] c.check = "exposure"      -> ExposureFindings(seen)
      [] c.check = "ratelimit"     -> RateLimitFindings(s, seen)
      [] c.check = "cookie-flags"  -> CookieFindings(s, seen)

\* What the target may answer.
Answers(s, c, seen, p) ==
    CASE c.check = "injection"     -> InjectionAnswers(s, seen, p)
      [] c.check = "xss"           -> XssAnswers(s, p)
      [] c.check = "open-redirect" -> RedirectAnswers(s, p)
      [] c.check = "ssrf"          -> SsrfAnswers(s, seen, p)
      [] c.check = "host-header"   -> HostHeaderAnswers(s, p)
      [] c.check = "graphql"       -> GraphqlAnswers(s, p)
      [] c.check = "method-tamper" -> MethodTamperAnswers(s, p)
      [] c.check = "auth"          -> AuthAnswers(s, p)
      [] c.check = "idor"          -> IdorAnswers(s, p)
      [] c.check = "configleak"    -> ConfigLeakAnswers(s)
      [] c.check = "headers"       -> HeadersAnswers(s)
      [] c.check = "cors"          -> CorsAnswers(s, p)
      [] c.check = "exposure"      -> ExposureAnswers(s)
      [] c.check = "ratelimit"     -> RateLimitAnswers(s, p)
      [] c.check = "cookie-flags"  -> CookieAnswers(s)

\* Whether a check runs at all: its tier's requirement on the configuration.
Enabled(c) == c.check \in ActiveTier => scene.active

\* The test in front of a probe.  "reserve" asks for room for four, after which
\* the group is sent without looking again ("none").
Gate(c, p) ==
    CASE p.kind \in {"control1", "timing-base"} -> "reserve"
      [] p.kind \in {"control2", "true", "false", "ssrf-base"} -> "none"
      [] p.kind \in {"timing1", "timing2", "hh-base", "burst"} -> "ctx"
      [] OTHER -> IF c.check \in ActiveTier THEN "cap" ELSE "none"

\* Only the active checks record, and not their baselines.
Counted(c, p) == c.check \in ActiveTier /\ p.kind \notin {"base", "timing-base"}

UrlOf(c, p) ==
    IF c.check = "graphql" /\ p.t \in 1..Len(KnownPaths) THEN KnownPaths[p.t] ELSE c.ep

\* Mutant of GateOpen: the count is only looked at for reserved groups.
GateWithoutCap(c, p) ==
    CASE Gate(c, p) = "none"    -> TRUE
      [] Gate(c, p) = "reserve" -> ~cancelled /\ audit[UrlOf(c, p)] + 4 <= MaxProbes
      [] OTHER                  -> ~cancelled

GateOpen(c, p) ==
    LET count == audit[UrlOf(c, p)]
    IN  CASE Gate(c, p) = "none"    -> TRUE
          [] Gate(c, p) = "ctx"     -> ~cancelled
          [] Gate(c, p) = "cap"     -> ~cancelled /\ count < MaxProbes
          [] Gate(c, p) = "reserve" -> ~cancelled /\ count + 4 <= MaxProbes

\* The next probe of the plan the answers so far call for.
NextProbe(c) ==
    LET past == {i \in DOMAIN plan[c] : plan[c][i] \in DOMAIN log[c]}
        todo == {i \in DOMAIN plan[c] : (\A j \in past : j < i) /\ Wanted(scene, c, log[c], plan[c][i])}
    IN  IF todo = {} THEN NoProbe ELSE plan[c][Min(todo)]

-----------------------------------------------------------------------------
Init ==
    /\ scene \in Scenes
    /\ stage = [c \in Running |-> "idle"]
    /\ plan = [c \in Running |-> <<>>]
    /\ log = [c \in Running |-> <<>>]
    /\ flight = [c \in Running |-> NoProbe]
    /\ sweeps = {}
    /\ audit = [u \in Urls |-> 0]
    /\ cancelled = FALSE
    /\ failures = 0
    /\ found = [c \in Running |-> {}]

\* A worker takes the check up.  The first GraphQL check of an origin marks it
\* swept before it has sent anything.
Start(c) ==
    /\ stage[c] = "idle" /\ Enabled(c)
    /\ stage' = [stage EXCEPT ![c] = "ready"]
    /\ LET sweep == c.check = "graphql" /\ sweeps = {}
       IN  /\ sweeps' = IF sweep THEN {c} ELSE sweeps
           /\ plan' = [plan EXCEPT ![c] = Plan(scene, c, sweep)]
    /\ UNCHANGED <<scene, log, flight, audit, cancelled, failures, found>>

Send(c) ==
    LET p == NextProbe(c)
    IN  /\ stage[c] = "ready" /\ p # NoProbe
        /\ GateOpen(c, p) /\ ~cancelled
        /\ stage' = [stage EXCEPT ![c] = "flight"]
        /\ flight' = [flight EXCEPT ![c] = p]
        /\ UNCHANGED <<scene, plan, log, sweeps, audit, cancelled, failures, found>>

\* A probe whose test fails is passed over, and once the context is done a
\* request fails before it leaves; the code after it sees no answer.
PassOver(c) ==
    LET p == NextProbe(c)
        why == IF cancelled THEN Answer(0, {"cut"}) ELSE NoAnswer
    IN  /\ stage[c] = "ready" /\ p # NoProbe
        /\ ~GateOpen(c, p) \/ cancelled
        /\ log' = [log EXCEPT ![c] = With(@, p, why)]
        /\ audit' = [audit EXCEPT ![UrlOf(c, p)] = IF GateOpen(c, p) /\ Counted(c, p) THEN @ + 1 ELSE @]
        /\ UNCHANGED <<scene, stage, plan, flight, sweeps, cancelled, failures, found>>

\* What a probe brought is recorded together with its count.
Settle(c, a) ==
    /\ stage[c] = "flight"
    /\ stage' = [stage EXCEPT ![c] = "ready"]
    /\ log' = [log EXCEPT ![c] = With(@, flight[c], a)]
    /\ flight' = [flight EXCEPT ![c] = NoProbe]
    /\ audit' = [audit EXCEPT ![UrlOf(c, flight[c])] =
                     IF Counted(c, flight[c]) /\ ~(flight[c].kind \in {"again1", "again2"} /\ a = NoAnswer)
                     THEN @ + 1 ELSE @]
    /\ UNCHANGED <<scene, plan, sweeps, cancelled, found>>

Receive(c) ==
    /\ \E a \in Answers(scene, c, log[c], flight[c]) : Settle(c, a)
    /\ UNCHANGED failures

Fail(c) ==
    /\ cancelled \/ failures < MaxFailures
    /\ Settle(c, NoAnswer)
    /\ failures' = IF cancelled THEN failures ELSE failures + 1

Return(c) ==
    /\ stage[c] = "ready" /\ NextProbe(c) = NoProbe
    /\ stage' = [stage EXCEPT ![c] = "done"]
    /\ found' = [found EXCEPT ![c] = FindingsOf(scene, c, log[c])]
    /\ UNCHANGED <<scene, plan, log, flight, sweeps, audit, cancelled, failures>>

Cancel ==
    /\ ~cancelled
    /\ cancelled' = TRUE
    /\ UNCHANGED <<scene, stage, plan, log, flight, sweeps, audit, failures, found>>

Next ==
    \/ \E c \in Running : Start(c)
    \/ \E c \in Running : Send(c)
    \/ \E c \in Running : PassOver(c)
    \/ \E c \in Running : stage[c] = "flight" /\ Receive(c)
    \/ \E c \in Running : Fail(c)
    \/ \E c \in Running : Return(c)
    \/ Cancel

\* A check that can move is moved on: workers are free again when theirs
\* returns, and a client with a timeout always comes back.
Work == \E c \in Running :
            \/ Start(c) \/ Send(c) \/ PassOver(c) \/ Return(c)
            \/ stage[c] = "flight" /\ (Receive(c) \/ Fail(c))

Spec == Init /\ [][Next]_vars /\ WF_vars(Work)

-----------------------------------------------------------------------------

Done(c) == stage[c] = "done"
Rules(c) == {f.rule : f \in found[c]}

\* The traits each rule speaks of: what a target must have for the finding to
\* be true of it.
Warrants ==
    { <<"injection/sqli-time-based", "sqliTime">>, <<"injection/sqli-error-based", "sqliError">>,
      <<"injection/sqli-boolean-based", "sqliBool">>, <<"injection/command-injection", "cmdi">>,
      <<"injection/header-crlf", "crlf">>, <<"xss/reflected", "xssRaw">>,
      <<"openredirect/confirmed", "redirOpen">>, <<"openredirect/confirmed", "redirSuffix">>,
      <<"openredirect/confirmed", "redirScheme">>,
      <<"ssrf/error-leakage", "ssrfLeak">>, <<"ssrf/confirmed-fetch", "ssrfForward">>,
      <<"ssrf/timing-differential", "ssrfBlocks">>,
      <<"hostheader/redirect-host", "hhRedirect">>, <<"hostheader/absolute-link", "hhLink">>,
      <<"graphql/introspection-enabled", "introspects">>, <<"graphql/get-execution", "viaGet">>,
      <<"auth/unauthenticated-access", "open">>, <<"auth/jwt-not-validated", "anyToken">>,
      <<"auth/expired-jwt-accepted", "anyToken">>, <<"auth/expired-jwt-accepted", "noExpiry">>,
      <<"auth/jwt-alg-none", "anyToken">>, <<"auth/jwt-alg-none", "algNone">>,
      <<"idor/cross-tenant-access", "noOwner">>, <<"idor/identical-responses", "noOwner">>,
      <<"methodtamper/access-control-bypass", "verbHole">>,
      <<"methodtamper/dangerous-method", "writable">>, <<"methodtamper/dangerous-method", "traces">>,
      <<"methodtamper/dangerous-method", "verbHole">>, <<"configleak", "leaks">> }

\* Harmless traits that may still mislead the check, into a finding of MEDIUM
\* confidence only: a hiccup, a page that changes, a page that is everyone's.
Misleads ==
    { <<"injection/sqli-time-based", "laggy">>, <<"ssrf/timing-differential", "laggy">>,
      <<"injection/sqli-boolean-based", "dynamic">>, <<"idor/identical-responses", "sameForAll">> }

\* Flawed or not, the target did what the finding says; the two cases the code
\* does not tell apart: an endpoint open to all whose garbage-token probe got
\* no answer, and a page that echoes our host beside an error of its own.
Warranted(c, f) ==
    \/ \A w \in Warrants : w[1] # f.rule
    \/ \E w \in Warrants : w[1] = f.rule /\ Has(scene, w[2])
    \/ f.confidence = "MEDIUM" /\ \E m \in Misleads : m[1] = f.rule /\ Has(scene, m[2])
    \/ /\ f.rule \in {JwtRule[k] : k \in DOMAIN JwtRule}
       /\ Has(scene, "open") /\ ~Answered(log[c], Probe("garbage", 0))
    \/ f.rule = "ssrf/error-leakage" /\ Has(scene, "echo") /\ Has(scene, "backend")

\* A check never accuses a target that has not the flaw, however many of its
\* requests fail, are cut short or are refused by the cap (false positives are
\* what the guards of the checks are written against).
OnlyRealFlaws == \A c \in Running : Done(c) => \A f \in found[c] : Warranted(c, f)

\* The flaws each check is there to find.
FlawsOf(check) ==
    CASE check = "injection"     -> {"sqliTime", "sqliError", "sqliBool", "cmdi", "crlf"}
      [] check = "xss"           -> {"xssRaw"}
      [] check = "open-redirect" -> {"redirOpen", "redirSuffix", "redirScheme"}
      [] check = "ssrf"          -> {"ssrfLeak", "ssrfForward", "ssrfBlocks"}
      [] check = "host-header"   -> {"hhRedirect", "hhLink"}
      [] check = "graphql"       -> {"introspects"}
      [] check = "method-tamper" -> {"verbHole", "writable", "traces"}
      [] check = "auth"          -> {"open", "anyToken", "noExpiry", "algNone"}
      [] check = "idor"          -> {"noOwner"}
      [] check = "configleak"    -> {"leaks"}
      [] OTHER                   -> {}

\* What hides a flaw from the check that looks for it: noise it discounts, an
\* endpoint it leaves alone.
Hides == {"laggy", "dynamic", "down", "absent", "mention", "gone", "catchAll", "empty"}

\* Where the checks look: response splitting in the query, SSRF in parameters
\* named like a URL, tokens and accounts where they are configured, GraphQL on
\* the known paths.
LooksFor(c, t) ==
    LET targets == {scene.targets[i] : i \in DOMAIN scene.targets}
    IN  /\ t = "crlf" => \/ \E target \in targets : target.at = "query"
                         \/ ~\E target \in targets : Sendable(scene, target)
        /\ c.check = "ssrf" => \E target \in targets : target.url /\ Sendable(scene, target)
        /\ c.check = "auth" => HasAuth(scene) /\ (t # "open" => IsJwtAuth(scene))
        /\ c.check = "idor" => HasAuth(scene) /\ scene.user2
        /\ c.check = "configleak" => scene.leakPath
        /\ c.check = "graphql" => c \in sweeps

\* The finding names the flaw, or one found first that stands for it: a
\* parameter is confirmed for SSRF once, an open endpoint needs no token, a
\* poisoned redirect's body is not searched, XSS comes back when the target
\* sends it.
Tells(c, t) ==
    \/ \E r \in Rules(c) : <<r, t>> \in Warrants
    \/ c.check = "ssrf" /\ found[c] # {}
    \/ c.check = "auth" /\ "auth/unauthenticated-access" \in Rules(c)
    \/ t = "hhLink" /\ Has(scene, "hhRedirect")
    \/ t = "xssRaw" /\ ~\E p \in DOMAIN log[c] : XssConfirmed(log[c][p])

\* A check that could send everything it wanted and was answered every time
\* finds each flaw it is for.
FlawsAreFound ==
    \A c \in Running :
        (Done(c) /\ scene.traits \cap Hides = {} /\ \A p \in DOMAIN log[c] : Answered(log[c], p))
            => \A t \in scene.traits \cap FlawsOf(c.check) : LooksFor(c, t) => Tells(c, t)

\* The cap bounds the probes that ask for it: at most the ones the other checks
\* had under way when the last was let through come on top, beside the baselines
\* and the tails of reserved groups, which do not ask and may bring no answer.
UnaskedKinds == {"control2", "true", "false", "ssrf-base", "hh-base", "timing1", "timing2"}
Unasked(u) ==
    Cardinality({cp \in UNION {{c} \X DOMAIN log[c] : c \in Running} :
                    cp[2].kind \in UnaskedKinds /\ UrlOf(cp[1], cp[2]) = u})
CapHolds ==
    \A u \in Urls : audit[u] <= MaxProbes + (Cardinality(Running) - 1) + Unasked(u)

\* The one origin finding CORS reports is the gravest of what the answers show,
\* except that reflection stands for acceptance of null.
GravestOriginKept ==
    \A c \in Running :
        (Done(c) /\ c.check = "cors") =>
            /\ (Saw(log[c], "origin", TRUE) /\ scene.expect # "public")
                  => \E f \in found[c] : f.severity = "CRITICAL"
            /\ (Saw(log[c], "null", TRUE) /\ ~Saw(log[c], "origin", FALSE))
                  => \E f \in found[c] : f.severity = "CRITICAL"
            /\ (Saw(log[c], "origin", FALSE) \/ Saw(log[c], "null", FALSE))
                  => \E f \in found[c] : SeverityRank[f.severity] >= SeverityRank["HIGH"]

\* The known GraphQL paths of the origin are asked for by one check only.
SweptOnce ==
    \A c, d \in Running :
        (c # d /\ c.check = "graphql" /\ d.check = "graphql") =>
            ~\E p \in DOMAIN log[c] \cap DOMAIN log[d] : p.t \in 1..Len(KnownPaths)

=============================================================================
