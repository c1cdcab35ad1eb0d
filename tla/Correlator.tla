----------------------------- MODULE Correlator -----------------------------
(***************************************************************************)
(* Which findings of different engines are the same problem                *)
(* (internal/engine): a black-box and a white-box finding are paired and   *)
(* merged (correlator.go, correlator_v2.go), two tools that report one     *)
(* weakness at one place corroborate each other (crosstool.go), and static *)
(* engines that report one place are collapsed to the most trusted one     *)
(* (collapse.go).  Findings are sequences: their order is the order the    *)
(* engines reported them in.                                               *)
(***************************************************************************)
EXTENDS Evidence, SequencesExt

(* --- pairing ----------------------------------------------------------- *)
RelatedCategories(category) ==
  CASE category = "secrets" -> <<"secrets", "data_exposure">>
    [] category = "data_exposure" -> <<"data_exposure", "secrets">>
    [] category = "auth" -> <<"auth", "auth_bypass">>
    [] category = "auth_bypass" -> <<"auth_bypass", "auth">>
    [] OTHER -> <<category>>
Related(wf, bf) == bf.category \in Range(RelatedCategories(wf.category))

NormalizeEndpoint(at) == <<at.url, at.path>>
PathSuffixMatch(a, b) ==
  /\ a.url /\ b.url
  /\ \/ a.path = b.path
     \/ a.path # <<>> /\ b.path # <<>> /\ (IsSuffix(a.path, b.path) \/ IsSuffix(b.path, a.path))

(* Segments that say nothing: the ones every tree has, and the short ones.  *)
PathSegmentNoise == {"api", "v1", "v2", "v3", "src", "py", "js", "go", "ts", "internal", "routes",
                     "handlers", "get", "post", "put", "delete", "patch", "head", "options"}
ShortSegments == {"me", "id"}
SegmentsRelated(a, b) ==
  (Range(a.path) \ (PathSegmentNoise \cup ShortSegments)) \cap Range(b.path) # {}

(* A declared route pattern, its parameters "{}", against a requested path. *)
RouteMatches(route, at) ==
  /\ route # NoRoute
  /\ Len(route.pattern) = Len(at.path)
  /\ \A i \in DOMAIN at.path : route.pattern[i] \in {"{}", at.path[i]}
  /\ route.method = "" \/ at.method = "" \/ route.method = at.method

(* The first free black-box finding in four passes: a confirmed route, the  *)
(* same endpoint (own category first), a path that ends alike, a shared     *)
(* segment.                                                                 *)
NoMatch == [i |-> 0, route |-> FALSE]
FindCorrelationMatch(wf, blackbox, taken) ==
  LET free(P(_)) == {i \in DOMAIN blackbox \ taken : Related(wf, blackbox[i]) /\ P(blackbox[i])}
      route == free(LAMBDA b : RouteMatches(wf.route, b.at))
      exact == free(LAMBDA b : NormalizeEndpoint(b.at) = NormalizeEndpoint(wf.at))
      own == {i \in exact : blackbox[i].category = wf.category}
      suffix == free(LAMBDA b : PathSuffixMatch(wf.at, b.at))
      fuzzy == free(LAMBDA b : SegmentsRelated(wf.at, b.at))
      first(S) == [i |-> Min(S), route |-> FALSE]
  IN  CASE route # {} -> [i |-> Min(route), route |-> TRUE]
        [] route = {} /\ own # {} -> first(own)
        [] route = {} /\ own = {} /\ exact # {} -> first(exact)
        [] route = {} /\ exact = {} /\ suffix # {} -> first(suffix)
        [] route = {} /\ exact = {} /\ suffix = {} /\ fuzzy # {} -> first(fuzzy)
        [] OTHER -> NoMatch

MergeFindings(bb, wb, routeConfirmed) ==
  LET traced == wb.reachable /\ wb.tier # "semgrep"
      once == EscalateSeverity(HigherSeverity(bb.severity, wb.severity))
  IN  [Blank EXCEPT
        !.source = "correlated", !.title = bb.title, !.category = bb.category, !.at = bb.at,
        !.text = bb.text, !.refs = bb.refs \cup wb.refs, !.confidence = "HIGH",
        !.severity = IF traced /\ routeConfirmed THEN "CRITICAL"
                     ELSE IF traced THEN EscalateSeverity(once) ELSE once,
        !.tier = wb.tier, !.chain = wb.chain, !.reachable = wb.reachable, !.route = wb.route,
        !.routeConfirmed = routeConfirmed, !.provenPath = traced /\ routeConfirmed]

(* A finding no other engine saw passes through; one whose place is a route *)
(* the live scan did not confirm is marked.                                 *)
PassThrough(wf) == IF wf.at.url THEN [wf EXCEPT !.confidence = "MEDIUM", !.unconfirmed = TRUE] ELSE wf

OfSource(evs, S) == At(evs, {i \in DOMAIN evs : evs[i].source \in S})
PairNext(blackbox, acc, wf) ==
  LET m == FindCorrelationMatch(wf, blackbox, acc.taken)
  IN  IF m = NoMatch
      THEN [acc EXCEPT !.out = Append(@, PassThrough(wf))]
      ELSE [taken |-> acc.taken \cup {m.i},
            out |-> Append(acc.out, MergeFindings(blackbox[m.i], wf, m.route)),
            pairs |-> acc.pairs \cup {<<blackbox[m.i], wf>>}]
NoPairs == [taken |-> {}, out |-> <<>>, pairs |-> {}]
Pairing(evs) ==
  LET blackbox == OfSource(evs, {"blackbox"})
  IN  FoldLeft(LAMBDA acc, wf : PairNext(blackbox, acc, wf), NoPairs, OfSource(evs, {"whitebox"}))

(* What was not merged gets back the internal fields the projection to a    *)
(* finding emptied: those CorrelateEvidence names.                          *)
RestorePassed(o, evs) ==
  LET same == {i \in DOMAIN evs : evs[i].source = o.source /\ Identity(evs[i]) = Identity(o)}
      src == evs[Max(same)]
  IN  IF same = {} THEN Published(o)
      ELSE [Published(o) EXCEPT
             !.probe = src.probe, !.context = src.context, !.direct = src.direct,
             !.placeholder = src.placeholder, !.notImported = src.notImported, !.auth = src.auth,
             !.applicability = src.applicability, !.unconfirmed = o.unconfirmed \/ src.unconfirmed]

HasSource(evs, s) == \E i \in DOMAIN evs : evs[i].source = s
CorrelateEvidence(evs) ==
  LET p == Pairing(evs)
      blackbox == OfSource(evs, {"blackbox"})
      out == p.out \o At(blackbox, DOMAIN blackbox \ p.taken) \o OfSource(evs, {"imported"})
  IN  IF HasSource(evs, "whitebox") /\ HasSource(evs, "blackbox")
      THEN [k \in DOMAIN out |-> RestorePassed(out[k], evs)]
      ELSE evs

(* --- cross-tool corroboration ------------------------------------------ *)
StrongLineDistance == 5
StampToolID(e) == IF e.tool # "" THEN e
                  ELSE [e EXCEPT !.tool = IF e.tier = "semgrep" THEN "semgrep" ELSE "fendix"]

LocationClose(a, b) ==
  \/ a.at.url
  \/ /\ a.at.line > 0 /\ b.at.line > 0
     /\ IF a.lineEnd > 0 /\ b.lineEnd > 0
        THEN a.at.line <= b.lineEnd /\ b.at.line <= a.lineEnd
        ELSE a.at.line - b.at.line \in -StrongLineDistance .. StrongLineDistance

(* The strong match: one weakness, one place, two tools, at least one of    *)
(* them imported.                                                           *)
Strong(a, b) ==
  /\ a.source = "imported" \/ b.source = "imported"
  /\ a.weakness \cap b.weakness # {}
  /\ NormalizeEndpoint(a.at) = NormalizeEndpoint(b.at)
  /\ a.tool # b.tool
  /\ LocationClose(a, b)

Stamped(evs) ==
  IF HasSource(evs, "imported") THEN [i \in DOMAIN evs |-> StampToolID(StampWeakness(evs[i]))] ELSE evs
Partners(s, i) == {j \in DOMAIN s \ {i} : Strong(s[i], s[j])}
NativePartners(s, i) ==
  IF s[i].source = "imported" THEN {j \in Partners(s, i) : s[j].source # "imported"} ELSE {}

(* Partners name each other's tool; an import a native finding represents   *)
(* is dropped, its references kept by the first such finding.               *)
CorrelateCrossTool(evs) ==
  LET s == Stamped(evs)
      dropped == {i \in DOMAIN s : NativePartners(s, i) # {}}
      refs(j) == UNION {s[i].refs : i \in {d \in dropped : Min(NativePartners(s, d)) = j}}
      seen(i) == [s[i] EXCEPT !.crossTool = @ \/ Partners(s, i) # {},
                              !.tools = IF Partners(s, i) = {} THEN @ ELSE {s[j].tool : j \in Partners(s, i)},
                              !.refs = @ \cup refs(i)]
  IN  At([i \in DOMAIN s |-> seen(i)], DOMAIN s \ dropped)
CollapsedByTool(evs) ==
  LET s == Stamped(evs)
  IN  [t \in {s[i].tool : i \in DOMAIN s} |->
         Cardinality({i \in DOMAIN s : s[i].tool = t /\ NativePartners(s, i) # {}})]

(* --- collapse ----------------------------------------------------------- *)
(* Mutant: a group's representative is the first that arrived.              *)
LessBySeverity(a, b) == SeverityRank(a.severity) < SeverityRank(b.severity)
(* The total order of occurrences: by location, then by what they quote.    *)
FindingLess(a, b) == a.at.n < b.at.n \/ (a.at.n = b.at.n /\ a.text < b.text)
DuplicateLess(a, b) ==
  \/ TrustRank(a.tier) > TrustRank(b.tier)
  \/ /\ TrustRank(a.tier) = TrustRank(b.tier)
     /\ \/ SeverityRank(a.severity) > SeverityRank(b.severity)
        \/ SeverityRank(a.severity) = SeverityRank(b.severity) /\ FindingLess(a, b)

(* The findings of one category at one place, when their tiers differ.      *)
CollapseGroup(fs, i) ==
  LET g == {j \in DOMAIN fs : /\ fs[i].source = "whitebox" /\ fs[j].source = "whitebox"
                              /\ fs[j].category = fs[i].category /\ fs[j].at = fs[i].at}
  IN  IF Cardinality({fs[j].tier : j \in g}) > 1 THEN g ELSE {i}
(* The best of a group, the first of equals.                                *)
Winner(fs, i) ==
  LET g == CollapseGroup(fs, i)
      best == {j \in g : \A k \in g : ~DuplicateLess(fs[k], fs[j])}
  IN  Min(best)
CollapseDuplicateLocations(fs) ==
  At([i \in DOMAIN fs |-> [fs[i] EXCEPT !.refs = UNION {fs[j].refs : j \in CollapseGroup(fs, i)}]],
     {i \in DOMAIN fs : Winner(fs, i) = i})
=============================================================================
