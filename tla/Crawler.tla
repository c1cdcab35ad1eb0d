------------------------------ MODULE Crawler ------------------------------
(***************************************************************************)
(* Endpoint discovery (go/internal/scanner/crawler.go): the specification, *)
(* robots.txt, the sitemaps, the scripts of the home page, its links to a  *)
(* depth, and a list of common paths, one after the other.  A source that  *)
(* fails is left out.  What they found is then deduplicated, filtered by   *)
(* robots.txt, sorted and cut off.                                         *)
(*                                                                         *)
(* A site is the target together with the scan's configuration.  A URL is  *)
(* a host ("own" for the target's), a path and a query; the path <<>> is   *)
(* "/", and as a robots rule it blocks everything.                         *)
(***************************************************************************)
EXTENDS SpecReading

CONSTANTS
    Sites,         \* the targets and configurations considered
    MaxSitemaps,   \* maxIndexFollow
    MaxFailures    \* bound: requests that fail

\* What a site may answer, and how a scan may be configured.
IsSite(s) ==
    /\ s.respect \in BOOLEAN /\ s.target \in BOOLEAN /\ s.cap \in Nat /\ s.depth \in Nat
    /\ s.specAt \in {"none", "file", "url", "broken"} /\ IsDocument(s.spec)
    /\ \A paths \in {s.robots.allow, s.robots.disallow, s.home.paths, s.words} : paths \in Seq(Seq(Nat))
    /\ s.home.scripts \in Seq(Seq(Seq(Nat)))
    /\ \A p \in DOMAIN s.links : IsList(s.links[p]) /\ \A u \in ToSet(s.links[p]) : u.path \in Seq(Nat)
    /\ \A m \in DOMAIN s.sitemaps :
           /\ IsList(s.sitemaps[m].pages)
           /\ \A u \in ToSet(s.sitemaps[m].pages) : u.path \in Seq(Nat)

ASSUME CrawlerAssumption ==
    MaxSitemaps \in Nat \ {0} /\ MaxFailures \in Nat /\ \A s \in Sites : IsSite(s)

VARIABLES
    site,        \* chosen once
    source,      \* the strategy under way, then "rank" and "done"
    queue,       \* what it still has to fetch
    seen,        \* what it has fetched or queued
    batch,       \* what it found so far
    found,       \* what the sources before it found
    disallows,   \* c.disallows
    asked,       \* paths of the word list asked for
    opened,      \* pages fetched for their links
    robotsRead,  \* robots.txt was read
    specErr,     \* c.SpecErr # nil
    cancelled,   \* ctx.Done()
    failures,    \* requests failed so far
    result,      \* the endpoints handed to the checks
    discovered   \* c.Discovered

progress == <<asked, opened, robotsRead, specErr>>
outcome == <<result, discovered>>
vars == <<site, source, queue, seen, batch, found, disallows, progress, cancelled, failures, outcome>>

Url(host, path, query) == [host |-> host, path |-> path, query |-> query]

\* The target as it was given, which a link to "/" is not equal to.
Home == Url("own", <<>>, 9)

DefaultSitemap == 0

Disallowed(path, rules) == \E i \in DOMAIN rules : IsPrefix(rules[i], path)

-----------------------------------------------------------------------------
Init ==
    /\ site \in Sites
    /\ source = "spec"
    /\ queue = <<>> /\ seen = {} /\ batch = <<>> /\ found = <<>>
    /\ disallows = <<>> /\ asked = {} /\ opened = {}
    /\ robotsRead = FALSE /\ specErr = FALSE /\ cancelled = FALSE
    /\ failures = 0 /\ result = <<>> /\ discovered = 0

\* A request for something that is there, or not (a status of 400 and above).
Fetched(there) == there /\ ~cancelled /\ UNCHANGED failures
NotFetched(there) ==
    IF there /\ ~cancelled THEN failures < MaxFailures /\ failures' = failures + 1
    ELSE UNCHANGED failures

\* The next source starts with its own queue; the one before hands over what
\* it found.
Enter(next, todo, more) ==
    /\ source' = next /\ queue' = todo
    /\ seen' = IF next = "links" THEN {Home} ELSE {}
    /\ batch' = <<>> /\ found' = found \o more

AllOf(paths) == [i \in DOMAIN paths |-> Discovered(paths[i])]

AfterSpec == IF site.target THEN "robots" ELSE "rank"

\* A specification that is not given, unreadable or not a specification leaves
\* the other sources to do the work.
ReadSpec ==
    /\ source = "spec"
    /\ \/ /\ site.specAt = "none"
          /\ Enter(AfterSpec, <<>>, <<>>)
          /\ UNCHANGED <<specErr, failures>>
       \/ /\ site.specAt = "file" \/ (site.specAt = "url" /\ ~cancelled)
          /\ Enter(AfterSpec, <<>>, EndpointsOf(site.spec))
          /\ UNCHANGED <<specErr, failures>>
       \/ /\ site.specAt \in {"broken", "url"}
          /\ NotFetched(site.specAt = "url")
          /\ Enter(AfterSpec, <<>>, <<>>)
          /\ specErr' = TRUE
    /\ UNCHANGED <<site, disallows, asked, opened, robotsRead, cancelled, outcome>>

\* Allowed paths are endpoints, and so are the disallowed ones unless the scan
\* respects robots.txt; without a Sitemap line the usual place is tried.
ReadRobots ==
    /\ source = "robots" /\ Fetched(site.robots.there)
    /\ LET r == site.robots
       IN  /\ Enter("sitemaps", IF r.sitemaps = <<>> THEN <<DefaultSitemap>> ELSE r.sitemaps,
                    AllOf(IF site.respect THEN r.allow ELSE r.allow \o r.disallow))
           /\ disallows' = IF site.respect THEN r.disallow ELSE <<>>
    /\ robotsRead' = TRUE
    /\ UNCHANGED <<site, asked, opened, specErr, cancelled, outcome>>

RobotsFails ==
    /\ source = "robots" /\ NotFetched(site.robots.there)
    /\ Enter("sitemaps", <<DefaultSitemap>>, <<>>)
    /\ UNCHANGED <<site, disallows, progress, cancelled, outcome>>

-----------------------------------------------------------------------------
SitemapsLeft == source = "sitemaps" /\ queue # <<>> /\ Cardinality(seen) < MaxSitemaps

\* Mutant of ReadSitemap: the visited ones are not remembered.
ReadSitemapAgain ==
    /\ SitemapsLeft
    /\ LET u == Head(queue)
       IN  /\ Fetched(u \in DOMAIN site.sitemaps)
           /\ batch' = batch \o site.sitemaps[u].pages
           /\ queue' = Tail(queue) \o site.sitemaps[u].children
    /\ UNCHANGED <<site, source, seen, found, disallows, progress, cancelled, outcome>>

\* An index leads to more sitemaps; one that cannot be read counts as visited.
\* batch holds the URLs of the pages.
ReadSitemap ==
    /\ SitemapsLeft /\ Head(queue) \notin seen
    /\ LET u == Head(queue)
       IN  /\ Fetched(u \in DOMAIN site.sitemaps)
           /\ seen' = seen \cup {u}
           /\ batch' = batch \o site.sitemaps[u].pages
           /\ queue' = Tail(queue) \o site.sitemaps[u].children
    /\ UNCHANGED <<site, source, found, disallows, progress, cancelled, outcome>>

SitemapFails ==
    /\ SitemapsLeft
    /\ IF Head(queue) \in seen THEN UNCHANGED <<seen, failures>>
       ELSE NotFetched(Head(queue) \in DOMAIN site.sitemaps) /\ seen' = seen \cup {Head(queue)}
    /\ queue' = Tail(queue)
    /\ UNCHANGED <<site, source, batch, found, disallows, progress, cancelled, outcome>>

EndSitemaps ==
    /\ source = "sitemaps" /\ ~SitemapsLeft
    /\ LET own == Selected(batch, {i \in DOMAIN batch : batch[i].host = "own"})
       IN  Enter("home", <<>>, AllOf(MergeParams([i \in DOMAIN own |-> own[i].path])))
    /\ UNCHANGED <<site, disallows, progress, cancelled, failures, outcome>>

\* API paths in the home page and in each script it loads.
AfterScripts(more) ==
    IF site.depth > 0 THEN Enter("links", <<[url |-> Home, depth |-> 0]>>, more)
    ELSE Enter("words", site.words, more)

ReadHome ==
    /\ source = "home" /\ Fetched(TRUE)
    /\ Enter("scripts", site.home.scripts, AllOf(site.home.paths))
    /\ UNCHANGED <<site, disallows, progress, cancelled, outcome>>

HomeFails ==
    /\ source = "home" /\ NotFetched(TRUE)
    /\ AfterScripts(<<>>)
    /\ UNCHANGED <<site, disallows, progress, cancelled, outcome>>

ReadScript ==
    /\ source = "scripts" /\ queue # <<>>
    /\ queue' = Tail(queue)
    /\ \/ Fetched(TRUE) /\ batch' = batch \o AllOf(Head(queue))
       \/ NotFetched(TRUE) /\ UNCHANGED batch
    /\ UNCHANGED <<site, source, seen, found, disallows, progress, cancelled, outcome>>

EndScripts ==
    /\ source = "scripts" /\ queue = <<>>
    /\ AfterScripts(batch)
    /\ UNCHANGED <<site, disallows, progress, cancelled, failures, outcome>>

-----------------------------------------------------------------------------
AtCap == site.cap > 0 /\ Len(batch) >= site.cap

LinksOf(path) == IF path \in DOMAIN site.links THEN site.links[path] ELSE <<>>

\* The links of a page that are followed: known, foreign and unscannable ones
\* are passed over, and so is everything once the cap is reached.
Followed(links) ==
    LET fresh == Selected(links, {i \in FirstPlaces(links) : links[i].host = "own" /\ links[i] \notin seen})
    IN  IF site.cap > 0 /\ Len(batch) + Len(fresh) > site.cap THEN SubSeq(fresh, 1, site.cap - Len(batch))
        ELSE fresh

PagesAt(urls, depth) == [i \in DOMAIN urls |-> [url |-> urls[i], depth |-> depth]]

\* Mutant of Queued: a page is walked from in the order of a stack.
QueuedFirst(rest, urls, depth) == IF depth < site.depth THEN PagesAt(urls, depth) \o rest ELSE rest

\* Pages at the depth are not opened.
Queued(rest, urls, depth) == IF depth < site.depth THEN rest \o PagesAt(urls, depth) ELSE rest

\* A page is fetched whether or not robots.txt disallows it.
ReadPage ==
    /\ source = "links" /\ queue # <<>> /\ ~cancelled /\ ~AtCap
    /\ LET page == Head(queue)
           there == page.url.path \in DOMAIN site.links
           urls == Followed(LinksOf(page.url.path))
       IN  /\ opened' = opened \cup {page}
           /\ \/ /\ Fetched(there)
                 /\ seen' = seen \cup ToSet(urls)
                 /\ batch' = batch \o AllOf([i \in DOMAIN urls |-> urls[i].path])
                 /\ queue' = Queued(Tail(queue), urls, page.depth + 1)
              \/ /\ NotFetched(there)
                 /\ queue' = Tail(queue)
                 /\ UNCHANGED <<seen, batch>>
    /\ UNCHANGED <<site, source, found, disallows, asked, robotsRead, specErr, cancelled, outcome>>

\* A walk that is cancelled with pages left gives an error, and with it goes
\* what it had found.
EndLinks ==
    /\ source = "links" /\ (queue = <<>> \/ cancelled \/ AtCap)
    /\ Enter("words", site.words, IF queue # <<>> /\ cancelled THEN <<>> ELSE batch)
    /\ UNCHANGED <<site, disallows, progress, cancelled, failures, outcome>>

\* A path is there when the answer is below 404; a disallowed one is not asked.
AskWord ==
    /\ source = "words" /\ queue # <<>> /\ ~cancelled
    /\ queue' = Tail(queue)
    /\ LET w == Head(queue)
       IN  IF site.respect /\ Disallowed(w, disallows) THEN UNCHANGED <<batch, asked, failures>>
           ELSE /\ asked' = asked \cup {w}
                /\ \/ /\ Fetched(TRUE)
                      /\ batch' = IF w \in site.exists
                                  THEN Append(batch, Endpoint("GET", w, w, <<>>)) ELSE batch
                   \/ NotFetched(TRUE) /\ UNCHANGED batch
    /\ UNCHANGED <<site, source, seen, found, disallows, opened, robotsRead, specErr, cancelled, outcome>>

EndWords ==
    /\ source = "words" /\ (queue = <<>> \/ cancelled)
    /\ Enter("rank", <<>>, IF queue # <<>> THEN <<>> ELSE batch)
    /\ UNCHANGED <<site, disallows, progress, cancelled, failures, outcome>>

-----------------------------------------------------------------------------
\* Mutant of Deduplicated: the last one of a method and path is kept.
LastKept(eps) ==
    {eps[i] : i \in {i \in DOMAIN eps :
        ~\E j \in DOMAIN eps : j > i /\ eps[j].method = eps[i].method /\ eps[j].path = eps[i].path}}

\* The first endpoint found of a method and path is kept.
Deduplicated(eps) ==
    {eps[i] : i \in {i \in DOMAIN eps :
        ~\E j \in DOMAIN eps : j < i /\ eps[j].method = eps[i].method /\ eps[j].path = eps[i].path}}

\* Mutant of Ranked: only what robots.txt itself hinted at is held back.
RankedUnfiltered == InOrder(Deduplicated(found))

\* The endpoints that may be scanned, by path and method.
Ranked ==
    InOrder({e \in Deduplicated(found) : ~(site.respect /\ Disallowed(e.path, disallows))})

\* Mutant of Rank: cut off in the order of discovery, then sorted.
RankAfterCap ==
    /\ source = "rank"
    /\ source' = "done"
    /\ discovered' = Len(Ranked)
    /\ LET first == IF site.cap > 0 /\ Len(found) > site.cap THEN SubSeq(found, 1, site.cap) ELSE found
       IN  result' = InOrder({e \in Deduplicated(first) :
                                 ~(site.respect /\ Disallowed(e.path, disallows))})
    /\ UNCHANGED <<site, queue, seen, batch, found, disallows, progress, cancelled, failures>>

Rank ==
    /\ source = "rank"
    /\ source' = "done"
    /\ discovered' = Len(Ranked)
    /\ result' = IF site.cap > 0 /\ Len(Ranked) > site.cap THEN SubSeq(Ranked, 1, site.cap) ELSE Ranked
    /\ UNCHANGED <<site, queue, seen, batch, found, disallows, progress, cancelled, failures>>

Cancel ==
    /\ ~cancelled /\ source # "done"
    /\ cancelled' = TRUE
    /\ UNCHANGED <<site, source, queue, seen, batch, found, disallows, progress, failures, outcome>>

Work ==
    \/ ReadSpec \/ ReadRobots \/ RobotsFails
    \/ ReadSitemap \/ SitemapFails \/ EndSitemaps
    \/ ReadHome \/ HomeFails \/ ReadScript \/ EndScripts
    \/ ReadPage \/ EndLinks \/ AskWord \/ EndWords
    \/ Rank

Next == Work \/ Cancel

\* The crawler is one goroutine whose requests have a timeout.
Spec == Init /\ [][Next]_vars /\ WF_vars(Work)

-----------------------------------------------------------------------------
Done == source = "done"

\* With --respect-robots and a robots.txt that could be read, no path it
\* disallows is handed to the checks, whichever source came upon it, and none
\* of the word list is asked for.  That none is fetched, as the comment in
\* fromRobots has it, is not so and not claimed: from a depth of 2 on the walk
\* fetches disallowed pages, and the home page is fetched whatever its rule.
DisallowedNotScanned ==
    (site.respect /\ robotsRead) =>
        /\ \A w \in asked : ~Disallowed(w, site.robots.disallow)
        /\ \A page \in opened :
               Disallowed(page.url.path, site.robots.disallow) => page.url = Home \/ site.depth > 1
        /\ \A e \in ToSet(result) : ~Disallowed(e.path, site.robots.disallow)

\* An operation's own value of a placeholder, if it declares one.
OwnExample(op, token) ==
    {op.params[i].example : i \in {i \in DOMAIN op.params :
        /\ Describes(op.params[i], token)
        /\ \A k \in DOMAIN op.params : Describes(op.params[k], token) => k <= i}} \ {0}

\* What a specification declares of an operation.
AsDeclared(e, item, op) ==
    LET security == IF op.security = "absent" THEN site.spec.security ELSE op.security
        declared == {p \in ToSet(item.params) \cup ToSet(op.params) : ~p.ref}
    IN  /\ (e.auth = "public") <=> (security \in {"none", "optional"})
        /\ (e.auth = "required") <=> (security = "schemes")
        /\ {p.name : p \in {p \in declared : p.in = "query"}} \subseteq ToSet(e.params)
        /\ \A p \in {p \in declared : p.in = "header"} : p.name \in ToSet(e.headers) <=> ~p.credential
        /\ ToSet(op.body) \subseteq ToSet(e.body)
        /\ \A i \in DOMAIN item.path :
               IsPlaceholder(item.path[i]) =>
                   /\ ~IsPlaceholder(e.url[i])
                   /\ \A v \in OwnExample(op, item.path[i]) : e.url[i] = ByExample(v)

\* An operation of a specification that was read is scanned as declared, even
\* when other sources came upon the same method and path, some failed or the
\* scan was cancelled; only robots.txt and the cap keep it out.
SpecWins ==
    (Done /\ site.specAt # "none" /\ ~specErr) =>
        \A item \in site.spec.items : \A op \in item.ops :
            \/ \E e \in ToSet(result) : /\ e.path = item.path /\ e.method = op.method
                                        /\ AsDeclared(e, item, op)
            \/ site.respect /\ Disallowed(item.path, disallows)
            \/ /\ site.cap > 0 /\ Len(result) = site.cap
               /\ \A e \in ToSet(result) : ~Before([path |-> item.path, method |-> op.method], e)

\* The pages of the host a page links to, and those within n links of the
\* home page.
LinkedFrom(links, pages) ==
    {u \in UNION {ToSet(links[v.path]) : v \in {v \in pages : v.path \in DOMAIN links}} : u.host = "own"}
Near(links) ==
    LET near[n \in Nat] == IF n = 0 THEN {Home} ELSE near[n - 1] \cup LinkedFrom(links, near[n - 1])
    IN  near

\* The walk opens no page at the depth or further, none further from the home
\* page than it is counted to be, and none twice; one that nothing disturbed
\* finds every page within the depth.
PagesWithinDepth ==
    /\ \A page \in opened :
          /\ page.depth < site.depth /\ page.url \in Near(site.links)[page.depth]
          /\ \A other \in opened : other.url = page.url => other = page
    /\ (Done /\ site.target /\ site.depth > 0 /\ site.cap = 0 /\ failures = 0 /\ ~cancelled) =>
          \A u \in Near(site.links)[site.depth] \ {Home} : \E i \in DOMAIN found : found[i].path = u.path

\* The cap takes the first endpoints in the order of the report from all that
\* were found and may be scanned, whatever the order they were found in.
CapKeepsTheFirst ==
    Done =>
        LET mayScan == {<<found[i].path, found[i].method>> :
                            i \in {i \in DOMAIN found :
                                      ~(site.respect /\ Disallowed(found[i].path, disallows))}}
            kept == {<<e.path, e.method>> : e \in ToSet(result)}
        IN  /\ kept \subseteq mayScan /\ Cardinality(kept) = Len(result)
            /\ discovered = Cardinality(mayScan)
            /\ \A m \in mayScan \ kept :
                   /\ Len(result) = site.cap /\ site.cap > 0
                   /\ \A e \in ToSet(result) : Before(e, [path |-> m[1], method |-> m[2]])

\* Discovery ends, sitemap indexes and links that lead in circles included.
CrawlEnds == <>Done
=============================================================================
