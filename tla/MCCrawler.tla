----------------------------- MODULE MCCrawler -----------------------------
(***************************************************************************)
(* Sites for Crawler: a walk where a page has a short and a long way to    *)
(* it, links that lead in circles and elsewhere, a circle of sitemap       *)
(* indexes longer than the bound, and a specification whose operations are *)
(* also found by other sources; with and without cap, depth, robots.txt.   *)
(***************************************************************************)
EXTENDS Crawler

Own(path) == Url("own", path, 0)
Foreign(path) == Url("other", path, 0)

Param(name, in, ref, credential, example) ==
    [name |-> name, in |-> in, ref |-> ref, credential |-> credential,
     example |-> example, enum |-> FALSE, typed |-> TRUE]

Op(method, params, body, security) ==
    [method |-> method, params |-> params, body |-> body, security |-> security]

\* /1 is public, /1/{id} requires what the document says.
Document ==
    [security |-> "schemes",
     items |-> { [path |-> <<1>>, params |-> <<Param(50, "header", FALSE, TRUE, 0)>>,
                  ops |-> {Op("GET", <<Param(51, "query", FALSE, FALSE, 0)>>, <<>>, "optional"),
                           Op("POST", <<Param(52, "header", FALSE, FALSE, 0)>>, <<60, 61>>, "malformed")}],
                 [path |-> <<1, 91>>, params |-> <<Param(91, "path", FALSE, FALSE, 3)>>,
                  ops |-> {Op("GET", <<Param(91, "path", FALSE, FALSE, 4), Param(53, "query", TRUE, FALSE, 0)>>,
                              <<>>, "absent")}] }]

\* From the home page: 2 -> 4 -> 5 is the short way, 3 -> 6 -> 4 the long one.
Walk ==
    (<<>> :> <<Own(<<3>>), Own(<<2>>), Foreign(<<7>>), Url("mail", <<8>>, 0), Own(<<>>)>>)
      @@ (<<2>> :> <<Own(<<4>>), Own(<<1>>)>>) @@ (<<3>> :> <<Own(<<6>>)>>)
      @@ (<<6>> :> <<Own(<<4>>)>>) @@ (<<4>> :> <<Own(<<5>>), Own(<<2>>)>>)

Maps ==
    (0 :> [pages |-> <<Own(<<1>>), Foreign(<<9>>), Own(<<1, 2>>)>>, children |-> <<1, 5>>])
      @@ (1 :> [pages |-> <<>>, children |-> <<2>>])
      @@ (2 :> [pages |-> <<>>, children |-> <<1, 0>>])

Base ==
    [target |-> TRUE, respect |-> FALSE, specAt |-> "none", spec |-> Document,
     robots |-> [there |-> TRUE, allow |-> <<<<1, 2>>>>, disallow |-> <<<<1>>, <<3>>>>, sitemaps |-> <<>>],
     sitemaps |-> Maps, home |-> [paths |-> <<<<1>>>>, scripts |-> <<<<<<1, 91>>>>, <<<<3>>>>>>],
     links |-> Walk, words |-> <<<<1, 2>>, <<9>>, <<10>>>>, exists |-> {<<1, 2>>, <<10>>},
     depth |-> 0, cap |-> 0]

MCSites ==
    {[Base EXCEPT !.depth = d, !.cap = c, !.specAt = s, !.respect = r] :
        d \in {0, 2, 3}, c \in {0, 1, 3}, s \in {"none", "file", "url"}, r \in BOOLEAN}
    \cup {[Base EXCEPT !.depth = 3, !.respect = TRUE, !.robots.disallow = <<<<>>>>, !.specAt = "file"]}
    \cup {[Base EXCEPT !.specAt = s, !.target = t] : s \in {"file", "url", "broken"}, t \in BOOLEAN}
    \cup {[Base EXCEPT !.robots.there = FALSE, !.depth = 3], [Base EXCEPT !.robots.sitemaps = <<2, 7, 2>>],
          [Base EXCEPT !.words = <<>>, !.cap = 2, !.depth = 3]}
=============================================================================
