---------------------------- MODULE SpecReading ----------------------------
(***************************************************************************)
(* How an API specification becomes endpoints (fromSpec and its helpers in *)
(* go/internal/scanner/crawler.go).                                        *)
(*                                                                         *)
(* A path is a sequence of numbers, in the order its text sorts in; a      *)
(* number from Placeholder on is a "{name}", which sorts after every       *)
(* letter.  Sample numbers stand for what a placeholder is replaced with.  *)
(*                                                                         *)
(* A document has a global security value and a set of path items; a path  *)
(* item has a list of parameters and its operations, each with parameters, *)
(* body properties and a security value of its own.                        *)
(***************************************************************************)
EXTENDS Naturals, Sequences, FiniteSets, SequencesExt

Placeholder == 90
IsPlaceholder(token) == token >= Placeholder

\* What the value of a placeholder is taken from, best first; examples are
\* small enough not to look like a placeholder themselves.
ByExample(v) == 10 + v
ByEnum == 20
ByType == 21
ByName == 22

Examples == 0..(Placeholder - 11)

-----------------------------------------------------------------------------
\* security: absent, [] or a list with {} in it, a list of schemes, not a list.
Securities == {"absent", "none", "optional", "schemes", "malformed"}

SpecAllowsAnon(security) == security \in {"none", "optional"}

\* The operation's own value, whatever it is, replaces the global one.
AuthExpectationFor(own, global) ==
    LET v == IF own = "absent" THEN global ELSE own
    IN  IF SpecAllowsAnon(v) THEN "public" ELSE IF v = "schemes" THEN "required" ELSE "unknown"

\* The elements of s at the positions I, in their order.
Selected(s, I) ==
    [n \in 1..Cardinality(I) |-> s[CHOOSE i \in I : Cardinality({k \in I : k < i}) = n - 1]]

\* Each element in its first place.
FirstPlaces(s) == {i \in DOMAIN s : \A k \in 1..(i - 1) : s[k] # s[i]}
MergeParams(names) == Selected(names, FirstPlaces(names))

\* Parameters given by reference and unnamed ones are passed over, and so are
\* headers that carry credentials.
NamesIn(params, places) ==
    LET kept == Selected(params, {i \in DOMAIN params :
                    /\ ~params[i].ref /\ params[i].in \in places
                    /\ ~(params[i].in = "header" /\ params[i].credential)})
    IN  [i \in DOMAIN kept |-> kept[i].name]

ExtractPathParams(path) == Selected(path, {i \in DOMAIN path : IsPlaceholder(path[i])})

\* The schema of a path parameter: the last entry, and the operation's come
\* after the path item's, replaces the others as a whole.
Describes(p, token) == ~p.ref /\ p.in = "path" /\ p.name = token
SchemaOf(token, pathItem, op) ==
    LET all == pathItem.params \o op.params
        entries == {i \in DOMAIN all : Describes(all[i], token)}
    IN  IF entries = {} THEN [example |-> 0, enum |-> FALSE, typed |-> FALSE]
        ELSE all[CHOOSE i \in entries : \A k \in entries : k <= i]

SamplePathValue(schema) ==
    IF schema.example # 0 THEN ByExample(schema.example)
    ELSE IF schema.enum THEN ByEnum
    ELSE IF schema.typed THEN ByType
    ELSE ByName

NoSchemas == [pathItem |-> [params |-> <<>>], op |-> [params |-> <<>>]]

SubstitutePathPlaceholders(path, pathItem, op) ==
    [i \in DOMAIN path |-> IF IsPlaceholder(path[i])
                           THEN SamplePathValue(SchemaOf(path[i], pathItem, op)) ELSE path[i]]

-----------------------------------------------------------------------------
Endpoint(method, path, url, params) ==
    [method |-> method, path |-> path, url |-> url, params |-> params,
     headers |-> <<>>, body |-> <<>>, auth |-> "unknown"]

\* An endpoint of any other source: GET, and nothing declared.
Discovered(path) ==
    Endpoint("GET", path, SubstitutePathPlaceholders(path, NoSchemas.pathItem, NoSchemas.op),
             ExtractPathParams(path))

FromOperation(document, item, op) ==
    [Endpoint(op.method, item.path,
              SubstitutePathPlaceholders(item.path, item, op),
              MergeParams(ExtractPathParams(item.path) \o NamesIn(item.params, {"query", "path"})
                            \o NamesIn(op.params, {"query", "path"})))
       EXCEPT !.headers = MergeParams(NamesIn(item.params, {"header"}) \o NamesIn(op.params, {"header"})),
              !.body = MergeParams(op.body),
              !.auth = AuthExpectationFor(op.security, document.security)]

\* Maps have no order: any sequence of the operations will do.
EndpointsOf(document) ==
    SetToSeq(UNION {{FromOperation(document, item, op) : op \in item.ops} : item \in document.items})

\* Documents: the paths and, under each, the methods are keys of maps (two that
\* differ by case only are left out).
Methods == <<"DELETE", "GET", "HEAD", "OPTIONS", "PATCH", "POST", "PUT">>
IsList(s) == s \in Seq(ToSet(s))
IsParams(params) == IsList(params) /\ \A p \in ToSet(params) : p.example \in Examples
IsOperation(op) ==
    /\ op.method \in ToSet(Methods) /\ op.security \in Securities
    /\ IsParams(op.params) /\ IsList(op.body)
\* A header is known to carry credentials by its name.
NamedAlike(params) ==
    \A p, q \in params : p.in = "header" /\ q.in = "header" /\ p.name = q.name => p.credential = q.credential
IsItem(item) ==
    /\ item.path \in Seq(Nat) /\ IsParams(item.params)
    /\ IsFiniteSet(item.ops) /\ \A op \in item.ops : IsOperation(op)
    /\ \A op \in item.ops : NamedAlike(ToSet(item.params) \cup ToSet(op.params))
    /\ \A op, other \in item.ops : op.method = other.method => op = other
IsDocument(document) ==
    /\ document.security \in Securities
    /\ IsFiniteSet(document.items) /\ \A item \in document.items : IsItem(item)
    /\ \A item, other \in document.items : item.path = other.path => item = other

-----------------------------------------------------------------------------
MethodRank(m) == CHOOSE i \in DOMAIN Methods : Methods[i] = m

PathBefore(p, q) ==
    \/ IsStrictPrefix(p, q)
    \/ \E i \in DOMAIN p \cap DOMAIN q :
           p[i] < q[i] /\ \A j \in 1..(i - 1) : p[j] = q[j]

\* The order endpoints are reported, and cut off, in.
Before(e, f) ==
    \/ PathBefore(e.path, f.path)
    \/ e.path = f.path /\ MethodRank(e.method) < MethodRank(f.method)

\* A set of endpoints in that order; no two are alike in both.
InOrder(eps) ==
    [i \in 1..Cardinality(eps) |->
        CHOOSE e \in eps : Cardinality({f \in eps : Before(f, e)}) = i - 1]
=============================================================================
