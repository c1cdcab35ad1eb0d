------------------------------- MODULE Probe -------------------------------
(***************************************************************************)
(* The vocabulary the black-box checks of go/internal/scanner share.       *)
(*                                                                         *)
(* A check on one endpoint is a fixed plan of requests: which of them are  *)
(* sent depends on the answers before, and its findings are a function of  *)
(* all the answers.  A probe names a request by the payload it carries, t  *)
(* is the injectable parameter it goes to (0 where there is none).  A log  *)
(* maps each probe settled so far to the answer it got; NoAnswer stands    *)
(* for a request that failed and for one that was not sent at all, which   *)
(* every check treats the same.                                            *)
(*                                                                         *)
(* An answer keeps of an HTTP response its status code and the marks a     *)
(* check looks for in it: a header value, a body pattern, a slow answer.   *)
(*                                                                         *)
(* A scene is what does not change while checks run: the endpoint, the     *)
(* scan configuration and the target's traits, the behaviours (flawed and  *)
(* harmless ones) that decide what it may answer.                          *)
(***************************************************************************)
EXTENDS Naturals, Sequences, FiniteSets, SequencesExt

Probe(kind, t) == [kind |-> kind, t |-> t]

Answer(code, marks) == [code |-> code, marks |-> marks]
NoAnswer == Answer(0, {})

\* One probe of each kind for each of n parameters, a parameter at a time.
PlanFor(n, kinds) ==
    LET k == Len(kinds)
    IN  [i \in 1..(n * k) |-> Probe(kinds[((i - 1) % k) + 1], ((i - 1) \div k) + 1)]

\* What a probe brought, as the code reads it: nothing if it was not sent.
Got(log, p) == IF p \in DOMAIN log THEN log[p] ELSE NoAnswer
\* The log with one more probe settled.
With(log, p, a) == [q \in DOMAIN log \cup {p} |-> IF q = p THEN a ELSE log[q]]

Answered(log, p) == Got(log, p).code # 0

Is2xx(a) == a.code \in 200..299
Is3xx(a) == a.code \in 300..399
Shows(a, mark) == mark \in a.marks

\* One list entry of a check's result.
Finding(rule, severity, confidence) ==
    [rule |-> rule, severity |-> severity, confidence |-> confidence]

FindingIf(condition, rule, severity, confidence) ==
    IF condition THEN {Finding(rule, severity, confidence)} ELSE {}

SeverityRank == [INFO |-> 0, LOW |-> 1, MEDIUM |-> 2, HIGH |-> 3, CRITICAL |-> 4]

Has(s, trait) == trait \in s.traits
=============================================================================
