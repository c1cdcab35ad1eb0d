---------------------------- MODULE ScanService -----------------------------
(***************************************************************************)
(* What the scan pool promises, without its locks, channels and wait       *)
(* group: a service that accepts jobs into a bounded backlog, starts them  *)
(* in the order it accepted them, never has two jobs of one key, runs a    *)
(* bounded number at a time, each exactly once, and halts only after it    *)
(* was closed and everything it accepted has run.                          *)
(***************************************************************************)
EXTENDS Integers, Sequences, FiniteSets

CONSTANTS Jobs, KeyOf, NoKey, MaxConcurrent, Backlog

VARIABLES
    accepted,  \* every job accepted so far
    backlog,   \* accepted jobs not started yet, oldest first
    active,    \* jobs started and not completed
    service    \* "open", "closing" or "halted"

vars == <<accepted, backlog, active, service>>

Waiting == {backlog[i] : i \in DOMAIN backlog}

(* A job with the key of another that waits or runs is a duplicate.        *)
Duplicate(j) == \E k \in Waiting \cup active : KeyOf[k] = KeyOf[j] /\ KeyOf[j] # NoKey

Init ==
    /\ accepted = {}
    /\ backlog = <<>>
    /\ active = {}
    /\ service = "open"

Accept(j) ==
    /\ service = "open"
    /\ j \notin accepted
    /\ ~Duplicate(j)
    /\ Len(backlog) < Backlog
    /\ accepted' = accepted \cup {j}
    /\ backlog' = Append(backlog, j)
    /\ UNCHANGED <<active, service>>

Start ==
    /\ backlog # <<>>
    /\ Cardinality(active) < MaxConcurrent
    /\ active' = active \cup {Head(backlog)}
    /\ backlog' = Tail(backlog)
    /\ UNCHANGED <<accepted, service>>

Complete(j) ==
    /\ j \in active
    /\ active' = active \ {j}
    /\ UNCHANGED <<accepted, backlog, service>>

Close ==
    /\ service = "open"
    /\ service' = "closing"
    /\ UNCHANGED <<accepted, backlog, active>>

Halt ==
    /\ service = "closing"
    /\ backlog = <<>>
    /\ active = {}
    /\ service' = "halted"
    /\ UNCHANGED <<accepted, backlog, active>>

Next ==
    \/ \E j \in Jobs : Accept(j) \/ Complete(j)
    \/ Start \/ Close \/ Halt

Spec == Init /\ [][Next]_vars
=============================================================================
