------------------------------ MODULE ScanPool ------------------------------
(***************************************************************************)
(* The bounded background pool that runs GitHub App scans                  *)
(* (src/go/internal/ghapp/worker.go).                                      *)
(*                                                                         *)
(* A webhook request calls submit(job): a locked section reserves the      *)
(* job's dedup key, then, after the unlock, a non-blocking send puts the   *)
(* job on a bounded channel.  One dispatcher goroutine receives jobs,      *)
(* waits for a semaphore slot and starts a goroutine per job.  That        *)
(* goroutine runs the scan under a context with a timeout and then, as     *)
(* deferred calls, releases the key, the slot and the wait group, in that  *)
(* order.  Shutdown closes the channel and waits for the wait group, or    *)
(* cancels every scan when its own deadline passes.                        *)
(*                                                                         *)
(* A member of Jobs is one call of submit; two jobs with one key are two   *)
(* deliveries of the same event.  What a scan does is left out: job.run    *)
(* returns when it likes, and certainly once its context is done.          *)
(***************************************************************************)
EXTENDS Integers, Sequences, FiniteSets

CONSTANTS
    Jobs,           \* the calls of submit
    KeyOf,          \* the dedup key of each job
    NoKey,          \* the empty key, which is never deduplicated
    MaxConcurrent,  \* capacity of the semaphore channel
    QueueDepth      \* capacity of the job channel

(* newScanPool replaces a concurrency or a depth below one by a default.   *)
ASSUME PoolAssumption ==
    /\ IsFiniteSet(Jobs)
    /\ DOMAIN KeyOf = Jobs
    /\ MaxConcurrent \in Nat \ {0}
    /\ QueueDepth \in Nat \ {0}

VARIABLES
    status,      \* how far each job got, in submit, in the queue or in its goroutine
    inFlight,    \* the dedup set
    queue,       \* the job channel
    closed,      \* the pool's flag; the channel is closed in the same critical section
    slots,       \* slots taken in the semaphore channel
    wg,          \* counter of the wait group
    dispatcher,  \* the dispatcher goroutine
    expired,     \* jobs whose own timeout has fired
    baseDone,    \* the base context, parent of every scan's, is cancelled
    stopper      \* the goroutine that calls Shutdown

vars == <<status, inFlight, queue, closed, slots, wg, dispatcher, expired,
          baseDone, stopper>>

Keys == {KeyOf[j] : j \in Jobs} \ {NoKey}

(* Statuses of a job that submit refused, and of one the pool still owes   *)
(* a run or is running.                                                    *)
Refused == {"refused", "duplicate", "rejected"}
Running == {"running"}
HoldsSlot == {"running", "returned", "released"}
InGoroutine == HoldsSlot \cup {"freed"}
OwnsKey == {"reserved", "panicked", "refusing", "queued", "held", "running", "returned"}
Owed == {"queued", "held"} \cup InGoroutine
Status == {"new", "done"} \cup Refused \cup OwnsKey \cup InGoroutine

JobsIn(S) == {j \in Jobs : status[j] \in S}
Move(j, s) == status' = [status EXCEPT ![j] = s]

TypeOK ==
    /\ status \in [Jobs -> Status]
    /\ inFlight \subseteq Keys
    /\ queue \in Seq(Jobs)
    /\ Len(queue) <= QueueDepth
    /\ closed \in BOOLEAN
    /\ slots \in 0 .. MaxConcurrent
    /\ wg \in Nat
    /\ dispatcher \in {"receiving", "holding", "exited"}
    /\ expired \subseteq Jobs
    /\ baseDone \in BOOLEAN
    /\ stopper \in {"idle", "draining", "cancelling", "drained", "deadline"}

Init ==
    /\ status = [j \in Jobs |-> "new"]
    /\ inFlight = {}
    /\ queue = <<>>
    /\ closed = FALSE
    /\ slots = 0
    /\ wg = 1
    /\ dispatcher = "receiving"
    /\ expired = {}
    /\ baseDone = FALSE
    /\ stopper = "idle"

-----------------------------------------------------------------------------
(* Mutated forms of the operations above, each a plausible slip in         *)
(* worker.go; the properties below tell each from the code.                *)

(* The dispatcher starts the goroutine without adding it to the group.     *)
StartUncounted(j) ==
    /\ dispatcher = "holding"
    /\ status[j] = "held"
    /\ slots < MaxConcurrent
    /\ slots' = slots + 1
    /\ wg' = wg
    /\ Move(j, "running")
    /\ dispatcher' = "receiving"
    /\ UNCHANGED <<inFlight, queue, closed, expired, baseDone, stopper>>

(* The newest job is started first.                                        *)
ReceiveNewest ==
    /\ dispatcher = "receiving"
    /\ queue # <<>>
    /\ queue' = SubSeq(queue, 1, Len(queue) - 1)
    /\ Move(queue[Len(queue)], "held")
    /\ dispatcher' = "holding"
    /\ UNCHANGED <<inFlight, closed, slots, wg, expired, baseDone, stopper>>

(* The goroutine counts itself down twice, in a defer and at its end.       *)
DoneTwice(j) ==
    /\ status[j] = "freed"
    /\ wg > 0
    /\ wg' = IF wg > 1 THEN wg - 2 ELSE 0
    /\ Move(j, "done")
    /\ UNCHANGED <<inFlight, queue, closed, slots, dispatcher, expired,
                   baseDone, stopper>>

-----------------------------------------------------------------------------
(* submit: the locked section.                                             *)

SubmitRejected(j) ==
    /\ status[j] = "new"
    /\ closed
    /\ Move(j, "rejected")
    /\ UNCHANGED <<inFlight, queue, closed, slots, wg, dispatcher, expired,
                   baseDone, stopper>>

SubmitDuplicate(j) ==
    /\ status[j] = "new"
    /\ ~closed
    /\ KeyOf[j] \in inFlight
    /\ Move(j, "duplicate")
    /\ UNCHANGED <<inFlight, queue, closed, slots, wg, dispatcher, expired,
                   baseDone, stopper>>

SubmitReserve(j) ==
    /\ status[j] = "new"
    /\ ~closed
    /\ KeyOf[j] \notin inFlight
    /\ inFlight' = inFlight \cup ({KeyOf[j]} \ {NoKey})
    /\ Move(j, "reserved")
    /\ UNCHANGED <<queue, closed, slots, wg, dispatcher, expired, baseDone,
                   stopper>>

(* submit after the unlock: a select with a default.  A send on a channel  *)
(* that Shutdown closed in the meantime panics, default or not.  The panic *)
(* unwinds the goroutine that called submit, which still owns its key; the *)
(* rest goes on if that goroutine recovers, as those of net/http do.       *)

SendQueued(j) ==
    /\ status[j] = "reserved"
    /\ ~closed
    /\ Len(queue) < QueueDepth
    /\ queue' = Append(queue, j)
    /\ Move(j, "queued")
    /\ UNCHANGED <<inFlight, closed, slots, wg, dispatcher, expired, baseDone,
                   stopper>>

SendFull(j) ==
    /\ status[j] = "reserved"
    /\ ~closed
    /\ Len(queue) = QueueDepth
    /\ Move(j, "refusing")
    /\ UNCHANGED <<inFlight, queue, closed, slots, wg, dispatcher, expired,
                   baseDone, stopper>>

SendPanics(j) ==
    /\ status[j] = "reserved"
    /\ closed
    /\ Move(j, "panicked")
    /\ UNCHANGED <<inFlight, queue, closed, slots, wg, dispatcher, expired,
                   baseDone, stopper>>

(* releaseKey, from submit when the queue was full.                        *)
RefuseFull(j) ==
    /\ status[j] = "refusing"
    /\ inFlight' = inFlight \ {KeyOf[j]}
    /\ Move(j, "refused")
    /\ UNCHANGED <<queue, closed, slots, wg, dispatcher, expired, baseDone,
                   stopper>>

(* One step of a call of submit.                                           *)
Submit(j) ==
    \/ SubmitRejected(j) \/ SubmitDuplicate(j) \/ SubmitReserve(j)
    \/ SendQueued(j) \/ SendFull(j) \/ SendPanics(j) \/ RefuseFull(j)

-----------------------------------------------------------------------------
(* dispatch: the dispatcher goroutine.                                     *)

DispatchReceive ==
    /\ dispatcher = "receiving"
    /\ queue # <<>>
    /\ queue' = Tail(queue)
    /\ Move(Head(queue), "held")
    /\ dispatcher' = "holding"
    /\ UNCHANGED <<inFlight, closed, slots, wg, expired, baseDone, stopper>>

(* It blocks while every slot is taken, then starts the job's goroutine.   *)
DispatchStart(j) ==
    /\ dispatcher = "holding"
    /\ status[j] = "held"
    /\ slots < MaxConcurrent
    /\ slots' = slots + 1
    /\ wg' = wg + 1
    /\ Move(j, "running")
    /\ dispatcher' = "receiving"
    /\ UNCHANGED <<inFlight, queue, closed, expired, baseDone, stopper>>

DispatchExit ==
    /\ dispatcher = "receiving"
    /\ queue = <<>>
    /\ closed
    /\ dispatcher' = "exited"
    /\ wg' = wg - 1
    /\ UNCHANGED <<status, inFlight, queue, closed, slots, expired, baseDone,
                   stopper>>

-----------------------------------------------------------------------------
(* The goroutine of one job.                                               *)

(* The context of a scan ends with its own timer or with the base context. *)
CtxDone(j) == j \in expired \/ baseDone

Timeout(j) ==
    /\ status[j] = "running"
    /\ j \notin expired
    /\ expired' = expired \cup {j}
    /\ UNCHANGED <<status, inFlight, queue, closed, slots, wg, dispatcher,
                   baseDone, stopper>>

RunReturns(j) ==
    /\ status[j] = "running"
    /\ Move(j, "returned")
    /\ UNCHANGED <<inFlight, queue, closed, slots, wg, dispatcher, expired,
                   baseDone, stopper>>

ReleaseKey(j) ==
    /\ status[j] = "returned"
    /\ inFlight' = inFlight \ {KeyOf[j]}
    /\ Move(j, "released")
    /\ UNCHANGED <<queue, closed, slots, wg, dispatcher, expired, baseDone,
                   stopper>>

FreeSlot(j) ==
    /\ status[j] = "released"
    /\ slots' = slots - 1
    /\ Move(j, "freed")
    /\ UNCHANGED <<inFlight, queue, closed, wg, dispatcher, expired, baseDone,
                   stopper>>

GoroutineDone(j) ==
    /\ status[j] = "freed"
    /\ wg' = wg - 1
    /\ Move(j, "done")
    /\ UNCHANGED <<inFlight, queue, closed, slots, dispatcher, expired,
                   baseDone, stopper>>

-----------------------------------------------------------------------------
(* Shutdown.  A second call returns nil at once and changes nothing.       *)

ShutdownBegin ==
    /\ stopper = "idle"
    /\ closed' = TRUE
    /\ stopper' = "draining"
    /\ UNCHANGED <<status, inFlight, queue, slots, wg, dispatcher, expired,
                   baseDone>>

ShutdownDrained ==
    /\ stopper = "draining"
    /\ wg = 0
    /\ stopper' = "drained"
    /\ UNCHANGED <<status, inFlight, queue, closed, slots, wg, dispatcher,
                   expired, baseDone>>

ShutdownDeadline ==
    /\ stopper = "draining"
    /\ baseDone' = TRUE
    /\ stopper' = "cancelling"
    /\ UNCHANGED <<status, inFlight, queue, closed, slots, wg, dispatcher,
                   expired>>

ShutdownUnwound ==
    /\ stopper = "cancelling"
    /\ wg = 0
    /\ stopper' = "deadline"
    /\ UNCHANGED <<status, inFlight, queue, closed, slots, wg, dispatcher,
                   expired, baseDone>>

-----------------------------------------------------------------------------
Stopped == stopper \in {"drained", "deadline"}

(* Only a process that returned from Shutdown may rest.                    *)
Rest == Stopped /\ UNCHANGED vars

Next ==
    \/ \E j \in Jobs :
        \/ Submit(j)
        \/ DispatchStart(j)
        \/ Timeout(j) \/ RunReturns(j)
        \/ ReleaseKey(j) \/ FreeSlot(j) \/ GoroutineDone(j)
    \/ DispatchReceive \/ DispatchExit
    \/ ShutdownBegin \/ ShutdownDrained \/ ShutdownDeadline \/ ShutdownUnwound
    \/ Rest

Spec == Init /\ [][Next]_vars

-----------------------------------------------------------------------------
(* What the pool owes its callers.                                         *)

(* Two jobs with one key are never both between their reservation and      *)
(* their release: the dedup check and the reservation are one critical     *)
(* section, and a key is released only by the job that reserved it.        *)
NoTwins ==
    \A j, k \in JobsIn(OwnsKey) : KeyOf[j] = KeyOf[k] /\ KeyOf[j] # NoKey => j = k

(* The dedup set holds exactly the keys of the jobs that own one, so no    *)
(* path out of the pool (a full queue, a scan that returned) leaves a key  *)
(* behind that would refuse every later delivery as a duplicate.           *)
KeysMatchOwners == inFlight = {KeyOf[j] : j \in JobsIn(OwnsKey)} \ {NoKey}

(* "The pool runs at most maxConcurrent jobs at once": the dispatcher      *)
(* takes the slot before it starts a job and the job frees it after.       *)
RunningBounded == Cardinality(JobsIn(HoldsSlot)) <= MaxConcurrent

(* When Shutdown returns, with or without an error, no accepted job is     *)
(* left in the queue, in the dispatcher's hand or in a goroutine: the      *)
(* wait group counts all three, the first two through the dispatcher.      *)
DrainedMeansIdle == Stopped => JobsIn(Owed) = {}

(* The inductive invariant: the dedup invariants above and the agreement   *)
(* of each counter, flag and queue with the jobs it stands for.            *)
QueueMatches ==
    /\ \A i, k \in DOMAIN queue : queue[i] = queue[k] => i = k
    /\ {queue[i] : i \in DOMAIN queue} = JobsIn({"queued"})

HandMatches ==
    /\ dispatcher = "holding" <=> JobsIn({"held"}) # {}
    /\ \A j, k \in JobsIn({"held"}) : j = k

CountsMatch ==
    /\ slots = Cardinality(JobsIn(HoldsSlot))
    /\ wg = Cardinality(JobsIn(InGoroutine)) + (IF dispatcher = "exited" THEN 0 ELSE 1)

ShutdownOrder ==
    /\ closed <=> stopper # "idle"
    /\ dispatcher = "exited" => closed /\ queue = <<>>
    /\ Stopped => wg = 0

IInv ==
    /\ TypeOK
    /\ NoTwins
    /\ KeysMatchOwners
    /\ QueueMatches
    /\ HandMatches
    /\ CountsMatch
    /\ ShutdownOrder

(* The pool implements the abstract service.  The job in the dispatcher's  *)
(* hand has left the channel and not started: it is still in the backlog,  *)
(* which is one longer than the channel.  A job is completed when its run  *)
(* has returned and its key is free again; its slot is freed later.        *)
InHand == IF dispatcher = "holding"
          THEN <<CHOOSE j \in Jobs : status[j] = "held">> ELSE <<>>
Service == INSTANCE ScanService WITH
    accepted <- JobsIn(Owed \cup {"done"}),
    backlog <- InHand \o queue,
    active <- JobsIn({"running", "returned"}),
    service <- IF Stopped THEN "halted" ELSE IF closed THEN "closing" ELSE "open",
    Backlog <- QueueDepth + 1

(* Every step of the pool is a step of the service or changes nothing it   *)
(* shows: FIFO starts, each accepted job once, halting only when idle.     *)
ImplementsService == Service!Spec
=============================================================================
