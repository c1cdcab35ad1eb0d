----------------------------- MODULE WorkerPool -----------------------------
(***************************************************************************)
(* The black-box check sweep of one `fendix scan`: the bounded pool of     *)
(* engine/workerpool.go running every check against every endpoint, the    *)
(* request budget of internal/budget every check's HTTP client goes        *)
(* through, the context all of them share, and the `dast` entry            *)
(* engine/orchestrator.go records once the sweep is over.                  *)
(*                                                                         *)
(* One action per step another goroutine can interleave with.  Jobs are    *)
(* numbered in the order the producer emits them, so the jobs channel      *)
(* holds exactly the jobs taken+1..produced.  The results channel is a set *)
(* of job numbers: a job sends at most one batch and nothing downstream    *)
(* depends on the order of batches.  How long a check runs, and which      *)
(* requests it sends, is left to the environment.                          *)
(***************************************************************************)
EXTENDS Integers, FiniteSets

CONSTANTS
  ConfiguredWorkers,  \* cfg.Workers (--workers), any integer
  BufPerWorker,       \* channel slots per worker: 4 in the code
  TotalJobs,          \* len(endpoints) * len(checks)
  MaxRequests,        \* --max-requests; 0 disables the cap
  Delay,              \* whether --delay-ms is positive
  MaxSent             \* bound: requests the checks of one sweep attempt

ASSUME PoolAssumption ==
  /\ ConfiguredWorkers \in Int
  /\ BufPerWorker \in Nat \ {0}
  /\ TotalJobs \in Nat
  /\ MaxRequests \in Nat
  /\ Delay \in BOOLEAN
  /\ MaxSent \in Nat

\* newPool clamps the number of workers to at least one.
PoolSize == IF ConfiguredWorkers < 1 THEN 1 ELSE ConfiguredWorkers
Workers == 1..PoolSize
Jobs == 1..TotalJobs
BufSize == PoolSize * BufPerWorker

VARIABLES
  \* the shared context and what ended it; Canceled and
  \* DeadlineExceeded are all the code can tell apart
  ctx,
  produced,   \* jobs sent on the jobs channel so far
  closed,     \* close(jobs) has run: the producer has returned
  taken,      \* jobs received from the jobs channel so far
  pc,         \* where each worker is
  holds,      \* the job each worker last received
  ran,        \* jobs whose check returned or panicked
  found,      \* of those, the ones that owe a batch: findings or a panic
  results,    \* the results channel
  allFindings,\* batches appended by the collector
  sweep,      \* the collector and the code after it
  sent,       \* budget.sent
  rejected,   \* budget.rejected
  capHit,     \* budget.capHitOnce has fired
  dast        \* the scanner_status entry

poolVars == <<produced, closed, taken, pc, holds, ran, found, results,
              allFindings>>
budgetVars == <<sent, rejected, capHit>>
vars == <<ctx, poolVars, sweep, budgetVars, dast>>

\* A worker is between two jobs, has one in hand, is inside runCheck
\* (running, or in one of the two steps of a refused request), is sending
\* its batch, is pausing for --delay-ms, or has returned.
InCheck == {"running", "refused", "counted"}
PCs == InCheck \cup {"ready", "received", "sending", "pausing", "returned"}
Causes == {"live", "deadline", "budget", "interrupted"}
Entries == {"none", "ok", "timeout", "execution_error"}

Done == ctx # "live"

\* A context keeps the first reason it ended for.
EndContext(cause) == ctx' = IF Done THEN ctx ELSE cause

Init ==
  /\ ctx = "live"
  /\ produced = 0 /\ closed = FALSE /\ taken = 0
  /\ pc = [w \in Workers |-> "ready"]
  /\ holds = [w \in Workers |-> 0]
  /\ ran = {} /\ found = {} /\ results = {} /\ allFindings = {}
  /\ sweep = "collecting"
  /\ sent = 0 /\ rejected = 0 /\ capHit = FALSE
  /\ dast = "none"

-----------------------------------------------------------------------------
\* The environment: --max-duration elapses, or the operator presses Ctrl-C
\* (the context of `fendix scan` is signal.NotifyContext's).

MaxDuration == ~Done /\ EndContext("deadline")
               /\ UNCHANGED <<poolVars, sweep, budgetVars, dast>>
Interrupt == ~Done /\ EndContext("interrupted")
             /\ UNCHANGED <<poolVars, sweep, budgetVars, dast>>

-----------------------------------------------------------------------------
\* The producer: one job at a time, or gives up once the context is done.
\* With both cases of its select ready it may take either.

Produce ==
  /\ ~closed
  /\ produced < TotalJobs
  /\ produced - taken < BufSize
  /\ produced' = produced + 1
  /\ UNCHANGED <<ctx, closed, taken, pc, holds, ran, found, results,
                 allFindings, sweep, budgetVars, dast>>

\* Mutated form: jobs is not closed on the return that ctx.Done() takes.
CloseJobsUnlessDone ==
  /\ ~closed
  /\ produced = TotalJobs /\ ~Done
  /\ closed' = TRUE
  /\ UNCHANGED <<ctx, produced, taken, pc, holds, ran, found, results,
                 allFindings, sweep, budgetVars, dast>>

CloseJobs ==
  /\ ~closed
  /\ produced = TotalJobs \/ Done
  /\ closed' = TRUE
  /\ UNCHANGED <<ctx, produced, taken, pc, holds, ran, found, results,
                 allFindings, sweep, budgetVars, dast>>

-----------------------------------------------------------------------------
\* A worker.

Goto(w, to) == pc' = [pc EXCEPT ![w] = to]

Receive(w) ==
  /\ pc[w] = "ready"
  /\ taken < produced
  /\ taken' = taken + 1
  /\ holds' = [holds EXCEPT ![w] = taken + 1]
  /\ Goto(w, "received")
  /\ UNCHANGED <<ctx, produced, closed, ran, found, results, allFindings,
                 sweep, budgetVars, dast>>

\* The range loop ends when the channel is closed and empty.
OutOfJobs(w) ==
  /\ pc[w] = "ready"
  /\ closed
  /\ taken = produced
  /\ Goto(w, "returned")
  /\ UNCHANGED <<ctx, produced, closed, taken, holds, ran, found, results,
                 allFindings, sweep, budgetVars, dast>>

\* A worker looks at the context before it starts the job it received.
Start(w) ==
  /\ pc[w] = "received"
  /\ Goto(w, IF Done THEN "returned" ELSE "running")
  /\ UNCHANGED <<ctx, produced, closed, taken, holds, ran, found, results,
                 allFindings, sweep, budgetVars, dast>>

AfterJob == IF Delay THEN "pausing" ELSE "ready"

\* runCheck returns, with findings or without.
CheckReturns(w) ==
  /\ pc[w] = "running"
  /\ ran' = ran \cup {holds[w]}
  /\ \/ found' = found \cup {holds[w]} /\ Goto(w, "sending")
     \/ found' = found /\ Goto(w, AfterJob)
  /\ UNCHANGED <<ctx, produced, closed, taken, holds, results, allFindings,
                 sweep, budgetVars, dast>>

\* A panic inside the check is recovered into one synthetic finding.
CheckPanics(w) ==
  /\ pc[w] = "running"
  /\ ran' = ran \cup {holds[w]}
  /\ found' = found \cup {holds[w]}
  /\ Goto(w, "sending")
  /\ UNCHANGED <<ctx, produced, closed, taken, holds, results, allFindings,
                 sweep, budgetVars, dast>>

SendBatch(w) ==
  /\ pc[w] = "sending"
  /\ Cardinality(results) < BufSize
  /\ results' = results \cup {holds[w]}
  /\ Goto(w, AfterJob)
  /\ UNCHANGED <<ctx, produced, closed, taken, holds, ran, found,
                 allFindings, sweep, budgetVars, dast>>

\* The other case of the two selects: the batch is dropped, or the pause is
\* cut, and the worker is gone.
StopAtSelect(w) ==
  /\ pc[w] \in {"sending", "pausing"}
  /\ Done
  /\ Goto(w, "returned")
  /\ UNCHANGED <<ctx, produced, closed, taken, holds, ran, found, results,
                 allFindings, sweep, budgetVars, dast>>

PauseEnds(w) ==
  /\ pc[w] = "pausing"
  /\ Goto(w, "ready")
  /\ UNCHANGED <<ctx, produced, closed, taken, holds, ran, found, results,
                 allFindings, sweep, budgetVars, dast>>

-----------------------------------------------------------------------------
\* budgetTransport.RoundTrip, called by the check a worker is running.  The
\* counter is incremented first; over the cap the request is counted as
\* refused and then, once per scan, the shared context is cancelled.  The
\* check sees an error and goes on as it likes.

\* Mutated form: the count before the increment is compared.
OverCapBefore(n) == MaxRequests > 0 /\ n - 1 > MaxRequests

OverCap(n) == MaxRequests > 0 /\ n > MaxRequests

RoundTrip(w) ==
  /\ pc[w] = "running"
  /\ sent < MaxSent
  /\ sent' = sent + 1
  /\ IF OverCap(sent + 1) THEN Goto(w, "refused") ELSE UNCHANGED pc
  /\ UNCHANGED <<ctx, produced, closed, taken, holds, ran, found, results,
                 allFindings, sweep, rejected, capHit, dast>>

CountRefusal(w) ==
  /\ pc[w] = "refused"
  /\ rejected' = rejected + 1
  /\ Goto(w, "counted")
  /\ UNCHANGED <<ctx, produced, closed, taken, holds, ran, found, results,
                 allFindings, sweep, sent, capHit, dast>>

CancelOnce(w) ==
  /\ pc[w] = "counted"
  /\ IF capHit THEN UNCHANGED ctx ELSE EndContext("budget")
  /\ capHit' = TRUE
  /\ Goto(w, "running")
  /\ UNCHANGED <<produced, closed, taken, holds, ran, found, results,
                 allFindings, sweep, sent, rejected, dast>>

-----------------------------------------------------------------------------
\* The closer, the collector and the caller of RunEvidence.

Collect(j) ==
  /\ sweep \in {"collecting", "closed"}
  /\ j \in results
  /\ results' = results \ {j}
  /\ allFindings' = allFindings \cup {j}
  /\ UNCHANGED <<ctx, produced, closed, taken, pc, holds, ran, found, sweep,
                 budgetVars, dast>>

CloseResults ==
  /\ sweep = "collecting"
  /\ \A w \in Workers : pc[w] = "returned"
  /\ sweep' = "closed"
  /\ UNCHANGED <<ctx, poolVars, budgetVars, dast>>

RunEvidenceReturns ==
  /\ sweep = "closed"
  /\ results = {}
  /\ sweep' = "drained"
  /\ UNCHANGED <<ctx, poolVars, budgetVars, dast>>

\* Mutated form: the refused requests are not looked at.
RecordDeadlineOnly ==
  /\ sweep = "drained"
  /\ sweep' = "recorded"
  /\ dast' = IF ctx = "deadline" THEN "timeout" ELSE "ok"
  /\ UNCHANGED <<ctx, poolVars, budgetVars>>

\* summarizeCheckPhase and recordBlackbox for a scan with a --url and at
\* least one endpoint: only a deadline and a refused request count as cut
\* short.
Record ==
  /\ sweep = "drained"
  /\ sweep' = "recorded"
  /\ dast' = IF ctx = "deadline" THEN "timeout"
             ELSE IF rejected > 0 THEN "execution_error"
             ELSE "ok"
  /\ UNCHANGED <<ctx, poolVars, budgetVars>>

-----------------------------------------------------------------------------
WorkerStep(w) ==
  \/ Receive(w) \/ OutOfJobs(w) \/ Start(w)
  \/ CheckReturns(w) \/ CheckPanics(w)
  \/ SendBatch(w) \/ StopAtSelect(w) \/ PauseEnds(w)
  \/ RoundTrip(w) \/ CountRefusal(w) \/ CancelOnce(w)

Next ==
  \/ MaxDuration \/ Interrupt
  \/ Produce \/ CloseJobs
  \/ \E w \in Workers : WorkerStep(w)
  \/ \E j \in results : Collect(j)
  \/ CloseResults \/ RunEvidenceReturns \/ Record

Spec == Init /\ [][Next]_vars

\* Every goroutine keeps running, and a check that is running returns in the
\* end: its requests carry the per-job deadline of cfg.Timeout, and MaxSent
\* stands for its finite list of payloads.  Nothing is assumed of --max-duration
\* or of Ctrl-C.
CheckEnds(w) == CheckReturns(w) \/ CheckPanics(w)
WorkerMoves(w) ==
  \/ Receive(w) \/ OutOfJobs(w) \/ Start(w) \/ SendBatch(w)
  \/ StopAtSelect(w) \/ PauseEnds(w) \/ CountRefusal(w) \/ CancelOnce(w)

Fairness ==
  /\ WF_vars(Produce) /\ WF_vars(CloseJobs)
  /\ \A w \in Workers : WF_vars(WorkerMoves(w)) /\ WF_vars(CheckEnds(w))
  /\ WF_vars(\E j \in results : Collect(j))
  /\ WF_vars(CloseResults) /\ WF_vars(RunEvidenceReturns) /\ WF_vars(Record)

FairSpec == Spec /\ Fairness

-----------------------------------------------------------------------------
\* Properties.

\* Types, the bounds of the two channels' counters, and that only a job that
\* ran owes a batch and only an owed batch travels.
TypeOK ==
  /\ ctx \in Causes
  /\ produced \in 0..TotalJobs /\ taken \in 0..produced /\ closed \in BOOLEAN
  /\ pc \in [Workers -> PCs] /\ holds \in [Workers -> 0..TotalJobs]
  /\ ran \subseteq Jobs /\ found \subseteq ran
  /\ results \subseteq found /\ allFindings \subseteq found
  /\ sweep \in {"collecting", "closed", "drained", "recorded"}
  /\ sent \in Nat /\ rejected \in Nat /\ capHit \in BOOLEAN
  /\ dast \in Entries

\* Every job ran and every batch it owed, a recovered panic's included, is
\* in the findings.
Complete == ran = Jobs /\ found \subseteq allFindings

\* A worker has a job in hand: it counts as taken, and not yet as run.
InHand == InCheck \cup {"received"}

\* Only a refused request cancels the context for the budget.
BudgetCause ==
  /\ ctx = "budget" => rejected > 0
  /\ \A w \in Workers : pc[w] = "counted" => rejected > 0

\* What a worker holds was taken, and what it sends was found.
Holding ==
  \A w \in Workers :
    /\ pc[w] \in InHand \cup {"sending"} => holds[w] \in 1..taken
    /\ pc[w] = "sending" => holds[w] \in found

\* While the context is live nothing is lost: a taken job has run or is in a
\* worker's hands, a batch that is owed is sent, collected or about to be
\* sent, and a worker leaves only when there is nothing left to take.
NothingLost ==
  ctx = "live" =>
    /\ closed => produced = TotalJobs
    /\ \A w \in Workers : pc[w] = "returned" => closed /\ taken = produced
    /\ \A j \in 1..taken :
         j \in ran \/ \E w \in Workers : holds[w] = j /\ pc[w] \in InHand
    /\ \A j \in found :
         \/ j \in results \cup allFindings
         \/ \E w \in Workers : holds[w] = j /\ pc[w] = "sending"

\* results is closed after the last worker, drained after it is closed, and
\* the entry comes last.
SweepOrder ==
  /\ sweep # "collecting" => \A w \in Workers : pc[w] = "returned"
  /\ sweep \in {"drained", "recorded"} => results = {}
  /\ dast # "none" => sweep = "recorded"

\* A sweep that --max-duration or --max-requests cut short is never recorded
\* as a completed one: if the dast entry says ok, and nobody interrupted the
\* scan, no job was skipped and no batch was lost (recordBlackbox,
\* engine/orchestrator.go).
CutShortIsRecorded == dast = "ok" /\ ctx # "interrupted" => Complete

\* The inductive invariant of the sweep: channels, workers, budget and entry
\* agree in every state (RunEvidence and recordBlackbox).
SweepInv ==
  /\ TypeOK /\ BudgetCause /\ Holding /\ NothingLost /\ SweepOrder
  /\ CutShortIsRecorded

\* The comment on recordBlackbox taken at its word: `ok` means the pass ran
\* to completion, whatever could have cut it short.
OkMeansRanToCompletion == dast = "ok" => Complete

\* However the workers' requests interleave, at most --max-requests of them
\* reach the wire (budgetTransport.RoundTrip): those attempted less those
\* refused, a refusal that is not counted yet included.
WireWithinCap ==
  MaxRequests > 0 =>
    sent - rejected - Cardinality({w \in Workers : pc[w] = "refused"})
      <= MaxRequests

\* The counters the dast entry is computed from are final: once RunEvidence
\* has returned no check is running, so no request can be counted after
\* budget.Stats() was read (workerpool.go closes results only after every
\* worker is gone).
StatsAreFinal ==
  [][(sweep = "drained" \/ sweep = "recorded") =>
       sent' = sent /\ rejected' = rejected]_vars

\* The sweep always ends in an entry, whatever happens to the context and
\* however full the two channels are: no goroutine of the pool waits forever
\* for another (RunEvidence).
SweepEnds == <>(dast # "none")
=============================================================================
