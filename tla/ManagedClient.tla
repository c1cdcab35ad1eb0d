---------------------------- MODULE ManagedClient ----------------------------
(***************************************************************************)
(* The managed steps of a CI job: `fendix managed context`, a scan that    *)
(* writes evidence, and `fendix managed submit`, which posts the evidence  *)
(* and polls until the backend decides or the budget is spent              *)
(* (internal/managedci/client.go, cmd/fendix/managed.go).                  *)
(*                                                                         *)
(* The backend is external: it keeps one record per idempotency key, takes *)
(* the same artifact under the same key for a replay and refuses another.  *)
(* Requests and answers are lost, or arrive after the client has given up. *)
(***************************************************************************)
EXTENDS ManagedEvidence, SequencesExt

CONSTANTS
  Jobs,         \* the CI jobs
  Envs,         \* the environments a job may run in
  Scans,        \* the evidence behind the findings of a scan: sequences
  Executions,   \* how the analyzers of a scan may end
  Durations,    \* how long they may take
  Edited,       \* documents that no export of these jobs wrote
  MaxTransportAttempts,  \* posts of one submission
  DecisionTimeout,       \* the budget of one wait for the decision, in least waits
  MaxWait,               \* the longest wait between two polls
  MaxReruns              \* bound on how often a workflow runs a failed submit step again

ASSUME ClientAssumption ==
  {MaxTransportAttempts, DecisionTimeout, MaxWait} \subseteq Nat \ {0} /\ MaxReruns \in Nat

VARIABLES
  at,        \* what each job does next
  context,   \* the identity it was given, a singleton or {}
  doc,       \* the evidence document on its disk, a singleton or {}
  attempt,   \* the posts made
  target,    \* the submission it polls for, a singleton or {}
  left,      \* what is left of its decision budget
  reruns,    \* how often its submit step was run again
  exit,      \* the exit code of its last managed step, or Running
  late,      \* posts that arrive after their sender stopped waiting for an answer
  backend    \* the backend's records, by key
managed == <<at, context, doc, attempt, target, left, reruns, exit, late, backend>>

Running == -1
NoDecision == 2

ManagedInit ==
  /\ at = [j \in Jobs |-> "context"] /\ context = [j \in Jobs |-> {}]
  /\ doc = [j \in Jobs |-> {}]
  /\ attempt = [j \in Jobs |-> 0] /\ target = [j \in Jobs |-> {}]
  /\ left = [j \in Jobs |-> 0] /\ reruns = [j \in Jobs |-> 0]
  /\ exit = [j \in Jobs |-> Running]
  /\ late = {} /\ backend = [k \in {} |-> 0]

Become(j, next) == at' = [at EXCEPT ![j] = next]
End(j, code) == Become(j, "ended") /\ exit' = [exit EXCEPT ![j] = code]
Forget(j) == /\ attempt' = [attempt EXCEPT ![j] = 0] /\ target' = [target EXCEPT ![j] = {}]
             /\ left' = [left EXCEPT ![j] = 0]
Document(j) == CHOOSE d \in doc[j] : TRUE

-----------------------------------------------------------------------------
(* A fresh identity, or an error when the run cannot name itself.           *)
MakeContext(j) ==
  /\ at[j] = "context"
  /\ \E env \in Envs :
       /\ context' = [context EXCEPT ![j] = ContextFromEnv(env)]
       /\ IF ContextFromEnv(env) = {} THEN End(j, NoDecision) ELSE Become(j, "scan") /\ UNCHANGED exit
  /\ UNCHANGED <<doc, attempt, target, left, reruns, late, backend>>

(* Evidence that cannot be exported fails the scan before its report.       *)
Scan(j) ==
  /\ at[j] = "scan"
  /\ \E evs \in Scans, executions \in Executions, duration \in Durations :
       LET c == CHOOSE c \in context[j] : TRUE
           d == Export(c, evs, executions, j, duration)
       IN  IF d = {}
           THEN End(j, NoDecision) /\ UNCHANGED doc
           ELSE doc' = [doc EXCEPT ![j] = d] /\ Become(j, "submit") /\ UNCHANGED exit
  /\ UNCHANGED <<context, attempt, target, left, reruns, late, backend>>

(* The document may be edited, or come from another build.                  *)
Edit(j) ==
  /\ at[j] = "submit"
  /\ \E d \in Edited : doc' = [doc EXCEPT ![j] =
       {[key |-> Document(j).key, submission |-> Document(j).submission, artifact |-> d.artifact,
         findings |-> d.findings, analyzers |-> d.analyzers, bytes |-> d.bytes]}]
  /\ UNCHANGED <<at, context, attempt, target, left, reruns, exit, late, backend>>

(* Nothing leaves the runner without a token, an https origin and readable  *)
(* evidence below the ceilings.                                             *)
Submit(j) ==
  /\ at[j] = "submit"
  /\ \E configured \in BOOLEAN :
       IF configured /\ ~OverCeiling(Document(j))
       THEN Become(j, "posting") /\ attempt' = [attempt EXCEPT ![j] = 1] /\ UNCHANGED exit
       ELSE End(j, NoDecision) /\ UNCHANGED attempt
  /\ UNCHANGED <<context, doc, target, left, reruns, late, backend>>

-----------------------------------------------------------------------------
(* The backend takes a document: a new record, a replay or a conflict.      *)
Known(d) == d.key \in DOMAIN backend
Conflict(d) == Known(d) /\ backend[d.key].artifact # d.artifact
Received(d) ==
  IF Known(d) THEN backend
  ELSE [k \in DOMAIN backend \cup {d.key} |->
          IF k \in DOMAIN backend THEN backend[k]
          ELSE [artifact |-> d.artifact, submission |-> d.submission, state |-> "received", gate |-> ""]]
(* What a client may hear of a post that was delivered, and of one that was *)
(* not: "busy" is 429 or a 5xx, "none" a reset or a timeout.                *)
Answers(d) == IF Conflict(d) THEN {"conflict", "none"} ELSE {"accepted", "unreadable", "busy", "none"}
Turned == {"refused", "busy", "none"}

(* Mutant: a refusal is retried, or taken for a receipt of this run's.      *)
ReplayOnConflict(answer) == IF answer \in {"accepted", "conflict"} THEN "poll"
                            ELSE IF answer \in {"busy", "none"} THEN "retry" ELSE "over"
(* Only resets, timeouts, 429 and 5xx are tried again.                      *)
AfterPost(answer) == IF answer = "accepted" THEN "poll"
                     ELSE IF answer \in {"busy", "none"} THEN "retry" ELSE "over"
ShouldRetry(j, cancelled) == ~cancelled /\ attempt[j] < MaxTransportAttempts
(* The receipt's own address is used only at the configured origin.         *)
StatusURL(submission, url, ownOrigin) == IF ownOrigin THEN url ELSE submission
Hear(j, answer) ==
  CASE AfterPost(answer) = "poll" ->
         LET submission == backend'[Document(j).key].submission
         IN  /\ \E ownOrigin \in BOOLEAN :
                  target' = [target EXCEPT ![j] = {StatusURL(submission, submission, ownOrigin)}]
             /\ left' = [left EXCEPT ![j] = DecisionTimeout]
             /\ attempt' = [attempt EXCEPT ![j] = 0]
             /\ Become(j, "polling") /\ UNCHANGED exit
    [] AfterPost(answer) = "retry" ->
         \E cancelled \in BOOLEAN :
           IF ShouldRetry(j, cancelled)
           THEN attempt' = [attempt EXCEPT ![j] = @ + 1] /\ UNCHANGED <<at, exit, target, left>>
           ELSE End(j, NoDecision) /\ Forget(j)
    [] OTHER -> End(j, NoDecision) /\ Forget(j)

Post(j) ==
  /\ at[j] = "posting"
  /\ \/ /\ backend' = Received(Document(j)) /\ UNCHANGED late
        /\ \E answer \in Answers(Document(j)) : Hear(j, answer)
     \/ /\ UNCHANGED <<backend, late>>
        /\ \E answer \in Turned : Hear(j, answer)
     \/ /\ late' = late \cup {Document(j)} /\ UNCHANGED backend
        /\ Hear(j, "none")
  /\ UNCHANGED <<context, doc, reruns>>

(* Mutant: the deadline is never compared with.                             *)
NeverOverBudget(wait, budget) == FALSE
OverBudget(wait, budget) == wait > budget
KeepWaiting(j) ==
  \E wait \in 1 .. MaxWait, cancelled \in BOOLEAN :
    IF OverBudget(wait, left[j]) \/ cancelled
    THEN End(j, NoDecision) /\ Forget(j)
    ELSE /\ left' = [left EXCEPT ![j] = IF wait > @ THEN 0 ELSE @ - wait]
         /\ Become(j, "asleep") /\ UNCHANGED <<exit, attempt, target>>
(* The record the backend answers for: the one with the polled submission.  *)
Polled(j) == {backend[k] : k \in {x \in DOMAIN backend : {backend[x].submission} = target[j]}}
Poll(j) ==
  /\ at[j] = "polling"
  /\ \/ /\ \E r \in Polled(j) :
             \/ r.state = "completed" /\ End(j, IF r.gate = "fail" THEN 1 ELSE 0)
             \/ r.state = "failed" /\ End(j, NoDecision)
        /\ Forget(j)
     \/ (* refused, unreadable, or completed without a decision *)
        End(j, NoDecision) /\ Forget(j)
     \/ (* still running, no answer, or any other status *)
        KeepWaiting(j)
  /\ UNCHANGED <<context, doc, reruns, late, backend>>

Wake(j) == /\ at[j] = "asleep" /\ Become(j, "polling")
           /\ UNCHANGED <<context, doc, attempt, target, left, reruns, exit, late, backend>>

(* A workflow may run a submit step that failed again, on the same document.*)
Rerun(j) ==
  /\ at[j] = "ended" /\ exit[j] = NoDecision /\ doc[j] # {} /\ reruns[j] < MaxReruns
  /\ Become(j, "submit") /\ exit' = [exit EXCEPT ![j] = Running]
  /\ reruns' = [reruns EXCEPT ![j] = @ + 1]
  /\ UNCHANGED <<context, doc, attempt, target, left, late, backend>>

-----------------------------------------------------------------------------
ReceiveLate ==
  /\ \E d \in late : backend' = Received(d) /\ late' = late \ {d}
  /\ UNCHANGED <<at, context, doc, attempt, target, left, reruns, exit>>
Decide(k) ==
  /\ backend[k].state = "received"
  /\ \E outcome \in {<<"completed", "pass">>, <<"completed", "fail">>, <<"failed", "">>} :
       backend' = [backend EXCEPT ![k].state = outcome[1], ![k].gate = outcome[2]]
  /\ UNCHANGED <<at, context, doc, attempt, target, left, reruns, exit, late>>

ClientStep(j) == MakeContext(j) \/ Scan(j) \/ Submit(j) \/ Post(j) \/ Poll(j) \/ Wake(j)
ManagedStep == \/ \E j \in Jobs : ClientStep(j) \/ Edit(j) \/ Rerun(j)
               \/ ReceiveLate
               \/ \E k \in DOMAIN backend : Decide(k)

-----------------------------------------------------------------------------
(* Whatever is lost, retried, late, rerun or shared with another job of the *)
(* run, `managed submit` ends in 0 or 1 only as the backend decided on the  *)
(* very evidence this job holds: losing the decision is never a pass, and   *)
(* another job's decision never passes for this one's (client.go:20-24,     *)
(* managed.go:139).                                                         *)
PassMeansDecided ==
  \A j \in Jobs : at[j] = "ended" /\ exit[j] \in {0, 1} =>
    \E k \in DOMAIN backend : \E d \in doc[j] :
      /\ d.key = k /\ backend[k].artifact = d.artifact
      /\ backend[k].state = "completed" /\ (backend[k].gate = "fail" <=> exit[j] = 1)

(* A submission ends, decided or not, although the backend may never answer *)
(* and never decide (client.go:188, 239).                                   *)
SubmitEnds == \A j \in Jobs : []<>(at[j] \notin {"posting", "polling", "asleep"})
=============================================================================
