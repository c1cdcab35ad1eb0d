----------------------------- MODULE AppServer ------------------------------
(***************************************************************************)
(* The GitHub App server (src/go/cmd/fendix-app/main.go and                *)
(* src/go/internal/ghapp/{webhook,handler,comment}.go) around the scan     *)
(* pool.                                                                   *)
(*                                                                         *)
(* Each member of Jobs is one webhook delivery.  Its request is read,      *)
(* verified and dispatched on a goroutine of the HTTP server, which calls  *)
(* submit when the event asks for a scan and answers 200 whatever submit   *)
(* said.  The scan gets an installation token, runs, posts a comment and   *)
(* uploads its SARIF.  The main goroutine waits for a signal, shuts the    *)
(* HTTP server down (new connections are refused, open ones are waited for *)
(* under a deadline that ends the process), and only then calls Shutdown.  *)
(*                                                                         *)
(* The environment may kill the process at any moment.  Which event a      *)
(* delivery carries is given by its kind; a delivery and its redelivery    *)
(* have the same delivery id.                                              *)
(***************************************************************************)
EXTENDS ScanPool

CONSTANTS
    KindOf,      \* what the body and the headers of each delivery hold
    DeliveryOf,  \* its delivery id, NoKey when the header is absent
    HeadOf,      \* the installation, repository and head commit it names
    PullOf,      \* its pull request, NoPull when the event names none
    NoPull

Kinds == {"unreadable", "forged", "malformed", "ignored", "scan"}

(* enqueueScan: the dedup key is the delivery id or, without one, the head.*)
EventKey(j) == IF DeliveryOf[j] = NoKey THEN HeadOf[j] ELSE DeliveryOf[j]

ASSUME AppAssumption ==
    /\ KindOf \in [Jobs -> Kinds]
    /\ KeyOf = [j \in Jobs |-> EventKey(j)]

VARIABLES
    request,  \* the HTTP request of each delivery
    answer,   \* the status code it was answered with, 0 before
    stage,    \* how far the scan of each delivery got in runScan
    posts,    \* deliveries whose comment is on the pull request
    late,     \* scans started after Shutdown was called (history)
    orphaned, \* scans whose output pipe a descendant of their command holds
    main      \* the main goroutine

appOnly == <<request, answer, stage, posts, late, orphaned, main>>
appVars == <<status, inFlight, queue, closed, slots, wg, dispatcher, expired,
             baseDone, stopper, request, answer, stage, posts, late, orphaned, main>>

Handling == {"open", "submitting"}
Exited == {"exit0", "exit1", "killed"}
Concluded == {"ok", "failed", "unposted"}
Alive == main \notin Exited
ActiveRequests == {j \in Jobs : request[j] \in Handling}

AppTypeOK ==
    /\ TypeOK
    /\ request \in [Jobs -> {"none", "answered", "aborted"} \cup Handling]
    /\ answer \in [Jobs -> {0, 200, 400, 401, 500}]
    /\ stage \in [Jobs -> {"start", "token", "scanned", "commented"} \cup Concluded]
    /\ posts \subseteq Jobs
    /\ late \subseteq Jobs
    /\ orphaned \subseteq Jobs
    /\ main \in {"serving", "httpShutdown", "poolShutdown"} \cup Exited

AppInit ==
    /\ Init
    /\ request = [j \in Jobs |-> "none"]
    /\ answer = [j \in Jobs |-> 0]
    /\ stage = [j \in Jobs |-> "start"]
    /\ posts = {}
    /\ late = {}
    /\ orphaned = {}
    /\ main = "serving"

Finish(j, code) ==
    /\ request' = [request EXCEPT ![j] = "answered"]
    /\ answer' = [answer EXCEPT ![j] = code]
    /\ UNCHANGED <<stage, posts, late, orphaned, main>>
    /\ UNCHANGED vars

-----------------------------------------------------------------------------
(* Mutated forms of the operations below.                                  *)

(* main drains the pool while requests are still being handled.            *)
DrainEarly ==
    /\ Alive
    /\ main = "httpShutdown"
    /\ ShutdownBegin
    /\ main' = "poolShutdown"
    /\ UNCHANGED <<request, answer, stage, posts, late, orphaned>>

(* main returns without waiting for the pool.                              *)
ReturnUndrained ==
    /\ Alive
    /\ main = "poolShutdown"
    /\ main' = "exit0"
    /\ UNCHANGED <<request, answer, stage, posts, late, orphaned>>
    /\ UNCHANGED vars

(* main looks at the drain only until its deadline.                        *)
DrainOnlyInTime ==
    /\ Alive
    /\ ShutdownDrained
    /\ UNCHANGED appOnly

(* A failed scan leaves its goroutine waiting.                             *)
ReturnSuccesses(j) ==
    /\ Alive
    /\ stage[j] = "ok"
    /\ RunReturns(j)
    /\ UNCHANGED appOnly

-----------------------------------------------------------------------------
(* ServeHTTP, on the goroutine of the connection.                          *)

Connect(j) ==
    /\ main = "serving"
    /\ request[j] = "none"
    /\ request' = [request EXCEPT ![j] = "open"]
    /\ UNCHANGED <<answer, stage, posts, late, orphaned, main>>
    /\ UNCHANGED vars

(* readBody: an empty or oversized body, or the server's read timeout,     *)
(* which any client that sends too slowly meets.                           *)
ReadFails(j) ==
    /\ Alive
    /\ request[j] = "open"
    /\ Finish(j, 400)

(* VerifySignature and dispatch of everything that does not ask for a scan:*)
(* a wrong or missing signature, a body that does not decode, an event or  *)
(* an action that is skipped, a push, a scan whose inputs are incomplete.  *)
AnswerOf == [forged |-> 401, malformed |-> 500, ignored |-> 200]
AnswerUnscanned(j) ==
    /\ Alive
    /\ request[j] = "open"
    /\ KindOf[j] \in DOMAIN AnswerOf
    /\ Finish(j, AnswerOf[KindOf[j]])

DispatchScan(j) ==
    /\ Alive
    /\ request[j] = "open"
    /\ KindOf[j] = "scan"
    /\ request' = [request EXCEPT ![j] = "submitting"]
    /\ UNCHANGED <<answer, stage, posts, late, orphaned, main>>
    /\ UNCHANGED vars

Submitting(j) ==
    /\ Alive
    /\ request[j] = "submitting"
    /\ Submit(j)
    /\ UNCHANGED appOnly

(* submit returned: the handler logs what it said and answers 200.         *)
AnswerScan(j) ==
    /\ Alive
    /\ request[j] = "submitting"
    /\ status[j] \notin {"new", "reserved", "refusing", "panicked"}
    /\ Finish(j, 200)

-----------------------------------------------------------------------------
(* The pool's own goroutines.                                              *)

StartScan(j) ==
    /\ Alive
    /\ DispatchStart(j)
    /\ late' = IF closed THEN late \cup {j} ELSE late
    /\ UNCHANGED <<request, answer, stage, posts, orphaned, main>>

ReturnScan(j) ==
    /\ Alive
    /\ stage[j] \in Concluded
    /\ RunReturns(j)
    /\ UNCHANGED appOnly

PoolGoroutine(j) ==
    /\ Alive
    /\ Timeout(j) \/ ReleaseKey(j) \/ FreeSlot(j) \/ GoroutineDone(j)
    /\ UNCHANGED appOnly

Dispatcher ==
    /\ Alive
    /\ DispatchReceive \/ DispatchExit
    /\ UNCHANGED appOnly

-----------------------------------------------------------------------------
(* runScan: each call takes the scan's context, so it succeeds only before *)
(* that context is done, and may fail at any time.                         *)
(*                                                                         *)
(* Run executes git, the scan and the report with CombinedOutput or a      *)
(* buffer, so Go waits for the end of a pipe that the command's            *)
(* descendants inherit.  The context kills the command alone (there is no  *)
(* process group and no WaitDelay): while a descendant keeps the pipe open *)
(* Run returns neither a result nor an error.                              *)

AtStage(j, s) ==
    /\ Alive
    /\ status[j] = "running"
    /\ stage[j] = s
    /\ UNCHANGED <<request, answer, late, orphaned, main>>
    /\ UNCHANGED vars

GetToken(j) ==
    /\ AtStage(j, "start")
    /\ stage' = [stage EXCEPT ![j] = "token"]
    /\ UNCHANGED posts

(* A command started while the context lives leaves a descendant behind.   *)
OrphanHolds(j) ==
    /\ Alive
    /\ status[j] = "running"
    /\ stage[j] = "token"
    /\ ~CtxDone(j)
    /\ orphaned' = orphaned \cup {j}
    /\ UNCHANGED <<request, answer, stage, posts, late, main>>
    /\ UNCHANGED vars

(* The descendant exits, which nothing obliges it to do.                   *)
OrphanExits(j) ==
    /\ Alive
    /\ j \in orphaned
    /\ orphaned' = orphaned \ {j}
    /\ UNCHANGED <<request, answer, stage, posts, late, main>>
    /\ UNCHANGED vars

RunScanner(j) ==
    /\ AtStage(j, "token")
    /\ ~CtxDone(j)
    /\ j \notin orphaned
    /\ stage' = [stage EXCEPT ![j] = "scanned"]
    /\ UNCHANGED posts

(* The comment is created and the answer comes back; or there is no pull   *)
(* request to comment on.                                                  *)
PostComment(j) ==
    /\ AtStage(j, "scanned")
    /\ PullOf[j] = NoPull \/ ~CtxDone(j)
    /\ stage' = [stage EXCEPT ![j] = "commented"]
    /\ posts' = IF PullOf[j] = NoPull THEN posts ELSE posts \cup {j}

(* The comment was refused, or was created and the answer was lost.        *)
PostFails(j) ==
    /\ AtStage(j, "scanned")
    /\ PullOf[j] # NoPull
    /\ stage' = [stage EXCEPT ![j] = "unposted"]
    /\ \/ UNCHANGED posts
       \/ ~CtxDone(j) /\ posts' = posts \cup {j}

(* UploadSARIF is best effort: a failure is logged.                        *)
FinishScan(j) ==
    /\ AtStage(j, "commented")
    /\ stage' = [stage EXCEPT ![j] = "ok"]
    /\ UNCHANGED posts

(* No token, no clone, a scan that fails, a report that does not render.   *)
ScanFails(j) ==
    /\ AtStage(j, "start") \/ AtStage(j, "token") \/ AtStage(j, "scanned")
    /\ j \notin orphaned
    /\ stage' = [stage EXCEPT ![j] = "failed"]
    /\ UNCHANGED posts

-----------------------------------------------------------------------------
(* The main goroutine.                                                     *)

SignalReceived ==
    /\ main = "serving"
    /\ main' = "httpShutdown"
    /\ UNCHANGED <<request, answer, stage, posts, late, orphaned>>
    /\ UNCHANGED vars

ListenFails ==
    /\ main = "serving"
    /\ main' = "exit1"
    /\ UNCHANGED <<request, answer, stage, posts, late, orphaned>>
    /\ UNCHANGED vars

(* httpSrv.Shutdown waits until no connection is active.                   *)
HttpDrained ==
    /\ main = "httpShutdown"
    /\ ActiveRequests = {}
    /\ ShutdownBegin
    /\ main' = "poolShutdown"
    /\ UNCHANGED <<request, answer, stage, posts, late, orphaned>>

HttpTimesOut ==
    /\ main = "httpShutdown"
    /\ ActiveRequests # {}
    /\ main' = "exit1"
    /\ UNCHANGED <<request, answer, stage, posts, late, orphaned>>
    /\ UNCHANGED vars

(* Shutdown's deadline is as long as a scan's, so the scans that ran when  *)
(* it was called have timed out when it passes.                            *)
DrainDeadline ==
    /\ Alive
    /\ ShutdownDeadline
    /\ JobsIn(Running) \subseteq expired \cup late
    /\ UNCHANGED appOnly

DrainEnds ==
    /\ Alive
    /\ ShutdownDrained \/ ShutdownUnwound
    /\ UNCHANGED appOnly

MainReturns ==
    /\ main = "poolShutdown"
    /\ Stopped
    /\ main' = "exit0"
    /\ UNCHANGED <<request, answer, stage, posts, late, orphaned>>
    /\ UNCHANGED vars

Kill ==
    /\ Alive
    /\ main' = "killed"
    /\ UNCHANGED <<request, answer, stage, posts, late, orphaned>>
    /\ UNCHANGED vars

AppRest == ~Alive /\ UNCHANGED appVars

AppNext ==
    \/ \E j \in Jobs :
        \/ Connect(j) \/ ReadFails(j) \/ AnswerUnscanned(j)
        \/ DispatchScan(j) \/ Submitting(j) \/ AnswerScan(j)
        \/ StartScan(j) \/ ReturnScan(j) \/ PoolGoroutine(j)
        \/ GetToken(j) \/ RunScanner(j) \/ PostComment(j) \/ PostFails(j)
        \/ FinishScan(j) \/ ScanFails(j) \/ OrphanHolds(j) \/ OrphanExits(j)
    \/ Dispatcher
    \/ SignalReceived \/ ListenFails \/ HttpDrained \/ HttpTimesOut
    \/ DrainDeadline \/ DrainEnds \/ MainReturns
    \/ Kill \/ AppRest

AppSpec == AppInit /\ [][AppNext]_appVars

(* The read timeout ends every request that is not read in time, and no    *)
(* client is obliged to send its body; the server's goroutines and timers  *)
(* are scheduled; a scan whose context is done fails or returns unless its *)
(* pipe is held, and nothing ends that; main's deadline passes and its     *)
(* waits end.  A signal need not come.                                     *)
AppFairness ==
    /\ \A j \in Jobs :
        /\ WF_appVars(ReadFails(j))
        /\ WF_appVars(Submitting(j))
        /\ WF_appVars(AnswerScan(j))
        /\ WF_appVars(Alive /\ Timeout(j) /\ UNCHANGED appOnly)
        /\ WF_appVars(/\ Alive
                      /\ ReleaseKey(j) \/ FreeSlot(j) \/ GoroutineDone(j)
                      /\ UNCHANGED appOnly)
        /\ WF_appVars(/\ CtxDone(j)
                      /\ GetToken(j) \/ PostComment(j) \/ PostFails(j)
                         \/ FinishScan(j) \/ ScanFails(j))
        /\ WF_appVars(ReturnScan(j))
    /\ WF_appVars(Dispatcher \/ \E j \in Jobs : StartScan(j))
    /\ WF_appVars(HttpDrained \/ HttpTimesOut)
    /\ WF_appVars(DrainDeadline)
    /\ WF_appVars(DrainEnds)
    /\ WF_appVars(MainReturns)

AppFairSpec == AppSpec /\ AppFairness

-----------------------------------------------------------------------------
(* What the server owes GitHub and its operator.                           *)

(* No request ever meets a closed pool: main calls Shutdown only after the *)
(* HTTP server has no active request left, so submit neither panics on the *)
(* closed channel nor refuses a delivery that will be answered 200.        *)
PoolOutlivesRequests == JobsIn({"panicked", "rejected"}) = {}

(* A process that exits with status 0 has answered every request it read   *)
(* and has brought every scan it accepted to an end: main returns only     *)
(* after the HTTP server and then the pool have drained.                   *)
GracefulExit ==
    main = "exit0" =>
        /\ ActiveRequests = {}
        /\ JobsIn(Owed) = {}
        /\ \A j \in JobsIn({"done"}) : stage[j] \in Concluded

(* A delivery whose scan was accepted is answered 200, and one that was    *)
(* not read, verified or decoded reaches neither the pool nor GitHub.      *)
OnlyVerifiedScans ==
    \A j \in Jobs :
        /\ answer[j] = 200 /\ KindOf[j] = "scan" =>
               status[j] \in {"refused", "duplicate", "done"} \cup Owed
        /\ answer[j] \in {400, 401, 500} => status[j] = "new" /\ j \notin posts

(* The inductive invariant: where the request, the scan and the main       *)
(* goroutine can be, given how far the pool took the job.                  *)
RequestOrder ==
    \A j \in Jobs :
        /\ status[j] \in {"reserved", "refusing"} => request[j] = "submitting"
        /\ request[j] \in {"none", "open"} => status[j] = "new"
        /\ request[j] = "submitting" => KindOf[j] = "scan"
        /\ answer[j] # 0 => request[j] = "answered"
        /\ status[j] \notin {"panicked", "rejected"}

StageOrder ==
    \A j \in Jobs :
        /\ status[j] \in {"returned", "released", "freed", "done"} => stage[j] \in Concluded
        /\ j \in posts => status[j] \in InGoroutine \cup {"done"}
        /\ j \in orphaned => status[j] = "running" /\ stage[j] = "token"

MainOrder ==
    /\ closed => ActiveRequests = {} /\ main \in {"poolShutdown", "exit0", "killed"}
    /\ main = "exit0" => Stopped

AppInv ==
    /\ AppTypeOK
    /\ RequestOrder
    /\ StageOrder
    /\ MainOrder
    /\ OnlyVerifiedScans

(* No descendant of a scan's command keeps its output pipe for good.       *)
PipesClose == \A j \in Jobs : []<>(j \notin orphaned)

(* If every held pipe is closed in the end, every accepted scan comes to a *)
(* conclusion while the process lives and gives its key and its slot back, *)
(* whether it succeeded or failed: its own timeout, not Shutdown, ends the *)
(* calls it waits in, and a scan behind it in the queue gets its slot.     *)
ScansConclude ==
    PipesClose =>
        \A j \in Jobs : status[j] = "queued" ~> (status[j] = "done" \/ ~Alive)

(* If every held pipe is closed in the end, a signal ends the process:     *)
(* slow requests, queued scans and scans whose timeout is still far off    *)
(* included.                                                               *)
SignalEnds == PipesClose => (main = "httpShutdown" ~> ~Alive)
=============================================================================
