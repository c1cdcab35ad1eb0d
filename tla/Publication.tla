----------------------------- MODULE Publication -----------------------------
(***************************************************************************)
(* What a CI workflow does with its scans: it submits them to the backend  *)
(* (ManagedClient), or hands the reports they write to `fendix jira` and   *)
(* `fendix notify` (internal/integrations, cmd/fendix/jira.go, notify.go). *)
(* A workflow that does both does one after the other on state neither     *)
(* shares, so each is explored on its own.  Jobs run side by side against  *)
(* one Jira project.  Jira and the chat webhooks are external: a request   *)
(* may fail, and one that was carried out may lose its answer.             *)
(*                                                                         *)
(* A finding of a report has the id the scan numbered it with, a severity, *)
(* the fingerprints of its occurrences (lower case, as the label is), its  *)
(* own fingerprint and whether all of these are legal labels.              *)
(***************************************************************************)
EXTENDS ManagedClient

CONSTANTS
  Reports,                 \* what a scan may find: sequences of findings
  JiraFloor, NotifyFloor,  \* the severity a finding must have to be ticketed, to be sent
  Sinks,                   \* the chat webhooks that are configured
  Chunk,                   \* labels in one search (50)
  MaxResults               \* issues one search returns (100)

ASSUME PublicationAssumption ==
  /\ Chunk \in Nat \ {0} /\ MaxResults \in Nat /\ MaxResults >= Chunk
  /\ \A r \in Reports : r \in Seq(Range(r)) /\ \A f \in Range(r) : f.occ \in Seq(Range(f.occ))

VARIABLES
  workflow,  \* the steps its jobs have: "managed" or "publish"
  report,    \* the findings the report of each job shows
  issues,    \* the occurrences each issue of the project is labelled with
  overlap,   \* whether two syncs have ever run at once
  step,      \* what each job's integrations do next
  finding,   \* the finding being published
  searched,  \* how many of its occurrences were searched for
  tracked,   \* the fingerprints found on issues, for this finding
  sync,      \* what became of findings in the sync: created, unchanged, errors
  claimed,   \* the findings the notifier has claimed
  sent,      \* what became of its alerts: sent, errors
  failed     \* whether the sync and the notifier ended in error
publishing == <<workflow, report, issues, overlap, step, finding, searched, tracked, sync, claimed, sent, failed>>
vars == <<managed, publishing>>

Init ==
  /\ ManagedInit /\ workflow \in {"managed", "publish"}
  /\ report = [j \in Jobs |-> <<>>] /\ issues = <<>> /\ overlap = FALSE
  /\ step = [j \in Jobs |-> "scan"]
  /\ finding = [j \in Jobs |-> 1] /\ searched = [j \in Jobs |-> 0]
  /\ tracked = [j \in Jobs |-> {}] /\ sync = [j \in Jobs |-> {}]
  /\ claimed = [j \in Jobs |-> {}] /\ sent = [j \in Jobs |-> {}]
  /\ failed = [j \in Jobs |-> {}]

Go(j, next) == step' = [step EXCEPT ![j] = next]
Current(j) == report[j][finding[j]]
More(j) == finding[j] <= Len(report[j])
Clears(f, floor) == SeverityRank(f.severity) >= SeverityRank(floor)
(* The occurrences a finding presents, each once, or itself.                *)
OccurrencesOf(f) ==
  LET first == {i \in DOMAIN f.occ : \A k \in 1 .. i - 1 : f.occ[k] # f.occ[i]}
      nth(n) == CHOOSE i \in first : Cardinality({k \in first : k <= i}) = n
  IN  IF f.occ = <<>> THEN <<f.own>> ELSE [n \in 1 .. Cardinality(first) |-> f.occ[nth(n)]]

ScanAndReport(j) ==
  /\ workflow = "publish" /\ step[j] = "scan" /\ Go(j, "report")
  /\ \E found \in Reports : report' = [report EXCEPT ![j] = found]
  /\ UNCHANGED <<managed, workflow, issues, overlap, finding, searched, tracked, sync, claimed, sent, failed>>

-----------------------------------------------------------------------------
(* --- jira --------------------------------------------------------------- *)
Syncing == {j \in Jobs : step[j] \in {"sync", "search", "create"}}
(* Settings that are missing or malformed fail the command.                 *)
NoTracker(j) == Go(j, "synced") /\ failed' = [failed EXCEPT ![j] = @ \cup {"jira"}]
NoNotifier(j) == Go(j, "done") /\ failed' = [failed EXCEPT ![j] = @ \cup {"notify"}]
StartSync(j) ==
  /\ step[j] = "report"
  /\ \/ /\ report[j] # <<>> /\ Go(j, "sync")
        /\ overlap' = (overlap \/ Syncing # {}) /\ UNCHANGED failed
     \/ report[j] = <<>> /\ Go(j, "synced") /\ UNCHANGED <<overlap, failed>>
     \/ NoTracker(j) /\ UNCHANGED overlap
  /\ UNCHANGED <<managed, workflow, report, issues, finding, searched, tracked, sync, claimed, sent>>

NextFinding(j) == /\ Go(j, "sync") /\ finding' = [finding EXCEPT ![j] = @ + 1]
                  /\ searched' = [searched EXCEPT ![j] = 0] /\ tracked' = [tracked EXCEPT ![j] = {}]
Count(j, what) == sync' = [sync EXCEPT ![j] = @ \cup {what}]

(* Below the floor, or with an id or a fingerprint that is no label.        *)
Validate(j) ==
  /\ step[j] = "sync" /\ More(j)
  /\ CASE ~Clears(Current(j), JiraFloor) -> NextFinding(j) /\ UNCHANGED sync
       [] Clears(Current(j), JiraFloor) /\ ~Current(j).safe -> NextFinding(j) /\ Count(j, "errors")
       [] OTHER -> Go(j, "search") /\ UNCHANGED <<finding, searched, tracked, sync>>
  /\ UNCHANGED <<managed, workflow, report, issues, overlap, claimed, sent, failed>>

(* Mutant: an issue that carries one occurrence covers the finding.         *)
WholeFinding(f, labels) == Range(OccurrencesOf(f))
(* What an issue tracks is what its labels say.                             *)
TrackedBy(f, labels) == labels
(* One search per chunk of occurrences; the first that fails ends it.       *)
Search(j) ==
  LET f == Current(j)
      occ == OccurrencesOf(f)
      last == IF searched[j] + Chunk > Len(occ) THEN Len(occ) ELSE searched[j] + Chunk
      labels == {occ[i] : i \in searched[j] + 1 .. last}
      hits == {i \in DOMAIN issues : issues[i] \cap labels # {}}
      returned == IF Cardinality(hits) <= MaxResults THEN {hits} ELSE {H \in SUBSET hits : Cardinality(H) = MaxResults}
  IN  /\ step[j] = "search"
      /\ \/ /\ \E H \in returned :
                 LET known == tracked[j] \cup UNION {TrackedBy(f, issues[i]) : i \in H}
                 IN  CASE last < Len(occ) -> /\ tracked' = [tracked EXCEPT ![j] = known]
                                             /\ searched' = [searched EXCEPT ![j] = last]
                                             /\ UNCHANGED <<step, finding, sync>>
                       [] last = Len(occ) /\ Range(occ) \subseteq known ->
                            NextFinding(j) /\ Count(j, "unchanged")
                       [] OTHER -> /\ tracked' = [tracked EXCEPT ![j] = known] /\ Go(j, "create")
                                   /\ UNCHANGED <<finding, searched, sync>>
         \/ NextFinding(j) /\ Count(j, "errors")
      /\ UNCHANGED <<managed, workflow, report, issues, overlap, claimed, sent, failed>>

(* One issue for the occurrences no issue carries; its answer may be lost.  *)
Create(j) ==
  /\ step[j] = "create"
  /\ \/ /\ issues' = Append(issues, Range(OccurrencesOf(Current(j))) \ tracked[j])
        /\ Count(j, "created") \/ Count(j, "errors")
     \/ UNCHANGED issues /\ Count(j, "errors")
  /\ NextFinding(j)
  /\ UNCHANGED <<managed, workflow, report, overlap, claimed, sent, failed>>

(* Strict fails on any error; otherwise only when nothing succeeded.        *)
EndSync(j) ==
  /\ step[j] = "sync" /\ ~More(j)
  /\ Go(j, "synced")
  /\ \E strict \in BOOLEAN :
       failed' = [failed EXCEPT ![j] =
         IF "errors" \in sync[j] /\ (strict \/ sync[j] = {"errors"}) THEN @ \cup {"jira"} ELSE @]
  /\ UNCHANGED <<managed, workflow, report, issues, overlap, finding, searched, tracked, sync, claimed, sent>>

-----------------------------------------------------------------------------
(* --- chat alerts -------------------------------------------------------- *)
StartNotify(j) ==
  /\ step[j] = "synced"
  /\ \/ Go(j, "notify") /\ finding' = [finding EXCEPT ![j] = 1] /\ UNCHANGED failed
     \/ NoNotifier(j) /\ UNCHANGED finding
  /\ UNCHANGED <<managed, workflow, report, issues, overlap, searched, tracked, sync, claimed, sent>>

(* A finding is claimed by its id before it is posted, so that one whose    *)
(* posts fail is not tried again within the window; each webhook is tried   *)
(* on its own.  Claims older than the window are dropped.                   *)
Alert(j) ==
  /\ step[j] = "notify" /\ More(j)
  /\ finding' = [finding EXCEPT ![j] = @ + 1]
  /\ LET f == Current(j)
     IN  \/ /\ ~Clears(f, NotifyFloor) \/ f.id \in claimed[j]
            /\ UNCHANGED <<claimed, sent>>
         \/ /\ Clears(f, NotifyFloor)
            /\ \E kept \in {{}, claimed[j]}, reached \in SUBSET Sinks :
                 /\ f.id \notin kept
                 /\ claimed' = [claimed EXCEPT ![j] = kept \cup {f.id}]
                 /\ sent' = [sent EXCEPT ![j] = @ \cup {IF s \in reached THEN "sent" ELSE "errors" : s \in Sinks}]
  /\ UNCHANGED <<managed, workflow, report, issues, overlap, step, searched, tracked, sync, failed>>

EndNotify(j) ==
  /\ step[j] = "notify" /\ ~More(j) /\ Go(j, "done")
  /\ failed' = [failed EXCEPT ![j] = IF sent[j] = {"errors"} THEN @ \cup {"notify"} ELSE @]
  /\ UNCHANGED <<managed, workflow, report, issues, overlap, finding, searched, tracked, sync, claimed, sent>>

Publish(j) == \/ ScanAndReport(j) \/ StartSync(j) \/ Validate(j) \/ Search(j) \/ Create(j)
              \/ EndSync(j) \/ StartNotify(j) \/ Alert(j) \/ EndNotify(j)
Next == \/ workflow = "managed" /\ ManagedStep /\ UNCHANGED publishing
        \/ \E j \in Jobs : Publish(j)
(* A step of a job that is under way is taken: each request is answered or  *)
(* times out.  Nothing is assumed of the backend, of late posts or of reruns.*)
Spec == Init /\ [][Next]_vars
        /\ \A j \in Jobs : WF_vars(workflow = "managed" /\ ClientStep(j) /\ UNCHANGED publishing)

-----------------------------------------------------------------------------
(* Idempotency is per occurrence: a sync without errors leaves every        *)
(* occurrence of every finding above the floor on an issue, a new one that  *)
(* joined a ticketed finding included; and however often syncs run, fail    *)
(* half way or lose the answer to a create, no occurrence is on two issues  *)
(* unless two syncs ran at once (jira.go:182-191, 223).                     *)
OnOneIssue ==
  /\ \A j \in Jobs : step[j] \in {"synced", "notify", "done"} /\ "jira" \notin failed[j] /\ "errors" \notin sync[j] =>
       \A f \in Range(report[j]) : Clears(f, JiraFloor) =>
         \A o \in Range(OccurrencesOf(f)) : \E i \in DOMAIN issues : o \in issues[i]
  /\ ~overlap =>
       \A i, k \in DOMAIN issues : i # k => issues[i] \cap issues[k] = {}
=============================================================================
