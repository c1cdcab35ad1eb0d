---------------------------- MODULE ScanHistory -----------------------------
(***************************************************************************)
(* The successive `fendix scan' runs over one repository and what they     *)
(* share: the baseline file and the ignore rules.  One scan's part in it   *)
(* is Orchestrator.finalize (src/go/internal/engine/orchestrator.go) with  *)
(* collapse.go, occurrences.go, dedup.go, ignore.go and baseline.go.       *)
(*                                                                         *)
(* A finding is a presentation group of occurrences; suppression is        *)
(* decided for every occurrence by itself.  Files and lines are numbers in *)
(* the order of their endpoints.  A detector rule fixes the title, the     *)
(* category, the severity and the engine of what it reports, so occurrences*)
(* group by rule; the fingerprint is the file and the rule, without the    *)
(* line.  What a finding quotes, and the gate's decision on it, are left   *)
(* out: a scan ends reported (exit 0 or 1) or failed (exit 2).             *)
(*                                                                         *)
(* A scan reads its ignore rules when it applies them, so they are an      *)
(* input of that step; an expired rule is one the file no longer has.      *)
(***************************************************************************)
EXTENDS Naturals, FiniteSets

CONSTANTS
  Jobs,        \* the processes that scan, possibly at the same time
  Rules,       \* the detector rules, numbered in the order of their titles
  CategoryOf,  \* the category of a rule's findings
  TrustOf,     \* the trust rank of the engine a rule belongs to
  Trees,       \* what the detectors find in each state of the working tree
  RuleFiles,   \* the contents of the ignore file
  Uses,        \* the combinations of flags scans are run with
  Legacy,      \* what the grouped baseline of an older build was taken over
  MaxScans     \* bound: scans in one history

Occurrence == [file: Nat, line: Nat, rule: Rules]
Selector ==
  [by: {"fingerprint"}, file: Nat, rule: Rules] \cup [by: {"id"}, id: Nat]
    \cup [by: {"endpoint"}, file: Nat] \cup [by: {"category"}, category: {CategoryOf[r] : r \in Rules}]
Use == [ignore: BOOLEAN, baseline: BOOLEAN, save: BOOLEAN]

ASSUME HistoryAssumption ==
  /\ Rules \subseteq Nat /\ TrustOf \in [Rules -> Nat] /\ DOMAIN CategoryOf = Rules
  /\ \A t \in Trees \cup {Legacy} : t \subseteq Occurrence /\ IsFiniteSet(t)
  /\ RuleFiles \subseteq SUBSET Selector /\ Uses \subseteq Use /\ MaxScans \in Nat

VARIABLES
  file,   \* the baseline file and, as ghosts, what its writer detected, did not
          \* ignore, and whether it compared with a baseline itself
  scan,   \* each process's scan
  scans   \* how many scans have begun

vars == <<file, scan, scans>>

-----------------------------------------------------------------------------
(* CollapseDuplicateLocations: where several engines report one category   *)
(* at one endpoint, only the best representative is kept.                  *)
SameSpot(o, p) == /\ <<o.file, o.line>> = <<p.file, p.line>>
                  /\ CategoryOf[o.rule] = CategoryOf[p.rule]
DistinctTiers(spot) == \E o, p \in spot : TrustOf[o.rule] # TrustOf[p.rule]
DuplicateLess(o, p) == \/ TrustOf[o.rule] > TrustOf[p.rule]
                       \/ (TrustOf[o.rule] = TrustOf[p.rule] /\ o.rule < p.rule)
Collapse(found) ==
  {o \in found : LET spot == {p \in found : SameSpot(o, p)}
                 IN DistinctTiers(spot) => \A p \in spot \ {o} : DuplicateLess(o, p)}

(* Fingerprint, and findingLess where only endpoints can differ. *)
Identity(o) == <<o.file, o.rule>>
Identities(os) == {Identity(o) : o \in os}
FindingLess(o, p) == o.file < p.file \/ (o.file = p.file /\ o.line < p.line)

(* Deduplicate: one group for each rule, named by its least occurrence. *)
GroupOf(os, r) == {o \in os : o.rule = r}
Grouped(os) == {o.rule : o \in os}
Primary(group) == CHOOSE o \in group : \A p \in group \ {o} : FindingLess(o, p)

(* presentationGroupIDs: groups are numbered by their primaries' endpoints,*)
(* then by category and title.                                             *)
GroupIDs(os) ==
  LET Before(r, s) == LET p == Primary(GroupOf(os, r))  q == Primary(GroupOf(os, s))
                      IN FindingLess(p, q) \/ (~ FindingLess(q, p) /\ r < s)
  IN [r \in Grouped(os) |-> 1 + Cardinality({s \in Grouped(os) : Before(s, r)})]

(* matchesSingleRule, the positional id being that of the group. *)
Matches(o, ids, sel) ==
  \/ sel.by = "fingerprint" /\ <<sel.file, sel.rule>> = Identity(o)
  \/ sel.by = "id" /\ sel.id = ids[o.rule]
  \/ sel.by = "endpoint" /\ sel.file = o.file
  \/ sel.by = "category" /\ sel.category = CategoryOf[o.rule]
Ignored(o, ids, rules) == \E sel \in rules : Matches(o, ids, sel)

(* indexBaseline and known: a current baseline proves every occurrence it  *)
(* lists; a legacy entry proves its primary's fingerprint and the exact    *)
(* locations it recorded.                                                  *)
PrimaryFingerprints(b) == {Identity(Primary(GroupOf(b.of, r))) : r \in Grouped(b.of)}  \* mutant

Fingerprints(b) ==
  IF b.kind = "legacy" THEN {Identity(Primary(GroupOf(b.of, r))) : r \in Grouped(b.of)}
  ELSE Identities(b.of)
Known(b, o) == Identity(o) \in Fingerprints(b) \/ (b.kind = "legacy" /\ o \in b.of)

-----------------------------------------------------------------------------
Missing == [kind |-> "missing", of |-> {}, detected |-> {}, kept |-> {}, diffed |-> FALSE]
Unreadable == [Missing EXCEPT !.kind = "unreadable"]
Older == [Missing EXCEPT !.kind = "legacy", !.of = Legacy, !.detected = Legacy]

NoScan == [step |-> "off", use |-> [ignore |-> FALSE, baseline |-> FALSE, save |-> FALSE],
           tree |-> {}, ids |-> <<>>, rules |-> {}, read |-> Missing, left |-> {}]
Resting(j) == scan[j].step \in {"off", "reported"}
Fail(j) == scan' = [scan EXCEPT ![j] = NoScan]

Init == file \in {Missing, Older} /\ scan = [j \in Jobs |-> NoScan] /\ scans = 0

(* Detection is over: duplicates are collapsed, identities and positional  *)
(* ids stamped over the unsuppressed set.                                  *)
Begin(j) ==
  /\ Resting(j) /\ scans < MaxScans
  /\ scans' = scans + 1
  /\ \E use \in Uses, tree \in Trees :
       scan' = [scan EXCEPT ![j] =
         [NoScan EXCEPT !.step = "stamped", !.use = use, !.tree = tree,
                        !.ids = GroupIDs(Collapse(tree)), !.left = Collapse(tree)]]
  /\ UNCHANGED file

(* ApplyIgnoreRules, each occurrence by itself. *)
NotIgnored(s, rules) == {o \in s.left : ~ Ignored(o, s.ids, rules)}

ApplyIgnore(j) ==
  LET s == scan[j] IN
  /\ s.step = "stamped"
  /\ \E rules \in IF s.use.ignore THEN RuleFiles ELSE {{}} :
       scan' = [scan EXCEPT ![j].step = "ignored", ![j].rules = rules,
                            ![j].left = NotIgnored(s, rules)]
  /\ UNCHANGED <<file, scans>>

IgnoreUnreadable(j) ==
  /\ scan[j].step = "stamped" /\ scan[j].use.ignore
  /\ Fail(j)
  /\ UNCHANGED <<file, scans>>

(* ApplyBaselineDiffStrict: a missing file is a first run, an unreadable   *)
(* one ends the scan.                                                      *)
NeverRefused(b) == FALSE                                                      \* mutant
Refused(b) == b.kind = "unreadable"
NotKnownByGroup(s, b) == {o \in s.left : ~ \E p \in b.of : p.rule = o.rule}    \* mutant
NotKnown(s, b) == {o \in s.left : ~ Known(b, o)}

ApplyBaseline(j) ==
  LET s == scan[j] IN
  /\ s.step = "ignored"
  /\ IF s.use.baseline
     THEN /\ ~ Refused(file)
          /\ scan' = [scan EXCEPT ![j].step = "diffed", ![j].read = file,
                                  ![j].left = NotKnown(s, file)]
     ELSE scan' = [scan EXCEPT ![j].step = "diffed"]
  /\ UNCHANGED <<file, scans>>

BaselineRefused(j) ==
  /\ scan[j].step = "ignored" /\ scan[j].use.baseline /\ Refused(file)
  /\ Fail(j)
  /\ UNCHANGED <<file, scans>>

(* SaveBaseline is os.WriteFile: the file is truncated, then written.      *)
OpenBaseline(j) ==
  /\ scan[j].step = "diffed" /\ scan[j].use.save
  /\ file' = Unreadable
  /\ scan' = [scan EXCEPT ![j].step = "opened"]
  /\ UNCHANGED scans

(* Written by an open file at offset 0: over what another writer has put   *)
(* there since, a shorter text leaves a tail that does not parse.          *)
Saved(s) ==
  [kind |-> "current", of |-> s.left, diffed |-> s.use.baseline, detected |-> Collapse(s.tree),
   kept |-> {o \in Collapse(s.tree) : ~ Ignored(o, s.ids, s.rules)}]

WriteBaseline(j) ==
  /\ scan[j].step = "opened"
  /\ \/ file' = Saved(scan[j])
     \/ ~ Refused(file) /\ file' = Unreadable
  /\ scan' = [scan EXCEPT ![j].step = "saved"]
  /\ UNCHANGED scans

(* A write that does not end leaves what it has put into the file. *)
Torn(j) == file' \in IF scan[j].step = "opened" THEN {file, Unreadable} ELSE {file}

SaveFails(j) ==
  /\ scan[j].step \in {"diffed", "opened"} /\ scan[j].use.save
  /\ Torn(j)
  /\ Fail(j)
  /\ UNCHANGED scans

(* regroupOccurrences and the report: the groups of what is left, under    *)
(* the ids they were given.                                                *)
Renumbered(s) == GroupIDs(s.left)                                             \* mutant
ReportedIDs(s) == [r \in Grouped(s.left) |-> s.ids[r]]

Report(j) ==
  LET s == scan[j] IN
  /\ s.step = IF s.use.save THEN "saved" ELSE "diffed"
  /\ scan' = [scan EXCEPT ![j].step = "reported", ![j].ids = ReportedIDs(s)]
  /\ UNCHANGED <<file, scans>>

(* A threshold nobody understands, evidence or a report that cannot be     *)
(* written: the scan fails with the baseline already saved.                *)
ReportFails(j) ==
  /\ scan[j].step = IF scan[j].use.save THEN "saved" ELSE "diffed"
  /\ Fail(j)
  /\ UNCHANGED <<file, scans>>

Kill(j) ==
  /\ ~ Resting(j)
  /\ Torn(j)
  /\ Fail(j)
  /\ UNCHANGED scans

(* The file is deleted, or a job starts without the one it would restore. *)
LoseBaseline ==
  /\ file.kind # "missing" /\ \A j \in Jobs : Resting(j)
  /\ file' = Missing
  /\ UNCHANGED <<scan, scans>>

(* The history ends at its bound. *)
HistoryEnds == scans = MaxScans /\ (\A j \in Jobs : Resting(j)) /\ UNCHANGED vars

Next ==
  \/ \E j \in Jobs : Begin(j)
  \/ \E j \in Jobs : ApplyIgnore(j)
  \/ \E j \in Jobs : IgnoreUnreadable(j)
  \/ \E j \in Jobs : ApplyBaseline(j)
  \/ \E j \in Jobs : BaselineRefused(j)
  \/ \E j \in Jobs : OpenBaseline(j)
  \/ \E j \in Jobs : WriteBaseline(j)
  \/ \E j \in Jobs : SaveFails(j)
  \/ \E j \in Jobs : Report(j)
  \/ \E j \in Jobs : ReportFails(j)
  \/ \E j \in Jobs : Kill(j)
  \/ LoseBaseline
  \/ HistoryEnds

Spec == Init /\ [][Next]_vars

-----------------------------------------------------------------------------
(* The types of the file and of every scan; what is left of a scan is part *)
(* of what its detectors found.                                            *)
TypeOK ==
  /\ file.kind \in {"missing", "unreadable", "current", "legacy"}
  /\ scans \in 0..MaxScans
  /\ \A j \in Jobs :
       /\ scan[j].step \in {"off", "stamped", "ignored", "diffed", "opened", "saved", "reported"}
       /\ scan[j].use \in Use /\ scan[j].tree \in Trees \cup {{}}
       /\ scan[j].left \subseteq scan[j].tree

Reported(j) == scan[j].step = "reported"

(* A new occurrence is reported.  Whatever a report leaves out, other than *)
(* what a more trusted engine's finding at the same spot stands for, is    *)
(* matched by an ignore rule itself, or has an identity that the scan      *)
(* which took the baseline detected: nothing is hidden because it groups   *)
(* with something known or ignored.                                        *)
NewIsReported ==
  \A j \in Jobs : Reported(j) =>
    LET s == scan[j]  found == Collapse(s.tree) IN
    \A o \in found \ s.left :
      \/ Ignored(o, GroupIDs(found), s.rules)
      \/ s.use.baseline /\ Identity(o) \in Identities(s.read.detected)

(* What a scan without --baseline found and did not ignore stays known to  *)
(* every scan that compares with the baseline it saved, wherever in the    *)
(* file the code has moved.                                                *)
SavedStaysKnown ==
  \A j \in Jobs : Reported(j) /\ ~ scan[j].read.diffed =>
    Identities(scan[j].left) \cap Identities(scan[j].read.kept) = {}

(* No report is made against a baseline that a killed, failed or           *)
(* overlapping save has torn.                                              *)
NoTornBaseline ==
  \A j \in Jobs : Reported(j) /\ scan[j].use.baseline => scan[j].read.kind # "unreadable"

(* An id: rule copied from a report hides that report's group in every     *)
(* scan of the same code, whatever either scan suppresses besides.         *)
IdRulesKeepTheirGroup ==
  \A i, j \in Jobs : Reported(i) /\ Reported(j) /\ scan[i].tree = scan[j].tree =>
    \A r \in Grouped(scan[i].left) :
      [by |-> "id", id |-> scan[i].ids[r]] \in scan[j].rules => r \notin Grouped(scan[j].left)
=============================================================================
