-------------------------- MODULE ScanHistoryProofs --------------------------
(***************************************************************************)
(* That suppression hides nothing new and forgets nothing saved, for any   *)
(* number of processes and scans over one baseline file, any trees, ignore *)
(* files and combinations of flags.                                        *)
(***************************************************************************)
EXTENDS ScanHistory, WellFoundedInduction, TLAPS

ScanOf(step, use, tree, ids, rules, read, left) ==
  [step |-> step, use |-> use, tree |-> tree, ids |-> ids, rules |-> rules, read |-> read, left |-> left]
Steps == {"off", "stamped", "ignored", "diffed", "opened", "saved", "reported"}
AfterDiff == {"diffed", "opened", "saved", "reported"}

(* What a baseline lists was detected by the scan that saved it, and one    *)
(* saved without a comparison lists all that scan did not ignore.           *)
BaselineOK(b) ==
  /\ b.kind \in {"missing", "unreadable", "current", "legacy"}
  /\ b.kind \in {"missing", "unreadable"} => b.of = {}
  /\ b.kind # "current" => b.kept = {}
  /\ b.kind = "legacy" => b.of = Legacy /\ b.detected = Legacy
  /\ b.kind = "current" => b.of \subseteq b.detected /\ (~b.diffed => b.of = b.kept)

(* What is left of a scan, at each step, in terms of what it was given.     *)
Numbers(s) == GroupIDs(Collapse(s.tree))
Unignored(s) == {o \in Collapse(s.tree) : ~Ignored(o, Numbers(s), s.rules)}
Unknown(s) == {o \in Unignored(s) : ~Known(s.read, o)}
ScanOK(s) ==
  /\ s = ScanOf(s.step, s.use, s.tree, s.ids, s.rules, s.read, s.left)
  /\ s.step \in Steps /\ s.use \in Use /\ s.tree \in Trees \cup {{}}
  /\ s.step = "off" => s.left = {}
  /\ s.step = "stamped" => s.left = Collapse(s.tree)
  /\ s.step = "ignored" => s.left = Unignored(s)
  /\ s.step \in AfterDiff => s.left = IF s.use.baseline THEN Unknown(s) ELSE Unignored(s)
  /\ s.step \in AfterDiff /\ s.use.baseline => BaselineOK(s.read) /\ ~Refused(s.read)
  /\ ~(s.step \in AfterDiff /\ s.use.baseline) => s.read = Missing
  /\ s.step \in {"stamped", "ignored", "diffed", "opened", "saved"} => s.ids = Numbers(s)
  /\ s.step = "reported" => s.ids = [r \in Grouped(s.left) |-> Numbers(s)[r]]
HInv ==
  /\ BaselineOK(file) /\ scans \in 0..MaxScans
  /\ scan = [j \in Jobs |-> scan[j]]
  /\ \A j \in Jobs : ScanOK(scan[j])

-----------------------------------------------------------------------------
LEMMA LeastNumber == ASSUME NEW T, T \subseteq Nat, T # {} PROVE \E x \in T : \A y \in T : x <= y
<1>1. \E R : IsWellFoundedOn(R, Nat) /\ \A x, y \in Nat : x < y => <<x, y>> \in R
  <2>1. \A x, y \in Nat : x < y => <<x, y>> \in OpToRel(<, Nat)
    BY DEF OpToRel
  <2> QED BY NatLessThanWellFounded, <2>1, Zenon
<1>2. PICK R : IsWellFoundedOn(R, Nat) /\ \A x, y \in Nat : x < y => <<x, y>> \in R
  BY <1>1
<1>5. IsWellFoundedOn(R, Nat)
  BY <1>2
<1>6. \E x \in T : \A y \in T : ~(<<y, x>> \in R)
  BY ONLY <1>5, T \subseteq Nat, T # {}, WFMin, Zenon
<1>3. PICK x \in T : \A y \in T : ~(<<y, x>> \in R)
  BY <1>6
<1>4. x \in Nat /\ \A y \in T : y \in Nat /\ ~(y < x)
  BY <1>2, <1>3
<1> QED BY <1>4

(* A group has a least occurrence, so that its primary is one of its own    *)
(* (findingLess orders the occurrences of one rule).                        *)
LEMMA PrimaryInGroup ==
  ASSUME NEW os, os \subseteq Occurrence, NEW r \in Grouped(os)
  PROVE  Primary(GroupOf(os, r)) \in GroupOf(os, r)
<1> DEFINE G == GroupOf(os, r)
<1>1. G # {} /\ \A o \in G : o \in Occurrence /\ o.rule = r
  BY DEF Grouped, GroupOf
<1>2. \A o \in G : o.file \in Nat /\ o.line \in Nat /\ o = [file |-> o.file, line |-> o.line, rule |-> r]
  BY <1>1 DEF Occurrence
<1> HIDE DEF G
<1>3. PICK f \in {o.file : o \in G} : \A y \in {o.file : o \in G} : f <= y
  <2>1. {o.file : o \in G} \subseteq Nat /\ {o.file : o \in G} # {}
    BY <1>1, <1>2
  <2> QED BY <2>1, LeastNumber
<1> DEFINE L == {o.line : o \in {o \in G : o.file = f}}
<1>4. PICK l \in L : \A y \in L : l <= y
  <2>1. L \subseteq Nat /\ L # {}
    BY <1>2, <1>3
  <2> HIDE DEF L
  <2> QED BY <2>1, LeastNumber
<1>5. PICK o \in G : o.file = f /\ o.line = l
  BY <1>4
<1>6. ASSUME NEW p \in G \ {o} PROVE FindingLess(o, p)
  <2>1. f <= p.file /\ (p.file = f => l <= p.line)
    BY <1>3, <1>4, <1>6
  <2>2. p.file # f \/ p.line # l
    BY <1>2, <1>5, <1>6
  <2>3. p.file \in Nat /\ p.line \in Nat /\ f \in Nat /\ l \in Nat
    BY <1>2, <1>5, <1>6
  <2> QED BY <1>5, <2>1, <2>2, <2>3 DEF FindingLess
<1> QED BY <1>6 DEF Primary, G

(* What a baseline proves known, its writer had detected.                   *)
LEMMA KnownWasDetected ==
  ASSUME NEW b, BaselineOK(b), NEW o, Known(b, o)
  PROVE  Identity(o) \in Identities(b.detected)
<1>1. CASE b.kind = "legacy"
  <2>1. b.of = Legacy /\ b.detected = Legacy /\ Legacy \subseteq Occurrence
    BY <1>1, HistoryAssumption DEF BaselineOK
  <2>2. ASSUME NEW r \in Grouped(Legacy) PROVE Primary(GroupOf(Legacy, r)) \in Legacy
    <3>1. Primary(GroupOf(Legacy, r)) \in GroupOf(Legacy, r)
      BY <2>1, PrimaryInGroup
    <3> QED BY <3>1 DEF GroupOf
  <2> QED BY <1>1, <2>1, <2>2 DEF Known, Fingerprints, Identities
<1>2. CASE b.kind # "legacy"
  BY <1>2 DEF BaselineOK, Known, Fingerprints, Identities
<1> QED BY <1>1, <1>2

(* The step of one scan leaves the others.                                  *)
LEMMA OneScan ==
  ASSUME HInv, NEW j \in Jobs, NEW s, ScanOK(s), scan' = [scan EXCEPT ![j] = s],
         BaselineOK(file)', scans' \in 0..MaxScans
  PROVE  HInv'
<1>1. scan' = [i \in Jobs |-> scan'[i]] /\ scan'[j] = s /\ \A i \in Jobs \ {j} : scan'[i] = scan[i]
  BY DEF HInv
<1>2. \A i \in Jobs : ScanOK(scan'[i])
  BY <1>1 DEF HInv
<1>3. \A i \in Jobs : ScanOK(scan[i])'
  BY <1>2 DEF ScanOK, Unignored, Unknown, Numbers
<1> QED BY <1>1, <1>3 DEF HInv

(* A scan that fails is forgotten.                                          *)
LEMMA NoScanOK == ScanOK(NoScan)
BY DEF ScanOK, NoScan, ScanOf, Steps, AfterDiff, Use

LEMMA MissingOK == BaselineOK(Missing) /\ BaselineOK(Unreadable)
BY DEF BaselineOK, Missing, Unreadable

LEMMA FailOK ==
  ASSUME HInv, NEW j \in Jobs, Fail(j), BaselineOK(file)', scans' = scans
  PROVE  HInv'
<1>1. scans' \in 0..MaxScans
  BY DEF HInv
<1> QED BY <1>1, NoScanOK, OneScan DEF Fail

LEMMA TornOK == ASSUME HInv, NEW j \in Jobs, Torn(j) PROVE BaselineOK(file)'
<1>1. BaselineOK(file) /\ (file' = file \/ file' = Unreadable)
  BY DEF Torn, HInv
<1> QED BY <1>1, MissingOK DEF BaselineOK

(* One lemma for each step of a scan that goes on.                          *)
LEMMA BeginOK == ASSUME HInv, NEW j \in Jobs, Begin(j) PROVE HInv'
<1>1. PICK use \in Uses, tree \in Trees : scan' = [scan EXCEPT ![j] =
         [NoScan EXCEPT !.step = "stamped", !.use = use, !.tree = tree,
                        !.ids = GroupIDs(Collapse(tree)), !.left = Collapse(tree)]]
  BY DEF Begin
<1> DEFINE s == ScanOf("stamped", use, tree, GroupIDs(Collapse(tree)), {}, Missing, Collapse(tree))
<1>2. scan' = [scan EXCEPT ![j] = s]
  <2>1. NoScan = ScanOf(NoScan.step, NoScan.use, NoScan.tree, NoScan.ids, {}, Missing, NoScan.left)
    BY DEF NoScan, ScanOf
  <2>2. PICK a : a = [NoScan EXCEPT !.step = "stamped"]
    OBVIOUS
  <2>3. PICK b : b = [a EXCEPT !.use = use]
    OBVIOUS
  <2>4. PICK c : c = [b EXCEPT !.tree = tree]
    OBVIOUS
  <2>5. PICK d : d = [c EXCEPT !.ids = GroupIDs(Collapse(tree))]
    OBVIOUS
  <2>6. scan' = [scan EXCEPT ![j] = [d EXCEPT !.left = Collapse(tree)]]
    BY <1>1, <2>2, <2>3, <2>4, <2>5
  <2>7. a = ScanOf("stamped", NoScan.use, NoScan.tree, NoScan.ids, {}, Missing, NoScan.left)
    BY <2>1, <2>2 DEF ScanOf
  <2>8. b = ScanOf("stamped", use, NoScan.tree, NoScan.ids, {}, Missing, NoScan.left)
    BY <2>3, <2>7 DEF ScanOf
  <2>9. c = ScanOf("stamped", use, tree, NoScan.ids, {}, Missing, NoScan.left)
    BY <2>4, <2>8 DEF ScanOf
  <2>10. d = ScanOf("stamped", use, tree, GroupIDs(Collapse(tree)), {}, Missing, NoScan.left)
    BY <2>5, <2>9 DEF ScanOf
  <2>11. [d EXCEPT !.left = Collapse(tree)] = s
    BY <2>10 DEF ScanOf
  <2> QED BY <2>6, <2>11
<1>3. ScanOK(s)
  BY HistoryAssumption DEF ScanOK, ScanOf, Steps, AfterDiff, Numbers
<1>4. scans' \in 0..MaxScans /\ BaselineOK(file)'
  BY HistoryAssumption DEF Begin, HInv, BaselineOK
<1> HIDE DEF s
<1> QED BY <1>2, <1>3, <1>4, OneScan

LEMMA ApplyIgnoreOK == ASSUME HInv, NEW j \in Jobs, ApplyIgnore(j) PROVE HInv'
<1>1. PICK s : s = scan[j]
  OBVIOUS
<1>2. ScanOK(s) /\ s.step = "stamped" /\ s.read = Missing /\ s.ids = Numbers(s)
  BY <1>1 DEF HInv, ScanOK, ApplyIgnore, AfterDiff
<1>3. PICK rules : scan' = [scan EXCEPT ![j].step = "ignored", ![j].rules = rules,
                                        ![j].left = NotIgnored(s, rules)]
  BY <1>1 DEF ApplyIgnore
<1>4. PICK t : t = ScanOf("ignored", s.use, s.tree, s.ids, rules, s.read, NotIgnored(s, rules))
  OBVIOUS
<1>5. scan' = [scan EXCEPT ![j] = t]
  <2>1. scan' = [scan EXCEPT ![j] = [s EXCEPT !.step = "ignored", !.rules = rules, !.left = NotIgnored(s, rules)]]
    BY <1>1, <1>3 DEF HInv
  <2>2. [s EXCEPT !.step = "ignored", !.rules = rules, !.left = NotIgnored(s, rules)]
        = [[[s EXCEPT !.step = "ignored"] EXCEPT !.rules = rules] EXCEPT !.left = NotIgnored(s, rules)]
    OBVIOUS
  <2>3. s = ScanOf(s.step, s.use, s.tree, s.ids, s.rules, s.read, s.left)
    BY <1>2 DEF ScanOK
  <2>4. [ScanOf(s.step, s.use, s.tree, s.ids, s.rules, s.read, s.left) EXCEPT !.step = "ignored"]
        = ScanOf("ignored", s.use, s.tree, s.ids, s.rules, s.read, s.left)
    BY DEF ScanOf
  <2>5. [ScanOf("ignored", s.use, s.tree, s.ids, s.rules, s.read, s.left) EXCEPT !.rules = rules]
        = ScanOf("ignored", s.use, s.tree, s.ids, rules, s.read, s.left)
    BY DEF ScanOf
  <2>6. [ScanOf("ignored", s.use, s.tree, s.ids, rules, s.read, s.left) EXCEPT !.left = NotIgnored(s, rules)]
        = ScanOf("ignored", s.use, s.tree, s.ids, rules, s.read, NotIgnored(s, rules))
    BY DEF ScanOf
  <2> QED BY <1>4, <2>1, <2>2, <2>3, <2>4, <2>5, <2>6, ZenonT(40)
<1>6. t.left = Unignored(t)
  BY <1>2, <1>4 DEF ScanOf, ScanOK, NotIgnored, Unignored, Numbers
<1>7. ScanOK(t)
  BY <1>2, <1>4, <1>6 DEF ScanOK, ScanOf, Steps, AfterDiff, Numbers
<1>8. scans' \in 0..MaxScans /\ BaselineOK(file)'
  BY DEF ApplyIgnore, HInv, BaselineOK
<1> QED BY <1>5, <1>7, <1>8, OneScan

LEMMA ApplyBaselineOK == ASSUME HInv, NEW j \in Jobs, ApplyBaseline(j) PROVE HInv'
<1>1. PICK s : s = scan[j]
  OBVIOUS
<1>2. ScanOK(s) /\ s.step = "ignored" /\ s.read = Missing /\ s.left = Unignored(s) /\ s.use.baseline \in BOOLEAN
  BY <1>1 DEF HInv, ScanOK, ApplyBaseline, AfterDiff, Use
<1>3. scans' \in 0..MaxScans /\ BaselineOK(file)'
  BY DEF ApplyBaseline, HInv, BaselineOK
<1>4. CASE s.use.baseline
  <2>1. scan' = [scan EXCEPT ![j].step = "diffed", ![j].read = file, ![j].left = NotKnown(s, file)] /\ ~Refused(file)
    BY <1>1, <1>4 DEF ApplyBaseline
  <2>2. PICK t : t = ScanOf("diffed", s.use, s.tree, s.ids, s.rules, file, NotKnown(s, file))
    OBVIOUS
  <2>3. scan' = [scan EXCEPT ![j] = t]
    <3>1. scan' = [scan EXCEPT ![j] = [s EXCEPT !.step = "diffed", !.read = file, !.left = NotKnown(s, file)]]
      BY <1>1, <2>1 DEF HInv
    <3>2. [s EXCEPT !.step = "diffed", !.read = file, !.left = NotKnown(s, file)]
          = [[[s EXCEPT !.step = "diffed"] EXCEPT !.read = file] EXCEPT !.left = NotKnown(s, file)]
      OBVIOUS
    <3>3. s = ScanOf(s.step, s.use, s.tree, s.ids, s.rules, s.read, s.left)
      BY <1>2 DEF ScanOK
    <3>4. [ScanOf(s.step, s.use, s.tree, s.ids, s.rules, s.read, s.left) EXCEPT !.step = "diffed"]
          = ScanOf("diffed", s.use, s.tree, s.ids, s.rules, s.read, s.left)
      BY DEF ScanOf
    <3>5. [ScanOf("diffed", s.use, s.tree, s.ids, s.rules, s.read, s.left) EXCEPT !.read = file]
          = ScanOf("diffed", s.use, s.tree, s.ids, s.rules, file, s.left)
      BY DEF ScanOf
    <3>6. [ScanOf("diffed", s.use, s.tree, s.ids, s.rules, file, s.left) EXCEPT !.left = NotKnown(s, file)]
          = ScanOf("diffed", s.use, s.tree, s.ids, s.rules, file, NotKnown(s, file))
      BY DEF ScanOf
    <3> QED BY <2>2, <3>1, <3>2, <3>3, <3>4, <3>5, <3>6
  <2>4. t.left = Unknown(t)
    BY <1>2, <2>2 DEF ScanOf, NotKnown, Unknown, Unignored, Numbers
  <2>5. ScanOK(t)
    BY <1>2, <1>4, <2>1, <2>2, <2>4 DEF ScanOK, ScanOf, Steps, AfterDiff, Numbers, HInv
  <2> QED BY <2>3, <2>5, <1>3, OneScan
<1>5. CASE ~s.use.baseline
  <2>1. scan' = [scan EXCEPT ![j].step = "diffed"]
    BY <1>1, <1>5 DEF ApplyBaseline
  <2>2. PICK t : t = ScanOf("diffed", s.use, s.tree, s.ids, s.rules, s.read, s.left)
    OBVIOUS
  <2>3. scan' = [scan EXCEPT ![j] = t]
    <3>1. scan' = [scan EXCEPT ![j] = [s EXCEPT !.step = "diffed"]]
      BY <1>1, <2>1 DEF HInv
    <3>2. s = ScanOf(s.step, s.use, s.tree, s.ids, s.rules, s.read, s.left)
      BY <1>2 DEF ScanOK
    <3>3. [ScanOf(s.step, s.use, s.tree, s.ids, s.rules, s.read, s.left) EXCEPT !.step = "diffed"]
          = ScanOf("diffed", s.use, s.tree, s.ids, s.rules, s.read, s.left)
      BY DEF ScanOf
    <3> QED BY <2>2, <3>1, <3>2, <3>3
  <2>4. t.left = Unignored(t)
    BY <1>2, <2>2 DEF ScanOf, Unignored, Numbers
  <2>5. ScanOK(t)
    BY <1>2, <1>5, <2>2, <2>4 DEF ScanOK, ScanOf, Steps, AfterDiff, Numbers
  <2> QED BY <2>3, <2>5, <1>3, OneScan
<1> QED BY <1>2, <1>4, <1>5

(* A step that only moves a compared scan on.                               *)
LEMMA MovesOn ==
  ASSUME HInv, NEW j \in Jobs, scan[j].step \in {"diffed", "opened"}, NEW to \in {"opened", "saved"},
         scan' = [scan EXCEPT ![j].step = to], BaselineOK(file)', scans' = scans
  PROVE  HInv'
<1>1. PICK s : s = scan[j]
  OBVIOUS
<1>2. ScanOK(s) /\ s.step \in AfterDiff
  BY <1>1 DEF HInv, AfterDiff
<1>3. PICK t : t = ScanOf(to, s.use, s.tree, s.ids, s.rules, s.read, s.left)
  OBVIOUS
<1>4. scan' = [scan EXCEPT ![j] = t]
  <2>1. scan' = [scan EXCEPT ![j] = [s EXCEPT !.step = to]]
    BY <1>1 DEF HInv
  <2>2. s = ScanOf(s.step, s.use, s.tree, s.ids, s.rules, s.read, s.left)
    BY <1>2 DEF ScanOK
  <2>3. [ScanOf(s.step, s.use, s.tree, s.ids, s.rules, s.read, s.left) EXCEPT !.step = to]
        = ScanOf(to, s.use, s.tree, s.ids, s.rules, s.read, s.left)
    BY DEF ScanOf
  <2> QED BY <1>3, <2>1, <2>2, <2>3
<1>5. Unignored(t) = Unignored(s) /\ Unknown(t) = Unknown(s) /\ Numbers(t) = Numbers(s)
  BY <1>3 DEF ScanOf, Unignored, Unknown, Numbers
<1>6. ScanOK(t)
  BY <1>1, <1>2, <1>3, <1>5 DEF ScanOK, ScanOf, Steps, AfterDiff
<1>7. scans' \in 0..MaxScans
  BY DEF HInv
<1> QED BY <1>4, <1>6, <1>7, OneScan

(* What a scan saves is what its detectors found less what it ignored, if   *)
(* it compared with no baseline.                                            *)
LEMMA SavedOK ==
  ASSUME NEW s, ScanOK(s), s.step = "opened" PROVE BaselineOK(Saved(s))
<1>1. Unignored(s) = {o \in Collapse(s.tree) : ~Ignored(o, s.ids, s.rules)}
  BY DEF ScanOK, Unignored
<1>2. s.left \subseteq Unignored(s) /\ (~s.use.baseline => s.left = Unignored(s))
  BY DEF ScanOK, AfterDiff, Unknown
<1>3. s.left \subseteq Collapse(s.tree)
  BY <1>2 DEF Unignored
<1> QED BY <1>1, <1>2, <1>3 DEF BaselineOK, Saved

LEMMA WriteBaselineOK == ASSUME HInv, NEW j \in Jobs, WriteBaseline(j) PROVE HInv'
<1>1. BaselineOK(Saved(scan[j]))
  BY SavedOK DEF HInv, WriteBaseline
<1>2. file' = Saved(scan[j]) \/ file' = Unreadable
  BY DEF WriteBaseline
<1>3. BaselineOK(file)'
  BY <1>1, <1>2, MissingOK DEF BaselineOK
<1> QED BY <1>3, MovesOn DEF WriteBaseline

LEMMA ReportOK == ASSUME HInv, NEW j \in Jobs, Report(j) PROVE HInv'
<1>1. PICK s : s = scan[j]
  OBVIOUS
<1>2. ScanOK(s) /\ s.step \in {"diffed", "saved"}
  BY <1>1 DEF HInv, Report
<1>3. PICK t : t = ScanOf("reported", s.use, s.tree, ReportedIDs(s), s.rules, s.read, s.left)
  OBVIOUS
<1>4. scan' = [scan EXCEPT ![j] = t]
  <2>1. scan' = [scan EXCEPT ![j] = [s EXCEPT !.step = "reported", !.ids = ReportedIDs(s)]]
    BY <1>1 DEF HInv, Report
  <2>2. [s EXCEPT !.step = "reported", !.ids = ReportedIDs(s)]
        = [[s EXCEPT !.step = "reported"] EXCEPT !.ids = ReportedIDs(s)]
    OBVIOUS
  <2>3. s = ScanOf(s.step, s.use, s.tree, s.ids, s.rules, s.read, s.left)
    BY <1>2 DEF ScanOK
  <2>4. [ScanOf(s.step, s.use, s.tree, s.ids, s.rules, s.read, s.left) EXCEPT !.step = "reported"]
        = ScanOf("reported", s.use, s.tree, s.ids, s.rules, s.read, s.left)
    BY DEF ScanOf
  <2>5. [ScanOf("reported", s.use, s.tree, s.ids, s.rules, s.read, s.left) EXCEPT !.ids = ReportedIDs(s)]
        = ScanOf("reported", s.use, s.tree, ReportedIDs(s), s.rules, s.read, s.left)
    BY DEF ScanOf
  <2> QED BY <1>3, <2>1, <2>2, <2>3, <2>4, <2>5
<1>5. Unignored(t) = Unignored(s) /\ Unknown(t) = Unknown(s) /\ Numbers(t) = Numbers(s)
  BY <1>3 DEF ScanOf, Unignored, Unknown, Numbers
<1>6. s.ids = Numbers(s) /\ t.left = s.left
  BY <1>2, <1>3 DEF ScanOK, ScanOf
<1>7. t.ids = [r \in Grouped(t.left) |-> Numbers(t)[r]]
  BY <1>3, <1>5, <1>6 DEF ScanOf, ReportedIDs
<1>8. ScanOK(t)
  BY <1>2, <1>3, <1>5, <1>7 DEF ScanOK, ScanOf, Steps, AfterDiff
<1>9. scans' \in 0..MaxScans /\ BaselineOK(file)'
  BY DEF Report, HInv, BaselineOK
<1> QED BY <1>4, <1>8, <1>9, OneScan

-----------------------------------------------------------------------------
(* The inductive invariant: the baseline file and every scan's remainder    *)
(* are accounted for by what was detected, ignored and known.               *)
LEMMA Initial == Init => HInv
<1> SUFFICES ASSUME Init PROVE HInv
  OBVIOUS
<1>1. scan = [j \in Jobs |-> NoScan] /\ scans = 0 /\ file \in {Missing, Older}
  BY DEF Init
<1>2. BaselineOK(Older)
  BY DEF BaselineOK, Older, Missing
<1>3. 0 \in 0..MaxScans
  BY HistoryAssumption
<1> QED BY <1>1, <1>2, <1>3, MissingOK, NoScanOK DEF HInv

LEMMA Preserved == HInv /\ [Next]_vars => HInv'
<1> SUFFICES ASSUME HInv, [Next]_vars PROVE HInv'
  OBVIOUS
<1>1. CASE UNCHANGED vars
  <2>1. file' = file /\ scan' = scan /\ scans' = scans
    BY <1>1 DEF vars
  <2>2. BaselineOK(file)'
    BY <2>1 DEF HInv, BaselineOK
  <2> QED BY <2>1, <2>2, ZenonT(40) DEF HInv, ScanOK, Unignored, Unknown, Numbers
<1>2. CASE LoseBaseline
  <2>1. file' = Missing /\ scan' = scan /\ scans' = scans
    BY <1>2 DEF LoseBaseline
  <2>2. BaselineOK(file)'
    BY <2>1, MissingOK DEF BaselineOK
  <2> QED BY <2>1, <2>2, ZenonT(40) DEF HInv, ScanOK, Unignored, Unknown, Numbers
<1>3. CASE HistoryEnds
  BY <1>1, <1>3 DEF HistoryEnds
<1>4. ASSUME NEW j \in Jobs, Begin(j) PROVE HInv'
  BY <1>4, BeginOK
<1>5. ASSUME NEW j \in Jobs, ApplyIgnore(j) PROVE HInv'
  BY <1>5, ApplyIgnoreOK
<1>6. ASSUME NEW j \in Jobs, ApplyBaseline(j) PROVE HInv'
  BY <1>6, ApplyBaselineOK
<1>7. ASSUME NEW j \in Jobs, OpenBaseline(j) PROVE HInv'
  <2>1. BaselineOK(file)'
    BY <1>7, MissingOK DEF OpenBaseline, BaselineOK
  <2> QED BY <1>7, <2>1, MovesOn DEF OpenBaseline
<1>8. ASSUME NEW j \in Jobs, WriteBaseline(j) PROVE HInv'
  BY <1>8, WriteBaselineOK
<1>9. ASSUME NEW j \in Jobs, Report(j) PROVE HInv'
  BY <1>9, ReportOK
<1>10. ASSUME NEW j \in Jobs, IgnoreUnreadable(j) \/ BaselineRefused(j) \/ ReportFails(j) PROVE HInv'
  <2>1. Fail(j) /\ file' = file /\ scans' = scans
    BY <1>10 DEF IgnoreUnreadable, BaselineRefused, ReportFails
  <2>2. BaselineOK(file)'
    BY <2>1 DEF HInv, BaselineOK
  <2> QED BY <2>1, <2>2, FailOK
<1>11. ASSUME NEW j \in Jobs, SaveFails(j) \/ Kill(j) PROVE HInv'
  <2>1. Fail(j) /\ Torn(j) /\ scans' = scans
    BY <1>11 DEF SaveFails, Kill
  <2> QED BY <2>1, TornOK, FailOK
<1> QED
  BY <1>1, <1>2, <1>3, <1>4, <1>5, <1>6, <1>7, <1>8, <1>9, <1>10, <1>11 DEF Next

(* Every reachable state satisfies the inductive invariant.                 *)
THEOREM Invariance == Spec => []HInv
BY Initial, Preserved, PTL DEF Spec

(* The step, the flags and the tree of a scan keep their types, and what is *)
(* left of it is part of what its detectors found.                          *)
THEOREM TypeCorrect == Spec => []TypeOK
<1>1. HInv => TypeOK
  <2> SUFFICES ASSUME HInv PROVE TypeOK
    OBVIOUS
  <2>1. ASSUME NEW j \in Jobs PROVE scan[j].left \subseteq Collapse(scan[j].tree) \cup scan[j].tree
    <3>1. PICK s : s = scan[j] /\ ScanOK(s)
      BY DEF HInv
    <3>2. Unknown(s) \subseteq Unignored(s) /\ Unignored(s) \subseteq Collapse(s.tree)
      BY DEF Unknown, Unignored
    <3> QED BY <3>1, <3>2 DEF ScanOK, Steps, AfterDiff
  <2>2. \A tree : Collapse(tree) \subseteq tree
    BY DEF Collapse
  <2> QED BY <2>1, <2>2 DEF HInv, TypeOK, ScanOK, BaselineOK, Steps
<1> QED BY <1>1, Invariance, PTL

(* finalize applies a baseline only after ApplyBaselineDiffStrict has       *)
(* parsed it: no report is made against a torn one.                         *)
THEOREM ReportsTrustTheirBaseline == Spec => []NoTornBaseline
<1>1. HInv => NoTornBaseline
  BY DEF HInv, NoTornBaseline, ScanOK, AfterDiff, Reported, Refused
<1> QED BY <1>1, Invariance, PTL

(* The ignore rules and the baseline are applied to every occurrence by     *)
(* itself: what a report leaves out is ignored, or was detected before.     *)
THEOREM NothingNewIsHidden == Spec => []NewIsReported
<1>1. HInv => NewIsReported
  <2> SUFFICES ASSUME HInv, NEW j \in Jobs, Reported(j),
                      NEW o \in Collapse(scan[j].tree) \ scan[j].left,
                      ~Ignored(o, GroupIDs(Collapse(scan[j].tree)), scan[j].rules)
               PROVE  scan[j].use.baseline /\ Identity(o) \in Identities(scan[j].read.detected)
    BY DEF NewIsReported
  <2>1. PICK s : s = scan[j] /\ ScanOK(s)
    BY DEF HInv
  <2>2. o \in Unignored(s)
    BY <2>1 DEF Unignored, Numbers
  <2>3. s.step \in AfterDiff /\ o \notin s.left
    BY <2>1 DEF Reported, AfterDiff
  <2>4. s.use.baseline /\ o \notin Unknown(s) /\ BaselineOK(s.read)
    BY <2>1, <2>2, <2>3 DEF ScanOK
  <2>5. Known(s.read, o)
    BY <2>2, <2>4 DEF Unknown
  <2> QED BY <2>1, <2>4, <2>5, KnownWasDetected
<1> QED BY <1>1, Invariance, PTL

(* SaveBaseline lists every occurrence a first scan keeps, under the        *)
(* fingerprint known() looks up: none of them is reported as new again.     *)
THEOREM NothingSavedIsForgotten == Spec => []SavedStaysKnown
<1>1. HInv => SavedStaysKnown
  <2> SUFFICES ASSUME HInv, NEW j \in Jobs, Reported(j), ~scan[j].read.diffed,
                      NEW o \in scan[j].left, NEW p \in scan[j].read.kept, Identity(o) = Identity(p)
               PROVE  FALSE
    BY DEF SavedStaysKnown, Identities
  <2>1. PICK s : s = scan[j] /\ ScanOK(s)
    BY DEF HInv
  <2>2. s.step \in AfterDiff
    BY <2>1 DEF Reported, AfterDiff
  <2>3. s.use.baseline /\ BaselineOK(s.read)
    BY <2>1, <2>2 DEF ScanOK, Missing
  <2>4. s.read.kind = "current" /\ s.read.of = s.read.kept
    BY <2>1, <2>3 DEF BaselineOK
  <2>5. Known(s.read, o)
    BY <2>1, <2>4 DEF Known, Fingerprints, Identities
  <2>6. o \in Unknown(s)
    BY <2>1, <2>2, <2>3 DEF ScanOK
  <2> QED BY <2>5, <2>6 DEF Unknown
<1> QED BY <1>1, Invariance, PTL

(* stampPresentationGroupIDs numbers the groups before anything is          *)
(* suppressed: an id: rule copied from a report names the same group in     *)
(* every scan of the same code.                                             *)
THEOREM PositionalIdsAgree == Spec => []IdRulesKeepTheirGroup
<1>1. HInv => IdRulesKeepTheirGroup
  <2> SUFFICES ASSUME HInv, NEW i \in Jobs, NEW j \in Jobs, Reported(i), Reported(j),
                      scan[i].tree = scan[j].tree, NEW r \in Grouped(scan[i].left),
                      [by |-> "id", id |-> scan[i].ids[r]] \in scan[j].rules,
                      r \in Grouped(scan[j].left)
               PROVE  FALSE
    BY DEF IdRulesKeepTheirGroup
  <2>1. PICK s : s = scan[i] /\ ScanOK(s)
    BY DEF HInv
  <2>2. PICK t : t = scan[j] /\ ScanOK(t)
    BY DEF HInv
  <2>3. PICK n : n = Numbers(t)
    OBVIOUS
  <2>4. s.ids[r] = n[r]
    BY <2>1, <2>2, <2>3 DEF Reported, ScanOK, Numbers
  <2>5. PICK o \in t.left : o.rule = r
    BY <2>2 DEF Grouped
  <2>6. o \in Unignored(t)
    BY <2>2, <2>5 DEF Reported, ScanOK, AfterDiff, Unknown
  <2>7. Matches(o, n, [by |-> "id", id |-> n[r]])
    BY <2>5 DEF Matches
  <2> QED BY <2>1, <2>2, <2>3, <2>4, <2>6, <2>7 DEF Unignored, Ignored
<1> QED BY <1>1, Invariance, PTL
=============================================================================
