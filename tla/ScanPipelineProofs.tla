------------------------- MODULE ScanPipelineProofs -------------------------
(***************************************************************************)
(* That the status list of a scan tells what happened, for every set of    *)
(* command lines and working trees, any number of faults and of findings.  *)
(***************************************************************************)
EXTENDS ScanPipeline, TLAPS

Entry == [reason: Reasons, attempts: 1..2]
StatusType == [Registry -> Seq(Entry)]

(* The position of a stage in StageOrder. *)
Rank(s) ==
  CASE s = "discover" -> 1 [] s = "sweep" -> 2 [] s = "code" -> 3 [] s = "diff" -> 4
    [] s = "govulncheck" -> 5 [] s = "pip" -> 6 [] s = "npm" -> 7 [] s = "secrets" -> 8
    [] s = "semgrep" -> 9 [] s = "textscan" -> 10 [] s = "python-engine" -> 11
    [] s = "plugins" -> 12 [] s = "imports" -> 13 [] s = "finalize" -> 14 [] s = "exit" -> 15
    [] OTHER -> 16

LEMMA Ranks ==
  /\ Rank("discover") = 1 /\ Rank("sweep") = 2 /\ Rank("code") = 3 /\ Rank("diff") = 4
  /\ Rank("govulncheck") = 5 /\ Rank("pip") = 6 /\ Rank("npm") = 7 /\ Rank("secrets") = 8
  /\ Rank("semgrep") = 9 /\ Rank("textscan") = 10 /\ Rank("python-engine") = 11
  /\ Rank("plugins") = 12 /\ Rank("imports") = 13 /\ Rank("finalize") = 14 /\ Rank("exit") = 15
  /\ Rank("returned") = 16
BY DEF Rank

LEMMA StageNames ==
  Stages = {"discover", "sweep", "code", "diff", "govulncheck", "pip", "npm", "secrets",
            "semgrep", "textscan", "python-engine", "plugins", "imports", "finalize", "exit",
            "returned"}
<1>1. DOMAIN StageOrder = 1..16
  BY DEF StageOrder
<1>2. DOMAIN StageOrder = {1, 2, 3, 4, 5, 6, 7, 8, 9, 10, 11, 12, 13, 14, 15, 16}
  BY <1>1
<1> QED BY <1>2 DEF Stages, StageOrder

LEMMA ThenFollows ==
  \A a \in CodeAnalyzers : Then[a] \in Stages /\ Rank(Then[a]) = Rank(a) + 1 /\ Then[a] # "returned" /\ a # "returned"
BY StageNames, Ranks DEF CodeAnalyzers, Dependencies, FileScanners, Then

-----------------------------------------------------------------------------
(* What an entry adds to a status list.                                     *)
Told(list, n) == {list[n][i].reason : i \in DOMAIN list[n]}

LEMMA Appended ==
  ASSUME NEW s \in Seq(Entry), NEW e \in Entry
  PROVE  /\ Append(s, e) \in Seq(Entry) /\ Len(Append(s, e)) = Len(s) + 1
         /\ {Append(s, e)[i].reason : i \in DOMAIN Append(s, e)} = {s[i].reason : i \in DOMAIN s} \cup {e.reason}
<1>1. Append(s, e) \in Seq(Entry) /\ Len(Append(s, e)) = Len(s) + 1 /\ Len(s) \in Nat
  OBVIOUS
<1>2. DOMAIN s = 1..Len(s) /\ DOMAIN Append(s, e) = 1..(Len(s) + 1)
  OBVIOUS
<1>3. \A i \in 1..Len(s) : Append(s, e)[i] = s[i]
  OBVIOUS
<1>4. Append(s, e)[Len(s) + 1] = e
  OBVIOUS
<1> QED BY <1>1, <1>2, <1>3, <1>4

Adds(new, list, names, r) ==
  /\ new \in StatusType
  /\ \A n \in names : Len(new[n]) = Len(list[n]) + 1 /\ Told(new, n) = Told(list, n) \cup {r}
  /\ \A n \in Registry \ names : new[n] = list[n]

LEMMA WithTyped ==
  ASSUME NEW list \in StatusType, NEW names \in SUBSET Registry, NEW r \in Reasons
  PROVE  With(list, names, r) \in StatusType
<1> DEFINE e == [reason |-> r, attempts |-> 1]
<1>1. e \in Entry
  BY DEF Entry
<1>2. With(list, names, r) = [n \in Registry |-> IF n \in names THEN Append(list[n], e) ELSE list[n]]
  BY DEF With
<1> HIDE DEF e
<1>3. \A n \in Registry : list[n] \in Seq(Entry) /\ Append(list[n], e) \in Seq(Entry)
  BY <1>1, Appended DEF StatusType
<1> QED BY <1>2, <1>3 DEF StatusType

LEMMA WithAdds ==
  ASSUME NEW list \in StatusType, NEW names \in SUBSET Registry, NEW r \in Reasons
  PROVE  Adds(With(list, names, r), list, names, r)
<1> DEFINE e == [reason |-> r, attempts |-> 1]
<1>1. e \in Entry /\ e.reason = r
  BY DEF Entry
<1>2. \A n \in Registry : list[n] \in Seq(Entry)
  BY DEF StatusType
<1>3. \A n \in Registry : With(list, names, r)[n] = IF n \in names THEN Append(list[n], e) ELSE list[n]
  BY DEF With
<1> HIDE DEF e
<1>4. ASSUME NEW n \in names
      PROVE  /\ Len(With(list, names, r)[n]) = Len(list[n]) + 1
             /\ Told(With(list, names, r), n) = Told(list, n) \cup {r}
  <2>1. list[n] \in Seq(Entry) /\ With(list, names, r)[n] = Append(list[n], e)
    BY <1>2, <1>3
  <2> QED BY <1>1, <2>1, Appended DEF Told
<1> QED BY <1>3, <1>4, WithTyped DEF Adds

LEMMA ExceptAdds ==
  ASSUME NEW list \in StatusType, NEW a \in Registry, NEW r \in Reasons, NEW k \in 1..2
  PROVE  Adds([list EXCEPT ![a] = Append(@, [reason |-> r, attempts |-> k])], list, {a}, r)
<1> DEFINE e == [reason |-> r, attempts |-> k]
<1>1. e \in Entry /\ e.reason = r
  BY DEF Entry
<1> HIDE DEF e
<1>2. \A n \in Registry : list[n] \in Seq(Entry) /\ list = [m \in Registry |-> list[m]]
  BY DEF StatusType
<1>3. PICK new : new = [list EXCEPT ![a] = Append(@, e)]
  OBVIOUS
<1>4. Append(list[a], e) \in Seq(Entry) /\ Len(Append(list[a], e)) = Len(list[a]) + 1
  BY <1>1, <1>2, Appended
<1>5. new \in StatusType /\ new[a] = Append(list[a], e) /\ \A n \in Registry \ {a} : new[n] = list[n]
  BY <1>2, <1>3, <1>4 DEF StatusType
<1>6. Told(new, a) = Told(list, a) \cup {r}
  <2>1. list[a] \in Seq(Entry) /\ new[a] = Append(list[a], e)
    BY <1>2, <1>5
  <2> QED BY <1>1, <2>1, Appended DEF Told
<1> QED BY <1>3, <1>4, <1>5, <1>6 DEF Adds, e

(* Adding to no analyzer leaves the list.                                   *)
LEMMA NoneAdds ==
  ASSUME NEW list \in StatusType, NEW r PROVE Adds(list, list, {}, r)
BY DEF Adds

-----------------------------------------------------------------------------
(* The Python engine's lines: one for each check passed, in their order,    *)
(* and the done line last.                                                  *)
Line == [check: PythonChecks, reason: Reasons]
ChildRecord ==
  [state: {"none", "running", "exited"}, at: 1..5, printed: 0..MaxFindings, clean: BOOLEAN,
   protocol: 1..2, plan: [PythonChecks -> Plans], whole: SUBSET PythonChecks]
StreamRecord ==
  [findings: Nat, total: Nat, protocol: 0..2, sawDone: BOOLEAN, malformed: Nat, checks: Seq(Line)]
ChildType == child \in ChildRecord /\ stream \in StreamRecord
Explained(c, r) ==
  child.plan[c] \in {"work", "unreadable"} =>
    r \in {"ok", "unsupported_target", "dependency_missing", "execution_error"}
Order(i) == CASE i = 1 -> "auth" [] i = 2 -> "injection" [] OTHER -> "deps"
Lines ==
  /\ child.protocol < 2 => stream.checks = <<>>
  /\ child.protocol = 2 => Len(stream.checks) = IF child.at = 5 THEN 3 ELSE child.at - 1
  /\ \A i \in 1..Len(stream.checks) :
       stream.checks[i].check = Order(i) /\ Explained(Order(i), stream.checks[i].reason)
DoneLine ==
  /\ stream.sawDone <=> child.at = 5
  /\ stream.protocol = IF stream.sawDone THEN child.protocol ELSE 0
  /\ stream.sawDone => stream.total = child.printed
Shape == ChildType /\ Lines /\ DoneLine

LEMMA Numbers == AfterChecks = 4 /\ Printed = 5
BY DEF AfterChecks, Printed, CheckOrder

LEMMA NextCheck ==
  ASSUME ChildType, child.at < AfterChecks
  PROVE  Current = Order(child.at) /\ Current \in PythonChecks /\ child.at \in 1..3
<1>1. child.at \in {1, 2, 3}
  BY Numbers DEF ChildType, ChildRecord
<1> QED BY <1>1 DEF Current, CheckOrder, Order, PythonChecks

LEMMA ShapeKept ==
  ASSUME Shape, child' \in ChildRecord,
         child'.at = child.at, child'.printed = child.printed, child'.protocol = child.protocol,
         child'.plan = child.plan, child'.whole = child.whole, stream' = stream
  PROVE  Shape'
<1>1. ChildType' /\ DoneLine'
  BY DEF Shape, ChildType, ChildRecord, DoneLine
<1>2. \A c, r : Explained(c, r)' <=> Explained(c, r)
  BY DEF Explained
<1>3. Lines'
  BY <1>2 DEF Shape, Lines
<1> QED BY <1>1, <1>3 DEF Shape

LEMMA ShapeOfSpawn ==
  ASSUME NEW protocol \in 1..2, NEW plan \in [PythonChecks -> Plans], Spawn(protocol, plan)
  PROVE  Shape' /\ child'.state = "running" /\ child'.plan = plan /\ child'.protocol = protocol
<1>1. child' \in ChildRecord
      /\ child'.state = "running" /\ child'.plan = plan /\ child'.at = 1 /\ child'.protocol = protocol
  <2>1. NoChild \in ChildRecord /\ NoChild.at = 1
    BY FaultsAssumption DEF NoChild, ChildRecord, Plans
  <2>2. PICK a : a = [NoChild EXCEPT !.state = "running"]
    OBVIOUS
  <2>3. PICK b : b = [a EXCEPT !.protocol = protocol]
    OBVIOUS
  <2>4. child' = [b EXCEPT !.plan = plan]
    BY <2>2, <2>3 DEF Spawn
  <2>5. a \in ChildRecord /\ a.at = 1 /\ a.state = "running"
    BY <2>1, <2>2 DEF ChildRecord
  <2>6. b \in ChildRecord /\ b.at = 1 /\ b.state = "running" /\ b.protocol = protocol
    BY <2>3, <2>5 DEF ChildRecord
  <2> QED BY <2>4, <2>6 DEF ChildRecord
<1>2. stream' = EmptyStream
  BY DEF Spawn
<1>3. EmptyStream \in StreamRecord
      /\ EmptyStream.checks = <<>> /\ EmptyStream.sawDone = FALSE /\ EmptyStream.protocol = 0
  BY DEF EmptyStream, StreamRecord
<1>4. ChildType' /\ DoneLine'
  BY <1>1, <1>2, <1>3 DEF ChildType, ChildRecord, DoneLine
<1>5. Lines'
  BY <1>1, <1>2, <1>3 DEF Lines
<1> QED BY <1>1, <1>4, <1>5 DEF Shape

LEMMA ShapeOfStep ==
  ASSUME Shape, ChildStep \/ Kill
  PROVE  Shape' /\ child.state = "running" /\ child'.state \in {"running", "exited"}
         /\ child'.plan = child.plan /\ child'.protocol = child.protocol
<1> USE DEF Running
<1>0. ChildType
  BY DEF Shape
<1>1. ASSUME NEW clean \in BOOLEAN, Crash(clean) \/ Kill \/ Exit
      PROVE  Shape' /\ child.state = "running" /\ child'.state \in {"running", "exited"}
             /\ child'.plan = child.plan /\ child'.protocol = child.protocol
  <2>1. stream' = stream /\ child.state = "running"
    BY <1>1 DEF Crash, Kill, Exit
  <2>2. PICK b \in BOOLEAN : child' = [child EXCEPT !.state = "exited", !.clean = b]
    BY <1>1 DEF Crash, Kill, Exit
  <2>3. child' \in ChildRecord
        /\ child'.at = child.at /\ child'.printed = child.printed /\ child'.protocol = child.protocol
        /\ child'.plan = child.plan /\ child'.whole = child.whole /\ child'.state = "exited"
    BY <1>0, <2>2 DEF ChildType, ChildRecord
  <2> QED BY <2>1, <2>3, ShapeKept
<1>2. ASSUME NEW garbled \in BOOLEAN, PrintFinding(garbled)
      PROVE  Shape' /\ child.state = "running" /\ child'.state \in {"running", "exited"}
             /\ child'.plan = child.plan /\ child'.protocol = child.protocol
  <2>1. /\ child' \in ChildRecord
        /\ child'.at = child.at /\ child'.protocol = child.protocol
        /\ child'.plan = child.plan /\ child'.whole = child.whole /\ child'.state = "running"
        /\ child.state = "running" /\ child.at < 4
    BY <1>0, <1>2, FaultsAssumption, Numbers, SMTT(30) DEF ChildType, ChildRecord, StreamRecord, PrintFinding
  <2>2. /\ stream' \in StreamRecord
        /\ stream'.sawDone = stream.sawDone /\ stream'.protocol = stream.protocol /\ stream'.checks = stream.checks
        /\ stream'.total = stream.total
    BY <1>0, <1>2, SMTT(30) DEF ChildType, ChildRecord, StreamRecord, PrintFinding
  <2>3. ChildType' /\ DoneLine'
    BY <2>1, <2>2 DEF Shape, ChildType, ChildRecord, DoneLine
  <2>4. \A c, r : Explained(c, r)' <=> Explained(c, r)
    BY <2>1 DEF Explained
  <2>5. Lines'
    BY <2>1, <2>2, <2>4 DEF Shape, Lines
  <2> QED BY <2>1, <2>3, <2>5 DEF Shape
<1>3. ASSUME PrintDone
      PROVE  Shape' /\ child.state = "running" /\ child'.state \in {"running", "exited"}
             /\ child'.plan = child.plan /\ child'.protocol = child.protocol
  <2>1. /\ child' \in ChildRecord
        /\ child'.at = 5 /\ child.at = 4 /\ child'.protocol = child.protocol /\ child'.printed = child.printed
        /\ child'.plan = child.plan /\ child'.whole = child.whole /\ child'.state = "running"
        /\ child.state = "running"
    <3>1. child' = [child EXCEPT !.at = 5] /\ child.at = 4 /\ child.state = "running"
      BY <1>3, Numbers DEF PrintDone
    <3> QED BY <1>0, <3>1 DEF ChildType, ChildRecord
  <2>2. /\ stream' \in StreamRecord
        /\ stream'.sawDone = TRUE /\ stream'.protocol = child.protocol /\ stream'.checks = stream.checks
        /\ stream'.total = child.printed
    <3>1. PICK a : a = [stream EXCEPT !.sawDone = TRUE]
      OBVIOUS
    <3>2. PICK b : b = [a EXCEPT !.total = child.printed]
      OBVIOUS
    <3>3. stream' = [b EXCEPT !.protocol = child.protocol]
      BY <1>3, <3>1, <3>2 DEF PrintDone
    <3>4. child.printed \in Nat /\ child.protocol \in 0..2
      BY <1>0, FaultsAssumption DEF ChildType, ChildRecord
    <3>5. a \in StreamRecord /\ a.sawDone = TRUE /\ a.checks = stream.checks
      BY <1>0, <3>1 DEF ChildType, StreamRecord
    <3>6. b \in StreamRecord /\ b.sawDone = TRUE /\ b.checks = stream.checks /\ b.total = child.printed
      BY <3>2, <3>4, <3>5 DEF StreamRecord
    <3> QED BY <3>3, <3>4, <3>6 DEF StreamRecord
  <2>3. ChildType' /\ DoneLine'
    BY <2>1, <2>2 DEF Shape, ChildType, ChildRecord, DoneLine
  <2>4. \A c, r : Explained(c, r)' <=> Explained(c, r)
    BY <2>1 DEF Explained
  <2>5. Lines'
    BY <2>1, <2>2, <2>4 DEF Shape, Lines
  <2> QED BY <2>1, <2>3, <2>5 DEF Shape
<1>4. ASSUME NEW answer, NEW all \in BOOLEAN, EndCheck(answer, all)
      PROVE  Shape' /\ child.state = "running" /\ child'.state \in {"running", "exited"}
             /\ child'.plan = child.plan /\ child'.protocol = child.protocol
  <2>1. /\ Current = Order(child.at) /\ Current \in PythonChecks /\ child.at \in 1..3
        /\ answer \in Answers(Current) /\ child.state = "running"
    BY <1>0, <1>4, NextCheck DEF EndCheck
  <2>2. /\ child' \in ChildRecord
        /\ child'.at = child.at + 1 /\ child'.protocol = child.protocol /\ child'.printed = child.printed
        /\ child'.plan = child.plan /\ child'.state = "running"
    <3>1. PICK w : w = IF all THEN child.whole \cup {Current} ELSE child.whole
      OBVIOUS
    <3>2. PICK a : a = [child EXCEPT !.at = child.at + 1]
      OBVIOUS
    <3>3. child' = [a EXCEPT !.whole = w]
      BY <1>4, <3>1, <3>2 DEF EndCheck
    <3>4. w \in SUBSET PythonChecks
      BY <1>0, <2>1, <3>1 DEF ChildType, ChildRecord
    <3>5. a \in ChildRecord /\ a.at = child.at + 1 /\ a.protocol = child.protocol /\ a.plan = child.plan
          /\ a.state = "running" /\ a.printed = child.printed
      BY <1>0, <2>1, <3>2 DEF ChildType, ChildRecord
    <3> QED BY <3>3, <3>4, <3>5 DEF ChildRecord
  <2>3. answer \in Reasons
    BY <2>1 DEF Answers, Reasons, SkipReasons, FailReasons
  <2>4. [check |-> Current, reason |-> answer] \in Line
    BY <2>1, <2>3 DEF Line
  <2>5. PICK line : line = [check |-> Current, reason |-> answer]
    OBVIOUS
  <2>6. line \in Line /\ line.check = Current /\ line.reason = answer
    BY <2>4, <2>5
  <2>7. /\ stream' \in StreamRecord
        /\ stream'.sawDone = stream.sawDone /\ stream'.protocol = stream.protocol
        /\ stream'.total = stream.total
        /\ stream'.checks = IF child.protocol < 2 THEN stream.checks ELSE Append(stream.checks, line)
    <3>1. stream' = IF child.protocol < 2 THEN stream ELSE [stream EXCEPT !.checks = Append(stream.checks, line)]
      BY <1>4, <2>5 DEF EndCheck
    <3>2. Append(stream.checks, line) \in Seq(Line)
      BY <1>0, <2>6 DEF ChildType, StreamRecord
    <3> QED BY <1>0, <3>1, <3>2 DEF ChildType, StreamRecord
  <2>8. ChildType' /\ DoneLine'
    BY <2>1, <2>2, <2>7 DEF Shape, ChildType, ChildRecord, DoneLine
  <2>9. \A c, r : Explained(c, r) => Explained(c, r)'
    BY <2>2 DEF Explained
  <2> PICK cur : cur = Current
    OBVIOUS
  <2>10. Explained(cur, answer)'
    <3>1. child.plan[Current] \in {"work", "unreadable"} =>
            answer \in {"ok", "dependency_missing", "execution_error", "unsupported_target"}
      BY <2>1 DEF Answers
    <3> QED BY <2>2, <3>1 DEF Explained
  <2>11. Lines'
    <3>1. CASE child.protocol < 2
      BY <2>2, <2>7, <2>9, <3>1 DEF Shape, Lines
    <3>2. CASE ~(child.protocol < 2)
      <4>1. child.protocol = 2 /\ Len(stream.checks) = child.at - 1 /\ stream.checks \in Seq(Line)
        BY <1>0, <2>1, <3>2 DEF Shape, Lines, ChildType, ChildRecord, StreamRecord
      <4>2. PICK old : old = stream.checks
        OBVIOUS
      <4>3. stream'.checks = Append(old, line) /\ Len(stream'.checks) = child.at
        BY <2>1, <2>7, <3>2, <4>1, <4>2
      <4>4. \A i \in 1..(child.at - 1) : stream'.checks[i] = old[i]
        BY <2>1, <4>1, <4>2, <4>3
      <4>5. stream'.checks[child.at] = line
        BY <2>1, <4>1, <4>2, <4>3
      <4>6. ASSUME NEW i \in 1..child.at
            PROVE  (stream.checks[i].check = Order(i) /\ Explained(Order(i), stream.checks[i].reason))'
        <5>1. CASE i = child.at
          <6>1. stream'.checks[i].check = Order(i) /\ stream'.checks[i].reason = answer /\ Order(i) = cur
            BY <2>1, <2>6, <4>5, <5>1
          <6> QED BY <2>10, <6>1 DEF Explained
        <5>2. CASE i # child.at
          <6>1. i \in 1..Len(old) /\ stream'.checks[i] = old[i]
            BY <2>1, <4>1, <4>2, <4>4, <5>2
          <6>2. stream.checks[i].check = Order(i) /\ Explained(Order(i), stream.checks[i].reason)
            BY <4>2, <6>1 DEF Shape, Lines
          <6>3. Explained(Order(i), old[i].reason)'
            BY <2>9, <4>2, <6>2
          <6> QED BY <4>2, <6>1, <6>2, <6>3 DEF Explained
        <5> QED BY <5>1, <5>2
      <4> QED BY <2>1, <2>2, <4>1, <4>3, <4>6 DEF Lines
    <3> QED BY <3>1, <3>2
  <2> QED BY <2>1, <2>2, <2>8, <2>11 DEF Shape
<1> QED BY <1>1, <1>2, <1>3, <1>4 DEF ChildStep

-----------------------------------------------------------------------------
(* The inductive invariant of the scan.                                     *)

(* The allowlist is what git said, and the request budget ends the context  *)
(* in the sweep alone.                                                      *)
Context ==
  /\ scope.full \/ (DiffOn /\ cfg.code # "missing" /\ scope.files = GitDiff)
  /\ Rank(stage) <= 4 => scope.full
  /\ Rank(stage) <= 2 => ctx # "budget"
  /\ discovered.specErr => cfg.spec # "none"

(* A second attempt follows one transient failure.                          *)
Retries ==
  \A a \in Dependencies :
    /\ Rank(stage) < Rank(a) => tries[a] = <<>>
    /\ stage = a => \/ tries[a] = <<>>
                    \/ Len(tries[a]) = 1 /\ DependencySkip(a) = "run" /\ Transient(tries[a][1])

(* How many entries a base analyzer has so far.                             *)
Skip(a) == IF a \in Dependencies THEN DependencySkip(a) ELSE FileSkip(a)
Validated == IF Rank(stage) > 3 /\ CodeConfigured /\ ~CodeUsable THEN 1 ELSE 0
Unchanged(a) == IF DiffEmpty /\ a \in FileScanners /\ ~(a = "semgrep" /\ cfg.fast) THEN 1 ELSE 0
Own(a) == IF Rank(stage) > Rank(a) /\ Skip(a) # "recorded" THEN 1 ELSE 0
RecordedAt(n) == CASE n = "plugins" -> 12 [] n = "python-engine" -> 11 [] OTHER -> 2
Expected(n) ==
  IF n \in CodeAnalyzers THEN Validated + Unchanged(n) + Own(n)
  ELSE IF Rank(stage) > RecordedAt(n) THEN 1 ELSE 0
Counts == stage # "returned" => \A n \in BaseAnalyzers : Len(status[n]) = Expected(n)

(* The Python child and the entries of its checks.                          *)
ProcessOK ==
  /\ Shape
  /\ child.state # "none" => child.plan = PythonPlan /\ PythonSkip = "run"
  /\ child.state = "running" => stage = "python-engine"
  /\ Rank(stage) < 11 => child.state = "none"
Children ==
  \A n \in PythonChildren :
    /\ Len(status[n]) <= 1
    /\ status[n] # <<>> => child.state = "exited"
    /\ Rank(stage) <= 11 => status[n] = <<>>

(* What was not done is told: a Python check without a line of its own by   *)
(* its parent's failure.                                                    *)
MissedTold ==
  /\ Rank(stage) <= 11 => missed \cap PythonChildren = {}
  /\ \A n \in missed :
       \/ n \in Gaps
       \/ n \in PythonChildren /\ status[n] = <<>> /\ Entries("python-engine") \cap FailReasons # {}
       \/ Silent(n)

(* How a scan ends.                                                         *)
Once ==
  /\ \A a \in BaseAnalyzers :
       Len(status[a]) = IF RecordedTwice /\ a \in FileScanners /\ ~(a = "semgrep" /\ cfg.fast) THEN 2 ELSE 1
  /\ \A n \in PythonChildren : Len(status[n]) <= 1 /\ (status[n] # <<>> => child.state = "exited")
Ended ==
  /\ stage \notin {"exit", "returned"} => ~report
  /\ stage = "exit" => report
  /\ report => Once
  /\ stage # "returned" => exitCode = NoCode
  /\ Passed => /\ report /\ RequiredGaps = {}
               /\ "scanner_error" \in cfg.gates => ~HasFailure
               /\ "coverage_gap" \in cfg.gates => ConfiguredComplete

PInv ==
  /\ TypeOK /\ Context /\ Retries /\ Counts /\ ProcessOK /\ Children /\ MissedTold /\ Ended
  /\ PythonOkIsWhole

-----------------------------------------------------------------------------
LEMMA Analyzers ==
  /\ BaseAnalyzers \subseteq Registry /\ PythonChildren \subseteq Registry
  /\ BaseAnalyzers \cap PythonChildren = {} /\ Registry = BaseAnalyzers \cup PythonChildren
  /\ "python-engine" \in BaseAnalyzers \ CodeAnalyzers
  /\ CodeAnalyzers \subseteq BaseAnalyzers /\ FileScanners \subseteq CodeAnalyzers
  /\ Dependencies \subseteq CodeAnalyzers /\ FileScanners \cap Dependencies = {}
  /\ \A c \in PythonChecks : Child[c] \in PythonChildren
  /\ \A c, d \in PythonChecks : Child[c] = Child[d] => c = d
BY DEF BaseAnalyzers, CodeAnalyzers, Dependencies, FileScanners, PythonChildren, Registry, Child, PythonChecks

LEMMA RankTypes ==
  /\ \A s \in Stages : Rank(s) \in 1..16
  /\ \A a \in CodeAnalyzers : Rank(a) \in 5..10 /\ \A s \in Stages : Rank(s) = Rank(a) => s = a
  /\ \A s \in Stages : Rank(s) = 16 => s = "returned"
BY StageNames, Ranks DEF CodeAnalyzers, Dependencies, FileScanners

LEMMA EntriesTold ==
  /\ \A n : Entries(n) = Told(status, n)
  /\ Gaps = {n \in Registry : \E r \in Told(status, n) : IsGap(r)}
BY DEF Entries, Told, Gaps

LEMMA Empty ==
  ASSUME NEW s \in Seq(Entry)
  PROVE  /\ Len(s) = 0 <=> s = <<>>
         /\ Len(s) \in Nat
         /\ s = <<>> => {s[i].reason : i \in DOMAIN s} = {}
         /\ s # <<>> => s[Len(s)].reason \in {s[i].reason : i \in DOMAIN s}
<1>1. Len(s) \in Nat /\ DOMAIN s = 1..Len(s)
  OBVIOUS
<1>2. Len(s) = 0 <=> s = <<>>
  OBVIOUS
<1>3. s # <<>> => Len(s) \in DOMAIN s
  BY <1>1, <1>2
<1> QED BY <1>1, <1>2, <1>3

(* A step of Run that leaves the Python engine alone.                       *)
LEMMA Frame ==
  ASSUME PInv, cfg' = cfg, child' = child, stream' = stream, status' \in StatusType,
         \A n \in Registry : Told(status, n) \subseteq Told(status', n),
         \A n \in PythonChildren : status'[n] = status[n],
         "ok" \in Told(status', "python-engine") => "ok" \in Told(status, "python-engine"),
         ctx # "live" => ctx' = ctx, stage' \in Stages, Rank(stage) <= Rank(stage'),
         child.state = "running" => stage' = "python-engine", missed' \subseteq Registry,
         passedOver \subseteq passedOver',
         \A n \in missed' \ missed :
           n \in BaseAnalyzers /\ ((\E r \in Told(status', n) : IsGap(r)) \/ Silent(n)')
  PROVE  ProcessOK' /\ Children' /\ MissedTold' /\ PythonOkIsWhole'
<1>0. Rank(stage) \in 1..16 /\ Rank(stage') \in 1..16
  BY RankTypes DEF PInv, TypeOK
<1>1. ProcessOK'
  <2>1. Shape'
    BY ShapeKept DEF PInv, ProcessOK, Shape, ChildType
  <2>2. PythonPlan' = PythonPlan
    BY DEF PythonPlan, Requested, CodeConfigured, CodeUsable
  <2>3. PythonSkip' = PythonSkip
    BY DEF PythonSkip, CodeConfigured, CodeUsable, EngineOn
  <2> QED BY <1>0, <2>1, <2>2, <2>3 DEF PInv, ProcessOK
<1>2. Children'
  BY <1>0 DEF PInv, Children
<1>3. PythonOkIsWhole'
  <2>1. Entries("python-engine") = Told(status, "python-engine") /\ Entries("python-engine")' = Told(status', "python-engine")
    BY DEF Entries, Told
  <2> QED BY <2>1 DEF PInv, PythonOkIsWhole
<1>4. MissedTold'
  <2>1. Gaps' = {n \in Registry : \E r \in Told(status', n) : IsGap(r)}
    BY DEF Gaps, Entries, Told
  <2>2. Gaps \subseteq Gaps'
    BY <2>1, EntriesTold
  <2>3. Entries("python-engine") \subseteq Entries("python-engine")'
    BY Analyzers DEF Entries, Told
  <2>4. ASSUME NEW n, Silent(n) PROVE Silent(n)'
    BY <2>4 DEF Silent
  <2>5. ASSUME NEW n \in missed'
        PROVE  \/ n \in Gaps'
               \/ n \in PythonChildren /\ status'[n] = <<>> /\ Entries("python-engine")' \cap FailReasons # {}
               \/ Silent(n)'
    <3>1. CASE n \in missed
      BY <2>2, <2>3, <2>4, <3>1 DEF PInv, MissedTold
    <3>2. CASE n \notin missed
      BY <2>1, <3>2, Analyzers
    <3> QED BY <3>1, <3>2
  <2>6. Rank(stage') <= 11 => missed' \cap PythonChildren = {}
    BY <1>0, Analyzers DEF PInv, MissedTold
  <2> QED BY <2>5, <2>6 DEF MissedTold
<1> QED BY <1>1, <1>2, <1>3, <1>4

LEMMA FrameSame ==
  ASSUME PInv, cfg' = cfg, child' = child, stream' = stream, status' = status, missed' = missed,
         passedOver' = passedOver,
         ctx # "live" => ctx' = ctx, stage' \in Stages, Rank(stage) <= Rank(stage'),
         child.state = "running" => stage' = "python-engine"
  PROVE  ProcessOK' /\ Children' /\ MissedTold' /\ PythonOkIsWhole'
<1>1. status' \in StatusType /\ missed' \subseteq Registry
  BY DEF PInv, TypeOK, StatusType, Entry
<1>2. \A n : Told(status, n) = Told(status', n)
  BY DEF Told
<1>3. missed' \ missed = {} /\ passedOver \subseteq passedOver'
  OBVIOUS
<1> QED BY <1>1, <1>2, <1>3, Frame

LEMMA FrameWith ==
  ASSUME PInv, cfg' = cfg, child' = child, stream' = stream, passedOver \subseteq passedOver',
         NEW names \in SUBSET BaseAnalyzers, NEW r \in Reasons, Adds(status', status, names, r),
         NEW lost \in SUBSET BaseAnalyzers, missed' = missed \cup lost,
         \A n \in lost : (n \in names /\ IsGap(r)) \/ Silent(n)',
         "python-engine" \in names => r # "ok",
         ctx # "live" => ctx' = ctx, stage' \in Stages, Rank(stage) <= Rank(stage'),
         child.state = "running" => stage' = "python-engine"
  PROVE  /\ ProcessOK' /\ Children' /\ MissedTold' /\ PythonOkIsWhole'
         /\ status' \in StatusType /\ missed' \subseteq Registry
<1>2. status' \in StatusType /\ missed' \subseteq Registry
  BY Analyzers DEF PInv, TypeOK, Adds
<1>3. \A n \in names : Told(status', n) = Told(status, n) \cup {r}
  BY DEF Adds
<1>4. \A n \in Registry \ names : status'[n] = status[n]
  BY DEF Adds
<1>5. \A n \in Registry \ names : Told(status', n) = Told(status, n)
  BY <1>4 DEF Told
<1>6. \A n \in Registry : Told(status, n) \subseteq Told(status', n)
  BY <1>3, <1>5
<1>7. \A n \in PythonChildren : status'[n] = status[n]
  BY <1>4, Analyzers
<1>8. "ok" \in Told(status', "python-engine") => "ok" \in Told(status, "python-engine")
  BY <1>3, <1>5, Analyzers
<1>9. \A n \in missed' \ missed :
        n \in BaseAnalyzers /\ ((\E x \in Told(status', n) : IsGap(x)) \/ Silent(n)')
  BY <1>3
<1> QED BY <1>2, <1>6, <1>7, <1>8, <1>9, Frame

(* A step that leaves the flags, the scope and the attempts alone.          *)
LEMMA SameContext ==
  ASSUME PInv, cfg' = cfg, scope' = scope, discovered' = discovered, stage' \in Stages,
         Rank(stage) <= Rank(stage'), Rank(stage') <= 2 => ctx' # "budget"
  PROVE  Context'
<1>0. Rank(stage) \in 1..16 /\ Rank(stage') \in 1..16 /\ stage \in Stages
  BY RankTypes DEF PInv, TypeOK
<1> QED BY <1>0 DEF PInv, Context, DiffOn, CodeConfigured, GitDiff

LEMMA SameRetries ==
  ASSUME PInv, cfg' = cfg, scope' = scope, tries' = tries, stage' \in Stages, Rank(stage) <= Rank(stage')
  PROVE  Retries'
<1>0. Rank(stage) \in 1..16 /\ Rank(stage') \in 1..16 /\ stage \in Stages
  BY RankTypes DEF PInv, TypeOK
<1>2. ASSUME NEW a \in Dependencies
      PROVE  /\ Rank(stage') < Rank(a) => tries[a] = <<>>
             /\ stage' = a => \/ tries[a] = <<>>
                              \/ Len(tries[a]) = 1 /\ DependencySkip(a)' = "run" /\ Transient(tries[a][1])
  <2>1. DependencySkip(a)' = DependencySkip(a)
    BY DEF DependencySkip, CodeConfigured, CodeUsable
  <2>2. Rank(a) \in 5..10 /\ (Rank(stage) = Rank(a) => stage = a)
    BY <1>0, RankTypes, Analyzers
  <2> QED BY <1>0, <2>1, <2>2 DEF PInv, Retries
<1> QED BY <1>2 DEF Retries, Transient

(* The entries a step records are the ones its stages owe.                  *)
LEMMA Counted ==
  ASSUME PInv, stage # "returned", NEW names \in SUBSET BaseAnalyzers, NEW r \in Reasons,
         Adds(status', status, names, r),
         \A n \in BaseAnalyzers : Expected(n)' = Expected(n) + IF n \in names THEN 1 ELSE 0
  PROVE  Counts'
<1>1. status \in StatusType
  BY DEF PInv, TypeOK, StatusType, Entry
<1>2. \A n \in BaseAnalyzers : Len(status'[n]) = Len(status[n]) + IF n \in names THEN 1 ELSE 0
  <2>1. \A n \in BaseAnalyzers : Len(status[n]) \in Nat
    BY <1>1, Analyzers, Empty DEF StatusType
  <2>2. \A n \in names : Len(status'[n]) = Len(status[n]) + 1
    BY DEF Adds
  <2>3. \A n \in BaseAnalyzers \ names : status'[n] = status[n]
    BY Analyzers DEF Adds
  <2>4. ASSUME NEW n \in BaseAnalyzers PROVE Len(status'[n]) = Len(status[n]) + IF n \in names THEN 1 ELSE 0
    <3>1. CASE n \in names
      BY <2>2, <3>1
    <3>2. CASE n \notin names
      BY <2>1, <2>3, <3>2
    <3> QED BY <3>1, <3>2
  <2> QED BY <2>4
<1> QED BY <1>2 DEF PInv, Counts

(* Before the end there is no report and no exit code.                      *)
LEMMA Going ==
  ASSUME PInv, stage \notin {"exit", "returned"}, stage' \notin {"exit", "returned"},
         report' = report, exitCode' = exitCode
  PROVE  Ended'
BY DEF PInv, Ended, Passed, NoCode

LEMMA SpendTyped == ASSUME NEW b, faults \in 0..MaxFaults, Spend(b) PROVE faults' \in 0..MaxFaults
BY FaultsAssumption DEF Spend

(* What an analyzer passed over stays known.                                *)
Kept == passedOver \subseteq passedOver' /\ passedOver' \subseteq Registry /\ held' = held

(* A step that records one reason for some analyzers, and nothing else.     *)
LEMMA Records ==
  ASSUME PInv, NEW names \in SUBSET BaseAnalyzers, NEW r \in Reasons, NEW lost \in SUBSET BaseAnalyzers,
         cfg' = cfg, ctx' = ctx, discovered' = discovered, scope' = scope, tries' = tries, report' = report,
         exitCode' = exitCode, child' = child, stream' = stream, faults' \in 0..MaxFaults, Kept,
         Rank(stage) < 15, stage' \in Stages, Rank(stage') < 15, Rank(stage) <= Rank(stage'), Rank(stage) > 2,
         child.state = "running" => stage' = "python-engine", "python-engine" \in names => r # "ok",
         Adds(status', status, names, r), missed' = missed \cup lost,
         \A n \in lost : (n \in names /\ IsGap(r)) \/ Silent(n)',
         \A n \in BaseAnalyzers : Expected(n)' = Expected(n) + IF n \in names THEN 1 ELSE 0
  PROVE  PInv'
<1>1. /\ ProcessOK' /\ Children' /\ MissedTold' /\ PythonOkIsWhole'
      /\ status' \in StatusType /\ missed' \subseteq Registry
  BY FrameWith DEF Kept
<1>2. TypeOK'
  BY <1>1 DEF PInv, TypeOK, StatusType, Entry, Kept
<1>3. Context' /\ Retries'
  <2>1. Rank(stage) \in 1..16 /\ Rank(stage') \in 1..16
    BY RankTypes DEF PInv, TypeOK
  <2> QED BY <2>1, SameContext, SameRetries
<1>4. stage \notin {"exit", "returned"} /\ stage' \notin {"exit", "returned"}
  BY Ranks
<1>5. Counts'
  BY <1>4, Counted
<1>6. Ended'
  BY <1>4, Going
<1> QED BY <1>1, <1>2, <1>3, <1>5, <1>6 DEF PInv

(* A step that records nothing.                                             *)
LEMMA Passes ==
  ASSUME PInv, cfg' = cfg, ctx' = ctx, discovered' = discovered, scope' = scope, tries' = tries,
         report' = report, exitCode' = exitCode, child' = child, stream' = stream, faults' \in 0..MaxFaults,
         Kept, Rank(stage) < 15, stage' \in Stages, Rank(stage') < 15, Rank(stage) <= Rank(stage'), Rank(stage) > 2,
         child.state = "running" => stage' = "python-engine", status' = status, missed' = missed,
         \A n \in BaseAnalyzers : Expected(n)' = Expected(n)
  PROVE  PInv'
<1>1. status \in StatusType /\ "ok" \in Reasons
  BY DEF PInv, TypeOK, StatusType, Entry, Reasons
<1>2. Adds(status', status, {}, "ok")
  BY <1>1, NoneAdds
<1>3. \A n : Expected(n) \in Nat
  BY DEF Expected, Validated, Unchanged, Own
<1>4. \A n \in BaseAnalyzers : Expected(n)' = Expected(n) + IF n \in {} THEN 1 ELSE 0
  BY <1>3
<1>5. missed' = missed \cup {} /\ {} \in SUBSET BaseAnalyzers
  OBVIOUS
<1> QED BY <1>1, <1>2, <1>4, <1>5, Records

-----------------------------------------------------------------------------
(* One lemma for each step of Run, in the order of the stages.              *)
LEMMA AbortOK == ASSUME PInv, Abort PROVE PInv'
<1>1. /\ cfg' = cfg /\ ctx' = ctx /\ discovered' = discovered /\ scope' = scope /\ tries' = tries
      /\ status' = status /\ missed' = missed /\ passedOver' = passedOver /\ held' = held
      /\ report' = report /\ child' = child /\ stream' = stream
      /\ faults' = faults /\ stage = "discover" /\ stage' = "returned" /\ exitCode' = 2
  BY DEF Abort, pyVars
<1>2. TypeOK'
  BY <1>1, StageNames DEF PInv, TypeOK
<1>3. stage' \in Stages /\ Rank(stage) = 1 /\ Rank(stage') = 16 /\ status \in StatusType
  BY <1>1, StageNames, Ranks DEF PInv, TypeOK, StatusType, Entry
<1>4. Context' /\ Retries'
  BY <1>1, <1>3, SameContext, SameRetries
<1>5. child.state # "running"
  BY <1>1 DEF PInv, ProcessOK
<1>6. ProcessOK' /\ Children' /\ MissedTold' /\ PythonOkIsWhole'
  BY <1>1, <1>3, <1>5, FrameSame
<1>7. Counts' /\ Ended'
  BY <1>1 DEF PInv, Counts, Ended, Passed
<1> QED BY <1>2, <1>4, <1>6, <1>7 DEF PInv

LEMMA DiscoverOK ==
  ASSUME PInv, NEW endpoints \in BOOLEAN, NEW specErr \in BOOLEAN, Discover(endpoints, specErr) PROVE PInv'
<1>1. /\ cfg' = cfg /\ ctx' = ctx /\ scope' = scope /\ tries' = tries
      /\ status' = status /\ missed' = missed /\ passedOver' = passedOver /\ held' = held
      /\ report' = report /\ child' = child /\ stream' = stream
      /\ faults' = faults /\ stage = "discover" /\ stage' = "sweep" /\ exitCode' = exitCode
      /\ discovered' = [endpoints |-> endpoints, specErr |-> specErr]
  BY DEF Discover, pyVars
<1>2. TypeOK'
  BY <1>1, StageNames DEF PInv, TypeOK
<1>3. stage' \in Stages /\ Rank(stage) = 1 /\ Rank(stage') = 2 /\ status \in StatusType
  BY <1>1, StageNames, Ranks DEF PInv, TypeOK, StatusType, Entry
<1>4. Context' /\ Retries'
  <2>1. specErr => cfg.spec # "none"
    BY DEF Discover
  <2>2. Context'
    BY <1>1, <1>3, <2>1 DEF PInv, Context, DiffOn, CodeConfigured, GitDiff
  <2> QED BY <1>1, <1>3, <2>2, SameRetries
<1>5. child.state # "running"
  BY <1>1 DEF PInv, ProcessOK
<1>6. ProcessOK' /\ Children' /\ MissedTold' /\ PythonOkIsWhole'
  BY <1>1, <1>3, <1>5, FrameSame
<1>7. \A n \in BaseAnalyzers : Expected(n)' = Expected(n)
  BY <1>1, <1>3, RankTypes
     DEF Expected, RecordedAt, Validated, Unchanged, Own, Skip, DependencySkip, FileSkip, DiffEmpty,
         CodeConfigured, CodeUsable
<1>8. Counts'
  BY <1>1, <1>7 DEF PInv, Counts
<1>9. Ended'
  BY <1>1, Going
<1> QED BY <1>2, <1>4, <1>6, <1>8, <1>9 DEF PInv

LEMMA SweepOK ==
  ASSUME PInv, NEW refused \in BOOLEAN, NEW cut \in BOOLEAN, NEW probes \in {"none", "answered", "silent"},
         NEW unanswered \in SUBSET {"dast", "active-probes"}, Sweep(refused, cut, probes, unanswered)
  PROVE  PInv'
<1> DEFINE r1 == DastReason(ctx', refused)
           r2 == SpecReason
           r3 == ProbeReason(ctx', refused, probes)
           w1 == With(status, {"dast"}, r1)
           w2 == With(w1, {"spec"}, r2)
           w3 == With(w2, {"active-probes"}, r3)
<1>1. /\ cfg' = cfg /\ discovered' = discovered /\ scope' = scope /\ tries' = tries /\ report' = report
      /\ exitCode' = exitCode /\ child' = child /\ stream' = stream /\ stage = "sweep" /\ stage' = "code"
      /\ ctx' = IF refused /\ ctx = "live" THEN "budget" ELSE ctx
      /\ status' = w3
      /\ missed' = (IF cut \/ (cfg.url /\ ~discovered.endpoints) THEN {"dast"} ELSE {})
               \cup (IF discovered.specErr THEN {"spec"} ELSE {})
               \cup (IF cfg.active /\ (cut \/ probes = "silent") THEN {"active-probes"} ELSE {})
               \cup unanswered
      /\ passedOver' = passedOver \cup unanswered /\ held' = held
      /\ Spend((probes = "silent" /\ ~cut) \/ unanswered # {})
  BY DEF Sweep
<1>2. /\ refused => cut /\ cfg.maxRequests
      /\ cut => discovered.endpoints /\ (refused \/ ctx # "live")
      /\ probes # "none" => cfg.active /\ discovered.endpoints
  BY DEF Sweep
<1>3. r1 \in Reasons /\ r2 \in Reasons /\ r3 \in Reasons
  BY DEF DastReason, SpecReason, ProbeReason, Reasons, SkipReasons, FailReasons
<1>4. /\ {"dast"} \in SUBSET Registry /\ {"spec"} \in SUBSET Registry /\ {"active-probes"} \in SUBSET Registry
      /\ {"dast", "spec", "active-probes"} \subseteq BaseAnalyzers \ CodeAnalyzers
      /\ "python-engine" \notin {"dast", "spec", "active-probes"}
  BY DEF Registry, BaseAnalyzers, CodeAnalyzers, Dependencies, FileScanners
<1>5. status \in StatusType /\ ctx \in {"live", "deadline", "budget", "interrupted"} /\ ctx # "budget"
  <2>1. Rank(stage) = 2
    BY <1>1, Ranks
  <2>2. ctx # "budget"
    BY <2>1 DEF PInv, Context
  <2>3. ctx \in {"live", "deadline", "budget", "interrupted"}
    BY DEF PInv, TypeOK, ContextEnds
  <2>4. status \in StatusType
    BY DEF PInv, TypeOK, StatusType, Entry
  <2> QED BY <2>2, <2>3, <2>4
<1> HIDE DEF r1, r2, r3
<1>6. Adds(w1, status, {"dast"}, r1)
  BY <1>3, <1>4, <1>5, WithAdds
<1> HIDE DEF w1
<1>7. Adds(w2, w1, {"spec"}, r2)
  BY <1>3, <1>4, <1>6, WithAdds DEF Adds
<1> HIDE DEF w2
<1>8. Adds(w3, w2, {"active-probes"}, r3)
  BY <1>3, <1>4, <1>7, WithAdds DEF Adds
<1> HIDE DEF w3
<1>9. /\ status' \in StatusType
      /\ \A n \in Registry \ {"dast", "spec", "active-probes"} : status'[n] = status[n]
      /\ Told(status', "dast") = Told(status, "dast") \cup {r1} /\ Len(status'["dast"]) = Len(status["dast"]) + 1
      /\ Told(status', "spec") = Told(status, "spec") \cup {r2} /\ Len(status'["spec"]) = Len(status["spec"]) + 1
      /\ Told(status', "active-probes") = Told(status, "active-probes") \cup {r3}
      /\ Len(status'["active-probes"]) = Len(status["active-probes"]) + 1
  <2>1. \A n \in Registry \ {"dast", "spec", "active-probes"} : w1[n] = status[n] /\ w2[n] = w1[n] /\ w3[n] = w2[n]
    BY <1>6, <1>7, <1>8 DEF Adds
  <2>2. w3["dast"] = w1["dast"] /\ w2["spec"] = w3["spec"] /\ w1["spec"] = status["spec"]
        /\ w1["active-probes"] = status["active-probes"] /\ w2["active-probes"] = w1["active-probes"]
    <3>1. w2["dast"] = w1["dast"] /\ w3["dast"] = w2["dast"]
      BY <1>4, <1>7, <1>8 DEF Adds
    <3>2. w3["spec"] = w2["spec"] /\ w1["spec"] = status["spec"]
      BY <1>4, <1>6, <1>8 DEF Adds
    <3>3. w1["active-probes"] = status["active-probes"] /\ w2["active-probes"] = w1["active-probes"]
      BY <1>4, <1>6, <1>7 DEF Adds
    <3> QED BY <3>1, <3>2, <3>3
  <2>3. Told(w3, "dast") = Told(w1, "dast") /\ Told(w2, "spec") = Told(w3, "spec") /\ Told(w1, "spec") = Told(status, "spec")
        /\ Told(w2, "active-probes") = Told(status, "active-probes")
    BY <2>2 DEF Told
  <2>4. Told(w1, "dast") = Told(status, "dast") \cup {r1} /\ Len(w1["dast"]) = Len(status["dast"]) + 1
    BY <1>6 DEF Adds
  <2>5. Told(w2, "spec") = Told(w1, "spec") \cup {r2} /\ Len(w2["spec"]) = Len(w1["spec"]) + 1
    BY <1>7 DEF Adds
  <2>6. Told(w3, "active-probes") = Told(w2, "active-probes") \cup {r3} /\ Len(w3["active-probes"]) = Len(w2["active-probes"]) + 1
    BY <1>8 DEF Adds
  <2>7. w3 \in StatusType
    BY <1>8 DEF Adds
  <2> QED BY <1>1, <2>1, <2>2, <2>3, <2>4, <2>5, <2>6, <2>7
<1>10. ASSUME NEW n \in missed'
       PROVE  n \in BaseAnalyzers /\ ((\E r \in Told(status', n) : IsGap(r)) \/ Silent(n)')
  <2>0. n \in unanswered => Silent(n)'
    BY <1>1 DEF Silent
  <2>1. CASE n = "dast"
    <3>1. IsGap(r1) \/ Silent("dast")'
      BY <1>1, <1>2, <1>5, <1>10, <2>0, <2>1 DEF r1, DastReason, Silent, IsGap, Class
    <3> QED BY <1>4, <1>9, <2>1, <3>1
  <2>2. CASE n = "spec"
    <3>1. discovered.specErr /\ cfg.spec # "none"
      BY <1>1, <1>10, <2>2 DEF PInv, Context
    <3>2. IsGap(r2)
      BY <3>1 DEF r2, SpecReason, IsGap, Class
    <3> QED BY <1>4, <1>9, <2>2, <3>2
  <2>3. CASE n = "active-probes"
    <3>1. IsGap(r3) \/ Silent("active-probes")'
      BY <1>1, <1>2, <1>5, <1>10, <2>0, <2>3 DEF r3, ProbeReason, Silent, IsGap, Class
    <3> QED BY <1>4, <1>9, <2>3, <3>1
  <2> QED BY <1>1, <1>10, <2>1, <2>2, <2>3
<1>11. stage' \in Stages /\ Rank(stage) = 2 /\ Rank(stage') = 3
  BY <1>1, StageNames, Ranks
<1>12. Context' /\ Retries'
  BY <1>1, <1>11, SameContext, SameRetries
<1>13. child.state # "running"
  BY <1>1 DEF PInv, ProcessOK
<1>14. missed' \subseteq Registry /\ passedOver \subseteq passedOver' /\ passedOver' \subseteq Registry
  <2>1. unanswered \subseteq Registry
    BY <1>4
  <2> QED BY <1>1, <1>10, <2>1, Analyzers DEF PInv, TypeOK
<1>15. ProcessOK' /\ Children' /\ MissedTold' /\ PythonOkIsWhole'
  <2>1. \A n \in Registry : Told(status, n) \subseteq Told(status', n)
    <3>1. ASSUME NEW n \in Registry \ {"dast", "spec", "active-probes"} PROVE Told(status', n) = Told(status, n)
      BY <1>9 DEF Told
    <3> QED BY <1>9, <3>1
  <2>2. \A n \in PythonChildren : status'[n] = status[n]
    BY <1>4, <1>9, Analyzers
  <2>3. Told(status', "python-engine") = Told(status, "python-engine")
    BY <1>4, <1>9, Analyzers DEF Told
  <2>4. ctx # "live" => ctx' = ctx
    BY <1>1
  <2> QED BY <1>1, <1>9, <1>10, <1>11, <1>13, <1>14, <2>1, <2>2, <2>3, <2>4, Frame
<1>16. Counts'
  <2>1. ASSUME NEW n \in BaseAnalyzers \ CodeAnalyzers PROVE Len(status'[n]) = Expected(n)'
    <3>1. n \in {"dast", "spec", "active-probes", "python-engine", "plugins"}
      BY DEF BaseAnalyzers, CodeAnalyzers
    <3>2. Len(status[n]) = 0
      BY <1>1, <1>11 DEF PInv, Counts, Expected, RecordedAt
    <3>3. Len(status'[n]) = IF n \in {"python-engine", "plugins"} THEN 0 ELSE 1
      BY <1>4, <1>9, <3>1, <3>2, Analyzers
    <3> QED BY <1>11, <3>1, <3>3 DEF Expected, RecordedAt
  <2>2. ASSUME NEW n \in CodeAnalyzers PROVE Len(status'[n]) = Expected(n)'
    <3>1. Len(status[n]) = Expected(n) /\ status'[n] = status[n]
      BY <1>1, <1>4, <1>9, Analyzers DEF PInv, Counts
    <3>2. Rank(n) \in 5..10
      BY RankTypes
    <3>3. Expected(n)' = Expected(n)
      BY <1>1, <1>11, <3>2 DEF Expected, Validated, Unchanged, Own, DiffEmpty
    <3> QED BY <3>1, <3>3
  <2> QED BY <2>1, <2>2 DEF Counts
<1>17. TypeOK'
  <2>1. faults' \in 0..MaxFaults
    BY <1>1, SpendTyped DEF PInv, TypeOK
  <2>2. status' \in [Registry -> Seq([reason: Reasons, attempts: 1..2])]
    BY <1>9 DEF StatusType, Entry
  <2>3. ctx' \in {"live"} \cup ContextEnds
    BY <1>1, <1>5 DEF ContextEnds
  <2> QED BY <1>1, <1>11, <1>14, <2>1, <2>2, <2>3 DEF PInv, TypeOK
<1>18. Ended'
  BY <1>1, Going
<1> QED BY <1>12, <1>15, <1>16, <1>17, <1>18 DEF PInv

(* Only under a bare --diff does the allowlist leave out what was touched.   *)
LEMMA OverlookedWhenBare ==
  ASSUME PInv, DiffOn, NEW a, NEW s, s.full \/ s.files = GitDiff, Overlooked(a, s)
  PROVE  cfg.diff = "bare"
<1>1. ~s.full /\ ~((Reads(a) \cap Touched) \subseteq GitDiff)
  BY DEF Overlooked
<1>2. cfg.diff \in {"ref", "staged"} => GitDiff = Touched
  BY DEF GitDiff, Touched
<1>3. cfg.diff \in {"bare", "ref", "staged"}
  BY ScansAssumption DEF DiffOn, PInv, TypeOK, ScanType
<1> QED BY <1>1, <1>2, <1>3

LEMMA OverlookedSilent ==
  ASSUME PInv, NEW a \in CodeAnalyzers, Overlooked(a, scope) PROVE Silent(a)
<1>1. ~scope.full /\ DiffOn /\ scope.files = GitDiff
  BY DEF PInv, Context, Overlooked
<1> QED BY <1>1, OverlookedWhenBare DEF Silent

LEMMA ValidateCodeOK == ASSUME PInv, ValidateCode PROVE PInv'
<1> DEFINE failed == IF CodeConfigured /\ ~CodeUsable THEN CodeAnalyzers ELSE {}
<1>1. /\ cfg' = cfg /\ ctx' = ctx /\ discovered' = discovered /\ scope' = scope /\ tries' = tries /\ report' = report
      /\ exitCode' = exitCode /\ child' = child /\ stream' = stream /\ faults' = faults
      /\ stage = "code" /\ stage' = "diff"
      /\ status' = With(status, failed, "input_error") /\ missed' = missed \cup failed
      /\ passedOver' = passedOver /\ held' = held
  BY DEF ValidateCode, pyVars
<1>2. failed \in SUBSET BaseAnalyzers /\ failed \in SUBSET Registry /\ "python-engine" \notin failed
  BY Analyzers
<1>3. "input_error" \in Reasons /\ IsGap("input_error")
  BY DEF Reasons, FailReasons, IsGap, Class
<1>4. Adds(status', status, failed, "input_error")
  BY <1>1, <1>2, <1>3, WithAdds DEF PInv, TypeOK, StatusType, Entry
<1>5. Rank(stage) = 3 /\ Rank(stage') = 4 /\ stage' \in Stages
  BY <1>1, Ranks, StageNames
<1>6. ASSUME NEW n \in BaseAnalyzers PROVE Expected(n)' = Expected(n) + IF n \in failed THEN 1 ELSE 0
  <2>1. CASE n \in CodeAnalyzers
    <3>1. Rank(n) \in 5..10
      BY <2>1, RankTypes
    <3>2. Own(n) = 0 /\ Own(n)' = 0 /\ Unchanged(n)' = Unchanged(n) /\ Unchanged(n) \in {0, 1}
      BY <1>1, <1>5, <3>1 DEF Own, Unchanged, DiffEmpty
    <3>3. Validated = 0 /\ Validated' = IF CodeConfigured /\ ~CodeUsable THEN 1 ELSE 0
      BY <1>1, <1>5 DEF Validated, CodeConfigured, CodeUsable
    <3> QED BY <2>1, <3>2, <3>3 DEF Expected
  <2>2. CASE n \notin CodeAnalyzers
    BY <1>5, <2>2 DEF Expected, RecordedAt
  <2> QED BY <2>1, <2>2
<1>7. child.state # "running" /\ faults' \in 0..MaxFaults /\ Kept
  BY <1>1 DEF PInv, ProcessOK, TypeOK, Kept
<1> HIDE DEF failed
<1> QED BY <1>1, <1>2, <1>3, <1>4, <1>5, <1>6, <1>7, Records

LEMMA NoDiffOK == ASSUME PInv, NoDiff PROVE PInv'
<1>1. /\ cfg' = cfg /\ ctx' = ctx /\ discovered' = discovered /\ scope' = scope /\ tries' = tries /\ report' = report
      /\ exitCode' = exitCode /\ child' = child /\ stream' = stream /\ faults' = faults
      /\ stage = "diff" /\ stage' = "govulncheck" /\ status' = status /\ missed' = missed
      /\ passedOver' = passedOver /\ held' = held
  BY DEF NoDiff, pyVars
<1>3. Rank(stage) = 4 /\ Rank(stage') = 5 /\ stage' \in Stages
  BY <1>1, Ranks, StageNames
<1>4. ASSUME NEW n \in BaseAnalyzers PROVE Expected(n)' = Expected(n)
  <2>1. n \in CodeAnalyzers => Rank(n) \in 5..10
    BY RankTypes
  <2> QED BY <1>1, <1>3, <2>1
       DEF Expected, RecordedAt, Own, Unchanged, DiffEmpty, Validated, CodeConfigured, CodeUsable
<1>7. child.state # "running" /\ faults' \in 0..MaxFaults /\ Kept
  BY <1>1 DEF PInv, ProcessOK, TypeOK, Kept
<1> QED BY <1>1, <1>3, <1>4, <1>7, Passes

LEMMA ResolveDiffOK == ASSUME PInv, NEW listed \in BOOLEAN, ResolveDiff(listed) PROVE PInv'
<1> DEFINE skipped == IF listed /\ GitDiff = {}
                        THEN {"secrets", "textscan"} \cup (IF cfg.fast THEN {} ELSE {"semgrep"}) ELSE {}
           lost == {a \in skipped : Overlooked(a, scope')}
<1>1. /\ cfg' = cfg /\ ctx' = ctx /\ discovered' = discovered /\ tries' = tries /\ report' = report
      /\ exitCode' = exitCode /\ child' = child /\ stream' = stream /\ stage = "diff" /\ stage' = "govulncheck"
      /\ scope' = IF listed THEN [full |-> FALSE, files |-> GitDiff] ELSE scope
      /\ DiffOn /\ (listed => cfg.code # "missing")
      /\ status' = With(status, skipped, "diff_unchanged") /\ missed' = missed \cup lost
      /\ passedOver' = passedOver /\ held' = held
      /\ Spend(~listed /\ ctx = "live" /\ cfg.code # "missing")
  BY DEF ResolveDiff
<1>2. /\ skipped \in SUBSET BaseAnalyzers /\ skipped \in SUBSET Registry /\ skipped \subseteq FileScanners
      /\ "python-engine" \notin skipped /\ lost \in SUBSET BaseAnalyzers /\ lost \subseteq CodeAnalyzers
  <2>1. skipped \subseteq FileScanners
    BY DEF FileScanners
  <2> QED BY <2>1, Analyzers
<1>3. "diff_unchanged" \in Reasons /\ status \in StatusType
  BY DEF Reasons, SkipReasons, PInv, TypeOK, StatusType, Entry
<1>4. Rank(stage) = 4 /\ Rank(stage') = 5 /\ stage' \in Stages
  BY <1>1, Ranks, StageNames
<1>5. scope.full /\ scope \in [full: BOOLEAN, files: SUBSET FileKinds]
  BY <1>4 DEF PInv, Context, TypeOK
<1>6. child.state # "running" /\ faults' \in 0..MaxFaults /\ passedOver \subseteq passedOver'
  BY <1>1, SpendTyped DEF PInv, ProcessOK, TypeOK
<1>7. Adds(status', status, skipped, "diff_unchanged")
  BY <1>1, <1>2, <1>3, WithAdds
<1>8. ASSUME NEW n \in lost PROVE Silent(n)'
  <2>1. cfg.diff = "bare"
    BY <1>1, <1>5, <1>8, OverlookedWhenBare
  <2> QED BY <1>1, <1>2, <1>8, <2>1 DEF Silent
<1>9. /\ ProcessOK' /\ Children' /\ MissedTold' /\ PythonOkIsWhole'
      /\ status' \in StatusType /\ missed' \subseteq Registry
  <2> HIDE DEF skipped, lost
  <2>1. /\ cfg' = cfg /\ child' = child /\ stream' = stream /\ missed' = missed \cup lost
        /\ ctx # "live" => ctx' = ctx
    BY <1>1
  <2>2. stage' \in Stages /\ Rank(stage) <= Rank(stage') /\ (child.state = "running" => stage' = "python-engine")
    BY <1>4, <1>6
  <2>3. PICK r : r = "diff_unchanged"
    OBVIOUS
  <2>4. r \in Reasons /\ r # "ok" /\ Adds(status', status, skipped, r)
    BY <1>3, <1>7, <2>3
  <2>5. \A n \in lost : (n \in skipped /\ IsGap(r)) \/ Silent(n)'
    BY <1>8
  <2>6. skipped \in SUBSET BaseAnalyzers /\ lost \in SUBSET BaseAnalyzers /\ passedOver \subseteq passedOver'
    BY <1>2, <1>6
  <2> QED BY <2>1, <2>2, <2>4, <2>5, <2>6, FrameWith
<1>10. scope' \in [full: BOOLEAN, files: SUBSET FileKinds] /\ (scope'.full \/ (listed /\ scope'.files = GitDiff))
  BY <1>1, <1>5 DEF GitDiff
<1>11. Context'
  BY <1>1, <1>4, <1>10, SMTT(60) DEF PInv, Context, DiffOn, CodeConfigured, GitDiff
<1>12. Retries'
  <2>1. ASSUME NEW a \in Dependencies PROVE tries[a] = <<>>
    <3>1. Rank(a) \in 5..10
      BY RankTypes, Analyzers
    <3> QED BY <1>4, <3>1 DEF PInv, Retries
  <2> QED BY <1>1, <2>1 DEF Retries
<1>13. ASSUME NEW n \in BaseAnalyzers PROVE Expected(n)' = Expected(n) + IF n \in skipped THEN 1 ELSE 0
  <2>1. CASE n \in CodeAnalyzers
    <3>1. Rank(n) \in 5..10
      BY <2>1, RankTypes
    <3>2. Own(n) = 0 /\ Own(n)' = 0 /\ Validated' = Validated /\ Validated \in {0, 1}
      BY <1>1, <1>4, <3>1 DEF Own, Validated, CodeConfigured, CodeUsable
    <3>3. Unchanged(n) = 0
      BY <1>5 DEF Unchanged, DiffEmpty
    <3>4. DiffEmpty' <=> (listed /\ GitDiff = {})
      BY <1>1, <1>5 DEF DiffEmpty
    <3>5. Unchanged(n)' = IF n \in skipped THEN 1 ELSE 0
      BY <1>1, <3>4 DEF Unchanged, FileScanners
    <3> QED BY <2>1, <3>2, <3>3, <3>5 DEF Expected
  <2>2. CASE n \notin CodeAnalyzers
    BY <1>2, <1>4, <2>2, Analyzers DEF Expected, RecordedAt
  <2> QED BY <2>1, <2>2
<1>14. Counts'
  <2> HIDE DEF skipped
  <2> QED BY <1>1, <1>2, <1>3, <1>7, <1>13, Counted
<1>15. TypeOK'
  BY <1>1, <1>4, <1>6, <1>9, <1>10 DEF PInv, TypeOK, StatusType, Entry
<1>16. Ended'
  BY <1>1, Going
<1> QED BY <1>9, <1>11, <1>12, <1>14, <1>15, <1>16 DEF PInv

-----------------------------------------------------------------------------
(* A code analyzer's own stage adds its entry, unless it is there already.  *)
LEMMA StageDone ==
  ASSUME NEW a \in CodeAnalyzers, stage = a, stage' = Then[a], cfg' = cfg, scope' = scope,
         NEW n \in BaseAnalyzers
  PROVE  Expected(n)' = Expected(n) + IF n = a /\ Skip(a) # "recorded" THEN 1 ELSE 0
<1>1. Rank(stage) \in 5..10 /\ Rank(stage') = Rank(stage) + 1 /\ Rank(stage) = Rank(a)
  BY RankTypes, ThenFollows
<1>2. CASE n \in CodeAnalyzers
  <2>1. Rank(n) \in 5..10 /\ (Rank(n) = Rank(a) => n = a)
    <3>1. CodeAnalyzers \subseteq Stages
      BY StageNames DEF CodeAnalyzers, Dependencies, FileScanners
    <3> QED BY <1>2, <3>1, RankTypes
  <2>2. Validated' = Validated /\ Validated \in {0, 1} /\ Unchanged(n)' = Unchanged(n) /\ Unchanged(n) \in {0, 1}
    BY <1>1 DEF Validated, Unchanged, DiffEmpty, CodeConfigured, CodeUsable
  <2>3. Skip(n)' = Skip(n)
    BY DEF Skip, DependencySkip, FileSkip, DiffEmpty, CodeConfigured, CodeUsable
  <2>4. Own(n)' = Own(n) + IF n = a /\ Skip(a) # "recorded" THEN 1 ELSE 0
    BY <1>1, <2>1, <2>3 DEF Own
  <2>5. Own(n) \in {0, 1}
    BY DEF Own
  <2> QED BY <1>2, <2>2, <2>4, <2>5 DEF Expected
<1>3. CASE n \notin CodeAnalyzers
  BY <1>1, <1>3 DEF Expected, RecordedAt
<1> QED BY <1>2, <1>3

LEMMA SkipDependencyOK == ASSUME PInv, NEW a \in Dependencies, SkipDependency(a) PROVE PInv'
<1>0. PICK why : why = DependencySkip(a)
  OBVIOUS
<1>1. /\ cfg' = cfg /\ ctx' = ctx /\ discovered' = discovered /\ scope' = scope /\ tries' = tries /\ report' = report
      /\ exitCode' = exitCode /\ child' = child /\ stream' = stream /\ faults' = faults
      /\ stage = a /\ stage' = Then[a] /\ why # "run"
      /\ status' = IF why = "recorded" THEN status ELSE With(status, {a}, why)
      /\ missed' = IF why = "dependency_missing" \/ (why = "diff_unchanged" /\ Overlooked(a, scope))
                     THEN missed \cup {a} ELSE missed
      /\ passedOver' = passedOver /\ held' = held
  BY <1>0 DEF SkipDependency, pyVars
<1>2. a \in CodeAnalyzers /\ a \in BaseAnalyzers /\ a \in Registry /\ a # "python-engine" /\ Skip(a) = why
  BY <1>0, Analyzers DEF Skip
<1>3. Rank(stage) \in 5..10 /\ Rank(stage') = Rank(stage) + 1 /\ stage' \in Stages
  BY <1>1, <1>2, RankTypes, ThenFollows
<1>4. child.state # "running" /\ faults' \in 0..MaxFaults /\ Kept
  BY <1>1, <1>3, Ranks, SMTT(30) DEF PInv, ProcessOK, TypeOK, Kept
<1>5. why \in Reasons \cup {"recorded", "run"}
  BY <1>0 DEF DependencySkip, Reasons, SkipReasons
<1>6. \A n \in BaseAnalyzers : Expected(n)' = Expected(n) + IF n = a /\ why # "recorded" THEN 1 ELSE 0
  BY <1>1, <1>2, StageDone
<1>7. CASE why = "recorded"
  <2>1. status' = status /\ missed' = missed
    BY <1>1, <1>7
  <2>2. \A n : Expected(n) \in Nat
    BY DEF Expected, Validated, Unchanged, Own
  <2>3. \A n \in BaseAnalyzers : Expected(n)' = Expected(n)
    BY <1>6, <1>7, <2>2
  <2> QED BY <1>1, <1>3, <1>4, <2>1, <2>3, Passes
<1>8. CASE why # "recorded"
  <2>1. Adds(status', status, {a}, why) /\ why \in Reasons
    BY <1>1, <1>2, <1>5, <1>8, WithAdds DEF PInv, TypeOK, StatusType, Entry
  <2>2. PICK lost : lost = IF why = "dependency_missing" \/ (why = "diff_unchanged" /\ Overlooked(a, scope))
                            THEN {a} ELSE {}
    OBVIOUS
  <2>3. missed' = missed \cup lost /\ lost \in SUBSET BaseAnalyzers
    BY <1>1, <1>2, <2>2
  <2>4. ASSUME NEW n \in lost PROVE (n \in {a} /\ IsGap(why)) \/ Silent(n)'
    <3>1. n = a
      BY <2>2
    <3>2. CASE why = "dependency_missing"
      BY <3>1, <3>2 DEF IsGap, Class
    <3>3. CASE why # "dependency_missing"
      <4>1. Overlooked(a, scope)
        BY <2>2, <2>4, <3>3
      <4>2. Silent(a)
        BY <1>2, <4>1, OverlookedSilent
      <4> QED BY <1>1, <1>2, <3>1, <4>2, Analyzers DEF Silent
    <3> QED BY <3>2, <3>3
  <2>5. \A n \in BaseAnalyzers : Expected(n)' = Expected(n) + IF n \in {a} THEN 1 ELSE 0
    BY <1>6, <1>8
  <2>6. {a} \in SUBSET BaseAnalyzers /\ "python-engine" \notin {a}
    BY <1>2
  <2>7. Rank(stage) < 15 /\ Rank(stage') < 15 /\ Rank(stage) <= Rank(stage') /\ Rank(stage) > 2
    BY <1>3
  <2>8. cfg' = cfg /\ ctx' = ctx /\ discovered' = discovered /\ scope' = scope /\ tries' = tries /\ report' = report
        /\ exitCode' = exitCode /\ child' = child /\ stream' = stream
    BY <1>1
  <2> QED BY <1>3, <1>4, <2>1, <2>3, <2>4, <2>5, <2>6, <2>7, <2>8, Records
<1> QED BY <1>7, <1>8

(* The entry of a code analyzer that ran.                                   *)
LEMMA StageRecords ==
  ASSUME PInv, NEW a \in CodeAnalyzers, NEW r \in Reasons, NEW lost \in SUBSET {a}, Skip(a) # "recorded",
         stage = a, stage' = Then[a], cfg' = cfg, ctx' = ctx, discovered' = discovered, scope' = scope,
         tries' = tries, report' = report, exitCode' = exitCode, child' = child, stream' = stream,
         faults' \in 0..MaxFaults, Adds(status', status, {a}, r), missed' = missed \cup lost, held' = held,
         NEW over \in SUBSET {a}, passedOver' = passedOver \cup over,
         lost = {} \/ IsGap(r) \/ Silent(a) \/ over = {a}
  PROVE  PInv'
<1>1. a \in BaseAnalyzers /\ a # "python-engine" /\ a \notin PythonChildren
  BY Analyzers
<1>2. Rank(stage) \in 5..10 /\ Rank(stage') = Rank(stage) + 1 /\ stage' \in Stages
  BY RankTypes, ThenFollows
<1>3. child.state # "running"
  BY <1>2, Ranks DEF PInv, ProcessOK
<1>4. \A n \in BaseAnalyzers : Expected(n)' = Expected(n) + IF n \in {a} THEN 1 ELSE 0
  BY StageDone
<1>5. (Silent(a) \/ over = {a}) => Silent(a)'
  BY DEF Silent
<1>6. ASSUME NEW n \in lost PROVE (n \in {a} /\ IsGap(r)) \/ Silent(n)'
  <2>1. n = a /\ (IsGap(r) \/ Silent(a)')
    BY <1>5
  <2> QED BY <2>1
<1>7. {a} \in SUBSET BaseAnalyzers /\ lost \in SUBSET BaseAnalyzers /\ "python-engine" \notin {a}
  BY <1>1
<1>8. Rank(stage) < 15 /\ Rank(stage') < 15 /\ Rank(stage) <= Rank(stage') /\ Rank(stage) > 2
  BY <1>2
<1>9. Kept
  BY <1>1, Analyzers DEF Kept, PInv, TypeOK
<1> QED BY <1>2, <1>3, <1>4, <1>6, <1>7, <1>8, <1>9, Records

LEMMA AttemptReasons ==
  ASSUME NEW a \in Dependencies, NEW outcome \in Attempts(a)
  PROVE  /\ DependencyReason(outcome) \in Reasons
         /\ \/ outcome \in {"found", "absent", "no_lock"}
            \/ IsGap(DependencyReason(outcome))
            \/ outcome \in {"skipped_manifest", "hidden_manifest"}
<1>1. DependencyReason(outcome) \in Reasons
  BY DEF DependencyReason, Reasons, SkipReasons, FailReasons
<1>2. outcome \in {"found", "broken", "absent", "no_lock", "skipped_manifest", "hidden_manifest", "network",
                   "timeout"}
  BY DEF Attempts
<1>3. outcome \in {"broken", "network", "timeout"} => IsGap(DependencyReason(outcome))
  BY DEF DependencyReason, IsGap, Class
<1> QED BY <1>1, <1>2, <1>3

LEMMA Concluded ==
  ASSUME NEW a, NEW ran, Conclude(a, ran), NEW last, ran[Len(ran)] = last, NEW k, Len(ran) = k
  PROVE  /\ status' = [status EXCEPT ![a] = Append(@, [reason |-> DependencyReason(last), attempts |-> k])]
         /\ missed' = IF last \in {"found", "absent", "no_lock"} THEN missed ELSE missed \cup {a}
         /\ passedOver' = IF last \in {"skipped_manifest", "hidden_manifest"} THEN passedOver \cup {a} ELSE passedOver
         /\ stage' = Then[a]
BY DEF Conclude

LEMMA OneMore == ASSUME NEW n \in 0..1 PROVE n + 1 \in 1..2
OBVIOUS

LEMMA AttemptDependencyOK ==
  ASSUME PInv, NEW a \in Dependencies, NEW outcome \in DependencyOutcomes, AttemptDependency(a, outcome)
  PROVE  PInv'
<1>1. /\ cfg' = cfg /\ ctx' = ctx /\ discovered' = discovered /\ scope' = scope /\ report' = report
      /\ exitCode' = exitCode /\ child' = child /\ stream' = stream
      /\ stage = a /\ DependencySkip(a) = "run" /\ outcome \in Attempts(a)
      /\ tries' = [tries EXCEPT ![a] = Append(@, outcome)]
      /\ IF tries[a] = <<>> /\ Transient(outcome) /\ ctx = "live"
           THEN stage' = stage /\ status' = status /\ missed' = missed /\ passedOver' = passedOver
           ELSE Conclude(a, tries'[a])
      /\ held' = held
      /\ Spend(outcome \notin {"found", "absent", "no_lock"} /\ ctx = "live")
  BY DEF AttemptDependency
<1>2. a \in CodeAnalyzers /\ a \in BaseAnalyzers /\ a \in Registry /\ a # "python-engine" /\ Skip(a) = "run"
  BY <1>1, Analyzers DEF Skip
<1>3. Rank(stage) \in 5..10 /\ stage \in Stages /\ Rank(Then[a]) = Rank(stage) + 1 /\ Then[a] \in Stages
  BY <1>1, <1>2, RankTypes, ThenFollows DEF PInv, TypeOK
<1>4. child.state # "running" /\ faults' \in 0..MaxFaults
  BY <1>1, <1>3, Ranks, SpendTyped, SMTT(30) DEF PInv, ProcessOK, TypeOK
<1>5. tries \in [Dependencies -> Seq(DependencyOutcomes)] /\ Len(tries[a]) \in 0..1
  BY <1>1 DEF PInv, TypeOK, Retries
<1>6. /\ tries' \in [Dependencies -> Seq(DependencyOutcomes)]
      /\ tries'[a] = Append(tries[a], outcome) /\ \A b \in Dependencies \ {a} : tries'[b] = tries[b]
  BY <1>1, <1>5
<1>7. /\ Len(tries'[a]) = Len(tries[a]) + 1 /\ tries'[a][Len(tries'[a])] = outcome
      /\ (tries[a] = <<>> => Len(tries'[a]) = 1) /\ Len(tries'[a]) \in 1..2
  <2>1. PICK old : old = tries[a] /\ old \in Seq(DependencyOutcomes)
    BY <1>5
  <2>2. Len(Append(old, outcome)) = Len(old) + 1 /\ Append(old, outcome)[Len(old) + 1] = outcome
    BY <2>1
  <2>3. old = <<>> => Len(old) = 0
    OBVIOUS
  <2>4. Len(old) \in 0..1
    BY <1>5, <2>1
  <2>5. Len(old) + 1 \in 1..2
    BY <2>4, OneMore
  <2> QED BY <1>6, <2>1, <2>2, <2>3, <2>5
<1>8. stage' \in Stages /\ Rank(stage) <= Rank(stage') /\ Rank(stage') \in 5..11
  BY <1>1, <1>3 DEF Conclude
<1>9. Context'
  BY <1>1, <1>8, SameContext
<1>10. stage \notin {"exit", "returned"} /\ stage' \notin {"exit", "returned"}
  BY <1>3, <1>8, Ranks
<1>11. Ended'
  BY <1>1, <1>10, Going
<1>12. CASE tries[a] = <<>> /\ Transient(outcome) /\ ctx = "live"
  <2>1. stage' = stage /\ status' = status /\ missed' = missed /\ passedOver' = passedOver
        /\ Len(tries'[a]) = 1 /\ tries'[a][1] = outcome
    BY <1>1, <1>7, <1>12
  <2>2. ProcessOK' /\ Children' /\ MissedTold' /\ PythonOkIsWhole'
    BY <1>1, <1>4, <1>8, <2>1, FrameSame
  <2>3. TypeOK'
    BY <1>1, <1>4, <1>6, <2>1 DEF PInv, TypeOK
  <2>4. Counts'
    BY <1>1, <2>1 DEF PInv, Counts, Expected, Validated, Unchanged, Own, Skip, DependencySkip, FileSkip,
                      DiffEmpty, CodeConfigured, CodeUsable
  <2>5. ASSUME NEW b \in Dependencies
        PROVE  /\ Rank(stage') < Rank(b) => tries'[b] = <<>>
               /\ stage' = b => \/ tries'[b] = <<>>
                                \/ Len(tries'[b]) = 1 /\ DependencySkip(b)' = "run" /\ Transient(tries'[b][1])
    <3>1. DependencySkip(b)' = DependencySkip(b)
      BY <1>1 DEF DependencySkip, CodeConfigured, CodeUsable
    <3>2. CASE b = a
      BY <1>1, <1>3, <1>12, <2>1, <3>1, <3>2
    <3>3. CASE b # a
      BY <1>1, <1>6, <2>1, <3>3 DEF PInv, Retries
    <3> QED BY <3>2, <3>3
  <2>6. Retries'
    BY <2>5 DEF Retries, Transient
  <2> QED BY <1>9, <1>11, <2>2, <2>3, <2>4, <2>6 DEF PInv
<1>13. CASE ~(tries[a] = <<>> /\ Transient(outcome) /\ ctx = "live")
  <2>1. PICK r : r = DependencyReason(outcome)
    OBVIOUS
  <2>2. r \in Reasons /\ (\/ outcome \in {"found", "absent", "no_lock"} \/ IsGap(r)
                          \/ outcome \in {"skipped_manifest", "hidden_manifest"})
    BY <1>1, <2>1, AttemptReasons
  <2>3. PICK k : k = Len(tries'[a])
    OBVIOUS
  <2>4. /\ status' = [status EXCEPT ![a] = Append(@, [reason |-> r, attempts |-> k])] /\ k \in 1..2
        /\ missed' = IF outcome \in {"found", "absent", "no_lock"} THEN missed ELSE missed \cup {a}
        /\ passedOver' = IF outcome \in {"skipped_manifest", "hidden_manifest"}
                           THEN passedOver \cup {a} ELSE passedOver
        /\ stage' = Then[a]
    <3>1. PICK ran : ran = tries'[a]
      OBVIOUS
    <3>2. Conclude(a, ran) /\ ran[Len(ran)] = outcome /\ Len(ran) = k
      BY <1>1, <1>7, <1>13, <2>3, <3>1
    <3>3. k \in 1..2
      BY <1>7, <2>3
    <3> QED BY <2>1, <3>2, <3>3, Concluded
  <2>5. Adds(status', status, {a}, r)
    BY <1>2, <2>2, <2>4, ExceptAdds DEF PInv, TypeOK, StatusType, Entry
  <2>6. PICK lost : lost = IF outcome \in {"found", "absent", "no_lock"} THEN {} ELSE {a}
    OBVIOUS
  <2>7. missed' = missed \cup lost /\ lost \in SUBSET BaseAnalyzers /\ {a} \in SUBSET BaseAnalyzers
        /\ "python-engine" \notin {a}
    BY <1>2, <2>4, <2>6
  <2>8. ASSUME NEW n \in lost PROVE (n \in {a} /\ IsGap(r)) \/ Silent(n)'
    <3>1. n = a /\ (IsGap(r) \/ a \in passedOver')
      BY <2>2, <2>4, <2>6
    <3> QED BY <3>1 DEF Silent
  <2>9. /\ ProcessOK' /\ Children' /\ MissedTold' /\ PythonOkIsWhole'
        /\ status' \in StatusType /\ missed' \subseteq Registry
    <3>1. passedOver \subseteq passedOver'
      BY <2>4
    <3> QED BY <1>1, <1>4, <1>8, <2>2, <2>5, <2>7, <2>8, <3>1, FrameWith
  <2>10. \A n \in BaseAnalyzers : Expected(n)' = Expected(n) + IF n \in {a} THEN 1 ELSE 0
    BY <1>1, <1>2, <2>4, StageDone
  <2>11. Counts'
    BY <1>10, <2>2, <2>5, <2>7, <2>10, Counted
  <2>12. TypeOK'
    <3>1. passedOver' \subseteq Registry
      BY <1>2, <2>4 DEF PInv, TypeOK
    <3> QED BY <1>1, <1>4, <1>6, <1>8, <2>9, <3>1 DEF PInv, TypeOK, StatusType, Entry
  <2>13. ASSUME NEW b \in Dependencies
         PROVE  (Rank(stage') < Rank(b) => tries'[b] = <<>>) /\ (stage' = b => tries'[b] = <<>>)
    <3>1. Rank(stage) < Rank(stage') /\ Rank(stage) = Rank(a)
      BY <1>1, <1>3, <2>4
    <3>2. Rank(b) \in 5..10
      BY RankTypes, Analyzers
    <3>3. Rank(stage) < Rank(b) => b # a /\ tries[b] = <<>>
      BY <1>1, <3>1, <3>2 DEF PInv, Retries
    <3> QED BY <1>6, <1>8, <1>3, <3>1, <3>2, <3>3
  <2>14. Retries'
    BY <2>13 DEF Retries
  <2> QED BY <1>9, <1>11, <2>9, <2>11, <2>12, <2>14 DEF PInv
<1> QED BY <1>12, <1>13

LEMMA GiveUpRetryOK == ASSUME PInv, NEW a \in Dependencies, GiveUpRetry(a) PROVE PInv'
<1>1. /\ cfg' = cfg /\ ctx' = ctx /\ discovered' = discovered /\ scope' = scope /\ report' = report /\ tries' = tries
      /\ exitCode' = exitCode /\ child' = child /\ stream' = stream /\ faults' = faults
      /\ stage = a /\ Len(tries[a]) = 1 /\ Conclude(a, tries[a]) /\ held' = held
  BY DEF GiveUpRetry, pyVars
<1>2. a \in CodeAnalyzers /\ a \in Registry
  BY Analyzers
<1>3. tries[a] \in Seq(DependencyOutcomes) /\ tries[a] # <<>>
  <2>1. PICK old : old = tries[a] /\ old \in Seq(DependencyOutcomes)
    BY DEF PInv, TypeOK
  <2>2. old = <<>> => Len(old) = 0
    OBVIOUS
  <2>3. Len(old) = 1
    BY <1>1, <2>1
  <2> QED BY <2>1, <2>2, <2>3
<1>4. DependencySkip(a) = "run" /\ Transient(tries[a][1])
  BY <1>1, <1>3 DEF PInv, Retries
<1>5. PICK r : r = DependencyReason(tries[a][1])
  OBVIOUS
<1>6. /\ r \in {"network_error", "timeout"}
      /\ tries[a][1] \notin {"found", "absent", "no_lock", "skipped_manifest", "hidden_manifest"}
  BY <1>4, <1>5 DEF Transient, DependencyReason
<1>7. r \in Reasons /\ IsGap(r)
  BY <1>6 DEF Reasons, FailReasons, IsGap, Class
<1>8. /\ status' = [status EXCEPT ![a] = Append(@, [reason |-> r, attempts |-> 1])]
      /\ missed' = missed \cup {a} /\ passedOver' = passedOver \cup {} /\ stage' = Then[a]
  BY <1>1, <1>5, <1>6, Concluded
<1>9. Adds(status', status, {a}, r)
  <2>1. 1 \in 1..2
    OBVIOUS
  <2> QED BY <1>2, <1>7, <1>8, <2>1, ExceptAdds DEF PInv, TypeOK, StatusType, Entry
<1>10. Skip(a) # "recorded" /\ faults' \in 0..MaxFaults /\ {} \in SUBSET {a} /\ {a} \in SUBSET {a}
  BY <1>1, <1>4 DEF Skip, PInv, TypeOK
<1> QED BY <1>1, <1>2, <1>7, <1>8, <1>9, <1>10, StageRecords

LEMMA SkipFilesOK == ASSUME PInv, NEW a \in FileScanners, SkipFiles(a) PROVE PInv'
<1>0. PICK why : why = FileSkip(a)
  OBVIOUS
<1>1. /\ cfg' = cfg /\ ctx' = ctx /\ discovered' = discovered /\ scope' = scope /\ tries' = tries /\ report' = report
      /\ exitCode' = exitCode /\ child' = child /\ stream' = stream /\ faults' = faults
      /\ stage = a /\ stage' = Then[a] /\ why # "run" /\ missed' = missed
      /\ passedOver' = passedOver /\ held' = held
      /\ status' = IF why = "recorded" THEN status ELSE With(status, {a}, why)
  BY <1>0 DEF SkipFiles, pyVars
<1>2. a \in CodeAnalyzers /\ a \in Registry /\ Skip(a) = why
  BY <1>0, Analyzers DEF Skip
<1>3. Rank(stage) \in 5..10 /\ Rank(stage') = Rank(stage) + 1 /\ stage' \in Stages
  BY <1>1, <1>2, RankTypes, ThenFollows
<1>4. child.state # "running" /\ faults' \in 0..MaxFaults /\ Kept
  BY <1>1, <1>3, Ranks, SMTT(30) DEF PInv, ProcessOK, TypeOK, Kept
<1>5. why \in Reasons \cup {"recorded", "run"}
  BY <1>0 DEF FileSkip, Reasons, SkipReasons
<1>6. CASE why = "recorded"
  <2>1. status' = status
    BY <1>1, <1>6
  <2>2. \A n : Expected(n) \in Nat
    BY DEF Expected, Validated, Unchanged, Own
  <2>3. \A n \in BaseAnalyzers : Expected(n)' = Expected(n)
    BY <1>1, <1>2, <1>6, <2>2, StageDone
  <2> QED BY <1>1, <1>3, <1>4, <2>1, <2>3, Passes
<1>7. CASE why # "recorded"
  <2>1. Adds(status', status, {a}, why) /\ why \in Reasons
    BY <1>1, <1>2, <1>5, <1>7, WithAdds DEF PInv, TypeOK, StatusType, Entry
  <2>2. missed' = missed \cup {} /\ passedOver' = passedOver \cup {} /\ {} \in SUBSET {a}
    BY <1>1
  <2> QED BY <1>1, <1>2, <1>4, <1>7, <2>1, <2>2, StageRecords
<1> QED BY <1>6, <1>7

LEMMA ScanFilesOK ==
  ASSUME PInv, NEW a \in FileScanners, NEW outcome \in FileOutcomes(a), ScanFiles(a, outcome) PROVE PInv'
<1>0. PICK r : r = FileReason(outcome)
  OBVIOUS
<1>1. /\ cfg' = cfg /\ ctx' = ctx /\ discovered' = discovered /\ scope' = scope /\ tries' = tries /\ report' = report
      /\ exitCode' = exitCode /\ child' = child /\ stream' = stream
      /\ stage = a /\ stage' = Then[a] /\ FileSkip(a) = "run" /\ status' = With(status, {a}, r)
      /\ missed' = IF outcome # "done" \/ Overlooked(a, scope) THEN missed \cup {a} ELSE missed
      /\ passedOver' = IF outcome = "partial" THEN passedOver \cup {a} ELSE passedOver
      /\ held' = held
      /\ Spend(outcome \notin {"done", "cut"})
  BY <1>0 DEF ScanFiles
<1>2. a \in CodeAnalyzers /\ a \in Registry /\ Skip(a) # "recorded"
  BY <1>1, Analyzers DEF Skip
<1>3. r \in Reasons /\ (outcome \notin {"done", "partial"} => IsGap(r))
  BY <1>0 DEF FileReason, Reasons, SkipReasons, FailReasons, IsGap, Class
<1>4. Adds(status', status, {a}, r)
  BY <1>1, <1>2, <1>3, WithAdds DEF PInv, TypeOK, StatusType, Entry
<1>5. PICK lost : lost = IF outcome # "done" \/ Overlooked(a, scope) THEN {a} ELSE {}
  OBVIOUS
<1> PICK over : over = IF outcome = "partial" THEN {a} ELSE {}
  OBVIOUS
<1>6. lost = {} \/ IsGap(r) \/ Silent(a) \/ over = {a}
  BY <1>2, <1>3, <1>5, OverlookedSilent
<1>7. /\ missed' = missed \cup lost /\ lost \in SUBSET {a} /\ faults' \in 0..MaxFaults
      /\ passedOver' = passedOver \cup over /\ over \in SUBSET {a}
  BY <1>1, <1>5, SpendTyped DEF PInv, TypeOK
<1> QED BY <1>1, <1>2, <1>3, <1>4, <1>6, <1>7, StageRecords

-----------------------------------------------------------------------------
(* The Python engine, the plugins and the end of the scan.                  *)

(* What the stages after the scanners of the code add.                      *)
LEMMA Late ==
  ASSUME Rank(stage) \in 11..14, Rank(stage') \in 11..16, cfg' = cfg, scope' = scope,
         Rank(stage') = Rank(stage) \/ Rank(stage') = Rank(stage) + 1, NEW n \in BaseAnalyzers
  PROVE  Expected(n)' = Expected(n) + IF \/ n = "python-engine" /\ Rank(stage) = 11 /\ Rank(stage') = 12
                                         \/ n = "plugins" /\ Rank(stage) = 12 /\ Rank(stage') = 13
                                        THEN 1 ELSE 0
<1>1. CASE n \in CodeAnalyzers
  <2>1. Rank(n) \in 5..10 /\ n # "python-engine" /\ n # "plugins"
    BY <1>1, RankTypes DEF CodeAnalyzers, Dependencies, FileScanners
  <2>2. Validated' = Validated /\ Unchanged(n)' = Unchanged(n)
    BY DEF Validated, Unchanged, DiffEmpty, CodeConfigured, CodeUsable
  <2>3. Skip(n)' = Skip(n)
    BY DEF Skip, DependencySkip, FileSkip, DiffEmpty, CodeConfigured, CodeUsable
  <2>4. Own(n)' = Own(n)
    BY <2>1, <2>3 DEF Own
  <2>5. Validated + Unchanged(n) + Own(n) \in Nat
    BY DEF Validated, Unchanged, Own
  <2> QED BY <1>1, <2>1, <2>2, <2>4, <2>5 DEF Expected
<1>2. CASE n \notin CodeAnalyzers
  BY <1>2 DEF Expected, RecordedAt
<1> QED BY <1>1, <1>2

(* A Python engine that was not started.                                    *)
LEMMA PythonSkipped ==
  ASSUME PInv, NEW r \in Reasons, NEW lost \in SUBSET {"python-engine"}, r # "ok", lost = {} \/ IsGap(r),
         stage = "python-engine", child.state # "running", LeavePython(r, lost), faults' \in 0..MaxFaults
  PROVE  PInv'
<1>1. /\ cfg' = cfg /\ ctx' = ctx /\ discovered' = discovered /\ scope' = scope /\ tries' = tries /\ report' = report
      /\ exitCode' = exitCode /\ child' = child /\ stream' = stream /\ stage' = "plugins"
      /\ status' = With(status, {"python-engine"}, r) /\ missed' = missed \cup lost
      /\ passedOver' = passedOver /\ held' = held
  BY DEF LeavePython
<1>2. Rank(stage) = 11 /\ Rank(stage') = 12 /\ stage' \in Stages
  BY <1>1, Ranks, StageNames
<1>3. {"python-engine"} \in SUBSET BaseAnalyzers /\ {"python-engine"} \in SUBSET Registry
      /\ lost \in SUBSET BaseAnalyzers
  BY Analyzers
<1>4. Adds(status', status, {"python-engine"}, r)
  BY <1>1, <1>3, WithAdds DEF PInv, TypeOK, StatusType, Entry
<1>5. \A n \in BaseAnalyzers : Expected(n)' = Expected(n) + IF n \in {"python-engine"} THEN 1 ELSE 0
  BY <1>1, <1>2, Late
<1>6. \A n \in lost : (n \in {"python-engine"} /\ IsGap(r)) \/ Silent(n)'
  OBVIOUS
<1>7. Rank(stage) < 15 /\ Rank(stage') < 15 /\ Rank(stage) <= Rank(stage') /\ Rank(stage) > 2
  BY <1>2
<1>8. Kept
  BY <1>1 DEF Kept, PInv, TypeOK
<1> QED BY <1>1, <1>2, <1>3, <1>4, <1>5, <1>6, <1>7, <1>8, Records

LEMMA SkipPythonOK == ASSUME PInv, SkipPython PROVE PInv'
<1>1. PICK r : r = PythonSkip
  OBVIOUS
<1>2. PICK lost : lost = IF IsGap(r) THEN {"python-engine"} ELSE {}
  OBVIOUS
<1>3. stage = "python-engine" /\ r # "run" /\ LeavePython(r, lost) /\ faults' = faults
  BY <1>1, <1>2 DEF SkipPython
<1>4. r \in Reasons /\ r # "ok"
  BY <1>1, <1>3 DEF PythonSkip, Reasons, SkipReasons, FailReasons
<1>5. child.state # "running"
  BY <1>1, <1>3 DEF PInv, ProcessOK
<1>6. faults' \in 0..MaxFaults /\ lost \in SUBSET {"python-engine"} /\ (lost = {} \/ IsGap(r))
  BY <1>2, <1>3 DEF PInv, TypeOK
<1> QED BY <1>3, <1>4, <1>5, <1>6, PythonSkipped

LEMMA NoPythonOK ==
  ASSUME PInv, NEW why \in {"dependency_missing", "execution_error"}, NoPython(why) PROVE PInv'
<1>1. /\ stage = "python-engine" /\ child.state # "running" /\ LeavePython(why, {"python-engine"})
      /\ Spend(why = "dependency_missing" \/ ctx = "live")
  BY DEF NoPython
<1>2. why \in Reasons /\ why # "ok" /\ IsGap(why)
  BY DEF Reasons, SkipReasons, FailReasons, IsGap, Class
<1>3. faults' \in 0..MaxFaults
  BY <1>1, SpendTyped DEF PInv, TypeOK
<1> QED BY <1>1, <1>2, <1>3, PythonSkipped

(* While the child works nothing is recorded.                               *)
LEMMA NothingYet ==
  ASSUME PInv, stage = "python-engine"
  PROVE  /\ status["python-engine"] = <<>> /\ Entries("python-engine") = {}
         /\ \A n \in PythonChildren : status[n] = <<>> /\ n \notin missed
<1>1. Rank(stage) = 11 /\ "python-engine" \in BaseAnalyzers \ CodeAnalyzers
  BY Ranks, Analyzers
<1>2. Expected("python-engine") = 0
  BY <1>1 DEF Expected, RecordedAt
<1>3. Len(status["python-engine"]) = 0
  BY <1>1, <1>2 DEF PInv, Counts
<1>4. status["python-engine"] \in Seq(Entry)
  BY Analyzers DEF PInv, TypeOK, Entry
<1>5. status["python-engine"] = <<>>
  BY <1>3, <1>4, Empty
<1>6. Entries("python-engine") = {}
  BY <1>4, <1>5, Empty DEF Entries
<1> QED BY <1>1, <1>5, <1>6 DEF PInv, Children, MissedTold

LEMMA ChildWorks ==
  ASSUME PInv, stage = "python-engine", stage' = stage, cfg' = cfg, ctx' = ctx, discovered' = discovered,
         scope' = scope, tries' = tries, status' = status, missed' = missed, report' = report,
         passedOver' = passedOver, held' = held, exitCode' = exitCode, faults' \in 0..MaxFaults, Shape', child'.plan = PythonPlan, PythonSkip = "run"
  PROVE  PInv'
<1>1. Rank(stage) = 11 /\ Rank(stage') = 11 /\ stage' \in Stages
  BY Ranks, StageNames
<1>2. TypeOK'
  <2>1. child'.state \in {"none", "running", "exited"} /\ child'.at \in 1..Printed /\ child'.printed \in 0..MaxFindings
    BY Numbers DEF Shape, ChildType, ChildRecord
  <2> QED BY <1>1, <2>1 DEF PInv, TypeOK
<1>3. Context' /\ Retries'
  BY <1>1, SameContext, SameRetries
<1>4. Counts' /\ Ended'
  <2>1. Counts'
    BY DEF PInv, Counts, Expected, Validated, Unchanged, Own, Skip, DependencySkip, FileSkip, DiffEmpty,
           CodeConfigured, CodeUsable
  <2>2. Ended'
    BY Going
  <2> QED BY <2>1, <2>2
<1>5. ProcessOK'
  <2>1. PythonPlan' = PythonPlan /\ PythonSkip' = PythonSkip
    BY DEF PythonPlan, Requested, PythonSkip, EngineOn, CodeConfigured, CodeUsable
  <2> QED BY <1>1, <2>1 DEF ProcessOK
<1>6. Children' /\ PythonOkIsWhole'
  <2>1. Entries("python-engine")' = {}
    BY NothingYet DEF Entries
  <2> QED BY <2>1, NothingYet DEF Children, PythonOkIsWhole
<1>7. MissedTold'
  <2>1. \A n \in PythonChildren : n \notin missed
    BY NothingYet
  <2>2. Gaps' = Gaps
    BY DEF Gaps, Entries
  <2>3. ASSUME NEW n \in missed PROVE n \in Gaps' \/ Silent(n)'
    <3>1. n \in Gaps \/ Silent(n)
      BY <2>1 DEF PInv, MissedTold
    <3>2. Silent(n) => Silent(n)'
      BY <2>1 DEF Silent
    <3> QED BY <2>2, <3>1, <3>2
  <2> QED BY <2>1, <2>3 DEF MissedTold
<1> QED BY <1>2, <1>3, <1>4, <1>5, <1>6, <1>7 DEF PInv

LEMMA PlanTyped == PythonPlan \in [PythonChecks -> Plans]
BY DEF PythonPlan, Plans

LEMMA StartPythonOK == ASSUME PInv, StartPython PROVE PInv'
<1>1. /\ stage = "python-engine" /\ stage' = stage /\ PythonSkip = "run"
      /\ cfg' = cfg /\ ctx' = ctx /\ discovered' = discovered /\ scope' = scope /\ tries' = tries
      /\ status' = status /\ missed' = missed /\ report' = report /\ exitCode' = exitCode /\ faults' = faults
      /\ passedOver' = passedOver /\ held' = held
      /\ Spawn(IF cfg.tree = "v2" THEN 2 ELSE 1, PythonPlan)
  BY DEF StartPython
<1>2. PICK protocol : protocol = IF cfg.tree = "v2" THEN 2 ELSE 1
  OBVIOUS
<1>3. PICK plan : plan = PythonPlan
  OBVIOUS
<1>4. protocol \in 1..2 /\ plan \in [PythonChecks -> Plans] /\ Spawn(protocol, plan)
  BY <1>1, <1>2, <1>3, PlanTyped
<1>5. Shape' /\ child'.plan = plan
  BY <1>4, ShapeOfSpawn
<1>6. faults' \in 0..MaxFaults
  BY <1>1 DEF PInv, TypeOK
<1> QED BY <1>1, <1>3, <1>5, <1>6, ChildWorks

LEMMA PythonWorksOK ==
  ASSUME PInv, stage = "python-engine", ChildStep \/ Kill, stage' = stage, cfg' = cfg, ctx' = ctx,
         discovered' = discovered, scope' = scope, tries' = tries, status' = status, missed' = missed,
         passedOver' = passedOver, held' = held, report' = report, exitCode' = exitCode
  PROVE  PInv'
<1>1. Shape' /\ child.state = "running" /\ child'.plan = child.plan
  BY ShapeOfStep DEF PInv, ProcessOK
<1>2. child'.plan = PythonPlan /\ PythonSkip = "run"
  BY <1>1 DEF PInv, ProcessOK
<1>3. faults' \in 0..MaxFaults
  <2>1. faults \in 0..MaxFaults
    BY DEF PInv, TypeOK
  <2>2. faults' = faults \/ \E b : Spend(b)
    <3>1. CASE \E garbled \in BOOLEAN : PrintFinding(garbled)
      BY <3>1 DEF PrintFinding
    <3>2. CASE \E answer \in {"ok", "not_applicable", "disabled_by_flag", "dependency_missing",
                    "unsupported_target", "execution_error"}, all \in BOOLEAN : EndCheck(answer, all)
      BY <3>2 DEF EndCheck
    <3>3. CASE PrintDone \/ Exit \/ Kill
      BY <3>3 DEF PrintDone, Exit, Kill
    <3>4. CASE \E clean \in BOOLEAN : Crash(clean)
      BY <3>4 DEF Crash
    <3> QED BY <3>1, <3>2, <3>3, <3>4 DEF ChildStep
  <2> QED BY <2>1, <2>2, SpendTyped
<1> QED BY <1>1, <1>2, <1>3, ChildWorks

(* What the spawner's verdict says of the child.                            *)
LEMMA Verdict ==
  ASSUME Shape, NEW ended \in BOOLEAN
  PROVE  /\ ParentReason(ended) \in {"ok", "malformed_output", "truncated_output", "execution_error"}
         /\ ParentReason(ended) = "ok" =>
              child.clean /\ stream.sawDone /\ child.at = 5 /\ stream.findings = child.printed
<1>1. ParentReason(ended) \in {"ok", "malformed_output", "truncated_output", "execution_error"}
      /\ (ParentReason(ended) = "ok" => SpawnOutcome(ended) = "ok")
  BY DEF ParentReason
<1>2. SpawnOutcome(ended) = "ok" => child.clean /\ stream.sawDone /\ stream.total = stream.findings
  BY DEF SpawnOutcome
<1> QED BY <1>1, <1>2 DEF Shape, DoneLine

(* The line of a check, as recordPythonEngine picks it.                     *)
LinesOf(lines, c) == {i \in DOMAIN lines : lines[i].check = c}
FirstLine(lines, c) == CHOOSE i \in LinesOf(lines, c) : \A j \in LinesOf(lines, c) : i <= j
CheckOf(n) == CHOOSE c \in PythonChecks : Child[c] = n

LEMMA CheckOfChild == \A c \in PythonChecks : CheckOf(Child[c]) = c
BY Analyzers DEF CheckOf

(* Under protocol 2 a child that printed its done line has one line for     *)
(* each check, and no line says ok of a check that could work and did not.  *)
LEMMA LineOfCheck ==
  ASSUME Shape, stream.sawDone, child.protocol = 2, NEW c \in PythonChecks
  PROVE  \E i \in DOMAIN stream.checks :
           /\ LinesOf(stream.checks, c) = {i} /\ FirstLine(stream.checks, c) = i
           /\ stream.checks[i].check = c /\ stream.checks[i].reason \in Reasons
           /\ Explained(c, stream.checks[i].reason)
<1>1. PICK lines : lines = stream.checks
  OBVIOUS
<1>2. Len(lines) = 3 /\ lines \in Seq(Line)
      /\ \A i \in 1..3 : lines[i].check = Order(i) /\ Explained(Order(i), lines[i].reason)
  BY <1>1 DEF Shape, Lines, DoneLine, ChildType, StreamRecord
<1>3. DOMAIN lines = 1..3 /\ \A i \in 1..3 : lines[i].reason \in Reasons
  <2>0. Len(lines) = 3 /\ lines \in Seq(Line)
    BY <1>2
  <2>1. DOMAIN lines = 1..3
    BY <2>0
  <2>2. \A i \in 1..3 : lines[i] \in Line
    <3>1. \A i \in DOMAIN lines : lines[i] \in Line
      BY <2>0, SMTT(30)
    <3> QED BY <2>1, <3>1
  <2> QED BY <2>1, <2>2 DEF Line
<1>4. PICK i \in 1..3 : c = Order(i)
  BY DEF PythonChecks, Order
<1>5. \A j \in 1..3 : Order(j) = Order(i) => j = i
  BY DEF Order
<1>6. LinesOf(lines, c) = {i}
  BY <1>2, <1>3, <1>4, <1>5 DEF LinesOf
<1>7. FirstLine(lines, c) = i
  <2>1. \A j \in {i} : i <= j
    BY <1>4
  <2> QED BY <1>6, <2>1 DEF FirstLine
<1> QED BY <1>1, <1>2, <1>3, <1>4, <1>6, <1>7

(* What the list holds once the child has been read.                        *)
LEMMA Returned ==
  ASSUME PInv, PythonReturns, NEW r, r = ParentReason(ctx # "live")
  PROVE  /\ status' \in StatusType
         /\ \A n \in BaseAnalyzers \ {"python-engine"} : status'[n] = status[n]
         /\ Len(status'["python-engine"]) = 1 /\ Told(status', "python-engine") = {r}
         /\ \A c \in PythonChecks :
              IF stream.sawDone /\ child.protocol = 2
                THEN Len(status'[Child[c]]) = 1 /\ \E i \in DOMAIN stream.checks :
                       /\ stream.checks[i].check = c /\ Told(status', Child[c]) = {stream.checks[i].reason}
                       /\ Explained(c, stream.checks[i].reason)
                ELSE status'[Child[c]] = <<>>
<1>1. PICK lines : lines = ChildReports
  OBVIOUS
<1>2. PICK listed : listed = With(status, {"python-engine"}, r)
  OBVIOUS
<1>3. status' = [n \in Registry |->
                   IF \E c \in PythonChecks : Child[c] = n /\ LinesOf(lines, c) # {} /\ listed[n] = <<>>
                     THEN <<[reason |-> lines[FirstLine(lines, CheckOf(n))].reason, attempts |-> 1]>>
                     ELSE listed[n]]
  BY <1>1, <1>2 DEF PythonReturns, LinesOf, FirstLine, CheckOf
<1>4. stage = "python-engine" /\ Shape /\ r \in Reasons
  BY Verdict DEF PythonReturns, PInv, ProcessOK, Reasons, FailReasons
<1>5. Adds(listed, status, {"python-engine"}, r)
  <2>1. status \in StatusType
    BY DEF PInv, TypeOK, StatusType, Entry
  <2>2. {"python-engine"} \in SUBSET Registry
    BY Analyzers
  <2> QED BY <1>2, <1>4, <2>1, <2>2, WithAdds
<1>6. /\ \A n \in Registry : listed[n] \in Seq(Entry)
      /\ \A n \in BaseAnalyzers \ {"python-engine"} : listed[n] = status[n]
      /\ \A n \in PythonChildren : listed[n] = <<>>
      /\ Len(listed["python-engine"]) = 1 /\ Told(listed, "python-engine") = {r}
  <2>1. status["python-engine"] = <<>> /\ Len(status["python-engine"]) = 0 /\ Told(status, "python-engine") = {}
        /\ \A n \in PythonChildren : status[n] = <<>>
    BY <1>4, NothingYet, EntriesTold
  <2>2. \A n \in Registry : listed[n] \in Seq(Entry)
    BY <1>5 DEF Adds, StatusType
  <2>3. \A n \in Registry \ {"python-engine"} : listed[n] = status[n]
    BY <1>5 DEF Adds
  <2>4. Len(listed["python-engine"]) = 0 + 1 /\ Told(listed, "python-engine") = {} \cup {r}
    BY <1>5, <2>1 DEF Adds
  <2>5. \A n \in PythonChildren : listed[n] = <<>>
    BY <2>1, <2>3, Analyzers
  <2> QED BY <2>2, <2>3, <2>4, <2>5, Analyzers
<1>7. \A n \in BaseAnalyzers : status'[n] = listed[n]
  BY <1>3, Analyzers
<1>8. Told(status', "python-engine") = {r} /\ Len(status'["python-engine"]) = 1
  BY <1>6, <1>7, Analyzers DEF Told
<1>9. ASSUME NEW c \in PythonChecks
      PROVE  /\ status'[Child[c]] \in Seq(Entry)
             /\ IF stream.sawDone /\ child.protocol = 2
                  THEN Len(status'[Child[c]]) = 1 /\ \E i \in DOMAIN stream.checks :
                         /\ stream.checks[i].check = c /\ Told(status', Child[c]) = {stream.checks[i].reason}
                         /\ Explained(c, stream.checks[i].reason)
                  ELSE status'[Child[c]] = <<>>
  <2>1. Child[c] \in Registry /\ listed[Child[c]] = <<>> /\ CheckOf(Child[c]) = c
    BY <1>6, Analyzers, CheckOfChild
  <2>2. status'[Child[c]] = IF LinesOf(lines, c) # {}
                              THEN <<[reason |-> lines[FirstLine(lines, c)].reason, attempts |-> 1]>> ELSE <<>>
    <3>1. (\E d \in PythonChecks : Child[d] = Child[c] /\ LinesOf(lines, d) # {} /\ listed[Child[c]] = <<>>)
          <=> LinesOf(lines, c) # {}
      BY <2>1, Analyzers
    <3> QED BY <1>3, <2>1, <3>1
  <2>3. CASE stream.sawDone /\ child.protocol = 2
    <3>1. lines = stream.checks
      BY <1>1, <1>4, <2>3 DEF ChildReports, Shape, DoneLine
    <3>2. PICK i \in DOMAIN stream.checks :
            /\ LinesOf(lines, c) = {i} /\ FirstLine(lines, c) = i
            /\ stream.checks[i].check = c /\ stream.checks[i].reason \in Reasons
            /\ Explained(c, stream.checks[i].reason)
      BY <1>4, <2>3, <3>1, LineOfCheck
    <3>3. PICK x : x = stream.checks[i].reason
      OBVIOUS
    <3>4. PICK e : e = [reason |-> x, attempts |-> 1]
      OBVIOUS
    <3>5. e \in Entry /\ e.reason = x
      BY <3>2, <3>3, <3>4 DEF Entry
    <3>6. status'[Child[c]] = <<e>>
      BY <2>2, <3>1, <3>2, <3>3, <3>4
    <3>7. status'[Child[c]] \in Seq(Entry) /\ Len(status'[Child[c]]) = 1 /\ Told(status', Child[c]) = {x}
      BY <3>5, <3>6 DEF Told
    <3> QED BY <2>3, <3>2, <3>3, <3>7
  <2>4. CASE ~(stream.sawDone /\ child.protocol = 2)
    <3>1. lines = <<>>
      <4>1. ~(stream.protocol >= 2)
        BY <1>4, <2>4 DEF Shape, DoneLine, ChildType, ChildRecord
      <4> QED BY <1>1, <4>1 DEF ChildReports
    <3>2. LinesOf(lines, c) = {}
      BY <3>1 DEF LinesOf
    <3> QED BY <2>2, <2>4, <3>2
  <2> QED BY <2>3, <2>4
<1>10. status' \in StatusType
  <2>1. status' = [n \in Registry |-> status'[n]]
    BY <1>3
  <2>2. \A n \in PythonChildren : status'[n] \in Seq(Entry)
    BY <1>9 DEF PythonChildren
  <2>3. \A n \in Registry : status'[n] \in Seq(Entry)
    BY <1>6, <1>7, <2>2, Analyzers
  <2> QED BY <2>1, <2>3 DEF StatusType
<1> QED BY <1>6, <1>7, <1>8, <1>9, <1>10

LEMMA AtMostOne == ASSUME NEW s \in Seq(Entry), Len(s) = 1 \/ s = <<>> PROVE Len(s) <= 1
<1>1. CASE Len(s) = 1
  BY <1>1
<1>2. CASE s = <<>>
  <2>1. Len(s) = 0
    BY <1>2, Empty
  <2> QED BY <2>1
<1> QED BY <1>1, <1>2

LEMMA PythonReturnsOK == ASSUME PInv, PythonReturns PROVE PInv'
<1>1. /\ stage = "python-engine" /\ child.state = "exited" /\ stage' = "plugins"
      /\ missed' = missed \cup PythonLost
      /\ passedOver' = passedOver \cup PythonPassedOver /\ held' = held
      /\ cfg' = cfg /\ ctx' = ctx /\ discovered' = discovered /\ scope' = scope /\ tries' = tries
      /\ report' = report /\ exitCode' = exitCode /\ child' = child /\ stream' = stream /\ faults' = faults
  BY DEF PythonReturns, pyVars
<1>2. PICK r : r = ParentReason(ctx # "live")
  OBVIOUS
<1>3. Rank(stage) = 11 /\ Rank(stage') = 12 /\ stage' \in Stages
  BY <1>1, Ranks, StageNames
<1>4. Shape /\ child.plan = PythonPlan /\ PythonSkip = "run" /\ child.protocol \in 1..2
  BY <1>1 DEF PInv, ProcessOK, Shape, ChildType, ChildRecord
<1>5. /\ r \in {"ok", "malformed_output", "truncated_output", "execution_error"}
      /\ r = "ok" => child.clean /\ stream.sawDone /\ child.at = 5 /\ stream.findings = child.printed
  BY <1>2, <1>4, Verdict
<1>6. /\ status' \in StatusType
      /\ \A n \in BaseAnalyzers \ {"python-engine"} : status'[n] = status[n]
      /\ Len(status'["python-engine"]) = 1 /\ Told(status', "python-engine") = {r}
      /\ \A c \in PythonChecks :
           IF stream.sawDone /\ child.protocol = 2
             THEN Len(status'[Child[c]]) = 1 /\ \E i \in DOMAIN stream.checks :
                    /\ stream.checks[i].check = c /\ Told(status', Child[c]) = {stream.checks[i].reason}
                    /\ Explained(c, stream.checks[i].reason)
             ELSE status'[Child[c]] = <<>>
  BY <1>2, Returned
<1>7. TypeOK'
  <2>1. PythonLost \subseteq Registry /\ PythonPassedOver \subseteq Registry
    <3>1. "python-engine" \in Registry /\ \A c \in PythonChecks : Child[c] \in Registry
      BY Analyzers
    <3> QED BY <3>1 DEF PythonLost, PythonPassedOver
  <2> QED BY <1>1, <1>3, <1>6, <2>1 DEF PInv, TypeOK, StatusType, Entry
<1>8. Context' /\ Retries'
  BY <1>1, <1>3, SameContext, SameRetries
<1>9. Counts'
  <2>1. ASSUME NEW n \in BaseAnalyzers PROVE Len(status'[n]) = Expected(n)'
    <3>1. Expected(n)' = Expected(n) + IF n = "python-engine" THEN 1 ELSE 0
      BY <1>1, <1>3, Late
    <3>2. Len(status[n]) = Expected(n) /\ Expected(n) \in Nat
      BY <1>1 DEF PInv, Counts, Expected, Validated, Unchanged, Own
    <3>3. CASE n = "python-engine"
      <4>1. Len(status[n]) = 0
        BY <1>1, <3>3, NothingYet
      <4>2. Expected(n)' = 1
        BY <3>1, <3>2, <3>3, <4>1
      <4> QED BY <1>6, <3>3, <4>2
    <3>4. CASE n # "python-engine"
      BY <1>6, <3>1, <3>2, <3>4
    <3> QED BY <3>3, <3>4
  <2> QED BY <2>1 DEF Counts
<1>10. Ended'
  BY <1>1, Going
<1>11. ProcessOK'
  <2>1. PythonPlan' = PythonPlan /\ PythonSkip' = PythonSkip
    BY <1>1 DEF PythonPlan, Requested, PythonSkip, EngineOn, CodeConfigured, CodeUsable
  <2>2. Shape'
    BY <1>1, <1>4, ShapeKept DEF Shape, ChildType
  <2> QED BY <1>1, <1>3, <1>4, <2>1, <2>2 DEF ProcessOK
<1>12. Children'
  <2>1. ASSUME NEW c \in PythonChecks PROVE Len(status'[Child[c]]) <= 1
    <3>1. Len(status'[Child[c]]) = 1 \/ status'[Child[c]] = <<>>
      BY <1>6
    <3>2. status'[Child[c]] \in Seq(Entry)
      BY <1>6, Analyzers DEF StatusType
    <3> QED BY <3>1, <3>2, AtMostOne
  <2> QED BY <1>1, <1>3, <2>1 DEF Children, PythonChildren
<1>13. PythonOkIsWhole'
  <2>1. Entries("python-engine")' = {r}
    BY <1>6 DEF Entries, Told
  <2>2. SUFFICES ASSUME r = "ok"
                 PROVE  /\ child'.clean /\ child'.at = Printed /\ stream'.findings = child'.printed
                        /\ child'.protocol >= 2 => \A n \in PythonChildren : Len(status'[n]) = 1
    BY <2>1 DEF PythonOkIsWhole
  <2>3. child.protocol >= 2 => \A c \in PythonChecks : Len(status'[Child[c]]) = 1
    BY <1>4, <1>5, <1>6, <2>2
  <2> QED BY <1>1, <1>5, <2>2, <2>3, Numbers DEF PythonChildren
<1>14. MissedTold'
  <2>1. Gaps' = {n \in Registry : \E x \in Told(status', n) : IsGap(x)}
        /\ Entries("python-engine")' = {r}
    BY <1>6 DEF Gaps, Entries, Told
  <2>2. r # "ok" => r \in FailReasons /\ IsGap(r)
    BY <1>5 DEF FailReasons, IsGap, Class
  <2>3. \A n : Silent(n) \/ n \in PythonPassedOver => Silent(n)'
    BY <1>1 DEF Silent
  <2>4. ASSUME NEW n \in missed PROVE n \in Gaps' \/ Silent(n)
    <3>1. n \notin PythonChildren /\ n \in Registry
      BY <1>1, NothingYet DEF PInv, TypeOK
    <3>2. CASE n \in Gaps
      <4>1. Told(status, n) # {} /\ n # "python-engine"
        BY <1>1, <3>2, NothingYet, EntriesTold
      <4>2. status'[n] = status[n]
        BY <1>6, <3>1, <4>1, Analyzers
      <4> QED BY <2>1, <3>2, <4>2, EntriesTold DEF Told
    <3> QED BY <3>1, <3>2 DEF PInv, MissedTold
  <2>5. ASSUME NEW n \in PythonLost
        PROVE  \/ n \in Gaps' \/ Silent(n) \/ n \in PythonPassedOver
               \/ n \in PythonChildren /\ status'[n] = <<>> /\ Entries("python-engine")' \cap FailReasons # {}
    <3>1. CASE n = "python-engine" /\ (child.at < AfterChecks \/ stream.findings < child.printed)
      <4>1. r # "ok"
        BY <1>4, <1>5, <3>1, Numbers DEF Shape, ChildType, ChildRecord
      <4> QED BY <1>6, <2>1, <2>2, <3>1, <4>1, Analyzers
    <3>2. CASE \E c \in PythonChecks : n = Child[c] /\ child.plan[c] \in {"work", "unreadable"}
             /\ c \notin child.whole
             /\ [check |-> c, reason |-> "unsupported_target"] \notin {stream.checks[i] : i \in DOMAIN stream.checks}
      <4>1. PICK c \in PythonChecks :
              n = Child[c] /\ child.plan[c] \in {"work", "unreadable"} /\ c \notin child.whole
              /\ [check |-> c, reason |-> "unsupported_target"] \notin {stream.checks[i] : i \in DOMAIN stream.checks}
        BY <3>2
      <4>3. CASE child.protocol < 2
        BY <4>1, <4>3, Analyzers DEF Silent
      <4>4. CASE child.protocol = 2 /\ stream.sawDone
        <5>1. PICK i \in DOMAIN stream.checks :
                /\ stream.checks[i].check = c /\ Told(status', Child[c]) = {stream.checks[i].reason}
                /\ Explained(c, stream.checks[i].reason)
          BY <1>6, <4>4
        <5>2. stream.checks[i].reason \in {"ok", "unsupported_target", "dependency_missing", "execution_error"}
          BY <4>1, <4>4, <5>1 DEF Explained
        <5>3. stream.checks[i].reason # "unsupported_target"
          <6>1. stream.checks[i] \in Line
            BY <1>4, <5>1 DEF Shape, ChildType, StreamRecord
          <6>2. stream.checks[i].reason = "unsupported_target" =>
                  stream.checks[i] = [check |-> c, reason |-> "unsupported_target"]
            BY <5>1, <6>1 DEF Line
          <6> QED BY <4>1, <5>1, <6>2
        <5>4. CASE stream.checks[i].reason = "ok"
          <6>1. stream.checks[i] = [check |-> c, reason |-> "ok"]
            <7>1. stream.checks[i] \in Line
              BY <1>4, <5>1 DEF Shape, ChildType, StreamRecord
            <7> QED BY <5>1, <5>4, <7>1 DEF Line
          <6> QED BY <4>1, <5>1, <6>1 DEF PythonPassedOver
        <5>5. CASE stream.checks[i].reason # "ok"
          <6>1. IsGap(stream.checks[i].reason)
            BY <5>2, <5>3, <5>5 DEF IsGap, Class
          <6> QED BY <2>1, <4>1, <5>1, <6>1, Analyzers
        <5> QED BY <5>4, <5>5
      <4>5. CASE child.protocol = 2 /\ ~stream.sawDone
        <5>1. r # "ok" /\ status'[n] = <<>>
          BY <1>5, <1>6, <4>1, <4>5
        <5> QED BY <2>1, <2>2, <4>1, <5>1, Analyzers
      <4> QED BY <1>4, <4>1, <4>3, <4>4, <4>5
    <3> QED BY <3>1, <3>2 DEF PythonLost
  <2> QED BY <1>1, <1>3, <2>3, <2>4, <2>5 DEF MissedTold
<1> QED BY <1>7, <1>8, <1>9, <1>10, <1>11, <1>12, <1>13, <1>14 DEF PInv

LEMMA PluginsOK ==
  ASSUME PInv, NEW outcome \in {"disabled", "undiscoverable", "none", "all_ran", "some_failed"},
         NEW dropped \in BOOLEAN, Plugins(outcome, dropped)
  PROVE  PInv'
<1>0. PICK r : r = PluginReason(outcome)
  OBVIOUS
<1>1. PICK lost : lost = IF dropped \/ outcome \in {"undiscoverable", "some_failed"} THEN {"plugins"} ELSE {}
  OBVIOUS
<1>2. /\ cfg' = cfg /\ ctx' = ctx /\ discovered' = discovered /\ scope' = scope /\ tries' = tries /\ report' = report
      /\ exitCode' = exitCode /\ child' = child /\ stream' = stream /\ stage = "plugins" /\ stage' = "imports"
      /\ status' = With(status, {"plugins"}, r) /\ missed' = missed \cup lost
      /\ passedOver' = IF dropped THEN passedOver \cup {"plugins"} ELSE passedOver
      /\ held' = held
      /\ Spend(dropped \/ outcome = "undiscoverable" \/ (outcome = "some_failed" /\ ctx = "live"))
  BY <1>0, <1>1 DEF Plugins
<1>3. r \in Reasons /\ (outcome \in {"undiscoverable", "some_failed"} => IsGap(r))
  BY <1>0 DEF PluginReason, Reasons, SkipReasons, FailReasons, IsGap, Class
<1>4. Rank(stage) = 12 /\ Rank(stage') = 13 /\ stage' \in Stages
  BY <1>2, Ranks, StageNames
<1>5. {"plugins"} \in SUBSET BaseAnalyzers /\ {"plugins"} \in SUBSET Registry /\ lost \in SUBSET BaseAnalyzers
      /\ "python-engine" \notin {"plugins"}
  BY <1>1 DEF BaseAnalyzers, Registry
<1>6. Adds(status', status, {"plugins"}, r)
  BY <1>2, <1>3, <1>5, WithAdds DEF PInv, TypeOK, StatusType, Entry
<1>7. \A n \in BaseAnalyzers : Expected(n)' = Expected(n) + IF n \in {"plugins"} THEN 1 ELSE 0
  BY <1>2, <1>4, Late
<1>8. \A n \in lost : (n \in {"plugins"} /\ IsGap(r)) \/ Silent(n)'
  BY <1>1, <1>2, <1>3 DEF Silent
<1>9. Rank(stage) < 15 /\ Rank(stage') < 15 /\ Rank(stage) <= Rank(stage') /\ Rank(stage) > 2
  BY <1>4
<1>10. child.state # "running" /\ faults' \in 0..MaxFaults /\ Kept
  BY <1>2, <1>5, SpendTyped DEF PInv, ProcessOK, TypeOK, Kept
<1> QED BY <1>2, <1>3, <1>4, <1>5, <1>6, <1>7, <1>8, <1>9, <1>10, Records

(* A scan that ends before its report.                                      *)
LEMMA GivesUp ==
  ASSUME PInv, stage \in {"imports", "finalize"}, stage' = "returned", exitCode' = 2,
         cfg' = cfg, ctx' = ctx, discovered' = discovered, scope' = scope, tries' = tries, status' = status,
         missed' = missed, passedOver' = passedOver, held' = held, child' = child, stream' = stream,
         faults' \in 0..MaxFaults, report' = FALSE
  PROVE  PInv'
<1>1. Rank(stage) \in 13..14 /\ Rank(stage') = 16 /\ stage' \in Stages /\ child.state # "running"
  BY Ranks, StageNames DEF PInv, ProcessOK
<1>2. TypeOK'
  BY <1>1 DEF PInv, TypeOK
<1>3. Context' /\ Retries'
  BY <1>1, SameContext, SameRetries
<1>4. ProcessOK' /\ Children' /\ MissedTold' /\ PythonOkIsWhole'
  BY <1>1, FrameSame
<1>5. Counts' /\ Ended'
  BY DEF Counts, Ended, Passed
<1> QED BY <1>2, <1>3, <1>4, <1>5 DEF PInv

LEMMA ImportsOK == ASSUME PInv, NEW parsed \in BOOLEAN, Imports(parsed) PROVE PInv'
<1>1. /\ cfg' = cfg /\ ctx' = ctx /\ discovered' = discovered /\ scope' = scope /\ tries' = tries /\ report' = report
      /\ status' = status /\ missed' = missed /\ passedOver' = passedOver /\ held' = held /\ child' = child /\ stream' = stream /\ stage = "imports"
      /\ stage' = IF parsed THEN "finalize" ELSE "returned"
      /\ exitCode' = IF parsed THEN exitCode ELSE 2
      /\ Spend(~parsed)
  BY DEF Imports
<1>2. faults' \in 0..MaxFaults /\ report = FALSE /\ child.state # "running" /\ Kept
  BY <1>1, SpendTyped DEF PInv, TypeOK, Ended, ProcessOK, Kept
<1>3. CASE parsed
  <2>1. Rank(stage) = 13 /\ Rank(stage') = 14 /\ stage' \in Stages /\ exitCode' = exitCode
    BY <1>1, <1>3, Ranks, StageNames
  <2>2. \A n : Expected(n) \in Nat
    BY DEF Expected, Validated, Unchanged, Own
  <2>3. \A n \in BaseAnalyzers : Expected(n)' = Expected(n) + 0
    BY <1>1, <2>1, Late
  <2>4. \A n \in BaseAnalyzers : Expected(n)' = Expected(n)
    BY <2>2, <2>3
  <2> QED BY <1>1, <1>2, <2>1, <2>4, Passes
<1>4. CASE ~parsed
  BY <1>1, <1>2, <1>4, GivesUp
<1> QED BY <1>3, <1>4

(* Once every stage has passed, every base analyzer has its entry.          *)
LEMMA OnceAtTheEnd == ASSUME PInv, Rank(stage) \in 13..15 PROVE Once
<1>1. stage # "returned"
  BY Ranks
<1>2. cfg.code \in {"none", "ok", "missing", "unlistable"}
  BY ScansAssumption DEF PInv, TypeOK, ScanType
<1>3. DiffEmpty => CodeConfigured /\ cfg.code # "missing"
  BY DEF PInv, Context, DiffEmpty, DiffOn
<1>4. ASSUME NEW a \in BaseAnalyzers
      PROVE  Expected(a) = IF RecordedTwice /\ a \in FileScanners /\ ~(a = "semgrep" /\ cfg.fast) THEN 2 ELSE 1
  <2>1. CASE a \notin CodeAnalyzers
    BY <2>1, Analyzers DEF Expected, RecordedAt
  <2>2. CASE a \in Dependencies
    <3>1. Rank(a) \in 5..10 /\ a \in CodeAnalyzers /\ a \notin FileScanners
      BY <2>2, RankTypes, Analyzers
    <3>2. Skip(a) = "recorded" <=> CodeConfigured /\ ~CodeUsable
      BY <2>2 DEF Skip, DependencySkip
    <3>3. Unchanged(a) = 0 /\ Own(a) = (IF CodeConfigured /\ ~CodeUsable THEN 0 ELSE 1)
          /\ Validated = (IF CodeConfigured /\ ~CodeUsable THEN 1 ELSE 0)
      BY <3>1, <3>2 DEF Unchanged, Own, Validated
    <3> QED BY <3>1, <3>3 DEF Expected
  <2>3. CASE a \in FileScanners
    <3>1. Rank(a) \in 5..10 /\ a \in CodeAnalyzers /\ a \notin Dependencies
      BY <2>3, RankTypes, Analyzers
    <3>2. Skip(a) = "recorded" <=> CodeConfigured /\ (~CodeUsable \/ (~(a = "semgrep" /\ cfg.fast) /\ DiffEmpty))
      BY <3>1 DEF Skip, FileSkip
    <3>3. Unchanged(a) = (IF DiffEmpty /\ ~(a = "semgrep" /\ cfg.fast) THEN 1 ELSE 0)
          /\ Validated = (IF CodeConfigured /\ ~CodeUsable THEN 1 ELSE 0)
      BY <2>3 DEF Unchanged, Validated
    <3>4. Own(a) = IF Skip(a) # "recorded" THEN 1 ELSE 0
      BY <3>1 DEF Own
    <3>5. CASE CodeConfigured /\ ~CodeUsable
      <4>1. Own(a) = 0 /\ Validated = 1
        BY <3>2, <3>3, <3>4, <3>5
      <4>2. DiffEmpty => RecordedTwice
        BY <1>2, <1>3, <3>5 DEF RecordedTwice, CodeConfigured, CodeUsable
      <4>3. RecordedTwice => DiffEmpty
        BY DEF RecordedTwice
      <4> QED BY <2>3, <3>1, <3>3, <4>1, <4>2, <4>3 DEF Expected
    <3>6. CASE ~(CodeConfigured /\ ~CodeUsable)
      <4>1. ~RecordedTwice /\ Validated = 0
        BY <3>3, <3>6 DEF RecordedTwice, CodeConfigured, CodeUsable
      <4>2. Own(a) = IF DiffEmpty /\ ~(a = "semgrep" /\ cfg.fast) THEN 0 ELSE 1
        BY <1>3, <3>2, <3>4, <3>6
      <4> QED BY <3>1, <3>3, <4>1, <4>2 DEF Expected
    <3> QED BY <3>5, <3>6
  <2> QED BY <2>1, <2>2, <2>3 DEF CodeAnalyzers
<1>5. \A a \in BaseAnalyzers : Len(status[a]) = Expected(a)
  BY <1>1 DEF PInv, Counts
<1> QED BY <1>4, <1>5 DEF PInv, Children, Once

LEMMA FinalizeOK == ASSUME PInv, NEW rendered \in BOOLEAN, Finalize(rendered) PROVE PInv'
<1>1. /\ cfg' = cfg /\ ctx' = ctx /\ discovered' = discovered /\ scope' = scope /\ tries' = tries
      /\ status' = status /\ missed' = missed /\ passedOver' = passedOver /\ held' = held /\ child' = child /\ stream' = stream /\ stage = "finalize"
      /\ report' = rendered /\ stage' = IF rendered THEN "exit" ELSE "returned"
      /\ exitCode' = IF rendered THEN exitCode ELSE 2
      /\ Spend(~rendered)
  BY DEF Finalize
<1>2. faults' \in 0..MaxFaults /\ exitCode = NoCode /\ child.state # "running"
  BY <1>1, SpendTyped DEF PInv, TypeOK, Ended, ProcessOK
<1>3. CASE rendered
  <2>1. Rank(stage) = 14 /\ Rank(stage') = 15 /\ stage' \in Stages /\ exitCode' = exitCode
        /\ stage' = "exit" /\ report' = TRUE
    BY <1>1, <1>3, Ranks, StageNames
  <2>2. TypeOK'
    BY <1>1, <1>2, <2>1 DEF PInv, TypeOK
  <2>3. Context' /\ Retries'
    BY <1>1, <2>1, SameContext, SameRetries
  <2>4. ProcessOK' /\ Children' /\ MissedTold' /\ PythonOkIsWhole'
    BY <1>1, <1>2, <2>1, FrameSame
  <2>5. Counts'
    <3>1. \A n : Expected(n) \in Nat
      BY DEF Expected, Validated, Unchanged, Own
    <3>2. \A n \in BaseAnalyzers : Expected(n)' = Expected(n) + 0
      BY <1>1, <2>1, Late
    <3>3. \A n \in BaseAnalyzers : Expected(n)' = Expected(n)
      BY <3>1, <3>2
    <3> QED BY <1>1, <3>3 DEF PInv, Counts
  <2>6. Ended'
    <3>1. Once
      BY <2>1, OnceAtTheEnd
    <3>2. Once'
      BY <1>1, <3>1 DEF Once, RecordedTwice, DiffEmpty
    <3> QED BY <1>2, <2>1, <3>2 DEF Ended, Passed
  <2> QED BY <2>2, <2>3, <2>4, <2>5, <2>6 DEF PInv
<1>4. CASE ~rendered
  BY <1>1, <1>2, <1>4, GivesUp
<1> QED BY <1>3, <1>4

LEMMA ReturnOK == ASSUME PInv, NEW verdict \in 0..1, Return(verdict) PROVE PInv'
<1>1. /\ cfg' = cfg /\ ctx' = ctx /\ discovered' = discovered /\ scope' = scope /\ tries' = tries
      /\ status' = status /\ missed' = missed /\ passedOver' = passedOver /\ held' = held /\ child' = child /\ stream' = stream /\ faults' = faults
      /\ report' = report /\ stage = "exit" /\ stage' = "returned" /\ exitCode' = ExitCode(verdict)
  BY DEF Return, pyVars
<1>2. Rank(stage) = 15 /\ Rank(stage') = 16 /\ stage' \in Stages /\ child.state # "running"
  BY <1>1, Ranks, StageNames DEF PInv, ProcessOK
<1>3. exitCode' \in {0, 1, 2}
  BY <1>1 DEF ExitCode
<1>4. TypeOK'
  BY <1>1, <1>2, <1>3 DEF PInv, TypeOK
<1>5. Context' /\ Retries'
  BY <1>1, <1>2, SameContext, SameRetries
<1>6. ProcessOK' /\ Children' /\ MissedTold' /\ PythonOkIsWhole'
  BY <1>1, <1>2, FrameSame
<1>7. Counts'
  BY <1>1 DEF Counts
<1>8. Ended'
  <2>1. report /\ Once
    BY <1>1 DEF PInv, Ended
  <2>2. Once'
    BY <1>1, <2>1 DEF Once, RecordedTwice, DiffEmpty
  <2>3. exitCode' # 2 => /\ RequiredGaps = {} /\ ("scanner_error" \in cfg.gates => ~HasFailure)
                         /\ ("coverage_gap" \in cfg.gates => ConfiguredComplete)
    BY <1>1 DEF ExitCode
  <2>4. RequiredGaps' = RequiredGaps /\ HasFailure' = HasFailure /\ ConfiguredComplete' = ConfiguredComplete
    BY <1>1 DEF RequiredGaps, HasFailure, ConfiguredComplete, Gaps, Entries
  <2> QED BY <1>1, <2>1, <2>2, <2>3, <2>4 DEF Ended, Passed
<1> QED BY <1>4, <1>5, <1>6, <1>7, <1>8 DEF PInv

LEMMA EndContextOK == ASSUME PInv, NEW why \in {"deadline", "interrupted"}, EndContext(why) PROVE PInv'
<1>1. /\ cfg' = cfg /\ ctx' = why /\ ctx = "live" /\ discovered' = discovered /\ scope' = scope /\ tries' = tries
      /\ status' = status /\ missed' = missed /\ passedOver' = passedOver /\ held' = held /\ child' = child /\ stream' = stream /\ faults' = faults
      /\ report' = report /\ stage' = stage /\ exitCode' = exitCode
  BY DEF EndContext, pyVars
<1>2. stage' \in Stages /\ Rank(stage) <= Rank(stage') /\ (child.state = "running" => stage' = "python-engine")
  <2>1. stage \in Stages /\ Rank(stage) \in 1..16
    BY RankTypes DEF PInv, TypeOK
  <2> QED BY <1>1, <2>1 DEF PInv, ProcessOK
<1>3. TypeOK'
  BY <1>1 DEF PInv, TypeOK, ContextEnds
<1>4. Context' /\ Retries'
  BY <1>1, <1>2, SameContext, SameRetries
<1>5. ProcessOK' /\ Children' /\ MissedTold' /\ PythonOkIsWhole'
  BY <1>1, <1>2, FrameSame
<1>6. Counts'
  BY <1>1 DEF PInv, Counts, Expected, Validated, Unchanged, Own, Skip, DependencySkip, FileSkip, DiffEmpty,
              CodeConfigured, CodeUsable
<1>7. Ended'
  BY <1>1 DEF PInv, Ended, Passed, Once, RecordedTwice, DiffEmpty, RequiredGaps, HasFailure,
              ConfiguredComplete, Gaps, Entries
<1> QED BY <1>3, <1>4, <1>5, <1>6, <1>7 DEF PInv

-----------------------------------------------------------------------------
LEMMA InitOK == ASSUME Init PROVE PInv
<1>1. /\ cfg \in Scans /\ stage = "discover" /\ ctx = "live" /\ scope = [full |-> TRUE, files |-> {}]
      /\ discovered = [endpoints |-> FALSE, specErr |-> FALSE]
      /\ tries = [a \in Dependencies |-> <<>>] /\ status = [n \in Registry |-> <<>>]
      /\ missed = {} /\ passedOver = {} /\ held = FALSE /\ report = FALSE /\ exitCode = NoCode
      /\ child = NoChild /\ stream = EmptyStream /\ faults = 0
  BY DEF Init
<1>2. Rank(stage) = 1 /\ stage \in Stages
  BY <1>1, Ranks, StageNames
<1>3. /\ child \in ChildRecord /\ child.at = 1 /\ child.state = "none" /\ child.protocol = 2
      /\ stream \in StreamRecord /\ stream.checks = <<>> /\ stream.sawDone = FALSE /\ stream.protocol = 0
  BY <1>1, FaultsAssumption DEF NoChild, ChildRecord, Plans, EmptyStream, StreamRecord
<1>4. Shape
  <2>1. Lines
    BY <1>3 DEF Lines
  <2> QED BY <1>3, <2>1 DEF Shape, ChildType, DoneLine
<1>5. TypeOK
  <2>1. child.state \in {"none", "running", "exited"} /\ child.at \in 1..Printed /\ child.printed \in 0..MaxFindings
        /\ faults \in 0..MaxFaults
    BY <1>1, <1>3, FaultsAssumption, Numbers DEF ChildRecord
  <2>2. tries \in [Dependencies -> Seq(DependencyOutcomes)] /\ status \in [Registry -> Seq(Entry)]
    BY <1>1
  <2> QED BY <1>1, <1>2, <2>1, <2>2 DEF TypeOK, Entry
<1>6. Context /\ Retries
  BY <1>1, <1>2 DEF Context, Retries
<1>7. Counts
  <2>1. ASSUME NEW n \in BaseAnalyzers PROVE Len(status[n]) = Expected(n)
    <3>1. Len(status[n]) = 0
      BY <1>1, Analyzers
    <3>2. n \in CodeAnalyzers => Rank(n) \in 5..10
      BY RankTypes
    <3>3. Expected(n) = 0
      BY <1>1, <1>2, <3>2 DEF Expected, Validated, Unchanged, Own, DiffEmpty, RecordedAt
    <3> QED BY <3>1, <3>3
  <2> QED BY <2>1 DEF Counts
<1>8. ProcessOK
  BY <1>2, <1>3, <1>4 DEF ProcessOK
<1>9. Children
  <2>1. \A n \in PythonChildren : status[n] = <<>>
    BY <1>1, Analyzers
  <2> QED BY <2>1 DEF Children
<1>10. MissedTold /\ Ended
  BY <1>1 DEF MissedTold, Ended, Passed
<1>11. PythonOkIsWhole
  <2>1. Entries("python-engine") = {}
    BY <1>1, Analyzers DEF Entries
  <2> QED BY <2>1 DEF PythonOkIsWhole
<1> QED BY <1>5, <1>6, <1>7, <1>8, <1>9, <1>10, <1>11 DEF PInv

LEMMA RunStepOK == ASSUME PInv, RunStep PROVE PInv'
<1>1. CASE Abort
  BY <1>1, AbortOK
<1>2. CASE \E endpoints, specErr \in BOOLEAN : Discover(endpoints, specErr)
  BY <1>2, DiscoverOK
<1>3. CASE \E refused, cut \in BOOLEAN, probes \in {"none", "answered", "silent"},
              unanswered \in SUBSET {"dast", "active-probes"} : Sweep(refused, cut, probes, unanswered)
  BY <1>3, SweepOK
<1>4. CASE ValidateCode
  BY <1>4, ValidateCodeOK
<1>5. CASE NoDiff
  BY <1>5, NoDiffOK
<1>6. CASE \E listed \in BOOLEAN : ResolveDiff(listed)
  BY <1>6, ResolveDiffOK
<1>7. CASE \E a \in Dependencies : SkipDependency(a)
  BY <1>7, SkipDependencyOK
<1>8. CASE \E a \in Dependencies, outcome \in DependencyOutcomes : AttemptDependency(a, outcome)
  BY <1>8, AttemptDependencyOK
<1>9. CASE \E a \in Dependencies : GiveUpRetry(a)
  BY <1>9, GiveUpRetryOK
<1>10. CASE \E a \in FileScanners : SkipFiles(a)
  BY <1>10, SkipFilesOK
<1>11. CASE \E a \in FileScanners : \E outcome \in FileOutcomes(a) : ScanFiles(a, outcome)
  BY <1>11, ScanFilesOK
<1>12. CASE SkipPython
  BY <1>12, SkipPythonOK
<1>13. CASE \E why \in {"dependency_missing", "execution_error"} : NoPython(why)
  BY <1>13, NoPythonOK
<1>14. CASE StartPython
  BY <1>14, StartPythonOK
<1>15. CASE KillPython
  BY <1>15, PythonWorksOK DEF KillPython
<1>16. CASE PythonReturns
  BY <1>16, PythonReturnsOK
<1>17. CASE \E outcome \in {"disabled", "undiscoverable", "none", "all_ran", "some_failed"}, dropped \in BOOLEAN :
           Plugins(outcome, dropped)
  BY <1>17, PluginsOK
<1>18. CASE \E parsed \in BOOLEAN : Imports(parsed)
  BY <1>18, ImportsOK
<1>19. CASE \E rendered \in BOOLEAN : Finalize(rendered)
  BY <1>19, FinalizeOK
<1>20. CASE \E verdict \in 0..1 : Return(verdict)
  BY <1>20, ReturnOK
<1> QED
  BY <1>1, <1>2, <1>3, <1>4, <1>5, <1>6, <1>7, <1>8, <1>9, <1>10, <1>11, <1>12, <1>13, <1>14, <1>15,
     <1>16, <1>17, <1>18, <1>19, <1>20 DEF RunStep

(* A tool's output that is held, or let go of, is all that changes.         *)
LEMMA AsideOK ==
  ASSUME PInv, cfg' = cfg, ctx' = ctx, discovered' = discovered, scope' = scope, tries' = tries,
         status' = status, missed' = missed, passedOver' = passedOver, child' = child, stream' = stream,
         report' = report, stage' = stage, exitCode' = exitCode, held' \in BOOLEAN, faults' \in 0..MaxFaults
  PROVE  PInv'
<1>2. stage' \in Stages /\ Rank(stage) <= Rank(stage') /\ (child.state = "running" => stage' = "python-engine")
  <2>1. stage \in Stages /\ Rank(stage) \in 1..16
    BY RankTypes DEF PInv, TypeOK
  <2> QED BY <2>1 DEF PInv, ProcessOK
<1>3. TypeOK'
  BY DEF PInv, TypeOK
<1>4. Context' /\ Retries'
  <2>1. Rank(stage') <= 2 => ctx' # "budget"
    BY DEF PInv, Context
  <2> QED BY <1>2, <2>1, SameContext, SameRetries
<1>5. ProcessOK' /\ Children' /\ MissedTold' /\ PythonOkIsWhole'
  BY <1>2, FrameSame
<1>6. Counts'
  BY DEF PInv, Counts, Expected, Validated, Unchanged, Own, Skip, DependencySkip, FileSkip, DiffEmpty,
              CodeConfigured, CodeUsable
<1>7. Ended'
  BY DEF PInv, Ended, Passed, Once, RecordedTwice, DiffEmpty, RequiredGaps, HasFailure,
              ConfiguredComplete, Gaps, Entries
<1> QED BY <1>3, <1>4, <1>5, <1>6, <1>7 DEF PInv

LEMMA StutterOK == ASSUME PInv, UNCHANGED vars PROVE PInv'
<1>1. held' \in BOOLEAN /\ faults' \in 0..MaxFaults
  BY DEF vars, pyVars, PInv, TypeOK
<1> QED BY <1>1, AsideOK DEF vars, pyVars

LEMMA OrphanOK == ASSUME PInv, OrphanHolds \/ OrphanExits PROVE PInv'
<1>1. held' \in BOOLEAN
  BY DEF OrphanHolds, OrphanExits
<1>2. faults' \in 0..MaxFaults
  <2>1. faults' = faults \/ Spend(TRUE)
    BY DEF OrphanHolds, OrphanExits, pyVars
  <2> QED BY <2>1, SpendTyped DEF PInv, TypeOK
<1>3. /\ cfg' = cfg /\ ctx' = ctx /\ discovered' = discovered /\ scope' = scope /\ tries' = tries
      /\ status' = status /\ missed' = missed /\ passedOver' = passedOver /\ child' = child
      /\ stream' = stream /\ report' = report /\ stage' = stage /\ exitCode' = exitCode
  BY DEF OrphanHolds, OrphanExits, pyVars
<1> QED BY <1>1, <1>2, <1>3, AsideOK

(* Every step of a scan, of its Python child and of its context keeps the   *)
(* invariant: nothing is left undone that the list does not tell.           *)
THEOREM Invariance == Spec => []PInv
<1>1. Init => PInv
  BY InitOK
<1>2. PInv /\ [Next]_vars => PInv'
  <2>1. SUFFICES ASSUME PInv, [Next]_vars PROVE PInv'
    OBVIOUS
  <2>2. CASE RunStep
    BY <2>1, <2>2, RunStepOK
  <2>3. CASE PythonStep
    BY <2>1, <2>3, PythonWorksOK DEF PythonStep
  <2>4. CASE \E why \in {"deadline", "interrupted"} : EndContext(why)
    BY <2>1, <2>4, EndContextOK
  <2>5. CASE UNCHANGED vars
    BY <2>1, <2>5, StutterOK
  <2>6. CASE OrphanHolds \/ OrphanExits
    BY <2>1, <2>6, OrphanOK
  <2> QED BY <2>1, <2>2, <2>3, <2>4, <2>5, <2>6 DEF Next
<1> QED BY <1>1, <1>2, PTL DEF Spec

(* A gap is a failure or something that is not installed.                   *)
LEMMA GapReasons == \A r \in Reasons : IsGap(r) => r \in FailReasons \/ r = "dependency_missing"
BY DEF IsGap, Class, Reasons, SkipReasons, FailReasons

LEMMA FailuresAreGaps == \A r \in FailReasons : IsGap(r)
BY DEF IsGap, Class, FailReasons

LEMMA OncePerRegistry == ASSUME PInv PROVE OneEntryEach
<1>1. ASSUME Covered PROVE Once
  <2>1. CASE stage \in {"imports", "finalize", "exit"}
    BY <2>1, OnceAtTheEnd, Ranks
  <2>2. CASE report
    BY <2>2 DEF PInv, Ended
  <2> QED BY <1>1, <2>1, <2>2 DEF Covered
<1> QED BY <1>1 DEF OneEntryEach, Once

LEMMA Recorded == ASSUME PInv PROVE GapsAreRecorded
<1>1. Entries("python-engine") \cap FailReasons # {} => "python-engine" \in Gaps
  BY FailuresAreGaps, Analyzers DEF Gaps
<1> QED BY <1>1, OncePerRegistry DEF PInv, MissedTold, GapsAreRecorded

LEMMA Gated == ASSUME PInv PROVE GatesHold
<1>1. SUFFICES ASSUME Passed
               PROVE  /\ report
                      /\ "coverage_gap" \in cfg.gates => \A n \in missed : Silent(n)
                      /\ "scanner_error" \in cfg.gates =>
                           \A n \in missed : Silent(n) \/ "dependency_missing" \in Entries(n)
                      /\ \A n \in cfg.required :
                           n \notin missed \/ Silent(n) \/ (RecordedTwice /\ n \in FileScanners)
  BY DEF GatesHold
<1>2. /\ report /\ Once /\ RequiredGaps = {}
      /\ "scanner_error" \in cfg.gates => ~HasFailure
      /\ "coverage_gap" \in cfg.gates => ConfiguredComplete
  BY <1>1 DEF PInv, Ended
<1>3. \A n \in missed : \/ n \in Gaps
                        \/ n \in PythonChildren /\ status[n] = <<>> /\ Entries("python-engine") \cap FailReasons # {}
                        \/ Silent(n)
  BY DEF PInv, MissedTold
<1>4. "python-engine" \in Registry /\ missed \subseteq Registry /\ cfg.required \subseteq Registry
  BY Analyzers, ScansAssumption DEF PInv, TypeOK, ScanType
<1>5. \A n \in Registry : status[n] \in Seq(Entry)
  BY DEF PInv, TypeOK, Entry
<1>6. \A n \in Registry : Entries(n) \subseteq Reasons
  <2>1. ASSUME NEW n \in Registry, NEW i \in DOMAIN status[n] PROVE status[n][i].reason \in Reasons
    <3>1. status[n][i] \in Entry
      BY <1>5
    <3> QED BY <3>1 DEF Entry
  <2> QED BY <2>1 DEF Entries
<1>7. ASSUME "coverage_gap" \in cfg.gates, NEW n \in missed PROVE Silent(n)
  <2>1. Gaps = {}
    BY <1>2, <1>7 DEF ConfiguredComplete
  <2>2. Entries("python-engine") \cap FailReasons = {}
    BY <1>4, <2>1, FailuresAreGaps DEF Gaps
  <2> QED BY <1>3, <2>1, <2>2
<1>8. ASSUME "scanner_error" \in cfg.gates, NEW n \in missed
      PROVE  Silent(n) \/ "dependency_missing" \in Entries(n)
  <2>1. \A m \in Registry : Entries(m) \cap FailReasons = {}
    BY <1>2, <1>8 DEF HasFailure
  <2>2. n \in Gaps => "dependency_missing" \in Entries(n)
    BY <1>6, <2>1, GapReasons DEF Gaps
  <2> QED BY <1>3, <1>4, <2>1, <2>2
<1>9. ASSUME NEW n \in cfg.required, n \in missed, ~Silent(n) PROVE RecordedTwice /\ n \in FileScanners
  <2>1. PICK list : list = status[n] /\ list \in Seq(Entry)
    BY <1>4, <1>5
  <2>2. list # <<>> /\ Class(list[Len(list)].reason) \in {"ok", "not_applicable"}
    BY <1>2, <2>1 DEF RequiredGaps
  <2>3. ~IsGap(list[Len(list)].reason)
    BY <2>2 DEF IsGap
  <2>4. n \in Gaps
    BY <1>3, <1>9, <2>1, <2>2
  <2>5. PICK i \in DOMAIN list : IsGap(list[i].reason)
    BY <2>1, <2>4 DEF Gaps, Entries
  <2>6. Len(list) # 1 /\ Len(list) \in Nat /\ Len(list) # 0
    <3>1. i \in 1..Len(list) /\ i # Len(list)
      BY <2>1, <2>3, <2>5
    <3>2. Len(list) = 1 => i = 1
      BY <3>1
    <3> QED BY <2>1, <2>2, <3>1, <3>2, Empty
  <2>7. n \in BaseAnalyzers
    <3>1. n \in PythonChildren => Len(list) <= 1
      BY <1>2, <2>1 DEF Once
    <3>2. PICK k : k = Len(list)
      OBVIOUS
    <3>3. k \in Nat /\ k # 0 /\ k # 1
      BY <2>6, <3>2
    <3>4. ~(k <= 1)
      BY <3>3
    <3>5. n \notin PythonChildren
      BY <3>1, <3>2, <3>4
    <3> QED BY <1>4, <3>5, Analyzers
  <2> QED BY <1>2, <2>1, <2>6, <2>7 DEF Once
<1> QED BY <1>2, <1>7, <1>8, <1>9

(* The scan's state is always well formed: the status list names registry   *)
(* names only, with known reasons and one or two attempts.                  *)
THEOREM TypeCorrect == Spec => []TypeOK
<1>1. PInv => TypeOK
  BY DEF PInv
<1> QED BY <1>1, Invariance, PTL

(* registry.go: each base analyzer has exactly one entry on every finished  *)
(* scan, apart from the file scanners of a --code that cannot be listed     *)
(* under an empty diff, and a Python check at most one, after its engine    *)
(* has exited.                                                              *)
THEOREM EachAnalyzerOnce == Spec => []OneEntryEach
<1>1. PInv => OneEntryEach
  BY OncePerRegistry
<1> QED BY <1>1, Invariance, PTL

(* Orchestrator.Run leaves no work undone without a gap entry in the status *)
(* list, or a failed parent, but in the cases Silent names: an interrupted  *)
(* sweep, a spec's own server without --url, a bare --diff, a Python tree   *)
(* older than protocol 2, and an analyzer that passed over a part of its    *)
(* input, as pip does with a manifest it cannot read.                       *)
THEOREM NothingLostSilently == Spec => []GapsAreRecorded
<1>1. PInv => GapsAreRecorded
  BY Recorded
<1> QED BY <1>1, Invariance, PTL

(* exitCode: a scan that returns 0 or 1 under a --fail-on gate or with a    *)
(* required analyzer had no work of that kind left undone.                  *)
THEOREM GatesAreFirm == Spec => []GatesHold
<1>1. PInv => GatesHold
  BY Gated
<1> QED BY <1>1, Invariance, PTL

(* recordPythonEngine: an ok for the engine means that the spawner read     *)
(* everything the child printed, to its done line and a clean exit.         *)
THEOREM OkEngineIsWhole == Spec => []PythonOkIsWhole
<1>1. PInv => PythonOkIsWhole
  BY DEF PInv
<1> QED BY <1>1, Invariance, PTL
=============================================================================
