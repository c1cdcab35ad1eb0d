--------------------------- MODULE PublicationProofs ---------------------------
(***************************************************************************)
(* That a managed job passes or fails only on the backend's decision about *)
(* its own evidence, and that a sync puts each occurrence on one issue, for*)
(* any number of jobs, any scans, documents, reports, ceilings and budgets.*)
(***************************************************************************)
EXTENDS Publication, FiniteSetTheorems, TLAPS

Stages == {"context", "scan", "submit", "posting", "polling", "asleep", "ended"}
Record(a, s, st, g) == [artifact |-> a, submission |-> s, state |-> st, gate |-> g]
Typed ==
  /\ at \in [Jobs -> Stages]
  /\ doc = [j \in Jobs |-> doc[j]] /\ exit = [j \in Jobs |-> exit[j]]
  /\ target = [j \in Jobs |-> target[j]]
  /\ backend = [k \in DOMAIN backend |-> backend[k]]
  /\ \A k \in DOMAIN backend :
       backend[k] = Record(backend[k].artifact, backend[k].submission, backend[k].state, backend[k].gate)

(* A job holds one document from its scan on, under an id of its own.       *)
Owns(j) == /\ at[j] \in {"context", "scan"} => doc[j] = {}
           /\ at[j] \in {"submit", "posting", "polling", "asleep"} => doc[j] # {}
           /\ doc[j] # {} => \E d : doc[j] = {d} /\ d.submission = j
(* A submission id, in a record or on its way to one, is that of the job    *)
(* whose document has the key: two keys never share an id.                  *)
OwnedBy(submission, key) ==
  submission \in Jobs /\ doc[submission] # {} /\ \A e \in doc[submission] : e.key = key
OneOwner ==
  /\ \A k \in DOMAIN backend : OwnedBy(backend[k].submission, k)
  /\ \A d \in late : OwnedBy(d.submission, d.key)
(* A job polls for the record that holds its own evidence.                  *)
Recorded(d) == d.key \in DOMAIN backend /\ backend[d.key].artifact = d.artifact
PollsItsOwn(j) ==
  at[j] \in {"polling", "asleep"} =>
    \A d \in doc[j] : Recorded(d) /\ target[j] = {backend[d.key].submission}
(* A job that passed or failed did so on that record's decision.            *)
Decided(d, code) == /\ Recorded(d) /\ backend[d.key].state = "completed"
                    /\ (backend[d.key].gate = "fail" <=> code = 1)
EndedAsDecided(j) ==
  at[j] = "ended" /\ exit[j] \in {0, 1} =>
    doc[j] # {} /\ \A d \in doc[j] : Decided(d, exit[j])
JobInv(j) == Owns(j) /\ PollsItsOwn(j) /\ EndedAsDecided(j)
PInv == Typed /\ OneOwner /\ \A j \in Jobs : JobInv(j)

(* What the backend holds stays, and a decision is final.                   *)
Kept == \A k \in DOMAIN backend :
          /\ k \in DOMAIN backend'
          /\ backend'[k].artifact = backend[k].artifact
          /\ backend'[k].submission = backend[k].submission
          /\ backend[k].state = "completed" => backend'[k] = backend[k]

-----------------------------------------------------------------------------
(* An exported document carries the id it was exported under.               *)
LEMMA ExportShape ==
  ASSUME NEW c, NEW evs, NEW ex, NEW s, NEW dur, Export(c, evs, ex, s, dur) # {}
  PROVE  \E d : Export(c, evs, ex, s, dur) = {d} /\ d.submission = s
<1>1. ASSUME NEW an, NEW fi, Build(c, an, fi, s, dur) # {}
      PROVE  \E d : Build(c, an, fi, s, dur) = {d} /\ d.submission = s
  <2>1. Submission(c, an, fi, s, dur).submission = s
    BY DEF Submission
  <2> QED BY <1>1, <2>1 DEF Build
<1> QED BY <1>1 DEF Export

(* The document a job holds is the one in its singleton.                    *)
LEMMA DocumentOf ==
  ASSUME PInv, NEW j \in Jobs, doc[j] # {}
  PROVE  doc[j] = {Document(j)} /\ Document(j).submission = j
BY DEF PInv, JobInv, Owns, Document

(* A document that is received gets a record, or meets the one of its key.  *)
LEMMA ReceivedShape ==
  ASSUME PInv, NEW d, backend' = Received(d), OwnedBy(d.submission, d.key)
  PROVE  /\ Kept
         /\ DOMAIN backend' = DOMAIN backend \cup {d.key}
         /\ backend' = [k \in DOMAIN backend' |-> backend'[k]]
         /\ \A k \in DOMAIN backend' :
              /\ backend'[k] = Record(backend'[k].artifact, backend'[k].submission, backend'[k].state, backend'[k].gate)
              /\ OwnedBy(backend'[k].submission, k)
         /\ ~Conflict(d) => backend'[d.key].artifact = d.artifact
<1>1. CASE Known(d)
  BY <1>1 DEF PInv, Typed, OneOwner, Received, Known, Conflict, Kept
<1>2. CASE ~Known(d)
  <2> DEFINE new == Record(d.artifact, d.submission, "received", "")
  <2>1. backend' = [k \in DOMAIN backend \cup {d.key} |-> IF k \in DOMAIN backend THEN backend[k] ELSE new]
    BY <1>2 DEF Received, Record
  <2>2. new = Record(new.artifact, new.submission, new.state, new.gate)
        /\ new.artifact = d.artifact /\ new.submission = d.submission
    BY DEF Record
  <2> HIDE DEF new
  <2>3. d.key \notin DOMAIN backend
    BY <1>2 DEF Known
  <2> QED BY <2>1, <2>2, <2>3 DEF PInv, Typed, OneOwner, Kept
<1> QED BY <1>1, <1>2

(* A job an action says nothing of keeps its invariant.                     *)
LEMMA Frame ==
  ASSUME PInv, Kept, NEW i \in Jobs,
         at'[i] = at[i], doc'[i] = doc[i], exit'[i] = exit[i], target'[i] = target[i]
  PROVE  JobInv(i)'
<1>1. Owns(i)'
  BY DEF PInv, JobInv, Owns
<1>2. ASSUME NEW d, Recorded(d)
      PROVE  /\ Recorded(d)'
             /\ backend'[d.key].submission = backend[d.key].submission
             /\ backend[d.key].state = "completed" => backend'[d.key] = backend[d.key]
  BY <1>2 DEF Kept, Recorded
<1>3. PollsItsOwn(i)'
  BY <1>2 DEF PInv, JobInv, PollsItsOwn
<1>4. EndedAsDecided(i)'
  <2>1. ASSUME at[i] = "ended", exit[i] \in {0, 1}
        PROVE  doc[i] # {} /\ \A d \in doc[i] : Decided(d, exit[i])
    BY <2>1 DEF PInv, JobInv, EndedAsDecided
  <2>2. ASSUME NEW d, NEW code, Decided(d, code)
        PROVE  /\ Recorded(d)' /\ backend'[d.key].state = "completed"
               /\ (backend'[d.key].gate = "fail" <=> code = 1)
    BY <1>2, <2>2 DEF Decided
  <2> QED BY <2>1, <2>2 DEF EndedAsDecided, Decided
<1> QED BY <1>1, <1>3, <1>4 DEF JobInv

(* A submission id keeps its owner while documents keep their keys.         *)
LEMMA OwnersStay ==
  ASSUME PInv, NEW s, NEW k, OwnedBy(s, k),
         \A j \in Jobs : doc[j] # {} =>
           doc'[j] # {} /\ \A e \in doc'[j] : \E d \in doc[j] : d.key = e.key
  PROVE  OwnedBy(s, k)'
BY DEF OwnedBy

(* The steps of a job that leave the backend and its document alone.        *)
LEMMA QuietStep ==
  ASSUME PInv, NEW j \in Jobs, UNCHANGED <<doc, late, backend>>, Typed',
         \A i \in Jobs \ {j} : at'[i] = at[i] /\ exit'[i] = exit[i] /\ target'[i] = target[i],
         JobInv(j)'
  PROVE  PInv'
<1>1. Kept
  BY DEF Kept
<1>2. \A i \in Jobs \ {j} : JobInv(i)'
  BY <1>1, Frame
<1>3. OneOwner'
  BY DEF PInv, OneOwner, OwnedBy
<1> QED BY <1>2, <1>3 DEF PInv

LEMMA EndedWithoutDecision ==
  ASSUME PInv, NEW j \in Jobs, End(j, NoDecision), UNCHANGED <<doc, backend>>, at[j] \notin {"context", "scan"} \/ doc[j] = {}
  PROVE  JobInv(j)' /\ at' \in [Jobs -> Stages] /\ exit' = [i \in Jobs |-> exit'[i]]
<1>1. at'[j] = "ended" /\ exit'[j] = 2 /\ at' \in [Jobs -> Stages] /\ exit' = [i \in Jobs |-> exit'[i]]
  BY DEF PInv, Typed, End, Become, NoDecision, Stages
<1> QED BY <1>1 DEF PInv, JobInv, Owns, PollsItsOwn, EndedAsDecided
-----------------------------------------------------------------------------
LEMMA MakeContextStep == ASSUME PInv, NEW j \in Jobs, MakeContext(j) PROVE PInv'
<1>1. PICK env \in Envs : IF ContextFromEnv(env) = {} THEN End(j, NoDecision) ELSE Become(j, "scan") /\ UNCHANGED exit
  BY DEF MakeContext
<1>2. at[j] = "context" /\ doc[j] = {} /\ UNCHANGED <<doc, target, late, backend>>
  BY DEF MakeContext, PInv, JobInv, Owns
<1>3. CASE End(j, NoDecision)
  <2>1. JobInv(j)' /\ at' \in [Jobs -> Stages] /\ exit' = [i \in Jobs |-> exit'[i]]
    BY <1>2, <1>3, EndedWithoutDecision
  <2>2. Typed'
    BY <1>2, <2>1 DEF PInv, Typed
  <2> QED BY <1>2, <1>3, <2>1, <2>2, QuietStep DEF End, Become, PInv, Typed
<1>4. CASE Become(j, "scan") /\ UNCHANGED exit
  <2>1. Typed'
    BY <1>2, <1>4 DEF PInv, Typed, Become, Stages
  <2>2. JobInv(j)'
    BY <1>2, <1>4 DEF PInv, Typed, Become, JobInv, Owns, PollsItsOwn, EndedAsDecided
  <2> QED BY <1>2, <1>4, <2>1, <2>2, QuietStep DEF Become, PInv, Typed
<1> QED BY <1>1, <1>3, <1>4

(* The document a scan writes has an id no record and no late post bears.   *)
LEMMA ScanStep == ASSUME PInv, NEW j \in Jobs, Scan(j) PROVE PInv'
<1>1. at[j] = "scan" /\ doc[j] = {} /\ UNCHANGED <<target, late, backend>>
  BY DEF Scan, PInv, JobInv, Owns
<1>2. PICK d : IF d = {} THEN End(j, NoDecision) /\ UNCHANGED doc
               ELSE /\ doc' = [doc EXCEPT ![j] = d] /\ Become(j, "submit") /\ UNCHANGED exit
                    /\ \E e : d = {e} /\ e.submission = j
  <2> DEFINE c == CHOOSE c \in context[j] : TRUE
  <2>1. PICK evs \in Scans, executions \in Executions, duration \in Durations :
          LET d == Export(c, evs, executions, j, duration)
          IN  IF d = {} THEN End(j, NoDecision) /\ UNCHANGED doc
              ELSE doc' = [doc EXCEPT ![j] = d] /\ Become(j, "submit") /\ UNCHANGED exit
    BY DEF Scan
  <2> HIDE DEF c
  <2> QED BY <2>1, ExportShape
<1>3. CASE End(j, NoDecision) /\ UNCHANGED doc
  <2>1. JobInv(j)' /\ at' \in [Jobs -> Stages] /\ exit' = [i \in Jobs |-> exit'[i]]
    BY <1>1, <1>3, EndedWithoutDecision
  <2>2. Typed'
    BY <1>1, <1>3, <2>1 DEF PInv, Typed
  <2> QED BY <1>1, <1>3, <2>1, <2>2, QuietStep DEF End, Become, PInv, Typed
<1>4. ASSUME NEW e, doc' = [doc EXCEPT ![j] = {e}], e.submission = j, Become(j, "submit"), UNCHANGED exit
      PROVE  PInv'
  <2>1. Typed'
    BY <1>1, <1>4 DEF PInv, Typed, Become, Stages
  <2>2. doc'[j] = {e} /\ at'[j] = "submit"
    BY <1>4 DEF PInv, Typed, Become
  <2>3. JobInv(j)'
    BY <1>4, <2>2 DEF JobInv, Owns, PollsItsOwn, EndedAsDecided
  <2>4. \A i \in Jobs \ {j} : at'[i] = at[i] /\ doc'[i] = doc[i] /\ exit'[i] = exit[i] /\ target'[i] = target[i]
    BY <1>1, <1>4 DEF PInv, Typed, Become
  <2>5. Kept
    BY <1>1 DEF Kept
  <2>6. \A i \in Jobs \ {j} : JobInv(i)'
    BY <2>4, <2>5, Frame
  <2>7. ASSUME NEW s, NEW k, OwnedBy(s, k) PROVE OwnedBy(s, k)'
    BY <1>1, <2>4, <2>7 DEF OwnedBy
  <2>8. OneOwner'
    BY <1>1, <2>7 DEF PInv, OneOwner
  <2> QED BY <2>1, <2>3, <2>6, <2>8 DEF PInv
<1> QED BY <1>2, <1>3, <1>4

LEMMA EditStep == ASSUME PInv, NEW j \in Jobs, Edit(j) PROVE PInv'
<1>1. at[j] = "submit" /\ UNCHANGED <<at, target, exit, late, backend>> /\ doc[j] # {}
  BY DEF Edit, PInv, JobInv, Owns
<1>2. doc[j] = {Document(j)} /\ Document(j).submission = j
  BY <1>1, DocumentOf
<1>3. PICK e : doc' = [doc EXCEPT ![j] = {e}] /\ e.key = Document(j).key /\ e.submission = Document(j).submission
  <2>1. PICK d \in Edited : doc' = [doc EXCEPT ![j] =
          {[key |-> Document(j).key, submission |-> Document(j).submission, artifact |-> d.artifact,
            findings |-> d.findings, analyzers |-> d.analyzers, bytes |-> d.bytes]}]
    BY DEF Edit
  <2> DEFINE e == [key |-> Document(j).key, submission |-> Document(j).submission, artifact |-> d.artifact,
                   findings |-> d.findings, analyzers |-> d.analyzers, bytes |-> d.bytes]
  <2>2. e.key = Document(j).key /\ e.submission = Document(j).submission
    OBVIOUS
  <2>3. doc' = [doc EXCEPT ![j] = {e}]
    BY <2>1
  <2> HIDE DEF e
  <2> QED BY <2>2, <2>3
<1>4. Typed'
  BY <1>1, <1>3 DEF PInv, Typed
<1>5. doc'[j] = {e} /\ \A i \in Jobs \ {j} : doc'[i] = doc[i]
  BY <1>3 DEF PInv, Typed
<1>6. JobInv(j)'
  BY <1>1, <1>2, <1>3, <1>5 DEF JobInv, Owns, PollsItsOwn, EndedAsDecided
<1>7. \A i \in Jobs \ {j} : JobInv(i)'
  BY <1>1, <1>5, Frame DEF Kept
<1>8. ASSUME NEW s, NEW k, OwnedBy(s, k) PROVE OwnedBy(s, k)'
  BY <1>2, <1>3, <1>5, <1>8, OwnersStay
<1>9. OneOwner'
  BY <1>1, <1>8 DEF PInv, OneOwner
<1> QED BY <1>4, <1>6, <1>7, <1>9 DEF PInv
(* A step that moves the job between stages that poll for nothing.          *)
LEMMA MoveStep ==
  ASSUME PInv, NEW j \in Jobs, UNCHANGED <<doc, target, late, backend>>, NEW next,
         Become(j, next), next \in {"submit", "posting"}, doc[j] # {},
         exit' = [exit EXCEPT ![j] = exit'[j]]
  PROVE  PInv'
<1>1. Typed'
  BY DEF PInv, Typed, Become, Stages
<1>2. at'[j] = next
  BY DEF PInv, Typed, Become
<1>3. JobInv(j)'
  BY <1>2 DEF PInv, JobInv, Owns, PollsItsOwn, EndedAsDecided
<1> QED BY <1>1, <1>3, QuietStep DEF PInv, Typed, Become

(* A step that ends the job without a decision.                             *)
LEMMA FailStep ==
  ASSUME PInv, NEW j \in Jobs, End(j, NoDecision), UNCHANGED <<doc, late, backend>>,
         at[j] \notin {"context", "scan"}, target' = [target EXCEPT ![j] = target'[j]]
  PROVE  PInv'
<1>1. JobInv(j)' /\ at' \in [Jobs -> Stages] /\ exit' = [i \in Jobs |-> exit'[i]]
  BY EndedWithoutDecision
<1>2. Typed'
  BY <1>1 DEF PInv, Typed
<1> QED BY <1>1, <1>2, QuietStep DEF End, Become, PInv, Typed

LEMMA SubmitStep == ASSUME PInv, NEW j \in Jobs, Submit(j) PROVE PInv'
<1>1. at[j] = "submit" /\ doc[j] # {} /\ UNCHANGED <<doc, target, late, backend>>
  BY DEF Submit, PInv, JobInv, Owns
<1>2. CASE End(j, NoDecision)
  BY <1>1, <1>2, FailStep DEF PInv, Typed
<1>3. CASE Become(j, "posting") /\ UNCHANGED exit
  BY <1>1, <1>3, MoveStep DEF PInv, Typed
<1> QED BY <1>2, <1>3 DEF Submit

LEMMA RerunStep == ASSUME PInv, NEW j \in Jobs, Rerun(j) PROVE PInv'
BY MoveStep DEF Rerun, PInv, Typed

LEMMA WakeStep == ASSUME PInv, NEW j \in Jobs, Wake(j) PROVE PInv'
<1>1. at[j] = "asleep" /\ at' = [at EXCEPT ![j] = "polling"] /\ UNCHANGED <<doc, target, exit, late, backend>>
  BY DEF Wake, Become
<1>2. Typed' /\ at'[j] = "polling"
  BY <1>1 DEF PInv, Typed, Stages
<1>3. JobInv(j)'
  BY <1>1, <1>2 DEF PInv, JobInv, Owns, PollsItsOwn, EndedAsDecided, Recorded
<1> QED BY <1>1, <1>2, <1>3, QuietStep DEF PInv, Typed

(* The polled record is the one of the job's key: no other has its id.      *)
LEMMA PollStep == ASSUME PInv, NEW j \in Jobs, Poll(j) PROVE PInv'
<1>1. at[j] = "polling" /\ doc[j] # {} /\ UNCHANGED <<doc, late, backend>>
  BY DEF Poll, PInv, JobInv, Owns
<1>2. PICK d : doc[j] = {d}
  BY <1>1, DocumentOf
<1>3. Recorded(d) /\ target[j] = {backend[d.key].submission}
  BY <1>1, <1>2 DEF PInv, JobInv, PollsItsOwn
<1>4. CASE End(j, NoDecision) /\ Forget(j)
  BY <1>1, <1>4, FailStep DEF PInv, Typed, Forget
<1>5. ASSUME NEW r \in Polled(j), r.state = "completed", End(j, IF r.gate = "fail" THEN 1 ELSE 0), Forget(j)
      PROVE  PInv'
  <2>1. PICK k \in DOMAIN backend : r = backend[k] /\ {backend[k].submission} = target[j]
    BY <1>5 DEF Polled
  <2>2. OwnedBy(backend[k].submission, k) /\ OwnedBy(backend[d.key].submission, d.key)
    BY <1>3, <2>1 DEF PInv, OneOwner, Recorded
  <2>3. backend[k].submission = backend[d.key].submission
    BY <1>3, <2>1
  <2>4. k = d.key
    BY <2>2, <2>3 DEF OwnedBy
  <2>5. PICK code : code = IF r.gate = "fail" THEN 1 ELSE 0
    OBVIOUS
  <2>6. Recorded(d)' /\ backend'[d.key].state = "completed" /\ (backend'[d.key].gate = "fail" <=> code = 1)
    BY <1>1, <1>3, <1>5, <2>1, <2>4, <2>5 DEF Recorded
  <2>7. at'[j] = "ended" /\ exit'[j] = code /\ Typed'
    BY <1>1, <1>5, <2>5 DEF PInv, Typed, End, Become, Forget, Stages
  <2>8. doc'[j] = {d} /\ \E e : doc'[j] = {e} /\ e.submission = j
    BY <1>1, <1>2 DEF PInv, JobInv, Owns
  <2>9. JobInv(j)'
    BY <2>6, <2>7, <2>8 DEF JobInv, Owns, PollsItsOwn, EndedAsDecided, Decided
  <2> QED BY <1>1, <1>5, <2>7, <2>9, QuietStep DEF PInv, Typed, End, Become, Forget
<1>6. ASSUME Become(j, "asleep"), UNCHANGED <<exit, target>>
      PROVE  PInv'
  <2>1. Typed' /\ at'[j] = "asleep"
    BY <1>1, <1>6 DEF PInv, Typed, Become, Stages
  <2>2. JobInv(j)'
    BY <1>1, <1>2, <1>3, <1>6, <2>1 DEF PInv, JobInv, Owns, PollsItsOwn, EndedAsDecided, Recorded
  <2> QED BY <1>1, <1>6, <2>1, <2>2, QuietStep DEF PInv, Typed, Become
<1>7. CASE KeepWaiting(j)
  BY <1>1, <1>4, <1>6, <1>7 DEF KeepWaiting
<1> QED BY <1>1, <1>4, <1>5, <1>7 DEF Poll

(* A client polls only after it heard that its own post was accepted.       *)
LEMMA HearStep ==
  ASSUME PInv, NEW j \in Jobs, at[j] = "posting", UNCHANGED doc, Kept, OneOwner', NEW answer, Hear(j, answer),
         backend' = [k \in DOMAIN backend' |-> backend'[k]],
         \A k \in DOMAIN backend' :
           backend'[k] = Record(backend'[k].artifact, backend'[k].submission, backend'[k].state, backend'[k].gate),
         answer = "accepted" =>
           Document(j).key \in DOMAIN backend' /\ backend'[Document(j).key].artifact = Document(j).artifact
  PROVE  PInv'
<1>1. PICK d : doc[j] = {d} /\ d = Document(j) /\ d.submission = j
  BY DocumentOf DEF PInv, JobInv, Owns
<1>2. doc'[j] = {d} /\ doc' = [i \in Jobs |-> doc'[i]]
  BY <1>1 DEF PInv, Typed
<1>3. \A i \in Jobs \ {j} : at'[i] = at[i] /\ exit'[i] = exit[i] /\ target'[i] = target[i] => JobInv(i)'
  BY Frame
<1>4. CASE End(j, NoDecision) /\ Forget(j)
  <2>1. at'[j] = "ended" /\ exit'[j] = 2 /\ Typed'
    BY <1>2, <1>4 DEF PInv, Typed, End, Become, Forget, NoDecision, Stages
  <2>2. JobInv(j)'
    BY <1>1, <1>2, <2>1 DEF JobInv, Owns, PollsItsOwn, EndedAsDecided
  <2>3. \A i \in Jobs \ {j} : at'[i] = at[i] /\ exit'[i] = exit[i] /\ target'[i] = target[i]
    BY <1>4 DEF PInv, Typed, End, Become, Forget
  <2> QED BY <1>3, <2>1, <2>2, <2>3 DEF PInv
<1>5. CASE UNCHANGED <<at, exit, target>>
  <2>1. Typed'
    BY <1>2, <1>5 DEF PInv, Typed
  <2>2. JobInv(j)'
    BY <1>1, <1>2, <1>5 DEF JobInv, Owns, PollsItsOwn, EndedAsDecided
  <2> QED BY <1>3, <1>5, <2>1, <2>2 DEF PInv
<1>6. CASE AfterPost(answer) = "poll"
  <2>1. Recorded(d)'
    BY <1>1, <1>6 DEF AfterPost, Recorded
  <2>2. Become(j, "polling") /\ UNCHANGED exit /\ target' = [target EXCEPT ![j] = {backend'[d.key].submission}]
    BY <1>1, <1>6 DEF Hear, StatusURL
  <2>3. at'[j] = "polling" /\ target'[j] = {backend'[d.key].submission} /\ Typed'
    BY <1>2, <2>2 DEF PInv, Typed, Become, Stages
  <2>4. JobInv(j)'
    BY <1>1, <1>2, <2>1, <2>3 DEF JobInv, Owns, PollsItsOwn, EndedAsDecided
  <2>5. \A i \in Jobs \ {j} : at'[i] = at[i] /\ exit'[i] = exit[i] /\ target'[i] = target[i]
    BY <2>2 DEF PInv, Typed, Become
  <2> QED BY <1>3, <2>3, <2>4, <2>5 DEF PInv
<1>7. CASE AfterPost(answer) = "retry"
  BY <1>4, <1>5, <1>7 DEF Hear
<1>8. CASE AfterPost(answer) = "over"
  BY <1>4, <1>8 DEF Hear
<1> QED BY <1>6, <1>7, <1>8 DEF AfterPost

LEMMA PostStep == ASSUME PInv, NEW j \in Jobs, Post(j) PROVE PInv'
<1>1. at[j] = "posting" /\ UNCHANGED doc
  BY DEF Post
<1>2. PICK d : doc[j] = {d} /\ d = Document(j) /\ d.submission = j
  BY <1>1, DocumentOf DEF PInv, JobInv, Owns
<1>3. OwnedBy(d.submission, d.key)
  BY <1>2 DEF OwnedBy
<1>4. \A s, k : OwnedBy(s, k) => OwnedBy(s, k)'
  BY <1>1 DEF OwnedBy
<1>5. ASSUME backend' = Received(d), UNCHANGED late, NEW answer \in Answers(d), Hear(j, answer)
      PROVE  PInv'
  <2>1. /\ Kept
        /\ DOMAIN backend' = DOMAIN backend \cup {d.key}
        /\ backend' = [k \in DOMAIN backend' |-> backend'[k]]
        /\ \A k \in DOMAIN backend' :
             /\ backend'[k] = Record(backend'[k].artifact, backend'[k].submission, backend'[k].state, backend'[k].gate)
             /\ OwnedBy(backend'[k].submission, k)
        /\ ~Conflict(d) => backend'[d.key].artifact = d.artifact
    BY <1>3, <1>5, ReceivedShape
  <2>2. answer = "accepted" => ~Conflict(d)
    BY <1>5 DEF Answers
  <2>3. OneOwner'
    BY <1>4, <1>5, <2>1 DEF PInv, OneOwner
  <2> QED BY <1>1, <1>2, <1>5, <2>1, <2>2, <2>3, HearStep
<1>6. ASSUME UNCHANGED backend, late' = late \/ late' = late \cup {d}, NEW answer, answer # "accepted", Hear(j, answer)
      PROVE  PInv'
  <2>1. OneOwner'
    BY <1>3, <1>4, <1>6 DEF PInv, OneOwner
  <2>2. Kept /\ backend' = [k \in DOMAIN backend' |-> backend'[k]]
        /\ \A k \in DOMAIN backend' :
             backend'[k] = Record(backend'[k].artifact, backend'[k].submission, backend'[k].state, backend'[k].gate)
    BY <1>6 DEF PInv, Typed, Kept
  <2> QED BY <1>1, <1>6, <2>1, <2>2, HearStep
<1> QED BY <1>2, <1>5, <1>6 DEF Post, Turned

LEMMA ReceiveLateStep == ASSUME PInv, ReceiveLate PROVE PInv'
<1>1. PICK d \in late : backend' = Received(d) /\ late' = late \ {d}
  BY DEF ReceiveLate
<1>2. UNCHANGED <<at, doc, exit, target>>
  BY DEF ReceiveLate
<1>3. OwnedBy(d.submission, d.key)
  BY DEF PInv, OneOwner
<1>4. /\ Kept
      /\ backend' = [k \in DOMAIN backend' |-> backend'[k]]
      /\ \A k \in DOMAIN backend' :
           /\ backend'[k] = Record(backend'[k].artifact, backend'[k].submission, backend'[k].state, backend'[k].gate)
           /\ OwnedBy(backend'[k].submission, k)
  BY <1>1, <1>3, ReceivedShape
<1>5. \A s, k : OwnedBy(s, k) => OwnedBy(s, k)'
  BY <1>2 DEF OwnedBy
<1>6. OneOwner'
  BY <1>1, <1>4, <1>5 DEF PInv, OneOwner
<1>7. \A i \in Jobs : JobInv(i)'
  BY <1>2, <1>4, Frame
<1>8. Typed'
  BY <1>2, <1>4 DEF PInv, Typed
<1> QED BY <1>6, <1>7, <1>8 DEF PInv

(* A record is decided once.                                                *)
LEMMA DecideStep == ASSUME PInv, NEW k \in DOMAIN backend, Decide(k) PROVE PInv'
<1>1. PICK outcome : backend' = [backend EXCEPT ![k].state = outcome[1], ![k].gate = outcome[2]]
  BY DEF Decide
<1>2. UNCHANGED <<at, doc, exit, target, late>> /\ backend[k].state = "received"
  BY DEF Decide
<1>3. backend[k] = Record(backend[k].artifact, backend[k].submission, backend[k].state, backend[k].gate)
  BY DEF PInv, Typed
<1>4. /\ backend' = [i \in DOMAIN backend |-> backend'[i]]
      /\ \A i \in DOMAIN backend \ {k} : backend'[i] = backend[i]
      /\ backend'[k] = Record(backend[k].artifact, backend[k].submission, outcome[1], outcome[2])
  BY <1>1, <1>3 DEF PInv, Typed, Record
<1>5. /\ backend'[k].artifact = backend[k].artifact /\ backend'[k].submission = backend[k].submission
      /\ backend'[k].state = outcome[1] /\ backend'[k].gate = outcome[2]
  BY <1>4 DEF Record
<1>6. DOMAIN backend' = DOMAIN backend /\ Kept
  BY <1>2, <1>4, <1>5 DEF Kept
<1>7. Typed'
  BY <1>2, <1>4, <1>5, <1>6 DEF PInv, Typed
<1>8. \A s, i : OwnedBy(s, i) => OwnedBy(s, i)'
  BY <1>2 DEF OwnedBy
<1>9. OneOwner'
  BY <1>2, <1>6, <1>8 DEF PInv, OneOwner, Kept
<1>10. \A i \in Jobs : JobInv(i)'
  BY <1>2, <1>6, Frame
<1> QED BY <1>7, <1>9, <1>10 DEF PInv

-----------------------------------------------------------------------------
LEMMA PInvInit == Init => PInv
BY DEF Init, ManagedInit, PInv, Typed, Stages, OneOwner, JobInv, Owns, PollsItsOwn, EndedAsDecided

LEMMA PInvStays == PInv /\ UNCHANGED managed => PInv'
<1> SUFFICES ASSUME PInv, UNCHANGED managed PROVE PInv'
  OBVIOUS
<1>1. UNCHANGED <<at, doc, exit, target, late, backend>>
  BY DEF managed
<1>2. Kept
  BY <1>1 DEF Kept
<1>3. \A i \in Jobs : JobInv(i)'
  BY <1>1, <1>2, Frame
<1>4. Typed' /\ OneOwner'
  BY <1>1 DEF PInv, Typed, OneOwner, OwnedBy
<1> QED BY <1>3, <1>4 DEF PInv

LEMMA PInvNext == PInv /\ [Next]_vars => PInv'
<1> SUFFICES ASSUME PInv, [Next]_vars PROVE PInv'
  OBVIOUS
<1>1. CASE ManagedStep
  <2>1. ASSUME NEW j \in Jobs, ClientStep(j) PROVE PInv'
    BY <2>1, MakeContextStep, ScanStep, SubmitStep, PostStep, PollStep, WakeStep DEF ClientStep
  <2> QED BY <1>1, <2>1, EditStep, RerunStep, ReceiveLateStep, DecideStep DEF ManagedStep
<1>2. ASSUME NEW j \in Jobs, Publish(j) PROVE UNCHANGED managed
  BY <1>2 DEF Publish, ScanAndReport, StartSync, Validate, Search, Create, EndSync, StartNotify, Alert, EndNotify
<1>3. CASE UNCHANGED vars
  BY <1>3, PInvStays DEF vars
<1> QED BY <1>1, <1>2, <1>3, PInvStays DEF Next

(* The inductive invariant: a submission id names one job and one key, a    *)
(* client polls only for its own record, and an exit code of 0 or 1 stands  *)
(* for that record's decision (client.go:96-206).                           *)
THEOREM SubmissionsKeepTheirOwner == Spec => []PInv
<1> QED BY PInvInit, PInvNext, PTL DEF Spec

(* For any jobs, posts lost, repeated or late, and reruns: a job ends in 0  *)
(* or 1 only on the backend's decision about the evidence it holds          *)
(* (client.go:20-24, cmd/fendix/managed.go:139).                            *)
THEOREM PassNeedsADecision == Spec => []PassMeansDecided
<1>1. PInv => PassMeansDecided
  BY DEF PInv, JobInv, EndedAsDecided, Decided, Recorded, PassMeansDecided
<1> QED BY <1>1, SubmissionsKeepTheirOwner, PTL
-----------------------------------------------------------------------------
(* --- one issue per occurrence ------------------------------------------- *)
LEMMA Least == ASSUME NEW T, T \subseteq Nat, T # {} PROVE \E x \in T : \A y \in T : x <= y
<1>1. \E R : IsWellFoundedOn(R, Nat) /\ \A x, y \in Nat : x < y => <<x, y>> \in R
  <2>1. \A x, y \in Nat : x < y => <<x, y>> \in OpToRel(<, Nat)
    BY DEF OpToRel
  <2> QED BY NatLessThanWellFounded, <2>1, Zenon
<1>2. PICK R : IsWellFoundedOn(R, Nat) /\ \A x, y \in Nat : x < y => <<x, y>> \in R
  BY <1>1
<1>5. IsWellFoundedOn(R, Nat)
  BY <1>2
<1>6. \E x \in T : \A y \in T : ~(<<y, x>> \in R)
  BY ONLY <1>5, T \subseteq Nat, T # {}, WFMin, Zenon
<1>3. PICK x \in T : \A y \in T : ~(<<y, x>> \in R)
  BY <1>6
<1>4. x \in Nat /\ \A y \in T : y \in Nat /\ ~(y < x)
  BY <1>2, <1>3
<1> QED BY <1>4

(* Counting up to each element numbers the elements of a finite set.        *)
Ranks(S) == [i \in S |-> Cardinality({k \in S : k <= i})]
LEMMA RanksCount ==
  ASSUME NEW S \in SUBSET Nat, IsFiniteSet(S)
  PROVE  /\ Cardinality(S) \in Nat
         /\ Ranks(S) \in [S -> 1 .. Cardinality(S)]
         /\ \A i, k \in S : Ranks(S)[i] = Ranks(S)[k] => i = k
         /\ \A n \in 1 .. Cardinality(S) : \E i \in S : Ranks(S)[i] = n
<1> DEFINE upto(i) == {k \in S : k <= i}
           N == Cardinality(S)
<1>1. \A i \in S : IsFiniteSet(upto(i)) /\ Cardinality(upto(i)) <= N
  BY FS_Subset
<1>2. N \in Nat /\ \A i \in S : Cardinality(upto(i)) \in Nat
  BY <1>1, FS_CardinalityType
<1>3. \A i \in S : Cardinality(upto(i)) # 0
  BY <1>1, FS_EmptySet
<1>4. Ranks(S) \in [S -> 1 .. N]
  BY <1>1, <1>2, <1>3 DEF Ranks
<1>5. ASSUME NEW i \in S, NEW k \in S, i < k PROVE Ranks(S)[i] # Ranks(S)[k]
  <2>1. i \in Nat /\ k \in Nat /\ \A m \in S : m \in Nat
    OBVIOUS
  <2>2. k <= k /\ ~(k <= i) /\ \A m \in S : m <= i => m <= k
    BY <1>5, <2>1
  <2>3. upto(i) \in SUBSET upto(k) /\ k \in upto(k) /\ k \notin upto(i)
    BY <2>2, Zenon
  <2>4. Cardinality(upto(k)) # Cardinality(upto(i))
    BY <1>1, <2>3, FS_Subset
  <2> QED BY <2>4 DEF Ranks
<1>6. \A i, k \in S : Ranks(S)[i] = Ranks(S)[k] => i = k
  BY <1>5
<1>7. Ranks(S) \in Injection(S, 1 .. N)
  BY <1>4, <1>6 DEF Injection, IsInjective
<1>8. IsFiniteSet(1 .. N) /\ Cardinality(1 .. N) = N
  BY <1>2, FS_Interval
<1>9. Ranks(S) \in Surjection(S, 1 .. N)
  BY <1>7, <1>8, FS_Injection
<1> QED BY <1>2, <1>4, <1>6, <1>9 DEF Surjection

(* A finding presents each of its occurrences, and each of them once.       *)
LEMMA EachOccurrenceOnce ==
  ASSUME NEW f, f.occ \in Seq(Range(f.occ))
  PROVE  /\ OccurrencesOf(f) \in Seq(Range(OccurrencesOf(f)))
         /\ Range(OccurrencesOf(f)) = IF f.occ = <<>> THEN {f.own} ELSE Range(f.occ)
         /\ \A m, n \in DOMAIN OccurrencesOf(f) : OccurrencesOf(f)[m] = OccurrencesOf(f)[n] => m = n
<1>1. CASE f.occ = <<>>
  <2>1. OccurrencesOf(f) = <<f.own>>
    BY <1>1 DEF OccurrencesOf
  <2> QED BY <1>1, <2>1 DEF Range
<1>2. CASE f.occ # <<>>
  <2> DEFINE occ == f.occ
             first == {i \in DOMAIN occ : \A k \in 1 .. i - 1 : occ[k] # occ[i]}
             C == Cardinality(first)
             nth(n) == CHOOSE i \in first : Cardinality({k \in first : k <= i}) = n
  <2>1. OccurrencesOf(f) = [n \in 1 .. C |-> occ[nth(n)]]
    BY <1>2 DEF OccurrencesOf
  <2>2. Len(occ) \in Nat /\ DOMAIN occ = 1 .. Len(occ) /\ occ = [i \in 1 .. Len(occ) |-> occ[i]]
    OBVIOUS
  <2>3. first \in SUBSET Nat /\ IsFiniteSet(first)
    <3>1. IsFiniteSet(1 .. Len(occ)) /\ first \in SUBSET (1 .. Len(occ))
      BY <2>2, FS_Interval
    <3> HIDE DEF first
    <3>2. IsFiniteSet(first)
      BY <3>1, FS_Subset
    <3>3. first \in SUBSET Nat
      BY <2>2, <3>1
    <3> QED BY <3>2, <3>3
  <2>4. /\ C \in Nat /\ Ranks(first) \in [first -> 1 .. C]
        /\ \A i, k \in first : Ranks(first)[i] = Ranks(first)[k] => i = k
        /\ \A n \in 1 .. C : \E i \in first : Ranks(first)[i] = n
    BY <2>3, RanksCount
  <2>5. \A n \in 1 .. C : nth(n) \in first /\ Ranks(first)[nth(n)] = n
    <3> SUFFICES ASSUME NEW n \in 1 .. C PROVE nth(n) \in first /\ Ranks(first)[nth(n)] = n
      OBVIOUS
    <3>1. \A i \in first : Ranks(first)[i] = Cardinality({k \in first : k <= i})
      BY DEF Ranks
    <3> HIDE DEF first
    <3>2. \E i \in first : Cardinality({k \in first : k <= i}) = n
      BY <2>4, <3>1
    <3> QED BY <3>1, <3>2
  <2>6. \A i, k \in first : occ[i] = occ[k] => i = k
    <3>1. ASSUME NEW i \in first, NEW k \in first, i < k PROVE occ[i] # occ[k]
      BY <2>2, <3>1
    <3>2. \A i, k \in first : i \in Nat /\ k \in Nat
      BY <2>3
    <3> HIDE DEF first
    <3> QED BY <3>1, <3>2
  <2>7. \A i \in DOMAIN occ : \E k \in first : occ[k] = occ[i]
    <3> SUFFICES ASSUME NEW i \in DOMAIN occ PROVE \E k \in first : occ[k] = occ[i]
      OBVIOUS
    <3> DEFINE same == {k \in DOMAIN occ : occ[k] = occ[i]}
    <3>1. i \in same /\ same \in SUBSET Nat
      BY <2>2
    <3>2. PICK k \in same : \A m \in same : k <= m
      BY <3>1, Least
    <3>3. k \in DOMAIN occ /\ occ[k] = occ[i]
      BY <3>2
    <3>4. \A m \in 1 .. k - 1 : m \in DOMAIN occ /\ ~(k <= m)
      BY <2>2, <3>3
    <3> QED BY <3>2, <3>3, <3>4
  <2> HIDE DEF first, nth, C
  <2>8. \A n \in 1 .. C : OccurrencesOf(f)[n] = occ[nth(n)]
    BY <2>1
  <2>9. DOMAIN OccurrencesOf(f) = 1 .. C
    BY <2>1
  <2>10. OccurrencesOf(f) \in Seq(Range(OccurrencesOf(f)))
    BY <2>1, <2>4, <2>8, <2>9 DEF Range
  <2>11. \A m, n \in 1 .. C : OccurrencesOf(f)[m] = OccurrencesOf(f)[n] => m = n
    BY <2>5, <2>6, <2>8
  <2>12. \A k \in first : \E n \in 1 .. C : nth(n) = k
    BY <2>4, <2>5
  <2>13. Range(OccurrencesOf(f)) = Range(occ)
    <3>1. \A o : o \in Range(OccurrencesOf(f)) <=> \E n \in 1 .. C : o = occ[nth(n)]
      BY <2>8, <2>9 DEF Range
    <3>2. \A o : o \in Range(occ) <=> \E k \in first : o = occ[k]
      BY <2>7 DEF Range, first
    <3> QED BY <2>5, <2>12, <3>1, <3>2, ZenonT(40)
  <2> QED BY <1>2, <2>9, <2>10, <2>11, <2>13
<1> QED BY <1>1, <1>2

(* What one sync leaves true of the project, and of the finding it is at.   *)
SyncSteps == {"sync", "search", "create"}
Steps == {"scan", "report", "synced", "notify", "done"} \cup SyncSteps
SyncTyped ==
  /\ step \in [Jobs -> Steps] /\ finding \in [Jobs -> Nat \ {0}] /\ searched \in [Jobs -> Nat]
  /\ report \in [Jobs -> Reports \cup {<<>>}] /\ issues \in Seq(Range(issues))
  /\ tracked = [j \in Jobs |-> tracked[j]] /\ sync = [j \in Jobs |-> sync[j]]
  /\ failed = [j \in Jobs |-> failed[j]]
Covered(o) == \E i \in DOMAIN issues : o \in issues[i]
Ticketed(f) == Clears(f, JiraFloor) => \A o \in Range(OccurrencesOf(f)) : Covered(o)
(* Without an error, every finding behind the one at hand is ticketed.      *)
SyncedJob(j) ==
  /\ \A o \in tracked[j] : Covered(o)
  /\ step[j] \in {"scan", "report"} => finding[j] = 1
  /\ step[j] \in {"search", "create"} => finding[j] \in DOMAIN report[j]
  /\ step[j] \notin {"search", "create"} => searched[j] = 0
  /\ "errors" \notin sync[j] /\ step[j] \in SyncSteps =>
       \A k \in DOMAIN report[j] : k < finding[j] => Ticketed(report[j][k])
  /\ "errors" \notin sync[j] /\ "jira" \notin failed[j] /\ step[j] \in {"synced", "notify", "done"} =>
       \A k \in DOMAIN report[j] : Ticketed(report[j][k])
(* A sync that runs alone knows of every issue that carries what it has     *)
(* searched for, and so creates none that repeats one.                      *)
Alone(j) == step[j] \in SyncSteps => \A i \in Jobs \ {j} : step[i] \notin SyncSteps
Looked(j) ==
  /\ step[j] = "search" =>
       \A n \in 1 .. searched[j] : Covered(OccurrencesOf(Current(j))[n]) => OccurrencesOf(Current(j))[n] \in tracked[j]
  /\ step[j] = "create" => \A o \in Range(OccurrencesOf(Current(j))) : Covered(o) => o \in tracked[j]
Disjoint == \A i, k \in DOMAIN issues : i # k => issues[i] \cap issues[k] = {}
SyncInv == /\ SyncTyped /\ \A j \in Jobs : SyncedJob(j)
           /\ ~overlap => Disjoint /\ \A j \in Jobs : Alone(j) /\ Looked(j)

Grows == \A o : Covered(o) => Covered(o)'
Same(i) == /\ step'[i] = step[i] /\ finding'[i] = finding[i] /\ searched'[i] = searched[i] /\ report'[i] = report[i]
           /\ tracked'[i] = tracked[i] /\ sync'[i] = sync[i] /\ failed'[i] = failed[i]

LEMMA StillTicketed == ASSUME Grows, NEW f, Ticketed(f) PROVE Ticketed(f)'
BY DEF Grows, Ticketed

(* A job no step touches keeps what it has, whatever is created beside it.  *)
LEMMA SameJob == ASSUME SyncInv, Grows, NEW i \in Jobs, Same(i) PROVE SyncedJob(i)'
<1>1. \A f : Ticketed(f) => Ticketed(f)'
  BY StillTicketed
<1>2. \A o \in tracked'[i] : Covered(o)'
  BY DEF SyncInv, SyncedJob, Grows, Same
<1> QED BY <1>1, <1>2 DEF SyncInv, SyncedJob, Same

LEMMA SameSearch == ASSUME NEW i, Looked(i), Same(i), UNCHANGED issues PROVE Looked(i)'
BY DEF Looked, Same, Current, Covered

(* A step of one job that creates no issue.                                 *)
LEMMA OneJobMoves ==
  ASSUME SyncInv, NEW j \in Jobs, UNCHANGED issues, \A i \in Jobs \ {j} : Same(i), SyncTyped', SyncedJob(j)',
         ~overlap' => /\ ~overlap /\ Looked(j)'
                      /\ step'[j] \in SyncSteps => \A i \in Jobs \ {j} : step[i] \notin SyncSteps
  PROVE  SyncInv'
<1>1. Grows
  BY DEF Grows, Covered
<1>2. \A i \in Jobs \ {j} : SyncedJob(i)'
  BY <1>1, SameJob
<1>3. ASSUME ~overlap' PROVE Disjoint' /\ \A i \in Jobs : Alone(i)' /\ Looked(i)'
  <2>1. Disjoint'
    BY <1>3 DEF SyncInv, Disjoint
  <2>2. \A i \in Jobs \ {j} : Looked(i)'
    BY <1>3, SameSearch DEF SyncInv
  <2>3. \A i \in Jobs : Alone(i)'
    BY <1>3 DEF SyncInv, Alone, Same
  <2> QED BY <1>3, <2>1, <2>2, <2>3
<1> QED BY <1>2, <1>3 DEF SyncInv

LEMMA ReportShape ==
  ASSUME SyncTyped, NEW j \in Jobs
  PROVE  /\ Len(report[j]) \in Nat /\ DOMAIN report[j] = 1 .. Len(report[j])
         /\ \A k \in DOMAIN report[j] : report[j][k].occ \in Seq(Range(report[j][k].occ))
<1>1. PICK r \in Reports \cup {<<>>} : r = report[j]
  BY DEF SyncTyped
<1>2. CASE r = <<>>
  BY <1>1, <1>2
<1>3. CASE r \in Reports
  <2>1. r \in Seq(Range(r)) /\ \A f \in Range(r) : f.occ \in Seq(Range(f.occ))
    BY <1>3, PublicationAssumption
  <2>2. \A k \in DOMAIN r : r[k] \in Range(r)
    BY DEF Range
  <2>3. Len(r) \in Nat /\ DOMAIN r = 1 .. Len(r)
    BY <2>1
  <2> QED BY <1>1, <2>1, <2>2, <2>3
<1> QED BY <1>2, <1>3

(* The job goes on to the next finding, having ticketed this one or failed. *)
LEMMA NextJob ==
  ASSUME SyncInv, Grows, NEW j \in Jobs, step[j] \in SyncSteps, NextFinding(j), UNCHANGED <<report, failed>>,
         issues' \in Seq(Range(issues')), sync' = [sync EXCEPT ![j] = sync'[j]], sync[j] \subseteq sync'[j],
         "errors" \notin sync'[j] => \A f : finding[j] \in DOMAIN report[j] /\ f = Current(j) => Ticketed(f)'
  PROVE  SyncTyped' /\ SyncedJob(j)' /\ Looked(j)' /\ \A i \in Jobs \ {j} : Same(i)
<1>1. /\ step'[j] = "sync" /\ finding'[j] = finding[j] + 1 /\ searched'[j] = 0 /\ tracked'[j] = {}
      /\ finding[j] \in Nat \ {0} /\ report'[j] = report[j]
  BY DEF SyncInv, SyncTyped, NextFinding, Go
<1>2. SyncTyped'
  <2>1. step' \in [Jobs -> Steps] /\ searched' \in [Jobs -> Nat]
    BY DEF SyncInv, SyncTyped, NextFinding, Go, Steps, SyncSteps
  <2>2. finding' \in [Jobs -> Nat \ {0}]
    BY <1>1 DEF SyncInv, SyncTyped, NextFinding
  <2>3. tracked' = [i \in Jobs |-> tracked'[i]] /\ sync' = [i \in Jobs |-> sync'[i]] /\ UNCHANGED <<report, failed>>
    BY DEF SyncInv, SyncTyped, NextFinding
  <2> QED BY <2>1, <2>2, <2>3 DEF SyncInv, SyncTyped
<1>3. \A f : Ticketed(f) => Ticketed(f)'
  BY StillTicketed
<1>4. ASSUME "errors" \notin sync'[j], NEW k \in DOMAIN report[j], k < finding[j] + 1
      PROVE  \A f : f = report[j][k] => Ticketed(f)'
  <2>1. DOMAIN report[j] \subseteq Nat
    BY ReportShape DEF SyncInv
  <2>2. CASE k = finding[j]
    BY <1>4, <2>2 DEF Current
  <2>3. CASE k < finding[j]
    BY <1>3, <1>4, <2>3 DEF SyncInv, SyncedJob
  <2>4. k < finding[j] \/ k = finding[j]
    BY <1>1, <1>4, <2>1
  <2> QED BY <2>2, <2>3, <2>4
<1>5. "errors" \notin sync'[j] => \A k \in DOMAIN report[j] : k < finding[j] + 1 => Ticketed(report[j][k])'
  BY <1>4
<1>6. SyncedJob(j)'
  BY <1>1, <1>5 DEF SyncedJob
<1>7. Looked(j)'
  BY <1>1 DEF Looked
<1>8. \A i \in Jobs \ {j} : Same(i)
  BY DEF SyncInv, SyncTyped, NextFinding, Go, Same
<1> QED BY <1>2, <1>6, <1>7, <1>8

-----------------------------------------------------------------------------
LEMMA ScanAndReportSync == ASSUME SyncInv, NEW j \in Jobs, ScanAndReport(j) PROVE SyncInv'
<1>1. step[j] = "scan" /\ step' = [step EXCEPT ![j] = "report"]
      /\ UNCHANGED <<issues, overlap, finding, searched, tracked, sync, failed>>
  BY DEF ScanAndReport, Go
<1>2. PICK r \in Reports : report' = [report EXCEPT ![j] = r]
  BY DEF ScanAndReport
<1>3. step'[j] = "report" /\ SyncTyped'
  BY <1>1, <1>2 DEF SyncInv, SyncTyped, Steps
<1>4. SyncedJob(j)'
  BY <1>1, <1>3 DEF SyncInv, SyncedJob, Covered, SyncSteps
<1>5. Looked(j)'
  BY <1>3 DEF Looked
<1>6. \A i \in Jobs \ {j} : Same(i)
  BY <1>1, <1>2 DEF SyncInv, SyncTyped, Same
<1> QED BY <1>1, <1>3, <1>4, <1>5, <1>6, OneJobMoves DEF SyncSteps

LEMMA StartSyncSync == ASSUME SyncInv, NEW j \in Jobs, StartSync(j) PROVE SyncInv'
<1>1. step[j] = "report" /\ UNCHANGED <<report, issues, finding, searched, tracked, sync>>
      /\ searched[j] = 0 /\ finding[j] = 1
  BY DEF StartSync, SyncInv, SyncedJob
<1>2. \A o : Covered(o) => Covered(o)'
  BY <1>1 DEF Covered
<1>3. CASE Go(j, "sync") /\ overlap' = (overlap \/ Syncing # {}) /\ UNCHANGED failed
  <2>1. step'[j] = "sync" /\ SyncTyped'
    BY <1>1, <1>3 DEF SyncInv, SyncTyped, Steps, SyncSteps, Go
  <2>2. \A k \in DOMAIN report[j] : ~(k < 1)
    BY ReportShape DEF SyncInv
  <2>3. SyncedJob(j)'
    BY <1>1, <1>2, <2>1, <2>2 DEF SyncInv, SyncedJob, SyncSteps
  <2>4. \A i \in Jobs \ {j} : Same(i)
    BY <1>1, <1>3 DEF SyncInv, SyncTyped, Same, Go
  <2>5. ~overlap' => ~overlap /\ \A i \in Jobs : step[i] \notin SyncSteps
    BY <1>3 DEF Syncing, SyncSteps
  <2>6. Looked(j)'
    BY <2>1 DEF Looked
  <2> QED BY <1>1, <2>1, <2>3, <2>4, <2>5, <2>6, OneJobMoves
<1>4. CASE Go(j, "synced") /\ UNCHANGED overlap /\ ((UNCHANGED failed /\ report[j] = <<>>) \/ NoTracker(j))
  <2>1. step'[j] = "synced" /\ SyncTyped'
    BY <1>1, <1>4 DEF SyncInv, SyncTyped, Steps, Go, NoTracker
  <2>2. "jira" \in failed'[j] \/ DOMAIN report[j] = {}
    BY <1>4 DEF SyncInv, SyncTyped, NoTracker
  <2>3. SyncedJob(j)'
    BY <1>1, <1>2, <2>1, <2>2 DEF SyncInv, SyncedJob, SyncSteps
  <2>4. \A i \in Jobs \ {j} : Same(i)
    BY <1>1, <1>4 DEF SyncInv, SyncTyped, Same, Go, NoTracker
  <2>5. Looked(j)' /\ step'[j] \notin SyncSteps
    BY <2>1 DEF Looked, SyncSteps
  <2> QED BY <1>1, <1>4, <2>1, <2>3, <2>4, <2>5, OneJobMoves
<1> QED BY <1>3, <1>4 DEF StartSync, NoTracker

LEMMA ValidateSync == ASSUME SyncInv, NEW j \in Jobs, Validate(j) PROVE SyncInv'
<1>1. step[j] = "sync" /\ More(j) /\ UNCHANGED <<report, issues, overlap, failed>> /\ searched[j] = 0
  BY DEF Validate, SyncInv, SyncedJob
<1>2. Grows /\ finding[j] \in DOMAIN report[j]
  BY <1>1, ReportShape DEF Grows, Covered, More, SyncInv, SyncTyped
<1>3. overlap \/ \A i \in Jobs \ {j} : step[i] \notin SyncSteps
  BY <1>1 DEF SyncInv, Alone, SyncSteps
<1>4. CASE NextFinding(j) /\ sync' = [sync EXCEPT ![j] = sync'[j]] /\ sync[j] \subseteq sync'[j]
           /\ (~Clears(Current(j), JiraFloor) \/ "errors" \in sync'[j])
  <2>1. "errors" \notin sync'[j] => \A f : finding[j] \in DOMAIN report[j] /\ f = Current(j) => Ticketed(f)'
    BY <1>4 DEF Ticketed
  <2>2. issues' \in Seq(Range(issues'))
    BY <1>1 DEF SyncInv, SyncTyped
  <2>3. SyncTyped' /\ SyncedJob(j)' /\ Looked(j)' /\ \A i \in Jobs \ {j} : Same(i)
    BY <1>1, <1>2, <1>4, <2>1, <2>2, NextJob DEF SyncSteps
  <2> QED BY <1>1, <1>3, <2>3, OneJobMoves
<1>5. CASE Go(j, "search") /\ UNCHANGED <<finding, searched, tracked, sync>>
  <2>1. step'[j] = "search" /\ SyncTyped'
    BY <1>1, <1>5 DEF SyncInv, SyncTyped, Steps, SyncSteps, Go
  <2>2. \A f : Ticketed(f) => Ticketed(f)'
    BY <1>2, StillTicketed
  <2>3. SyncedJob(j)'
    BY <1>1, <1>2, <1>5, <2>1, <2>2 DEF SyncInv, SyncedJob, SyncSteps, Grows
  <2>4. Looked(j)'
    BY <1>1, <1>5, <2>1 DEF Looked
  <2>5. \A i \in Jobs \ {j} : Same(i)
    BY <1>1, <1>5 DEF SyncInv, SyncTyped, Same, Go
  <2> QED BY <1>1, <1>3, <2>1, <2>3, <2>4, <2>5, OneJobMoves
<1>6. CASE ~Clears(Current(j), JiraFloor)
  BY <1>4, <1>6 DEF Validate, SyncInv, SyncTyped
<1>7. CASE Clears(Current(j), JiraFloor) /\ ~Current(j).safe
  <2>1. NextFinding(j) /\ Count(j, "errors")
    BY <1>7 DEF Validate
  <2>2. sync' = [sync EXCEPT ![j] = sync'[j]] /\ sync[j] \subseteq sync'[j] /\ "errors" \in sync'[j]
    BY <2>1 DEF Count, SyncInv, SyncTyped
  <2> QED BY <1>4, <2>1, <2>2
<1>8. CASE Clears(Current(j), JiraFloor) /\ Current(j).safe
  BY <1>5, <1>8 DEF Validate
<1> QED BY <1>6, <1>7, <1>8

(* While the issues are disjoint a search for a chunk of labels finds no    *)
(* more of them than it has labels, and so all of them (jira.go:223-247).   *)
Carriers(labels) == {i \in DOMAIN issues : issues[i] \cap labels # {}}
LEMMA SearchIsWhole ==
  ASSUME Disjoint, NEW occ, NEW a \in Nat, NEW last \in Nat, last <= a + Chunk
  PROVE  Cardinality(Carriers({occ[n] : n \in a + 1 .. last})) <= MaxResults
<1> DEFINE labels == {occ[n] : n \in a + 1 .. last}
           hits == Carriers(labels)
           pos == [i \in hits |-> CHOOSE n \in a + 1 .. last : occ[n] \in issues[i]]
<1>1. \A i \in hits : pos[i] \in a + 1 .. last /\ occ[pos[i]] \in issues[i]
  BY DEF Carriers
<1>2. \A i, k \in hits : pos[i] = pos[k] => i = k
  BY <1>1 DEF Disjoint, Carriers
<1>3. pos \in Injection(hits, a + 1 .. last)
  <2>1. pos \in [hits -> a + 1 .. last]
    BY <1>1
  <2> HIDE DEF pos, hits
  <2> QED BY <1>2, <2>1 DEF Injection, IsInjective
<1>4. IsFiniteSet(a + 1 .. last) /\ Cardinality(a + 1 .. last) <= Chunk
  <2>1. IsFiniteSet(a + 1 .. last) /\ Cardinality(a + 1 .. last) = IF a + 1 > last THEN 0 ELSE last - (a + 1) + 1
    BY FS_Interval
  <2>2. Chunk \in Nat \ {0}
    BY PublicationAssumption
  <2> QED BY <2>1, <2>2
<1>5. IsFiniteSet(hits) /\ Cardinality(hits) <= Cardinality(a + 1 .. last)
  BY <1>3, <1>4, FS_Injection
<1>6. Cardinality(hits) \in Nat /\ Cardinality(a + 1 .. last) \in Nat
  BY <1>4, <1>5, FS_CardinalityType
<1> HIDE DEF hits, labels
<1>7. Cardinality(hits) <= MaxResults
  BY <1>4, <1>5, <1>6, PublicationAssumption
<1> QED BY <1>7 DEF hits, labels

LEMMA SearchSync == ASSUME SyncInv, NEW j \in Jobs, Search(j) PROVE SyncInv'
<1> DEFINE f == Current(j)
           occ == OccurrencesOf(f)
           last == IF searched[j] + Chunk > Len(occ) THEN Len(occ) ELSE searched[j] + Chunk
           labels == {occ[n] : n \in searched[j] + 1 .. last}
           hits == Carriers(labels)
           returned == IF Cardinality(hits) <= MaxResults THEN {hits} ELSE {H \in SUBSET hits : Cardinality(H) = MaxResults}
           known(H) == tracked[j] \cup UNION {TrackedBy(f, issues[i]) : i \in H}
<1>1. step[j] = "search" /\ finding[j] \in DOMAIN report[j] /\ UNCHANGED <<report, issues, overlap, failed>>
  BY DEF Search, SyncInv, SyncedJob
<1>2. Grows /\ issues' \in Seq(Range(issues'))
  BY <1>1 DEF Grows, Covered, SyncInv, SyncTyped
<1>3. overlap \/ \A i \in Jobs \ {j} : step[i] \notin SyncSteps
  BY <1>1 DEF SyncInv, Alone, SyncSteps
<1>4. occ \in Seq(Range(occ)) /\ Len(occ) \in Nat /\ DOMAIN occ = 1 .. Len(occ)
  <2>1. f.occ \in Seq(Range(f.occ))
    BY <1>1, ReportShape DEF SyncInv, Current
  <2> HIDE DEF f
  <2>2. occ \in Seq(Range(occ))
    BY <2>1, EachOccurrenceOnce
  <2> HIDE DEF occ
  <2> QED BY <2>2
<1>5. searched[j] \in Nat /\ last \in Nat /\ last <= searched[j] + Chunk /\ last <= Len(occ)
  <2> HIDE DEF occ
  <2>1. searched[j] \in Nat /\ Chunk \in Nat
    BY PublicationAssumption DEF SyncInv, SyncTyped
  <2> QED BY <1>4, <2>1
<1>6. returned \subseteq SUBSET hits /\ (Disjoint => returned = {hits})
  BY <1>5, SearchIsWhole
<1>7. ASSUME NextFinding(j), sync' = [sync EXCEPT ![j] = sync'[j]], sync[j] \subseteq sync'[j],
             "errors" \in sync'[j] \/ \A o \in Range(occ) : Covered(o)
      PROVE  SyncInv'
  <2>1. "errors" \notin sync'[j] => \A g : finding[j] \in DOMAIN report[j] /\ g = Current(j) => Ticketed(g)'
    BY <1>2, <1>7, StillTicketed DEF Ticketed
  <2>2. SyncTyped' /\ SyncedJob(j)' /\ Looked(j)' /\ \A i \in Jobs \ {j} : Same(i)
    BY <1>1, <1>2, <1>7, <2>1, NextJob DEF SyncSteps
  <2> QED BY <1>1, <1>3, <2>2, OneJobMoves
<1>8. CASE NextFinding(j) /\ Count(j, "errors")
  BY <1>7, <1>8 DEF Count, SyncInv, SyncTyped
<1>9. ASSUME NEW H \in returned,
             CASE last < Len(occ) -> /\ tracked' = [tracked EXCEPT ![j] = known(H)]
                                     /\ searched' = [searched EXCEPT ![j] = last]
                                     /\ UNCHANGED <<step, finding, sync>>
               [] last = Len(occ) /\ Range(occ) \subseteq known(H) -> NextFinding(j) /\ Count(j, "unchanged")
               [] OTHER -> /\ tracked' = [tracked EXCEPT ![j] = known(H)] /\ Go(j, "create")
                           /\ UNCHANGED <<finding, searched, sync>>
      PROVE  SyncInv'
  <2>1. \A o \in known(H) : Covered(o)
    <3>1. H \subseteq DOMAIN issues
      BY <1>6 DEF Carriers
    <3> QED BY <3>1 DEF SyncInv, SyncedJob, TrackedBy, Covered
  <2>2. ~overlap => \A n \in 1 .. last : Covered(occ[n]) => occ[n] \in known(H)
    <3> SUFFICES ASSUME ~overlap, NEW n \in 1 .. last, Covered(occ[n]) PROVE occ[n] \in known(H)
      OBVIOUS
    <3>1. H = hits /\ Looked(j)
      BY <1>6 DEF SyncInv
    <3>2. CASE n \in 1 .. searched[j]
      BY <1>1, <3>1, <3>2 DEF Looked
    <3>3. CASE n \in searched[j] + 1 .. last
      <4>1. PICK i \in DOMAIN issues : occ[n] \in issues[i]
        BY DEF Covered
      <4>2. i \in hits
        BY <3>3, <4>1 DEF Carriers
      <4> QED BY <3>1, <4>1, <4>2 DEF TrackedBy
    <3>4. n \in 1 .. searched[j] \/ n \in searched[j] + 1 .. last
      <4> HIDE DEF last
      <4> QED BY <1>5
    <3> QED BY <3>2, <3>3, <3>4
  <2>3. PICK K : K = known(H)
    OBVIOUS
  <2> HIDE DEF known, occ, last, returned
  <2>4. last < Len(occ) \/ last = Len(occ)
    <3>1. \A a, b \in Nat : a <= b => a < b \/ a = b
      OBVIOUS
    <3> QED BY <1>4, <1>5, <3>1, Zenon
  <2>5. CASE last < Len(occ)
    <3>1. /\ tracked' = [tracked EXCEPT ![j] = K] /\ searched' = [searched EXCEPT ![j] = last]
          /\ UNCHANGED <<step, finding, sync>>
      BY <1>9, <2>3, <2>5
    <3>2. tracked'[j] = K /\ searched'[j] = last /\ SyncTyped'
      BY <1>1, <1>5, <3>1 DEF SyncInv, SyncTyped
    <3>3. SyncedJob(j)'
      BY <1>1, <2>1, <2>3, <3>1, <3>2 DEF SyncInv, SyncedJob, SyncSteps, Ticketed, Covered
    <3>4. ~overlap => Looked(j)'
      BY <1>1, <2>2, <2>3, <3>1, <3>2 DEF Looked, occ, Current, Covered
    <3>5. \A i \in Jobs \ {j} : Same(i)
      BY <1>1, <3>1 DEF SyncInv, SyncTyped, Same
    <3> QED BY <1>1, <1>3, <3>2, <3>3, <3>4, <3>5, OneJobMoves
  <2>6. CASE last = Len(occ) /\ Range(occ) \subseteq K
    <3>1. NextFinding(j) /\ Count(j, "unchanged")
      BY <1>4, <1>5, <1>9, <2>3, <2>6
    <3> QED BY <1>7, <2>1, <2>3, <2>6, <3>1 DEF Count, SyncInv, SyncTyped
  <2>7. CASE last = Len(occ) /\ ~(Range(occ) \subseteq K)
    <3>1. tracked' = [tracked EXCEPT ![j] = K] /\ Go(j, "create") /\ UNCHANGED <<finding, searched, sync>>
      BY <1>4, <1>5, <1>9, <2>3, <2>7
    <3>2. tracked'[j] = K /\ step'[j] = "create" /\ SyncTyped'
      BY <1>1, <3>1 DEF SyncInv, SyncTyped, Go, Steps, SyncSteps
    <3>3. SyncedJob(j)'
      BY <1>1, <2>1, <2>3, <3>1, <3>2 DEF SyncInv, SyncedJob, SyncSteps, Ticketed, Covered
    <3>4. ~overlap => Looked(j)'
      <4>1. ASSUME ~overlap, NEW o \in Range(occ), Covered(o) PROVE o \in K
        BY <1>4, <2>2, <2>3, <2>7, <4>1 DEF Range
      <4> QED BY <1>1, <3>1, <3>2, <4>1 DEF Looked, occ, Current, Covered
    <3>5. \A i \in Jobs \ {j} : Same(i)
      BY <1>1, <3>1 DEF SyncInv, SyncTyped, Same, Go
    <3> QED BY <1>1, <1>3, <3>2, <3>3, <3>4, <3>5, OneJobMoves
  <2> QED BY <2>4, <2>5, <2>6, <2>7
<1> QED BY <1>8, <1>9 DEF Search, Carriers

(* One new issue, for what no issue carries: when no other sync runs that   *)
(* is what none carried when it was searched for (jira.go:182-191).         *)
LEMMA CreateSync == ASSUME SyncInv, NEW j \in Jobs, Create(j) PROVE SyncInv'
<1>1. step[j] = "create" /\ finding[j] \in DOMAIN report[j] /\ NextFinding(j) /\ UNCHANGED <<report, overlap, failed>>
  BY DEF Create, SyncInv, SyncedJob
<1>2. PICK f : f = Current(j)
  OBVIOUS
<1>3. PICK New : New = Range(OccurrencesOf(f)) \ tracked[j]
  OBVIOUS
<1>4. sync' = [sync EXCEPT ![j] = sync'[j]] /\ sync[j] \subseteq sync'[j]
      /\ (UNCHANGED issues \/ issues' = Append(issues, New))
      /\ ("errors" \notin sync'[j] => issues' = Append(issues, New))
  BY <1>2, <1>3 DEF Create, Count, SyncInv, SyncTyped
<1>5. Len(issues) \in Nat /\ DOMAIN issues = 1 .. Len(issues)
  BY DEF SyncInv, SyncTyped
<1>6. ASSUME issues' = Append(issues, New)
      PROVE  /\ issues' \in Seq(Range(issues')) /\ Grows
             /\ \A o \in New : Covered(o)'
             /\ \A i \in DOMAIN issues' : issues'[i] = IF i \in DOMAIN issues THEN issues[i] ELSE New
             /\ \A i, k \in DOMAIN issues' : i \notin DOMAIN issues /\ k \notin DOMAIN issues => i = k
  <2>1. issues \in Seq(Range(issues) \cup {New})
    BY DEF SyncInv, SyncTyped
  <2>2. /\ DOMAIN issues' = 1 .. Len(issues) + 1
        /\ \A i \in 1 .. Len(issues) : issues'[i] = issues[i]
        /\ issues'[Len(issues) + 1] = New
    BY <1>6, <2>1
  <2>3. issues' \in Seq(Range(issues) \cup {New})
    BY <1>6, <2>1
  <2>4. PICK n \in Nat : n = Len(issues)
    BY <1>5
  <2>5. \A i \in 1 .. n + 1 : i \in 1 .. n \/ i = n + 1
    OBVIOUS
  <2>6. 1 .. n \subseteq 1 .. n + 1 /\ n + 1 \in 1 .. n + 1 /\ n + 1 \notin 1 .. n
    OBVIOUS
  <2>7. issues' \in Seq(Range(issues'))
    <3>1. issues' = [i \in 1 .. n + 1 |-> issues'[i]]
      BY <2>2, <2>3, <2>4
    <3>2. \A i \in 1 .. n + 1 : issues'[i] \in Range(issues')
      BY <2>2, <2>4 DEF Range
    <3>3. issues' \in [1 .. n + 1 -> Range(issues')]
      BY <3>1, <3>2
    <3> QED BY <3>3
  <2>8. Grows /\ \A o \in New : Covered(o)'
    BY <1>5, <2>2, <2>4, <2>6 DEF Grows, Covered
  <2>9. /\ DOMAIN issues = 1 .. n /\ DOMAIN issues' = 1 .. n + 1 /\ issues'[n + 1] = New
        /\ \A i \in 1 .. n : issues'[i] = issues[i]
    BY <1>5, <2>2, <2>4
  <2>10. \A i \in DOMAIN issues' : /\ i \notin DOMAIN issues => i = n + 1
                                   /\ issues'[i] = IF i \in DOMAIN issues THEN issues[i] ELSE New
    BY <2>5, <2>6, <2>9
  <2> QED BY <2>7, <2>8, <2>10
<1>7. Grows /\ issues' \in Seq(Range(issues'))
  <2>1. CASE UNCHANGED issues
    BY <2>1 DEF Grows, Covered, SyncInv, SyncTyped
  <2> QED BY <1>4, <1>6, <2>1
<1>8. ASSUME "errors" \notin sync'[j] PROVE Ticketed(f)'
  <2>1. issues' = Append(issues, New) /\ \A o \in tracked[j] : Covered(o)'
    BY <1>4, <1>7, <1>8 DEF SyncInv, SyncedJob, Grows
  <2> QED BY <1>3, <1>6, <2>1 DEF Ticketed
<1>9. SyncTyped' /\ SyncedJob(j)' /\ Looked(j)' /\ \A i \in Jobs \ {j} : Same(i)
  BY <1>1, <1>2, <1>4, <1>7, <1>8, NextJob DEF SyncSteps
<1>10. \A i \in Jobs \ {j} : SyncedJob(i)'
  BY <1>7, <1>9, SameJob
<1>11. ASSUME ~overlap' PROVE Disjoint' /\ \A i \in Jobs : Alone(i)' /\ Looked(i)'
  <2>1. Disjoint /\ Alone(j) /\ Looked(j) /\ \A i \in Jobs : Alone(i)
    BY <1>1, <1>11 DEF SyncInv
  <2>2. \A i \in Jobs \ {j} : step'[i] \notin SyncSteps
    BY <1>1, <1>9, <2>1 DEF Alone, Same, SyncSteps
  <2>3. \A i \in Jobs : Alone(i)'
    BY <2>2 DEF Alone
  <2>4. \A i \in Jobs : Looked(i)'
    BY <1>9, <2>2 DEF Looked, SyncSteps
  <2>5. \A o \in New : ~Covered(o)
    BY <1>1, <1>2, <1>3, <2>1 DEF Looked
  <2>6. Disjoint'
    <3>1. CASE UNCHANGED issues
      BY <2>1, <3>1 DEF Disjoint
    <3>2. CASE issues' = Append(issues, New)
      <4>1. \A i \in DOMAIN issues : issues[i] \cap New = {}
        BY <2>5 DEF Covered
      <4> QED BY <1>6, <2>1, <3>2, <4>1 DEF Disjoint
    <3> QED BY <1>4, <3>1, <3>2
  <2> QED BY <2>3, <2>4, <2>6
<1> QED BY <1>9, <1>10, <1>11 DEF SyncInv

(* A sync that ends without an error ends behind the last finding.          *)
LEMMA EndSyncSync == ASSUME SyncInv, NEW j \in Jobs, EndSync(j) PROVE SyncInv'
<1>1. step[j] = "sync" /\ ~More(j) /\ UNCHANGED <<report, issues, overlap, finding, searched, tracked, sync>>
      /\ step' = [step EXCEPT ![j] = "synced"]
  BY DEF EndSync, Go
<1>2. failed' = [failed EXCEPT ![j] = failed'[j]] /\ failed[j] \subseteq failed'[j]
  BY DEF EndSync, SyncInv, SyncTyped
<1>3. step'[j] = "synced" /\ SyncTyped'
  BY <1>1, <1>2 DEF SyncInv, SyncTyped, Steps
<1>4. \A k \in DOMAIN report[j] : k < finding[j]
  <2>1. finding[j] \in Nat /\ ~(finding[j] <= Len(report[j]))
    BY <1>1 DEF More, SyncInv, SyncTyped
  <2>2. Len(report[j]) \in Nat /\ DOMAIN report[j] = 1 .. Len(report[j])
    BY ReportShape DEF SyncInv
  <2> QED BY <2>1, <2>2
<1>5. SyncedJob(j)'
  BY <1>1, <1>2, <1>3, <1>4 DEF SyncInv, SyncedJob, SyncSteps, Ticketed, Covered
<1>6. \A i \in Jobs \ {j} : Same(i)
  BY <1>1, <1>2 DEF SyncInv, SyncTyped, Same
<1>7. Looked(j)' /\ step'[j] \notin SyncSteps
  BY <1>3 DEF Looked, SyncSteps
<1> QED BY <1>1, <1>3, <1>5, <1>6, <1>7, OneJobMoves

(* What comes after the sync reads the report and creates no issue.         *)
LEMMA NotifySync ==
  ASSUME SyncInv, NEW j \in Jobs, StartNotify(j) \/ Alert(j) \/ EndNotify(j)
  PROVE  SyncInv'
<1>1. step[j] \in {"synced", "notify"} /\ UNCHANGED <<report, issues, overlap, searched, tracked, sync>>
  BY DEF StartNotify, Alert, EndNotify
<1>2. /\ step' = [step EXCEPT ![j] = step'[j]] /\ step'[j] \in {"notify", "done"}
      /\ finding' = [finding EXCEPT ![j] = finding'[j]] /\ finding'[j] \in Nat \ {0}
      /\ failed' = [failed EXCEPT ![j] = failed'[j]] /\ failed[j] \subseteq failed'[j]
  BY <1>1 DEF StartNotify, Alert, EndNotify, NoNotifier, Go, SyncInv, SyncTyped
<1>3. SyncTyped'
  BY <1>1, <1>2 DEF SyncInv, SyncTyped, Steps
<1>4. SyncedJob(j)'
  BY <1>1, <1>2 DEF SyncInv, SyncedJob, SyncSteps, Ticketed, Covered
<1>5. \A i \in Jobs \ {j} : Same(i)
  BY <1>1, <1>2 DEF SyncInv, SyncTyped, Same
<1>6. Looked(j)' /\ step'[j] \notin SyncSteps
  BY <1>2 DEF Looked, SyncSteps
<1> QED BY <1>1, <1>3, <1>4, <1>5, <1>6, OneJobMoves

LEMMA SyncInvInit == Init => SyncInv
<1> SUFFICES ASSUME Init PROVE SyncInv
  OBVIOUS
<1>1. SyncTyped
  BY DEF Init, SyncTyped, Steps
<1>2. \A j \in Jobs : SyncedJob(j) /\ Alone(j) /\ Looked(j)
  BY DEF Init, SyncedJob, Alone, Looked, SyncSteps
<1>3. Disjoint
  BY DEF Init, Disjoint
<1> QED BY <1>1, <1>2, <1>3 DEF SyncInv

LEMMA SyncInvNext == SyncInv /\ [Next]_vars => SyncInv'
<1> SUFFICES ASSUME SyncInv, [Next]_vars PROVE SyncInv'
  OBVIOUS
<1>1. CASE UNCHANGED <<report, issues, overlap, step, finding, searched, tracked, sync, failed>>
  <2>1. SyncTyped' /\ \A i \in Jobs : SyncedJob(i)'
    BY <1>1 DEF SyncInv, SyncTyped, SyncedJob, Ticketed, Covered
  <2>2. ~overlap' => Disjoint' /\ \A i \in Jobs : Alone(i)' /\ Looked(i)'
    BY <1>1 DEF SyncInv, Disjoint, Alone, Looked, Current, Covered
  <2> QED BY <2>1, <2>2 DEF SyncInv
<1>2. ASSUME NEW j \in Jobs, Publish(j) PROVE SyncInv'
  BY <1>2, ScanAndReportSync, StartSyncSync, ValidateSync, SearchSync, CreateSync, EndSyncSync, NotifySync DEF Publish
<1> QED BY <1>1, <1>2 DEF Next, vars, publishing

(* The inductive invariant of the sync: what a search has not found is on   *)
(* no issue while no other sync runs, and behind the finding at hand        *)
(* everything is ticketed or counted as an error (jira.go:101-191).         *)
THEOREM SyncsTrackWhatTheySearched == Spec => []SyncInv
<1> QED BY SyncInvInit, SyncInvNext, PTL DEF Spec

(* For any reports, jobs, chunk and page sizes, and requests that fail or   *)
(* lose their answers: a sync without errors ticketed every occurrence, and *)
(* no occurrence is on two issues unless syncs overlapped (jira.go:182-247).*)
THEOREM OneIssuePerOccurrence == Spec => []OnOneIssue
<1>1. ASSUME SyncInv PROVE OnOneIssue
  <2>1. ASSUME NEW j \in Jobs, step[j] \in {"synced", "notify", "done"} /\ "jira" \notin failed[j] /\ "errors" \notin sync[j],
               NEW f \in Range(report[j]), Clears(f, JiraFloor), NEW o \in Range(OccurrencesOf(f))
        PROVE  Covered(o)
    BY <1>1, <2>1 DEF SyncInv, SyncedJob, Ticketed, Range
  <2> QED BY <1>1, <2>1 DEF SyncInv, Disjoint, Covered, OnOneIssue
<1> QED BY <1>1, SyncsTrackWhatTheySearched, PTL
=============================================================================
