-------------------------- MODULE AppServerProofs ---------------------------
(***************************************************************************)
(* Proofs about the scan pool, for any finite set of jobs, any keys and    *)
(* any capacities: IInv is inductive, the safety properties of ScanPool    *)
(* follow from it, and the pool implements ScanService.  Then about the    *)
(* App server around it: it implements the pool, so every theorem about    *)
(* the pool holds of it, and its order of shutting down keeps every        *)
(* request away from a closed pool.  Last, about the cache of the tokens   *)
(* its scans ask for.                                                      *)
(***************************************************************************)
EXTENDS AppServer, TokenSource, FiniteSetTheorems, SequenceTheorems, TLAPS

-----------------------------------------------------------------------------
(* Counting jobs by status.                                                *)

(* The jobs with a status in S are finite in number.                       *)
LEMMA JobsInFinite ==
    ASSUME NEW S
    PROVE  /\ IsFiniteSet(JobsIn(S))
           /\ Cardinality(JobsIn(S)) \in Nat
  <1>1. JobsIn(S) \subseteq Jobs
    BY DEF JobsIn
  <1>2. QED
    BY <1>1, PoolAssumption, FS_Subset, FS_CardinalityType

(* Changing one value of a function changes the number of arguments that   *)
(* it maps into S by what the new and the old value say.                   *)
LEMMA UpdateCounts ==
    ASSUME NEW f \in [Jobs -> Status], NEW j \in Jobs, NEW s, NEW S,
           NEW A, A = {i \in Jobs : f[i] \in S},
           NEW B, B = {i \in Jobs : [f EXCEPT ![j] = s][i] \in S}
    PROVE  /\ Cardinality(A) \in Nat /\ Cardinality(B) \in Nat
           /\ Cardinality(B) = Cardinality(A)
              + (IF s \in S THEN 1 ELSE 0) - (IF f[j] \in S THEN 1 ELSE 0)
  <1>0. /\ IsFiniteSet(A) /\ Cardinality(A) \in Nat
        /\ IsFiniteSet(B) /\ Cardinality(B) \in Nat
    BY PoolAssumption, FS_Subset, FS_CardinalityType
  <1>1. j \in A <=> f[j] \in S
    OBVIOUS
  <1>2. CASE s \in S
    <2>1. B = A \cup {j}
      BY <1>2
    <2>2. Cardinality(B) = IF j \in A THEN Cardinality(A) ELSE Cardinality(A) + 1
      BY <1>0, <2>1, FS_AddElement
    <2>3. QED
      BY <1>0, <1>1, <1>2, <2>2
  <1>3. CASE s \notin S
    <2>1. B = A \ {j}
      BY <1>3
    <2>2. Cardinality(B) = IF j \in A THEN Cardinality(A) - 1 ELSE Cardinality(A)
      BY <1>0, <2>1, FS_RemoveElement
    <2>3. QED
      BY <1>0, <1>1, <1>3, <2>2
  <1>4. QED
    BY <1>0, <1>2, <1>3

(* The same for a step that moves one job: the number of jobs with a       *)
(* status in S.                                                            *)
LEMMA MoveCounts ==
    ASSUME status \in [Jobs -> Status], NEW j \in Jobs, NEW s, Move(j, s), NEW S
    PROVE  /\ Cardinality(JobsIn(S)) \in Nat /\ Cardinality(JobsIn(S))' \in Nat
           /\ Cardinality(JobsIn(S))' = Cardinality(JobsIn(S))
              + (IF s \in S THEN 1 ELSE 0) - (IF status[j] \in S THEN 1 ELSE 0)
  <1>1. JobsIn(S) = {i \in Jobs : status[i] \in S}
    BY DEF JobsIn
  <1>2. JobsIn(S)' = {i \in Jobs : [status EXCEPT ![j] = s][i] \in S}
    BY DEF JobsIn, Move
  <1>3. QED
    BY <1>1, <1>2, UpdateCounts

(* The classes of status the invariant counts.                             *)
LEMMA StatusClasses ==
    /\ HoldsSlot \subseteq InGoroutine
    /\ \A s \in {"new", "done", "refused", "duplicate", "rejected", "reserved", "panicked",
                 "refusing", "queued", "held"} : s \notin InGoroutine
    /\ \A s \in {"running", "returned", "released"} : s \in HoldsSlot
    /\ "freed" \in InGoroutine /\ "freed" \notin HoldsSlot
    /\ \A s \in {"reserved", "panicked", "refusing", "queued", "held", "running", "returned"} :
            s \in OwnsKey
    /\ \A s \in {"new", "done", "refused", "duplicate", "rejected", "released",
                 "freed"} : s \notin OwnsKey
    /\ \A s \in {"new", "done", "refused", "duplicate", "rejected", "reserved", "panicked",
                 "refusing", "queued", "held", "running", "returned",
                 "released", "freed"} : s \in Status
  BY DEF HoldsSlot, InGoroutine, OwnsKey, Status, Refused

-----------------------------------------------------------------------------
(* The steps of the pool, as one disjunction for case analysis.            *)
LEMMA StepCases ==
    ASSUME [Next]_vars
    PROVE  \/ \E j \in Jobs :
              \/ SubmitRejected(j) \/ SubmitDuplicate(j) \/ SubmitReserve(j)
              \/ SendQueued(j) \/ SendFull(j) \/ SendPanics(j) \/ RefuseFull(j)
              \/ DispatchStart(j) \/ Timeout(j) \/ RunReturns(j)
              \/ ReleaseKey(j) \/ FreeSlot(j) \/ GoroutineDone(j)
           \/ DispatchReceive \/ DispatchExit
           \/ ShutdownBegin \/ ShutdownDrained
           \/ ShutdownDeadline \/ ShutdownUnwound
           \/ UNCHANGED vars
  BY DEF Next, Rest, Submit

(* What a step that moves one job does to a class of jobs.                 *)
LEMMA MoveSets ==
    ASSUME status \in [Jobs -> Status], NEW j \in Jobs, NEW s, Move(j, s), NEW S
    PROVE  /\ (s \in S <=> status[j] \in S) => JobsIn(S)' = JobsIn(S)
           /\ s \in S /\ status[j] \notin S =>
                JobsIn(S)' = JobsIn(S) \cup {j} /\ j \notin JobsIn(S)
           /\ s \notin S /\ status[j] \in S =>
                JobsIn(S)' = JobsIn(S) \ {j} /\ j \in JobsIn(S)
  BY DEF JobsIn, Move

(* The invariant holds initially.                                          *)
LEMMA InitIInv == Init => IInv
  <1> SUFFICES ASSUME Init PROVE IInv
    OBVIOUS
  <1>1. \A S : "new" \notin S => JobsIn(S) = {}
    BY DEF Init, JobsIn
  <1>2. /\ JobsIn(OwnsKey) = {} /\ JobsIn({"queued"}) = {} /\ JobsIn({"held"}) = {}
        /\ JobsIn(HoldsSlot) = {} /\ JobsIn(InGoroutine) = {}
    BY <1>1, StatusClasses DEF HoldsSlot
  <1>3. TypeOK
    <2>1. status \in [Jobs -> Status]
      BY DEF Init, Status
    <2>2. queue \in Seq(Jobs) /\ Len(queue) = 0
      BY DEF Init
    <2>3. slots \in 0 .. MaxConcurrent /\ wg \in Nat /\ 0 <= QueueDepth
      BY PoolAssumption DEF Init
    <2>4. QED
      BY <2>1, <2>2, <2>3 DEF Init, TypeOK
  <1>4. NoTwins /\ KeysMatchOwners
    BY <1>2 DEF Init, NoTwins, KeysMatchOwners
  <1>5. QueueMatches /\ HandMatches
    BY <1>2 DEF Init, QueueMatches, HandMatches
  <1>6. CountsMatch
    BY <1>2, FS_EmptySet DEF Init, CountsMatch
  <1>7. ShutdownOrder
    BY DEF Init, ShutdownOrder, Stopped
  <1>8. QED
    BY <1>3, <1>4, <1>5, <1>6, <1>7 DEF IInv

(* Every step preserves the invariant.  Under each action, one step per    *)
(* part of the invariant, from what the action does to the classes of jobs.*)
LEMMA NextIInv == IInv /\ [Next]_vars => IInv'
  <1> SUFFICES ASSUME IInv, [Next]_vars PROVE IInv'
    OBVIOUS
  <1> USE PoolAssumption, StatusClasses DEF IInv
  <1>0. status \in [Jobs -> Status]
    BY DEF TypeOK
  <1>1. ASSUME NEW j \in Jobs, SubmitRejected(j) PROVE IInv'
    <2>1. status[j] = "new" /\ Move(j, "rejected")
      BY <1>1 DEF SubmitRejected
    <2>2. /\ JobsIn(OwnsKey)' = JobsIn(OwnsKey)
          /\ JobsIn({"queued"})' = JobsIn({"queued"})
          /\ JobsIn({"held"})' = JobsIn({"held"})
          /\ JobsIn(HoldsSlot)' = JobsIn(HoldsSlot)
          /\ JobsIn(InGoroutine)' = JobsIn(InGoroutine)
      BY <1>0, <2>1, MoveSets DEF OwnsKey, HoldsSlot, InGoroutine
    <2>3. /\ Cardinality(JobsIn(HoldsSlot))' = Cardinality(JobsIn(HoldsSlot)) /\ Cardinality(JobsIn(HoldsSlot))' \in Nat
          /\ Cardinality(JobsIn(InGoroutine))' = Cardinality(JobsIn(InGoroutine)) /\ Cardinality(JobsIn(InGoroutine))' \in Nat
      BY <1>0, <2>1, MoveCounts, JobsInFinite DEF OwnsKey, HoldsSlot, InGoroutine
    <2>4. CountsMatch'
      BY <1>1, <2>1, <2>3, JobsInFinite DEF SubmitRejected, CountsMatch, TypeOK
    <2>5. TypeOK'
      BY <1>0, <1>1, <2>1, <2>3, <2>4, JobsInFinite DEF SubmitRejected, TypeOK, Move, Keys, CountsMatch
    <2>6. NoTwins' /\ KeysMatchOwners'
      BY <1>1, <2>1, <2>2 DEF SubmitRejected, NoTwins, KeysMatchOwners
    <2>7. QueueMatches'
      BY <1>1, <2>1, <2>2 DEF SubmitRejected, QueueMatches, TypeOK
    <2>8. HandMatches'
      BY <1>1, <2>1, <2>2 DEF SubmitRejected, HandMatches, TypeOK
    <2>9. ShutdownOrder'
      BY <1>1, <2>1, <2>2, <2>3, JobsInFinite DEF SubmitRejected, ShutdownOrder, Stopped, TypeOK, CountsMatch
    <2>10. QED
      BY <2>4, <2>5, <2>6, <2>7, <2>8, <2>9
  <1>2. ASSUME NEW j \in Jobs, SubmitDuplicate(j) PROVE IInv'
    <2>1. status[j] = "new" /\ Move(j, "duplicate")
      BY <1>2 DEF SubmitDuplicate
    <2>2. /\ JobsIn(OwnsKey)' = JobsIn(OwnsKey)
          /\ JobsIn({"queued"})' = JobsIn({"queued"})
          /\ JobsIn({"held"})' = JobsIn({"held"})
          /\ JobsIn(HoldsSlot)' = JobsIn(HoldsSlot)
          /\ JobsIn(InGoroutine)' = JobsIn(InGoroutine)
      BY <1>0, <2>1, MoveSets DEF OwnsKey, HoldsSlot, InGoroutine
    <2>3. /\ Cardinality(JobsIn(HoldsSlot))' = Cardinality(JobsIn(HoldsSlot)) /\ Cardinality(JobsIn(HoldsSlot))' \in Nat
          /\ Cardinality(JobsIn(InGoroutine))' = Cardinality(JobsIn(InGoroutine)) /\ Cardinality(JobsIn(InGoroutine))' \in Nat
      BY <1>0, <2>1, MoveCounts, JobsInFinite DEF OwnsKey, HoldsSlot, InGoroutine
    <2>4. CountsMatch'
      BY <1>2, <2>1, <2>3, JobsInFinite DEF SubmitDuplicate, CountsMatch, TypeOK
    <2>5. TypeOK'
      BY <1>0, <1>2, <2>1, <2>3, <2>4, JobsInFinite DEF SubmitDuplicate, TypeOK, Move, Keys, CountsMatch
    <2>6. NoTwins' /\ KeysMatchOwners'
      BY <1>2, <2>1, <2>2 DEF SubmitDuplicate, NoTwins, KeysMatchOwners
    <2>7. QueueMatches'
      BY <1>2, <2>1, <2>2 DEF SubmitDuplicate, QueueMatches, TypeOK
    <2>8. HandMatches'
      BY <1>2, <2>1, <2>2 DEF SubmitDuplicate, HandMatches, TypeOK
    <2>9. ShutdownOrder'
      BY <1>2, <2>1, <2>2, <2>3, JobsInFinite DEF SubmitDuplicate, ShutdownOrder, Stopped, TypeOK, CountsMatch
    <2>10. QED
      BY <2>4, <2>5, <2>6, <2>7, <2>8, <2>9
  <1>3. ASSUME NEW j \in Jobs, SubmitReserve(j) PROVE IInv'
    <2>1. status[j] = "new" /\ Move(j, "reserved")
      BY <1>3 DEF SubmitReserve
    <2>2. /\ JobsIn(OwnsKey)' = JobsIn(OwnsKey) \cup {j} /\ j \notin JobsIn(OwnsKey)
          /\ JobsIn({"queued"})' = JobsIn({"queued"})
          /\ JobsIn({"held"})' = JobsIn({"held"})
          /\ JobsIn(HoldsSlot)' = JobsIn(HoldsSlot)
          /\ JobsIn(InGoroutine)' = JobsIn(InGoroutine)
      BY <1>0, <2>1, MoveSets DEF OwnsKey, HoldsSlot, InGoroutine
    <2>3. /\ Cardinality(JobsIn(HoldsSlot))' = Cardinality(JobsIn(HoldsSlot)) /\ Cardinality(JobsIn(HoldsSlot))' \in Nat
          /\ Cardinality(JobsIn(InGoroutine))' = Cardinality(JobsIn(InGoroutine)) /\ Cardinality(JobsIn(InGoroutine))' \in Nat
      BY <1>0, <2>1, MoveCounts, JobsInFinite DEF OwnsKey, HoldsSlot, InGoroutine
    <2>4. CountsMatch'
      BY <1>3, <2>1, <2>3, JobsInFinite DEF SubmitReserve, CountsMatch, TypeOK
    <2>5. TypeOK'
      BY <1>0, <1>3, <2>1, <2>3, <2>4, JobsInFinite DEF SubmitReserve, TypeOK, Move, Keys, CountsMatch
    <2>6. NoTwins' /\ KeysMatchOwners'
      BY <1>3, <2>1, <2>2 DEF SubmitReserve, NoTwins, KeysMatchOwners
    <2>7. QueueMatches'
      BY <1>3, <2>1, <2>2 DEF SubmitReserve, QueueMatches, TypeOK
    <2>8. HandMatches'
      BY <1>3, <2>1, <2>2 DEF SubmitReserve, HandMatches, TypeOK
    <2>9. ShutdownOrder'
      BY <1>3, <2>1, <2>2, <2>3, JobsInFinite DEF SubmitReserve, ShutdownOrder, Stopped, TypeOK, CountsMatch
    <2>10. QED
      BY <2>4, <2>5, <2>6, <2>7, <2>8, <2>9
  <1>4. ASSUME NEW j \in Jobs, SendQueued(j) PROVE IInv'
    <2>1. status[j] = "reserved" /\ Move(j, "queued")
      BY <1>4 DEF SendQueued
    <2>2. /\ JobsIn(OwnsKey)' = JobsIn(OwnsKey)
          /\ JobsIn({"queued"})' = JobsIn({"queued"}) \cup {j} /\ j \notin JobsIn({"queued"})
          /\ JobsIn({"held"})' = JobsIn({"held"})
          /\ JobsIn(HoldsSlot)' = JobsIn(HoldsSlot)
          /\ JobsIn(InGoroutine)' = JobsIn(InGoroutine)
      BY <1>0, <2>1, MoveSets DEF OwnsKey, HoldsSlot, InGoroutine
    <2>3. /\ Cardinality(JobsIn(HoldsSlot))' = Cardinality(JobsIn(HoldsSlot)) /\ Cardinality(JobsIn(HoldsSlot))' \in Nat
          /\ Cardinality(JobsIn(InGoroutine))' = Cardinality(JobsIn(InGoroutine)) /\ Cardinality(JobsIn(InGoroutine))' \in Nat
      BY <1>0, <2>1, MoveCounts, JobsInFinite DEF OwnsKey, HoldsSlot, InGoroutine
    <2>4. CountsMatch'
      BY <1>4, <2>1, <2>3, JobsInFinite DEF SendQueued, CountsMatch, TypeOK
    <2>5. TypeOK'
      BY <1>0, <1>4, <2>1, <2>3, <2>4, JobsInFinite DEF SendQueued, TypeOK, Move, Keys, CountsMatch
    <2>6. NoTwins' /\ KeysMatchOwners'
      BY <1>4, <2>1, <2>2 DEF SendQueued, NoTwins, KeysMatchOwners
    <2>7. QueueMatches'
      BY <1>4, <2>1, <2>2 DEF SendQueued, QueueMatches, TypeOK
    <2>8. HandMatches'
      BY <1>4, <2>1, <2>2 DEF SendQueued, HandMatches, TypeOK
    <2>9. ShutdownOrder'
      BY <1>4, <2>1, <2>2, <2>3, JobsInFinite DEF SendQueued, ShutdownOrder, Stopped, TypeOK, CountsMatch
    <2>10. QED
      BY <2>4, <2>5, <2>6, <2>7, <2>8, <2>9
  <1>5. ASSUME NEW j \in Jobs, SendFull(j) PROVE IInv'
    <2>1. status[j] = "reserved" /\ Move(j, "refusing")
      BY <1>5 DEF SendFull
    <2>2. /\ JobsIn(OwnsKey)' = JobsIn(OwnsKey)
          /\ JobsIn({"queued"})' = JobsIn({"queued"})
          /\ JobsIn({"held"})' = JobsIn({"held"})
          /\ JobsIn(HoldsSlot)' = JobsIn(HoldsSlot)
          /\ JobsIn(InGoroutine)' = JobsIn(InGoroutine)
      BY <1>0, <2>1, MoveSets DEF OwnsKey, HoldsSlot, InGoroutine
    <2>3. /\ Cardinality(JobsIn(HoldsSlot))' = Cardinality(JobsIn(HoldsSlot)) /\ Cardinality(JobsIn(HoldsSlot))' \in Nat
          /\ Cardinality(JobsIn(InGoroutine))' = Cardinality(JobsIn(InGoroutine)) /\ Cardinality(JobsIn(InGoroutine))' \in Nat
      BY <1>0, <2>1, MoveCounts, JobsInFinite DEF OwnsKey, HoldsSlot, InGoroutine
    <2>4. CountsMatch'
      BY <1>5, <2>1, <2>3, JobsInFinite DEF SendFull, CountsMatch, TypeOK
    <2>5. TypeOK'
      BY <1>0, <1>5, <2>1, <2>3, <2>4, JobsInFinite DEF SendFull, TypeOK, Move, Keys, CountsMatch
    <2>6. NoTwins' /\ KeysMatchOwners'
      BY <1>5, <2>1, <2>2 DEF SendFull, NoTwins, KeysMatchOwners
    <2>7. QueueMatches'
      BY <1>5, <2>1, <2>2 DEF SendFull, QueueMatches, TypeOK
    <2>8. HandMatches'
      BY <1>5, <2>1, <2>2 DEF SendFull, HandMatches, TypeOK
    <2>9. ShutdownOrder'
      BY <1>5, <2>1, <2>2, <2>3, JobsInFinite DEF SendFull, ShutdownOrder, Stopped, TypeOK, CountsMatch
    <2>10. QED
      BY <2>4, <2>5, <2>6, <2>7, <2>8, <2>9
  <1>6. ASSUME NEW j \in Jobs, SendPanics(j) PROVE IInv'
    <2>1. status[j] = "reserved" /\ Move(j, "panicked")
      BY <1>6 DEF SendPanics
    <2>2. /\ JobsIn(OwnsKey)' = JobsIn(OwnsKey)
          /\ JobsIn({"queued"})' = JobsIn({"queued"})
          /\ JobsIn({"held"})' = JobsIn({"held"})
          /\ JobsIn(HoldsSlot)' = JobsIn(HoldsSlot)
          /\ JobsIn(InGoroutine)' = JobsIn(InGoroutine)
      BY <1>0, <2>1, MoveSets DEF OwnsKey, HoldsSlot, InGoroutine
    <2>3. /\ Cardinality(JobsIn(HoldsSlot))' = Cardinality(JobsIn(HoldsSlot)) /\ Cardinality(JobsIn(HoldsSlot))' \in Nat
          /\ Cardinality(JobsIn(InGoroutine))' = Cardinality(JobsIn(InGoroutine)) /\ Cardinality(JobsIn(InGoroutine))' \in Nat
      BY <1>0, <2>1, MoveCounts, JobsInFinite DEF OwnsKey, HoldsSlot, InGoroutine
    <2>4. CountsMatch'
      BY <1>6, <2>1, <2>3, JobsInFinite DEF SendPanics, CountsMatch, TypeOK
    <2>5. TypeOK'
      BY <1>0, <1>6, <2>1, <2>3, <2>4, JobsInFinite DEF SendPanics, TypeOK, Move, Keys, CountsMatch
    <2>6. NoTwins' /\ KeysMatchOwners'
      BY <1>6, <2>1, <2>2 DEF SendPanics, NoTwins, KeysMatchOwners
    <2>7. QueueMatches'
      BY <1>6, <2>1, <2>2 DEF SendPanics, QueueMatches, TypeOK
    <2>8. HandMatches'
      BY <1>6, <2>1, <2>2 DEF SendPanics, HandMatches, TypeOK
    <2>9. ShutdownOrder'
      BY <1>6, <2>1, <2>2, <2>3, JobsInFinite DEF SendPanics, ShutdownOrder, Stopped, TypeOK, CountsMatch
    <2>10. QED
      BY <2>4, <2>5, <2>6, <2>7, <2>8, <2>9
  <1>7. ASSUME NEW j \in Jobs, RefuseFull(j) PROVE IInv'
    <2>1. status[j] = "refusing" /\ Move(j, "refused")
      BY <1>7 DEF RefuseFull
    <2>2. /\ JobsIn(OwnsKey)' = JobsIn(OwnsKey) \ {j} /\ j \in JobsIn(OwnsKey)
          /\ JobsIn({"queued"})' = JobsIn({"queued"})
          /\ JobsIn({"held"})' = JobsIn({"held"})
          /\ JobsIn(HoldsSlot)' = JobsIn(HoldsSlot)
          /\ JobsIn(InGoroutine)' = JobsIn(InGoroutine)
      BY <1>0, <2>1, MoveSets DEF OwnsKey, HoldsSlot, InGoroutine
    <2>3. /\ Cardinality(JobsIn(HoldsSlot))' = Cardinality(JobsIn(HoldsSlot)) /\ Cardinality(JobsIn(HoldsSlot))' \in Nat
          /\ Cardinality(JobsIn(InGoroutine))' = Cardinality(JobsIn(InGoroutine)) /\ Cardinality(JobsIn(InGoroutine))' \in Nat
      BY <1>0, <2>1, MoveCounts, JobsInFinite DEF OwnsKey, HoldsSlot, InGoroutine
    <2>4. CountsMatch'
      BY <1>7, <2>1, <2>3, JobsInFinite DEF RefuseFull, CountsMatch, TypeOK
    <2>5. TypeOK'
      BY <1>0, <1>7, <2>1, <2>3, <2>4, JobsInFinite DEF RefuseFull, TypeOK, Move, Keys, CountsMatch
    <2>6. NoTwins' /\ KeysMatchOwners'
      BY <1>7, <2>1, <2>2 DEF RefuseFull, NoTwins, KeysMatchOwners
    <2>7. QueueMatches'
      BY <1>7, <2>1, <2>2 DEF RefuseFull, QueueMatches, TypeOK
    <2>8. HandMatches'
      BY <1>7, <2>1, <2>2 DEF RefuseFull, HandMatches, TypeOK
    <2>9. ShutdownOrder'
      BY <1>7, <2>1, <2>2, <2>3, JobsInFinite DEF RefuseFull, ShutdownOrder, Stopped, TypeOK, CountsMatch
    <2>10. QED
      BY <2>4, <2>5, <2>6, <2>7, <2>8, <2>9
  <1>8. ASSUME NEW j \in Jobs, DispatchStart(j) PROVE IInv'
    <2>1. status[j] = "held" /\ Move(j, "running")
      BY <1>8 DEF DispatchStart
    <2>2. /\ JobsIn(OwnsKey)' = JobsIn(OwnsKey)
          /\ JobsIn({"queued"})' = JobsIn({"queued"})
          /\ JobsIn({"held"})' = JobsIn({"held"}) \ {j} /\ j \in JobsIn({"held"})
          /\ JobsIn(HoldsSlot)' = JobsIn(HoldsSlot) \cup {j} /\ j \notin JobsIn(HoldsSlot)
          /\ JobsIn(InGoroutine)' = JobsIn(InGoroutine) \cup {j} /\ j \notin JobsIn(InGoroutine)
      BY <1>0, <2>1, MoveSets DEF OwnsKey, HoldsSlot, InGoroutine
    <2>3. /\ Cardinality(JobsIn(HoldsSlot))' = Cardinality(JobsIn(HoldsSlot)) + 1 /\ Cardinality(JobsIn(HoldsSlot))' \in Nat
          /\ Cardinality(JobsIn(InGoroutine))' = Cardinality(JobsIn(InGoroutine)) + 1 /\ Cardinality(JobsIn(InGoroutine))' \in Nat
      BY <1>0, <2>1, MoveCounts, JobsInFinite DEF OwnsKey, HoldsSlot, InGoroutine
    <2>4. CountsMatch'
      BY <1>8, <2>1, <2>3, JobsInFinite DEF DispatchStart, CountsMatch, TypeOK
    <2>5. TypeOK'
      BY <1>0, <1>8, <2>1, <2>3, <2>4, JobsInFinite DEF DispatchStart, TypeOK, Move, Keys, CountsMatch
    <2>6. NoTwins' /\ KeysMatchOwners'
      BY <1>8, <2>1, <2>2 DEF DispatchStart, NoTwins, KeysMatchOwners
    <2>7. QueueMatches'
      BY <1>8, <2>1, <2>2 DEF DispatchStart, QueueMatches, TypeOK
    <2>8. HandMatches'
      BY <1>8, <2>1, <2>2 DEF DispatchStart, HandMatches, TypeOK
    <2>9. ShutdownOrder'
      BY <1>8, <2>1, <2>2, <2>3, JobsInFinite, SMTT(30) DEF DispatchStart, ShutdownOrder, Stopped, TypeOK, CountsMatch
    <2>10. QED
      BY <2>4, <2>5, <2>6, <2>7, <2>8, <2>9
  <1>9. ASSUME NEW j \in Jobs, RunReturns(j) PROVE IInv'
    <2>1. status[j] = "running" /\ Move(j, "returned")
      BY <1>9 DEF RunReturns
    <2>2. /\ JobsIn(OwnsKey)' = JobsIn(OwnsKey)
          /\ JobsIn({"queued"})' = JobsIn({"queued"})
          /\ JobsIn({"held"})' = JobsIn({"held"})
          /\ JobsIn(HoldsSlot)' = JobsIn(HoldsSlot)
          /\ JobsIn(InGoroutine)' = JobsIn(InGoroutine)
      BY <1>0, <2>1, MoveSets DEF OwnsKey, HoldsSlot, InGoroutine
    <2>3. /\ Cardinality(JobsIn(HoldsSlot))' = Cardinality(JobsIn(HoldsSlot)) /\ Cardinality(JobsIn(HoldsSlot))' \in Nat
          /\ Cardinality(JobsIn(InGoroutine))' = Cardinality(JobsIn(InGoroutine)) /\ Cardinality(JobsIn(InGoroutine))' \in Nat
      BY <1>0, <2>1, MoveCounts, JobsInFinite DEF OwnsKey, HoldsSlot, InGoroutine
    <2>4. CountsMatch'
      BY <1>9, <2>1, <2>3, JobsInFinite DEF RunReturns, CountsMatch, TypeOK
    <2>5. TypeOK'
      BY <1>0, <1>9, <2>1, <2>3, <2>4, JobsInFinite DEF RunReturns, TypeOK, Move, Keys, CountsMatch
    <2>6. NoTwins' /\ KeysMatchOwners'
      BY <1>9, <2>1, <2>2 DEF RunReturns, NoTwins, KeysMatchOwners
    <2>7. QueueMatches'
      BY <1>9, <2>1, <2>2 DEF RunReturns, QueueMatches, TypeOK
    <2>8. HandMatches'
      BY <1>9, <2>1, <2>2 DEF RunReturns, HandMatches, TypeOK
    <2>9. ShutdownOrder'
      BY <1>9, <2>1, <2>2, <2>3, JobsInFinite DEF RunReturns, ShutdownOrder, Stopped, TypeOK, CountsMatch
    <2>10. QED
      BY <2>4, <2>5, <2>6, <2>7, <2>8, <2>9
  <1>10. ASSUME NEW j \in Jobs, ReleaseKey(j) PROVE IInv'
    <2>1. status[j] = "returned" /\ Move(j, "released")
      BY <1>10 DEF ReleaseKey
    <2>2. /\ JobsIn(OwnsKey)' = JobsIn(OwnsKey) \ {j} /\ j \in JobsIn(OwnsKey)
          /\ JobsIn({"queued"})' = JobsIn({"queued"})
          /\ JobsIn({"held"})' = JobsIn({"held"})
          /\ JobsIn(HoldsSlot)' = JobsIn(HoldsSlot)
          /\ JobsIn(InGoroutine)' = JobsIn(InGoroutine)
      BY <1>0, <2>1, MoveSets DEF OwnsKey, HoldsSlot, InGoroutine
    <2>3. /\ Cardinality(JobsIn(HoldsSlot))' = Cardinality(JobsIn(HoldsSlot)) /\ Cardinality(JobsIn(HoldsSlot))' \in Nat
          /\ Cardinality(JobsIn(InGoroutine))' = Cardinality(JobsIn(InGoroutine)) /\ Cardinality(JobsIn(InGoroutine))' \in Nat
      BY <1>0, <2>1, MoveCounts, JobsInFinite DEF OwnsKey, HoldsSlot, InGoroutine
    <2>4. CountsMatch'
      BY <1>10, <2>1, <2>3, JobsInFinite DEF ReleaseKey, CountsMatch, TypeOK
    <2>5. TypeOK'
      BY <1>0, <1>10, <2>1, <2>3, <2>4, JobsInFinite DEF ReleaseKey, TypeOK, Move, Keys, CountsMatch
    <2>6. NoTwins' /\ KeysMatchOwners'
      BY <1>10, <2>1, <2>2 DEF ReleaseKey, NoTwins, KeysMatchOwners
    <2>7. QueueMatches'
      BY <1>10, <2>1, <2>2 DEF ReleaseKey, QueueMatches, TypeOK
    <2>8. HandMatches'
      BY <1>10, <2>1, <2>2 DEF ReleaseKey, HandMatches, TypeOK
    <2>9. ShutdownOrder'
      BY <1>10, <2>1, <2>2, <2>3, JobsInFinite DEF ReleaseKey, ShutdownOrder, Stopped, TypeOK, CountsMatch
    <2>10. QED
      BY <2>4, <2>5, <2>6, <2>7, <2>8, <2>9
  <1>11. ASSUME NEW j \in Jobs, FreeSlot(j) PROVE IInv'
    <2>1. status[j] = "released" /\ Move(j, "freed")
      BY <1>11 DEF FreeSlot
    <2>2. /\ JobsIn(OwnsKey)' = JobsIn(OwnsKey)
          /\ JobsIn({"queued"})' = JobsIn({"queued"})
          /\ JobsIn({"held"})' = JobsIn({"held"})
          /\ JobsIn(HoldsSlot)' = JobsIn(HoldsSlot) \ {j} /\ j \in JobsIn(HoldsSlot)
          /\ JobsIn(InGoroutine)' = JobsIn(InGoroutine)
      BY <1>0, <2>1, MoveSets DEF OwnsKey, HoldsSlot, InGoroutine
    <2>3. /\ Cardinality(JobsIn(HoldsSlot))' = Cardinality(JobsIn(HoldsSlot)) - 1 /\ Cardinality(JobsIn(HoldsSlot))' \in Nat
          /\ Cardinality(JobsIn(InGoroutine))' = Cardinality(JobsIn(InGoroutine)) /\ Cardinality(JobsIn(InGoroutine))' \in Nat
      BY <1>0, <2>1, MoveCounts, JobsInFinite DEF OwnsKey, HoldsSlot, InGoroutine
    <2>4. CountsMatch'
      BY <1>11, <2>1, <2>3, JobsInFinite DEF FreeSlot, CountsMatch, TypeOK
    <2>5. TypeOK'
      BY <1>0, <1>11, <2>1, <2>3, <2>4, JobsInFinite DEF FreeSlot, TypeOK, Move, Keys, CountsMatch
    <2>6. NoTwins' /\ KeysMatchOwners'
      BY <1>11, <2>1, <2>2 DEF FreeSlot, NoTwins, KeysMatchOwners
    <2>7. QueueMatches'
      BY <1>11, <2>1, <2>2 DEF FreeSlot, QueueMatches, TypeOK
    <2>8. HandMatches'
      BY <1>11, <2>1, <2>2 DEF FreeSlot, HandMatches, TypeOK
    <2>9. ShutdownOrder'
      BY <1>11, <2>1, <2>2, <2>3, JobsInFinite DEF FreeSlot, ShutdownOrder, Stopped, TypeOK, CountsMatch
    <2>10. QED
      BY <2>4, <2>5, <2>6, <2>7, <2>8, <2>9
  <1>12. ASSUME NEW j \in Jobs, GoroutineDone(j) PROVE IInv'
    <2>1. status[j] = "freed" /\ Move(j, "done")
      BY <1>12 DEF GoroutineDone
    <2>2. /\ JobsIn(OwnsKey)' = JobsIn(OwnsKey)
          /\ JobsIn({"queued"})' = JobsIn({"queued"})
          /\ JobsIn({"held"})' = JobsIn({"held"})
          /\ JobsIn(HoldsSlot)' = JobsIn(HoldsSlot)
          /\ JobsIn(InGoroutine)' = JobsIn(InGoroutine) \ {j} /\ j \in JobsIn(InGoroutine)
      BY <1>0, <2>1, MoveSets DEF OwnsKey, HoldsSlot, InGoroutine
    <2>3. /\ Cardinality(JobsIn(HoldsSlot))' = Cardinality(JobsIn(HoldsSlot)) /\ Cardinality(JobsIn(HoldsSlot))' \in Nat
          /\ Cardinality(JobsIn(InGoroutine))' = Cardinality(JobsIn(InGoroutine)) - 1 /\ Cardinality(JobsIn(InGoroutine))' \in Nat
      BY <1>0, <2>1, MoveCounts, JobsInFinite DEF OwnsKey, HoldsSlot, InGoroutine
    <2>4. CountsMatch'
      BY <1>12, <2>1, <2>3, JobsInFinite DEF GoroutineDone, CountsMatch, TypeOK
    <2>5. TypeOK'
      BY <1>0, <1>12, <2>1, <2>3, <2>4, JobsInFinite DEF GoroutineDone, TypeOK, Move, Keys, CountsMatch
    <2>6. NoTwins' /\ KeysMatchOwners'
      BY <1>12, <2>1, <2>2 DEF GoroutineDone, NoTwins, KeysMatchOwners
    <2>7. QueueMatches'
      BY <1>12, <2>1, <2>2 DEF GoroutineDone, QueueMatches, TypeOK
    <2>8. HandMatches'
      BY <1>12, <2>1, <2>2 DEF GoroutineDone, HandMatches, TypeOK
    <2>9. ShutdownOrder'
      BY <1>12, <2>1, <2>2, <2>3, JobsInFinite, SMTT(30) DEF GoroutineDone, ShutdownOrder, Stopped, TypeOK, CountsMatch
    <2>10. QED
      BY <2>4, <2>5, <2>6, <2>7, <2>8, <2>9
  <1>13. CASE DispatchReceive
    <2> DEFINE j == Head(queue)
    <2>0. queue \in Seq(Jobs) /\ queue # <<>> /\ 1 \in DOMAIN queue /\ j = queue[1]
      BY <1>13 DEF DispatchReceive, TypeOK
    <2>1. j \in Jobs /\ status[j] = "queued" /\ Move(j, "held")
      BY <1>13, <2>0 DEF DispatchReceive, QueueMatches, JobsIn
    <2> HIDE DEF j
    <2>2. /\ JobsIn(OwnsKey)' = JobsIn(OwnsKey)
          /\ JobsIn({"queued"})' = JobsIn({"queued"}) \ {j} /\ j \in JobsIn({"queued"})
          /\ JobsIn({"held"})' = JobsIn({"held"}) \cup {j} /\ j \notin JobsIn({"held"})
          /\ JobsIn(HoldsSlot)' = JobsIn(HoldsSlot)
          /\ JobsIn(InGoroutine)' = JobsIn(InGoroutine)
      BY <1>0, <2>1, MoveSets DEF OwnsKey, HoldsSlot, InGoroutine
    <2>3. /\ Cardinality(JobsIn(HoldsSlot))' = Cardinality(JobsIn(HoldsSlot)) /\ Cardinality(JobsIn(HoldsSlot))' \in Nat
          /\ Cardinality(JobsIn(InGoroutine))' = Cardinality(JobsIn(InGoroutine)) /\ Cardinality(JobsIn(InGoroutine))' \in Nat
      BY <1>0, <2>1, MoveCounts, JobsInFinite DEF OwnsKey, HoldsSlot, InGoroutine
    <2>4. CountsMatch'
      BY <1>13, <2>1, <2>3, JobsInFinite DEF DispatchReceive, CountsMatch, TypeOK
    <2>5. TypeOK'
      BY <1>0, <1>13, <2>1, <2>3, <2>4, JobsInFinite DEF DispatchReceive, TypeOK, Move, Keys, CountsMatch
    <2>6. NoTwins' /\ KeysMatchOwners'
      BY <1>13, <2>1, <2>2 DEF DispatchReceive, NoTwins, KeysMatchOwners
    <2>7. QueueMatches'
      <3>1. /\ queue' = Tail(queue) /\ Len(queue) \in Nat /\ Len(queue) > 0
            /\ DOMAIN queue = 1 .. Len(queue)
            /\ DOMAIN queue' = 1 .. Len(queue) - 1
            /\ \A i \in DOMAIN queue' : queue'[i] = queue[i + 1] /\ i + 1 \in DOMAIN queue
        BY <1>13, <2>0 DEF DispatchReceive
      <3>2. \A i, k \in DOMAIN queue' : queue'[i] = queue'[k] => i = k
        BY <3>1 DEF QueueMatches
      <3>3. {queue'[i] : i \in DOMAIN queue'} = {queue[i] : i \in DOMAIN queue} \ {j}
        <4>1. \A i \in DOMAIN queue' : queue'[i] # j
          BY <2>0, <3>1 DEF QueueMatches
        <4>2. \A i \in DOMAIN queue : queue[i] # j => i - 1 \in DOMAIN queue' /\ queue'[i - 1] = queue[i]
          BY <2>0, <3>1
        <4>3. \A x : x \in {queue'[i] : i \in DOMAIN queue'}
                       => x \in {queue[i] : i \in DOMAIN queue} \ {j}
          BY <3>1, <4>1
        <4>4. \A x : x \in {queue[i] : i \in DOMAIN queue} \ {j}
                       => x \in {queue'[i] : i \in DOMAIN queue'}
          BY <4>2
        <4>5. QED
          BY <4>3, <4>4
      <3>4. QED
        BY <2>2, <3>2, <3>3 DEF QueueMatches
    <2>8. HandMatches'
      BY <1>13, <2>1, <2>2 DEF DispatchReceive, HandMatches, TypeOK
    <2>9. ShutdownOrder'
      BY <1>13, <2>1, <2>2, <2>3, JobsInFinite DEF DispatchReceive, ShutdownOrder, Stopped, TypeOK, CountsMatch
    <2>10. QED
      BY <2>4, <2>5, <2>6, <2>7, <2>8, <2>9
  <1>14. ASSUME NEW j \in Jobs, Timeout(j) PROVE IInv'
    BY <1>14, JobsInFinite DEF Timeout, TypeOK, NoTwins, KeysMatchOwners, QueueMatches, HandMatches, CountsMatch,
         ShutdownOrder, Stopped, JobsIn
  <1>15. CASE DispatchExit
    <2>1. Cardinality(JobsIn(InGoroutine)) \in Nat /\ wg = Cardinality(JobsIn(InGoroutine)) + 1
      BY <1>15, JobsInFinite DEF DispatchExit, CountsMatch
    <2>2. \A S : JobsIn(S)' = JobsIn(S)
      BY <1>15 DEF DispatchExit, JobsIn
    <2>3. TypeOK'
      BY <1>15, <2>1 DEF DispatchExit, TypeOK
    <2>4. CountsMatch'
      BY <1>15, <2>1, <2>2 DEF DispatchExit, CountsMatch
    <2>5. NoTwins' /\ KeysMatchOwners'
      BY <1>15, <2>2 DEF DispatchExit, NoTwins, KeysMatchOwners
    <2>6. QueueMatches' /\ HandMatches'
      BY <1>15, <2>2 DEF DispatchExit, QueueMatches, HandMatches
    <2>7. ShutdownOrder'
      BY <1>15, <2>1 DEF DispatchExit, ShutdownOrder, Stopped
    <2>8. QED
      BY <2>3, <2>4, <2>5, <2>6, <2>7
  <1>16. CASE ShutdownBegin
    BY <1>16, JobsInFinite DEF ShutdownBegin, TypeOK, NoTwins, KeysMatchOwners, QueueMatches, HandMatches, CountsMatch,
         ShutdownOrder, Stopped, JobsIn
  <1>17. CASE ShutdownDrained
    BY <1>17, JobsInFinite DEF ShutdownDrained, TypeOK, NoTwins, KeysMatchOwners, QueueMatches, HandMatches, CountsMatch,
         ShutdownOrder, Stopped, JobsIn
  <1>18. CASE ShutdownDeadline
    BY <1>18, JobsInFinite DEF ShutdownDeadline, TypeOK, NoTwins, KeysMatchOwners, QueueMatches, HandMatches, CountsMatch,
         ShutdownOrder, Stopped, JobsIn
  <1>19. CASE ShutdownUnwound
    BY <1>19, JobsInFinite DEF ShutdownUnwound, TypeOK, NoTwins, KeysMatchOwners, QueueMatches, HandMatches, CountsMatch,
         ShutdownOrder, Stopped, JobsIn
  <1>20. CASE UNCHANGED vars
    BY <1>20 DEF vars, TypeOK, NoTwins, KeysMatchOwners, QueueMatches, HandMatches, CountsMatch,
         ShutdownOrder, Stopped, JobsIn
  <1>21. QED
    BY StepCases, <1>1, <1>2, <1>3, <1>4, <1>5, <1>6, <1>7, <1>8, <1>9, <1>10, <1>11, <1>12, <1>13, <1>14, <1>15, <1>16, <1>17, <1>18, <1>19, <1>20

(* The scan pool keeps its invariant: types, the dedup set, the queue, the *)
(* slots and the wait group always agree with the jobs they stand for.     *)
THEOREM Invariance == Spec => []IInv
  BY InitIInv, NextIInv, PTL DEF Spec

(* Whatever is submitted, in whatever interleaving, two jobs with one key  *)
(* are never both in the pool.                                             *)
THEOREM NoTwinsInPool == Spec => []NoTwins
  <1>1. IInv => NoTwins
    BY DEF IInv
  <1>2. QED
    BY <1>1, Invariance, PTL

(* No path out of the pool leaves a key reserved.                          *)
THEOREM NoLeakedKey == Spec => []KeysMatchOwners
  <1>1. IInv => KeysMatchOwners
    BY DEF IInv
  <1>2. QED
    BY <1>1, Invariance, PTL

(* At most MaxConcurrent scans run at once: each holds a slot.             *)
THEOREM ConcurrencyBounded == Spec => []RunningBounded
  <1>1. IInv => RunningBounded
    BY PoolAssumption DEF IInv, CountsMatch, TypeOK, RunningBounded
  <1>2. QED
    BY <1>1, Invariance, PTL

(* When Shutdown has returned the wait group is at zero, so the dispatcher *)
(* has left, which it does only with an empty queue, and no goroutine of a *)
(* job is left.                                                            *)
LEMMA IdleWhenDrained == IInv => DrainedMeansIdle
  <1> SUFFICES ASSUME IInv, Stopped PROVE JobsIn(Owed) = {}
    BY DEF DrainedMeansIdle
  <1>1. wg = 0
    BY DEF IInv, ShutdownOrder
  <1>2. dispatcher = "exited" /\ Cardinality(JobsIn(InGoroutine)) = 0
    BY <1>1, JobsInFinite DEF IInv, CountsMatch
  <1>3. JobsIn(InGoroutine) = {}
    BY <1>2, JobsInFinite, FS_EmptySet
  <1>4. JobsIn({"queued"}) = {}
    <2>1. queue = <<>>
      BY <1>2 DEF IInv, ShutdownOrder
    <2>2. {queue[i] : i \in DOMAIN queue} = {}
      BY <2>1
    <2>3. QED
      BY <2>2 DEF IInv, QueueMatches
  <1>5. JobsIn({"held"}) = {}
    BY <1>2 DEF IInv, HandMatches
  <1>6. QED
    BY <1>3, <1>4, <1>5 DEF JobsIn, Owed

(* When Shutdown has returned nothing that was accepted is lost.           *)
THEOREM ShutdownDrains == Spec => []DrainedMeansIdle
  BY IdleWhenDrained, Invariance, PTL

-----------------------------------------------------------------------------
(* The pool implements the abstract service.                               *)

(* What the dispatcher holds is the one job with status "held".            *)
LEMMA InHandValue ==
    ASSUME IInv
    PROVE  /\ \A j \in Jobs : status[j] = "held" => dispatcher = "holding" /\ InHand = <<j>>
           /\ dispatcher # "holding" => InHand = <<>>
           /\ dispatcher = "holding" =>
                \E j \in Jobs : status[j] = "held" /\ InHand = <<j>>
  <1>1. \A j, k \in Jobs : status[j] = "held" /\ status[k] = "held" => j = k
    BY DEF IInv, HandMatches, JobsIn
  <1>2. \A j \in Jobs : status[j] = "held" => dispatcher = "holding"
    BY DEF IInv, HandMatches, JobsIn
  <1>3. dispatcher = "holding" => \E j \in Jobs : status[j] = "held"
    BY DEF IInv, HandMatches, JobsIn
  <1>4. \A j \in Jobs : status[j] = "held" => j = CHOOSE k \in Jobs : status[k] = "held"
    BY <1>1
  <1>5. QED
    BY <1>2, <1>3, <1>4 DEF InHand

(* A step that keeps the dispatcher's hand and no job's being held leaves  *)
(* what is in the hand.                                                    *)
LEMMA InHandSame ==
    ASSUME IInv, IInv', dispatcher' = dispatcher,
           \A j \in Jobs : status'[j] = "held" <=> status[j] = "held"
    PROVE  InHand' = InHand
  <1>1. CASE dispatcher # "holding"
    BY <1>1 DEF InHand
  <1>2. CASE dispatcher = "holding"
    <2>1. \A k \in Jobs : (status'[k] = "held") = (status[k] = "held")
      OBVIOUS
    <2>2. (CHOOSE k \in Jobs : status'[k] = "held") = (CHOOSE k \in Jobs : status[k] = "held")
      BY <2>1, Zenon
    <2>3. QED
      BY <1>2, <2>2 DEF InHand
  <1>3. QED
    BY <1>1, <1>2

(* Every job waiting in the backlog is accepted and owns its key.          *)
LEMMA BacklogOwns ==
    ASSUME IInv
    PROVE  /\ InHand \o queue \in Seq(Jobs)
           /\ \A i \in DOMAIN (InHand \o queue) :
                status[(InHand \o queue)[i]] \in {"queued", "held"}
           /\ Len(InHand \o queue) <= Len(queue) + 1
  <1>1. /\ queue \in Seq(Jobs)
        /\ \A i \in DOMAIN queue : status[queue[i]] = "queued"
    BY DEF IInv, TypeOK, QueueMatches, JobsIn
  <1>2. CASE dispatcher # "holding"
    <2>1. InHand = <<>>
      BY <1>2, InHandValue
    <2>2. InHand \o queue = queue
      BY <1>1, <2>1
    <2>3. QED
      BY <1>1, <2>2
  <1>3. CASE dispatcher = "holding"
    <2>1. PICK j \in Jobs : status[j] = "held" /\ InHand = <<j>>
      BY <1>3, InHandValue
    <2>2. /\ InHand \o queue \in Seq(Jobs)
          /\ Len(InHand \o queue) = Len(queue) + 1
          /\ (InHand \o queue)[1] = j
          /\ \A i \in 2 .. Len(queue) + 1 : (InHand \o queue)[i] = queue[i - 1]
      BY <1>1, <2>1
    <2>3. QED
      BY <1>1, <2>1, <2>2
  <1>4. QED
    BY <1>2, <1>3

(* The values the service's variables take, for the steps below.           *)
Accepted == JobsIn(Owed \cup {"done"})
Active == JobsIn({"running", "returned"})
ServiceState == IF Stopped THEN "halted" ELSE IF closed THEN "closing" ELSE "open"
ServiceVars == <<Accepted, InHand \o queue, Active, ServiceState>>

LEMMA ServiceClasses ==
    /\ Owed \cup {"done"} = {"queued", "held", "running", "returned", "released", "freed", "done"}
    /\ OwnsKey = {"reserved", "panicked", "refusing", "queued", "held", "running", "returned"}
    /\ HoldsSlot = {"running", "returned", "released"}
  BY DEF Owed, OwnsKey, InGoroutine, HoldsSlot

(* A job that gets into the channel is a job the service accepts: its key  *)
(* is its own, so nothing that waits or runs has it.                       *)
LEMMA SendAccepts ==
    ASSUME IInv, IInv', NEW j \in Jobs, SendQueued(j)
    PROVE  Service!Accept(j)
  <1> USE ServiceClasses DEF Accepted, Active, ServiceState
  <1>1. /\ status[j] = "reserved" /\ ~closed /\ Len(queue) < QueueDepth
        /\ queue' = Append(queue, j) /\ status' = [status EXCEPT ![j] = "queued"]
        /\ UNCHANGED <<closed, dispatcher, stopper>>
    BY DEF SendQueued, Move
  <1>2. status \in [Jobs -> Status] /\ queue \in Seq(Jobs)
    BY DEF IInv, TypeOK
  <1>3. stopper = "idle"
    BY <1>1 DEF IInv, ShutdownOrder
  <1>4. ~Service!Duplicate(j)
    <2>1. \A k \in Jobs : status[k] \in OwnsKey /\ KeyOf[k] = KeyOf[j] /\ KeyOf[j] # NoKey => k = j
      BY <1>1 DEF IInv, NoTwins, JobsIn
    <2>2. \A k \in Service!Waiting \cup Active : k \in Jobs /\ k # j /\ status[k] \in OwnsKey
      <3>1. \A k \in Active : k \in Jobs /\ k # j /\ status[k] \in OwnsKey
        BY <1>1 DEF JobsIn
      <3>2. \A k \in Service!Waiting : k \in Jobs /\ k # j /\ status[k] \in OwnsKey
        BY <1>1, BacklogOwns DEF Service!Waiting
      <3>3. QED
        BY <3>1, <3>2
    <2>3. QED
      BY <2>1, <2>2 DEF Service!Duplicate
  <1>5. InHand' = InHand
    BY <1>1, <1>2, InHandSame
  <1>6. (InHand \o queue)' = Append(InHand \o queue, j)
    <2>1. InHand \in Seq(Jobs)
      <3>1. CASE dispatcher = "holding"
        <4>1. PICK k \in Jobs : InHand = <<k>>
          BY <3>1, InHandValue
        <4>2. QED
          BY <4>1
      <3>2. CASE dispatcher # "holding"
        BY <3>2, InHandValue
      <3>3. QED
        BY <3>1, <3>2
    <2>2. InHand \o Append(queue, j) = Append(InHand \o queue, j)
      BY <1>2, <2>1
    <2>3. QED
      BY <1>1, <1>5, <2>2
  <1>7. Len(InHand \o queue) < QueueDepth + 1
    BY <1>1, <1>2, BacklogOwns, PoolAssumption
  <1>8. j \notin Accepted /\ Accepted' = Accepted \cup {j} /\ Active' = Active
    BY <1>1, <1>2 DEF JobsIn
  <1>9. ServiceState = "open" /\ ServiceState' = "open"
    BY <1>1, <1>3 DEF Stopped
  <1>10. QED
    BY <1>4, <1>6, <1>7, <1>8, <1>9 DEF Service!Accept

(* The dispatcher starts the oldest job of the backlog, and a job that is  *)
(* active holds a slot.                                                    *)
LEMMA DispatchStarts ==
    ASSUME IInv, IInv', NEW j \in Jobs, DispatchStart(j)
    PROVE  Service!Start
  <1> USE ServiceClasses DEF Accepted, Active, ServiceState
  <1>1. /\ status[j] = "held" /\ dispatcher = "holding" /\ slots < MaxConcurrent
        /\ dispatcher' = "receiving" /\ status' = [status EXCEPT ![j] = "running"]
        /\ UNCHANGED <<queue, closed, stopper>>
    BY DEF DispatchStart, Move
  <1>2. status \in [Jobs -> Status] /\ queue \in Seq(Jobs)
    BY DEF IInv, TypeOK
  <1>3. InHand = <<j>>
    BY <1>1, InHandValue
  <1>4. InHand' = <<>>
    BY <1>1 DEF InHand
  <1>5. /\ InHand \o queue # <<>> /\ Head(InHand \o queue) = j
        /\ (InHand \o queue)' = Tail(InHand \o queue)
    <2>1. (<<j>> \o queue) # <<>> /\ Head(<<j>> \o queue) = j /\ Tail(<<j>> \o queue) = queue
      BY <1>2
    <2>2. <<>> \o queue = queue
      BY <1>2
    <2>3. QED
      BY <1>1, <1>3, <1>4, <2>1, <2>2
  <1>6. Cardinality(Active) < MaxConcurrent
    <2>1. Active \subseteq JobsIn(HoldsSlot)
      BY DEF JobsIn
    <2>2. Cardinality(JobsIn(HoldsSlot)) < MaxConcurrent
      BY <1>1 DEF IInv, CountsMatch
    <2>3. QED
      BY <2>1, <2>2, JobsInFinite, FS_Subset, PoolAssumption
  <1>7. Active' = Active \cup {j} /\ Accepted' = Accepted
    BY <1>1, <1>2 DEF JobsIn
  <1>8. ServiceState' = ServiceState
    BY <1>1 DEF Stopped
  <1> DEFINE b == InHand \o queue
  <1>9. b # <<>> /\ Active' = Active \cup {Head(b)} /\ b' = Tail(b)
    BY <1>5, <1>7
  <1>10. QED
    BY <1>6, <1>7, <1>8, <1>9 DEF Service!Start, Service!Cardinality, Cardinality

(* Receiving moves a job from the channel to the hand: the backlog is the  *)
(* same sequence.                                                          *)
LEMMA ReceiveStutters ==
    ASSUME IInv, IInv', DispatchReceive
    PROVE  UNCHANGED ServiceVars
  <1> USE ServiceClasses DEF Accepted, Active, ServiceState
  <1> DEFINE j == Head(queue)
  <1>1. /\ queue \in Seq(Jobs) /\ queue # <<>> /\ 1 \in DOMAIN queue /\ j = queue[1]
        /\ status \in [Jobs -> Status]
    BY DEF DispatchReceive, IInv, TypeOK
  <1>2. j \in Jobs /\ status[j] = "queued"
    BY <1>1 DEF IInv, QueueMatches, JobsIn
  <1>3. /\ dispatcher = "receiving" /\ dispatcher' = "holding" /\ queue' = Tail(queue)
        /\ status' = [status EXCEPT ![j] = "held"] /\ UNCHANGED <<closed, stopper>>
    BY DEF DispatchReceive, Move
  <1>4. InHand = <<>>
    BY <1>3 DEF InHand
  <1>5. InHand' = <<j>>
    <2>1. \A k \in Jobs : status'[k] = "held" <=> k = j
      BY <1>1, <1>2, <1>3 DEF IInv, HandMatches, JobsIn
    <2>2. (CHOOSE k \in Jobs : status'[k] = "held") = j
      BY <1>2, <2>1
    <2>3. QED
      BY <1>3, <2>2 DEF InHand
  <1>6. (InHand \o queue)' = InHand \o queue
    BY <1>1, <1>3, <1>4, <1>5
  <1>7. Accepted' = Accepted /\ Active' = Active
    BY <1>1, <1>2, <1>3 DEF JobsIn
  <1>8. QED
    BY <1>3, <1>6, <1>7 DEF ServiceVars, Stopped

(* The scan pool implements the abstract service: whatever the schedule,   *)
(* jobs start in the order they were accepted, each exactly once, never    *)
(* two of one key nor more than MaxConcurrent, and it halts only when      *)
(* closed and idle.                                                        *)
THEOREM Refinement == Spec => ImplementsService
  <1> USE ServiceClasses
  <1>1. Init => Service!Init
    <2> SUFFICES ASSUME Init PROVE Service!Init
      OBVIOUS
    <2>1. JobsIn(Owed \cup {"done"}) = {} /\ JobsIn({"running", "returned"}) = {}
      BY DEF Init, JobsIn
    <2>2. InHand \o queue = <<>>
      BY DEF Init, InHand
    <2>3. QED
      BY <2>1, <2>2 DEF Init, Stopped, Service!Init
  <1>2. IInv /\ IInv' /\ [Next]_vars => [Service!Next]_Service!vars
    <2> SUFFICES ASSUME IInv, IInv', [Next]_vars PROVE [Service!Next]_Service!vars
      OBVIOUS
    <2> DEFINE Stutter == UNCHANGED ServiceVars
    <2>0. Stutter => UNCHANGED Service!vars
      BY DEF ServiceVars, Service!vars, Accepted, Active, ServiceState
    <2>t. status \in [Jobs -> Status] /\ queue \in Seq(Jobs)
      BY DEF IInv, TypeOK
    <2>1. ASSUME NEW j \in Jobs, SendQueued(j) PROVE Service!Next
      BY <2>1, SendAccepts DEF Service!Next
    <2>2. ASSUME NEW j \in Jobs, DispatchStart(j) PROVE Service!Next
      BY <2>2, DispatchStarts DEF Service!Next
    <2>3. ASSUME NEW j \in Jobs, ReleaseKey(j) PROVE Service!Next
      <3>1. InHand' = InHand
        BY <2>3, <2>t, InHandSame DEF ReleaseKey, Move
      <3>2. /\ j \in Active /\ Active' = Active \ {j} /\ Accepted' = Accepted
        BY <2>3, <2>t DEF ReleaseKey, Move, JobsIn, Active, Accepted
      <3>3. Service!Complete(j)
        BY <2>3, <3>1, <3>2 DEF ReleaseKey, Service!Complete, Stopped, Active, Accepted
      <3>4. QED
        BY <3>3 DEF Service!Next
    <2>4. ASSUME NEW j \in Jobs,
                 \/ SubmitRejected(j) \/ SubmitDuplicate(j) \/ SubmitReserve(j)
                 \/ SendFull(j) \/ SendPanics(j) \/ RefuseFull(j) \/ Timeout(j)
                 \/ RunReturns(j) \/ FreeSlot(j) \/ GoroutineDone(j)
          PROVE  Stutter
      <3>1. /\ UNCHANGED <<queue, dispatcher, closed, stopper>>
            /\ \A k \in Jobs :
                 /\ status'[k] = "held" <=> status[k] = "held"
                 /\ status'[k] \in Owed \cup {"done"} <=> status[k] \in Owed \cup {"done"}
                 /\ status'[k] \in {"running", "returned"} <=> status[k] \in {"running", "returned"}
        BY <2>4, <2>t DEF SubmitRejected, SubmitDuplicate, SubmitReserve, SendFull,
           SendPanics, RefuseFull, Timeout, RunReturns, FreeSlot, GoroutineDone, Move
      <3>2. InHand' = InHand
        BY <3>1, InHandSame
      <3>3. Accepted' = Accepted /\ Active' = Active
        BY <3>1 DEF JobsIn, Accepted, Active
      <3>4. QED
        BY <3>1, <3>2, <3>3 DEF ServiceVars, ServiceState, Stopped
    <2>5. CASE DispatchReceive
      BY <2>0, <2>5, ReceiveStutters
    <2>6. CASE DispatchExit
      <3>1. InHand = <<>> /\ InHand' = <<>>
        BY <2>6 DEF DispatchExit, InHand
      <3>2. Stutter
        BY <2>6, <3>1 DEF DispatchExit, ServiceVars, ServiceState, Stopped, Accepted,
           Active, JobsIn
      <3>3. QED
        BY <2>0, <3>2
    <2>7. CASE ShutdownBegin
      <3>1. UNCHANGED <<InHand \o queue, Accepted, Active>>
        BY <2>7 DEF ShutdownBegin, InHand, Accepted, Active, JobsIn
      <3>2. ~closed
        BY <2>7 DEF ShutdownBegin, IInv, ShutdownOrder
      <3>3. Service!Close
        BY <2>7, <3>1, <3>2 DEF ShutdownBegin, Service!Close, Stopped, Accepted, Active
      <3>4. QED
        BY <3>3 DEF Service!Next
    <2>8. CASE ShutdownDeadline
      <3>1. UNCHANGED <<InHand \o queue, Accepted, Active>>
        BY <2>8 DEF ShutdownDeadline, InHand, Accepted, Active, JobsIn
      <3>2. Stutter
        BY <2>8, <3>1 DEF ShutdownDeadline, ServiceVars, ServiceState, Stopped
      <3>3. QED
        BY <3>2, <2>0
    <2>9. CASE ShutdownDrained \/ ShutdownUnwound
      <3>0. UNCHANGED <<status, queue, dispatcher>>
        BY <2>9 DEF ShutdownDrained, ShutdownUnwound
      <3>1. UNCHANGED <<InHand \o queue, Accepted, Active>>
        BY <3>0 DEF InHand, Accepted, Active, JobsIn
      <3>2. wg = 0 /\ closed /\ ~Stopped /\ Stopped'
        BY <2>9 DEF ShutdownDrained, ShutdownUnwound, IInv, ShutdownOrder, Stopped
      <3>3. dispatcher = "exited" /\ JobsIn(InGoroutine) = {}
        <4>1. dispatcher = "exited" /\ Cardinality(JobsIn(InGoroutine)) = 0
          BY <3>2, JobsInFinite DEF IInv, CountsMatch
        <4>2. QED
          BY <4>1, JobsInFinite, FS_EmptySet
      <3>4. InHand \o queue = <<>>
        <4>1. queue = <<>> /\ InHand = <<>>
          BY <3>3 DEF IInv, ShutdownOrder, InHand
        <4>2. QED
          BY <4>1
      <3>5. Active = {}
        BY <3>3 DEF Active, JobsIn, InGoroutine
      <3>6. Service!Halt
        BY <3>1, <3>2, <3>4, <3>5 DEF Service!Halt, Accepted, Active
      <3>7. QED
        BY <3>6 DEF Service!Next
    <2>10. CASE UNCHANGED vars
      <3>1. UNCHANGED <<InHand \o queue, Accepted, Active, ServiceState>>
        BY <2>10 DEF vars, InHand, Accepted, Active, JobsIn, ServiceState, Stopped
      <3>2. QED
        BY <3>1, <2>0 DEF ServiceVars
    <2>11. QED
      BY <2>0, <2>1, <2>2, <2>3, <2>4, <2>5, <2>6, <2>7, <2>8, <2>9, <2>10, StepCases
  <1>3. QED
    BY <1>1, <1>2, Invariance, PTL DEF Spec, ImplementsService, Service!Spec

-----------------------------------------------------------------------------
(* --- the server around the pool ------------------------------------------ *)

(* A step of the server is a step of the pool or leaves the pool alone.    *)
LEMMA AppStepIsPoolStep == [AppNext]_appVars => [Next]_vars
  <1> SUFFICES ASSUME [AppNext]_appVars PROVE [Next]_vars
    OBVIOUS
  <1>1. ASSUME NEW j \in Jobs, Submitting(j) PROVE Next
    BY <1>1 DEF Submitting, Next
  <1>2. ASSUME NEW j \in Jobs, StartScan(j) PROVE Next
    BY <1>2 DEF StartScan, Next
  <1>3. ASSUME NEW j \in Jobs, ReturnScan(j) PROVE Next
    BY <1>3 DEF ReturnScan, Next
  <1>4. ASSUME NEW j \in Jobs, PoolGoroutine(j) PROVE Next
    BY <1>4 DEF PoolGoroutine, Next
  <1>5. CASE Dispatcher \/ HttpDrained \/ DrainDeadline \/ DrainEnds
    BY <1>5 DEF Dispatcher, HttpDrained, DrainDeadline, DrainEnds, Next
  <1>6. ASSUME NEW j \in Jobs,
               \/ Connect(j) \/ ReadFails(j) \/ AnswerUnscanned(j)
               \/ DispatchScan(j) \/ AnswerScan(j)
        PROVE UNCHANGED vars
    BY <1>6 DEF Connect, ReadFails, AnswerUnscanned, DispatchScan, AnswerScan, Finish
  <1>7. ASSUME NEW j \in Jobs,
               \/ GetToken(j) \/ RunScanner(j) \/ PostComment(j)
               \/ PostFails(j) \/ FinishScan(j) \/ ScanFails(j)
               \/ OrphanHolds(j) \/ OrphanExits(j)
        PROVE UNCHANGED vars
    BY <1>7 DEF GetToken, RunScanner, PostComment, PostFails, FinishScan, ScanFails, AtStage,
                OrphanHolds, OrphanExits
  <1>8. CASE \/ SignalReceived \/ ListenFails \/ HttpTimesOut \/ MainReturns
             \/ Kill \/ AppRest \/ UNCHANGED appVars
    BY <1>8 DEF SignalReceived, ListenFails, HttpTimesOut, MainReturns, Kill,
                AppRest, appVars, vars
  <1>9. QED
    BY <1>1, <1>2, <1>3, <1>4, <1>5, <1>6, <1>7, <1>8 DEF AppNext

(* The server implements the pool: the pool inside it behaves as ScanPool  *)
(* says, whatever the requests, the scans and the main goroutine do.       *)
THEOREM AppImplementsPool == AppSpec => Spec
  <1>1. AppInit => Init
    BY DEF AppInit
  <1>2. QED
    BY <1>1, AppStepIsPoolStep, PTL DEF AppSpec, Spec

LEMMA AppInitInv == AppInit /\ IInv => AppInv
  BY DEF AppInit, Init, AppInv, IInv, AppTypeOK, RequestOrder, StageOrder, MainOrder,
         OnlyVerifiedScans, ActiveRequests, Handling, Exited

(* Every step of the server preserves AppInv, given the pool's invariant   *)
(* before and after it.                                                    *)
LEMMA AppNextInv ==
    ASSUME IInv, IInv', AppInv, [AppNext]_appVars
    PROVE  AppInv'
  <1> USE DEF AppInv
  <1> USE AppAssumption
  <1>0. /\ status \in [Jobs -> Status] /\ TypeOK' /\ ShutdownOrder
        /\ request \in [Jobs -> {"none", "answered", "aborted"} \cup Handling]
        /\ answer \in [Jobs -> {0, 200, 400, 401, 500}]
        /\ stage \in [Jobs -> {"start", "token", "scanned", "commented"} \cup Concluded]
        /\ \A j \in Jobs : request[j] \in Handling => ~closed
        /\ "open" \in Handling /\ "submitting" \in Handling
    <2>1. status \in [Jobs -> Status] /\ TypeOK' /\ ShutdownOrder
      BY DEF IInv, TypeOK
    <2>2. /\ request \in [Jobs -> {"none", "answered", "aborted"} \cup Handling]
          /\ answer \in [Jobs -> {0, 200, 400, 401, 500}]
          /\ stage \in [Jobs -> {"start", "token", "scanned", "commented"} \cup Concluded]
      BY DEF AppTypeOK
    <2>3. \A j \in Jobs : request[j] \in Handling => ~closed
      BY DEF MainOrder, ActiveRequests
    <2>4. QED
      BY <2>1, <2>2, <2>3 DEF Handling
  <1>1. ASSUME NEW j \in Jobs, Connect(j) PROVE AppInv'
    <2>1. AppTypeOK'
      BY <1>0, <1>1 DEF AppTypeOK, Connect, vars, appOnly, Exited, Concluded, Handling, RequestOrder
    <2>2. RequestOrder'
      BY <1>0, <1>1 DEF RequestOrder, Connect, vars, appOnly
    <2>3. StageOrder'
      BY <1>0, <1>1 DEF StageOrder, Connect, vars, appOnly, RequestOrder, InGoroutine, HoldsSlot, Owed, OnlyVerifiedScans
    <2>4. MainOrder'
      BY <1>0, <1>1 DEF MainOrder, Connect, vars, appOnly, ActiveRequests, Handling, Stopped, ShutdownOrder
    <2>5. OnlyVerifiedScans'
      BY <1>0, <1>1 DEF OnlyVerifiedScans, Connect, vars, appOnly, RequestOrder, InGoroutine, HoldsSlot, Owed, StageOrder
    <2>6. QED
      BY <2>1, <2>2, <2>3, <2>4, <2>5
  <1>2. ASSUME NEW j \in Jobs, ReadFails(j) PROVE AppInv'
    <2>1. AppTypeOK'
      BY <1>0, <1>2 DEF AppTypeOK, ReadFails, vars, appOnly, Finish, Exited, Concluded, Handling, RequestOrder
    <2>2. RequestOrder'
      BY <1>0, <1>2 DEF RequestOrder, ReadFails, vars, appOnly, Finish
    <2>3. StageOrder'
      BY <1>0, <1>2 DEF StageOrder, ReadFails, vars, appOnly, Finish, RequestOrder, InGoroutine, HoldsSlot, Owed, OnlyVerifiedScans
    <2>4. MainOrder'
      BY <1>0, <1>2 DEF MainOrder, ReadFails, vars, appOnly, Finish, ActiveRequests, Handling, Stopped, ShutdownOrder
    <2>5. OnlyVerifiedScans'
      BY <1>0, <1>2 DEF OnlyVerifiedScans, ReadFails, vars, appOnly, Finish, RequestOrder, InGoroutine, HoldsSlot, Owed, StageOrder
    <2>6. QED
      BY <2>1, <2>2, <2>3, <2>4, <2>5
  <1>3. ASSUME NEW j \in Jobs, AnswerUnscanned(j) PROVE AppInv'
    <2>1. AppTypeOK'
      BY <1>0, <1>3 DEF AppTypeOK, AnswerUnscanned, vars, appOnly, Finish, AnswerOf, Exited, Concluded, Handling, RequestOrder
    <2>2. RequestOrder'
      BY <1>0, <1>3 DEF RequestOrder, AnswerUnscanned, vars, appOnly, Finish, AnswerOf
    <2>3. StageOrder'
      BY <1>0, <1>3 DEF StageOrder, AnswerUnscanned, vars, appOnly, Finish, AnswerOf, RequestOrder, InGoroutine, HoldsSlot, Owed, OnlyVerifiedScans
    <2>4. MainOrder'
      BY <1>0, <1>3 DEF MainOrder, AnswerUnscanned, vars, appOnly, Finish, AnswerOf, ActiveRequests, Handling, Stopped, ShutdownOrder
    <2>5. OnlyVerifiedScans'
      BY <1>0, <1>3 DEF OnlyVerifiedScans, AnswerUnscanned, vars, appOnly, Finish, AnswerOf, RequestOrder, InGoroutine, HoldsSlot, Owed, StageOrder
    <2>6. QED
      BY <2>1, <2>2, <2>3, <2>4, <2>5
  <1>4. ASSUME NEW j \in Jobs, DispatchScan(j) PROVE AppInv'
    <2>1. AppTypeOK'
      BY <1>0, <1>4 DEF AppTypeOK, DispatchScan, vars, appOnly, Exited, Concluded, Handling, RequestOrder
    <2>2. RequestOrder'
      BY <1>0, <1>4 DEF RequestOrder, DispatchScan, vars, appOnly
    <2>3. StageOrder'
      BY <1>0, <1>4 DEF StageOrder, DispatchScan, vars, appOnly, RequestOrder, InGoroutine, HoldsSlot, Owed, OnlyVerifiedScans
    <2>4. MainOrder'
      BY <1>0, <1>4 DEF MainOrder, DispatchScan, vars, appOnly, ActiveRequests, Handling, Stopped, ShutdownOrder
    <2>5. OnlyVerifiedScans'
      BY <1>0, <1>4 DEF OnlyVerifiedScans, DispatchScan, vars, appOnly, RequestOrder, InGoroutine, HoldsSlot, Owed, StageOrder
    <2>6. QED
      BY <2>1, <2>2, <2>3, <2>4, <2>5
  <1>5. ASSUME NEW j \in Jobs, Submitting(j) PROVE AppInv'
    <2>1. request[j] = "submitting" /\ ~closed
      BY <1>0, <1>5 DEF Submitting
    <2>2. /\ closed' = closed /\ stopper' = stopper
          /\ \/ status' = status
             \/ \E s \in {"duplicate", "reserved", "queued", "refusing", "refused"} :
                   Move(j, s)
      BY <1>5, <2>1 DEF Submitting, Submit, SubmitRejected, SubmitDuplicate, SubmitReserve,
           SendQueued, SendFull, SendPanics, RefuseFull
    <2>3. status[j] \notin InGoroutine \cup {"done"}
      BY <1>5 DEF Submitting, Submit, SubmitRejected, SubmitDuplicate, SubmitReserve,
           SendQueued, SendFull, SendPanics, RefuseFull, InGoroutine, HoldsSlot
    <2>4. AppTypeOK'
      BY <1>0, <1>5, <2>1, <2>2, <2>3 DEF AppTypeOK, Submitting, appOnly, Move, Exited, Concluded, Handling, RequestOrder
    <2>5. RequestOrder'
      BY <1>0, <1>5, <2>1, <2>2, <2>3 DEF RequestOrder, Submitting, appOnly, Move
    <2>6. StageOrder'
      BY <1>0, <1>5, <2>1, <2>2, <2>3 DEF StageOrder, Submitting, appOnly, Move, RequestOrder, InGoroutine, HoldsSlot, Owed, OnlyVerifiedScans
    <2>7. MainOrder'
      BY <1>0, <1>5, <2>1, <2>2, <2>3 DEF MainOrder, Submitting, appOnly, Move, ActiveRequests, Handling, Stopped, ShutdownOrder
    <2>8. OnlyVerifiedScans'
      BY <1>0, <1>5, <2>1, <2>2, <2>3 DEF OnlyVerifiedScans, Submitting, appOnly, Move, RequestOrder, InGoroutine, HoldsSlot, Owed, StageOrder
    <2>9. QED
      BY <2>4, <2>5, <2>6, <2>7, <2>8
  <1>6. ASSUME NEW j \in Jobs, AnswerScan(j) PROVE AppInv'
    <2>1. AppTypeOK'
      BY <1>0, <1>6 DEF AppTypeOK, AnswerScan, vars, appOnly, Finish, Exited, Concluded, Handling, RequestOrder
    <2>2. RequestOrder'
      BY <1>0, <1>6 DEF RequestOrder, AnswerScan, vars, appOnly, Finish
    <2>3. StageOrder'
      BY <1>0, <1>6 DEF StageOrder, AnswerScan, vars, appOnly, Finish, RequestOrder, InGoroutine, HoldsSlot, Owed, OnlyVerifiedScans
    <2>4. MainOrder'
      BY <1>0, <1>6 DEF MainOrder, AnswerScan, vars, appOnly, Finish, ActiveRequests, Handling, Stopped, ShutdownOrder
    <2>5. OnlyVerifiedScans'
      BY <1>0, <1>6 DEF OnlyVerifiedScans, AnswerScan, vars, appOnly, Finish, RequestOrder, InGoroutine, HoldsSlot, Owed, StageOrder, Status, Refused, OwnsKey
    <2>6. QED
      BY <2>1, <2>2, <2>3, <2>4, <2>5
  <1>7. ASSUME NEW j \in Jobs, StartScan(j) PROVE AppInv'
    <2>1. AppTypeOK'
      BY <1>0, <1>7 DEF AppTypeOK, StartScan, vars, appOnly, DispatchStart, Move, Exited, Concluded, Handling, RequestOrder
    <2>2. RequestOrder'
      BY <1>0, <1>7 DEF RequestOrder, StartScan, vars, appOnly, DispatchStart, Move
    <2>3. StageOrder'
      BY <1>0, <1>7 DEF StageOrder, StartScan, vars, appOnly, DispatchStart, Move, RequestOrder, InGoroutine, HoldsSlot, Owed, OnlyVerifiedScans
    <2>4. MainOrder'
      BY <1>0, <1>7 DEF MainOrder, StartScan, vars, appOnly, DispatchStart, Move, ActiveRequests, Handling, Stopped, ShutdownOrder
    <2>5. OnlyVerifiedScans'
      BY <1>0, <1>7 DEF OnlyVerifiedScans, StartScan, vars, appOnly, DispatchStart, Move, RequestOrder, InGoroutine, HoldsSlot, Owed, StageOrder
    <2>6. QED
      BY <2>1, <2>2, <2>3, <2>4, <2>5
  <1>8. ASSUME NEW j \in Jobs, ReturnScan(j) PROVE AppInv'
    <2>1. AppTypeOK'
      BY <1>0, <1>8 DEF AppTypeOK, ReturnScan, vars, appOnly, RunReturns, Move, Exited, Concluded, Handling, RequestOrder
    <2>2. RequestOrder'
      BY <1>0, <1>8 DEF RequestOrder, ReturnScan, vars, appOnly, RunReturns, Move
    <2>3. StageOrder'
      BY <1>0, <1>8 DEF StageOrder, ReturnScan, vars, appOnly, RunReturns, Move, Concluded, InGoroutine, HoldsSlot
    <2>4. MainOrder'
      BY <1>0, <1>8 DEF MainOrder, ReturnScan, vars, appOnly, RunReturns, Move, ActiveRequests, Handling, Stopped, ShutdownOrder
    <2>5. OnlyVerifiedScans'
      BY <1>0, <1>8 DEF OnlyVerifiedScans, ReturnScan, vars, appOnly, RunReturns, Move, RequestOrder, InGoroutine, HoldsSlot, Owed, StageOrder
    <2>6. QED
      BY <2>1, <2>2, <2>3, <2>4, <2>5
  <1>9. ASSUME NEW j \in Jobs, PoolGoroutine(j) PROVE AppInv'
    <2>1. AppTypeOK'
      BY <1>0, <1>9 DEF AppTypeOK, PoolGoroutine, vars, appOnly, Timeout, ReleaseKey, FreeSlot, GoroutineDone, Move, Exited, Concluded, Handling, RequestOrder
    <2>2. RequestOrder'
      BY <1>0, <1>9 DEF RequestOrder, PoolGoroutine, vars, appOnly, Timeout, ReleaseKey, FreeSlot, GoroutineDone, Move
    <2>3. StageOrder'
      BY <1>0, <1>9 DEF StageOrder, PoolGoroutine, vars, appOnly, Timeout, ReleaseKey, FreeSlot, GoroutineDone, Move, RequestOrder, InGoroutine, HoldsSlot, Owed, OnlyVerifiedScans
    <2>4. MainOrder'
      BY <1>0, <1>9 DEF MainOrder, PoolGoroutine, vars, appOnly, Timeout, ReleaseKey, FreeSlot, GoroutineDone, Move, ActiveRequests, Handling, Stopped, ShutdownOrder
    <2>5. OnlyVerifiedScans'
      BY <1>0, <1>9 DEF OnlyVerifiedScans, PoolGoroutine, vars, appOnly, Timeout, ReleaseKey, FreeSlot, GoroutineDone, Move, RequestOrder, InGoroutine, HoldsSlot, Owed, StageOrder
    <2>6. QED
      BY <2>1, <2>2, <2>3, <2>4, <2>5
  <1>10. ASSUME NEW j \in Jobs, GetToken(j) PROVE AppInv'
    <2>1. AppTypeOK'
      BY <1>0, <1>10 DEF AppTypeOK, GetToken, vars, appOnly, AtStage, Exited, Concluded, Handling, RequestOrder
    <2>2. RequestOrder'
      BY <1>0, <1>10 DEF RequestOrder, GetToken, vars, appOnly, AtStage
    <2>3. StageOrder'
      BY <1>0, <1>10 DEF StageOrder, GetToken, vars, appOnly, AtStage, RequestOrder, InGoroutine, HoldsSlot, Owed, OnlyVerifiedScans
    <2>4. MainOrder'
      BY <1>0, <1>10 DEF MainOrder, GetToken, vars, appOnly, AtStage, ActiveRequests, Handling, Stopped, ShutdownOrder
    <2>5. OnlyVerifiedScans'
      BY <1>0, <1>10 DEF OnlyVerifiedScans, GetToken, vars, appOnly, AtStage, RequestOrder, InGoroutine, HoldsSlot, Owed, StageOrder
    <2>6. QED
      BY <2>1, <2>2, <2>3, <2>4, <2>5
  <1>11. ASSUME NEW j \in Jobs, RunScanner(j) PROVE AppInv'
    <2>1. AppTypeOK'
      BY <1>0, <1>11 DEF AppTypeOK, RunScanner, vars, appOnly, AtStage, Exited, Concluded, Handling, RequestOrder
    <2>2. RequestOrder'
      BY <1>0, <1>11 DEF RequestOrder, RunScanner, vars, appOnly, AtStage
    <2>3. StageOrder'
      BY <1>0, <1>11 DEF StageOrder, RunScanner, vars, appOnly, AtStage, RequestOrder, InGoroutine, HoldsSlot, Owed, OnlyVerifiedScans
    <2>4. MainOrder'
      BY <1>0, <1>11 DEF MainOrder, RunScanner, vars, appOnly, AtStage, ActiveRequests, Handling, Stopped, ShutdownOrder
    <2>5. OnlyVerifiedScans'
      BY <1>0, <1>11 DEF OnlyVerifiedScans, RunScanner, vars, appOnly, AtStage, RequestOrder, InGoroutine, HoldsSlot, Owed, StageOrder
    <2>6. QED
      BY <2>1, <2>2, <2>3, <2>4, <2>5
  <1>12. ASSUME NEW j \in Jobs, PostComment(j) PROVE AppInv'
    <2>1. AppTypeOK'
      BY <1>0, <1>12 DEF AppTypeOK, PostComment, vars, appOnly, AtStage, Exited, Concluded, Handling, RequestOrder
    <2>2. RequestOrder'
      BY <1>0, <1>12 DEF RequestOrder, PostComment, vars, appOnly, AtStage
    <2>3. StageOrder'
      BY <1>0, <1>12 DEF StageOrder, PostComment, vars, appOnly, AtStage, RequestOrder, InGoroutine, HoldsSlot, Owed, OnlyVerifiedScans
    <2>4. MainOrder'
      BY <1>0, <1>12 DEF MainOrder, PostComment, vars, appOnly, AtStage, ActiveRequests, Handling, Stopped, ShutdownOrder
    <2>5. OnlyVerifiedScans'
      BY <1>0, <1>12 DEF OnlyVerifiedScans, PostComment, vars, appOnly, AtStage, RequestOrder, InGoroutine, HoldsSlot, Owed, StageOrder
    <2>6. QED
      BY <2>1, <2>2, <2>3, <2>4, <2>5
  <1>13. ASSUME NEW j \in Jobs, PostFails(j) PROVE AppInv'
    <2>1. AppTypeOK'
      BY <1>0, <1>13 DEF AppTypeOK, PostFails, vars, appOnly, AtStage, Exited, Concluded, Handling, RequestOrder
    <2>2. RequestOrder'
      BY <1>0, <1>13 DEF RequestOrder, PostFails, vars, appOnly, AtStage
    <2>3. StageOrder'
      BY <1>0, <1>13 DEF StageOrder, PostFails, vars, appOnly, AtStage, RequestOrder, InGoroutine, HoldsSlot, Owed, OnlyVerifiedScans
    <2>4. MainOrder'
      BY <1>0, <1>13 DEF MainOrder, PostFails, vars, appOnly, AtStage, ActiveRequests, Handling, Stopped, ShutdownOrder
    <2>5. OnlyVerifiedScans'
      BY <1>0, <1>13 DEF OnlyVerifiedScans, PostFails, vars, appOnly, AtStage, RequestOrder, InGoroutine, HoldsSlot, Owed, StageOrder
    <2>6. QED
      BY <2>1, <2>2, <2>3, <2>4, <2>5
  <1>14. ASSUME NEW j \in Jobs, FinishScan(j) PROVE AppInv'
    <2>1. AppTypeOK'
      BY <1>0, <1>14 DEF AppTypeOK, FinishScan, vars, appOnly, AtStage, Exited, Concluded, Handling, RequestOrder
    <2>2. RequestOrder'
      BY <1>0, <1>14 DEF RequestOrder, FinishScan, vars, appOnly, AtStage
    <2>3. StageOrder'
      BY <1>0, <1>14 DEF StageOrder, FinishScan, vars, appOnly, AtStage, RequestOrder, InGoroutine, HoldsSlot, Owed, OnlyVerifiedScans
    <2>4. MainOrder'
      BY <1>0, <1>14 DEF MainOrder, FinishScan, vars, appOnly, AtStage, ActiveRequests, Handling, Stopped, ShutdownOrder
    <2>5. OnlyVerifiedScans'
      BY <1>0, <1>14 DEF OnlyVerifiedScans, FinishScan, vars, appOnly, AtStage, RequestOrder, InGoroutine, HoldsSlot, Owed, StageOrder
    <2>6. QED
      BY <2>1, <2>2, <2>3, <2>4, <2>5
  <1>15. ASSUME NEW j \in Jobs, ScanFails(j) PROVE AppInv'
    <2>1. AppTypeOK'
      BY <1>0, <1>15 DEF AppTypeOK, ScanFails, vars, appOnly, AtStage, Exited, Concluded, Handling, RequestOrder
    <2>2. RequestOrder'
      BY <1>0, <1>15 DEF RequestOrder, ScanFails, vars, appOnly, AtStage
    <2>3. StageOrder'
      BY <1>0, <1>15 DEF StageOrder, ScanFails, vars, appOnly, AtStage, RequestOrder, InGoroutine, HoldsSlot, Owed, OnlyVerifiedScans
    <2>4. MainOrder'
      BY <1>0, <1>15 DEF MainOrder, ScanFails, vars, appOnly, AtStage, ActiveRequests, Handling, Stopped, ShutdownOrder
    <2>5. OnlyVerifiedScans'
      BY <1>0, <1>15 DEF OnlyVerifiedScans, ScanFails, vars, appOnly, AtStage, RequestOrder, InGoroutine, HoldsSlot, Owed, StageOrder
    <2>6. QED
      BY <2>1, <2>2, <2>3, <2>4, <2>5
  <1>16. CASE Dispatcher
    <2>1. /\ UNCHANGED <<closed, stopper>>
          /\ \/ UNCHANGED status
             \/ \E j \in Jobs : status[j] = "queued" /\ Move(j, "held")
      <3>1. CASE DispatchReceive
        <4>1. queue \in Seq(Jobs) /\ queue # <<>>
          BY <1>0, <3>1 DEF DispatchReceive, IInv, TypeOK
        <4>2. Head(queue) \in JobsIn({"queued"})
          BY <4>1 DEF IInv, QueueMatches
        <4>3. QED
          BY <3>1, <4>2 DEF DispatchReceive, JobsIn
      <3>2. CASE DispatchExit
        BY <3>2 DEF DispatchExit
      <3>3. QED
        BY <1>16, <3>1, <3>2 DEF Dispatcher
    <2>2. AppTypeOK'
      BY <1>0, <1>16, <2>1 DEF AppTypeOK, Dispatcher, appOnly, Move, Exited, Concluded, Handling, RequestOrder
    <2>3. RequestOrder'
      BY <1>0, <1>16, <2>1 DEF RequestOrder, Dispatcher, appOnly, Move
    <2>4. StageOrder'
      BY <1>0, <1>16, <2>1 DEF StageOrder, Dispatcher, appOnly, Move, RequestOrder, InGoroutine, HoldsSlot, Owed, OnlyVerifiedScans
    <2>5. MainOrder'
      BY <1>0, <1>16, <2>1 DEF MainOrder, Dispatcher, appOnly, Move, ActiveRequests, Handling, Stopped, ShutdownOrder
    <2>6. OnlyVerifiedScans'
      BY <1>0, <1>16, <2>1 DEF OnlyVerifiedScans, Dispatcher, appOnly, Move, RequestOrder, InGoroutine, HoldsSlot, Owed, StageOrder
    <2>7. QED
      BY <2>2, <2>3, <2>4, <2>5, <2>6
  <1>17. CASE SignalReceived
    <2>1. AppTypeOK'
      BY <1>0, <1>17 DEF AppTypeOK, SignalReceived, vars, appOnly, Exited, Concluded, Handling, RequestOrder
    <2>2. RequestOrder'
      BY <1>0, <1>17 DEF RequestOrder, SignalReceived, vars, appOnly
    <2>3. StageOrder'
      BY <1>0, <1>17 DEF StageOrder, SignalReceived, vars, appOnly, RequestOrder, InGoroutine, HoldsSlot, Owed, OnlyVerifiedScans
    <2>4. MainOrder'
      BY <1>0, <1>17 DEF MainOrder, SignalReceived, vars, appOnly, ActiveRequests, Handling, Stopped, ShutdownOrder
    <2>5. OnlyVerifiedScans'
      BY <1>0, <1>17 DEF OnlyVerifiedScans, SignalReceived, vars, appOnly, RequestOrder, InGoroutine, HoldsSlot, Owed, StageOrder
    <2>6. QED
      BY <2>1, <2>2, <2>3, <2>4, <2>5
  <1>18. CASE ListenFails
    <2>1. AppTypeOK'
      BY <1>0, <1>18 DEF AppTypeOK, ListenFails, vars, appOnly, Exited, Concluded, Handling, RequestOrder
    <2>2. RequestOrder'
      BY <1>0, <1>18 DEF RequestOrder, ListenFails, vars, appOnly
    <2>3. StageOrder'
      BY <1>0, <1>18 DEF StageOrder, ListenFails, vars, appOnly, RequestOrder, InGoroutine, HoldsSlot, Owed, OnlyVerifiedScans
    <2>4. MainOrder'
      BY <1>0, <1>18 DEF MainOrder, ListenFails, vars, appOnly, ActiveRequests, Handling, Stopped, ShutdownOrder
    <2>5. OnlyVerifiedScans'
      BY <1>0, <1>18 DEF OnlyVerifiedScans, ListenFails, vars, appOnly, RequestOrder, InGoroutine, HoldsSlot, Owed, StageOrder
    <2>6. QED
      BY <2>1, <2>2, <2>3, <2>4, <2>5
  <1>19. CASE HttpDrained
    <2>1. AppTypeOK'
      BY <1>0, <1>19 DEF AppTypeOK, HttpDrained, vars, appOnly, ShutdownBegin, Exited, Concluded, Handling, RequestOrder
    <2>2. RequestOrder'
      BY <1>0, <1>19 DEF RequestOrder, HttpDrained, vars, appOnly, ShutdownBegin
    <2>3. StageOrder'
      BY <1>0, <1>19 DEF StageOrder, HttpDrained, vars, appOnly, ShutdownBegin, RequestOrder, InGoroutine, HoldsSlot, Owed, OnlyVerifiedScans
    <2>4. MainOrder'
      BY <1>0, <1>19 DEF MainOrder, HttpDrained, vars, appOnly, ShutdownBegin, ActiveRequests, Handling, Stopped, ShutdownOrder
    <2>5. OnlyVerifiedScans'
      BY <1>0, <1>19 DEF OnlyVerifiedScans, HttpDrained, vars, appOnly, ShutdownBegin, RequestOrder, InGoroutine, HoldsSlot, Owed, StageOrder
    <2>6. QED
      BY <2>1, <2>2, <2>3, <2>4, <2>5
  <1>20. CASE HttpTimesOut
    <2>1. AppTypeOK'
      BY <1>0, <1>20 DEF AppTypeOK, HttpTimesOut, vars, appOnly, Exited, Concluded, Handling, RequestOrder
    <2>2. RequestOrder'
      BY <1>0, <1>20 DEF RequestOrder, HttpTimesOut, vars, appOnly
    <2>3. StageOrder'
      BY <1>0, <1>20 DEF StageOrder, HttpTimesOut, vars, appOnly, RequestOrder, InGoroutine, HoldsSlot, Owed, OnlyVerifiedScans
    <2>4. MainOrder'
      BY <1>0, <1>20 DEF MainOrder, HttpTimesOut, vars, appOnly, ActiveRequests, Handling, Stopped, ShutdownOrder
    <2>5. OnlyVerifiedScans'
      BY <1>0, <1>20 DEF OnlyVerifiedScans, HttpTimesOut, vars, appOnly, RequestOrder, InGoroutine, HoldsSlot, Owed, StageOrder
    <2>6. QED
      BY <2>1, <2>2, <2>3, <2>4, <2>5
  <1>21. CASE DrainDeadline
    <2>1. AppTypeOK'
      BY <1>0, <1>21 DEF AppTypeOK, DrainDeadline, vars, appOnly, ShutdownDeadline, Exited, Concluded, Handling, RequestOrder
    <2>2. RequestOrder'
      BY <1>0, <1>21 DEF RequestOrder, DrainDeadline, vars, appOnly, ShutdownDeadline
    <2>3. StageOrder'
      BY <1>0, <1>21 DEF StageOrder, DrainDeadline, vars, appOnly, ShutdownDeadline, RequestOrder, InGoroutine, HoldsSlot, Owed, OnlyVerifiedScans
    <2>4. MainOrder'
      BY <1>0, <1>21 DEF MainOrder, DrainDeadline, vars, appOnly, ShutdownDeadline, ActiveRequests, Handling, Stopped, ShutdownOrder
    <2>5. OnlyVerifiedScans'
      BY <1>0, <1>21 DEF OnlyVerifiedScans, DrainDeadline, vars, appOnly, ShutdownDeadline, RequestOrder, InGoroutine, HoldsSlot, Owed, StageOrder
    <2>6. QED
      BY <2>1, <2>2, <2>3, <2>4, <2>5
  <1>22. CASE DrainEnds
    <2>1. AppTypeOK'
      BY <1>0, <1>22 DEF AppTypeOK, DrainEnds, vars, appOnly, ShutdownDrained, ShutdownUnwound, Exited, Concluded, Handling, RequestOrder
    <2>2. RequestOrder'
      BY <1>0, <1>22 DEF RequestOrder, DrainEnds, vars, appOnly, ShutdownDrained, ShutdownUnwound
    <2>3. StageOrder'
      BY <1>0, <1>22 DEF StageOrder, DrainEnds, vars, appOnly, ShutdownDrained, ShutdownUnwound, RequestOrder, InGoroutine, HoldsSlot, Owed, OnlyVerifiedScans
    <2>4. MainOrder'
      BY <1>0, <1>22 DEF MainOrder, DrainEnds, vars, appOnly, ShutdownDrained, ShutdownUnwound, ActiveRequests, Handling, Stopped, ShutdownOrder
    <2>5. OnlyVerifiedScans'
      BY <1>0, <1>22 DEF OnlyVerifiedScans, DrainEnds, vars, appOnly, ShutdownDrained, ShutdownUnwound, RequestOrder, InGoroutine, HoldsSlot, Owed, StageOrder
    <2>6. QED
      BY <2>1, <2>2, <2>3, <2>4, <2>5
  <1>23. CASE MainReturns
    <2>1. AppTypeOK'
      BY <1>0, <1>23 DEF AppTypeOK, MainReturns, vars, appOnly, Exited, Concluded, Handling, RequestOrder
    <2>2. RequestOrder'
      BY <1>0, <1>23 DEF RequestOrder, MainReturns, vars, appOnly
    <2>3. StageOrder'
      BY <1>0, <1>23 DEF StageOrder, MainReturns, vars, appOnly, RequestOrder, InGoroutine, HoldsSlot, Owed, OnlyVerifiedScans
    <2>4. MainOrder'
      BY <1>0, <1>23 DEF MainOrder, MainReturns, vars, appOnly, ActiveRequests, Handling, Stopped, ShutdownOrder
    <2>5. OnlyVerifiedScans'
      BY <1>0, <1>23 DEF OnlyVerifiedScans, MainReturns, vars, appOnly, RequestOrder, InGoroutine, HoldsSlot, Owed, StageOrder
    <2>6. QED
      BY <2>1, <2>2, <2>3, <2>4, <2>5
  <1>24. CASE Kill
    <2>1. AppTypeOK'
      BY <1>0, <1>24 DEF AppTypeOK, Kill, vars, appOnly, Alive, Exited, Concluded, Handling, RequestOrder
    <2>2. RequestOrder'
      BY <1>0, <1>24 DEF RequestOrder, Kill, vars, appOnly, Alive
    <2>3. StageOrder'
      BY <1>0, <1>24 DEF StageOrder, Kill, vars, appOnly, Alive, RequestOrder, InGoroutine, HoldsSlot, Owed, OnlyVerifiedScans
    <2>4. MainOrder'
      BY <1>0, <1>24 DEF MainOrder, Kill, vars, appOnly, Alive, ActiveRequests, Handling, Stopped, ShutdownOrder
    <2>5. OnlyVerifiedScans'
      BY <1>0, <1>24 DEF OnlyVerifiedScans, Kill, vars, appOnly, Alive, RequestOrder, InGoroutine, HoldsSlot, Owed, StageOrder
    <2>6. QED
      BY <2>1, <2>2, <2>3, <2>4, <2>5
  <1>25. CASE AppRest
    <2>1. AppTypeOK'
      BY <1>0, <1>25 DEF AppTypeOK, AppRest, vars, appOnly, appVars, Exited, Concluded, Handling, RequestOrder
    <2>2. RequestOrder'
      BY <1>0, <1>25 DEF RequestOrder, AppRest, vars, appOnly, appVars
    <2>3. StageOrder'
      BY <1>0, <1>25 DEF StageOrder, AppRest, vars, appOnly, appVars, RequestOrder, InGoroutine, HoldsSlot, Owed, OnlyVerifiedScans
    <2>4. MainOrder'
      BY <1>0, <1>25 DEF MainOrder, AppRest, vars, appOnly, appVars, ActiveRequests, Handling, Stopped, ShutdownOrder
    <2>5. OnlyVerifiedScans'
      BY <1>0, <1>25 DEF OnlyVerifiedScans, AppRest, vars, appOnly, appVars, RequestOrder, InGoroutine, HoldsSlot, Owed, StageOrder
    <2>6. QED
      BY <2>1, <2>2, <2>3, <2>4, <2>5
  <1>26. CASE UNCHANGED appVars
    <2>1. AppTypeOK'
      BY <1>0, <1>26 DEF AppTypeOK, appVars, Exited, Concluded, Handling, RequestOrder
    <2>2. RequestOrder'
      BY <1>0, <1>26 DEF RequestOrder, appVars
    <2>3. StageOrder'
      BY <1>0, <1>26 DEF StageOrder, appVars, RequestOrder, InGoroutine, HoldsSlot, Owed, OnlyVerifiedScans
    <2>4. MainOrder'
      BY <1>0, <1>26 DEF MainOrder, appVars, ActiveRequests, Handling, Stopped, ShutdownOrder
    <2>5. OnlyVerifiedScans'
      BY <1>0, <1>26 DEF OnlyVerifiedScans, appVars, RequestOrder, InGoroutine, HoldsSlot, Owed, StageOrder
    <2>6. QED
      BY <2>1, <2>2, <2>3, <2>4, <2>5
  <1>27. ASSUME NEW j \in Jobs, OrphanHolds(j) PROVE AppInv'
    <2>1. AppTypeOK'
      BY <1>0, <1>27 DEF AppTypeOK, OrphanHolds, vars, appOnly, Exited, Concluded, Handling, RequestOrder
    <2>2. RequestOrder'
      BY <1>0, <1>27 DEF RequestOrder, OrphanHolds, vars, appOnly
    <2>3. StageOrder'
      BY <1>0, <1>27 DEF StageOrder, OrphanHolds, vars, appOnly
    <2>4. MainOrder'
      BY <1>0, <1>27 DEF MainOrder, OrphanHolds, vars, appOnly, ActiveRequests, Handling, Stopped, ShutdownOrder
    <2>5. OnlyVerifiedScans'
      BY <1>0, <1>27 DEF OnlyVerifiedScans, OrphanHolds, vars, appOnly
    <2>6. QED
      BY <2>1, <2>2, <2>3, <2>4, <2>5
  <1>28. ASSUME NEW j \in Jobs, OrphanExits(j) PROVE AppInv'
    <2>1. AppTypeOK'
      BY <1>0, <1>28 DEF AppTypeOK, OrphanExits, vars, appOnly, Exited, Concluded, Handling, RequestOrder
    <2>2. RequestOrder'
      BY <1>0, <1>28 DEF RequestOrder, OrphanExits, vars, appOnly
    <2>3. StageOrder'
      BY <1>0, <1>28 DEF StageOrder, OrphanExits, vars, appOnly
    <2>4. MainOrder'
      BY <1>0, <1>28 DEF MainOrder, OrphanExits, vars, appOnly, ActiveRequests, Handling, Stopped, ShutdownOrder
    <2>5. OnlyVerifiedScans'
      BY <1>0, <1>28 DEF OnlyVerifiedScans, OrphanExits, vars, appOnly
    <2>6. QED
      BY <2>1, <2>2, <2>3, <2>4, <2>5
  <1>29. QED
    BY <1>1, <1>2, <1>3, <1>4, <1>5, <1>6, <1>7, <1>8, <1>9, <1>10, <1>11, <1>12, <1>13, <1>14, <1>15, <1>16, <1>17, <1>18, <1>19, <1>20, <1>21, <1>22, <1>23, <1>24, <1>25, <1>26, <1>27, <1>28 DEF AppNext

(* The server keeps AppInv: requests, scans and the main goroutine are     *)
(* where the state of the pool says they can be.                           *)
THEOREM AppInvariance == AppSpec => []AppInv
  <1>1. AppSpec => []IInv
    BY AppImplementsPool, Invariance, PTL
  <1>2. IInv /\ IInv' /\ AppInv /\ [AppNext]_appVars => AppInv'
    BY AppNextInv
  <1>3. QED
    BY <1>1, <1>2, AppInitInv, PTL DEF AppSpec

(* No request ever meets a closed pool, so the send on a closed channel    *)
(* that ScanPool allows cannot happen in the server.                       *)
THEOREM NoRequestMeetsAClosedPool == AppSpec => []PoolOutlivesRequests
  <1>1. AppInv => PoolOutlivesRequests
    BY DEF AppInv, RequestOrder, PoolOutlivesRequests, JobsIn
  <1>2. QED
    BY <1>1, AppInvariance, PTL

(* A process that exits with status 0 leaves no request unanswered and no  *)
(* accepted scan behind.                                                   *)
THEOREM ExitIsGraceful == AppSpec => []GracefulExit
  <1>1. AppInv /\ IInv => GracefulExit
    <2> SUFFICES ASSUME AppInv, IInv, main = "exit0"
                 PROVE  /\ ActiveRequests = {} /\ JobsIn(Owed) = {}
                        /\ \A j \in JobsIn({"done"}) : stage[j] \in Concluded
      BY DEF GracefulExit
    <2>1. Stopped /\ closed
      BY DEF AppInv, MainOrder, IInv, ShutdownOrder, Stopped
    <2>2. JobsIn(Owed) = {}
      BY <2>1, IdleWhenDrained DEF DrainedMeansIdle
    <2>3. QED
      BY <2>1, <2>2 DEF AppInv, MainOrder, StageOrder, JobsIn
  <1>2. AppSpec => []IInv
    BY AppImplementsPool, Invariance, PTL
  <1>3. QED
    BY <1>1, <1>2, AppInvariance, PTL

(* Only a verified request for a scan reaches the pool, and whoever is     *)
(* answered 200 for one was accepted or refused by it.                     *)
THEOREM OnlyVerifiedReachThePool == AppSpec => []OnlyVerifiedScans
  <1>1. AppInv => OnlyVerifiedScans
    BY DEF AppInv
  <1>2. QED
    BY <1>1, AppInvariance, PTL

-----------------------------------------------------------------------------
(* The installation tokens the scans ask for, for any calls and            *)
(* installations.                                                          *)
LEMMA InitTInv == TokenInit => TInv
  BY TokenAssumption DEF TokenInit, TInv, TokenTypeOK, FlightsMatch, OwnTokens, CacheMatches,
     FlightTargets, Known, Installations, InProgress, Cached

(* Every step preserves the invariant.                                     *)
LEMMA NextTInv == TInv /\ [TokenNext]_tokenVars => TInv'
  <1> SUFFICES ASSUME TInv, [TokenNext]_tokenVars PROVE TInv'
    OBVIOUS
  <1> USE TokenAssumption DEF TInv
  <1>1. ASSUME NEW c \in Calls, Hit(c) PROVE TInv'
    <2>1. TokenTypeOK'
      BY <1>1 DEF TokenTypeOK, Hit, Known, Installations, InProgress, Cached, Return
    <2>2. FlightsMatch'
      BY <1>1 DEF FlightsMatch, Hit, TokenTypeOK, Known, Installations, InProgress, Cached, Return, FlightTargets
    <2>3. OwnTokens'
      BY <1>1 DEF OwnTokens, Hit, TokenTypeOK, Known, Installations, InProgress, Cached, Return, CacheMatches, FlightTargets
    <2>4. CacheMatches'
      BY <1>1 DEF CacheMatches, Hit, TokenTypeOK, Known, Installations, InProgress, Cached, Return, FlightsMatch, FlightTargets
    <2>5. FlightTargets'
      BY <1>1 DEF FlightTargets, Hit, TokenTypeOK, Known, Installations, InProgress, Cached, Return, FlightsMatch, CacheMatches
    <2>6. QED
      BY <2>1, <2>2, <2>3, <2>4, <2>5
  <1>2. ASSUME NEW c \in Calls, Join(c) PROVE TInv'
    <2>1. TokenTypeOK'
      BY <1>2 DEF TokenTypeOK, Join, Known, Installations, InProgress, Cached
    <2>2. FlightsMatch'
      BY <1>2 DEF FlightsMatch, Join, TokenTypeOK, Known, Installations, InProgress, Cached, FlightTargets
    <2>3. OwnTokens'
      BY <1>2 DEF OwnTokens, Join, TokenTypeOK, Known, Installations, InProgress, Cached, CacheMatches, FlightTargets
    <2>4. CacheMatches'
      BY <1>2 DEF CacheMatches, Join, TokenTypeOK, Known, Installations, InProgress, Cached, FlightsMatch, FlightTargets
    <2>5. FlightTargets'
      BY <1>2 DEF FlightTargets, Join, TokenTypeOK, Known, Installations, InProgress, Cached, FlightsMatch, CacheMatches
    <2>6. QED
      BY <2>1, <2>2, <2>3, <2>4, <2>5
  <1>3. ASSUME NEW c \in Calls, Lead(c) PROVE TInv'
    <2>1. TokenTypeOK'
      BY <1>3 DEF TokenTypeOK, Lead, Known, Installations, InProgress, Cached
    <2>2. FlightsMatch'
      BY <1>3 DEF FlightsMatch, Lead, TokenTypeOK, Known, Installations, InProgress, Cached, FlightTargets
    <2>3. OwnTokens'
      BY <1>3 DEF OwnTokens, Lead, TokenTypeOK, Known, Installations, InProgress, Cached, CacheMatches, FlightTargets
    <2>4. CacheMatches'
      BY <1>3 DEF CacheMatches, Lead, TokenTypeOK, Known, Installations, InProgress, Cached, FlightsMatch, FlightTargets
    <2>5. FlightTargets'
      BY <1>3 DEF FlightTargets, Lead, TokenTypeOK, Known, Installations, InProgress, Cached, FlightsMatch, CacheMatches
    <2>6. QED
      BY <2>1, <2>2, <2>3, <2>4, <2>5
  <1>4. ASSUME NEW c \in Calls, ReturnFlight(c) PROVE TInv'
    <2>1. TokenTypeOK'
      BY <1>4 DEF TokenTypeOK, ReturnFlight, Known, Installations, InProgress, Cached, Return
    <2>2. FlightsMatch'
      BY <1>4 DEF FlightsMatch, ReturnFlight, TokenTypeOK, Known, Installations, InProgress, Cached, Return, FlightTargets
    <2>3. OwnTokens'
      BY <1>4 DEF OwnTokens, ReturnFlight, TokenTypeOK, Known, Installations, InProgress, Cached, Return, CacheMatches, FlightTargets
    <2>4. CacheMatches'
      BY <1>4 DEF CacheMatches, ReturnFlight, TokenTypeOK, Known, Installations, InProgress, Cached, Return, FlightsMatch, FlightTargets
    <2>5. FlightTargets'
      BY <1>4 DEF FlightTargets, ReturnFlight, TokenTypeOK, Known, Installations, InProgress, Cached, Return, FlightsMatch, CacheMatches
    <2>6. QED
      BY <2>1, <2>2, <2>3, <2>4, <2>5
  <1>5. ASSUME NEW c \in Calls, ReturnCancelled(c) PROVE TInv'
    <2>1. TokenTypeOK'
      BY <1>5 DEF TokenTypeOK, ReturnCancelled, Known, Installations, InProgress, Cached, Return
    <2>2. FlightsMatch'
      BY <1>5 DEF FlightsMatch, ReturnCancelled, TokenTypeOK, Known, Installations, InProgress, Cached, Return, FlightTargets
    <2>3. OwnTokens'
      BY <1>5 DEF OwnTokens, ReturnCancelled, TokenTypeOK, Known, Installations, InProgress, Cached, Return, CacheMatches, FlightTargets
    <2>4. CacheMatches'
      BY <1>5 DEF CacheMatches, ReturnCancelled, TokenTypeOK, Known, Installations, InProgress, Cached, Return, FlightsMatch, FlightTargets
    <2>5. FlightTargets'
      BY <1>5 DEF FlightTargets, ReturnCancelled, TokenTypeOK, Known, Installations, InProgress, Cached, Return, FlightsMatch, CacheMatches
    <2>6. QED
      BY <2>1, <2>2, <2>3, <2>4, <2>5
  <1>6. ASSUME NEW c \in Calls, FetchOk(c) PROVE TInv'
    <2>1. TokenTypeOK'
      BY <1>6 DEF TokenTypeOK, FetchOk, Known, Installations, InProgress, Cached
    <2>2. FlightsMatch'
      BY <1>6 DEF FlightsMatch, FetchOk, TokenTypeOK, Known, Installations, InProgress, Cached, FlightTargets
    <2>3. OwnTokens'
      BY <1>6 DEF OwnTokens, FetchOk, TokenTypeOK, Known, Installations, InProgress, Cached, CacheMatches, FlightTargets
    <2>4. CacheMatches'
      BY <1>6 DEF CacheMatches, FetchOk, TokenTypeOK, Known, Installations, InProgress, Cached, FlightsMatch, FlightTargets
    <2>5. FlightTargets'
      BY <1>6 DEF FlightTargets, FetchOk, TokenTypeOK, Known, Installations, InProgress, Cached, FlightsMatch, CacheMatches
    <2>6. QED
      BY <2>1, <2>2, <2>3, <2>4, <2>5
  <1>7. ASSUME NEW c \in Calls, FetchFails(c) PROVE TInv'
    <2>1. TokenTypeOK'
      BY <1>7 DEF TokenTypeOK, FetchFails, Known, Installations, InProgress, Cached
    <2>2. FlightsMatch'
      BY <1>7 DEF FlightsMatch, FetchFails, TokenTypeOK, Known, Installations, InProgress, Cached, FlightTargets
    <2>3. OwnTokens'
      BY <1>7 DEF OwnTokens, FetchFails, TokenTypeOK, Known, Installations, InProgress, Cached, CacheMatches, FlightTargets
    <2>4. CacheMatches'
      BY <1>7 DEF CacheMatches, FetchFails, TokenTypeOK, Known, Installations, InProgress, Cached, FlightsMatch, FlightTargets
    <2>5. FlightTargets'
      BY <1>7 DEF FlightTargets, FetchFails, TokenTypeOK, Known, Installations, InProgress, Cached, FlightsMatch, CacheMatches
    <2>6. QED
      BY <2>1, <2>2, <2>3, <2>4, <2>5
  <1>8. ASSUME NEW c \in Calls, Store(c) PROVE TInv'
    <2>1. TokenTypeOK'
      BY <1>8 DEF TokenTypeOK, Store, Known, Installations, InProgress, Cached
    <2>2. FlightsMatch'
      BY <1>8 DEF FlightsMatch, Store, TokenTypeOK, Known, Installations, InProgress, Cached, FlightTargets
    <2>3. OwnTokens'
      BY <1>8 DEF OwnTokens, Store, TokenTypeOK, Known, Installations, InProgress, Cached, CacheMatches, FlightTargets
    <2>4. CacheMatches'
      BY <1>8 DEF CacheMatches, Store, TokenTypeOK, Known, Installations, InProgress, Cached, FlightsMatch, FlightTargets
    <2>5. FlightTargets'
      BY <1>8 DEF FlightTargets, Store, TokenTypeOK, Known, Installations, InProgress, Cached, FlightsMatch, CacheMatches
    <2>6. QED
      BY <2>1, <2>2, <2>3, <2>4, <2>5
  <1>9. ASSUME NEW c \in Calls, StoreNothing(c) PROVE TInv'
    <2>1. TokenTypeOK'
      BY <1>9 DEF TokenTypeOK, StoreNothing, Known, Installations, InProgress, Cached
    <2>2. FlightsMatch'
      BY <1>9 DEF FlightsMatch, StoreNothing, TokenTypeOK, Known, Installations, InProgress, Cached, FlightTargets
    <2>3. OwnTokens'
      BY <1>9 DEF OwnTokens, StoreNothing, TokenTypeOK, Known, Installations, InProgress, Cached, CacheMatches, FlightTargets
    <2>4. CacheMatches'
      BY <1>9 DEF CacheMatches, StoreNothing, TokenTypeOK, Known, Installations, InProgress, Cached, FlightsMatch, FlightTargets
    <2>5. FlightTargets'
      BY <1>9 DEF FlightTargets, StoreNothing, TokenTypeOK, Known, Installations, InProgress, Cached, FlightsMatch, CacheMatches
    <2>6. QED
      BY <2>1, <2>2, <2>3, <2>4, <2>5
  <1>10. ASSUME NEW c \in Calls, CloseDone(c) PROVE TInv'
    <2>1. TokenTypeOK'
      BY <1>10 DEF TokenTypeOK, CloseDone, Known, Installations, InProgress, Cached
    <2>2. FlightsMatch'
      BY <1>10 DEF FlightsMatch, CloseDone, TokenTypeOK, Known, Installations, InProgress, Cached, FlightTargets
    <2>3. OwnTokens'
      BY <1>10 DEF OwnTokens, CloseDone, TokenTypeOK, Known, Installations, InProgress, Cached, CacheMatches, FlightTargets
    <2>4. CacheMatches'
      BY <1>10 DEF CacheMatches, CloseDone, TokenTypeOK, Known, Installations, InProgress, Cached, FlightsMatch, FlightTargets
    <2>5. FlightTargets'
      BY <1>10 DEF FlightTargets, CloseDone, TokenTypeOK, Known, Installations, InProgress, Cached, FlightsMatch, CacheMatches
    <2>6. QED
      BY <2>1, <2>2, <2>3, <2>4, <2>5
  <1>11. ASSUME NEW c \in Calls, ContextEnds(c) PROVE TInv'
    <2>1. TokenTypeOK'
      BY <1>11 DEF TokenTypeOK, ContextEnds, Known, Installations, InProgress, Cached
    <2>2. FlightsMatch'
      BY <1>11 DEF FlightsMatch, ContextEnds, TokenTypeOK, Known, Installations, InProgress, Cached, FlightTargets
    <2>3. OwnTokens'
      BY <1>11 DEF OwnTokens, ContextEnds, TokenTypeOK, Known, Installations, InProgress, Cached, CacheMatches, FlightTargets
    <2>4. CacheMatches'
      BY <1>11 DEF CacheMatches, ContextEnds, TokenTypeOK, Known, Installations, InProgress, Cached, FlightsMatch, FlightTargets
    <2>5. FlightTargets'
      BY <1>11 DEF FlightTargets, ContextEnds, TokenTypeOK, Known, Installations, InProgress, Cached, FlightsMatch, CacheMatches
    <2>6. QED
      BY <2>1, <2>2, <2>3, <2>4, <2>5
  <1>12. ASSUME NEW c \in Calls, Age(c) PROVE TInv'
    <2>1. TokenTypeOK'
      BY <1>12 DEF TokenTypeOK, Age, Known, Installations, InProgress, Cached
    <2>2. FlightsMatch'
      BY <1>12 DEF FlightsMatch, Age, TokenTypeOK, Known, Installations, InProgress, Cached, FlightTargets
    <2>3. OwnTokens'
      BY <1>12 DEF OwnTokens, Age, TokenTypeOK, Known, Installations, InProgress, Cached, CacheMatches, FlightTargets
    <2>4. CacheMatches'
      BY <1>12 DEF CacheMatches, Age, TokenTypeOK, Known, Installations, InProgress, Cached, FlightsMatch, FlightTargets
    <2>5. FlightTargets'
      BY <1>12 DEF FlightTargets, Age, TokenTypeOK, Known, Installations, InProgress, Cached, FlightsMatch, CacheMatches
    <2>6. QED
      BY <2>1, <2>2, <2>3, <2>4, <2>5
  <1>13. CASE UNCHANGED tokenVars
    BY <1>13 DEF tokenVars, TokenTypeOK, FlightsMatch, OwnTokens, CacheMatches, FlightTargets,
       Known, Installations, InProgress, Cached
  <1>14. QED
    BY <1>1, <1>2, <1>3, <1>4, <1>5, <1>6, <1>7, <1>8, <1>9, <1>10, <1>11, <1>12, <1>13 DEF TokenNext, TokenRest

(* The cache keeps its invariant.                                          *)
THEOREM TokenInvariance == TokenSpec => []TInv
  BY InitTInv, NextTInv, PTL DEF TokenSpec

(* Two flights of one installation are never in progress together, however *)
(* many scans ask for its token.                                           *)
THEOREM OneRefreshAtATime == TokenSpec => []SingleFlight
  <1>1. TInv => SingleFlight
    BY DEF TInv, TokenTypeOK, FlightsMatch, SingleFlight, Installations
  <1>2. QED
    BY <1>1, TokenInvariance, PTL

(* A caller only ever gets a stored token of its own installation.         *)
THEOREM NoForeignToken == TokenSpec => []OwnTokens
  <1>1. TInv => OwnTokens
    BY DEF TInv
  <1>2. QED
    BY <1>1, TokenInvariance, PTL

(* No token with life left is ever replaced.                               *)
THEOREM NoRefreshWasted == TokenSpec => NoFreshTokenReplaced
  <1>1. TInv /\ [TokenNext]_tokenVars =>
            [\A i \in Installations : tokens'[i] # tokens[i] => Cached(i) = {}]_tokenVars
    <2> SUFFICES ASSUME TInv, TokenNext, NEW i \in Installations, tokens'[i] # tokens[i]
                 PROVE  Cached(i) = {}
      OBVIOUS
    <2>1. PICK l \in Calls : Store(l)
      BY DEF TokenNext, TokenRest, tokenVars, Hit, Join, Lead, ReturnFlight, ReturnCancelled, Return,
         FetchOk, FetchFails, StoreNothing, CloseDone, ContextEnds, Age
    <2>2. i = InstallationOf[l] /\ fetch[l] \in InProgress
      BY <2>1 DEF Store, InProgress, TInv, TokenTypeOK, Known
    <2>3. QED
      BY <2>2 DEF TInv, CacheMatches
  <1>2. QED
    BY <1>1, TokenInvariance, PTL DEF TokenSpec, NoFreshTokenReplaced
=============================================================================
