-------------------------- MODULE WorkerPoolProofs --------------------------
(***************************************************************************)
(* Proofs about the check sweep, for any number of workers and jobs, any   *)
(* channel size, any request cap and any number of requests: SweepInv is   *)
(* inductive, and the safety properties of WorkerPool follow from it.      *)
(***************************************************************************)
EXTENDS WorkerPool, FiniteSetTheorems, TLAPS

-----------------------------------------------------------------------------
\* newPool's clamp leaves at least one worker and one slot per channel.
LEMMA SomeWorker ==
  /\ PoolSize \in Nat \ {0} /\ BufSize \in Nat /\ 1 \in Workers
  /\ Workers \subseteq Nat
  BY PoolAssumption DEF PoolSize, BufSize, Workers

\* Types.
LEMMA TypeStep ==
  ASSUME SweepInv, [Next]_vars
  PROVE  TypeOK'
  <1>0. /\ TypeOK /\ BudgetCause /\ Holding /\ NothingLost /\ SweepOrder
        /\ CutShortIsRecorded
    BY DEF SweepInv
  <1> USE <1>0, SomeWorker, PoolAssumption
  <1>1. CASE MaxDuration
    BY <1>1 DEF MaxDuration, TypeOK, Holding, SweepOrder, Goto, poolVars,
       budgetVars, EndContext, Done, Causes, Entries, PCs, InCheck, InHand,
          AfterJob, Jobs, BudgetCause, OverCap
  <1>2. CASE Interrupt
    BY <1>2 DEF Interrupt, TypeOK, Holding, SweepOrder, Goto, poolVars,
       budgetVars, EndContext, Done, Causes, Entries, PCs, InCheck, InHand,
          AfterJob, Jobs, BudgetCause, OverCap
  <1>3. CASE Produce
    BY <1>3 DEF Produce, TypeOK, Holding, SweepOrder, Goto, poolVars,
       budgetVars, EndContext, Done, Causes, Entries, PCs, InCheck, InHand,
          AfterJob, Jobs, BudgetCause, OverCap
  <1>4. CASE CloseJobs
    BY <1>4 DEF CloseJobs, TypeOK, Holding, SweepOrder, Goto, poolVars,
       budgetVars, EndContext, Done, Causes, Entries, PCs, InCheck, InHand,
          AfterJob, Jobs, BudgetCause, OverCap
  <1>5. CASE CloseResults
    BY <1>5 DEF CloseResults, TypeOK, Holding, SweepOrder, Goto, poolVars,
       budgetVars, EndContext, Done, Causes, Entries, PCs, InCheck, InHand,
          AfterJob, Jobs, BudgetCause, OverCap
  <1>6. CASE RunEvidenceReturns
    BY <1>6 DEF RunEvidenceReturns, TypeOK, Holding, SweepOrder, Goto,
       poolVars, budgetVars, EndContext, Done, Causes, Entries, PCs, InCheck,
          InHand, AfterJob, Jobs, BudgetCause, OverCap
  <1>7. CASE Record
    BY <1>7 DEF Record, TypeOK, Holding, SweepOrder, Goto, poolVars,
       budgetVars, EndContext, Done, Causes, Entries, PCs, InCheck, InHand,
          AfterJob, Jobs, BudgetCause, OverCap
  <1>8. ASSUME NEW j \in results, Collect(j) PROVE TypeOK'
    BY <1>8 DEF Collect, TypeOK, Holding, SweepOrder, Goto, poolVars,
       budgetVars, EndContext, Done, Causes, Entries, PCs, InCheck, InHand,
          AfterJob, Jobs, BudgetCause, OverCap
  <1>9. ASSUME NEW w \in Workers, Receive(w) PROVE TypeOK'
    BY <1>9 DEF Receive, TypeOK, Holding, SweepOrder, Goto, poolVars,
       budgetVars, EndContext, Done, Causes, Entries, PCs, InCheck, InHand,
          AfterJob, Jobs, BudgetCause, OverCap
  <1>10. ASSUME NEW w \in Workers, OutOfJobs(w) PROVE TypeOK'
    BY <1>10 DEF OutOfJobs, TypeOK, Holding, SweepOrder, Goto, poolVars,
       budgetVars, EndContext, Done, Causes, Entries, PCs, InCheck, InHand,
          AfterJob, Jobs, BudgetCause, OverCap
  <1>11. ASSUME NEW w \in Workers, Start(w) PROVE TypeOK'
    BY <1>11 DEF Start, TypeOK, Holding, SweepOrder, Goto, poolVars,
       budgetVars, EndContext, Done, Causes, Entries, PCs, InCheck, InHand,
          AfterJob, Jobs, BudgetCause, OverCap
  <1>12. ASSUME NEW w \in Workers, CheckReturns(w) PROVE TypeOK'
    <2>1. holds[w] \in Jobs
      BY <1>12 DEF CheckReturns, TypeOK, Holding, InHand, InCheck, Jobs
    <2>2. ran' \subseteq Jobs /\ found' \subseteq ran' /\ found \subseteq
       found'
      BY <1>12, <2>1 DEF CheckReturns, TypeOK
    <2>3. pc' \in [Workers -> PCs]
      BY <1>12 DEF CheckReturns, TypeOK, Goto, PCs, AfterJob
    <2>4. results' \subseteq found' /\ allFindings' \subseteq found'
      BY <1>12, <2>2 DEF CheckReturns, TypeOK
    <2>5. UNCHANGED <<ctx, produced, taken, closed, holds, sweep, sent,
                      rejected, capHit, dast>>
      BY <1>12 DEF CheckReturns, budgetVars
    <2>6. QED
      BY <2>2, <2>3, <2>4, <2>5 DEF TypeOK
  <1>13. ASSUME NEW w \in Workers, CheckPanics(w) PROVE TypeOK'
    <2>1. holds[w] \in Jobs
      BY <1>13 DEF CheckPanics, TypeOK, Holding, InHand, InCheck, Jobs
    <2>2. ran' \subseteq Jobs /\ found' \subseteq ran' /\ found \subseteq
       found'
      BY <1>13, <2>1 DEF CheckPanics, TypeOK
    <2>3. pc' \in [Workers -> PCs]
      BY <1>13 DEF CheckPanics, TypeOK, Goto, PCs, AfterJob
    <2>4. results' \subseteq found' /\ allFindings' \subseteq found'
      BY <1>13, <2>2 DEF CheckPanics, TypeOK
    <2>5. UNCHANGED <<ctx, produced, taken, closed, holds, sweep, sent,
                      rejected, capHit, dast>>
      BY <1>13 DEF CheckPanics, budgetVars
    <2>6. QED
      BY <2>2, <2>3, <2>4, <2>5 DEF TypeOK
  <1>14. ASSUME NEW w \in Workers, SendBatch(w) PROVE TypeOK'
    BY <1>14 DEF SendBatch, TypeOK, Holding, SweepOrder, Goto, poolVars,
       budgetVars, EndContext, Done, Causes, Entries, PCs, InCheck, InHand,
          AfterJob, Jobs, BudgetCause, OverCap
  <1>15. ASSUME NEW w \in Workers, StopAtSelect(w) PROVE TypeOK'
    BY <1>15 DEF StopAtSelect, TypeOK, Holding, SweepOrder, Goto, poolVars,
       budgetVars, EndContext, Done, Causes, Entries, PCs, InCheck, InHand,
          AfterJob, Jobs, BudgetCause, OverCap
  <1>16. ASSUME NEW w \in Workers, PauseEnds(w) PROVE TypeOK'
    BY <1>16 DEF PauseEnds, TypeOK, Holding, SweepOrder, Goto, poolVars,
       budgetVars, EndContext, Done, Causes, Entries, PCs, InCheck, InHand,
          AfterJob, Jobs, BudgetCause, OverCap
  <1>17. ASSUME NEW w \in Workers, RoundTrip(w) PROVE TypeOK'
    BY <1>17 DEF RoundTrip, TypeOK, Holding, SweepOrder, Goto, poolVars,
       budgetVars, EndContext, Done, Causes, Entries, PCs, InCheck, InHand,
          AfterJob, Jobs, BudgetCause, OverCap
  <1>18. ASSUME NEW w \in Workers, CountRefusal(w) PROVE TypeOK'
    BY <1>18 DEF CountRefusal, TypeOK, Holding, SweepOrder, Goto, poolVars,
       budgetVars, EndContext, Done, Causes, Entries, PCs, InCheck, InHand,
          AfterJob, Jobs, BudgetCause, OverCap
  <1>19. ASSUME NEW w \in Workers, CancelOnce(w) PROVE TypeOK'
    BY <1>19 DEF CancelOnce, TypeOK, Holding, SweepOrder, Goto, poolVars,
       budgetVars, EndContext, Done, Causes, Entries, PCs, InCheck, InHand,
          AfterJob, Jobs, BudgetCause, OverCap
  <1>20. CASE UNCHANGED vars
    BY <1>20 DEF vars, poolVars, budgetVars, TypeOK, Holding, SweepOrder,
       Goto, poolVars, budgetVars, EndContext, Done, Causes, Entries, PCs,
          InCheck, InHand, AfterJob, Jobs, BudgetCause, OverCap
  <1>21. QED
    BY <1>1, <1>2, <1>3, <1>4, <1>5, <1>6, <1>7, <1>8, <1>9, <1>10, <1>11,
       <1>12, <1>13, <1>14, <1>15, <1>16, <1>17, <1>18, <1>19, <1>20 DEF
          Next, WorkerStep

\* The budget is the cause only after a refusal was counted.
LEMMA BudgetStep ==
  ASSUME SweepInv, [Next]_vars
  PROVE  BudgetCause'
  <1>0. /\ TypeOK /\ BudgetCause /\ Holding /\ NothingLost /\ SweepOrder
        /\ CutShortIsRecorded
    BY DEF SweepInv
  <1> USE <1>0, SomeWorker, PoolAssumption
  <1>1. CASE MaxDuration
    BY <1>1 DEF MaxDuration, TypeOK, BudgetCause, Goto, poolVars, budgetVars,
       EndContext, Done, AfterJob
  <1>2. CASE Interrupt
    BY <1>2 DEF Interrupt, TypeOK, BudgetCause, Goto, poolVars, budgetVars,
       EndContext, Done, AfterJob
  <1>3. CASE Produce
    BY <1>3 DEF Produce, TypeOK, BudgetCause, Goto, poolVars, budgetVars,
       EndContext, Done, AfterJob
  <1>4. CASE CloseJobs
    BY <1>4 DEF CloseJobs, TypeOK, BudgetCause, Goto, poolVars, budgetVars,
       EndContext, Done, AfterJob
  <1>5. CASE CloseResults
    BY <1>5 DEF CloseResults, TypeOK, BudgetCause, Goto, poolVars,
       budgetVars, EndContext, Done, AfterJob
  <1>6. CASE RunEvidenceReturns
    BY <1>6 DEF RunEvidenceReturns, TypeOK, BudgetCause, Goto, poolVars,
       budgetVars, EndContext, Done, AfterJob
  <1>7. CASE Record
    BY <1>7 DEF Record, TypeOK, BudgetCause, Goto, poolVars, budgetVars,
       EndContext, Done, AfterJob
  <1>8. ASSUME NEW j \in results, Collect(j) PROVE BudgetCause'
    BY <1>8 DEF Collect, TypeOK, BudgetCause, Goto, poolVars, budgetVars,
       EndContext, Done, AfterJob
  <1>9. ASSUME NEW w \in Workers, Receive(w) PROVE BudgetCause'
    BY <1>9 DEF Receive, TypeOK, BudgetCause, Goto, poolVars, budgetVars,
       EndContext, Done, AfterJob
  <1>10. ASSUME NEW w \in Workers, OutOfJobs(w) PROVE BudgetCause'
    BY <1>10 DEF OutOfJobs, TypeOK, BudgetCause, Goto, poolVars, budgetVars,
       EndContext, Done, AfterJob
  <1>11. ASSUME NEW w \in Workers, Start(w) PROVE BudgetCause'
    BY <1>11 DEF Start, TypeOK, BudgetCause, Goto, poolVars, budgetVars,
       EndContext, Done, AfterJob
  <1>12. ASSUME NEW w \in Workers, CheckReturns(w) PROVE BudgetCause'
    BY <1>12 DEF CheckReturns, TypeOK, BudgetCause, Goto, poolVars,
       budgetVars, EndContext, Done, AfterJob
  <1>13. ASSUME NEW w \in Workers, CheckPanics(w) PROVE BudgetCause'
    BY <1>13 DEF CheckPanics, TypeOK, BudgetCause, Goto, poolVars,
       budgetVars, EndContext, Done, AfterJob
  <1>14. ASSUME NEW w \in Workers, SendBatch(w) PROVE BudgetCause'
    BY <1>14 DEF SendBatch, TypeOK, BudgetCause, Goto, poolVars, budgetVars,
       EndContext, Done, AfterJob
  <1>15. ASSUME NEW w \in Workers, StopAtSelect(w) PROVE BudgetCause'
    BY <1>15 DEF StopAtSelect, TypeOK, BudgetCause, Goto, poolVars,
       budgetVars, EndContext, Done, AfterJob
  <1>16. ASSUME NEW w \in Workers, PauseEnds(w) PROVE BudgetCause'
    BY <1>16 DEF PauseEnds, TypeOK, BudgetCause, Goto, poolVars, budgetVars,
       EndContext, Done, AfterJob
  <1>17. ASSUME NEW w \in Workers, RoundTrip(w) PROVE BudgetCause'
    BY <1>17 DEF RoundTrip, TypeOK, BudgetCause, Goto, poolVars, budgetVars,
       EndContext, Done, AfterJob
  <1>18. ASSUME NEW w \in Workers, CountRefusal(w) PROVE BudgetCause'
    BY <1>18 DEF CountRefusal, TypeOK, BudgetCause, Goto, poolVars,
       budgetVars, EndContext, Done, AfterJob
  <1>19. ASSUME NEW w \in Workers, CancelOnce(w) PROVE BudgetCause'
    BY <1>19 DEF CancelOnce, TypeOK, BudgetCause, Goto, poolVars, budgetVars,
       EndContext, Done, AfterJob
  <1>20. CASE UNCHANGED vars
    BY <1>20 DEF vars, poolVars, budgetVars, TypeOK, BudgetCause, Goto,
       poolVars, budgetVars, EndContext, Done, AfterJob
  <1>21. QED
    BY <1>1, <1>2, <1>3, <1>4, <1>5, <1>6, <1>7, <1>8, <1>9, <1>10, <1>11,
       <1>12, <1>13, <1>14, <1>15, <1>16, <1>17, <1>18, <1>19, <1>20 DEF
          Next, WorkerStep

\* What workers hold.
LEMMA HoldingStep ==
  ASSUME SweepInv, [Next]_vars
  PROVE  Holding'
  <1>0. /\ TypeOK /\ BudgetCause /\ Holding /\ NothingLost /\ SweepOrder
        /\ CutShortIsRecorded
    BY DEF SweepInv
  <1> USE <1>0, SomeWorker, PoolAssumption
  <1>1. CASE MaxDuration
    BY <1>1 DEF MaxDuration, TypeOK, Holding, Goto, poolVars, budgetVars,
       InCheck, InHand, AfterJob
  <1>2. CASE Interrupt
    BY <1>2 DEF Interrupt, TypeOK, Holding, Goto, poolVars, budgetVars,
       InCheck, InHand, AfterJob
  <1>3. CASE Produce
    BY <1>3 DEF Produce, TypeOK, Holding, Goto, poolVars, budgetVars,
       InCheck, InHand, AfterJob
  <1>4. CASE CloseJobs
    BY <1>4 DEF CloseJobs, TypeOK, Holding, Goto, poolVars, budgetVars,
       InCheck, InHand, AfterJob
  <1>5. CASE CloseResults
    BY <1>5 DEF CloseResults, TypeOK, Holding, Goto, poolVars, budgetVars,
       InCheck, InHand, AfterJob
  <1>6. CASE RunEvidenceReturns
    BY <1>6 DEF RunEvidenceReturns, TypeOK, Holding, Goto, poolVars,
       budgetVars, InCheck, InHand, AfterJob
  <1>7. CASE Record
    BY <1>7 DEF Record, TypeOK, Holding, Goto, poolVars, budgetVars, InCheck,
       InHand, AfterJob
  <1>8. ASSUME NEW j \in results, Collect(j) PROVE Holding'
    BY <1>8 DEF Collect, TypeOK, Holding, Goto, poolVars, budgetVars,
       InCheck, InHand, AfterJob
  <1>9. ASSUME NEW w \in Workers, Receive(w) PROVE Holding'
    BY <1>9 DEF Receive, TypeOK, Holding, Goto, poolVars, budgetVars,
       InCheck, InHand, AfterJob
  <1>10. ASSUME NEW w \in Workers, OutOfJobs(w) PROVE Holding'
    BY <1>10 DEF OutOfJobs, TypeOK, Holding, Goto, poolVars, budgetVars,
       InCheck, InHand, AfterJob
  <1>11. ASSUME NEW w \in Workers, Start(w) PROVE Holding'
    BY <1>11 DEF Start, TypeOK, Holding, Goto, poolVars, budgetVars, InCheck,
       InHand, AfterJob
  <1>12. ASSUME NEW w \in Workers, CheckReturns(w) PROVE Holding'
    BY <1>12 DEF CheckReturns, TypeOK, Holding, Goto, poolVars, budgetVars,
       InCheck, InHand, AfterJob
  <1>13. ASSUME NEW w \in Workers, CheckPanics(w) PROVE Holding'
    BY <1>13 DEF CheckPanics, TypeOK, Holding, Goto, poolVars, budgetVars,
       InCheck, InHand, AfterJob
  <1>14. ASSUME NEW w \in Workers, SendBatch(w) PROVE Holding'
    BY <1>14 DEF SendBatch, TypeOK, Holding, Goto, poolVars, budgetVars,
       InCheck, InHand, AfterJob
  <1>15. ASSUME NEW w \in Workers, StopAtSelect(w) PROVE Holding'
    BY <1>15 DEF StopAtSelect, TypeOK, Holding, Goto, poolVars, budgetVars,
       InCheck, InHand, AfterJob
  <1>16. ASSUME NEW w \in Workers, PauseEnds(w) PROVE Holding'
    BY <1>16 DEF PauseEnds, TypeOK, Holding, Goto, poolVars, budgetVars,
       InCheck, InHand, AfterJob
  <1>17. ASSUME NEW w \in Workers, RoundTrip(w) PROVE Holding'
    BY <1>17 DEF RoundTrip, TypeOK, Holding, Goto, poolVars, budgetVars,
       InCheck, InHand, AfterJob
  <1>18. ASSUME NEW w \in Workers, CountRefusal(w) PROVE Holding'
    BY <1>18 DEF CountRefusal, TypeOK, Holding, Goto, poolVars, budgetVars,
       InCheck, InHand, AfterJob
  <1>19. ASSUME NEW w \in Workers, CancelOnce(w) PROVE Holding'
    BY <1>19 DEF CancelOnce, TypeOK, Holding, Goto, poolVars, budgetVars,
       InCheck, InHand, AfterJob
  <1>20. CASE UNCHANGED vars
    BY <1>20 DEF vars, poolVars, budgetVars, TypeOK, Holding, Goto, poolVars,
       budgetVars, InCheck, InHand, AfterJob
  <1>21. QED
    BY <1>1, <1>2, <1>3, <1>4, <1>5, <1>6, <1>7, <1>8, <1>9, <1>10, <1>11,
       <1>12, <1>13, <1>14, <1>15, <1>16, <1>17, <1>18, <1>19, <1>20 DEF
          Next, WorkerStep

\* No job and no batch is lost under a live context.
LEMMA NothingLostStep ==
  ASSUME SweepInv, [Next]_vars
  PROVE  NothingLost'
  <1>0. /\ TypeOK /\ BudgetCause /\ Holding /\ NothingLost /\ SweepOrder
        /\ CutShortIsRecorded
    BY DEF SweepInv
  <1> USE <1>0, SomeWorker, PoolAssumption
  <1>1. CASE MaxDuration
    BY <1>1 DEF MaxDuration, TypeOK, Holding, NothingLost, Goto, poolVars,
       budgetVars, InCheck, InHand, AfterJob, EndContext, Done
  <1>2. CASE Interrupt
    BY <1>2 DEF Interrupt, TypeOK, Holding, NothingLost, Goto, poolVars,
       budgetVars, InCheck, InHand, AfterJob, EndContext, Done
  <1>3. CASE Produce
    BY <1>3 DEF Produce, TypeOK, Holding, NothingLost, Goto, poolVars,
       budgetVars, InCheck, InHand, AfterJob, EndContext, Done
  <1>4. CASE CloseJobs
    BY <1>4 DEF CloseJobs, TypeOK, Holding, NothingLost, Goto, poolVars,
       budgetVars, InCheck, InHand, AfterJob, EndContext, Done
  <1>5. CASE CloseResults
    BY <1>5 DEF CloseResults, TypeOK, Holding, NothingLost, Goto, poolVars,
       budgetVars, InCheck, InHand, AfterJob, EndContext, Done
  <1>6. CASE RunEvidenceReturns
    BY <1>6 DEF RunEvidenceReturns, TypeOK, Holding, NothingLost, Goto,
       poolVars, budgetVars, InCheck, InHand, AfterJob, EndContext, Done
  <1>7. CASE Record
    BY <1>7 DEF Record, TypeOK, Holding, NothingLost, Goto, poolVars,
       budgetVars, InCheck, InHand, AfterJob, EndContext, Done
  <1>8. ASSUME NEW j \in results, Collect(j) PROVE NothingLost'
    BY <1>8 DEF Collect, TypeOK, Holding, NothingLost, Goto, poolVars,
       budgetVars, InCheck, InHand, AfterJob, EndContext, Done
  <1>9. ASSUME NEW w \in Workers, Receive(w) PROVE NothingLost'
    BY <1>9 DEF Receive, TypeOK, Holding, NothingLost, Goto, poolVars,
       budgetVars, InCheck, InHand, AfterJob, EndContext, Done
  <1>10. ASSUME NEW w \in Workers, OutOfJobs(w) PROVE NothingLost'
    BY <1>10 DEF OutOfJobs, TypeOK, Holding, NothingLost, Goto, poolVars,
       budgetVars, InCheck, InHand, AfterJob, EndContext, Done
  <1>11. ASSUME NEW w \in Workers, Start(w) PROVE NothingLost'
    BY <1>11 DEF Start, TypeOK, Holding, NothingLost, Goto, poolVars,
       budgetVars, InCheck, InHand, AfterJob, EndContext, Done
  <1>12. ASSUME NEW w \in Workers, CheckReturns(w) PROVE NothingLost'
    BY <1>12 DEF CheckReturns, TypeOK, Holding, NothingLost, Goto, poolVars,
       budgetVars, InCheck, InHand, AfterJob, EndContext, Done
  <1>13. ASSUME NEW w \in Workers, CheckPanics(w) PROVE NothingLost'
    BY <1>13 DEF CheckPanics, TypeOK, Holding, NothingLost, Goto, poolVars,
       budgetVars, InCheck, InHand, AfterJob, EndContext, Done
  <1>14. ASSUME NEW w \in Workers, SendBatch(w) PROVE NothingLost'
    BY <1>14 DEF SendBatch, TypeOK, Holding, NothingLost, Goto, poolVars,
       budgetVars, InCheck, InHand, AfterJob, EndContext, Done
  <1>15. ASSUME NEW w \in Workers, StopAtSelect(w) PROVE NothingLost'
    BY <1>15 DEF StopAtSelect, TypeOK, Holding, NothingLost, Goto, poolVars,
       budgetVars, InCheck, InHand, AfterJob, EndContext, Done
  <1>16. ASSUME NEW w \in Workers, PauseEnds(w) PROVE NothingLost'
    BY <1>16 DEF PauseEnds, TypeOK, Holding, NothingLost, Goto, poolVars,
       budgetVars, InCheck, InHand, AfterJob, EndContext, Done
  <1>17. ASSUME NEW w \in Workers, RoundTrip(w) PROVE NothingLost'
    BY <1>17 DEF RoundTrip, TypeOK, Holding, NothingLost, Goto, poolVars,
       budgetVars, InCheck, InHand, AfterJob, EndContext, Done
  <1>18. ASSUME NEW w \in Workers, CountRefusal(w) PROVE NothingLost'
    BY <1>18 DEF CountRefusal, TypeOK, Holding, NothingLost, Goto, poolVars,
       budgetVars, InCheck, InHand, AfterJob, EndContext, Done
  <1>19. ASSUME NEW w \in Workers, CancelOnce(w) PROVE NothingLost'
    BY <1>19 DEF CancelOnce, TypeOK, Holding, NothingLost, Goto, poolVars,
       budgetVars, InCheck, InHand, AfterJob, EndContext, Done
  <1>20. CASE UNCHANGED vars
    BY <1>20 DEF vars, poolVars, budgetVars, TypeOK, Holding, NothingLost,
       Goto, poolVars, budgetVars, InCheck, InHand, AfterJob, EndContext, Done
  <1>21. QED
    BY <1>1, <1>2, <1>3, <1>4, <1>5, <1>6, <1>7, <1>8, <1>9, <1>10, <1>11,
       <1>12, <1>13, <1>14, <1>15, <1>16, <1>17, <1>18, <1>19, <1>20 DEF
          Next, WorkerStep

\* The order of the end of a sweep.
LEMMA OrderStep ==
  ASSUME SweepInv, [Next]_vars
  PROVE  SweepOrder'
  <1>0. /\ TypeOK /\ BudgetCause /\ Holding /\ NothingLost /\ SweepOrder
        /\ CutShortIsRecorded
    BY DEF SweepInv
  <1> USE <1>0, SomeWorker, PoolAssumption
  <1>1. CASE MaxDuration
    BY <1>1 DEF MaxDuration, TypeOK, SweepOrder, Goto, poolVars, budgetVars,
       AfterJob
  <1>2. CASE Interrupt
    BY <1>2 DEF Interrupt, TypeOK, SweepOrder, Goto, poolVars, budgetVars,
       AfterJob
  <1>3. CASE Produce
    BY <1>3 DEF Produce, TypeOK, SweepOrder, Goto, poolVars, budgetVars,
       AfterJob
  <1>4. CASE CloseJobs
    BY <1>4 DEF CloseJobs, TypeOK, SweepOrder, Goto, poolVars, budgetVars,
       AfterJob
  <1>5. CASE CloseResults
    BY <1>5 DEF CloseResults, TypeOK, SweepOrder, Goto, poolVars, budgetVars,
       AfterJob
  <1>6. CASE RunEvidenceReturns
    BY <1>6 DEF RunEvidenceReturns, TypeOK, SweepOrder, Goto, poolVars,
       budgetVars, AfterJob
  <1>7. CASE Record
    BY <1>7 DEF Record, TypeOK, SweepOrder, Goto, poolVars, budgetVars,
       AfterJob
  <1>8. ASSUME NEW j \in results, Collect(j) PROVE SweepOrder'
    BY <1>8 DEF Collect, TypeOK, SweepOrder, Goto, poolVars, budgetVars,
       AfterJob
  <1>9. ASSUME NEW w \in Workers, Receive(w) PROVE SweepOrder'
    BY <1>9 DEF Receive, TypeOK, SweepOrder, Goto, poolVars, budgetVars,
       AfterJob
  <1>10. ASSUME NEW w \in Workers, OutOfJobs(w) PROVE SweepOrder'
    BY <1>10 DEF OutOfJobs, TypeOK, SweepOrder, Goto, poolVars, budgetVars,
       AfterJob
  <1>11. ASSUME NEW w \in Workers, Start(w) PROVE SweepOrder'
    BY <1>11 DEF Start, TypeOK, SweepOrder, Goto, poolVars, budgetVars,
       AfterJob
  <1>12. ASSUME NEW w \in Workers, CheckReturns(w) PROVE SweepOrder'
    BY <1>12 DEF CheckReturns, TypeOK, SweepOrder, Goto, poolVars,
       budgetVars, AfterJob
  <1>13. ASSUME NEW w \in Workers, CheckPanics(w) PROVE SweepOrder'
    BY <1>13 DEF CheckPanics, TypeOK, SweepOrder, Goto, poolVars, budgetVars,
       AfterJob
  <1>14. ASSUME NEW w \in Workers, SendBatch(w) PROVE SweepOrder'
    BY <1>14 DEF SendBatch, TypeOK, SweepOrder, Goto, poolVars, budgetVars,
       AfterJob
  <1>15. ASSUME NEW w \in Workers, StopAtSelect(w) PROVE SweepOrder'
    BY <1>15 DEF StopAtSelect, TypeOK, SweepOrder, Goto, poolVars,
       budgetVars, AfterJob
  <1>16. ASSUME NEW w \in Workers, PauseEnds(w) PROVE SweepOrder'
    BY <1>16 DEF PauseEnds, TypeOK, SweepOrder, Goto, poolVars, budgetVars,
       AfterJob
  <1>17. ASSUME NEW w \in Workers, RoundTrip(w) PROVE SweepOrder'
    BY <1>17 DEF RoundTrip, TypeOK, SweepOrder, Goto, poolVars, budgetVars,
       AfterJob
  <1>18. ASSUME NEW w \in Workers, CountRefusal(w) PROVE SweepOrder'
    BY <1>18 DEF CountRefusal, TypeOK, SweepOrder, Goto, poolVars,
       budgetVars, AfterJob
  <1>19. ASSUME NEW w \in Workers, CancelOnce(w) PROVE SweepOrder'
    BY <1>19 DEF CancelOnce, TypeOK, SweepOrder, Goto, poolVars, budgetVars,
       AfterJob
  <1>20. CASE UNCHANGED vars
    BY <1>20 DEF vars, poolVars, budgetVars, TypeOK, SweepOrder, Goto,
       poolVars, budgetVars, AfterJob
  <1>21. QED
    BY <1>1, <1>2, <1>3, <1>4, <1>5, <1>6, <1>7, <1>8, <1>9, <1>10, <1>11,
       <1>12, <1>13, <1>14, <1>15, <1>16, <1>17, <1>18, <1>19, <1>20 DEF
          Next, WorkerStep

\* What the entry promises.
LEMMA RecordedStep ==
  ASSUME SweepInv, [Next]_vars
  PROVE  CutShortIsRecorded'
  <1>0. /\ TypeOK /\ BudgetCause /\ Holding /\ NothingLost /\ SweepOrder
        /\ CutShortIsRecorded
    BY DEF SweepInv
  <1> USE <1>0, SomeWorker, PoolAssumption
  <1>1. CASE MaxDuration
    BY <1>1 DEF MaxDuration, TypeOK, BudgetCause, Holding, NothingLost,
       SweepOrder, CutShortIsRecorded, Complete, Goto, poolVars, budgetVars,
          InCheck, InHand, AfterJob, EndContext, Done, Causes, Jobs
  <1>2. CASE Interrupt
    BY <1>2 DEF Interrupt, TypeOK, BudgetCause, Holding, NothingLost,
       SweepOrder, CutShortIsRecorded, Complete, Goto, poolVars, budgetVars,
          InCheck, InHand, AfterJob, EndContext, Done, Causes, Jobs
  <1>3. CASE Produce
    BY <1>3 DEF Produce, TypeOK, BudgetCause, Holding, NothingLost,
       SweepOrder, CutShortIsRecorded, Complete, Goto, poolVars, budgetVars,
          InCheck, InHand, AfterJob, EndContext, Done, Causes, Jobs
  <1>4. CASE CloseJobs
    BY <1>4 DEF CloseJobs, TypeOK, BudgetCause, Holding, NothingLost,
       SweepOrder, CutShortIsRecorded, Complete, Goto, poolVars, budgetVars,
          InCheck, InHand, AfterJob, EndContext, Done, Causes, Jobs
  <1>5. CASE CloseResults
    BY <1>5 DEF CloseResults, TypeOK, BudgetCause, Holding, NothingLost,
       SweepOrder, CutShortIsRecorded, Complete, Goto, poolVars, budgetVars,
          InCheck, InHand, AfterJob, EndContext, Done, Causes, Jobs
  <1>6. CASE RunEvidenceReturns
    BY <1>6 DEF RunEvidenceReturns, TypeOK, BudgetCause, Holding,
       NothingLost, SweepOrder, CutShortIsRecorded, Complete, Goto, poolVars,
          budgetVars, InCheck, InHand, AfterJob, EndContext, Done, Causes,
             Jobs
  <1>7. CASE Record
    BY <1>7 DEF Record, TypeOK, BudgetCause, Holding, NothingLost,
       SweepOrder, CutShortIsRecorded, Complete, Goto, poolVars, budgetVars,
          InCheck, InHand, AfterJob, EndContext, Done, Causes, Jobs
  <1>8. ASSUME NEW j \in results, Collect(j) PROVE CutShortIsRecorded'
    BY <1>8 DEF Collect, TypeOK, BudgetCause, Holding, NothingLost,
       SweepOrder, CutShortIsRecorded, Complete, Goto, poolVars, budgetVars,
          InCheck, InHand, AfterJob, EndContext, Done, Causes, Jobs
  <1>9. ASSUME NEW w \in Workers, Receive(w) PROVE CutShortIsRecorded'
    BY <1>9 DEF Receive, TypeOK, BudgetCause, Holding, NothingLost,
       SweepOrder, CutShortIsRecorded, Complete, Goto, poolVars, budgetVars,
          InCheck, InHand, AfterJob, EndContext, Done, Causes, Jobs
  <1>10. ASSUME NEW w \in Workers, OutOfJobs(w) PROVE CutShortIsRecorded'
    BY <1>10 DEF OutOfJobs, TypeOK, BudgetCause, Holding, NothingLost,
       SweepOrder, CutShortIsRecorded, Complete, Goto, poolVars, budgetVars,
          InCheck, InHand, AfterJob, EndContext, Done, Causes, Jobs
  <1>11. ASSUME NEW w \in Workers, Start(w) PROVE CutShortIsRecorded'
    BY <1>11 DEF Start, TypeOK, BudgetCause, Holding, NothingLost,
       SweepOrder, CutShortIsRecorded, Complete, Goto, poolVars, budgetVars,
          InCheck, InHand, AfterJob, EndContext, Done, Causes, Jobs
  <1>12. ASSUME NEW w \in Workers, CheckReturns(w) PROVE CutShortIsRecorded'
    BY <1>12 DEF CheckReturns, TypeOK, BudgetCause, Holding, NothingLost,
       SweepOrder, CutShortIsRecorded, Complete, Goto, poolVars, budgetVars,
          InCheck, InHand, AfterJob, EndContext, Done, Causes, Jobs
  <1>13. ASSUME NEW w \in Workers, CheckPanics(w) PROVE CutShortIsRecorded'
    BY <1>13 DEF CheckPanics, TypeOK, BudgetCause, Holding, NothingLost,
       SweepOrder, CutShortIsRecorded, Complete, Goto, poolVars, budgetVars,
          InCheck, InHand, AfterJob, EndContext, Done, Causes, Jobs
  <1>14. ASSUME NEW w \in Workers, SendBatch(w) PROVE CutShortIsRecorded'
    BY <1>14 DEF SendBatch, TypeOK, BudgetCause, Holding, NothingLost,
       SweepOrder, CutShortIsRecorded, Complete, Goto, poolVars, budgetVars,
          InCheck, InHand, AfterJob, EndContext, Done, Causes, Jobs
  <1>15. ASSUME NEW w \in Workers, StopAtSelect(w) PROVE CutShortIsRecorded'
    BY <1>15 DEF StopAtSelect, TypeOK, BudgetCause, Holding, NothingLost,
       SweepOrder, CutShortIsRecorded, Complete, Goto, poolVars, budgetVars,
          InCheck, InHand, AfterJob, EndContext, Done, Causes, Jobs
  <1>16. ASSUME NEW w \in Workers, PauseEnds(w) PROVE CutShortIsRecorded'
    BY <1>16 DEF PauseEnds, TypeOK, BudgetCause, Holding, NothingLost,
       SweepOrder, CutShortIsRecorded, Complete, Goto, poolVars, budgetVars,
          InCheck, InHand, AfterJob, EndContext, Done, Causes, Jobs
  <1>17. ASSUME NEW w \in Workers, RoundTrip(w) PROVE CutShortIsRecorded'
    BY <1>17 DEF RoundTrip, TypeOK, BudgetCause, Holding, NothingLost,
       SweepOrder, CutShortIsRecorded, Complete, Goto, poolVars, budgetVars,
          InCheck, InHand, AfterJob, EndContext, Done, Causes, Jobs
  <1>18. ASSUME NEW w \in Workers, CountRefusal(w) PROVE CutShortIsRecorded'
    BY <1>18 DEF CountRefusal, TypeOK, BudgetCause, Holding, NothingLost,
       SweepOrder, CutShortIsRecorded, Complete, Goto, poolVars, budgetVars,
          InCheck, InHand, AfterJob, EndContext, Done, Causes, Jobs
  <1>19. ASSUME NEW w \in Workers, CancelOnce(w) PROVE CutShortIsRecorded'
    BY <1>19 DEF CancelOnce, TypeOK, BudgetCause, Holding, NothingLost,
       SweepOrder, CutShortIsRecorded, Complete, Goto, poolVars, budgetVars,
          InCheck, InHand, AfterJob, EndContext, Done, Causes, Jobs
  <1>20. CASE UNCHANGED vars
    BY <1>20 DEF vars, poolVars, budgetVars, TypeOK, BudgetCause, Holding,
       NothingLost, SweepOrder, CutShortIsRecorded, Complete, Goto, poolVars,
          budgetVars, InCheck, InHand, AfterJob, EndContext, Done, Causes,
             Jobs
  <1>21. QED
    BY <1>1, <1>2, <1>3, <1>4, <1>5, <1>6, <1>7, <1>8, <1>9, <1>10, <1>11,
       <1>12, <1>13, <1>14, <1>15, <1>16, <1>17, <1>18, <1>19, <1>20 DEF
          Next, WorkerStep

-----------------------------------------------------------------------------
\* Counting the refusals in progress.

Refusing == {w \in Workers : pc[w] = "refused"}

\* The workers in the middle of a refusal are finite in number.
LEMMA RefusersFinite == IsFiniteSet(Refusing) /\ Cardinality(Refusing) \in Nat
  <1>1. IsFiniteSet(Workers)
    BY SomeWorker, FS_Interval DEF Workers
  <1>2. QED
    BY <1>1, FS_Subset, FS_CardinalityType DEF Refusing

\* One that begins or ends a refusal changes their number by one, and any
\* other move leaves it alone.
LEMMA RefusingCounts ==
  ASSUME TypeOK, NEW w \in Workers, NEW to, Goto(w, to)
  PROVE  /\ Cardinality(Refusing) \in Nat
         /\ pc[w] # "refused" /\ to = "refused" =>
              Cardinality(Refusing') = Cardinality(Refusing) + 1
         /\ pc[w] = "refused" /\ to # "refused" =>
              Cardinality(Refusing') = Cardinality(Refusing) - 1
         /\ pc[w] # "refused" /\ to # "refused" => Refusing' = Refusing
  <1>1. IsFiniteSet(Refusing) /\ Cardinality(Refusing) \in Nat
    BY RefusersFinite
  <1>2. ASSUME pc[w] # "refused", to = "refused"
        PROVE  Refusing' = Refusing \cup {w} /\ w \notin Refusing
    BY <1>2 DEF Refusing, Goto, TypeOK
  <1>3. ASSUME pc[w] = "refused", to # "refused"
        PROVE  Refusing' = Refusing \ {w} /\ w \in Refusing
    BY <1>3 DEF Refusing, Goto, TypeOK
  <1>4. ASSUME pc[w] # "refused", to # "refused" PROVE Refusing' = Refusing
    BY <1>4 DEF Refusing, Goto, TypeOK
  <1>5. pc[w] # "refused" /\ to = "refused" =>
          Cardinality(Refusing') = Cardinality(Refusing) + 1
    BY <1>1, <1>2, FS_AddElement
  <1>6. pc[w] = "refused" /\ to # "refused" =>
          Cardinality(Refusing') = Cardinality(Refusing) - 1
    BY <1>1, <1>3, FS_RemoveElement
  <1>7. QED
    BY <1>1, <1>4, <1>5, <1>6

\* No step puts more than the cap on the wire.
LEMMA WireStep ==
  ASSUME TypeOK, WireWithinCap, [Next]_vars
  PROVE  WireWithinCap'
  <1>1. WireWithinCap <=>
          (MaxRequests > 0 => sent - rejected - Cardinality(Refusing) <= MaxRequests)
    BY DEF WireWithinCap, Refusing
  <1>2. WireWithinCap' <=>
          (MaxRequests > 0 =>
             sent' - rejected' - Cardinality(Refusing') <= MaxRequests)
    BY DEF WireWithinCap, Refusing
  <1>3. MaxRequests \in Nat /\ sent \in Nat /\ rejected \in Nat
    BY PoolAssumption DEF TypeOK
  <1>4. ASSUME sent' = sent, rejected' = rejected, Refusing' = Refusing
        PROVE  WireWithinCap'
    BY <1>1, <1>2, <1>4
  <1>5. ASSUME NEW w \in Workers, RoundTrip(w) PROVE WireWithinCap'
    <2>1. CASE OverCap(sent + 1)
      <3>1. Goto(w, "refused") /\ pc[w] # "refused" /\ sent' = sent + 1
            /\ rejected' = rejected
        BY <1>5, <2>1 DEF RoundTrip
      <3>2. QED
        BY <1>1, <1>2, <1>3, <3>1, RefusingCounts
    <2>2. CASE ~OverCap(sent + 1)
      <3>1. Refusing' = Refusing /\ sent' = sent + 1 /\ rejected' = rejected
        BY <1>5, <2>2 DEF RoundTrip, Refusing
      <3>2. Cardinality(Refusing) \in Nat
        BY RefusersFinite
      <3>3. MaxRequests > 0 => sent + 1 <= MaxRequests
        BY <1>3, <2>2 DEF OverCap
      <3>4. QED
        BY <1>2, <1>3, <3>1, <3>2, <3>3
    <2>3. QED
      BY <2>1, <2>2
  <1>6. ASSUME NEW w \in Workers, CountRefusal(w) PROVE WireWithinCap'
    <2>1. Goto(w, "counted") /\ pc[w] = "refused" /\ sent' = sent
          /\ rejected' = rejected + 1
      BY <1>6 DEF CountRefusal
    <2>2. QED
      BY <1>1, <1>2, <1>3, <2>1, RefusingCounts
  <1>7. ASSUME NEW w \in Workers, WorkerStep(w), ~RoundTrip(w), ~CountRefusal(w)
        PROVE  WireWithinCap'
    <2>1. sent' = sent /\ rejected' = rejected
      BY <1>7 DEF WorkerStep, Receive, OutOfJobs, Start, CheckReturns,
         CheckPanics, SendBatch, StopAtSelect, PauseEnds, CancelOnce,
         budgetVars
    <2>2. pc[w] # "refused" /\ \E to \in PCs : to # "refused" /\ Goto(w, to)
      BY <1>7 DEF WorkerStep, Receive, OutOfJobs, Start, CheckReturns,
         CheckPanics, SendBatch, StopAtSelect, PauseEnds, CancelOnce,
         AfterJob, PCs, InCheck
    <2>3. Refusing' = Refusing
      BY <2>2, RefusingCounts
    <2>4. QED
      BY <1>4, <2>1, <2>3
  <1>8. ASSUME \/ MaxDuration \/ Interrupt \/ Produce \/ CloseJobs
               \/ \E j \in results : Collect(j)
               \/ CloseResults \/ RunEvidenceReturns \/ Record
               \/ UNCHANGED vars
        PROVE  WireWithinCap'
    <2>1. sent' = sent /\ rejected' = rejected /\ pc' = pc
      BY <1>8 DEF MaxDuration, Interrupt, Produce, CloseJobs, Collect,
         CloseResults, RunEvidenceReturns, Record, vars, poolVars, budgetVars
    <2>2. QED
      BY <1>4, <2>1 DEF Refusing
  <1>9. QED
    BY <1>5, <1>6, <1>7, <1>8 DEF Next

-----------------------------------------------------------------------------
\* The results.

\* A sweep starts in the invariant.
LEMMA InitInv == Init => SweepInv /\ WireWithinCap
  <1>1. ASSUME Init PROVE SweepInv
    <2>1. TypeOK
      <3>1. pc \in [Workers -> PCs]
        BY <1>1 DEF Init, PCs
      <3>2. holds \in [Workers -> 0..TotalJobs]
        BY <1>1, PoolAssumption DEF Init
      <3>3. produced \in 0..TotalJobs /\ taken \in 0..produced
        BY <1>1, PoolAssumption DEF Init
      <3>4. QED
        BY <1>1, <3>1, <3>2, <3>3 DEF Init, TypeOK, Causes, Entries
    <2>2. NothingLost
      BY <1>1, PoolAssumption DEF Init, NothingLost
    <2>3. BudgetCause /\ Holding /\ SweepOrder /\ CutShortIsRecorded
      BY <1>1 DEF Init, BudgetCause, Holding, SweepOrder, CutShortIsRecorded,
         InHand, InCheck
    <2>4. QED
      BY <2>1, <2>2, <2>3 DEF SweepInv
  <1>2. ASSUME Init PROVE WireWithinCap
    <2>1. {w \in Workers : pc[w] = "refused"} = {}
      BY <1>2 DEF Init
    <2>2. QED
      BY <1>2, <2>1, FS_EmptySet, PoolAssumption DEF Init, WireWithinCap
  <1>3. QED
    BY <1>1, <1>2

\* Channels, workers, budget and entry agree in every reachable state of a
\* sweep (WorkerPool.RunEvidence, recordBlackbox).
THEOREM Invariance == Spec => []SweepInv
  <1>1. SweepInv /\ [Next]_vars => SweepInv'
    BY TypeStep, BudgetStep, HoldingStep, NothingLostStep, OrderStep,
       RecordedStep DEF SweepInv
  <1>2. QED
    BY InitInv, <1>1, PTL DEF Spec

\* A sweep the two budgets cut short is never recorded as complete
\* (recordBlackbox).
THEOREM CutShortNeverOk == Spec => []CutShortIsRecorded
  <1>1. SweepInv => CutShortIsRecorded
    BY DEF SweepInv
  <1>2. QED
    BY Invariance, <1>1, PTL

\* However many workers race, at most --max-requests requests reach the wire
\* (budgetTransport.RoundTrip).
THEOREM CapHoldsOnTheWire == Spec => []WireWithinCap
  <1>1. SweepInv /\ WireWithinCap /\ [Next]_vars => WireWithinCap'
    BY WireStep DEF SweepInv
  <1>2. QED
    BY InitInv, Invariance, <1>1, PTL DEF Spec

\* No request is counted after RunEvidence returned, so budget.Stats() reads
\* final numbers.
THEOREM StatsFinal == Spec => StatsAreFinal
  <1>1. SweepInv /\ [Next]_vars =>
          [(sweep = "drained" \/ sweep = "recorded") =>
             sent' = sent /\ rejected' = rejected]_vars
    <2> SUFFICES ASSUME SweepInv, Next, sweep = "drained" \/ sweep = "recorded"
                 PROVE  sent' = sent /\ rejected' = rejected
      OBVIOUS
    <2>1. \A w \in Workers : pc[w] = "returned"
      BY DEF SweepInv, SweepOrder
    <2>2. ASSUME NEW w \in Workers PROVE ~WorkerStep(w)
      BY <2>1 DEF WorkerStep, Receive, OutOfJobs, Start, CheckReturns,
         CheckPanics, SendBatch, StopAtSelect, PauseEnds, RoundTrip,
         CountRefusal, CancelOnce
    <2>3. QED
      BY <2>2 DEF Next, MaxDuration, Interrupt, Produce, CloseJobs, Collect,
         CloseResults, RunEvidenceReturns, Record, budgetVars
  <1>2. QED
    BY Invariance, <1>1, PTL DEF Spec, StatsAreFinal
=============================================================================
