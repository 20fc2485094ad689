----------------------------- MODULE JobsProofs -----------------------------
(***************************************************************************)
(* Proofs about Jobs, for every number of jobs, callers, experiments and   *)
(* crashes and every limit.                                                *)
(***************************************************************************)
EXTENDS Jobs, FiniteSetTheorems, TLAPS

-----------------------------------------------------------------------------
(* The inductive invariant.                                                *)

\* The parts of TypeOK that do not depend on the counting of permits.
Typed ==
  /\ pc \in [JobIds -> Places]
  /\ mem \in [JobIds -> Statuses]
  /\ row \in [JobIds -> Statuses \cup {"none"}]
  /\ registered \subseteq JobIds
  /\ semaphoreOf \in [Experiments -> JobIds \cup {NoOne}]
  /\ sem \in [JobIds -> JobIds \cup {NoOne}]
  /\ permits \in [JobIds -> Int]
  /\ lock \in JobIds \cup Callers \cup {NoOne}
  /\ stray \subseteq [job : JobIds, status : Statuses]
  /\ call \in [Callers -> Calls]
  /\ disturbed \subseteq JobIds
  /\ crashes \in 0 .. MaxCrashes

\* What a call that awaits something works on.
CallFits(r) ==
  /\ r.op \in {"awaitingResult", "reading", "awaitingEnd", "examining", "writing"}
       => r.of \in JobIds
  /\ r.op = "draining" => r.of \in Experiments

CallTyped == \A c \in Callers : CallFits(call[c])

-----------------------------------------------------------------------------
(* Typing.                                                                 *)

LEMMA ReleasedType ==
  ASSUME Typed, NEW S \in SUBSET JobIds
  PROVE  Released(S) \in [JobIds -> Int]
<1>1. ASSUME NEW s \in JobIds
      PROVE  Cardinality({j \in S : sem[j] = s}) \in Nat
  <2>1. IsFiniteSet(S)
    BY JobsAssumption, FS_Subset
  <2>2. IsFiniteSet({j \in S : sem[j] = s})
    BY <2>1, FS_Subset
  <2> QED
    BY <2>2, FS_CardinalityType
<1> QED
  BY <1>1 DEF Released, Typed

LEMMA IdleType == Idle \in Calls /\ CallFits(Idle)
BY DEF Idle, Calls, CallFits

LEMMA TypedInit == Init => Typed /\ CallTyped
BY JobsAssumption, IdleType DEF Init, Typed, CallTyped, Places, Statuses

LEMMA GoesType ==
  ASSUME Typed, CallTyped, NEW c \in Callers, NEW j \in JobIds,
         NEW op \in {"awaitingResult", "reading", "awaitingEnd", "examining", "writing"},
         Goes(c, op, j)
  PROVE  call' \in [Callers -> Calls] /\ CallTyped'
<1>1. LET r == [op |-> op, of |-> j, targets |-> {}, answer |-> "none"]
      IN  r \in Calls /\ CallFits(r)
  BY DEF Calls, CallFits
<1> QED
  BY <1>1 DEF Goes, Typed, CallTyped

LEMMA AnswersType ==
  ASSUME Typed, CallTyped, NEW c \in Callers, NEW j \in JobIds,
         NEW a \in Statuses \cup {"none", "error"}, Answers(c, j, a)
  PROVE  call' \in [Callers -> Calls] /\ CallTyped'
<1>1. LET r == [op |-> "idle", of |-> j, targets |-> {}, answer |-> a]
      IN  r \in Calls /\ CallFits(r)
  BY DEF Calls, CallFits
<1> QED
  BY <1>1 DEF Answers, Typed, CallTyped

\* Cancelling tasks keeps the types.
LEMMA TypedCancel ==
  ASSUME Typed, NEW S \in SUBSET JobIds, CancelTasks(S)
  PROVE  /\ pc' \in [JobIds -> Places]
         /\ mem' \in [JobIds -> Statuses]
         /\ registered' \subseteq JobIds
         /\ sem' \in [JobIds -> JobIds \cup {NoOne}]
         /\ permits' \in [JobIds -> Int]
         /\ row' \in [JobIds -> Statuses \cup {"none"}]
         /\ lock' \in JobIds \cup Callers \cup {NoOne}
         /\ stray' \subseteq [job : JobIds, status : Statuses]
         /\ disturbed' \subseteq JobIds
         /\ crashes' \in 0 .. MaxCrashes
<1>1. \A p \in Places : AfterCancel(p) \in Places
  BY DEF AfterCancel, Places, Live, Inside, Finished
<1>2. pc' \in [JobIds -> Places]
  BY <1>1 DEF CancelTasks, Typed
<1>3. mem' \in [JobIds -> Statuses]
  BY DEF CancelTasks, Typed, Statuses
<1>4. permits' \in [JobIds -> Int]
  BY ReleasedType DEF CancelTasks
<1>5. /\ lock' \in JobIds \cup Callers \cup {NoOne}
      /\ stray' \subseteq [job : JobIds, status : Statuses]
  BY DEF CancelTasks, Deserts, Typed
<1> QED
  BY <1>2, <1>3, <1>4, <1>5 DEF CancelTasks, Typed

LEMMA TypedStep == Typed /\ CallTyped /\ [Next]_vars => Typed' /\ CallTyped'
<1> SUFFICES ASSUME Typed, CallTyped, [Next]_vars
             PROVE  Typed' /\ CallTyped'
  OBVIOUS
<1> USE DEF Typed, CallTyped
<1>1. ASSUME NEW j \in JobIds, Submit(j)
      PROVE  Typed' /\ CallTyped'
  BY <1>1 DEF Submit, Places
<1>2. ASSUME NEW j \in JobIds, SubmitAbandoned(j)
      PROVE  Typed' /\ CallTyped'
  BY <1>2 DEF SubmitAbandoned, Deserts, Places
<1>3. ASSUME NEW j \in JobIds, JobStep(j)
      PROVE  Typed' /\ CallTyped'
  <2>1. CASE Submitted(j)
    BY <2>1, JobsAssumption DEF Submitted, Saves, Places, Live
  <2>2. CASE SubmitRaises(j)
    BY <2>2 DEF SubmitRaises, SaveRaises, Places
  <2>3. CASE FetchSemaphore(j)
    BY <2>3, JobsAssumption DEF FetchSemaphore, Places, Live
  <2>4. CASE EnterSemaphore(j)
    <3>1. permits' \in [JobIds -> Int]
      <4>1. CASE sem[j] \in JobIds
        BY <2>4, <4>1 DEF EnterSemaphore
      <4>2. CASE sem[j] \notin JobIds
        BY <2>4, <4>2 DEF EnterSemaphore
      <4> QED
        BY <4>1, <4>2
    <3> QED
      BY <2>4, <3>1 DEF EnterSemaphore, Places, Live, Inside, Statuses
  <2>5. CASE RunningSaved(j)
    BY <2>5 DEF RunningSaved, Saves, Places, Live, Inside
  <2>6. CASE RunningRaises(j)
    <3>1. permits' \in [JobIds -> Int]
      BY <2>6, ReleasedType DEF RunningRaises
    <3> QED
      BY <2>6, <3>1 DEF RunningRaises, SaveRaises, Places, Live, Statuses
  <2>7. ASSUME NEW s \in {"COMPLETED", "TIMEOUT", "FAILED"}, ExecutorReturns(j, s)
        PROVE  Typed' /\ CallTyped'
    <3>1. permits' \in [JobIds -> Int]
      BY <2>7, ReleasedType DEF ExecutorReturns
    <3> QED
      BY <2>7, <3>1 DEF ExecutorReturns, Places, Live, Statuses
  <2>8. CASE ExecutorStopped(j) \/ ExecutorStopFails(j)
    <3>1. permits' \in [JobIds -> Int]
      BY <2>8, ReleasedType DEF ExecutorStopped, ExecutorStopFails
    <3> QED
      BY <2>8, <3>1 DEF ExecutorStopped, ExecutorStopFails, Places, Live, Statuses
  <2>9. CASE FinalSaved(j)
    BY <2>9 DEF FinalSaved, Saves, Places, Finished
  <2>10. CASE FinalRaises(j)
    BY <2>10 DEF FinalRaises, SaveRaises, Places, Finished
  <2>11. CASE CancelledSaved(j)
    BY <2>11 DEF CancelledSaved, Saves, SaveRaises, Places, Finished
  <2> QED
    BY <1>3, <2>1, <2>2, <2>3, <2>4, <2>5, <2>6, <2>7, <2>8, <2>9, <2>10, <2>11 DEF JobStep
<1>4. ASSUME NEW c \in Callers, Request(c)
      PROVE  Typed' /\ CallTyped'
  <2>1. ASSUME NEW j \in JobIds, WaitFor(c, j)
        PROVE  Typed' /\ CallTyped'
    BY <2>1, GoesType DEF WaitFor, CallOnly, jobVars
  <2>2. ASSUME NEW j \in JobIds, Cancel(c, j)
        PROVE  Typed' /\ CallTyped'
    <3>1. CASE Answers(c, j, mem[j]) /\ CallOnly
      BY <3>1, AnswersType DEF CallOnly, jobVars
    <3>2. CASE CancelTasks({j}) /\ UNCHANGED semaphoreOf /\ Goes(c, "awaitingEnd", j)
      BY <3>2, GoesType, TypedCancel, {j} \in SUBSET JobIds
    <3> QED
      BY <2>2, <3>1, <3>2 DEF Cancel
  <2>3. ASSUME NEW j \in JobIds, CancelUnattached(c, j)
        PROVE  Typed' /\ CallTyped'
    BY <2>3, GoesType DEF CancelUnattached, CallOnly, jobVars
  <2>4. ASSUME NEW e \in Experiments, CancelExperiment(c, e)
        PROVE  Typed' /\ CallTyped'
    <3> DEFINE S == registered \cap JobsOf(e)
               r == [op |-> "draining", of |-> e, targets |-> S, answer |-> "none"]
    <3>1. S \in SUBSET JobIds
      OBVIOUS
    <3>2. CancelTasks(S) /\ UNCHANGED semaphoreOf
      BY <2>4 DEF CancelExperiment
    <3>3. call' = [call EXCEPT ![c] = r]
      BY <2>4 DEF CancelExperiment
    <3>4. r \in Calls /\ CallFits(r)
      BY <3>1 DEF Calls, CallFits
    <3>5. call' \in [Callers -> Calls] /\ CallTyped'
      BY <3>3, <3>4
    <3> QED
      BY <3>1, <3>2, <3>5, TypedCancel
  <2>5. ASSUME NEW e \in Experiments, CancelIdleExperiment(c, e)
        PROVE  Typed' /\ CallTyped'
    BY <2>5 DEF CancelIdleExperiment, Discards
  <2> QED
    BY <1>4, <2>1, <2>2, <2>3, <2>4, <2>5 DEF Request
<1>5. ASSUME NEW c \in Callers, CallStep(c)
      PROVE  Typed' /\ CallTyped'
  <2> DEFINE j == call[c].of
  <2>1. CASE ResultArrives(c)
    <3>1. j \in JobIds
      BY <2>1 DEF ResultArrives, CallFits
    <3> QED
      BY <2>1, <3>1, GoesType, AnswersType DEF ResultArrives, CallOnly, jobVars
  <2>2. CASE RowRead(c)
    <3>1. j \in JobIds
      BY <2>2 DEF RowRead, CallFits
    <3> QED
      BY <2>2, <3>1, AnswersType DEF RowRead, CallOnly, jobVars
  <2>3. CASE RowExamined(c)
    <3>1. j \in JobIds
      BY <2>3 DEF RowExamined, CallFits
    <3> QED
      BY <2>3, <3>1, GoesType, AnswersType DEF RowExamined, CallOnly, jobVars
  <2>4. CASE UnattachedSaved(c)
    <3>1. j \in JobIds
      BY <2>4 DEF UnattachedSaved, CallFits
    <3>2. call' \in [Callers -> Calls] /\ CallTyped'
      BY <2>4, <3>1, AnswersType DEF UnattachedSaved, Statuses
    <3> QED
      BY <2>4, <3>2 DEF UnattachedSaved, jobVars, Statuses
  <2>5. CASE CancelReturns(c)
    <3>1. j \in JobIds
      BY <2>5 DEF CancelReturns, CallFits
    <3> QED
      BY <2>5, <3>1, GoesType, AnswersType DEF CancelReturns, CallOnly, jobVars
  <2>6. CASE Drained(c)
    BY <2>6, IdleType DEF Drained, Discards, CallFits
  <2> QED
    BY <1>5, <2>1, <2>2, <2>3, <2>4, <2>5, <2>6 DEF CallStep
<1>6. ASSUME NEW w \in JobIds \cup Callers, AcquireLock(w)
      PROVE  Typed' /\ CallTyped'
  BY <1>6 DEF AcquireLock, jobVars
<1>7. ASSUME NEW w \in stray, StrayLands(w)
      PROVE  Typed' /\ CallTyped'
  BY <1>7 DEF StrayLands, jobVars
<1>8. CASE CrashAndRestart
  BY <1>8, JobsAssumption, IdleType DEF CrashAndRestart, Places, Statuses
<1>9. CASE UNCHANGED vars
  BY <1>9 DEF vars, jobVars
<1> QED
  BY <1>1, <1>2, <1>3, <1>4, <1>5, <1>6, <1>7, <1>8, <1>9 DEF Next
-----------------------------------------------------------------------------
(* Rows, records and Job objects follow the tasks.                         *)

\* What holds of one job.  The last conjunct speaks of undisturbed jobs: their rows are
\* open while the task lives, and final when it has ended.
JobOK(j) ==
  /\ pc[j] \in {"new", "submitting"} => row[j] = "none" /\ j \notin registered /\ j \notin disturbed
  /\ pc[j] \in Live => j \in registered /\ row[j] # "none"
  /\ j \in registered => pc[j] \in Live \/ j \in disturbed
  /\ pc[j] \in {"new", "submitting", "created", "waiting"} => mem[j] = "PENDING"
  /\ pc[j] \in Inside => mem[j] = "RUNNING"
  /\ pc[j] \in {"savingFinal", "savingCancelled"} => Terminal(mem[j])
  /\ j \notin disturbed =>
       /\ pc[j] \in Live => ~Terminal(row[j])
       /\ pc[j] \in Finished => pc[j] # "raised" /\ Terminal(mem[j]) /\ row[j] = mem[j]
       /\ pc[j] \in {"abandoned", "lost"} => row[j] = "none" \/ Terminal(row[j])

\* The lock's holder is in the middle of a save; a write without an owner, and the
\* write of a cancel without a task, are about disturbed jobs.
WritesOK ==
  /\ lock \in JobIds => pc[lock] \in Saving
  /\ lock \in Callers => call[lock].op = "writing"
  /\ \A w \in stray : w.job \in disturbed
  /\ \A c \in Callers :
       /\ call[c].op = "examining" => call[c].of \notin registered /\ row[call[c].of] # "none"
       /\ call[c].op = "writing" => call[c].of \in disturbed

Following == WritesOK /\ \A j \in JobIds : JobOK(j)

LEMMA FollowingInit == Init => Following
BY JobsAssumption DEF Init, Following, WritesOK, JobOK, Live, Inside, Finished, Idle

\* Cancelling the tasks of registered jobs keeps what holds of every job.
LEMMA FollowingCancel ==
  ASSUME Typed, Following, NEW S \in SUBSET registered, CancelTasks(S)
  PROVE  /\ \A j \in JobIds : JobOK(j)'
         /\ lock' \in JobIds => pc'[lock'] \in Saving
         /\ lock' \in {lock, NoOne}
         /\ \A w \in stray' : w.job \in disturbed'
<1> USE DEF Following
<1>1. ASSUME NEW j \in JobIds
      PROVE  JobOK(j)'
  <2>1. CASE j \notin S
    BY <2>1 DEF CancelTasks, Caught, Typed, JobOK, Terminal
  <2>2. CASE j \in S
    <3>1. /\ pc'[j] = AfterCancel(pc[j])
          /\ mem'[j] = IF pc[j] \in {"waiting", "savingRunning"} THEN "CANCELLED" ELSE mem[j]
          /\ j \in disturbed' <=> j \in disturbed \/ pc[j] \in Saving
          /\ row'[j] = row[j] /\ (j \in registered' <=> j \in registered)
      BY <2>2 DEF CancelTasks, Caught, Typed
    <3> QED
      BY <2>2, <3>1 DEF JobOK, AfterCancel, Terminal, Live, Inside, Finished, Saving, Typed, Places
  <2> QED
    BY <2>1, <2>2
<1>2. lock' \in JobIds => pc'[lock'] \in Saving
  BY JobsAssumption DEF CancelTasks, Deserts, Typed, WritesOK
<1>3. lock' \in {lock, NoOne}
  BY DEF CancelTasks, Deserts
<1>4. \A w \in stray' : w.job \in disturbed'
  BY DEF CancelTasks, Deserts, Typed, WritesOK
<1> QED
  BY <1>1, <1>2, <1>3, <1>4

LEMMA FollowingStep == Typed /\ CallTyped /\ Following /\ [Next]_vars => Following'
<1> SUFFICES ASSUME Typed, CallTyped, Following, [Next]_vars
             PROVE  Following'
  OBVIOUS
<1> USE DEF Typed, Following
<1>1. ASSUME NEW j \in JobIds, Submit(j)
      PROVE  Following'
  <2>1. \A k \in JobIds : JobOK(k)'
    BY <1>1 DEF Submit, JobOK, Live, Inside, Finished, Terminal
  <2>2. WritesOK'
    BY <1>1 DEF Submit, WritesOK, Saving
  <2> QED
    BY <2>1, <2>2
<1>2. ASSUME NEW j \in JobIds, SubmitAbandoned(j)
      PROVE  Following'
  <2>1. \A k \in JobIds : JobOK(k)'
    BY <1>2 DEF SubmitAbandoned, JobOK, Live, Inside, Finished, Terminal
  <2>2. WritesOK'
    BY <1>2, JobsAssumption DEF SubmitAbandoned, Deserts, WritesOK, Saving
  <2> QED
    BY <2>1, <2>2
<1>3. ASSUME NEW j \in JobIds, JobStep(j)
      PROVE  Following'
  <2>1. CASE Submitted(j)
    <3>1. \A k \in JobIds : JobOK(k)'
      BY <2>1 DEF Submitted, Saves, JobOK, Live, Inside, Finished, Terminal
    <3>2. WritesOK'
      BY <2>1, JobsAssumption DEF Submitted, Saves, WritesOK, Saving, JobOK
    <3> QED
      BY <3>1, <3>2
  <2>2. CASE SubmitRaises(j)
    <3>1. \A k \in JobIds : JobOK(k)'
      BY <2>2 DEF SubmitRaises, SaveRaises, JobOK, Live, Inside, Finished, Terminal
    <3>2. WritesOK'
      BY <2>2, JobsAssumption DEF SubmitRaises, SaveRaises, WritesOK, Saving
    <3> QED
      BY <3>1, <3>2
  <2>3. CASE FetchSemaphore(j)
    <3>1. \A k \in JobIds : JobOK(k)'
      BY <2>3 DEF FetchSemaphore, JobOK, Live, Inside, Finished, Terminal
    <3>2. WritesOK'
      BY <2>3 DEF FetchSemaphore, WritesOK, Saving
    <3> QED
      BY <3>1, <3>2
  <2>4. CASE EnterSemaphore(j)
    <3>1. \A k \in JobIds : JobOK(k)'
      BY <2>4 DEF EnterSemaphore, JobOK, Live, Inside, Finished, Terminal
    <3>2. WritesOK'
      BY <2>4 DEF EnterSemaphore, WritesOK, Saving
    <3> QED
      BY <3>1, <3>2
  <2>5. CASE RunningSaved(j)
    <3>1. \A k \in JobIds : JobOK(k)'
      BY <2>5 DEF RunningSaved, Saves, JobOK, Live, Inside, Finished, Terminal
    <3>2. WritesOK'
      BY <2>5, JobsAssumption DEF RunningSaved, Saves, WritesOK, Saving, CallTyped, CallFits, Statuses
    <3> QED
      BY <3>1, <3>2
  <2>6. CASE RunningRaises(j)
    <3>1. \A k \in JobIds : JobOK(k)'
      BY <2>6 DEF RunningRaises, SaveRaises, JobOK, Live, Inside, Finished, Terminal
    <3>2. WritesOK'
      BY <2>6, JobsAssumption DEF RunningRaises, SaveRaises, WritesOK, Saving
    <3> QED
      BY <3>1, <3>2
  <2>7. ASSUME NEW s \in {"COMPLETED", "TIMEOUT", "FAILED"}, ExecutorReturns(j, s)
        PROVE  Following'
    <3>1. \A k \in JobIds : JobOK(k)'
      BY <2>7 DEF ExecutorReturns, JobOK, Live, Inside, Finished, Terminal
    <3>2. WritesOK'
      BY <2>7 DEF ExecutorReturns, WritesOK, Saving
    <3> QED
      BY <3>1, <3>2
  <2>8. CASE ExecutorStopped(j) \/ ExecutorStopFails(j)
    <3>1. \A k \in JobIds : JobOK(k)'
      BY <2>8 DEF ExecutorStopped, ExecutorStopFails, JobOK, Live, Inside, Finished, Terminal
    <3>2. WritesOK'
      BY <2>8 DEF ExecutorStopped, ExecutorStopFails, WritesOK, Saving
    <3> QED
      BY <3>1, <3>2
  <2>9. CASE FinalSaved(j)
    <3>1. \A k \in JobIds : JobOK(k)'
      BY <2>9 DEF FinalSaved, Saves, JobOK, Live, Inside, Finished, Terminal
    <3>2. WritesOK'
      BY <2>9, JobsAssumption DEF FinalSaved, Saves, WritesOK, Saving, CallTyped, CallFits, Statuses
    <3> QED
      BY <3>1, <3>2
  <2>10. CASE FinalRaises(j)
    <3>1. \A k \in JobIds : JobOK(k)'
      BY <2>10 DEF FinalRaises, SaveRaises, JobOK, Live, Inside, Finished, Terminal
    <3>2. WritesOK'
      BY <2>10, JobsAssumption DEF FinalRaises, SaveRaises, WritesOK, Saving
    <3> QED
      BY <3>1, <3>2
  <2>11. CASE CancelledSaved(j)
    <3>1. \A k \in JobIds : JobOK(k)'
      BY <2>11 DEF CancelledSaved, Saves, SaveRaises, JobOK, Live, Inside, Finished, Terminal
    <3>2. WritesOK'
      BY <2>11, JobsAssumption DEF CancelledSaved, Saves, SaveRaises, WritesOK, Saving, CallTyped, CallFits, Statuses
    <3> QED
      BY <3>1, <3>2
  <2> QED
    BY <1>3, <2>1, <2>2, <2>3, <2>4, <2>5, <2>6, <2>7, <2>8, <2>9, <2>10, <2>11 DEF JobStep
<1>4. ASSUME NEW c \in Callers, Request(c)
      PROVE  Following'
  <2>1. ASSUME NEW j \in JobIds, WaitFor(c, j)
        PROVE  Following'
    BY <2>1 DEF WaitFor, Goes, CallOnly, jobVars, WritesOK, JobOK
  <2>2. ASSUME NEW j \in JobIds, Cancel(c, j)
        PROVE  Following'
    <3>1. CASE Answers(c, j, mem[j]) /\ CallOnly
      BY <2>2, <3>1 DEF Cancel, Answers, CallOnly, jobVars, WritesOK, JobOK
    <3>2. CASE CancelTasks({j}) /\ Goes(c, "awaitingEnd", j)
      <4>1. {j} \in SUBSET registered
        BY <2>2 DEF Cancel
      <4> QED
        BY <2>2, <3>2, <4>1, FollowingCancel, JobsAssumption DEF Cancel, Goes, WritesOK, CancelTasks
    <3> QED
      BY <2>2, <3>1, <3>2 DEF Cancel
  <2>3. ASSUME NEW j \in JobIds, CancelUnattached(c, j)
        PROVE  Following'
    BY <2>3 DEF CancelUnattached, Known, Goes, CallOnly, jobVars, WritesOK, JobOK
  <2>4. ASSUME NEW e \in Experiments, CancelExperiment(c, e)
        PROVE  Following'
    <3> DEFINE S == registered \cap JobsOf(e)
    <3>1. S \in SUBSET registered
      OBVIOUS
    <3>2. CancelTasks(S)
      BY <2>4 DEF CancelExperiment
    <3>3. /\ UNCHANGED <<registered, row>>
          /\ disturbed \subseteq disturbed'
          /\ \A d \in Callers \ {c} : call'[d] = call[d]
          /\ call[c].op = "idle" /\ call'[c].op = "draining"
      BY <2>4, <3>2 DEF CancelExperiment, CancelTasks
    <3>4. WritesOK'
      BY <3>1, <3>2, <3>3, FollowingCancel, JobsAssumption DEF WritesOK
    <3> QED
      BY <3>1, <3>2, <3>4, FollowingCancel
  <2>5. ASSUME NEW e \in Experiments, CancelIdleExperiment(c, e)
        PROVE  Following'
    BY <2>5 DEF CancelIdleExperiment, WritesOK, JobOK
  <2> QED
    BY <1>4, <2>1, <2>2, <2>3, <2>4, <2>5 DEF Request
<1>5. ASSUME NEW c \in Callers, CallStep(c)
      PROVE  Following'
  <2> DEFINE j == call[c].of
  <2>1. CASE ResultArrives(c)
    BY <2>1 DEF ResultArrives, Goes, Answers, CallOnly, jobVars, WritesOK, JobOK
  <2>2. CASE RowRead(c)
    BY <2>2 DEF RowRead, Answers, CallOnly, jobVars, WritesOK, JobOK
  <2>3. CASE RowExamined(c)
    <3>1. j \in JobIds /\ j \notin registered
      BY <2>3 DEF RowExamined, CallTyped, CallFits, WritesOK
    <3>2. row[j] \in {"PENDING", "RUNNING"} => j \in disturbed
      BY <3>1 DEF JobOK, Terminal, Places
    <3> QED
      BY <2>3, <3>1, <3>2 DEF RowExamined, Goes, Answers, CallOnly, jobVars, WritesOK, JobOK
  <2>4. CASE UnattachedSaved(c)
    <3>1. j \in JobIds /\ j \in disturbed
      BY <2>4 DEF UnattachedSaved, CallTyped, CallFits, WritesOK
    <3>2. \A k \in JobIds : JobOK(k)'
      BY <2>4, <3>1 DEF UnattachedSaved, jobVars, JobOK
    <3>3. WritesOK'
      BY <2>4, <3>1, JobsAssumption DEF UnattachedSaved, Answers, jobVars, WritesOK, CallTyped, CallFits
    <3> QED
      BY <3>2, <3>3
  <2>5. CASE CancelReturns(c)
    BY <2>5 DEF CancelReturns, Goes, Answers, CallOnly, jobVars, WritesOK, JobOK
  <2>6. CASE Drained(c)
    BY <2>6 DEF Drained, Discards, Idle, WritesOK, JobOK
  <2> QED
    BY <1>5, <2>1, <2>2, <2>3, <2>4, <2>5, <2>6 DEF CallStep
<1>6. ASSUME NEW w \in JobIds \cup Callers, AcquireLock(w)
      PROVE  Following'
  BY <1>6, JobsAssumption DEF AcquireLock, Writers, jobVars, WritesOK, JobOK
<1>7. ASSUME NEW w \in stray, StrayLands(w)
      PROVE  Following'
  <2>1. w.job \in JobIds /\ w.status \in Statuses /\ w.job \in disturbed
    BY DEF WritesOK
  <2>2. \A k \in JobIds : JobOK(k)'
    BY <1>7, <2>1 DEF StrayLands, jobVars, JobOK, Statuses
  <2>3. WritesOK'
    BY <1>7, <2>1 DEF StrayLands, jobVars, WritesOK, Statuses
  <2> QED
    BY <2>2, <2>3
<1>8. CASE CrashAndRestart
  <2>1. ASSUME NEW k \in JobIds
        PROVE  JobOK(k)'
    <3>1. /\ pc[k] \in Live => pc'[k] = "lost"
          /\ pc[k] = "submitting" => pc'[k] = "abandoned"
          /\ pc[k] \notin Live \cup {"submitting"} => pc'[k] = pc[k]
          /\ row'[k] = IF row[k] \in {"PENDING", "RUNNING"} THEN "FAILED" ELSE row[k]
      BY <1>8 DEF CrashAndRestart, Live, Inside
    <3> QED
      BY <1>8, <3>1 DEF CrashAndRestart, JobOK, Terminal, Live, Inside, Finished, Places, Statuses
  <2>2. WritesOK'
    BY <1>8, JobsAssumption DEF CrashAndRestart, WritesOK, Idle
  <2> QED
    BY <2>1, <2>2
<1>9. CASE UNCHANGED vars
  BY <1>9 DEF vars, jobVars, WritesOK, JobOK
<1> QED
  BY <1>1, <1>2, <1>3, <1>4, <1>5, <1>6, <1>7, <1>8, <1>9 DEF Next
-----------------------------------------------------------------------------
(* Counting permits.                                                       *)

PermitsOK == permits \in [JobIds -> Nat] /\ PermitsConserved

LEMMA HoldersFinite ==
  ASSUME NEW s
  PROVE  IsFiniteSet(HoldersOf(s)) /\ Cardinality(HoldersOf(s)) \in Nat
<1>1. IsFiniteSet(HoldersOf(s))
  BY JobsAssumption, FS_Subset DEF HoldersOf
<1> QED
  BY <1>1, FS_CardinalityType

\* A step that moves no task into or out of a semaphore.
LEMMA PermitsUnmoved ==
  ASSUME PermitsOK, UNCHANGED permits,
         \A j \in JobIds : /\ pc'[j] \in Inside <=> pc[j] \in Inside
                           /\ pc[j] \in Inside => sem'[j] = sem[j]
  PROVE  PermitsOK'
<1>1. ASSUME NEW s \in JobIds
      PROVE  HoldersOf(s)' = HoldersOf(s)
  BY DEF HoldersOf
<1> QED
  BY <1>1 DEF PermitsOK, PermitsConserved

\* A step in which exactly the tasks of S leave their semaphores.
LEMMA PermitsReturned ==
  ASSUME Typed, PermitsOK, NEW S \in SUBSET JobIds,
         permits' = Released(S),
         UNCHANGED sem,
         \A j \in S : pc[j] \in Inside /\ pc'[j] \notin Inside,
         \A j \in JobIds \ S : pc'[j] \in Inside <=> pc[j] \in Inside
  PROVE  PermitsOK'
<1> SUFFICES ASSUME NEW s \in JobIds
             PROVE  permits'[s] \in Nat /\ permits'[s] + Cardinality(HoldersOf(s)') = MaxConcurrentJobs
  BY ReleasedType DEF PermitsOK, PermitsConserved, HoldersOf
<1> DEFINE Leaving == {j \in S : sem[j] = s}
<1>1. HoldersOf(s) \cap S = Leaving
  BY DEF HoldersOf
<1>2. HoldersOf(s)' = HoldersOf(s) \ S
  BY DEF HoldersOf
<1>3. Cardinality(HoldersOf(s)') = Cardinality(HoldersOf(s)) - Cardinality(Leaving)
  BY <1>1, <1>2, HoldersFinite, FS_Difference
<1>4. Cardinality(Leaving) \in Nat
  BY <1>1, HoldersFinite, FS_Subset, FS_CardinalityType
<1>5. permits'[s] = permits[s] + Cardinality(Leaving)
  BY DEF Released
<1> QED
  BY <1>3, <1>4, <1>5, HoldersFinite, JobsAssumption DEF PermitsOK, PermitsConserved

LEMMA PermitsInit == Init => PermitsOK
<1> SUFFICES ASSUME Init
             PROVE  PermitsOK
  OBVIOUS
<1>1. ASSUME NEW s \in JobIds
      PROVE  HoldersOf(s) = {}
  BY DEF Init, HoldersOf, Inside
<1>2. \A s \in JobIds : Cardinality(HoldersOf(s)) = 0
  BY <1>1, FS_EmptySet
<1> QED
  BY <1>2, JobsAssumption DEF Init, PermitsOK, PermitsConserved

LEMMA PermitsEntered ==
  ASSUME Typed, PermitsOK, NEW j \in JobIds, EnterSemaphore(j)
  PROVE  PermitsOK'
<1> SUFFICES ASSUME NEW s \in JobIds
             PROVE  permits'[s] \in Nat /\ permits'[s] + Cardinality(HoldersOf(s)') = MaxConcurrentJobs
  <2>1. permits' = [k \in JobIds |-> permits'[k]]
    BY DEF EnterSemaphore, PermitsOK
  <2> QED
    BY <2>1 DEF PermitsOK, PermitsConserved, HoldersOf
<1>1. CASE sem[j] = s
  <2>1. HoldersOf(s)' = HoldersOf(s) \cup {j} /\ j \notin HoldersOf(s)
    BY <1>1 DEF EnterSemaphore, HoldersOf, Typed, Inside
  <2>2. Cardinality(HoldersOf(s)') = Cardinality(HoldersOf(s)) + 1
    BY <2>1, HoldersFinite, FS_AddElement
  <2>3. permits[s] > 0 /\ permits'[s] = permits[s] - 1
    BY <1>1 DEF EnterSemaphore, PermitsOK
  <2> QED
    BY <2>2, <2>3, HoldersFinite, JobsAssumption DEF PermitsOK, PermitsConserved
<1>2. CASE sem[j] # s
  <2>1. HoldersOf(s)' = HoldersOf(s)
    BY <1>2 DEF EnterSemaphore, HoldersOf, Typed, Inside
  <2>2. permits'[s] = permits[s]
    BY <1>2 DEF EnterSemaphore, PermitsOK
  <2> QED
    BY <2>1, <2>2 DEF PermitsOK, PermitsConserved
<1> QED
  BY <1>1, <1>2

LEMMA PermitsCancelled ==
  ASSUME Typed, PermitsOK, NEW S \in SUBSET JobIds, CancelTasks(S)
  PROVE  PermitsOK'
<1> DEFINE R == {j \in S : pc[j] = "savingRunning"}
<1>1. R \in SUBSET JobIds
  OBVIOUS
<1>2. permits' = Released(R) /\ UNCHANGED sem
  BY DEF CancelTasks
<1>3. \A j \in R : pc[j] \in Inside /\ pc'[j] \notin Inside
  BY DEF CancelTasks, AfterCancel, Typed, Inside
<1>4. \A j \in JobIds \ R : pc'[j] \in Inside <=> pc[j] \in Inside
  BY DEF CancelTasks, AfterCancel, Typed, Inside
<1> QED
  BY <1>1, <1>2, <1>3, <1>4, PermitsReturned

LEMMA PermitsStep == Typed /\ PermitsOK /\ [Next]_vars => PermitsOK'
<1> SUFFICES ASSUME Typed, PermitsOK, [Next]_vars
             PROVE  PermitsOK'
  OBVIOUS
<1>1. ASSUME NEW j \in JobIds, Submit(j) \/ SubmitAbandoned(j)
      PROVE  PermitsOK'
  BY <1>1, PermitsUnmoved DEF Submit, SubmitAbandoned, Typed, Inside
<1>2. ASSUME NEW j \in JobIds, JobStep(j)
      PROVE  PermitsOK'
  <2>1. CASE Submitted(j) \/ SubmitRaises(j) \/ FetchSemaphore(j)
    BY <2>1, PermitsUnmoved DEF Submitted, SubmitRaises, FetchSemaphore, Typed, Inside
  <2>2. CASE EnterSemaphore(j)
    BY <2>2, PermitsEntered
  <2>3. CASE RunningSaved(j) \/ FinalSaved(j) \/ FinalRaises(j) \/ CancelledSaved(j)
    BY <2>3, PermitsUnmoved DEF RunningSaved, FinalSaved, FinalRaises, CancelledSaved, Typed, Inside
  <2>4. ASSUME RunningRaises(j) \/ ExecutorStopped(j) \/ ExecutorStopFails(j)
                 \/ \E s \in {"COMPLETED", "TIMEOUT", "FAILED"} : ExecutorReturns(j, s)
        PROVE  PermitsOK'
    <3>1. /\ {j} \in SUBSET JobIds
          /\ permits' = Released({j}) /\ UNCHANGED sem
          /\ pc[j] \in Inside /\ pc'[j] \notin Inside
          /\ \A k \in JobIds \ {j} : pc'[k] \in Inside <=> pc[k] \in Inside
      BY <2>4 DEF RunningRaises, ExecutorStopped, ExecutorStopFails, ExecutorReturns, Typed, Inside
    <3> QED
      BY <3>1, PermitsReturned
  <2> QED
    BY <1>2, <2>1, <2>2, <2>3, <2>4 DEF JobStep
<1>3. ASSUME NEW c \in Callers, Request(c)
      PROVE  PermitsOK'
  <2>1. ASSUME NEW j \in JobIds, WaitFor(c, j) \/ CancelUnattached(c, j)
        PROVE  PermitsOK'
    BY <2>1, PermitsUnmoved DEF WaitFor, CancelUnattached, CallOnly, jobVars
  <2>2. ASSUME NEW j \in JobIds, Cancel(c, j)
        PROVE  PermitsOK'
    <3>1. CASE CallOnly
      BY <3>1, PermitsUnmoved DEF CallOnly, jobVars
    <3>2. CASE CancelTasks({j})
      BY <3>2, PermitsCancelled, {j} \in SUBSET JobIds
    <3> QED
      BY <2>2, <3>1, <3>2 DEF Cancel
  <2>3. ASSUME NEW e \in Experiments, CancelExperiment(c, e)
        PROVE  PermitsOK'
    <3>1. registered \cap JobsOf(e) \in SUBSET JobIds
      BY DEF Typed
    <3> QED
      BY <2>3, <3>1, PermitsCancelled DEF CancelExperiment
  <2>4. ASSUME NEW e \in Experiments, CancelIdleExperiment(c, e)
        PROVE  PermitsOK'
    BY <2>4, PermitsUnmoved DEF CancelIdleExperiment
  <2> QED
    BY <1>3, <2>1, <2>2, <2>3, <2>4 DEF Request
<1>4. ASSUME NEW c \in Callers, CallStep(c)
      PROVE  PermitsOK'
  BY <1>4, PermitsUnmoved
     DEF CallStep, ResultArrives, RowRead, RowExamined, UnattachedSaved, CancelReturns, Drained,
         CallOnly, jobVars
<1>5. ASSUME NEW w, AcquireLock(w) \/ StrayLands(w)
      PROVE  PermitsOK'
  BY <1>5, PermitsUnmoved DEF AcquireLock, StrayLands, jobVars
<1>6. CASE CrashAndRestart
  <2>1. ASSUME NEW s \in JobIds
        PROVE  HoldersOf(s)' = {}
    <3>1. NoOne \notin JobIds
      BY JobsAssumption
    <3> QED
      BY <1>6, <3>1 DEF CrashAndRestart, HoldersOf
  <2>2. \A s \in JobIds : Cardinality(HoldersOf(s)') = 0
    BY <2>1, FS_EmptySet
  <2> QED
    BY <1>6, <2>2, JobsAssumption DEF CrashAndRestart, PermitsOK, PermitsConserved
<1>7. CASE UNCHANGED vars
  BY <1>7, PermitsUnmoved DEF vars, jobVars
<1> QED
  BY <1>1, <1>2, <1>3, <1>4, <1>5, <1>6, <1>7 DEF Next

-----------------------------------------------------------------------------
(* The theorems.                                                           *)

IInv == Typed /\ CallTyped /\ Following /\ PermitsOK

THEOREM Invariance == Spec => []IInv
<1>1. Init => IInv
  BY TypedInit, FollowingInit, PermitsInit DEF IInv
<1>2. IInv /\ [Next]_vars => IInv'
  BY TypedStep, FollowingStep, PermitsStep DEF IInv
<1> QED
  BY <1>1, <1>2, PTL DEF Spec

\* Every variable keeps its type; in particular no semaphore ever holds more permits
\* than it was made with, nor a negative number.
THEOREM TypeCorrectness == Spec => []TypeOK
<1>1. IInv => TypeOK
  <2> SUFFICES ASSUME IInv
               PROVE  TypeOK
    OBVIOUS
  <2>1. permits \in [JobIds -> 0 .. MaxConcurrentJobs]
    <3>1. ASSUME NEW s \in JobIds
          PROVE  permits[s] \in 0 .. MaxConcurrentJobs
      BY HoldersFinite, JobsAssumption DEF IInv, PermitsOK, PermitsConserved
    <3> QED
      BY <3>1 DEF IInv, Typed
  <2> QED
    BY <2>1 DEF IInv, Typed, TypeOK
<1> QED
  BY <1>1, Invariance, PTL

\* Each way out of `async with semaphore` gives exactly one permit back.
THEOREM PermitConservation == Spec => []PermitsConserved
<1>1. IInv => PermitsConserved
  BY DEF IInv, PermitsOK
<1> QED
  BY <1>1, Invariance, PTL

\* Hence at most MaxConcurrentJobs jobs are inside one semaphore.
THEOREM SemaphoreCap ==
  Spec => [](\A s \in JobIds : Cardinality(HoldersOf(s)) <= MaxConcurrentJobs)
<1>1. IInv => \A s \in JobIds : Cardinality(HoldersOf(s)) <= MaxConcurrentJobs
  BY HoldersFinite, JobsAssumption DEF IInv, PermitsOK, PermitsConserved
<1> QED
  BY <1>1, Invariance, PTL

\* A destroy finds every live task in the registry.
THEOREM LiveTasksAreRegistered == Spec => []LiveTaskRegistered
<1>1. IInv => LiveTaskRegistered
  BY DEF IInv, Following, JobOK, LiveTaskRegistered
<1> QED
  BY <1>1, Invariance, PTL

\* A record outlives its task only for a disturbed job.
THEOREM RecordsAreRemoved == Spec => []RegistryForgets
<1>1. IInv => RegistryForgets
  BY DEF IInv, Typed, Following, JobOK, RegistryForgets
<1> QED
  BY <1>1, Invariance, PTL

\* The row of an undisturbed job that ended is final and says what the Job object said.
THEOREM Durability == Spec => []EndedJobIsDurable
<1>1. IInv => EndedJobIsDurable
  BY DEF IInv, Typed, Following, WritesOK, JobOK, EndedJobIsDurable
<1> QED
  BY <1>1, Invariance, PTL

\* The rows a step may change: the one whose save completes, the one a thread without
\* an owner still had in hand, the one of a cancel without a task.
LEMMA RowStep ==
  ASSUME Typed, CallTyped, Following, [Next]_vars,
         NEW j \in JobIds, j \notin disturbed, Terminal(row[j])
  PROVE  row'[j] = row[j]
<1> USE DEF Typed, Following
<1>1. pc[j] \notin Live /\ pc[j] \notin {"new", "submitting"}
  BY DEF JobOK, Terminal
<1>2. ASSUME NEW k \in JobIds, Submit(k) \/ SubmitAbandoned(k)
      PROVE  row'[j] = row[j]
  BY <1>2 DEF Submit, SubmitAbandoned
<1>3. ASSUME NEW k \in JobIds, JobStep(k)
      PROVE  row'[j] = row[j]
  <2>1. row' = row \/ (row' = [row EXCEPT ![k] = mem[k]] /\ pc[k] \in Live \cup {"submitting"})
    BY <1>3 DEF JobStep, Submitted, SubmitRaises, FetchSemaphore, EnterSemaphore, RunningSaved,
         RunningRaises, ExecutorReturns, ExecutorStopped, ExecutorStopFails, FinalSaved, FinalRaises,
         CancelledSaved, Saves, SaveRaises, Live, Inside
  <2> QED
    BY <1>1, <2>1
<1>4. ASSUME NEW c \in Callers, Request(c)
      PROVE  row'[j] = row[j]
  BY <1>4 DEF Request, WaitFor, Cancel, CancelUnattached, CancelExperiment,
       CancelIdleExperiment, CancelTasks, CallOnly
<1>5. ASSUME NEW c \in Callers, CallStep(c)
      PROVE  row'[j] = row[j]
  <2>1. CASE UnattachedSaved(c)
    <3>1. call[c].of # j
      BY <2>1 DEF UnattachedSaved, WritesOK
    <3> QED
      BY <2>1, <3>1 DEF UnattachedSaved
  <2>2. CASE ~UnattachedSaved(c)
    BY <1>5, <2>2 DEF CallStep, ResultArrives, RowRead, RowExamined, CancelReturns, Drained, CallOnly
  <2> QED
    BY <2>1, <2>2
<1>6. ASSUME NEW w, AcquireLock(w)
      PROVE  row'[j] = row[j]
  BY <1>6 DEF AcquireLock
<1>7. ASSUME NEW w \in stray, StrayLands(w)
      PROVE  row'[j] = row[j]
  <2>1. w.job # j
    BY DEF WritesOK
  <2> QED
    BY <1>7, <2>1 DEF StrayLands
<1>8. CASE CrashAndRestart
  BY <1>8 DEF CrashAndRestart, Terminal
<1>9. CASE UNCHANGED vars
  BY <1>9 DEF vars
<1> QED
  BY <1>2, <1>3, <1>4, <1>5, <1>6, <1>7, <1>8, <1>9 DEF Next

\* A terminal row of an undisturbed job is final, over crashes too.
THEOREM TerminalRows == Spec => TerminalRowIsFinal
<1>1. IInv /\ [Next]_vars =>
        [\A j \in JobIds \ disturbed : Terminal(row[j]) => row'[j] = row[j]]_vars
  BY RowStep DEF IInv
<1> QED
  BY <1>1, Invariance, PTL DEF Spec, TerminalRowIsFinal

LEMMA StatusStep ==
  ASSUME Typed, Following, [Next]_vars, NEW j \in JobIds, Terminal(mem[j])
  PROVE  mem'[j] = mem[j]
<1> USE DEF Typed, Following
<1>1. pc[j] \notin Inside \cup {"waiting"}
  BY DEF JobOK, Terminal
<1>2. ASSUME NEW k \in JobIds, Submit(k) \/ SubmitAbandoned(k)
      PROVE  mem'[j] = mem[j]
  BY <1>2 DEF Submit, SubmitAbandoned
<1>3. ASSUME NEW k \in JobIds, JobStep(k)
      PROVE  mem'[j] = mem[j]
  <2>1. mem' = mem \/ (pc[k] \in Inside \cup {"waiting"} /\ \E s \in Statuses : mem' = [mem EXCEPT ![k] = s])
    BY <1>3 DEF JobStep, Submitted, SubmitRaises, FetchSemaphore, EnterSemaphore, RunningSaved,
         RunningRaises, ExecutorReturns, ExecutorStopped, ExecutorStopFails, FinalSaved, FinalRaises,
         CancelledSaved, Inside, Statuses
  <2> QED
    BY <1>1, <2>1
<1>4. ASSUME NEW S, CancelTasks(S)
      PROVE  mem'[j] = mem[j]
  BY <1>1, <1>4 DEF CancelTasks, Caught, Inside
<1>5. ASSUME NEW c \in Callers, Request(c)
      PROVE  mem'[j] = mem[j]
  BY <1>4, <1>5 DEF Request, WaitFor, Cancel, CancelUnattached, CancelExperiment,
       CancelIdleExperiment, CallOnly, jobVars
<1>6. ASSUME NEW c \in Callers, CallStep(c)
      PROVE  mem'[j] = mem[j]
  BY <1>6 DEF CallStep, ResultArrives, RowRead, RowExamined, UnattachedSaved, CancelReturns,
       Drained, CallOnly, jobVars
<1>7. ASSUME NEW w, AcquireLock(w) \/ StrayLands(w)
      PROVE  mem'[j] = mem[j]
  BY <1>7 DEF AcquireLock, StrayLands, jobVars
<1>8. CASE CrashAndRestart
  BY <1>8 DEF CrashAndRestart
<1>9. CASE UNCHANGED vars
  BY <1>9 DEF vars, jobVars
<1> QED
  BY <1>2, <1>3, <1>5, <1>6, <1>7, <1>8, <1>9 DEF Next

\* A live Job object never leaves a terminal status.
THEOREM TerminalStatuses == Spec => TerminalStatusIsFinal
<1>1. IInv /\ [Next]_vars =>
        [\A j \in JobIds : Terminal(mem[j]) => mem'[j] = mem[j]]_vars
  BY StatusStep DEF IInv
<1> QED
  BY <1>1, Invariance, PTL DEF Spec, TerminalStatusIsFinal

-----------------------------------------------------------------------------
(* Answers.                                                                *)

\* What a caller that asked about an undisturbed job has been told is final, and the
\* row it is about to read is closed.
AnswersOK ==
  \A c \in Callers : call[c].of \in JobIds \ disturbed =>
    /\ call[c].op = "idle" => Terminal(call[c].answer)
    /\ call[c].op \in {"reading", "examining"} => Terminal(row[call[c].of])

LEMMA AnswersInit == Init => AnswersOK
BY JobsAssumption DEF Init, AnswersOK, Idle

\* A row that exists is closed when no record is left of an undisturbed job.
LEMMA UnregisteredIsClosed ==
  ASSUME Typed, Following, NEW j \in JobIds, j \notin disturbed, j \notin registered, row[j] # "none"
  PROVE  Terminal(row[j])
BY DEF Typed, Following, JobOK, Places

\* A finished undisturbed task returned its job, or was cancelled and forgotten.
LEMMA FinishedIsClosed ==
  ASSUME Typed, Following, NEW j \in JobIds, j \notin disturbed, pc[j] \in Finished
  PROVE  Terminal(mem[j]) /\ Terminal(row[j]) /\ j \notin registered
BY DEF Typed, Following, JobOK, Live, Inside, Finished

\* A step in which no call changes.
LEMMA AnswersKept ==
  ASSUME Typed, CallTyped, Following, [Next]_vars, AnswersOK,
         NEW c \in Callers, call'[c] = call[c], disturbed \subseteq disturbed',
         call'[c].of \in JobIds \ disturbed'
  PROVE  /\ call'[c].op = "idle" => Terminal(call'[c].answer)
         /\ call'[c].op \in {"reading", "examining"} => Terminal(row'[call'[c].of])
BY RowStep DEF AnswersOK, Terminal
LEMMA DisturbedGrows == ASSUME [Next]_vars PROVE disturbed \subseteq disturbed'
<1>1. ASSUME NEW S, CancelTasks(S) PROVE disturbed \subseteq disturbed'
  BY <1>1 DEF CancelTasks
<1>2. ASSUME NEW c \in Callers, Request(c) PROVE disturbed \subseteq disturbed'
  BY <1>1, <1>2 DEF Request, WaitFor, Cancel, CancelUnattached, CancelExperiment,
       CancelIdleExperiment, CallOnly
<1>3. ASSUME NEW c \in Callers, CallStep(c) PROVE disturbed \subseteq disturbed'
  BY <1>3 DEF CallStep, ResultArrives, RowRead, RowExamined, UnattachedSaved, CancelReturns,
       Drained, CallOnly
<1>4. ASSUME NEW j \in JobIds, Submit(j) \/ SubmitAbandoned(j) \/ JobStep(j)
      PROVE  disturbed \subseteq disturbed'
  BY <1>4 DEF Submit, SubmitAbandoned, JobStep, Submitted, SubmitRaises, FetchSemaphore,
       EnterSemaphore, RunningSaved, RunningRaises, ExecutorReturns, ExecutorStopped,
       ExecutorStopFails,
       FinalSaved, FinalRaises, CancelledSaved, Saves, SaveRaises
<1> QED
  BY <1>2, <1>3, <1>4 DEF Next, AcquireLock, StrayLands, CrashAndRestart, vars

\* Steps that leave the calls alone.
LEMMA QuietStep ==
  ASSUME [Next]_vars,
         ~ (\E c \in Callers : Request(c) \/ CallStep(c)),
         ~ CrashAndRestart
  PROVE  call' = call
<1>1. ASSUME NEW j \in JobIds, Submit(j) \/ SubmitAbandoned(j) \/ JobStep(j)
      PROVE  call' = call
  BY <1>1 DEF Submit, SubmitAbandoned, JobStep, Submitted, SubmitRaises, FetchSemaphore,
       EnterSemaphore, RunningSaved, RunningRaises, ExecutorReturns, ExecutorStopped,
       ExecutorStopFails,
       FinalSaved, FinalRaises, CancelledSaved, Saves, SaveRaises
<1> QED
  BY <1>1 DEF Next, AcquireLock, StrayLands, vars

LEMMA AnswersStep == IInv /\ AnswersOK /\ [Next]_vars => AnswersOK'
<1> SUFFICES ASSUME Typed, CallTyped, Following, AnswersOK, [Next]_vars,
                    NEW d \in Callers, call'[d].of \in JobIds \ disturbed'
             PROVE  /\ call'[d].op = "idle" => Terminal(call'[d].answer)
                    /\ call'[d].op \in {"reading", "examining"} => Terminal(row'[call'[d].of])
  BY DEF IInv, AnswersOK, Terminal
<1> DEFINE Good == /\ call'[d].op = "idle" => Terminal(call'[d].answer)
                   /\ call'[d].op \in {"reading", "examining"} => Terminal(row'[call'[d].of])
           j == call[d].of
<1>1. CASE call'[d] = call[d]
  BY <1>1, DisturbedGrows, AnswersKept
<1>2. ASSUME Request(d), call'[d] # call[d]
      PROVE  Good
  <2>1. ASSUME NEW k \in JobIds, WaitFor(d, k)
        PROVE  Good
    <3>1. CASE k \in registered
      BY <2>1, <3>1 DEF WaitFor, Goes, Typed
    <3>2. CASE k \notin registered
      <4>1. call'[d] = [op |-> "reading", of |-> k, targets |-> {}, answer |-> "none"]
        BY <2>1, <3>2 DEF WaitFor, Goes, Typed
      <4> QED
        BY <2>1, <3>2, <4>1, UnregisteredIsClosed DEF WaitFor, Known, CallOnly
    <3> QED
      BY <3>1, <3>2
  <2>2. ASSUME NEW k \in JobIds, Cancel(d, k)
        PROVE  Good
    BY <2>2 DEF Cancel, Answers, Goes, Typed, Terminal
  <2>3. ASSUME NEW k \in JobIds, CancelUnattached(d, k)
        PROVE  Good
    <3>1. call'[d] = [op |-> "examining", of |-> k, targets |-> {}, answer |-> "none"]
      BY <2>3 DEF CancelUnattached, Goes, Typed
    <3> QED
      BY <2>3, <3>1, UnregisteredIsClosed DEF CancelUnattached, Known, CallOnly
  <2>4. ASSUME NEW e \in Experiments, CancelExperiment(d, e) \/ CancelIdleExperiment(d, e)
        PROVE  Good
    BY <1>2, <2>4 DEF CancelExperiment, CancelIdleExperiment, Typed
  <2> QED
    BY <1>2, <2>1, <2>2, <2>3, <2>4 DEF Request
<1>3. ASSUME CallStep(d)
      PROVE  Good
  <2>1. CASE ResultArrives(d)
    <3>1. j \in JobIds /\ call'[d].of = j /\ disturbed' = disturbed
      BY <2>1 DEF ResultArrives, CallOnly, Goes, Answers, Typed, CallTyped, CallFits
    <3>2. Terminal(mem[j]) /\ Terminal(row[j])
      BY <2>1, <3>1, FinishedIsClosed DEF ResultArrives
    <3>3. pc[j] # "raised"
      BY <2>1, <3>1 DEF ResultArrives, Following, JobOK, Typed
    <3> QED
      BY <2>1, <3>1, <3>2, <3>3 DEF ResultArrives, CallOnly, Goes, Answers, Typed
  <2>2. CASE RowRead(d)
    BY <2>2 DEF RowRead, CallOnly, Answers, Typed, AnswersOK, CallTyped, CallFits
  <2>3. CASE RowExamined(d)
    <3>1. j \in JobIds /\ call'[d].of = j /\ disturbed' = disturbed
      BY <2>3 DEF RowExamined, CallOnly, Goes, Answers, Typed, CallTyped, CallFits
    <3>2. Terminal(row[j])
      BY <2>3, <3>1 DEF RowExamined, AnswersOK
    <3> QED
      BY <2>3, <3>1, <3>2 DEF RowExamined, CallOnly, Goes, Answers, Typed, Terminal
  <2>4. CASE UnattachedSaved(d)
    BY <2>4 DEF UnattachedSaved, Answers, Typed, Following, WritesOK
  <2>5. CASE CancelReturns(d)
    <3>1. j \in JobIds /\ call'[d].of = j /\ disturbed' = disturbed
      BY <2>5 DEF CancelReturns, CallOnly, Goes, Answers, Typed, CallTyped, CallFits
    <3>2. Terminal(mem[j]) /\ Terminal(row[j])
      BY <2>5, <3>1, FinishedIsClosed DEF CancelReturns
    <3> QED
      BY <2>5, <3>1, <3>2 DEF CancelReturns, CallOnly, Goes, Answers, Typed
  <2>6. CASE Drained(d)
    BY <2>6, JobsAssumption DEF Drained, Idle, Typed
  <2> QED
    BY <1>3, <2>1, <2>2, <2>3, <2>4, <2>5, <2>6 DEF CallStep
<1>4. ASSUME NEW c \in Callers, c # d, Request(c) \/ CallStep(c)
      PROVE  call'[d] = call[d]
  BY <1>4 DEF Request, WaitFor, Cancel, CancelUnattached, CancelExperiment, CancelIdleExperiment,
       CallStep, ResultArrives, RowRead, RowExamined, UnattachedSaved, CancelReturns, Drained,
       Goes, Answers, Typed
<1>5. CASE CrashAndRestart
  BY <1>5, JobsAssumption DEF CrashAndRestart, Idle
<1> QED
  BY <1>1, <1>2, <1>3, <1>4, <1>5, QuietStep

\* What wait_for and cancel answer about an undisturbed job is final.
THEOREM FinalAnswers == Spec => []AnswersAreFinal
<1>1. Init => IInv /\ AnswersOK
  BY TypedInit, FollowingInit, PermitsInit, AnswersInit DEF IInv
<1>2. IInv /\ AnswersOK /\ [Next]_vars => (IInv /\ AnswersOK)'
  BY TypedStep, FollowingStep, PermitsStep, AnswersStep DEF IInv
<1>3. AnswersOK => AnswersAreFinal
  BY DEF AnswersOK, AnswersAreFinal
<1> QED
  BY <1>1, <1>2, <1>3, PTL DEF Spec
=============================================================================
