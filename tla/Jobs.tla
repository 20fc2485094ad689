-------------------------------- MODULE Jobs --------------------------------
(***************************************************************************)
(* The job subsystem: execution/manager.py (ExecutionManager),             *)
(* execution/jobs.py (JobRegistry) and the job rows of                     *)
(* experiments/repository.py.                                              *)
(*                                                                         *)
(* A job lives in three places: the Job object its asyncio task mutates    *)
(* (mem), the row in SQLite (row) and the registry entry that makes the    *)
(* task reachable for cancellation (registered).  asyncio switches tasks   *)
(* only at an await that suspends, so a step below is the code between two *)
(* such awaits.  Every row is written by _run: the writer waits for the    *)
(* repository's asyncio.Lock and then for a worker thread; a task that is  *)
(* cancelled meanwhile gives the lock up, but a thread that has started    *)
(* goes on and its write lands later (stray).                              *)
(***************************************************************************)
EXTENDS Integers, FiniteSets

CONSTANTS
  JobIds,             \* the jobs that may be submitted, each once
  Experiments,
  ExperimentOf,       \* the experiment a job is submitted to
  MaxConcurrentJobs,  \* settings.max_concurrent_jobs_per_experiment
  Callers,            \* the concurrent requests that wait, cancel or destroy
  NoOne,              \* not a job and not a caller
  DatabaseMayFail,    \* whether a write may raise an sqlite3 error
  MaxCrashes          \* bound: crashes of the server in one behaviour

ASSUME JobsAssumption ==
  /\ IsFiniteSet(JobIds)
  /\ ExperimentOf \in [JobIds -> Experiments]
  /\ MaxConcurrentJobs \in Nat \ {0}
  /\ NoOne \notin JobIds \cup Callers
  /\ JobIds \cap Callers = {}
  /\ DatabaseMayFail \in BOOLEAN
  /\ MaxCrashes \in Nat

VARIABLES
  pc,          \* where the task (or the submit call) of each job stands
  mem,         \* status of the live Job object
  row,         \* status in the jobs table, "none" before the row exists
  registered,  \* the jobs in JobRegistry._running
  semaphoreOf, \* JobRegistry._semaphores: per experiment, named after the job that made it
  sem,         \* the semaphore a task fetched in its first step
  permits,     \* asyncio.Semaphore._value, per semaphore
  lock,        \* whose write is in a worker thread under SQLiteRepository._lock
  stray,       \* writes whose caller was cancelled while the thread was at work
  call,        \* what each caller is doing, and the answer it got last
  disturbed,   \* history: jobs cancelled in one of their last saves or in submit, or hit by a database error
  crashes

jobVars  == <<pc, mem, registered, semaphoreOf, sem, permits>>
vars == <<jobVars, row, lock, stray, call, disturbed, crashes>>

-----------------------------------------------------------------------------
(* Statuses and places.                                                    *)

Statuses == {"PENDING", "RUNNING", "COMPLETED", "FAILED", "TIMEOUT", "CANCELLED"}

\* JobStatus.is_terminal
Terminal(s) == s \in {"COMPLETED", "FAILED", "TIMEOUT", "CANCELLED"}

\* A save_job call is awaited at these places.
Saving == {"submitting", "savingRunning", "savingFinal", "savingCancelled"}

\* Inside `async with semaphore`.
Inside == {"savingRunning", "executing", "stopping"}

\* The asyncio task exists and has not finished.
Live == {"created", "waiting", "savingFinal", "savingCancelled"} \cup Inside

\* How a task ends: by returning the job, by CancelledError, by another exception.
Finished == {"returned", "cancelled", "raised"}

\* "abandoned": submit failed or its request was cancelled; "lost": the process died.
Places == {"new", "submitting", "abandoned", "lost"} \cup Live \cup Finished

JobsOf(e) == {j \in JobIds : ExperimentOf[j] = e}

\* What a caller awaits, the job or experiment it is about, the records a destroy
\* awaits, and the status answered.
Calls == [op : {"idle", "awaitingResult", "reading", "awaitingEnd",
                "examining", "writing", "draining"},
          of : JobIds \cup Experiments \cup {NoOne},
          targets : SUBSET JobIds,
          answer : Statuses \cup {"none", "error"}]

Idle == [op |-> "idle", of |-> NoOne, targets |-> {}, answer |-> "none"]

Init ==
  /\ pc = [j \in JobIds |-> "new"]
  /\ mem = [j \in JobIds |-> "PENDING"]
  /\ row = [j \in JobIds |-> "none"]
  /\ registered = {}
  /\ semaphoreOf = [e \in Experiments |-> NoOne]
  /\ sem = [j \in JobIds |-> NoOne]
  /\ permits = [s \in JobIds |-> MaxConcurrentJobs]
  /\ lock = NoOne
  /\ stray = {}
  /\ call = [c \in Callers |-> Idle]
  /\ disturbed = {}
  /\ crashes = 0

-----------------------------------------------------------------------------
(* The repository.                                                         *)

\* Who waits for save_job to return.
Writers == {j \in JobIds : pc[j] \in Saving} \cup {c \in Callers : call[c].op = "writing"}

\* `async with self._lock`, and the write handed to a worker thread.
AcquireLock(w) ==
  /\ lock = NoOne
  /\ w \in Writers
  /\ lock' = w
  /\ UNCHANGED <<jobVars, row, stray, call, disturbed, crashes>>

\* The write of a cancelled caller lands: the thread was not interrupted.
StrayLands(w) ==
  /\ w \in stray
  /\ row' = [row EXCEPT ![w.job] = w.status]
  /\ stray' = stray \ {w}
  /\ UNCHANGED <<jobVars, lock, call, disturbed, crashes>>

\* The row is written, the lock released and the writer resumes.
Saves(j) ==
  /\ lock = j
  /\ row' = [row EXCEPT ![j] = mem[j]]
  /\ lock' = NoOne
  /\ UNCHANGED <<stray, call, disturbed, crashes>>

\* The write raised an sqlite3 error instead.
SaveRaises(j) ==
  /\ DatabaseMayFail
  /\ lock = j
  /\ lock' = NoOne
  /\ disturbed' = disturbed \cup {j}
  /\ UNCHANGED <<row, stray, call, crashes>>

-----------------------------------------------------------------------------
(* submit and _run.                                                        *)

\* submit: a PENDING job, whose row is about to be inserted.
Submit(j) ==
  /\ pc[j] = "new"
  /\ pc' = [pc EXCEPT ![j] = "submitting"]
  /\ UNCHANGED <<mem, registered, semaphoreOf, sem, permits, row, lock, stray, call, disturbed, crashes>>

\* The row is there: create_task and registry.add, with no suspension in between.
Submitted(j) ==
  /\ pc[j] = "submitting"
  /\ Saves(j)
  /\ pc' = [pc EXCEPT ![j] = "created"]
  /\ registered' = registered \cup {j}
  /\ UNCHANGED <<mem, semaphoreOf, sem, permits>>

\* The insert failed: the tool call reports the error and there is no task.
SubmitRaises(j) ==
  /\ pc[j] = "submitting"
  /\ SaveRaises(j)
  /\ pc' = [pc EXCEPT ![j] = "abandoned"]
  /\ UNCHANGED <<mem, registered, semaphoreOf, sem, permits>>

\* A writer that is cancelled: the thread, once started, is not.
Deserts(S) ==
  IF lock \in S
    THEN /\ lock' = NoOne
         /\ stray' \in {stray, stray \cup {[job |-> lock, status |-> mem[lock]]}}
    ELSE UNCHANGED <<lock, stray>>

\* The client cancelled its request while submit awaited the insert.
SubmitAbandoned(j) ==
  /\ pc[j] = "submitting"
  /\ Deserts({j})
  /\ pc' = [pc EXCEPT ![j] = "abandoned"]
  /\ disturbed' = disturbed \cup {j}
  /\ UNCHANGED <<mem, registered, semaphoreOf, sem, permits, row, call, crashes>>

\* First step of _run: registry.semaphore creates the semaphore on demand.
FetchSemaphore(j) ==
  LET e == ExperimentOf[j]
      s == IF semaphoreOf[e] = NoOne THEN j ELSE semaphoreOf[e]
  IN  /\ pc[j] = "created"
      /\ pc' = [pc EXCEPT ![j] = "waiting"]
      /\ semaphoreOf' = [semaphoreOf EXCEPT ![e] = s]
      /\ sem' = [sem EXCEPT ![j] = s]
      /\ UNCHANGED <<mem, registered, permits, row, lock, stray, call, disturbed, crashes>>

\* Faulty variant: the limit is not consulted.
EnterSemaphoreUnchecked(j) ==
  /\ pc[j] = "waiting"
  /\ permits' = [permits EXCEPT ![sem[j]] = @ - 1]
  /\ mem' = [mem EXCEPT ![j] = "RUNNING"]
  /\ pc' = [pc EXCEPT ![j] = "savingRunning"]
  /\ UNCHANGED <<registered, semaphoreOf, sem, row, lock, stray, call, disturbed, crashes>>

\* `async with semaphore` lets the task in; the job is RUNNING and its row must say so.
EnterSemaphore(j) ==
  /\ pc[j] = "waiting"
  /\ permits[sem[j]] > 0
  /\ permits' = [permits EXCEPT ![sem[j]] = @ - 1]
  /\ mem' = [mem EXCEPT ![j] = "RUNNING"]
  /\ pc' = [pc EXCEPT ![j] = "savingRunning"]
  /\ UNCHANGED <<registered, semaphoreOf, sem, row, lock, stray, call, disturbed, crashes>>

\* The row says RUNNING: the command goes to the executor.
RunningSaved(j) ==
  /\ pc[j] = "savingRunning"
  /\ Saves(j)
  /\ pc' = [pc EXCEPT ![j] = "executing"]
  /\ UNCHANGED <<mem, registered, semaphoreOf, sem, permits>>

\* What the semaphores hold once the jobs of S left them.
Released(S) == [s \in JobIds |-> permits[s] + Cardinality({j \in S : sem[j] = s})]

\* A database error at that point is caught by `except Exception`.
RunningRaises(j) ==
  /\ pc[j] = "savingRunning"
  /\ SaveRaises(j)
  /\ permits' = Released({j})
  /\ mem' = [mem EXCEPT ![j] = "FAILED"]
  /\ pc' = [pc EXCEPT ![j] = "savingFinal"]
  /\ UNCHANGED <<registered, semaphoreOf, sem>>

\* Faulty variant: the record is dropped before the last save.
ExecutorReturnsForgotten(j, status) ==
  /\ pc[j] = "executing"
  /\ permits' = Released({j})
  /\ mem' = [mem EXCEPT ![j] = status]
  /\ pc' = [pc EXCEPT ![j] = "savingFinal"]
  /\ registered' = registered \ {j}
  /\ UNCHANGED <<semaphoreOf, sem, row, lock, stray, call, disturbed, crashes>>

\* executor.run returned (COMPLETED, whatever the exit code, or TIMEOUT) or raised
\* (FAILED); the semaphore is left before the last save.
ExecutorReturns(j, status) ==
  /\ pc[j] = "executing"
  /\ permits' = Released({j})
  /\ mem' = [mem EXCEPT ![j] = status]
  /\ pc' = [pc EXCEPT ![j] = "savingFinal"]
  /\ UNCHANGED <<registered, semaphoreOf, sem, row, lock, stray, call, disturbed, crashes>>

\* Faulty variant: an interrupted command keeps its permit.
ExecutorStoppedKeeping(j) ==
  /\ pc[j] = "stopping"
  /\ mem' = [mem EXCEPT ![j] = "CANCELLED"]
  /\ pc' = [pc EXCEPT ![j] = "savingCancelled"]
  /\ UNCHANGED <<permits, registered, semaphoreOf, sem, row, lock, stray, call, disturbed, crashes>>

\* The executor of a cancelled job has killed the command and re-raised CancelledError.
ExecutorStopped(j) ==
  /\ pc[j] = "stopping"
  /\ permits' = Released({j})
  /\ mem' = [mem EXCEPT ![j] = "CANCELLED"]
  /\ pc' = [pc EXCEPT ![j] = "savingCancelled"]
  /\ UNCHANGED <<registered, semaphoreOf, sem, row, lock, stray, call, disturbed, crashes>>

\* Stopping the command failed: an exception that is no DockerException leaves the
\* executor in the place of the CancelledError, and `except Exception` makes the job FAILED.
ExecutorStopFails(j) ==
  /\ pc[j] = "stopping"
  /\ permits' = Released({j})
  /\ mem' = [mem EXCEPT ![j] = "FAILED"]
  /\ pc' = [pc EXCEPT ![j] = "savingFinal"]
  /\ UNCHANGED <<registered, semaphoreOf, sem, row, lock, stray, call, disturbed, crashes>>

\* The last save, then registry.remove.
FinalSaved(j) ==
  /\ pc[j] = "savingFinal"
  /\ Saves(j)
  /\ pc' = [pc EXCEPT ![j] = "returned"]
  /\ registered' = registered \ {j}
  /\ UNCHANGED <<mem, semaphoreOf, sem, permits>>

\* The last save is outside the try block: its error ends the task before registry.remove.
FinalRaises(j) ==
  /\ pc[j] = "savingFinal"
  /\ SaveRaises(j)
  /\ pc' = [pc EXCEPT ![j] = "raised"]
  /\ UNCHANGED <<mem, registered, semaphoreOf, sem, permits>>

\* Faulty variant: the handler re-raises without registry.remove.
CancelledSavedKept(j) ==
  /\ pc[j] = "savingCancelled"
  /\ Saves(j) \/ SaveRaises(j)
  /\ pc' = [pc EXCEPT ![j] = "cancelled"]
  /\ UNCHANGED <<mem, registered, semaphoreOf, sem, permits>>

\* Faulty variant: the handler does not save the job.
CancelledUnsaved(j) ==
  /\ pc[j] = "savingCancelled"
  /\ pc' = [pc EXCEPT ![j] = "cancelled"]
  /\ registered' = registered \ {j}
  /\ UNCHANGED <<mem, semaphoreOf, sem, permits, row, lock, stray, call, disturbed, crashes>>

\* The save of the CancelledError handler; an exception of it is suppressed.
CancelledSaved(j) ==
  /\ pc[j] = "savingCancelled"
  /\ Saves(j) \/ SaveRaises(j)
  /\ pc' = [pc EXCEPT ![j] = "cancelled"]
  /\ registered' = registered \ {j}
  /\ UNCHANGED <<mem, semaphoreOf, sem, permits>>

-----------------------------------------------------------------------------
(* task.cancel().                                                          *)

\* Where CancelledError takes a task: the semaphore and the RUNNING save are inside the
\* try block, the last saves are not, and the executor stops the command first.
AfterCancel(p) ==
  CASE p \in {"waiting", "savingRunning"}        -> "savingCancelled"
    [] p = "executing"                           -> "stopping"
    [] p \in {"savingFinal", "savingCancelled"}  -> "cancelled"
    [] OTHER                                     -> p

\* Faulty variant: the last save is inside the try block, too.
CaughtLate(S) == {j \in S : pc[j] \in {"waiting", "savingRunning", "savingFinal"}}

\* The try block catches CancelledError for these tasks.
Caught(S) == {j \in S : pc[j] \in {"waiting", "savingRunning"}}

\* record.task.cancel() for every job of S, the CancelledError delivered.
CancelTasks(S) ==
  /\ pc' = [j \in JobIds |-> IF j \in S THEN AfterCancel(pc[j]) ELSE pc[j]]
  /\ mem' = [j \in JobIds |-> IF j \in Caught(S) THEN "CANCELLED" ELSE mem[j]]
  /\ permits' = Released({j \in S : pc[j] = "savingRunning"})
  /\ disturbed' = disturbed \cup {j \in S : pc[j] \in Saving}
  /\ Deserts(S)
  /\ UNCHANGED <<registered, sem, row, crashes>>

-----------------------------------------------------------------------------
(* Calls on the manager: wait_for, cancel, cancel_experiment_jobs.         *)

\* A client has a job's id from the answer of submit or from the log resource, that
\* is, once the row exists.  An id without a row is refused with JobNotFoundError and
\* changes nothing.
Known(j) == row[j] # "none"

Goes(c, op, j) == call' = [call EXCEPT ![c] = [op |-> op, of |-> j, targets |-> {}, answer |-> "none"]]

Answers(c, j, a) == call' = [call EXCEPT ![c] = [op |-> "idle", of |-> j, targets |-> {}, answer |-> a]]

CallOnly == UNCHANGED <<jobVars, row, lock, stray, disturbed, crashes>>

\* wait_for: await the task, or read the row when no task is attached.
WaitFor(c, j) ==
  /\ call[c].op = "idle"
  /\ Known(j)
  /\ Goes(c, IF j \in registered THEN "awaitingResult" ELSE "reading", j)
  /\ CallOnly

\* The awaited task ended: its job, its exception, or (cancelled) a second look.
ResultArrives(c) ==
  LET j == call[c].of IN
  /\ call[c].op = "awaitingResult"
  /\ pc[j] \in Finished
  /\ \/ pc[j] = "returned" /\ Answers(c, j, mem[j])
     \/ pc[j] = "raised" /\ Answers(c, j, "error")
     \/ pc[j] = "cancelled" /\ j \in registered /\ Answers(c, j, mem[j])
     \/ pc[j] = "cancelled" /\ j \notin registered /\ Goes(c, "reading", j)
  /\ CallOnly

\* get_job for a job without a record: the row answers.
RowRead(c) ==
  LET j == call[c].of IN
  /\ call[c].op = "reading"
  /\ lock = NoOne
  /\ Answers(c, j, row[j])
  /\ CallOnly

\* cancel: a terminal job is answered as it is, a live one has its task cancelled.  The
\* task has had its first turn by the time a client can send the id back.
Cancel(c, j) ==
  /\ call[c].op = "idle"
  /\ Known(j)
  /\ j \in registered
  /\ pc[j] # "created"
  /\ \/ /\ Terminal(mem[j])
        /\ Answers(c, j, mem[j])
        /\ CallOnly
     \/ /\ ~Terminal(mem[j])
        /\ CancelTasks({j})
        /\ UNCHANGED semaphoreOf
        /\ Goes(c, "awaitingEnd", j)

\* cancel: no record; get_job must read the row.
CancelUnattached(c, j) ==
  /\ call[c].op = "idle"
  /\ Known(j)
  /\ j \notin registered
  /\ Goes(c, "examining", j)
  /\ CallOnly

\* Faulty variant: is_terminal is not asked.
RowExaminedUnasked(c) ==
  /\ call[c].op = "examining"
  /\ lock = NoOne
  /\ Goes(c, "writing", call[c].of)
  /\ CallOnly

\* The row of an unattached job is there: terminal is final, else it becomes CANCELLED.
RowExamined(c) ==
  LET j == call[c].of IN
  /\ call[c].op = "examining"
  /\ lock = NoOne
  /\ \/ Terminal(row[j]) /\ Answers(c, j, row[j])
     \/ row[j] \in {"PENDING", "RUNNING"} /\ Goes(c, "writing", j)
  /\ CallOnly

\* "Cancelled; no live task was attached."
UnattachedSaved(c) ==
  LET j == call[c].of IN
  /\ call[c].op = "writing"
  /\ lock = c
  /\ lock' = NoOne
  /\ \/ row' = [row EXCEPT ![j] = "CANCELLED"] /\ Answers(c, j, "CANCELLED")
     \/ DatabaseMayFail /\ UNCHANGED row /\ Answers(c, j, "error")
  /\ UNCHANGED <<jobVars, stray, disturbed, crashes>>

\* Faulty variant: the cancelled task is not awaited.
CancelReturnsAtOnce(c) ==
  LET j == call[c].of IN
  /\ call[c].op = "awaitingEnd"
  /\ IF j \in registered THEN Answers(c, j, mem[j]) ELSE Goes(c, "reading", j)
  /\ CallOnly

\* cancel: the task ended, in whatever way; get_job answers.
CancelReturns(c) ==
  LET j == call[c].of IN
  /\ call[c].op = "awaitingEnd"
  /\ pc[j] \in Finished
  /\ IF j \in registered THEN Answers(c, j, mem[j]) ELSE Goes(c, "reading", j)
  /\ CallOnly

\* discard_experiment drops the semaphore, whoever still uses it.
Discards(e) == semaphoreOf' = [semaphoreOf EXCEPT ![e] = NoOne]

\* cancel_experiment_jobs: every record, terminal or not, has its task cancelled.  No
\* task is cancelled before its first step: destroy comes here in the step that resumes
\* it from get_experiment, which waits for the lock and for a thread, submit made the
\* task in the step that gave the lock up, and the event loop is first in, first out.
CancelExperiment(c, e) ==
  LET S == registered \cap JobsOf(e) IN
  /\ call[c].op = "idle"
  /\ \E j \in S : pc[j] \in Live
  /\ \A j \in S : pc[j] # "created"
  /\ CancelTasks(S)
  /\ UNCHANGED semaphoreOf
  /\ call' = [call EXCEPT ![c] = [op |-> "draining", of |-> e, targets |-> S, answer |-> "none"]]

\* cancel_experiment_jobs with nothing to await runs through without a suspension.
CancelIdleExperiment(c, e) ==
  /\ call[c].op = "idle"
  /\ \A j \in registered \cap JobsOf(e) : pc[j] \notin Live
  /\ Discards(e)
  /\ UNCHANGED <<pc, mem, registered, sem, permits, row, lock, stray, call, disturbed, crashes>>

\* Faulty variant: waits until the registry is empty of the jobs.
DrainedWhenForgotten(c) ==
  /\ call[c].op = "draining"
  /\ call[c].targets \cap registered = {}
  /\ Discards(call[c].of)
  /\ call' = [call EXCEPT ![c] = Idle]
  /\ UNCHANGED <<pc, mem, registered, sem, permits, row, lock, stray, disturbed, crashes>>

\* All the awaited tasks ended.
Drained(c) ==
  /\ call[c].op = "draining"
  /\ \A j \in call[c].targets : pc[j] \in Finished
  /\ Discards(call[c].of)
  /\ call' = [call EXCEPT ![c] = Idle]
  /\ UNCHANGED <<pc, mem, registered, sem, permits, row, lock, stray, disturbed, crashes>>

-----------------------------------------------------------------------------
(* A crash, and the startup that follows it.                               *)

\* Tasks, locks, threads and requests die with the process; startup then calls
\* mark_orphaned_jobs_failed before it serves anybody.
CrashAndRestart ==
  /\ crashes < MaxCrashes
  /\ crashes' = crashes + 1
  /\ pc' = [j \in JobIds |-> CASE pc[j] \in Live -> "lost"
                               [] pc[j] = "submitting" -> "abandoned"
                               [] OTHER -> pc[j]]
  /\ row' = [j \in JobIds |-> IF row[j] \in {"PENDING", "RUNNING"} THEN "FAILED" ELSE row[j]]
  /\ registered' = {}
  /\ semaphoreOf' = [e \in Experiments |-> NoOne]
  /\ sem' = [j \in JobIds |-> NoOne]
  /\ permits' = [s \in JobIds |-> MaxConcurrentJobs]
  /\ lock' = NoOne
  /\ stray' = {}
  /\ call' = [c \in Callers |-> Idle]
  /\ UNCHANGED <<mem, disturbed>>

-----------------------------------------------------------------------------
JobStep(j) ==
  \/ Submitted(j) \/ SubmitRaises(j)
  \/ FetchSemaphore(j) \/ EnterSemaphore(j)
  \/ RunningSaved(j) \/ RunningRaises(j)
  \/ \E s \in {"COMPLETED", "TIMEOUT", "FAILED"} : ExecutorReturns(j, s)
  \/ ExecutorStopped(j) \/ ExecutorStopFails(j)
  \/ FinalSaved(j) \/ FinalRaises(j) \/ CancelledSaved(j)

CallStep(c) ==
  \/ ResultArrives(c) \/ RowRead(c) \/ RowExamined(c)
  \/ UnattachedSaved(c) \/ CancelReturns(c) \/ Drained(c)

Request(c) ==
  \/ \E j \in JobIds : WaitFor(c, j) \/ Cancel(c, j) \/ CancelUnattached(c, j)
  \/ \E e \in Experiments : CancelExperiment(c, e) \/ CancelIdleExperiment(c, e)

Next ==
  \/ \E j \in JobIds : Submit(j) \/ SubmitAbandoned(j) \/ JobStep(j)
  \/ \E c \in Callers : Request(c) \/ CallStep(c)
  \/ \E w \in JobIds \cup Callers : AcquireLock(w)
  \/ \E w \in stray : StrayLands(w)
  \/ CrashAndRestart

Spec == Init /\ [][Next]_vars

\* The event loop runs every ready task, asyncio.Lock serves its waiters in the order
\* they came, a thread finishes its write, and the executor gives a command up after
\* the job's timeout.
Fairness ==
  /\ \A j \in JobIds : WF_vars(JobStep(j))
  /\ \A c \in Callers : WF_vars(CallStep(c))
  /\ \A w \in JobIds \cup Callers : SF_vars(AcquireLock(w))

FairSpec == Spec /\ Fairness

-----------------------------------------------------------------------------
(* Properties.                                                             *)

TypeOK ==
  /\ pc \in [JobIds -> Places]
  /\ mem \in [JobIds -> Statuses]
  /\ row \in [JobIds -> Statuses \cup {"none"}]
  /\ registered \subseteq JobIds
  /\ semaphoreOf \in [Experiments -> JobIds \cup {NoOne}]
  /\ sem \in [JobIds -> JobIds \cup {NoOne}]
  /\ permits \in [JobIds -> 0 .. MaxConcurrentJobs]
  /\ lock \in JobIds \cup Callers \cup {NoOne}
  /\ stray \subseteq [job : JobIds, status : Statuses]
  /\ call \in [Callers -> Calls]
  /\ disturbed \subseteq JobIds
  /\ crashes \in 0 .. MaxCrashes

\* The jobs inside the semaphore s.
HoldersOf(s) == {j \in JobIds : sem[j] = s /\ pc[j] \in Inside}

\* A semaphore's counter and the jobs inside it always add up to the limit: every way
\* out of `async with semaphore` (a result, an error, a database failure, a
\* cancellation at any await) gives exactly one permit back.
PermitsConserved == \A s \in JobIds : permits[s] + Cardinality(HoldersOf(s)) = MaxConcurrentJobs

\* No task escapes a destroy: as long as a job's task is alive, cancel_experiment_jobs
\* finds it in the registry, its row exists, and nobody else answers for it.
LiveTaskRegistered == \A j \in JobIds : pc[j] \in Live => j \in registered /\ row[j] # "none"

\* The registry forgets: a record outlives its task only for a job that was cancelled
\* in one of its last saves, or that a database error hit.
RegistryForgets ==
  \A j \in registered : pc[j] \in Live \/ j \in disturbed

\* When an undisturbed task has ended, the durable row says what the Job object said
\* last, and that is terminal; nothing under way will overwrite it.
EndedJobIsDurable ==
  \A j \in JobIds \ disturbed :
    pc[j] \in Finished => /\ Terminal(mem[j])
                          /\ row[j] = mem[j]
                          /\ \A w \in stray : w.job # j

\* What wait_for and cancel answer about an undisturbed job is final.
AnswersAreFinal ==
  \A c \in Callers :
    call[c].op = "idle" /\ call[c].of \in JobIds \ disturbed => Terminal(call[c].answer)

\* A terminal row of an undisturbed job never changes again, not even over a crash.
TerminalRowIsFinal ==
  [][\A j \in JobIds \ disturbed : Terminal(row[j]) => row'[j] = row[j]]_vars

\* A live Job object that reached a terminal status keeps it: a cancellation that comes
\* after the outcome does not turn COMPLETED into CANCELLED.
TerminalStatusIsFinal ==
  [][\A j \in JobIds : Terminal(mem[j]) => mem'[j] = mem[j]]_vars

\* Every job that got a task ends.
EveryTaskEnds == \A j \in JobIds : pc[j] = "created" ~> pc[j] \notin Live

\* wait_for, cancel and cancel_experiment_jobs return.
EveryCallReturns == \A c \in Callers : call[c].op # "idle" ~> call[c].op = "idle"

-----------------------------------------------------------------------------
(* What the code's documentation says and the code does not do.            *)

\* "All SQLite access is serialised through here": one thread at a time.
AccessSerialised == Cardinality(stray) + (IF lock = NoOne THEN 0 ELSE 1) <= 1

\* "caps concurrency per experiment".
ExperimentCap ==
  \A e \in Experiments :
    Cardinality({j \in JobsOf(e) : pc[j] \in Inside}) <= MaxConcurrentJobs
=============================================================================
