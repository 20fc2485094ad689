----------------------------- MODULE Experiments -----------------------------
(***************************************************************************)
(* The experiment manager (experiments/manager.py): tool calls that run    *)
(* concurrently on one event loop, each with a private copy of the         *)
(* experiment it read from the repository, the rows they write back whole, *)
(* the containers and the snapshot directories behind the rows, and the    *)
(* sweep at startup.                                                       *)
(*                                                                         *)
(* A step is the code between two awaits that suspend, together with the   *)
(* effect of the call awaited before it.  Every save_experiment is a place *)
(* of its own: the copy is changed first, the row is written later.  A job *)
(* is seen only from outside: it is live, it may be cancelled, it ends;    *)
(* module Jobs has its inside.                                             *)
(***************************************************************************)
EXTENDS Integers, FiniteSets, ExperimentState

CONSTANTS
  Experiments,     \* the ids new experiments may get
  Calls,           \* the tool calls of one behaviour: create, execute, run_tests, destroy
  MaxExperiments,  \* settings.max_concurrent_experiments
  OneAtATime,      \* whether the client awaits each answer before its next call
  DockerMayFail,   \* whether Docker may refuse to remove a container
  ClientMayCancel, \* whether a client may cancel a call it has made
  DatabaseMayFail, \* whether an access to the database may raise an sqlite3 error
  MaxCrashes       \* bound: crashes of the server in one behaviour

ASSUME ExperimentsAssumption ==
  /\ IsFiniteSet(Experiments)
  /\ None \notin Experiments
  /\ MaxExperiments \in Nat \ {0}
  /\ OneAtATime \in BOOLEAN /\ DockerMayFail \in BOOLEAN /\ ClientMayCancel \in BOOLEAN
  /\ DatabaseMayFail \in BOOLEAN
  /\ MaxCrashes \in Nat

VARIABLES
  at,         \* where each call stands
  req,        \* what it is, and about which experiment
  copy,       \* its own Experiment object
  copied,     \* the creates that hold a snapshot_dir
  targets,    \* the jobs a destroy has cancelled and awaits
  row,        \* the experiments table
  job,        \* the job a call submitted
  containers, \* the experiments whose container exists in Docker
  stuck,      \* history: the experiments whose container Docker once failed to remove
  snapshots,  \* the experiments whose directory exists under sandboxes_dir
  crashes

local  == <<req, copy, copied, targets>>
docker == <<containers, stuck>>
vars   == <<at, local, row, job, docker, snapshots, crashes>>

-----------------------------------------------------------------------------
\* The columns that matter: status, container_id (set or not), snapshot_dir (set or not).
Rows == [status : ExperimentStatuses \cup {None}, container : BOOLEAN, snapshot : BOOLEAN]

NoRow == [status |-> None, container |-> FALSE, snapshot |-> FALSE]

NewRow == [status |-> "CREATING", container |-> FALSE, snapshot |-> FALSE]

\* How a job ends, as its waiter sees it.  "failed" is a non-zero exit or an error.
Outcomes == {"succeeded", "failed", "TIMEOUT", "CANCELLED"}

JobStates == {"none", "submitting", "live", "cancelling"} \cup Outcomes

Ops == {"create", "execute", "background", "run_tests", "destroy"}

\* A call awaits save_experiment, with its copy as the new row.
Saving == {"inserting", "attaching", "readying", "noting", "failing", "marking",
           "settling", "closing"}

\* Where a call awaits anything.
Awaiting == Saving \cup {"checking", "provisioning", "dismantling", "getting", "detecting",
                         "submitting", "waiting", "looking", "draining", "removing"}

\* "refused": an error was answered; "raised": a database error was, with nothing cleared up;
\* "landing": abandoned, its write still in a thread.
Places == Awaiting \cup {"unused", "answered", "refused", "raised", "abandoned", "landing", "lost"}

\* Where a database error meets no handler: outside the try block of create, and in its
\* handler.  That of a job's last save reaches the call that awaits the job.
Unguarded == {"checking", "inserting", "noting", "failing", "getting", "marking", "submitting",
              "waiting", "settling", "looking", "closing"}

Init ==
  /\ at = [c \in Calls |-> "unused"]
  /\ req = [c \in Calls |-> [op |-> "none", of |-> None]]
  /\ copy = [c \in Calls |-> NoRow]
  /\ copied = {}
  /\ targets = [c \in Calls |-> {}]
  /\ row = [e \in Experiments |-> NoRow]
  /\ job = [c \in Calls |-> "none"]
  /\ containers = {}
  /\ stuck = {}
  /\ snapshots = {}
  /\ crashes = 0

InFlight(c) == at[c] \in Awaiting

Live == {e \in Experiments : row[e].status \in LiveStates}

Goes(c, place) == at' = [at EXCEPT ![c] = place]

\* A call may begin.
Starts(c, op, e, place) ==
  /\ at[c] = "unused"
  /\ OneAtATime => \A d \in Calls : ~InFlight(d) /\ at[d] # "landing"
  /\ Goes(c, place)
  /\ req' = [req EXCEPT ![c] = [op |-> op, of |-> e]]
  /\ UNCHANGED <<copy, copied, targets, row, job, docker, snapshots, crashes>>

WithStatus(r, status) == [status |-> status, container |-> r.container, snapshot |-> r.snapshot]

\* Faulty variant: any move passes.
BecomesUnchecked(c, r, target, place) ==
  /\ copy' = [copy EXCEPT ![c] = WithStatus(r, target)]
  /\ Goes(c, place)

\* _transition up to the save: the move is checked against the caller's own copy.
Becomes(c, r, target, place) ==
  /\ CanMove(r.status, target)
  /\ copy' = [copy EXCEPT ![c] = WithStatus(r, target)]
  /\ Goes(c, place)

\* save_experiment: the whole copy replaces the row, whatever that holds by now.
Writes(c) == row' = [row EXCEPT ![req[c].of] = copy[c]]

\* The containers after Docker was told to remove those of S.
Removes(S) ==
  \E left \in SUBSET (S \cap containers) :
    /\ left # {} => DockerMayFail
    /\ containers' = (containers \ S) \cup left
    /\ stuck' = stuck \cup left

-----------------------------------------------------------------------------
(* create.                                                                 *)

\* Bound: as many creates as there are ids to draw.
StartCreate(c) ==
  /\ Cardinality({d \in Calls : req[d].op = "create"}) < Cardinality(Experiments)
  /\ Starts(c, "create", None, "checking")

\* The ids not drawn yet.
Unused == {e \in Experiments : row[e] = NoRow /\ \A c \in Calls : req[c].of # e}

\* Faulty variant: one more is let in.
CapacityCheckedLate(c) ==
  /\ at[c] = "checking"
  /\ \/ /\ Cardinality(Live) > MaxExperiments
        /\ Goes(c, "refused")
        /\ UNCHANGED <<req, copy>>
     \/ /\ Cardinality(Live) <= MaxExperiments
        /\ \E e \in Unused : req' = [req EXCEPT ![c] = [op |-> "create", of |-> e]]
        /\ copy' = [copy EXCEPT ![c] = NewRow]
        /\ Goes(c, "inserting")
  /\ UNCHANGED <<copied, targets, row, job, docker, snapshots, crashes>>

\* Faulty variant: the row is saved before the experiment has an id.
CapacityCheckedNameless(c) ==
  /\ at[c] = "checking"
  /\ Cardinality(Live) < MaxExperiments
  /\ copy' = [copy EXCEPT ![c] = NewRow]
  /\ Goes(c, "inserting")
  /\ UNCHANGED <<req, copied, targets, row, job, docker, snapshots, crashes>>

\* _enforce_capacity counted the live rows; a fresh id is drawn.
CapacityChecked(c) ==
  /\ at[c] = "checking"
  /\ \/ /\ Cardinality(Live) >= MaxExperiments
        /\ Goes(c, "refused")
        /\ UNCHANGED <<req, copy>>
     \/ /\ Cardinality(Live) < MaxExperiments
        /\ \E e \in Unused : req' = [req EXCEPT ![c] = [op |-> "create", of |-> e]]
        /\ copy' = [copy EXCEPT ![c] = NewRow]
        /\ Goes(c, "inserting")
  /\ UNCHANGED <<copied, targets, row, job, docker, snapshots, crashes>>

\* _prepare_snapshot: nothing to copy, a complete copy, or one given up half-way, whose
\* directory create never learns of.
PreparesSnapshot(c) ==
  \/ Goes(c, "provisioning") /\ UNCHANGED <<copied, snapshots>>
  \/ /\ Goes(c, "provisioning")
     /\ copied' = copied \cup {c}
     /\ snapshots' = snapshots \cup {req[c].of}
  \/ /\ Goes(c, "noting")
     /\ UNCHANGED copied
     /\ snapshots' \in {snapshots, snapshots \cup {req[c].of}}

\* The CREATING row is in; the snapshot is made without a suspension.
Inserted(c) ==
  /\ at[c] = "inserting"
  /\ Writes(c)
  /\ PreparesSnapshot(c)
  /\ UNCHANGED <<req, copy, targets, job, docker, crashes>>

\* backend.create: a container, or an error, after which the container is removed
\* unless Docker refuses.
Provisioned(c) ==
  LET e == req[c].of IN
  /\ at[c] = "provisioning"
  /\ \/ /\ containers' = containers \cup {e}
        /\ copy' = [copy EXCEPT ![c] = [status |-> "CREATING", container |-> TRUE, snapshot |-> c \in copied]]
        /\ Goes(c, "attaching")
        /\ UNCHANGED stuck
     \/ /\ \/ UNCHANGED docker
           \/ DockerMayFail /\ containers' = containers \cup {e} /\ stuck' = stuck \cup {e}
        /\ Goes(c, "noting")
        /\ UNCHANGED copy
  /\ UNCHANGED <<req, copied, targets, row, job, snapshots, crashes>>

\* The row learns of the container; the baseline is captured.
Attached(c) ==
  /\ at[c] = "attaching"
  /\ Writes(c)
  /\ Becomes(c, copy[c], "READY", "readying")
  /\ UNCHANGED <<req, copied, targets, job, docker, snapshots, crashes>>

\* The READY row is in: done, or on to the setup commands.
Readied(c) ==
  /\ at[c] = "readying"
  /\ Writes(c)
  /\ \/ Goes(c, "answered") /\ UNCHANGED copy
     \/ Becomes(c, copy[c], "RUNNING", "marking")
  /\ UNCHANGED <<req, copied, targets, job, docker, snapshots, crashes>>

\* An exception between the container and READY: creation fails with a container.  It
\* comes before the copy becomes READY (the baseline) or after it (the save).
CreationRaises(c) ==
  /\ at[c] \in {"attaching", "readying"}
  /\ Goes(c, "noting")
  /\ copy' \in {copy, [copy EXCEPT ![c] = WithStatus(@, "CREATING")]}
  /\ UNCHANGED <<req, copied, targets, row, job, docker, snapshots, crashes>>

\* Faulty variant: the snapshot is left behind.
FailureNotedKeeping(c) ==
  /\ at[c] = "noting"
  /\ Writes(c)
  /\ IF copy[c].container
       THEN Goes(c, "dismantling") /\ UNCHANGED copy
       ELSE Becomes(c, copy[c], "FAILED", "failing")
  /\ UNCHANGED <<req, copied, targets, job, docker, snapshots, crashes>>

\* _fail_creation: the error is saved with the status as it was, the snapshot removed.
FailureNoted(c) ==
  /\ at[c] = "noting"
  /\ Writes(c)
  /\ snapshots' = IF c \in copied THEN snapshots \ {req[c].of} ELSE snapshots
  /\ IF copy[c].container
       THEN Goes(c, "dismantling") /\ UNCHANGED copy
       ELSE Becomes(c, copy[c], "FAILED", "failing")
  /\ UNCHANGED <<req, copied, targets, job, docker, crashes>>

\* _fail_creation: backend.destroy, its error suppressed.
Dismantled(c) ==
  /\ at[c] = "dismantling"
  /\ Removes({req[c].of})
  /\ Becomes(c, copy[c], "FAILED", "failing")
  /\ UNCHANGED <<req, copied, targets, row, job, snapshots, crashes>>

CreationFailed(c) ==
  /\ at[c] = "failing"
  /\ Writes(c)
  /\ Goes(c, "refused")
  /\ UNCHANGED <<local, job, docker, snapshots, crashes>>

-----------------------------------------------------------------------------
(* execute and run_tests; the setup commands of create join at "marking".  *)

\* run_tests with a command of the client's goes the way of execute.
StartExecute(c, op, e) ==
  /\ op \in {"execute", "background", "run_tests"}
  /\ row[e] # NoRow
  /\ Starts(c, op, e, "getting")

\* _transition to RUNNING: a copy that is RUNNING already is not saved.
Proceeds(c, r) ==
  \/ /\ r.status = "RUNNING"
     /\ copy' = [copy EXCEPT ![c] = r]
     /\ Goes(c, "submitting")
     /\ job' = [job EXCEPT ![c] = "submitting"]
  \/ /\ r.status # "RUNNING"
     /\ Becomes(c, r, "RUNNING", "marking")
     /\ UNCHANGED job
  \/ /\ ~CanMove(r.status, "RUNNING")
     /\ Goes(c, "refused")
     /\ UNCHANGED <<copy, job>>

\* get_live: an experiment that is destroyed, or has no container, is refused.
Got(c) ==
  LET r == row[req[c].of] IN
  /\ at[c] = "getting"
  /\ \/ /\ r.status = "DESTROYED" \/ ~r.container
        /\ Goes(c, "refused")
        /\ UNCHANGED <<copy, job>>
     \/ /\ r.status # "DESTROYED" /\ r.container
        /\ req[c].op # "run_tests"
        /\ Proceeds(c, r)
     \/ /\ r.status # "DESTROYED" /\ r.container
        /\ req[c].op = "run_tests"
        /\ copy' = [copy EXCEPT ![c] = r]
        /\ Goes(c, "detecting")
        /\ UNCHANGED job
  /\ UNCHANGED <<req, copied, targets, row, docker, snapshots, crashes>>

\* run_tests: the sandbox is searched for a test runner, and there may be none.
Detected(c) ==
  /\ at[c] = "detecting"
  /\ Proceeds(c, copy[c]) \/ (Goes(c, "refused") /\ UNCHANGED <<copy, job>>)
  /\ UNCHANGED <<req, copied, targets, row, docker, snapshots, crashes>>

\* The row says RUNNING; submit inserts the job.
Marked(c) ==
  /\ at[c] = "marking"
  /\ Writes(c)
  /\ Goes(c, "submitting")
  /\ job' = [job EXCEPT ![c] = "submitting"]
  /\ UNCHANGED <<local, docker, snapshots, crashes>>

\* The job is registered; a background call is answered with it.
JobSubmitted(c) ==
  /\ at[c] = "submitting"
  /\ job' = [job EXCEPT ![c] = "live"]
  /\ Goes(c, IF req[c].op = "background" THEN "answered" ELSE "waiting")
  /\ UNCHANGED <<local, row, docker, snapshots, crashes>>

\* The job ends by itself, or because its executor has stopped the command or failed to.
JobEnds(c, outcome) ==
  /\ \/ /\ job[c] = "live"
        /\ outcome \in {"succeeded", "failed", "TIMEOUT"}
     \/ job[c] = "cancelling" /\ outcome \in {"CANCELLED", "failed"}
  /\ job' = [job EXCEPT ![c] = outcome]
  /\ UNCHANGED <<at, local, row, docker, snapshots, crashes>>

\* task.cancel(): the job stops, unless it had its outcome already.
AfterCancel(s) ==
  IF s = "live" THEN {"cancelling", "succeeded", "failed", "TIMEOUT"}
                ELSE {"cancelling", "CANCELLED", "failed"}

CancelJobs(S) ==
  \E after \in [S -> JobStates] :
    /\ \A d \in S : after[d] \in AfterCancel(job[d])
    /\ job' = [d \in Calls |-> IF d \in S THEN after[d] ELSE job[d]]

\* cancel_job, by a client that has the id of a background job.
CancelJob(c) ==
  /\ job[c] = "live"
  /\ req[c].op = "background"
  /\ CancelJobs({c})
  /\ UNCHANGED <<at, local, row, docker, snapshots, crashes>>

\* _settle; for a setup command everything but success is a failure.  "unfinished" is a
\* job that is PENDING or RUNNING when its waiter is cancelled.
SettledStatus(op, outcome) ==
  CASE outcome = "succeeded"                                   -> "READY"
    [] op = "create" /\ outcome # "succeeded"                  -> "FAILED"
    [] op # "create" /\ outcome = "failed"                     -> "FAILED"
    [] op # "create" /\ outcome \in {"TIMEOUT", "CANCELLED"}   -> outcome
    [] op # "create" /\ outcome = "unfinished"                 -> "READY"

\* Faulty variant: run_tests does not settle.
JobAwaitedForgetful(c) ==
  /\ at[c] = "waiting"
  /\ job[c] \in Outcomes
  /\ IF req[c].op = "run_tests"
       THEN Goes(c, "answered") /\ UNCHANGED copy
       ELSE Becomes(c, copy[c], SettledStatus(req[c].op, job[c]), "settling")
  /\ UNCHANGED <<req, copied, targets, row, job, docker, snapshots, crashes>>

JobAwaited(c) ==
  /\ at[c] = "waiting"
  /\ job[c] \in Outcomes
  /\ Becomes(c, copy[c], SettledStatus(req[c].op, job[c]), "settling")
  /\ UNCHANGED <<req, copied, targets, row, job, docker, snapshots, crashes>>

Settled(c) ==
  /\ at[c] = "settling"
  /\ Writes(c)
  /\ Goes(c, "answered")
  /\ UNCHANGED <<local, job, docker, snapshots, crashes>>

-----------------------------------------------------------------------------
(* destroy.                                                                *)

StartDestroy(c, e) ==
  /\ row[e] # NoRow
  /\ Starts(c, "destroy", e, "looking")

\* The live jobs the registry holds for an experiment.
JobsOf(e) == {d \in Calls : req[d].of = e /\ job[d] \in {"live", "cancelling"}}

\* get, then cancel_experiment_jobs.
LookedUp(c) ==
  LET e == req[c].of IN
  /\ at[c] = "looking"
  /\ \/ /\ row[e].status = "DESTROYED"
        /\ Goes(c, "answered")
        /\ UNCHANGED <<copy, targets, job>>
     \/ /\ row[e].status # "DESTROYED"
        /\ copy' = [copy EXCEPT ![c] = row[e]]
        /\ targets' = [targets EXCEPT ![c] = JobsOf(e)]
        /\ CancelJobs(JobsOf(e))
        /\ Goes(c, "draining")
  /\ UNCHANGED <<req, copied, row, docker, snapshots, crashes>>

\* Faulty variant: waits for every job to say that it was cancelled.
DrainedWhenCancelled(c) ==
  /\ at[c] = "draining"
  /\ \A d \in targets[c] : job[d] = "CANCELLED"
  /\ Goes(c, "removing")
  /\ UNCHANGED <<local, row, job, docker, snapshots, crashes>>

\* All the cancelled tasks ended; the changes are captured for the report.
Drained(c) ==
  /\ at[c] = "draining"
  /\ \A d \in targets[c] : job[d] \in Outcomes
  /\ Goes(c, "removing")
  /\ UNCHANGED <<local, row, job, docker, snapshots, crashes>>

\* Faulty variant: a container is left to the sweep when there is a snapshot to remove.
RemovedEither(c) ==
  /\ at[c] = "removing"
  /\ IF copy[c].container /\ ~copy[c].snapshot THEN Removes({req[c].of}) ELSE UNCHANGED docker
  /\ snapshots' = IF copy[c].snapshot THEN snapshots \ {req[c].of} ELSE snapshots
  /\ Becomes(c, copy[c], "DESTROYED", "closing")
  /\ UNCHANGED <<req, copied, targets, row, job, crashes>>

\* backend.destroy, for the container the copy knows of, its error logged; then the
\* snapshot the copy knows of.
Removed(c) ==
  /\ at[c] = "removing"
  /\ IF copy[c].container THEN Removes({req[c].of}) ELSE UNCHANGED docker
  /\ snapshots' = IF copy[c].snapshot THEN snapshots \ {req[c].of} ELSE snapshots
  /\ Becomes(c, copy[c], "DESTROYED", "closing")
  /\ UNCHANGED <<req, copied, targets, row, job, crashes>>

Closed(c) ==
  /\ at[c] = "closing"
  /\ Writes(c)
  /\ Goes(c, "answered")
  /\ UNCHANGED <<local, job, docker, snapshots, crashes>>

-----------------------------------------------------------------------------
(* Faults.                                                                 *)

\* The client cancels its request.  CancelledError passes every `except Exception`; a
\* thread that was started goes on, be it a write or a call to Docker.
Abandon(c) ==
  /\ ClientMayCancel
  /\ InFlight(c)
  /\ at[c] # "waiting"
  /\ IF at[c] \in Saving THEN Goes(c, "abandoned") \/ Goes(c, "landing") ELSE Goes(c, "abandoned")
  /\ \/ UNCHANGED docker
     \/ /\ at[c] = "provisioning"
        /\ containers' = containers \cup {req[c].of}
        /\ UNCHANGED stuck
     \/ /\ at[c] = "dismantling" \/ (at[c] = "removing" /\ copy[c].container)
        /\ Removes({req[c].of})
  /\ job' = [job EXCEPT ![c] = IF @ = "submitting" THEN "none" ELSE @]
  /\ UNCHANGED <<local, row, snapshots, crashes>>

\* wait_for takes the cancellation of its own request for one of the job and answers
\* with the job as it stands; the call goes on to settle until it is cancelled again.
AbandonWait(c) ==
  /\ ClientMayCancel
  /\ at[c] = "waiting"
  /\ job[c] \in {"live", "cancelling"}
  /\ \E place \in {"abandoned", "landing"} :
       Becomes(c, copy[c], SettledStatus(req[c].op, "unfinished"), place)
  /\ UNCHANGED <<req, copied, targets, row, job, docker, snapshots, crashes>>

\* The write of an abandoned call is done.
Lands(c) ==
  /\ at[c] = "landing"
  /\ Writes(c)
  /\ Goes(c, "abandoned")
  /\ UNCHANGED <<local, job, docker, snapshots, crashes>>

\* A database error ends the call, nothing was written: a row that said RUNNING or CREATING
\* goes on saying so.
DatabaseRaises(c) ==
  /\ DatabaseMayFail
  /\ at[c] \in Unguarded
  /\ at[c] = "waiting" => job[c] \in Outcomes
  /\ Goes(c, "raised")
  /\ job' = [job EXCEPT ![c] = IF @ = "submitting" THEN "none" ELSE @]
  /\ UNCHANGED <<local, row, docker, snapshots, crashes>>

\* Faulty variant: only idle experiments claim their containers.
ClaimedWhenReady == {e \in Experiments : row[e].container /\ row[e].status = "READY"}

\* The containers a live experiment claims.
Claimed == {e \in Experiments : row[e].container /\ row[e].status \in LiveStates}

\* The process dies with its calls and tasks; startup fails the orphaned jobs and
\* sweeps the containers nobody claims, as far as Docker lets it.
CrashAndRestart ==
  /\ crashes < MaxCrashes
  /\ crashes' = crashes + 1
  /\ at' = [c \in Calls |-> IF InFlight(c) \/ at[c] = "landing" THEN "lost" ELSE at[c]]
  /\ job' = [c \in Calls |-> IF job[c] \in {"submitting", "live", "cancelling"}
                               THEN "failed" ELSE job[c]]
  /\ Removes(Experiments \ Claimed)
  /\ UNCHANGED <<local, row, snapshots>>

-----------------------------------------------------------------------------
CallStep(c) ==
  \/ CapacityChecked(c) \/ Inserted(c) \/ Provisioned(c) \/ Attached(c) \/ Readied(c)
  \/ CreationRaises(c) \/ FailureNoted(c) \/ Dismantled(c) \/ CreationFailed(c)
  \/ Got(c) \/ Detected(c) \/ Marked(c) \/ JobSubmitted(c) \/ JobAwaited(c) \/ Settled(c)
  \/ LookedUp(c) \/ Drained(c) \/ Removed(c) \/ Closed(c) \/ Lands(c)

JobStep(c) == \E outcome \in Outcomes : JobEnds(c, outcome)

Next ==
  \/ \E c \in Calls : \/ CallStep(c) \/ JobStep(c) \/ StartCreate(c)
                      \/ CancelJob(c) \/ Abandon(c) \/ AbandonWait(c)
                      \/ DatabaseRaises(c)
  \/ \E c \in Calls, e \in Experiments : \/ StartDestroy(c, e)
                                         \/ \E op \in Ops : StartExecute(c, op, e)
  \/ CrashAndRestart

Spec == Init /\ [][Next]_vars

\* The event loop runs every ready call, threads and Docker answer, and a job ends at
\* its timeout at the latest (module Jobs: EveryTaskEnds).
Fairness == \A c \in Calls : WF_vars(CallStep(c)) /\ WF_vars(JobStep(c))

FairSpec == Spec /\ Fairness

-----------------------------------------------------------------------------
(* Properties.                                                             *)

TypeOK ==
  /\ at \in [Calls -> Places]
  /\ req \in [Calls -> [op : Ops \cup {"none"}, of : Experiments \cup {None}]]
  /\ copy \in [Calls -> Rows]
  /\ copied \subseteq Calls
  /\ targets \in [Calls -> SUBSET Calls]
  /\ row \in [Experiments -> Rows]
  /\ job \in [Calls -> JobStates]
  /\ containers \subseteq Experiments
  /\ stuck \subseteq Experiments
  /\ snapshots \subseteq Experiments
  /\ crashes \in 0 .. MaxCrashes

Promised == INSTANCE Lifecycle WITH status <- [e \in Experiments |-> row[e].status]

\* With one call at a time, crashes and restarts included, every row moves along
\* EXPERIMENT_TRANSITIONS: the checks on the copies protect the rows.
LifecycleSpec == Promised!Spec

\* With one call at a time no more experiments than configured are live.
CapacityHeld == Cardinality(Live) <= MaxExperiments

\* With one call at a time, none of them cancelled and no database error (the container of a
\* create that was cancelled, or failed to save its failure, is in no row), a row says
\* DESTROYED only when the container is gone, unless Docker refused to remove it.
DestroyedIsGone ==
  \A e \in Experiments : row[e].status = "DESTROYED" => e \notin containers \ stuck

\* However the calls interleave, an experiment whose calls were all answered, none of
\* them for a background job or with a database error, is not left CREATING or RUNNING.
QuiescentSettled ==
  \A e \in Experiments :
    (\A c \in Calls : req[c].of = e => at[c] \in {"answered", "refused"} /\ req[c].op # "background")
      => row[e].status \notin {"CREATING", "RUNNING"}

\* An experiment the client was given and never destroyed keeps its container and its
\* place among the live ones: no call, crash or sweep takes it away.
AnsweredCreateKept ==
  \A c \in Calls :
    LET e == req[c].of IN
    /\ req[c].op = "create"
    /\ at[c] = "answered"
    /\ \A d \in Calls : req[d].of = e => req[d].op # "destroy"
    => e \in containers /\ e \in Claimed

\* A create that failed, other than by a database error it has no handler for, leaves neither
\* a container (unless Docker refused to remove it) nor the snapshot it made.
FailedCreateCleansUp ==
  \A c \in Calls :
    LET e == req[c].of IN
    req[c].op = "create" /\ at[c] = "refused" /\ e # None
      => e \notin containers \ stuck /\ (c \in copied => e \notin snapshots)

\* What a destroy saw in the row is gone for good once it is answered, whoever else
\* works on the experiment.
DestroyRemoves ==
  \A c \in Calls :
    LET e == req[c].of IN
    req[c].op = "destroy" /\ at[c] = "answered"
      => /\ copy[c].container => e \notin containers \ stuck
         /\ copy[c].snapshot => e \notin snapshots

\* All the calls (each is made once) end: destroy outlasts the jobs it cancels, execute the job it submits.
EveryCallEnds == <>[](\A c \in Calls : ~InFlight(c))

-----------------------------------------------------------------------------
(* What the code's documentation says and the code does not do.            *)

\* "Truly terminal": DESTROYED is the last status of a row.
DestroyedIsAbsorbing ==
  [][\A e \in Experiments : row[e].status = "DESTROYED" => row'[e].status = "DESTROYED"]_vars

\* max_concurrent_experiments is a hard ceiling: so many sandboxes are live, never more.
CeilingHeld == Cardinality(Live \cap containers) <= MaxExperiments
=============================================================================
