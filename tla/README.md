# Verification of sandbox-mcp

TLA+ modules of the stateful parts of sandbox-mcp, TLC runs on small instances, and
proofs checked by TLAPS. Paths below are relative to `src/sandbox_mcp/`.

## 1. The system

sandbox-mcp is one Python process. An MCP client sends tool calls; each is a task on one
asyncio event loop, so calls overlap at every `await` that suspends. State lives in memory
(the job registry), in SQLite (rows of experiments and jobs), in Docker (containers,
networks) and on disk (project snapshots, artifacts).

| component | state it keeps | operations | interacts with |
|---|---|---|---|
| job execution (`execution/manager.py`, `jobs.py`, `executor.py`) | one asyncio task and one `Job` object per live job, the registry, a semaphore per experiment | `submit`, `_run`, `wait_for`, `get_job`, `cancel`, `cancel_experiment_jobs` | saves rows through the repository, runs commands through the backend |
| experiment manager (`experiments/manager.py`) | nothing of its own: a private copy of the experiment per call | `create`, `execute`, `run_tests`, `destroy`, `startup`; `inspect_changes`, `read_file`, `write_file`, `collect_artifacts`, `report`, `compare` | repository, backend, job execution, policy, snapshots |
| state machine (`experiments/state.py`) | a table | `can_transition`, `assert_transition` | used by `_transition` |
| repository (`experiments/repository.py`) | SQLite file, one connection, an `asyncio.Lock` | one thread call per access, under the lock | everybody |
| Docker backend (`sandbox/docker.py`) | containers, networks, exec instances, pid files | `create`, `execute`, `destroy`, `cleanup_orphans`, file access | Docker, worker threads |
| policy, resources, filesystem (`security/`) | none | clamp, refuse, resolve paths, copy the project | called by `create` and file tools |
| changes, testing, artifacts | none (artifacts: files on the host) | compare manifests, choose a test runner, parse output, collect files | called by the manager |
| server, app (`server.py`, `app.py`) | none | declare tools and resources | one manager call each |

What is hard: cancellation (a task may be cancelled at any await, or twice; a client may cancel its request; a thread that was started goes on), stale copies
(every call writes back a whole row it read earlier), crashes between two writes, Docker
refusing to remove a container, checks and acts that are several awaits apart. `PROJECT.json`
lists the hazards, each with its line and the properties that cover it.

What makes the components correct:

* **jobs** - permits are never lost; a live task can always be found by `destroy`; an ended
  job's row agrees with its object and never changes; answers are final; every task and
  call ends.
* **experiments** - rows follow the state machine; the number of live sandboxes is bounded;
  a failed `create` leaves nothing behind; a `destroy` removes what it saw; no restart takes
  a sandbox from a client; no experiment stays RUNNING when its calls are done.
* **backend** - a command is stopped at its timeout or cancellation; no network or container
  leaks from a failed `create`; the thread pool does not deadlock.
* **pure functions** - a clamp never exceeds its ceiling; an allowlist works by components; a
  resolved path stays in the workspace; a snapshot has no secrets and no more than the limits;
  captured output never exceeds the cap; a change set is exactly the difference between the
  workspace and its baseline; an artifact that was found is collected or accounted for; a test summary has the counts of the run; nobody does better than
  the experiment a comparison recommends.

## 2. Modules

| module | models |
|---|---|
| `Jobs` | job execution with the job rows and the lock of the repository |
| `MCJobs` | constants and symmetry for TLC |
| `JobsProofs` | theorems about `Jobs` |
| `ExperimentState` | the statuses, `EXPERIMENT_TRANSITIONS`, `LIVE_STATES`, `assert_transition` |
| `Lifecycle` | abstract specification: a status per experiment that moves along the table |
| `Experiments` | the experiment manager with rows, containers, snapshots, and jobs seen from outside |
| `MCExperiments` | symmetry for TLC |
| `ExperimentsProofs`, `ExperimentsSerialProofs` | theorems about `Experiments`: for overlapping calls, for a client that awaits each answer |
| `DockerExec` | commands in containers: the task of `_exec`, the reader on its worker thread, the wrapper, the kill script, the pid file |
| `DockerSandbox` | `create`, `destroy`, `cleanup_orphans`, request by request to the Docker daemon |
| `DockerBackend` | both together, with one pool of worker threads and one process |
| `MCDockerBackend` | constants and the bound for TLC |
| `DockerExecProofs`, `DockerSandboxProofs`, `DockerBackendProofs` | theorems about the three |
| `Policy` | `PolicyEngine` and `parse_memory` as operators |
| `Filesystem` | `validate_sandbox_path`, `_matches_any`, `ProjectSnapshotter.snapshot` |
| `Changes` | `inspect_changes`: listing, comparison, reading, while the workspace changes |
| `Artifacts` | pattern expansion and collection |
| `TestRuns` | `choose_framework` and the parsers of test output |
| `Reports` | the figures of `report` and `compare`, and `_recommend` |
| `Output` | `_OutputCollector` |
| `MCFunctions` | bounded inputs for the seven modules above, and the properties stated of an input |
| `GuardsProofs` | theorems about `Policy` and `Filesystem`, and lemmas about folds |
| `ResultsProofs` | theorems about `Output`, `Artifacts`, `Reports`, `TestRuns` and `Changes` |

### Jobs

A step is the code between two awaits that suspend. `pc[j]` is where the task of a job (or
its `submit`) stands, `mem[j]` the status of its `Job` object, `row[j]` its row,
`registered` the registry, `semaphoreOf` / `sem` / `permits` the semaphores (named after the
job that made them, so that a discarded one and its successor differ). A save takes two
steps: `AcquireLock` (the lock, and the write handed to a worker thread), then the step that
resumes the writer. A writer that is cancelled in between leaves the lock; its write becomes
`stray` and lands later or not at all.

* `submit` - `Submit`, `Submitted`, `SubmitRaises`, `SubmitAbandoned`.
* `_run` - `FetchSemaphore`, `EnterSemaphore`, `RunningSaved`, `RunningRaises`,
  `ExecutorReturns`, `ExecutorStopped`, `ExecutorStopFails`, `FinalSaved`, `FinalRaises`, `CancelledSaved`;
  `CancelTasks` is `task.cancel()` with the CancelledError delivered, `AfterCancel` says
  where it takes a task.
* `wait_for` - `WaitFor`, `ResultArrives`, `RowRead`; `cancel` - `Cancel`,
  `CancelUnattached`, `RowExamined`, `UnattachedSaved`, `CancelReturns`;
  `cancel_experiment_jobs` - `CancelExperiment`, `CancelIdleExperiment`, `Drained`.
* the process - `CrashAndRestart`, with `mark_orphaned_jobs_failed`.

`disturbed` is a history variable: the jobs that were cancelled in `submit` or in one of their
last saves, or that a database error hit. Most guarantees hold exactly for the others. No task
is cancelled before its first step: `submit` creates it in the step in which it gives the
repository's lock back, and whoever reaches `task.cancel()` (`cancel`, or `destroy` after
`get_experiment`) does so in a step that the event loop runs later, it being first in, first
out. Abstracted: output, timestamps, the command. The
registry's own lock is never held across an await and is left out. A client's cancellation
of `wait_for` or of `destroy` is not an action here; `Experiments` has both.

### Experiments

`at[c]` is where a call stands, `copy[c]` its `Experiment` object, `row[e]` the three columns
that matter (status, container_id set or not, snapshot_dir set or not). Entering a place of
`Saving` is the assignment to the copy (`Becomes`: `assert_transition` on the caller's own
copy), the step out of it is `Writes`: the whole row is replaced. `job[c]` is the job the
call submitted: `submitting`, `live`, `cancelling`, or its outcome.

* `create` - `StartCreate`, `CapacityChecked`, `Inserted` (row, then `PreparesSnapshot`), `Provisioned`
  (backend), `Attached`, `Readied`; its failures `CreationRaises`, `FailureNoted`,
  `Dismantled`, `CreationFailed`; its setup commands join `execute` at "marking".
* `execute`, `run_tests` - `StartExecute`, `Got`, `Detected`, `Proceeds`, `Marked`,
  `JobSubmitted`, `JobAwaited`, `Settled`; the job itself `JobEnds`, `CancelJob`.
* `destroy` - `StartDestroy`, `LookedUp`, `Drained`, `Removed`, `Closed`.
* the database - `DatabaseRaises`: an error at an access outside `create`'s handlers (the last
  save of a job, whose exception `wait_for` passes on, included) ends the call.
* a client that cancels its request - `Abandon`, `AbandonWait`, `Lands`. The MCP server
  cancels a request through a cancel scope that delivers the cancellation at every further
  await, so a call ends at once, except that a thread already started goes on and that
  `wait_for` swallows the first delivery and lets `_settle` begin.
* the process - `CrashAndRestart` with the sweep of `startup`.

Abstracted: the list of setup commands is one command; `run_tests` with a command given is
an `execute`; "failed" stands for a non-zero exit and for an error; the audit row that
`_transition` writes after the experiment row is left out. Bounds: each call is made once, there
are as many creates as ids, and `MaxCrashes`; `DatabaseMayFail` lets the database raise outside
the handlers of `create` (`CreationRaises` is always possible).

### DockerExec

`at[c]` is where the task of a command stands in `_exec`, `cut[c]` which of the four ways the
wait for the reader ended, `pump[c]` the reader, `shell[c]` and `noted[c]` the wrapper and the
command in the container, `kill[c]` and `sweep[c]` the two detached scripts, `up` the
containers that run.

* `_get_container`, `exec_create` - `Looks`, `Creates`; `wait_for` - `Completes`, `Breaks`,
  `TimesOut`, `IsCancelled`; `_signal_pid` - `Signals`; `_await_pump` - `Drains`; the `finally`
  - `Cleans`; `_exec_exit_code` - `Inspects`; a cancellation at any other await -
  `IsCancelledElsewhere`.
* `_pump_output` - `PumpStarts`, `StreamEnds`, `StreamBreaks`; the wrapper - `NotesPid`,
  `ShellEnds`, `StraysEnd`; the scripts - `KillRuns`, `SweepRuns`.
* from outside - `ContainerStarts`, `ContainerGoes`, `ServerStops`.

The stream of a command ends when the wrapper and all processes that hold it have: children of
the shell may keep it open (`shell` "strays"), or run on with their output elsewhere ("quiet").
A connection that is lost is an exception of the reader ("broken") or, since docker-py takes
the end of a socket for the end of the stream, an end like any other ("severed"). An exception
of the HTTP layer, which no handler of `_signal_pid`, `_fire_and_forget` and `_exec_exit_code`
catches, ends the call with an error.

A reader holds a worker thread until the stream ends; every other call in a thread is short,
one step that needs a free thread (`FreeThread`). `Drains` may be taken at any time: 15 seconds
are not measured against anything. Output is abstracted (see `Output`).

### DockerSandbox

`place[s]` is where the call on a sandbox stands (one `create`, then any number of `destroy`),
`answer[s]` what the last one answered, `container[s]`, `name[s]` and `owner[n]` what Docker
has. Every step is one request; it may be answered, refused (`APIError`) or lost - cancelled,
or failed with an exception of the HTTP layer that is no `DockerException`, so that no handler
runs although Docker may have served it. In the sweep this ends the startup ("failed"). `_ensure_image` is one step that goes on or gives up;
the commands of `_prepare_workspace` and `chown` are one step each, what a command is stands in
`DockerExec`. `CrashAndRestart` ends every call; the rows of the next startup may claim any
set of the handles that were out (what a row says is the subject of `Experiments`).

History variables name the exceptions a guarantee has: `spoiled` (a request was lost, or
refused while clearing up), `robbed` (a second `destroy` removed a network whose name had been
given to another sandbox meanwhile), `orphans` (what the sweep had to remove and Docker let it).

### DockerBackend

The conjunction of the two: `up` of `DockerExec` is the set of running containers of
`DockerSandbox`; a command is sent with a handle `create` has answered (`SendCommand`), every
request of a call needs a free thread, a crash ends both. `CommandsSpec` is `DockerExec!Spec`
under that mapping: whatever the sandboxes do is a container that comes or goes.

`Experiments` sees of all this only what `Provisioned` and `Removed` leave behind, `Jobs` only
how its executor ends.

### Changes, and the modules of operators

`Changes` is a state machine: the baseline, a listing that comes to one file after the other,
the comparison, then the files read one by one, and `Writes` of commands in between. Contents
stand for digests and bodies alike (a digest tells contents apart); a content is `Large`,
`Binary` or plain. Either listing may be cut off at `max_output_bytes`, within a line or between
two (`CutListings`). `original` is the workspace at the time of the baseline, regular files
only; `snapshot` is what the host finds under a path of the snapshot: the file that was there,
or, where a link was, whatever it leads to (`Snapshots`).

The others are operators over a request, a path, a walk, a list of patterns, an output, or
rows. A refusal is the empty set and an optional value a set of at most one element, which
makes every `raise` part of the result. Characters count only where the code looks at them:
`/` and `:` in an image, `..` in a path. An output of a test tool is what each regular
expression finds in it (`Words`: what a tool prints, and which parsers find something there:
the counts of jest and cargo are found by pytest's expression, too; `LastCount`: the last number
before a word, whether "failed", "error" or "errors"). A snapshot meets files that cannot be
read, vanish between hashing and copying, or are no files at all. An artifact pattern is lawful
or not, and may break the one shell command all patterns make up, which then prints nothing;
`Outputs` has what may come back otherwise: all lines, or the first ones and a stump. Numbers are integers: CPU in half nanocores (the code rounds a float
number of cores down to nanocores), memory in KiB.

## 3. Runs

| run | instance | result |
|---|---|---|
| `jobs` | 2 jobs, 1 experiment, limit 1, 2 callers, failing writes, 1 crash | TypeOK and seven properties hold |
| `jobs_live` | the same with 1 caller, fairness | EveryTaskEnds, EveryCallReturns hold |
| `jobs_serial` | 2 jobs, 1 caller | AccessSerialised is violated |
| `jobs_cap` | 3 jobs, 1 caller, limit 1 | ExperimentCap is violated |
| `exp` | 3 overlapping calls, 1 experiment, client cancellations, database errors, 1 crash | TypeOK and four properties hold |
| `exp_serial` | 4 calls in sequence, 2 experiments, ceiling 1, Docker may refuse a removal, 1 crash | CapacityHeld, DestroyedIsGone, LifecycleSpec hold |
| `exp_live` | 3 overlapping calls, 1 experiment, fairness | EveryCallEnds holds |
| `backend` | 2 sandboxes, 1 network name, 2 commands, 2 threads, failing requests, 1 crash, fairness | TypeOK, six invariants, CommandsSpec and EveryCommandReturns hold |
| `functions` | bounded inputs of every function; an inspection of 2 files, 4 contents, 2 writes | eleven invariants hold |
| `functions_timeout` | the same inputs | CommandsWithinCeiling is violated |
| `exp_absorbing` | 3 overlapping calls | DestroyedIsAbsorbing is violated |
| `exp_ceiling` | 2 overlapping creates | CeilingHeld is violated |

Deadlock is not checked: all jobs and calls of an instance come to an end, and then the
system rests.

Why these bounds: two jobs with one permit compete for it, and a caller that drains one
while the other is being submitted needs no third; the races between answer, cancellation
and destroy have two callers; one crash separates before from after, and a second one meets
the state of a fresh start with some rows closed. Three calls on one experiment are a create
with an execute and a destroy, or two of these with a third that looks at what they left;
four calls in sequence are the longest chain that revisits the capacity check (create,
execute, destroy, create). The statuses, the refinement and the ceiling do not depend on
more ids than two.

`backend`: `Bound` lets a second sandbox be made, and a sandbox be destroyed again, while no
command is sent; a command is sent to a sandbox without a network of its own (no step of a
command looks at networks), and a second one when nothing else is under way, nothing failed
and no one cancels. So two creates meet over the one name of a network, the sweep has an orphan
to keep and one to lose, a first `destroy` or a crash meets a command at every place, and two
commands take both threads. A command has its cancellations, refusals and stray processes when
it is alone. `Bound` never disables all the steps a fairness condition asks for.

`functions`: a state is one input, drawn by one of the `Draw` actions of `MCFunctions`. Numbers
lie around the floor and the ceiling, sequences have the length at which the properties can
fail (a path of five parts leaves the workspace, the root and comes back; four chunks pass a
cap of five; three experiments have a winner, a second and a third). `MaxWithDiff` is 1, so
that the second change exceeds the budget. `Many` is the 999 of the code, which no instance
reaches. The properties are stated against definitions that do not follow the code: components
by the positions of the slashes, a path by how deep its parts lead, totals by sums over sets.

`CapacityHeld`, `DestroyedIsGone` and `LifecycleSpec` are stated for a client that awaits each
answer (`OneAtATime`): `exp_absorbing` and `exp_ceiling` show that overlapping calls break
them. `exp` shows what survives overlapping.

### What the runs found

1. `jobs_serial` - `repository.py:220` "All SQLite access is serialised through here": the
   cancelled writer's thread works on after the lock is free, so a stale RUNNING can land
   after CANCELLED.
2. `jobs_cap` - `execution/jobs.py:25` "caps concurrency per experiment": a job submitted
   while `destroy` waits keeps a semaphore nobody else uses any more.
3. `functions_timeout` - `config.py:180` "hard ceilings: a request may ask for less, never for
   more": `execute` and `run_tests` pass the caller's timeout to `submit`
   (`execution/manager.py:65`), which takes it as it is; `PolicyEngine.clamp_timeout` is called
   by nothing. `CeilingsHold` states what does hold: a command that names no timeout, or 0, ends
   within the ceiling.
4. `exp_absorbing` - `state.py:30` "Truly terminal": a stale copy overwrites DESTROYED.
5. `exp_ceiling` - `config.py:180` "hard ceilings ... never for more": overlapping creates
   pass the check together.

Divergences that are exceptions in a property rather than runs of their own:

* `EveryCommandReturns` excepts the case that readers of commands that do not end hold all the
  worker threads for ever. `execution/manager.py:92` says that the timeout "still applies, so
  this cannot hang the MCP request indefinitely", but the kill script needs a thread, too: the
  default pool has min(32, cpus + 4), and the default settings allow 10 experiments with 4
  commands each.
* `CompletedIsOver`: `execution/manager.py:10` defines COMPLETED as "process exited, any code",
  but a connection that ends is an end of the stream for docker-py: the job is COMPLETED, without
  an exit code, while its command runs. A child with its output redirected runs on in any case.
* `OrphansAreSwept`: `experiments/manager.py` catches the errors of the sweep because a missing
  Docker daemon "must not stop the server from starting"; an exception of the HTTP layer passes
  `_safe_remove` and `cleanup_orphans` by and does stop it. The property speaks of startups that
  ended.
* `NothingIsLeft`: an exception that is no `DockerException` and a cancellation pass `create`'s
  handler by; the sweep removes the container, no step removes the network.
* `DestroyedIsGone`: the container of a `create` whose request was cancelled is in no row, so
  that `destroy` closes the row and leaves it; the next startup removes it.
* `NetworkIsPrivate`: a second `destroy` takes a network by its name, which may be reused.
* `SummariesAreTrue`: `pytest -q` and `go test` without `-v`, the commands of `FRAMEWORKS`,
  do not print what the parsers of pytest and go count. Pytest's expression (`testing.py:77`)
  searches the whole output and finds cargo's "N passed; M failed" as well, and the last count
  of a kind wins: what cargo prints after pytest replaces pytest's counts ("Best effort, never a
  lie"). Such outputs are excepted (`Misled`).
* `DiffsAreTrue`: `changes.py:169` calls the snapshot "the pristine copy, never the user's tree",
  but it has links as links and `_read_baseline` follows them. The baseline manifest lists
  regular files only, so a file that replaces a link is CREATED, with what the link leads to on
  the host as its earlier side (`Linked`).
* `ChangesAreExact`: a listing that was cut off makes files appear deleted, a baseline that was
  cut off makes them appear created (`Misjudged`); nothing looks at `stdout_truncated`.
* `ArtifactsAccounted`: one pattern that is no shell silences all of them, and a capped or timed
  out listing loses names; the answer says nothing of it, or "no files matched the requested
  patterns". The property is about what was printed.
* `SnapshotIsExact`: `copy` raises for a file it cannot read or that vanished, and the snapshot is
  given up for a reason that has nothing to do with its size.
* `CeilingsHold`: less than a nanocore becomes 0, which Docker takes for no limit.
* `SpecIsWhole`: a writable bind mount is refused when `allow_writable_bind_mounts` is set, and
  is read-only when it is not (`config.py:216-219` describes the setting as the way to opt in).
* `WinnersAreBest`: a runner-up without failing tests is told to have more of them, because 0
  counts as 999 in the reason (not in the ranking). An experiment without test results ranks as
  one with 999 failures, hence before one with more: `ComparisonsAlways` assumes fewer.

### Fairness

Weak fairness for every task and every call (the event loop runs what is ready; threads
and Docker answer), strong fairness for taking the repository's lock (`asyncio.Lock` serves
waiters in the order they came, but the action is disabled while another writer holds it).
A command ends because `_exec` gives it up after the job's timeout: that is the fairness of
`ExecutorReturns`, `ExecutorStopped` and `JobEnds`. In `Experiments` the end of a job is
assumed where `Jobs` shows it (`EveryTaskEnds`). No fairness is assumed for requests,
cancellations or crashes. In `DockerBackend` weak fairness for the next step of a command's
task (the timeout and the 15 seconds end, Docker answers a request that has a thread), for a
reader that has a thread and for the end of a stream that is over; none for the end of a
command, for the scripts in the container, or for anything a sandbox does.

## 4. Proofs

`JobsProofs` proves, for any finite set of jobs, any experiments, callers, limit and number
of crashes (assumption: `JobsAssumption` only), every safety property of the run `jobs`:

| theorem | property |
|---|---|
| `Invariance` | the inductive invariant `IInv` |
| `TypeCorrectness` | `TypeOK` |
| `PermitConservation`, `SemaphoreCap` | `PermitsConserved`; at most `MaxConcurrentJobs` inside one semaphore |
| `LiveTasksAreRegistered` | `LiveTaskRegistered` |
| `RecordsAreRemoved` | `RegistryForgets` |
| `Durability` | `EndedJobIsDurable` |
| `FinalAnswers` | `AnswersAreFinal` |
| `TerminalRows`, `TerminalStatuses` | `TerminalRowIsFinal`, `TerminalStatusIsFinal` |

`IInv` is `Typed /\ CallTyped /\ Following /\ PermitsOK`. `TypeOK` is not inductive: the bound
of `permits` follows only from the number of jobs inside a semaphore, so `Typed` has integers
there and `PermitsOK` brings `PermitsConserved`. `Following` ties row, object, registry and
task of each job together place by place (what is in the row while the RUNNING save is under
way, that an undisturbed task at its last save has a terminal object, that every stray write
belongs to a disturbed job); without it a terminal row could be overwritten. `FinalAnswers`
adds `AnswersOK`: a caller that goes to the row for an undisturbed job finds it closed. Each
step lemma has one step per action. The counting steps (`PermitsReturned`, `PermitsEntered`,
`PermitsCancelled`) use the library's theorems on finite sets.

`ExperimentsProofs` proves, for any ids, calls, ceiling and number of crashes (assumption:
`ExperimentsAssumption` only; calls overlap as they like, clients cancel, Docker refuses) every
invariant of the run `exp`:

| theorem | property |
|---|---|
| `Invariance`, `TypeCorrectness` | `IInv`; `TypeOK` |
| `Quiescence` | `QuiescentSettled` |
| `Keeping` | `AnsweredCreateKept` |
| `CleanFailure` | `FailedCreateCleansUp` |
| `Removal` | `DestroyRemoves` |

`CallAgrees` says per place of a call what it is, what its copy holds, and how far its property
has come (a failing create has dismantled its container before it says FAILED; a destroy at its
last save has removed what it saw). Two facts carry the argument: an id is drawn by one create
(`OneCreator`), and nobody has heard of a container that is not made yet (`EarlyAgrees`), so
that no copy can bring back what was removed. `Pending` makes `QuiescentSettled` inductive: for
every row that is CREATING or RUNNING some call has still to settle it, or was lost or
cancelled. `Footprint` bounds what a step of one call changes; that the other calls are not
disturbed follows from it alone (`OthersAgree`), so that only the call that moves is examined
action by action.

`ExperimentsSerialProofs` proves, for a client that awaits each answer (`OneAtATime`), the
properties of `exp_serial`:

| theorem | property |
|---|---|
| `Capacity` | `CapacityHeld` |
| `Gone` | `DestroyedIsGone`, if no request is cancelled and the database raises nothing |
| `ImplementsLifecycle` | `LifecycleSpec`, the refinement of `Lifecycle` |

`SerialInv` adds that one call is active, that its copy is the row it read or one move of the
table away from it (`RowAgrees`: so the check on the copy is one on the row), and that a create
behind the capacity check has room. `ContainerInv` adds that a container is in its row or in the
copy of the create about to save it; a create that is cancelled at the wrong moment breaks it
(its container is in no row, `destroy` does not find it, the next startup does), which is why
`Gone` excludes cancellation, and database errors, which do the same.

`DockerExecProofs` proves, for any commands, containers and number of threads:

| theorem | property |
|---|---|
| `TypeCorrectness`, `Invariance` | `TypeOK`; `IInv` |
| `Survivors` | `SurvivorsAreKnown` |
| `Completed` | `CompletedIsOver` |

`IInv` adds `Agreement` to the types: per command, what each place says of the reader, the
shell and the scripts (a queued reader has no shell, a command is past "killing" only with its
kill script decided, a task that ended with a result saw its reader done or severed).

`DockerSandboxProofs` proves for any number of sandboxes, network names and crashes
(assumption: `SandboxAssumption`) every invariant of `backend` about sandboxes:

| theorem | property |
|---|---|
| `TypeCorrectness`, `Invariance` | `TypeOK`; `IInv` |
| `Clean` | `NothingIsLeft` |
| `Private` | `NetworkIsPrivate` |
| `Usable` | `HandleIsUsable` |
| `Swept` | `OrphansAreSwept` |

`IInv` has `SandboxAgrees` (per place of a call: what it has made, what it still has to take
back, who owns the network of its name) and `SweepAgrees` (what the sweep lists is unclaimed,
and an orphan that exists is still listed). The first makes `NothingIsLeft` inductive: at the
end of a call nothing exists because at the place before only what the step removes did.

`DockerBackendProofs` proves `BackendInvariance` (the invariant of the sandboxes holds in the
composition, and a command that was sent has a handle) and `BackendImplementsExec`: `BackendSpec
=> CommandsSpec`, the refinement of `DockerExec`, step by step; a container of a sandbox starts
before its handle is out, hence before a command is sent to it.
`BackendSurvivors` and `BackendCompleted` prove `SurvivorsAreKnown` and `CompletedIsOver` for
the backend: `Proved` instantiates the theorems of `DockerExecProofs`, and `SameState` to
`SameNext` show that a step of the one instance is a step of the other, definition by
definition (the provers do not see that two instances of a module with one substitution are
one).

`GuardsProofs` and `ResultsProofs` prove every invariant of the run `functions`:

| theorem | property | for any |
|---|---|---|
| `CeilingsAlways` (`CeilingsForAll`, `UnaskedForAll`, `SpecForAll`) | `CeilingsHold` | request; settings with positive ceilings |
| `EnvironmentsAlways` | `EnvironmentFiltered` | allowlist, host, mode |
| `ImagesAlways` | `ImagesByComponent` | image and prefixes, as sequences of characters |
| `PathsAlways` | `PathsConfined` | path and workspace |
| `SnapshotsAlways` | `SnapshotsAreExact` | walk that meets each path once, excludes, limits |
| `OutputsAlways` | `OutputIsCapped` | stream of chunks that are not empty, cap |
| `ArtifactsAlways` | `ArtifactsAreAccounted` | patterns, output of the shell, unreadable files, limit |
| `ComparisonsAlways` | `WinnersAreBest` | list of rows in which one id has one row, fewer than `Many` failing tests each |
| `SummariesAlways` | `SummariesAreTrue` | counts, runner and project |
| `ChangesInvariant`, `ExactAlways` | `ChangesAreExact` | workspace, baseline that may be cut off, snapshot with links, contents, budget of diffs, writes |
| `DiffsTrueAlways` | `DiffsAreTrue` | the same |

Those about an input are theorems about a state: an input of the type that is named, as long
as it likes, satisfies the property. They do not depend on what the `Draw` actions draw. The
hypotheses are what the code lets through: the settings class demands positive ceilings, a
chunk of a stream is never empty, `os.walk` meets a path once, and `Many` is the 999 of the code
(beyond it the ranking is not what the property says, see section 3).

Most of these functions are folds over sequences, and the library's induction theorems take a
formula, which the provers cannot instantiate. Induction is had from the least-number principle
instead (`LeastNumber`, from the well-foundedness of < on Nat), with a set in the place of the
formula (`Inductive`): the set of the k for which the claim holds after the first k elements.
`FoldExists` gives a fold its recursive function, without which the CHOOSE in `MapThenFoldSet`
and `FoldFunction` says nothing; `LastFoldExists` gives FoldLeft the order of its elements,
`FoldPrefixes` the value of the fold after each of them, and the `...Steps` lemma of each
function says that this value is what the function computes. Behind that is one invariant per
loop: `IsExact` (the environment after k entries), `Makes` (the names after k parts: those that
no ".." has taken back), `IsPartial` (the snapshot after k entries), `Capped` (the store after k
chunks), `Found` and `Collects` (the expansion and the collection). `ImageForAll` has to compare
a CHOOSE over slashes in two names (`PrefixParts`: the parts of a prefix are those of the name,
interval by interval); `WinnerForAll` that `sorted` puts somebody first before whom nobody goes
(`FirstOf`, `SortedStarts`), whatever figures are equal; `SummaryForAll` that a tool's output is
silent for the parsers before its own (`PrintsOnly`; `MixedKeeps`: and stays so when another
tool's output follows) and that the last count of each kind is the
one of the summary line (`PytestCounts`).

`IInv` of `Changes` adds to the types that a file nobody wrote is listed as it is
(`ListingInv`), that queue and changes together are what the comparison entered, each once
(`QueueInv`; `truncated` says exactly whether the queue was left), and that every change was built
from the baseline and from what a reading may have given (`ChangesInv`).

Only model-checked: the liveness properties `EveryTaskEnds`, `EveryCallReturns`, `EveryCallEnds`
and `EveryCommandReturns` (fairness and ENABLED are outside the prover's
reach). Every safety property of a passing run, invariants, action properties and refinements,
is stated by a theorem. The runs remain the check that the properties are not empty: each is
violated by a faulty variant of the code.

## 5. Not modelled

* The MCP server (`server.py`, `app.py`, `__main__.py`): each tool makes one manager call.
* `validate_project_path`: it resolves links on the host's disk; the model of a disk with links
  would be the library's, not the program's. `remove_tree` and `hash_file` are single calls.
* The tables of artifacts, baselines, change statistics and the audit trail in the repository:
  single statements. Whether overlapping inspections store older statistics last is the same
  question as for the rows (`AccessSerialised`).
* `PolicyEngine.clamp_timeout`: nothing calls it.
* Tar archives, the prune expression of `find`, parsing of `sha256sum` lines, the text of diffs
  and reports, log output, names of failing tests.
* Two server processes on one database: each sweeps the other's containers only if the rows do
  not claim them; nothing in the code coordinates them.
* A background command never settles the row of its experiment, and `startup` leaves RUNNING
  rows: no step of the code promises more, so no property does. The sweep reads 500 rows; the
  models read all.

Composition: `Experiments` sees a job only through its outcomes, which are those of `Jobs`;
`DockerExec` stands behind
`ExecutorReturns` and `ExecutorStopped` of `Jobs`, `DockerSandbox` behind `Provisioned` and
`Removed` of `Experiments`.
