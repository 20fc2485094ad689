----------------------------- MODULE DockerExec -----------------------------
(* sandbox/docker.py: commands in containers. One command is the task of its *)
(* _exec, the reader of its output on a worker thread, a wrapper shell and   *)
(* the command's own shell in the container, and two detached scripts.       *)
EXTENDS Integers, FiniteSets

CONSTANTS
  Sandboxes,
  Commands,
  SandboxOf,       \* the sandbox a command is sent to
  Threads,         \* worker threads of the event loop's default executor
  DockerMayFail    \* whether a request may be refused or lost, and a stream drop

VARIABLES
  up,        \* the sandboxes whose container runs
  at,        \* where the task of _exec stands
  cut,       \* how the wait for the reader ended: "no", "timeout", "cancel", "error"
  pump,      \* the reader: see Pumps
  noted,     \* whether the wrapper has written the pid file
  shell,     \* the command's shell: see Shells
  pidFile,   \* whether the pid file exists
  kill,      \* the kill script: see Kills
  sweep,     \* the script that removes the pid file: "no", "asked", "over"
  result     \* what the caller got

taskVars == <<at, cut, result>>
processVars == <<noted, shell, pidFile>>
vars == <<up, taskVars, pump, processVars, kill, sweep>>

Places == {"idle", "looking", "creating", "running", "killing", "draining", "cleaning",
           "inspecting", "done"}

\* The reader waits for a thread; reads; came to the end of the stream; got an exception; or
\* was told of an end that is none, because the connection ended (docker-py does not tell).
Pumps == {"none", "queued", "reading", "done", "broken", "severed"}

\* When the shell has ended, children may run on: one at least that holds the stream, or only
\* such as have their output elsewhere.
Shells == {"none", "runs", "strays", "quiet", "gone"}

\* What became of the kill script: never asked for; asked for and not yet run; run with the
\* pid file there; run too early or too late for it; refused by Docker; given up by a
\* cancellation while the request was on its way.
Kills == {"no", "asked", "ran", "missed", "refused", "interrupted"}
Results == {"none", "exit", "noexit", "timeout", "cancelled", "error", "lost"}

TypeOK ==
  /\ up \subseteq Sandboxes
  /\ at \in [Commands -> Places]
  /\ cut \in [Commands -> {"no", "timeout", "cancel", "error"}]
  /\ pump \in [Commands -> Pumps]
  /\ noted \in [Commands -> BOOLEAN]
  /\ shell \in [Commands -> Shells]
  /\ pidFile \in [Commands -> BOOLEAN]
  /\ kill \in [Commands -> Kills]
  /\ sweep \in [Commands -> {"no", "asked", "over"}]
  /\ result \in [Commands -> Results]

\* The state of the commands when none has been sent.
NoCommands ==
  /\ at = [c \in Commands |-> "idle"]
  /\ cut = [c \in Commands |-> "no"]
  /\ pump = [c \in Commands |-> "none"]
  /\ noted = [c \in Commands |-> FALSE]
  /\ shell = [c \in Commands |-> "none"]
  /\ pidFile = [c \in Commands |-> FALSE]
  /\ kill = [c \in Commands |-> "no"]
  /\ sweep = [c \in Commands |-> "no"]
  /\ result = [c \in Commands |-> "none"]

Init == up \in SUBSET Sandboxes /\ NoCommands
-----------------------------------------------------------------------------
InContainer(c) == SandboxOf[c] \in up

\* A reader holds its thread until the stream ends; every other call on a worker thread is
\* short, one step here, and needs a thread that is free.
Reading == {c \in Commands : pump[c] = "reading"}
FreeThread == Cardinality(Reading) < Threads

\* Docker keeps the stream open while the wrapper or a process that holds it runs.
StreamOpen(c) ==
  InContainer(c) /\ pump[c] # "none" /\ (~noted[c] \/ shell[c] \in {"runs", "strays"})

\* The wrapper has noted the pid and has waited for the shell.
WrapperOver(c) == noted[c] /\ shell[c] \notin {"none", "runs"}

\* A request for the container fails without it, and when the daemon refuses.
Refused(c) == DockerMayFail \/ ~InContainer(c)
Accepted(c) == InContainer(c)

Moves(c, place) == at' = [at EXCEPT ![c] = place]

Ends(c, outcome) ==
  /\ Moves(c, "done")
  /\ result' = [result EXCEPT ![c] = outcome]

\* The handler of the result, the timeout, the cancellation or the error is left for `place`.
Leaves(c, why, place) ==
  /\ cut' = [cut EXCEPT ![c] = why]
  /\ Moves(c, place)
  /\ UNCHANGED result
-----------------------------------------------------------------------------
(* The task. *)

Execute(c) ==
  /\ at[c] = "idle"
  /\ Moves(c, "looking")
  /\ UNCHANGED <<up, cut, result, pump, processVars, kill, sweep>>

\* _get_container
Looks(c) ==
  /\ at[c] = "looking"
  /\ FreeThread
  /\ \/ Accepted(c) /\ Moves(c, "creating") /\ UNCHANGED result
     \/ Refused(c) /\ Ends(c, "error")
  /\ UNCHANGED <<up, cut, pump, processVars, kill, sweep>>

\* exec_create; the reader is handed to the thread pool.
Creates(c) ==
  /\ at[c] = "creating"
  /\ FreeThread
  /\ \/ /\ Accepted(c)
        /\ Moves(c, "running")
        /\ pump' = [pump EXCEPT ![c] = "queued"]
        /\ UNCHANGED result
     \/ Refused(c) /\ Ends(c, "error") /\ UNCHANGED pump
  /\ UNCHANGED <<up, cut, processVars, kill, sweep>>

\* Faulty variant: waits for the shell and not for the reader.
CompletesEarly(c) ==
  /\ at[c] = "running" /\ pump[c] # "queued" /\ WrapperOver(c)
  /\ Leaves(c, "no", "cleaning")
  /\ UNCHANGED <<up, pump, processVars, kill, sweep>>

\* wait_for returns: the reader came to what it takes for the end of the stream.
Completes(c) ==
  /\ at[c] = "running" /\ pump[c] \in {"done", "severed"}
  /\ Leaves(c, "no", "cleaning")
  /\ UNCHANGED <<up, pump, processVars, kill, sweep>>

\* The reader's exception passes the handlers of timeout and cancellation by.
Breaks(c) ==
  /\ at[c] = "running" /\ pump[c] = "broken"
  /\ Leaves(c, "error", "cleaning")
  /\ UNCHANGED <<up, pump, processVars, kill, sweep>>

\* Faulty variant: the command is left alone.
TimesOutSilently(c) ==
  /\ at[c] = "running"
  /\ Leaves(c, "timeout", "cleaning")
  /\ UNCHANGED <<up, pump, processVars, kill, sweep>>

\* The timeout runs from the moment the reader is queued, and may fire when it is done.
TimesOut(c) ==
  /\ at[c] = "running"
  /\ Leaves(c, "timeout", "killing")
  /\ UNCHANGED <<up, pump, processVars, kill, sweep>>

\* The job is cancelled while the command runs.
IsCancelled(c) ==
  /\ at[c] = "running"
  /\ Leaves(c, "cancel", "killing")
  /\ UNCHANGED <<up, pump, processVars, kill, sweep>>

\* _signal_pid: the script is started detached. A refusal is swallowed; an exception of the
\* HTTP layer is not, and takes the place of the timeout or the cancellation.
Signals(c) ==
  /\ at[c] = "killing"
  /\ FreeThread
  /\ \/ Accepted(c) /\ kill' = [kill EXCEPT ![c] = "asked"]
     \/ Refused(c) /\ kill' = [kill EXCEPT ![c] = "refused"]
  /\ \/ Moves(c, "draining") /\ UNCHANGED <<cut, result>>
     \/ DockerMayFail /\ Leaves(c, "error", "cleaning")
  /\ UNCHANGED <<up, pump, processVars, sweep>>

\* Faulty variant: waits for the reader as long as it takes.
DrainsPatiently(c) ==
  /\ at[c] = "draining" /\ pump[c] \in {"done", "broken", "severed"}
  /\ Moves(c, "cleaning")
  /\ UNCHANGED <<up, cut, result, pump, processVars, kill, sweep>>

\* _await_pump: the reader is over, or its 15 seconds are.
Drains(c) ==
  /\ at[c] = "draining"
  /\ Moves(c, "cleaning")
  /\ UNCHANGED <<up, cut, result, pump, processVars, kill, sweep>>

\* _cleanup_pid_file, in the `finally`; then an exception goes on, be it one of its own.
Cleans(c) ==
  /\ at[c] = "cleaning"
  /\ FreeThread
  /\ \/ Accepted(c) /\ sweep' = [sweep EXCEPT ![c] = "asked"]
     \/ Refused(c) /\ UNCHANGED sweep
  /\ \/ cut[c] \in {"no", "timeout"} /\ Moves(c, "inspecting") /\ UNCHANGED result
     \/ cut[c] = "cancel" /\ Ends(c, "cancelled")
     \/ (cut[c] = "error" \/ DockerMayFail) /\ Ends(c, "error")
  /\ UNCHANGED <<up, cut, pump, processVars, kill>>

\* _exec_exit_code: the wrapper's code, if it has ended; a command that timed out has none. An
\* exception of the HTTP layer is the call's.
Inspects(c) ==
  /\ at[c] = "inspecting"
  /\ FreeThread
  /\ \/ cut[c] = "timeout" /\ Ends(c, "timeout")
     \/ cut[c] = "no" /\ Accepted(c) /\ Ends(c, IF WrapperOver(c) THEN "exit" ELSE "noexit")
     \/ cut[c] = "no" /\ Refused(c) /\ Ends(c, "noexit")
     \/ DockerMayFail /\ Ends(c, "error")
  /\ UNCHANGED <<up, cut, pump, processVars, kill, sweep>>

\* A cancellation outside the wait: before the command is started, or in a later await. There
\* only the `finally` is left to run, and not even that from inside itself. The request that
\* was on its way may still be served.
IsCancelledElsewhere(c) ==
  /\ \/ at[c] \in {"looking", "creating", "inspecting"} /\ Ends(c, "cancelled")
        /\ UNCHANGED <<cut, kill, sweep>>
     \/ /\ at[c] = "killing"
        /\ Leaves(c, "cancel", "cleaning")
        /\ \/ Accepted(c) /\ kill' = [kill EXCEPT ![c] = "asked"]
           \/ kill' = [kill EXCEPT ![c] = "interrupted"]
        /\ UNCHANGED sweep
     \/ at[c] = "draining" /\ Leaves(c, "cancel", "cleaning") /\ UNCHANGED <<kill, sweep>>
     \/ /\ at[c] = "cleaning" /\ Ends(c, "cancelled")
        /\ \/ Accepted(c) /\ sweep' = [sweep EXCEPT ![c] = "asked"]
           \/ UNCHANGED sweep
        /\ UNCHANGED <<cut, kill>>
  /\ UNCHANGED <<up, pump, processVars>>
-----------------------------------------------------------------------------
(* The reader and the processes in the container. *)

\* _pump_output gets a thread: exec_start starts the wrapper, which starts the command.
PumpStarts(c) ==
  /\ pump[c] = "queued"
  /\ FreeThread
  /\ \/ /\ Accepted(c)
        /\ pump' = [pump EXCEPT ![c] = "reading"]
        /\ shell' = [shell EXCEPT ![c] = "runs"]
     \/ Refused(c) /\ pump' = [pump EXCEPT ![c] = "broken"] /\ UNCHANGED shell
  /\ UNCHANGED <<up, taskVars, noted, pidFile, kill, sweep>>

\* The wrapper writes the pid of the shell it has started.
NotesPid(c) ==
  /\ InContainer(c) /\ shell[c] # "none" /\ ~noted[c]
  /\ noted' = [noted EXCEPT ![c] = TRUE]
  /\ pidFile' = [pidFile EXCEPT ![c] = TRUE]
  /\ UNCHANGED <<up, taskVars, pump, shell, kill, sweep>>

\* The shell ends; what it started in the background may stay.
ShellEnds(c) ==
  /\ InContainer(c) /\ shell[c] = "runs"
  /\ \E rest \in {"strays", "quiet", "gone"} : shell' = [shell EXCEPT ![c] = rest]
  /\ UNCHANGED <<up, taskVars, pump, noted, pidFile, kill, sweep>>

StraysEnd(c) ==
  /\ InContainer(c)
  /\ \/ shell[c] = "strays" /\ shell' = [shell EXCEPT ![c] = "quiet"]
     \/ shell[c] \in {"strays", "quiet"} /\ shell' = [shell EXCEPT ![c] = "gone"]
  /\ UNCHANGED <<up, taskVars, pump, noted, pidFile, kill, sweep>>

StreamEnds(c) ==
  /\ pump[c] = "reading" /\ ~StreamOpen(c)
  /\ pump' = [pump EXCEPT ![c] = "done"]
  /\ UNCHANGED <<up, taskVars, processVars, kill, sweep>>

\* The connection is lost, with an exception or without one.
StreamBreaks(c) ==
  /\ pump[c] = "reading" /\ DockerMayFail
  /\ \E end \in {"broken", "severed"} : pump' = [pump EXCEPT ![c] = end]
  /\ UNCHANGED <<up, taskVars, processVars, kill, sweep>>

\* TERM, then KILL, to the shell whose pid is in the file; its children are not signalled.
KillRuns(c) ==
  /\ InContainer(c) /\ kill[c] = "asked"
  /\ \/ /\ pidFile[c]
        /\ kill' = [kill EXCEPT ![c] = "ran"]
        /\ \/ /\ shell[c] = "runs"
              /\ \E rest \in {"strays", "quiet", "gone"} : shell' = [shell EXCEPT ![c] = rest]
           \/ shell[c] # "runs" /\ UNCHANGED shell
     \/ ~pidFile[c] /\ kill' = [kill EXCEPT ![c] = "missed"] /\ UNCHANGED shell
  /\ UNCHANGED <<up, taskVars, pump, noted, pidFile, sweep>>

SweepRuns(c) ==
  /\ InContainer(c) /\ sweep[c] = "asked"
  /\ sweep' = [sweep EXCEPT ![c] = "over"]
  /\ pidFile' = [pidFile EXCEPT ![c] = FALSE]
  /\ UNCHANGED <<up, taskVars, pump, noted, shell, kill>>
-----------------------------------------------------------------------------
(* The rest of the server. *)

\* A container starts before any command is sent to it, and never again.
ContainerStarts(s) ==
  /\ s \notin up
  /\ \A c \in Commands : SandboxOf[c] = s => at[c] = "idle"
  /\ up' = up \cup {s}
  /\ UNCHANGED <<taskVars, pump, processVars, kill, sweep>>

ContainerGoes(s) ==
  /\ s \in up
  /\ up' = up \ {s}
  /\ UNCHANGED <<taskVars, pump, processVars, kill, sweep>>

\* The server's process ends with its tasks and threads; the containers go on.
ServerStops ==
  /\ at' = [c \in Commands |-> IF at[c] \in {"idle", "done"} THEN at[c] ELSE "done"]
  /\ result' = [c \in Commands |-> IF at[c] \in {"idle", "done"} THEN result[c] ELSE "lost"]
  /\ pump' = [c \in Commands |-> IF pump[c] \in {"queued", "reading"} THEN "broken" ELSE pump[c]]
  /\ UNCHANGED <<cut, processVars, kill, sweep>>

TaskStep(c) ==
  \/ Looks(c) \/ Creates(c) \/ Completes(c) \/ Breaks(c) \/ TimesOut(c) \/ IsCancelled(c)
  \/ Signals(c) \/ Drains(c) \/ Cleans(c) \/ Inspects(c) \/ IsCancelledElsewhere(c)

ContainerStep(c) ==
  \/ PumpStarts(c) \/ NotesPid(c) \/ ShellEnds(c) \/ StraysEnd(c) \/ StreamEnds(c)
  \/ StreamBreaks(c) \/ KillRuns(c) \/ SweepRuns(c)

CommandStep(c) == TaskStep(c) \/ ContainerStep(c)

Next ==
  \/ \E c \in Commands : Execute(c) \/ CommandStep(c)
  \/ \E s \in Sandboxes : ContainerStarts(s) \/ ContainerGoes(s)
  \/ ServerStops /\ UNCHANGED up

Spec == Init /\ [][Next]_vars

\* The loop runs what is ready, the timeout and the 15 seconds of _await_pump end, Docker
\* answers a request that has a thread, and a stream that is over is seen to be. A command
\* need never end by itself, and nothing is assumed of cancellations.
Proceeds(c) ==
  \/ Looks(c) \/ Creates(c) \/ Completes(c) \/ Breaks(c) \/ TimesOut(c) \/ Signals(c)
  \/ Drains(c) \/ Cleans(c) \/ Inspects(c)

CommandFairness(c) ==
  WF_vars(Proceeds(c)) /\ WF_vars(PumpStarts(c)) /\ WF_vars(StreamEnds(c))

FairSpec == Spec /\ \A c \in Commands : CommandFairness(c)
-----------------------------------------------------------------------------
(* Properties. *)

\* interface.py: execute "must enforce timeout by terminating the process". A command that
\* still runs, or has yet to start, when its caller has the answer is one whose kill script
\* did not run yet, came when no pid file was there, was refused by Docker or was interrupted
\* by a second cancellation; or it was given up, by its end or an error, because the connection
\* was lost; or the server stopped.
SurvivorsAreKnown ==
  \A c \in Commands :
    at[c] = "done" /\ InContainer(c) /\ (shell[c] = "runs" \/ pump[c] = "queued") =>
      \/ kill[c] \in {"asked", "missed", "refused", "interrupted"}
      \/ cut[c] \in {"no", "error"} /\ pump[c] \in {"broken", "severed"}
      \/ result[c] = "lost"

\* A command that is reported with an exit code has ended, and is not merely about to. One
\* that is reported as completed, with a code or without, has given its thread back, and if
\* its connection was not lost nothing runs any more that could add to its output: what the
\* caller got is all of it. (Background children with their output elsewhere may run on.)
CompletedIsOver ==
  \A c \in Commands :
    /\ result[c] = "exit" => WrapperOver(c)
    /\ result[c] \in {"exit", "noexit"} =>
         pump[c] = "severed" \/ (pump[c] = "done" /\ ~StreamOpen(c))

\* execution/manager.py: the timeout still applies, "so this cannot hang the MCP request
\* indefinitely". Every command that is sent gets an answer, unless the readers of commands
\* that do not end keep all the worker threads for ever: then nothing can be killed either.
EveryCommandReturns ==
  \A c \in Commands : (at[c] = "looking") ~> (at[c] = "done" \/ []~FreeThread)
=============================================================================
