---------------------------- MODULE DockerBackend ----------------------------
(* The Docker backend as a whole: DockerSandbox makes and removes the         *)
(* containers in which DockerExec runs commands; both share the worker        *)
(* threads, and one process.                                                  *)
EXTENDS DockerSandbox

CONSTANTS Commands, SandboxOf, Threads, DockerMayFail

ASSUME BackendAssumption ==
  /\ SandboxOf \in [Commands -> Sandboxes]
  /\ Threads \in Nat \ {0}
  /\ DockerMayFail \in BOOLEAN

VARIABLES at, cut, pump, noted, shell, pidFile, kill, sweep, result

Exec == INSTANCE DockerExec WITH up <- Up

execVars == <<at, cut, pump, noted, shell, pidFile, kill, sweep, result>>
backendVars == <<vars, execVars>>

BackendInit == Init /\ Exec!NoCommands

\* A request to Docker needs a worker thread, a new call and a cancellation do not.
SandboxStep ==
  /\ \/ \E s \in Sandboxes : Request(s) \/ (Exec!FreeThread /\ CallStep(s))
     \/ StartupStep
  /\ UNCHANGED execVars

\* Faulty variant: the handle is given out while create is still at work.
SendCommandEarly(c) ==
  /\ RequestsServed
  /\ UNCHANGED vars
  /\ Exec!Execute(c)

\* A command is sent with the handle create has answered.
SendCommand(c) ==
  /\ RequestsServed
  /\ Handed(SandboxOf[c])
  /\ UNCHANGED vars
  /\ Exec!Execute(c)

CommandStep(c) == UNCHANGED vars /\ Exec!CommandStep(c)

Crash == CrashAndRestart /\ Exec!ServerStops

BackendNext ==
  \/ SandboxStep
  \/ \E c \in Commands : SendCommand(c) \/ CommandStep(c)
  \/ Crash

BackendSpec == BackendInit /\ [][BackendNext]_backendVars

\* As in DockerExec; nothing is assumed of the sandboxes.
BackendFairness ==
  \A c \in Commands :
    /\ WF_backendVars(UNCHANGED vars /\ Exec!PumpStarts(c))
    /\ WF_backendVars(UNCHANGED vars /\ Exec!StreamEnds(c))
    /\ WF_backendVars(UNCHANGED vars /\ Exec!Proceeds(c))
-----------------------------------------------------------------------------
(* Properties of the composition. *)

\* The commands of the backend behave as DockerExec says of commands in containers that come
\* and go: whatever create, destroy, the sweep and a crash do to a container.
CommandsSpec == Exec!Spec

SurvivorsAreKnown == Exec!SurvivorsAreKnown
CompletedIsOver == Exec!CompletedIsOver
EveryCommandReturns == Exec!EveryCommandReturns
=============================================================================
