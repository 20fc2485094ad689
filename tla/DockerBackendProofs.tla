------------------------- MODULE DockerBackendProofs -------------------------
(* The backend implements DockerExec: whatever happens to the sandboxes, the    *)
(* commands see containers that start before any command is sent to them, and   *)
(* that go.                                                                     *)
EXTENDS DockerBackend, DockerSandboxProofs

\* A command has been sent only to a sandbox whose handle is out.
SentWithHandle == \A c \in Commands : at[c] # "idle" => Handed(SandboxOf[c])

BackendInv == IInv /\ SentWithHandle /\ at \in [Commands -> Exec!Places]

LEMMA BackendInitInv == BackendInit => BackendInv
<1>1. BackendInit => IInv
  BY InitTypeOK, InitAgrees DEF BackendInit, IInv
<1>2. BackendInit => SentWithHandle
  BY DEF BackendInit, Exec!NoCommands, SentWithHandle
<1>3. BackendInit => at \in [Commands -> Exec!Places]
  BY DEF BackendInit, Exec!NoCommands, Exec!Places
<1> QED
  BY <1>1, <1>2, <1>3 DEF BackendInv

\* A handle that was answered stays answered.
LEMMA HandedStays ==
  ASSUME IInv, [Next]_vars, NEW s \in Sandboxes, Handed(s)
  PROVE  Handed(s)'
<1> USE DEF IInv, TypeOK, Handed
<1>1. CASE \E t \in Sandboxes : Request(t) \/ CallStep(t)
  BY <1>1 DEF Request, CallStep, StartCreate, EnsureImage, ResolveNetwork, MakeContainer,
     StartContainer, DiscardContainer, Unlink, Prepare, Upload, Abandon, StartDestroy,
     GetContainer, DropContainer, Disconnect, HandsOver, SafeRemove, DestroyEnds
<1>2. CASE StartupStep
  BY <1>2 DEF StartupStep, ListOrphans, SweepEnds, RemoveOrphan, callVars
<1>3. CASE CrashAndRestart
  BY <1>3 DEF CrashAndRestart
<1>4. CASE UNCHANGED vars
  BY <1>4 DEF vars, callVars
<1> QED
  BY <1>1, <1>2, <1>3, <1>4 DEF Next

\* What a step of the backend is for its sandboxes.
LEMMA StepOfSandboxes == [BackendNext]_backendVars => [Next]_vars
  BY DEF BackendNext, backendVars, SandboxStep, SendCommand, CommandStep, Crash, Next, CallStep

\* A step of the sandboxes starts a container no command has been sent to, ends one, or leaves
\* the set of running containers as it is.
LEMMA StepOfContainers ==
  ASSUME BackendInv, SandboxStep
  PROVE  \/ \E s \in Sandboxes : Exec!ContainerStarts(s) \/ Exec!ContainerGoes(s)
         \/ UNCHANGED <<Up, execVars>>
<1> USE DEF execVars, Exec!taskVars, Exec!processVars
<1>1. UNCHANGED execVars
  BY DEF SandboxStep
<1>2. ASSUME NEW s \in Sandboxes, Request(s) \/ CallStep(s)
      PROVE  \/ Exec!ContainerStarts(s) \/ Exec!ContainerGoes(s)
             \/ UNCHANGED Up
  <2>1. \A t \in Sandboxes : t # s => container'[t] = container[t]
    BY <1>2 DEF BackendInv, IInv, TypeOK, Request, CallStep, StartCreate, EnsureImage,
       ResolveNetwork, MakeContainer, StartContainer, DiscardContainer, Unlink, Prepare, Upload,
       Abandon, StartDestroy, GetContainer, DropContainer, Disconnect, SafeRemove, Becomes,
       dockerVars
  <2>2. CASE container[s] = "up"
    <3>1. Up' = Up \/ Up' = Up \ {s}
      BY <2>1, <2>2 DEF Up
    <3> QED
      BY <1>1, <2>2, <3>1 DEF Up, Exec!ContainerGoes
  <2>3. CASE container[s] # "up" /\ container'[s] = "up"
    <3>1. place[s] = "starting"
      BY <1>2, <2>3 DEF BackendInv, IInv, TypeOK, Request, CallStep, StartCreate, EnsureImage,
         ResolveNetwork, MakeContainer, StartContainer, DiscardContainer, Unlink, Prepare, Upload,
         Abandon, StartDestroy, GetContainer, DropContainer, Disconnect, SafeRemove, Becomes,
         dockerVars
    <3>2. \A c \in Commands : SandboxOf[c] = s => at[c] = "idle"
      BY <3>1 DEF BackendInv, IInv, SandboxAgrees, CallAgrees, Creating, SentWithHandle
    <3>3. Up' = Up \cup {s} /\ s \notin Up
      BY <2>1, <2>3 DEF Up
    <3> QED
      BY <1>1, <3>2, <3>3 DEF Exec!ContainerStarts
  <2>4. CASE container[s] # "up" /\ container'[s] # "up"
    BY <2>1, <2>4 DEF Up
  <2> QED
    BY <2>2, <2>3, <2>4
<1>3. ASSUME NEW s \in Sandboxes, RemoveOrphan(s)
      PROVE  Exec!ContainerGoes(s) \/ UNCHANGED Up
  <2>1. container' = container \/ container' = [container EXCEPT ![s] = "gone"]
    BY <1>3 DEF RemoveOrphan, Becomes
  <2>2. Up' = Up \/ (s \in Up /\ Up' = Up \ {s})
    BY <2>1 DEF Up, BackendInv, IInv, TypeOK
  <2> QED
    BY <1>1, <2>2 DEF Exec!ContainerGoes
<1>4. ASSUME ListOrphans \/ SweepEnds PROVE UNCHANGED Up
  BY <1>4 DEF ListOrphans, SweepEnds, dockerVars, Up
<1> QED
  BY <1>1, <1>2, <1>3, <1>4 DEF SandboxStep, StartupStep

\* Every step of the backend is a step of the commands, or none for them.
LEMMA StepOfCommands == BackendInv /\ [BackendNext]_backendVars => [Exec!Next]_(Exec!vars)
<1> SUFFICES ASSUME BackendInv, [BackendNext]_backendVars PROVE [Exec!Next]_(Exec!vars)
  OBVIOUS
<1> USE DEF Exec!vars, Exec!taskVars, Exec!processVars, execVars
<1>1. CASE SandboxStep
  BY <1>1, StepOfContainers DEF Exec!Next
<1>2. CASE \E c \in Commands : SendCommand(c) \/ CommandStep(c)
  BY <1>2 DEF SendCommand, CommandStep, Exec!Next
<1>3. CASE Crash
  BY <1>3 DEF Crash, CrashAndRestart, dockerVars, Up, Exec!Next
<1>4. CASE UNCHANGED backendVars
  BY <1>4 DEF backendVars, vars, dockerVars, Up
<1> QED
  BY <1>1, <1>2, <1>3, <1>4 DEF BackendNext

\* Commands are sent with a handle, and a handle stays answered.
LEMMA StepSentWithHandle ==
  ASSUME BackendInv, [BackendNext]_backendVars, NEW c \in Commands, at'[c] # "idle"
  PROVE  Handed(SandboxOf[c])'
<1> SandboxOf[c] \in Sandboxes
  BY BackendAssumption
<1>1. SUFFICES Handed(SandboxOf[c])
  BY HandedStays, StepOfSandboxes DEF BackendInv
<1>2. CASE at[c] # "idle"
  BY <1>2 DEF BackendInv, SentWithHandle
<1>3. CASE at[c] = "idle"
  <2>1. CASE UNCHANGED at
    BY <1>3, <2>1
  <2>2. CASE \E d \in Commands : SendCommand(d)
    <3>1. PICK d \in Commands : SendCommand(d)
      BY <2>2
    <3>2. d = c
      BY <1>3, <3>1 DEF BackendInv, SendCommand, Exec!Execute, Exec!Moves
    <3> QED
      BY <3>1, <3>2 DEF SendCommand
  <2>3. CASE \E d \in Commands : CommandStep(d)
    <3>1. PICK d \in Commands : Exec!CommandStep(d)
      BY <2>3 DEF CommandStep
    <3>2. at[d] # "idle" \/ UNCHANGED at
      BY <3>1 DEF Exec!CommandStep, Exec!TaskStep, Exec!ContainerStep, Exec!Looks, Exec!Creates,
         Exec!Completes, Exec!Breaks, Exec!TimesOut, Exec!IsCancelled, Exec!Signals, Exec!Drains,
         Exec!Cleans, Exec!Inspects, Exec!IsCancelledElsewhere, Exec!PumpStarts, Exec!NotesPid,
         Exec!ShellEnds, Exec!StraysEnd, Exec!StreamEnds, Exec!StreamBreaks, Exec!KillRuns,
         Exec!SweepRuns, Exec!taskVars
    <3>3. \A e \in Commands : e # d => at'[e] = at[e]
      BY <3>1 DEF BackendInv, Exec!CommandStep, Exec!TaskStep, Exec!ContainerStep,
         Exec!Looks, Exec!Creates, Exec!Completes, Exec!Breaks, Exec!TimesOut, Exec!IsCancelled,
         Exec!Signals, Exec!Drains, Exec!Cleans, Exec!Inspects, Exec!IsCancelledElsewhere,
         Exec!PumpStarts, Exec!NotesPid, Exec!ShellEnds, Exec!StraysEnd, Exec!StreamEnds,
         Exec!StreamBreaks, Exec!KillRuns, Exec!SweepRuns, Exec!taskVars, Exec!Moves, Exec!Ends,
         Exec!Leaves
    <3> QED
      BY <1>3, <3>2, <3>3
  <2>4. CASE Crash
    BY <1>3, <2>4 DEF Crash, Exec!ServerStops
  <2> QED
    BY <2>1, <2>2, <2>3, <2>4 DEF BackendNext, backendVars, execVars, SandboxStep
<1> QED
  BY <1>2, <1>3

LEMMA StepPlaces ==
  ASSUME BackendInv, [BackendNext]_backendVars
  PROVE  at' \in [Commands -> Exec!Places]
<1> USE DEF BackendInv, Exec!Places
<1>1. CASE \E c \in Commands : SendCommand(c)
  BY <1>1 DEF SendCommand, Exec!Execute, Exec!Moves
<1>2. CASE \E c \in Commands : CommandStep(c)
  BY <1>2 DEF CommandStep, Exec!CommandStep, Exec!TaskStep, Exec!ContainerStep, Exec!Looks,
     Exec!Creates, Exec!Completes, Exec!Breaks, Exec!TimesOut, Exec!IsCancelled, Exec!Signals,
     Exec!Drains, Exec!Cleans, Exec!Inspects, Exec!IsCancelledElsewhere, Exec!PumpStarts,
     Exec!NotesPid, Exec!ShellEnds, Exec!StraysEnd, Exec!StreamEnds, Exec!StreamBreaks,
     Exec!KillRuns, Exec!SweepRuns,
     Exec!taskVars, Exec!Moves, Exec!Ends, Exec!Leaves
<1>3. CASE Crash
  BY <1>3 DEF Crash, Exec!ServerStops
<1>4. CASE UNCHANGED at
  BY <1>4
<1> QED
  BY <1>1, <1>2, <1>3, <1>4 DEF BackendNext, SandboxStep, backendVars, execVars

LEMMA BackendNextInv == BackendInv /\ [BackendNext]_backendVars => BackendInv'
<1> SUFFICES ASSUME BackendInv, [BackendNext]_backendVars PROVE BackendInv'
  OBVIOUS
<1>1. IInv'
  BY NextIInv, StepOfSandboxes DEF BackendInv
<1>2. SentWithHandle'
  BY StepSentWithHandle DEF SentWithHandle
<1>3. (at \in [Commands -> Exec!Places])'
  BY StepPlaces DEF Exec!Places
<1> QED
  BY <1>1, <1>2, <1>3 DEF BackendInv

\* The inductive invariant of the composition.
THEOREM BackendInvariance == BackendSpec => []BackendInv
  BY BackendInitInv, BackendNextInv, PTL DEF BackendSpec
-----------------------------------------------------------------------------
\* The backend implements DockerExec.
THEOREM BackendImplementsExec == BackendSpec => CommandsSpec
<1>1. BackendInit => Exec!Init
  <2>1. BackendInit => Up \in SUBSET Sandboxes
    BY DEF Up
  <2> QED
    BY <2>1 DEF BackendInit, Exec!Init
<1> QED
  BY <1>1, StepOfCommands, BackendInvariance, PTL DEF BackendSpec, CommandsSpec, Exec!Spec
-----------------------------------------------------------------------------
(* What DockerExecProofs proves of the commands holds of the backend: its      *)
(* module is instantiated with the containers that run, and the two instances  *)
(* of DockerExec say the same, definition by definition.                       *)

Proved == INSTANCE DockerExecProofs WITH up <- Up

LEMMA SameState ==
  /\ Exec!Init <=> Proved!Init
  /\ Exec!FreeThread <=> Proved!FreeThread
  BY DEF Exec!Init, Exec!NoCommands, Exec!FreeThread, Exec!Reading, Exec!Cardinality,
         Proved!Init, Proved!NoCommands, Proved!FreeThread, Proved!Reading, Proved!Cardinality

LEMMA SameTask ==
  ASSUME NEW c \in Commands, Exec!Execute(c) \/ Exec!TaskStep(c)
  PROVE  Proved!Execute(c) \/ Proved!TaskStep(c)
<1> USE SameState
    DEF Exec!Accepted, Exec!Refused, Exec!InContainer, Exec!Moves, Exec!Ends, Exec!Leaves,
        Exec!processVars, Proved!Accepted, Proved!Refused, Proved!InContainer, Proved!Moves,
        Proved!Ends, Proved!Leaves, Proved!processVars
<1>1. Exec!Execute(c) => Proved!Execute(c)
  BY DEF Exec!Execute, Proved!Execute
<1>2. Exec!Looks(c) => Proved!Looks(c)
  BY DEF Exec!Looks, Proved!Looks
<1>3. Exec!Creates(c) => Proved!Creates(c)
  BY DEF Exec!Creates, Proved!Creates
<1>4. Exec!Completes(c) => Proved!Completes(c)
  BY DEF Exec!Completes, Proved!Completes
<1>5. Exec!Breaks(c) => Proved!Breaks(c)
  BY DEF Exec!Breaks, Proved!Breaks
<1>6. Exec!TimesOut(c) => Proved!TimesOut(c)
  BY DEF Exec!TimesOut, Proved!TimesOut
<1>7. Exec!IsCancelled(c) => Proved!IsCancelled(c)
  BY DEF Exec!IsCancelled, Proved!IsCancelled
<1>8. Exec!Signals(c) => Proved!Signals(c)
  BY DEF Exec!Signals, Proved!Signals
<1>9. Exec!Drains(c) => Proved!Drains(c)
  BY DEF Exec!Drains, Proved!Drains
<1>10. Exec!Cleans(c) => Proved!Cleans(c)
  BY DEF Exec!Cleans, Proved!Cleans
<1>11. Exec!Inspects(c) => Proved!Inspects(c)
  BY DEF Exec!Inspects, Exec!WrapperOver, Proved!Inspects, Proved!WrapperOver
<1>12. Exec!IsCancelledElsewhere(c) => Proved!IsCancelledElsewhere(c)
  BY DEF Exec!IsCancelledElsewhere, Proved!IsCancelledElsewhere
<1> QED
  BY <1>1, <1>2, <1>3, <1>4, <1>5, <1>6, <1>7, <1>8, <1>9, <1>10, <1>11, <1>12
  DEF Exec!TaskStep, Proved!TaskStep

LEMMA SameContainer ==
  ASSUME NEW c \in Commands, Exec!ContainerStep(c)
  PROVE  Proved!ContainerStep(c)
<1> USE SameState
    DEF Exec!Accepted, Exec!Refused, Exec!InContainer, Exec!StreamOpen, Exec!taskVars,
        Exec!processVars, Proved!Accepted, Proved!Refused, Proved!InContainer,
        Proved!StreamOpen, Proved!taskVars, Proved!processVars
<1>1. Exec!PumpStarts(c) => Proved!PumpStarts(c)
  BY DEF Exec!PumpStarts, Proved!PumpStarts
<1>2. Exec!NotesPid(c) => Proved!NotesPid(c)
  BY DEF Exec!NotesPid, Proved!NotesPid
<1>3. Exec!ShellEnds(c) => Proved!ShellEnds(c)
  BY DEF Exec!ShellEnds, Proved!ShellEnds
<1>4. Exec!StraysEnd(c) => Proved!StraysEnd(c)
  BY DEF Exec!StraysEnd, Proved!StraysEnd
<1>5. Exec!StreamEnds(c) => Proved!StreamEnds(c)
  BY DEF Exec!StreamEnds, Proved!StreamEnds
<1>6. Exec!StreamBreaks(c) => Proved!StreamBreaks(c)
  BY DEF Exec!StreamBreaks, Proved!StreamBreaks
<1>7. Exec!KillRuns(c) => Proved!KillRuns(c)
  BY DEF Exec!KillRuns, Proved!KillRuns
<1>8. Exec!SweepRuns(c) => Proved!SweepRuns(c)
  BY DEF Exec!SweepRuns, Proved!SweepRuns
<1> QED
  BY <1>1, <1>2, <1>3, <1>4, <1>5, <1>6, <1>7, <1>8
  DEF Exec!ContainerStep, Proved!ContainerStep

LEMMA SameNext == Exec!Next => Proved!Next
<1>1. ASSUME NEW c \in Commands, Exec!Execute(c) \/ Exec!CommandStep(c)
      PROVE  Proved!Execute(c) \/ Proved!CommandStep(c)
  BY <1>1, SameTask, SameContainer DEF Exec!CommandStep, Proved!CommandStep
<1>2. ASSUME NEW s \in Sandboxes, Exec!ContainerStarts(s) \/ Exec!ContainerGoes(s)
      PROVE  Proved!ContainerStarts(s) \/ Proved!ContainerGoes(s)
  BY <1>2 DEF Exec!ContainerStarts, Exec!ContainerGoes, Exec!taskVars, Exec!processVars,
     Proved!ContainerStarts, Proved!ContainerGoes, Proved!taskVars, Proved!processVars
<1>3. Exec!ServerStops => Proved!ServerStops
  BY DEF Exec!ServerStops, Exec!processVars, Proved!ServerStops, Proved!processVars
<1> QED
  BY <1>1, <1>2, <1>3 DEF Exec!Next, Proved!Next

LEMMA BackendIsProved == BackendSpec => Proved!Spec
<1>1. Exec!Init => Proved!Init
  BY SameState
<1>2. [Exec!Next]_(Exec!vars) => [Proved!Next]_(Proved!vars)
  BY SameNext DEF Exec!vars, Exec!taskVars, Exec!processVars, Proved!vars, Proved!taskVars,
     Proved!processVars
<1> QED
  BY <1>1, <1>2, BackendImplementsExec, PTL DEF CommandsSpec, Exec!Spec, Proved!Spec

\* interface.py's promise of the timeout, for the backend as a whole: whatever create, destroy,
\* the sweep and a crash do to the containers, a command that outlives its answer is accounted
\* for by its kill script, its lost connection or a stop of the server.
THEOREM BackendSurvivors == BackendSpec => []SurvivorsAreKnown
<1>1. Proved!SurvivorsAreKnown => SurvivorsAreKnown
  BY DEF SurvivorsAreKnown, Exec!SurvivorsAreKnown, Exec!InContainer,
         Proved!SurvivorsAreKnown, Proved!InContainer
<1> QED
  BY <1>1, BackendIsProved, Proved!Survivors, PTL

\* An exit code the backend answers is that of a command that has ended; a command that is told
\* to be completed has given its thread back and, unless its connection was lost, nothing runs
\* that could add to its output.
THEOREM BackendCompleted == BackendSpec => []CompletedIsOver
<1>1. Proved!CompletedIsOver => CompletedIsOver
  BY DEF CompletedIsOver, Exec!CompletedIsOver, Exec!StreamOpen, Exec!WrapperOver,
         Exec!InContainer, Proved!CompletedIsOver, Proved!StreamOpen, Proved!WrapperOver,
         Proved!InContainer
<1> QED
  BY <1>1, BackendIsProved, Proved!Completed, PTL
=============================================================================
