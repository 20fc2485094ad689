-------------------------- MODULE DockerExecProofs --------------------------
(* Theorems about DockerExec, for any sandboxes, commands and threads, with a  *)
(* Docker that fails or not.                                                   *)
EXTENDS DockerExec, TLAPS

\* Where a command stands while nothing of it has reached the container.
Unsent(c) ==
  /\ pump[c] = "none"
  /\ shell[c] = "none" /\ ~noted[c] /\ ~pidFile[c]
  /\ kill[c] = "no" /\ cut[c] = "no"

\* The reader, the wrapper and the kill script of a command agree: the command starts with its
\* reader; a pid is noted once there is a shell; a reader is done when the stream is over,
\* which it stays because a container does not come back; a kill script that found the pid
\* file has ended the shell.
ProcessesAgree(c) ==
  /\ at[c] \in {"idle", "looking", "creating"} => Unsent(c)
  /\ pump[c] \in {"none", "queued"} => shell[c] = "none"
  /\ noted[c] => shell[c] # "none"
  /\ pidFile[c] => noted[c]
  /\ pump[c] = "done" => ~InContainer(c) \/ (noted[c] /\ shell[c] \in {"quiet", "gone"})
  /\ kill[c] = "ran" => shell[c] \in {"strays", "quiet", "gone"}

\* The task: a wait that ended by itself found the reader done or severed; one that was cut
\* short has asked for the kill script, or given it up, before it goes on; an exit code is that
\* of a wrapper that has ended.
TaskAgrees(c) ==
  /\ result[c] # "none" <=> at[c] = "done"
  /\ at[c] = "running" => cut[c] = "no"
  /\ at[c] = "killing" => cut[c] \in {"timeout", "cancel"}
  /\ at[c] = "draining" => cut[c] \in {"timeout", "cancel"} /\ kill[c] # "no"
  /\ at[c] \in {"cleaning", "inspecting", "done"} /\ result[c] # "lost" =>
       /\ cut[c] = "no" => pump[c] \in {"none", "done", "severed"}
       /\ cut[c] = "error" => kill[c] # "no" \/ pump[c] = "broken"
       /\ cut[c] \in {"timeout", "cancel"} => kill[c] # "no"
  /\ at[c] \in {"running", "killing", "draining", "cleaning", "inspecting"} => pump[c] # "none"
  /\ result[c] \in {"exit", "noexit"} => pump[c] \in {"done", "severed"}
  /\ result[c] = "exit" => WrapperOver(c)

Agreement == \A c \in Commands : ProcessesAgree(c) /\ TaskAgrees(c)

IInv == TypeOK /\ Agreement
-----------------------------------------------------------------------------
LEMMA InitTypeOK == Init => TypeOK
  BY DEF Init, NoCommands, TypeOK, Places, Pumps, Shells, Kills, Results

\* A step of one command changes its own entries only, and keeps their types.
LEMMA TaskTypeOK ==
  ASSUME TypeOK, NEW c \in Commands, Execute(c) \/ TaskStep(c)
  PROVE  TypeOK'
<1>1. CASE Execute(c)
  BY <1>1 DEF Execute, TypeOK, Places, Moves, processVars
<1>2. CASE Looks(c)
  BY <1>2 DEF Looks, TypeOK, Places, Results, Moves, Ends, processVars
<1>3. CASE Creates(c)
  BY <1>3 DEF Creates, TypeOK, Places, Pumps, Results, Moves, Ends, processVars
<1>4. CASE Completes(c)
  BY <1>4 DEF Completes, TypeOK, Places, Leaves, Moves, processVars
<1>5. CASE Breaks(c)
  BY <1>5 DEF Breaks, TypeOK, Places, Leaves, Moves, processVars
<1>6. CASE TimesOut(c)
  BY <1>6 DEF TimesOut, TypeOK, Places, Leaves, Moves, processVars
<1>7. CASE IsCancelled(c)
  BY <1>7 DEF IsCancelled, TypeOK, Places, Leaves, Moves, processVars
<1>8. CASE Signals(c)
  BY <1>8 DEF Signals, TypeOK, Places, Kills, Leaves, Moves, processVars
<1>9. CASE Drains(c)
  BY <1>9 DEF Drains, TypeOK, Places, Moves, processVars
<1>10. CASE Cleans(c)
  BY <1>10 DEF Cleans, TypeOK, Places, Results, Moves, Ends, processVars
<1>11. CASE Inspects(c)
  BY <1>11 DEF Inspects, TypeOK, Places, Results, Moves, Ends, processVars
<1>12. CASE IsCancelledElsewhere(c)
  BY <1>12 DEF IsCancelledElsewhere, TypeOK, Places, Results, Kills, Moves, Ends, Leaves, processVars
<1> QED
  BY <1>1, <1>2, <1>3, <1>4, <1>5, <1>6, <1>7, <1>8, <1>9, <1>10, <1>11, <1>12 DEF TaskStep

LEMMA ContainerTypeOK ==
  ASSUME TypeOK, NEW c \in Commands, ContainerStep(c)
  PROVE  TypeOK'
<1>1. CASE PumpStarts(c)
  BY <1>1 DEF PumpStarts, TypeOK, Pumps, Shells, taskVars
<1>2. CASE NotesPid(c)
  BY <1>2 DEF NotesPid, TypeOK, taskVars
<1>3. CASE ShellEnds(c)
  BY <1>3 DEF ShellEnds, TypeOK, Shells, taskVars
<1>4. CASE StraysEnd(c)
  BY <1>4 DEF StraysEnd, TypeOK, Shells, taskVars
<1>5. CASE StreamEnds(c)
  BY <1>5 DEF StreamEnds, TypeOK, Pumps, taskVars, processVars
<1>6. CASE StreamBreaks(c)
  BY <1>6 DEF StreamBreaks, TypeOK, Pumps, taskVars, processVars
<1>7. CASE KillRuns(c)
  BY <1>7 DEF KillRuns, TypeOK, taskVars, Kills, Shells
<1>8. CASE SweepRuns(c)
  BY <1>8 DEF SweepRuns, TypeOK, taskVars
<1> QED
  BY <1>1, <1>2, <1>3, <1>4, <1>5, <1>6, <1>7, <1>8 DEF ContainerStep

LEMMA ServerTypeOK ==
  ASSUME TypeOK, UNCHANGED up /\ ServerStops
  PROVE  TypeOK'
  BY DEF ServerStops, TypeOK, processVars, Places, Pumps, Results

LEMMA NextTypeOK == TypeOK /\ [Next]_vars => TypeOK'
<1> SUFFICES ASSUME TypeOK, [Next]_vars PROVE TypeOK'
  OBVIOUS
<1>1. CASE \E c \in Commands : Execute(c) \/ CommandStep(c)
  BY <1>1, TaskTypeOK, ContainerTypeOK DEF CommandStep
<1>2. CASE \E s \in Sandboxes : ContainerStarts(s) \/ ContainerGoes(s)
  BY <1>2 DEF ContainerStarts, ContainerGoes, TypeOK, taskVars, processVars
<1>3. CASE ServerStops /\ UNCHANGED up
  BY <1>3, ServerTypeOK
<1>4. CASE UNCHANGED vars
  BY <1>4 DEF vars, taskVars, processVars, TypeOK
<1> QED
  BY <1>1, <1>2, <1>3, <1>4 DEF Next

\* Type correctness: every variable of a command keeps its range.
THEOREM TypeCorrectness == Spec => []TypeOK
  BY InitTypeOK, NextTypeOK, PTL DEF Spec
-----------------------------------------------------------------------------
LEMMA InitAgreement == Init => Agreement
  BY DEF Init, NoCommands, Agreement, ProcessesAgree, TaskAgrees, Unsent, InContainer

\* The steps of the task of one command, seen from any command.
LEMMA TaskAgreement ==
  ASSUME IInv, NEW c \in Commands, Execute(c) \/ TaskStep(c), NEW d \in Commands
  PROVE  ProcessesAgree(d)' /\ TaskAgrees(d)'
<1> USE DEF IInv, TypeOK, Agreement, ProcessesAgree, TaskAgrees, Unsent, InContainer,
            WrapperOver, Pumps, Shells, processVars
<1>1. CASE Execute(c)
  BY <1>1 DEF Execute, Moves
<1>2. CASE Looks(c)
  BY <1>2 DEF Looks, Moves, Ends
<1>3. CASE Creates(c)
  BY <1>3 DEF Creates, Moves, Ends
<1>4. CASE Completes(c)
  BY <1>4 DEF Completes, Leaves, Moves
<1>5. CASE Breaks(c)
  BY <1>5 DEF Breaks, Leaves, Moves
<1>6. CASE TimesOut(c)
  BY <1>6 DEF TimesOut, Leaves, Moves
<1>7. CASE IsCancelled(c)
  BY <1>7 DEF IsCancelled, Leaves, Moves
<1>8. CASE Signals(c)
  BY <1>8 DEF Signals, Leaves, Moves
<1>9. CASE Drains(c)
  BY <1>9 DEF Drains, Moves
<1>10. CASE Cleans(c)
  BY <1>10 DEF Cleans, Moves, Ends
<1>11. CASE Inspects(c)
  BY <1>11 DEF Inspects, Moves, Ends
<1>12. CASE IsCancelledElsewhere(c)
  <2>1. CASE d = c /\ at[c] \in {"looking", "creating", "inspecting"}
    BY <1>12, <2>1 DEF IsCancelledElsewhere, Moves, Ends
  <2>2. CASE d = c /\ at[c] \in {"killing", "draining"}
    BY <1>12, <2>2 DEF IsCancelledElsewhere, Moves, Leaves
  <2>3. CASE d = c /\ at[c] = "cleaning"
    BY <1>12, <2>3 DEF IsCancelledElsewhere, Moves, Ends
  <2>4. CASE d # c
    BY <1>12, <2>4 DEF IsCancelledElsewhere, Moves, Ends, Leaves
  <2> QED
    BY <1>12, <2>1, <2>2, <2>3, <2>4 DEF IsCancelledElsewhere
<1> QED
  BY <1>1, <1>2, <1>3, <1>4, <1>5, <1>6, <1>7, <1>8, <1>9, <1>10, <1>11, <1>12 DEF TaskStep

\* The steps of its reader and its processes.
LEMMA ContainerAgreement ==
  ASSUME IInv, NEW c \in Commands, ContainerStep(c), NEW d \in Commands
  PROVE  ProcessesAgree(d)' /\ TaskAgrees(d)'
<1> USE DEF IInv, TypeOK, Agreement, ProcessesAgree, TaskAgrees, Unsent, InContainer,
            WrapperOver, Pumps, Shells, taskVars, processVars
<1>1. CASE PumpStarts(c)
  BY <1>1 DEF PumpStarts, Accepted
<1>2. CASE NotesPid(c)
  BY <1>2 DEF NotesPid
<1>3. CASE ShellEnds(c)
  BY <1>3 DEF ShellEnds
<1>4. CASE StraysEnd(c)
  BY <1>4 DEF StraysEnd
<1>5. CASE StreamEnds(c)
  BY <1>5 DEF StreamEnds, StreamOpen
<1>6. CASE StreamBreaks(c)
  BY <1>6 DEF StreamBreaks
<1>7. CASE KillRuns(c)
  BY <1>7 DEF KillRuns
<1>8. CASE SweepRuns(c)
  BY <1>8 DEF SweepRuns
<1> QED
  BY <1>1, <1>2, <1>3, <1>4, <1>5, <1>6, <1>7, <1>8 DEF ContainerStep

\* A container that comes or goes, and a server that stops.
LEMMA ServerAgreement ==
  ASSUME IInv, NEW d \in Commands,
         \/ \E s \in Sandboxes : ContainerStarts(s) \/ ContainerGoes(s)
         \/ ServerStops /\ UNCHANGED up
  PROVE  ProcessesAgree(d)' /\ TaskAgrees(d)'
<1> USE DEF IInv, TypeOK, Agreement, ProcessesAgree, TaskAgrees, Unsent, InContainer,
            WrapperOver, Pumps, Shells
<1>1. CASE \E s \in Sandboxes : ContainerStarts(s)
  <2>1. PICK s \in Sandboxes : ContainerStarts(s)
    BY <1>1
  <2>2. SandboxOf[d] = s => at[d] = "idle"
    BY <2>1 DEF ContainerStarts
  <2> QED
    BY <2>1, <2>2 DEF ContainerStarts, taskVars, processVars
<1>2. CASE \E s \in Sandboxes : ContainerGoes(s)
  BY <1>2 DEF ContainerGoes, taskVars, processVars
<1>3. CASE ServerStops /\ UNCHANGED up
  BY <1>3 DEF ServerStops, processVars
<1> QED
  BY <1>1, <1>2, <1>3

LEMMA NextIInv == IInv /\ [Next]_vars => IInv'
<1> SUFFICES ASSUME IInv, [Next]_vars PROVE IInv'
  OBVIOUS
<1>1. TypeOK'
  BY NextTypeOK DEF IInv
<1>2. ASSUME NEW d \in Commands PROVE ProcessesAgree(d)' /\ TaskAgrees(d)'
  <2>1. CASE \E c \in Commands : Execute(c) \/ CommandStep(c)
    BY <2>1, TaskAgreement, ContainerAgreement DEF CommandStep
  <2>2. CASE \E s \in Sandboxes : ContainerStarts(s) \/ ContainerGoes(s)
    BY <2>2, ServerAgreement
  <2>3. CASE ServerStops /\ UNCHANGED up
    BY <2>3, ServerAgreement
  <2>4. CASE UNCHANGED vars
    BY <2>4 DEF vars, taskVars, processVars, IInv, Agreement, ProcessesAgree, TaskAgrees, Unsent,
                InContainer, WrapperOver
  <2> QED
    BY <2>1, <2>2, <2>3, <2>4 DEF Next
<1> QED
  BY <1>1, <1>2 DEF IInv, Agreement

\* The inductive invariant.
THEOREM Invariance == Spec => []IInv
<1>1. Init => IInv
  BY InitTypeOK, InitAgreement DEF IInv
<1> QED
  BY <1>1, NextIInv, PTL DEF Spec

\* A command that outlives its answer is accounted for by its kill script, its lost connection
\* or a stop of the server.
THEOREM Survivors == Spec => []SurvivorsAreKnown
<1>1. IInv => SurvivorsAreKnown
  BY DEF IInv, TypeOK, Kills, Agreement, ProcessesAgree, TaskAgrees, Unsent, InContainer,
         Pumps, SurvivorsAreKnown
<1> QED
  BY <1>1, Invariance, PTL

\* An exit code is that of a command that has ended; whoever is told that a command is completed
\* has its thread back and, unless the connection was lost, all of its output.
THEOREM Completed == Spec => []CompletedIsOver
<1>1. IInv => CompletedIsOver
  BY DEF IInv, TypeOK, Agreement, ProcessesAgree, TaskAgrees, InContainer, CompletedIsOver,
         StreamOpen, WrapperOver
<1> QED
  BY <1>1, Invariance, PTL
=============================================================================
