--------------------------- MODULE MCDockerBackend ---------------------------
(* A small instance of DockerBackend for TLC.                                *)
EXTENDS DockerBackend

CONSTANTS s1, s2, c1, c2

\* Every command is sent to the first sandbox.
ToTheFirst == [c \in Commands |-> s1]

\* The two commands are alone: no other call, no crash, no cancellation; they do what they
\* are asked to or time out. That is enough for them to take every worker thread.
CommandsAlone ==
  /\ place[s1] = "open" /\ Up = {s1} /\ crashes = 0 /\ spoiled = {}
  /\ \A c \in Commands :
       /\ cut[c] \in {"no", "timeout"} /\ kill[c] \in {"no", "asked", "ran", "missed"}
       /\ pump[c] \notin {"broken", "severed"} /\ shell[c] \notin {"strays", "quiet"}

\* The bound of the instance: a second sandbox is made, and a sandbox destroyed a second time,
\* as long as no command is sent; a command is sent to a sandbox without a network of its own,
\* for no step of a command looks at networks; a second one is sent when there is nothing else.
\* Two creates meet over the name of a network, a create or destroy meets a command in the
\* container, two commands meet over the worker threads; nothing needs more.
Bound ==
  /\ \/ \A c \in Commands : at[c] = "idle"
     \/ /\ place[s2] = "idle" /\ name[s1] = Builtin
        /\ answer[s1] = "handle" \/ place[s1] \notin Destroying
  /\ at[c2] = "idle" \/ (at[c1] # "idle" /\ CommandsAlone)

MCNext == BackendNext /\ Bound'

MCSpec == BackendInit /\ [][MCNext]_backendVars /\ BackendFairness
=============================================================================
