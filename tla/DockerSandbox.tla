---------------------------- MODULE DockerSandbox ----------------------------
(* sandbox/docker.py: create, destroy and cleanup_orphans, request by request *)
(* to the Docker daemon.                                                      *)
EXTENDS Integers, FiniteSets

CONSTANTS
  Sandboxes,       \* one per call of create
  Networks,        \* the names the clock can give a restricted network
  Builtin,         \* stands for "none" and "bridge"
  NoOne,
  MaxCrashes

ASSUME SandboxAssumption ==
  /\ Builtin \notin Networks
  /\ NoOne \notin Sandboxes
  /\ MaxCrashes \in Nat

VARIABLES
  place,      \* where the call on a sandbox stands; "open" when its handle is out and no
              \* call is under way, "over" when create is over without a handle
  answer,     \* what create, then destroy, answered: "none", "handle", "closed", "raised"
  name,       \* the network in the handle, Builtin until it is chosen
  owner,      \* who made the restricted network of a name, NoOne when there is none
  container,  \* "none", "made", "up", "gone"
  spoiled,    \* history: the sandboxes a call of which was cancelled, was refused while
              \* clearing up, or lost its answer
  robbed,     \* history: the sandboxes whose network another one's destroy removed
  live,       \* the sandboxes the rows claim, as the startup read them
  orphans,    \* history: the containers the last startup had to remove and Docker let it
  sweeping,   \* "served" (no startup under way), "listing", "removing", "failed" (the startup
              \* has raised, and the server does not serve)
  listed,     \* what the startup has still to remove
  crashes

callVars == <<place, answer, name, spoiled>>
dockerVars == <<owner, robbed, container>>
startupVars == <<live, orphans, sweeping, listed, crashes>>
vars == <<callVars, dockerVars, startupVars>>

Creating == {"image", "network", "creating", "starting", "removing", "unlinking", "preparing",
             "uploading"}
\* destroy, called by a client on a handle or by create on what it has begun.
Destroying == {"getting", "dropping", "disconnecting"}
Places == {"idle", "open", "over"} \cup Creating \cup Destroying

TypeOK ==
  /\ place \in [Sandboxes -> Places]
  /\ answer \in [Sandboxes -> {"none", "handle", "closed", "raised"}]
  /\ name \in [Sandboxes -> Networks \cup {Builtin}]
  /\ owner \in [Networks -> Sandboxes \cup {NoOne}]
  /\ robbed \subseteq Sandboxes
  /\ container \in [Sandboxes -> {"none", "made", "up", "gone"}]
  /\ spoiled \subseteq Sandboxes
  /\ live \subseteq Sandboxes
  /\ orphans \subseteq Sandboxes
  /\ sweeping \in {"served", "listing", "removing", "failed"}
  /\ listed \subseteq Sandboxes
  /\ crashes \in 0 .. MaxCrashes

Init ==
  /\ place = [s \in Sandboxes |-> "idle"]
  /\ answer = [s \in Sandboxes |-> "none"]
  /\ name = [s \in Sandboxes |-> Builtin]
  /\ owner = [n \in Networks |-> NoOne]
  /\ robbed = {}
  /\ container = [s \in Sandboxes |-> "none"]
  /\ spoiled = {}
  /\ live = {} /\ orphans = {} /\ listed = {}
  /\ sweeping = "served"
  /\ crashes = 0
-----------------------------------------------------------------------------
Exists(s) == container[s] \in {"made", "up"}
Up == {s \in Sandboxes : container[s] = "up"}

Goes(s, next) == place' = [place EXCEPT ![s] = next]
Becomes(s, status) == container' = [container EXCEPT ![s] = status]
Spoils(s) == spoiled' = spoiled \cup {s}

\* Every request to the daemon may be
\*   - answered, or refused: APIError, which the code handles or swallows;
\*   - lost: cancelled, or failed with an exception of the HTTP layer that is no
\*     DockerException, so that no handler of APIError runs. The daemon may have served it.
\* `spoiled` has the sandboxes a call of which lost a request or was refused in clearing up.

Handed(s) == answer[s] # "none"

\* Faulty variant: the outcome is put down as the place.
DestroyEndsThere(s, outcome) ==
  /\ Goes(s, IF Handed(s) THEN outcome ELSE "over")
  /\ answer' = IF Handed(s) THEN [answer EXCEPT ![s] = outcome] ELSE answer

\* destroy returns or raises: to the client, or to the create that called it and then raises.
DestroyEnds(s, outcome) ==
  /\ Goes(s, IF Handed(s) THEN "open" ELSE "over")
  /\ answer' = IF Handed(s) THEN [answer EXCEPT ![s] = outcome] ELSE answer

RequestsServed == sweeping = "served"
-----------------------------------------------------------------------------
(* create *)

StartCreate(s) ==
  /\ RequestsServed
  /\ place[s] = "idle"
  /\ Goes(s, "image")
  /\ UNCHANGED <<answer, name, spoiled, dockerVars, startupVars>>

\* _ensure_image: the image is there, is pulled, or cannot be had in time.
EnsureImage(s) ==
  /\ place[s] = "image"
  /\ Goes(s, "network") \/ Goes(s, "over")
  /\ UNCHANGED <<answer, name, spoiled, dockerVars, startupVars>>

\* Faulty variant: without check_duplicate a name is given twice.
TakenNever(n) == n \notin Networks

\* The daemon refuses a name that is taken: check_duplicate.
Taken(n) == owner[n] # NoOne

\* _resolve_network, before the try block: nothing is taken back when it fails.
ResolveNetwork(s) ==
  /\ place[s] = "network"
  /\ \/ Goes(s, "creating") /\ UNCHANGED <<name, owner, spoiled>>
     \/ \E n \in Networks :
          /\ ~Taken(n)
          /\ owner' = [owner EXCEPT ![n] = s]
          /\ \/ Goes(s, "creating") /\ name' = [name EXCEPT ![s] = n] /\ UNCHANGED spoiled
             \/ Goes(s, "over") /\ Spoils(s) /\ UNCHANGED name
     \/ Goes(s, "over") /\ UNCHANGED <<name, owner, spoiled>>
  /\ UNCHANGED <<answer, robbed, container, startupVars>>

\* Faulty variant: without a container there is nothing to take back.
MakeContainerOnly(s) ==
  /\ place[s] = "creating"
  /\ \/ Becomes(s, "made") /\ Goes(s, "starting") /\ UNCHANGED spoiled
     \/ Goes(s, "over") /\ UNCHANGED <<container, spoiled>>
     \/ Goes(s, "over") /\ Spoils(s) /\ (Becomes(s, "made") \/ UNCHANGED container)
  /\ UNCHANGED <<answer, name, owner, robbed, startupVars>>

\* containers.create
MakeContainer(s) ==
  /\ place[s] = "creating"
  /\ \/ Becomes(s, "made") /\ Goes(s, "starting") /\ UNCHANGED spoiled
     \/ Goes(s, "unlinking") /\ UNCHANGED <<container, spoiled>>
     \/ Goes(s, "over") /\ Spoils(s) /\ (Becomes(s, "made") \/ UNCHANGED container)
  /\ UNCHANGED <<answer, name, owner, robbed, startupVars>>

\* container.start, which needs the network.
StartContainer(s) ==
  /\ place[s] = "starting"
  /\ \/ /\ name[s] # Builtin => owner[name[s]] # NoOne
        /\ Becomes(s, "up") /\ Goes(s, "preparing") /\ UNCHANGED spoiled
     \/ Goes(s, "removing") /\ UNCHANGED <<container, spoiled>>
     \/ Goes(s, "over") /\ Spoils(s) /\ (Becomes(s, "up") \/ UNCHANGED container)
  /\ UNCHANGED <<answer, name, owner, robbed, startupVars>>

\* _safe_remove, in create's handler and in destroy: a refusal is logged and passed over.
SafeRemove(s, next) ==
  \/ Becomes(s, "gone") /\ Goes(s, next) /\ UNCHANGED <<answer, spoiled>>
  \/ Goes(s, next) /\ Spoils(s) /\ UNCHANGED <<answer, container>>
  \/ DestroyEnds(s, "raised") /\ Spoils(s) /\ (Becomes(s, "gone") \/ UNCHANGED container)

DiscardContainer(s) ==
  /\ place[s] = "removing"
  /\ SafeRemove(s, "unlinking")
  /\ UNCHANGED <<name, owner, robbed, startupVars>>

\* _remove_network: the daemon keeps a network a running container is attached to, and every
\* error is swallowed.
RemoveNetwork(s) ==
  \/ name[s] = Builtin /\ UNCHANGED <<owner, robbed, spoiled>>
  \/ /\ name[s] # Builtin
     /\ \A t \in Up : name[t] # name[s]
     /\ owner' = [owner EXCEPT ![name[s]] = NoOne]
     /\ robbed' = robbed \cup ({owner[name[s]]} \ {s, NoOne})
     /\ UNCHANGED spoiled
  \/ name[s] # Builtin /\ Spoils(s) /\ UNCHANGED <<owner, robbed>>

Unlink(s) ==
  /\ place[s] = "unlinking"
  /\ RemoveNetwork(s)
  /\ Goes(s, "over")
  /\ UNCHANGED <<answer, name, container, startupVars>>

HandsOver(s) == answer' = [answer EXCEPT ![s] = "handle"] /\ Goes(s, "open")

\* _prepare_workspace: a command in the container that may fail in any way. Without a
\* snapshot create is done.
Prepare(s) ==
  /\ place[s] = "preparing"
  /\ \/ Goes(s, "uploading") /\ UNCHANGED answer
     \/ HandsOver(s)
     \/ Goes(s, "getting") /\ UNCHANGED answer
  /\ UNCHANGED <<name, spoiled, dockerVars, startupVars>>

\* _upload_project
Upload(s) ==
  /\ place[s] = "uploading"
  /\ \/ HandsOver(s)
     \/ Goes(s, "getting") /\ UNCHANGED answer
  /\ UNCHANGED <<name, spoiled, dockerVars, startupVars>>

\* The client cancels while create is at one of the steps whose failures are not cancellations:
\* `except Exception` does not run.
Abandon(s) ==
  /\ place[s] \in {"image", "preparing", "uploading", "getting"}
  /\ ~Handed(s)
  /\ Goes(s, "over")
  /\ Spoils(s)
  /\ UNCHANGED <<answer, name, dockerVars, startupVars>>
-----------------------------------------------------------------------------
(* destroy *)

StartDestroy(s) ==
  /\ RequestsServed
  /\ place[s] = "open"
  /\ Goes(s, "getting")
  /\ UNCHANGED <<answer, name, spoiled, dockerVars, startupVars>>

\* containers.get; any error but "not found" ends destroy before it comes to the network.
GetContainer(s) ==
  /\ place[s] = "getting"
  /\ \/ Exists(s) /\ Goes(s, "dropping") /\ UNCHANGED <<answer, spoiled>>
     \/ ~Exists(s) /\ Goes(s, "disconnecting") /\ UNCHANGED <<answer, spoiled>>
     \/ DestroyEnds(s, "raised") /\ Spoils(s)
  /\ UNCHANGED <<name, dockerVars, startupVars>>

DropContainer(s) ==
  /\ place[s] = "dropping"
  /\ SafeRemove(s, "disconnecting")
  /\ UNCHANGED <<name, owner, robbed, startupVars>>

Disconnect(s) ==
  /\ place[s] = "disconnecting"
  /\ RemoveNetwork(s)
  /\ DestroyEnds(s, "closed")
  /\ UNCHANGED <<name, container, startupVars>>
-----------------------------------------------------------------------------
(* A crash, and the sweep of the next startup. *)

\* The calls under way end with the process. The rows may claim any sandbox whose handle was
\* out; the others are lost to the server, and a row that is not live then is not live at a
\* later startup.
CrashAndRestart ==
  /\ crashes < MaxCrashes
  /\ crashes' = crashes + 1
  /\ \E claimed \in SUBSET {s \in Sandboxes : Handed(s) /\ place[s] # "over"} :
       /\ live' = claimed
       /\ orphans' = {s \in Sandboxes : Exists(s)} \ claimed
       /\ place' = [s \in Sandboxes |->
            IF place[s] = "idle" THEN "idle" ELSE IF s \in claimed THEN "open" ELSE "over"]
       /\ spoiled' = spoiled \cup
            {s \in Sandboxes : place[s] \in Creating \cup Destroying
                               \/ (place[s] = "open" /\ s \notin claimed)}
  /\ answer' = [s \in Sandboxes |->
       IF Handed(s) /\ place[s] \in Destroying THEN "raised" ELSE answer[s]]
  /\ sweeping' = "listing"
  /\ listed' = {}
  /\ UNCHANGED <<name, dockerVars>>

\* Faulty variant: the claims of the rows are not looked at.
ListEverything ==
  /\ sweeping = "listing"
  /\ listed' = {s \in Sandboxes : Exists(s)}
  /\ sweeping' = "removing"
  /\ UNCHANGED <<callVars, dockerVars, live, orphans, crashes>>

\* cleanup_orphans: the containers with the label that no row claims. Networks are not swept.
\* A refusal, or a daemon that is not there, ends the sweep and not the startup; a request that
\* is lost ends both, for its exception passes startup's handler by.
ListOrphans ==
  /\ sweeping = "listing"
  /\ \/ /\ listed' = {s \in Sandboxes : Exists(s) /\ s \notin live}
        /\ sweeping' = "removing"
        /\ UNCHANGED orphans
     \/ sweeping' = "served" /\ orphans' = {} /\ UNCHANGED listed
     \/ sweeping' = "failed" /\ UNCHANGED <<orphans, listed>>
  /\ UNCHANGED <<callVars, dockerVars, live, crashes>>

\* Faulty variant: the first refusal ends the sweep.
RemoveOrphanOrStop(s) ==
  /\ sweeping = "removing"
  /\ s \in listed
  /\ \/ Becomes(s, "gone") /\ listed' = listed \ {s} /\ UNCHANGED orphans
     \/ orphans' = orphans \ {s} /\ listed' = {} /\ UNCHANGED container
  /\ UNCHANGED <<callVars, owner, robbed, live, sweeping, crashes>>

\* One container whose removal is refused does not keep the next ones; a request that is lost
\* does, and the startup fails.
RemoveOrphan(s) ==
  /\ sweeping = "removing"
  /\ s \in listed
  /\ \/ /\ listed' = listed \ {s}
        /\ \/ Becomes(s, "gone") /\ UNCHANGED orphans
           \/ orphans' = orphans \ {s} /\ UNCHANGED container
        /\ UNCHANGED sweeping
     \/ /\ sweeping' = "failed"
        /\ Becomes(s, "gone") \/ UNCHANGED container
        /\ UNCHANGED <<orphans, listed>>
  /\ UNCHANGED <<callVars, owner, robbed, live, crashes>>

SweepEnds ==
  /\ sweeping = "removing" /\ listed = {}
  /\ sweeping' = "served"
  /\ UNCHANGED <<callVars, dockerVars, live, orphans, listed, crashes>>

CallStep(s) ==
  \/ EnsureImage(s) \/ ResolveNetwork(s) \/ MakeContainer(s) \/ StartContainer(s)
  \/ DiscardContainer(s) \/ Unlink(s) \/ Prepare(s) \/ Upload(s) \/ GetContainer(s)
  \/ DropContainer(s) \/ Disconnect(s)

Request(s) == StartCreate(s) \/ StartDestroy(s) \/ Abandon(s)

StartupStep == ListOrphans \/ SweepEnds \/ \E s \in Sandboxes : RemoveOrphan(s)

Next == (\E s \in Sandboxes : Request(s) \/ CallStep(s)) \/ StartupStep \/ CrashAndRestart

Spec == Init /\ [][Next]_vars
-----------------------------------------------------------------------------
(* Properties. *)

\* A create that failed with an error the code handles and a destroy that returned leave
\* neither a container nor a network, unless Docker refused the clearing up or a request was
\* lost on the way.
NothingIsLeft ==
  \A s \in Sandboxes :
    (place[s] = "over" \/ (place[s] = "open" /\ answer[s] = "closed")) /\ s \notin spoiled =>
      ~Exists(s) /\ \A n \in Networks : owner[n] # s

\* README.md: restricted is "a private bridge network of its own", "no reach to other
\* sandboxes". No two containers run in one restricted network, and the network a container
\* runs in is the one its create made, whatever names the clock gave; but a sandbox that is
\* destroyed a second time takes the network of one that was given its name meanwhile.
NetworkIsPrivate ==
  \A s \in Up \ robbed : name[s] # Builtin =>
    /\ owner[name[s]] = s
    /\ \A t \in Up \ robbed : name[t] = name[s] => t = s

\* The handle of a sandbox nobody asked to destroy leads to a running container, through
\* failures of the creation, crashes and the sweeps of the startups.
HandleIsUsable ==
  \A s \in Sandboxes : place[s] = "open" /\ answer[s] = "handle" => container[s] = "up"

\* cleanup_orphans: "a crashed server must not leave sandboxes charging the developer's CPU
\* forever". Once the startup serves requests, every container it found unclaimed is gone but
\* those whose removal Docker refused, whatever happened to the others: a sweep that was broken
\* off is never taken for one that is over.
OrphansAreSwept == sweeping = "served" => \A s \in orphans : ~Exists(s)
=============================================================================
