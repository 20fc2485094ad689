------------------------- MODULE DockerSandboxProofs -------------------------
(* Theorems about DockerSandbox, for any number of sandboxes, network names    *)
(* and crashes.                                                                *)
EXTENDS DockerSandbox, TLAPS

\* How far a call has come tells what Docker has of its sandbox.
CallAgrees(s) ==
  /\ place[s] \in {"idle", "image", "network", "creating"} => container[s] = "none"
  /\ place[s] \in {"idle", "image", "network"} => name[s] = Builtin
  /\ place[s] \in {"starting", "removing"} => container[s] = "made"
  /\ place[s] \in {"preparing", "uploading"} => container[s] = "up"
  /\ place[s] \in {"idle"} \cup Creating => ~Handed(s)
  /\ place[s] \in {"unlinking", "disconnecting"} => ~Exists(s) \/ s \in spoiled
  /\ place[s] = "open" => Handed(s)
  /\ place[s] = "open" /\ answer[s] = "handle" => container[s] = "up"

\* A call that is over has nothing left in Docker, or is spoiled.
EndsClean(s) ==
  place[s] = "over" \/ (place[s] = "open" /\ answer[s] = "closed") =>
    ~Exists(s) \/ s \in spoiled

\* The network a sandbox made has the name in its handle, unless the handle was lost; it is
\* made after the image is there, and gone when the call is over.
NetworkAgrees(s) ==
  \A n \in Networks : owner[n] = s =>
    /\ name[s] = n \/ s \in spoiled
    /\ place[s] \notin {"idle", "image", "network"}
    /\ place[s] = "over" \/ (place[s] = "open" /\ answer[s] = "closed") => s \in spoiled

\* From its creation to the end of the container the network in a handle is the sandbox's own,
\* unless the destroy of another sandbox took it.
NetworkKept(s) ==
  name[s] # Builtin /\ (place[s] \in {"creating", "starting"} \/ container[s] = "up") =>
    owner[name[s]] = s \/ s \in robbed

\* During the sweep no call is under way; what it has to remove is out of reach of the calls.
SweepAgrees ==
  /\ sweeping # "served" => \A s \in Sandboxes : place[s] \in {"idle", "open", "over"}
  /\ sweeping = "listing" => \A s \in Sandboxes : place[s] = "open" => s \in live
  /\ sweeping = "listing" => \A s \in orphans : s \notin live
  /\ sweeping = "removing" => \A s \in listed : place[s] = "over"
  /\ sweeping = "removing" => \A s \in orphans : Exists(s) => s \in listed
  /\ sweeping = "served" => \A s \in orphans : ~Exists(s)
  /\ \A s \in orphans : place[s] = "over"

SandboxAgrees(s) == CallAgrees(s) /\ EndsClean(s) /\ NetworkAgrees(s) /\ NetworkKept(s)

IInv ==
  /\ TypeOK
  /\ \A s \in Sandboxes : SandboxAgrees(s)
  /\ SweepAgrees
-----------------------------------------------------------------------------
LEMMA InitTypeOK == Init => TypeOK
  BY SandboxAssumption DEF Init, TypeOK, Places

\* A step of a call keeps the types.
LEMMA CallTypeOK ==
  ASSUME TypeOK, NEW s \in Sandboxes, Request(s) \/ CallStep(s)
  PROVE  TypeOK'
<1> USE DEF TypeOK, Places, Creating, Destroying
<1>1. CASE StartCreate(s)
  BY <1>1 DEF StartCreate, Goes, dockerVars, startupVars
<1>2. CASE EnsureImage(s)
  BY <1>2 DEF EnsureImage, Goes, dockerVars, startupVars
<1>3. CASE ResolveNetwork(s)
  BY <1>3 DEF ResolveNetwork, Goes, Spoils, Taken, startupVars
<1>4. CASE MakeContainer(s)
  BY <1>4 DEF MakeContainer, Goes, Becomes, Spoils, startupVars
<1>5. CASE StartContainer(s)
  BY <1>5 DEF StartContainer, Goes, Becomes, Spoils, startupVars
<1>6. CASE DiscardContainer(s)
  BY <1>6 DEF DiscardContainer, SafeRemove, DestroyEnds, Goes, Becomes, Spoils, startupVars
<1>7. CASE Unlink(s)
  BY <1>7 DEF Unlink, RemoveNetwork, Goes, Spoils, startupVars
<1>8. CASE Prepare(s)
  BY <1>8 DEF Prepare, Goes, HandsOver, dockerVars, startupVars
<1>9. CASE Upload(s)
  BY <1>9 DEF Upload, Goes, HandsOver, dockerVars, startupVars
<1>10. CASE Abandon(s)
  BY <1>10 DEF Abandon, Goes, Spoils, dockerVars, startupVars
<1>11. CASE StartDestroy(s)
  BY <1>11 DEF StartDestroy, Goes, dockerVars, startupVars
<1>12. CASE GetContainer(s)
  BY <1>12 DEF GetContainer, Goes, DestroyEnds, Spoils, dockerVars, startupVars
<1>13. CASE DropContainer(s)
  BY <1>13 DEF DropContainer, SafeRemove, DestroyEnds, Goes, Becomes, Spoils, startupVars
<1>14. CASE Disconnect(s)
  BY <1>14 DEF Disconnect, RemoveNetwork, DestroyEnds, Goes, Spoils, startupVars
<1> QED
  BY <1>1, <1>2, <1>3, <1>4, <1>5, <1>6, <1>7, <1>8, <1>9, <1>10, <1>11, <1>12, <1>13, <1>14 DEF Request, CallStep

\* So do the steps of a startup and a crash.
LEMMA StartupTypeOK ==
  ASSUME TypeOK, StartupStep \/ CrashAndRestart
  PROVE  TypeOK'
<1> USE SandboxAssumption DEF TypeOK, Places, Creating, Destroying
<1>1. CASE ListOrphans
  BY <1>1 DEF ListOrphans, callVars, dockerVars
<1>2. CASE SweepEnds
  BY <1>2 DEF SweepEnds, callVars, dockerVars
<1>3. CASE \E s \in Sandboxes : RemoveOrphan(s)
  BY <1>3 DEF RemoveOrphan, Becomes, callVars
<1>4. CASE CrashAndRestart
  BY <1>4 DEF CrashAndRestart, dockerVars, Handed, Exists
<1> QED
  BY <1>1, <1>2, <1>3, <1>4 DEF StartupStep

LEMMA NextTypeOK == TypeOK /\ [Next]_vars => TypeOK'
<1>1. TypeOK /\ UNCHANGED vars => TypeOK'
  BY DEF TypeOK, vars, callVars, dockerVars, startupVars
<1> QED
  BY <1>1, CallTypeOK, StartupTypeOK DEF Next

\* Type correctness: every variable of the sandboxes keeps its range.
THEOREM TypeCorrectness == Spec => []TypeOK
  BY InitTypeOK, NextTypeOK, PTL DEF Spec
-----------------------------------------------------------------------------
LEMMA InitAgrees == Init => (\A s \in Sandboxes : SandboxAgrees(s)) /\ SweepAgrees
  BY SandboxAssumption DEF Init, SandboxAgrees, CallAgrees, EndsClean, NetworkAgrees, NetworkKept,
     SweepAgrees, Creating, Handed, Exists

\* A step of a call on one sandbox, seen from any sandbox.
LEMMA CallKeepsAgreement ==
  ASSUME IInv, NEW s \in Sandboxes, Request(s) \/ CallStep(s), NEW t \in Sandboxes
  PROVE  SandboxAgrees(t)'
<1> USE SandboxAssumption DEF IInv, TypeOK, SandboxAgrees, CallAgrees, EndsClean, NetworkAgrees,
        NetworkKept, Creating, Handed, Exists, Up
<1>1. CASE StartCreate(s)
  BY <1>1 DEF StartCreate, Goes, dockerVars, startupVars
<1>2. CASE EnsureImage(s)
  BY <1>2 DEF EnsureImage, Goes, dockerVars, startupVars
<1>3. CASE ResolveNetwork(s)
  BY <1>3 DEF ResolveNetwork, Goes, Spoils, Taken, startupVars
<1>4. CASE MakeContainer(s)
  BY <1>4 DEF MakeContainer, Goes, Becomes, Spoils, startupVars
<1>5. CASE StartContainer(s)
  BY <1>5 DEF StartContainer, Goes, Becomes, Spoils, startupVars
<1>6. CASE DiscardContainer(s)
  BY <1>6 DEF DiscardContainer, SafeRemove, DestroyEnds, Goes, Becomes, Spoils, startupVars
<1>7. CASE Unlink(s)
  BY <1>7 DEF Unlink, RemoveNetwork, Goes, Spoils, startupVars
<1>8. CASE Prepare(s)
  BY <1>8 DEF Prepare, Goes, HandsOver, dockerVars, startupVars
<1>9. CASE Upload(s)
  BY <1>9 DEF Upload, Goes, HandsOver, dockerVars, startupVars
<1>10. CASE Abandon(s)
  BY <1>10 DEF Abandon, Goes, Spoils, dockerVars, startupVars
<1>11. CASE StartDestroy(s)
  BY <1>11 DEF StartDestroy, Goes, dockerVars, startupVars
<1>12. CASE GetContainer(s)
  BY <1>12 DEF GetContainer, Goes, DestroyEnds, Spoils, dockerVars, startupVars
<1>13. CASE DropContainer(s)
  BY <1>13 DEF DropContainer, SafeRemove, DestroyEnds, Goes, Becomes, Spoils, startupVars
<1>14. CASE Disconnect(s)
  BY <1>14 DEF Disconnect, RemoveNetwork, DestroyEnds, Goes, Spoils, startupVars
<1> QED
  BY <1>1, <1>2, <1>3, <1>4, <1>5, <1>6, <1>7, <1>8, <1>9, <1>10, <1>11, <1>12, <1>13, <1>14 DEF Request, CallStep

\* The sweep takes containers of calls that are over.
LEMMA StartupKeepsAgreement ==
  ASSUME IInv, StartupStep, NEW t \in Sandboxes
  PROVE  SandboxAgrees(t)'
<1> USE SandboxAssumption DEF IInv, TypeOK, SandboxAgrees, CallAgrees, EndsClean, NetworkAgrees,
        NetworkKept, Creating, Handed, Exists
<1>1. CASE ListOrphans
  BY <1>1 DEF ListOrphans, callVars, dockerVars
<1>2. CASE SweepEnds
  BY <1>2 DEF SweepEnds, callVars, dockerVars
<1>3. CASE \E s \in Sandboxes : RemoveOrphan(s)
  <2>1. PICK s \in Sandboxes : RemoveOrphan(s)
    BY <1>3
  <2>2. place[s] = "over"
    BY <2>1 DEF RemoveOrphan, SweepAgrees
  <2> QED
    BY <2>1, <2>2 DEF RemoveOrphan, Becomes, callVars
<1> QED
  BY <1>1, <1>2, <1>3 DEF StartupStep

\* A crash spoils what was under way, and only handles that were out stay open.
LEMMA CrashKeepsAgreement ==
  ASSUME IInv, CrashAndRestart, NEW t \in Sandboxes
  PROVE  SandboxAgrees(t)'
<1> USE SandboxAssumption DEF IInv, TypeOK, Places, Creating, Destroying, Handed, Exists,
        dockerVars
<1>1. CallAgrees(t)'
  BY DEF CrashAndRestart, SandboxAgrees, CallAgrees
<1>2. EndsClean(t)'
  BY DEF CrashAndRestart, SandboxAgrees, CallAgrees, EndsClean
<1>3. NetworkAgrees(t)'
  BY DEF CrashAndRestart, SandboxAgrees, NetworkAgrees
<1>4. NetworkKept(t)'
  BY DEF CrashAndRestart, SandboxAgrees, CallAgrees, NetworkKept
<1> QED
  BY <1>1, <1>2, <1>3, <1>4 DEF SandboxAgrees

\* No call moves while a startup sweeps, and a call that is over does not move again.
LEMMA NextKeepsSweep == IInv /\ Next => SweepAgrees'
<1> SUFFICES ASSUME IInv, Next PROVE SweepAgrees'
  OBVIOUS
<1> USE DEF IInv, TypeOK, SweepAgrees, Exists, dockerVars, startupVars, callVars
<1>1. CASE \E s \in Sandboxes : Request(s) \/ CallStep(s)
  <2>1. PICK s \in Sandboxes : Request(s) \/ CallStep(s)
    BY <1>1
  <2>2. place[s] # "over" /\ sweeping = "served"
    BY <2>1 DEF Request, CallStep, RequestsServed, Creating, Destroying, StartCreate, EnsureImage,
       ResolveNetwork, MakeContainer, StartContainer, DiscardContainer, Unlink, Prepare, Upload,
       Abandon, StartDestroy, GetContainer, DropContainer, Disconnect
  <2>3. UNCHANGED startupVars
    BY <2>1 DEF Request, CallStep, StartCreate, EnsureImage, ResolveNetwork, MakeContainer,
       StartContainer, DiscardContainer, Unlink, Prepare, Upload, Abandon, StartDestroy,
       GetContainer, DropContainer, Disconnect
  <2>4. \A t \in Sandboxes : t # s => place'[t] = place[t] /\ container'[t] = container[t]
    BY <2>1 DEF Request, CallStep, StartCreate, EnsureImage, ResolveNetwork, MakeContainer,
       StartContainer, DiscardContainer, Unlink, Prepare, Upload, Abandon, StartDestroy,
       GetContainer, DropContainer, Disconnect, Goes, Becomes, HandsOver, SafeRemove, DestroyEnds
  <2> QED
    BY <2>2, <2>3, <2>4
<1>2. CASE ListOrphans
  <2>1. \A s \in Sandboxes : Exists(s) /\ s \notin live => place[s] = "over"
    BY <1>2 DEF ListOrphans, SandboxAgrees, CallAgrees
  <2> QED
    BY <1>2, <2>1 DEF ListOrphans
<1>3. CASE SweepEnds
  BY <1>3 DEF SweepEnds
<1>4. CASE \E s \in Sandboxes : RemoveOrphan(s)
  BY <1>4 DEF RemoveOrphan, Becomes
<1>5. CASE CrashAndRestart
  BY <1>5 DEF CrashAndRestart, SandboxAgrees, CallAgrees
<1> QED
  BY <1>1, <1>2, <1>3, <1>4, <1>5 DEF Next, StartupStep

LEMMA NextIInv == IInv /\ [Next]_vars => IInv'
<1> SUFFICES ASSUME IInv, [Next]_vars PROVE IInv'
  OBVIOUS
<1>1. CASE Next
  <2>1. \A t \in Sandboxes : SandboxAgrees(t)'
    BY <1>1, CallKeepsAgreement, StartupKeepsAgreement, CrashKeepsAgreement DEF Next
  <2> QED
    BY <1>1, <2>1, NextTypeOK, NextKeepsSweep DEF IInv
<1>2. CASE UNCHANGED vars
  BY <1>2 DEF vars, callVars, dockerVars, startupVars, IInv, TypeOK, SandboxAgrees, CallAgrees,
     EndsClean, NetworkAgrees, NetworkKept, SweepAgrees, Handed, Exists
<1> QED
  BY <1>1, <1>2

\* The inductive invariant.
THEOREM Invariance == Spec => []IInv
<1>1. Init => IInv
  BY InitTypeOK, InitAgrees DEF IInv
<1> QED
  BY <1>1, NextIInv, PTL DEF Spec
-----------------------------------------------------------------------------
\* A failed create and a destroy that returned leave no container and no network, unless the
\* clearing up was refused or a request lost.
THEOREM Clean == Spec => []NothingIsLeft
<1>1. IInv => NothingIsLeft
  BY DEF IInv, SandboxAgrees, EndsClean, NetworkAgrees, NothingIsLeft
<1> QED
  BY <1>1, Invariance, PTL

\* The restricted networks of running containers are private, whatever names the clock gives,
\* except for sandboxes whose network another destroy took.
THEOREM Private == Spec => []NetworkIsPrivate
<1>1. IInv => NetworkIsPrivate
  BY DEF IInv, SandboxAgrees, NetworkKept, NetworkIsPrivate, Up
<1> QED
  BY <1>1, Invariance, PTL

\* A handle that is out leads to a running container, over any number of restarts.
THEOREM Usable == Spec => []HandleIsUsable
<1>1. IInv => HandleIsUsable
  BY DEF IInv, SandboxAgrees, CallAgrees, HandleIsUsable
<1> QED
  BY <1>1, Invariance, PTL

\* After the sweep of a startup nothing unclaimed runs that Docker would have removed.
THEOREM Swept == Spec => []OrphansAreSwept
<1>1. IInv => OrphansAreSwept
  BY DEF IInv, SweepAgrees, OrphansAreSwept
<1> QED
  BY <1>1, Invariance, PTL
=============================================================================
