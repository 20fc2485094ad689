-------------------------- MODULE ExperimentsProofs --------------------------
(* Theorems about Experiments, for any ids, calls, ceiling and number of crashes, *)
(* however the calls overlap and whatever Docker and the clients do.              *)
EXTENDS Experiments, TLAPS

\* The row of a create is in, its container is not.
Early == {"inserting", "provisioning"}

\* From the save of RUNNING to the save that settles.
Marking == {"marking", "submitting", "waiting", "settling"}

Commands == {"execute", "background", "run_tests"}

\* What a call is, at each of its places.
PlaceAgrees(c) ==
  /\ at[c] = "unused" => req[c] = [op |-> "none", of |-> None]
  /\ at[c] \in {"unused", "checking", "getting", "looking"} => copy[c] = NoRow
  /\ at[c] = "checking" => req[c].of = None
  /\ at[c] \in {"checking", "attaching", "readying", "noting", "dismantling", "failing"} \cup Early
       => req[c].op = "create"
  /\ at[c] \in {"getting", "detecting"} => req[c].op \in Commands
  /\ at[c] \in {"looking", "draining", "removing", "closing"} => req[c].op = "destroy"
  /\ at[c] \in Marking => req[c].op \in Commands \cup {"create"}
  /\ req[c].op \in Commands \cup {"destroy"} => req[c].of \in Experiments
  /\ at[c] \in (Awaiting \ {"checking"}) \cup {"landing", "answered"}
       => req[c].of \in Experiments /\ req[c].op # "none"

\* What its copy says there.
CopyAgrees(c) ==
  /\ at[c] \in {"inserting", "provisioning"} => copy[c] = NewRow
  /\ at[c] = "attaching" => copy[c].status = "CREATING"
  /\ at[c] = "readying" => copy[c].status = "READY"
  /\ at[c] \in {"attaching", "readying", "detecting"} => copy[c].container
  /\ at[c] \in Marking \/ (at[c] = "landing" /\ req[c].op \in Commands)
       => copy[c].container /\ copy[c].status \in LiveStates
  /\ at[c] = "settling" => copy[c].status # "RUNNING"
  /\ at[c] = "failing" => copy[c].status = "FAILED"
  /\ at[c] = "closing" => copy[c].status = "DESTROYED"

\* An id is drawn once.
OneCreator ==
  \A c, d \in Calls :
    req[c].op = "create" /\ req[d].op = "create" /\ req[c].of = req[d].of /\ req[c].of # None
      => c = d

\* What exists for an id was made for a call.
Referenced == \A e \in containers \cup snapshots : \E c \in Calls : req[c].of = e

\* Before the container is there nobody has heard of it.
EarlyAgrees(c) ==
  LET e == req[c].of IN
  at[c] \in Early =>
    /\ e \notin containers
    /\ ~row[e].container /\ ~row[e].snapshot
    /\ \A d \in Calls : req[d].of = e => ~copy[d].container /\ ~copy[d].snapshot

\* FailedCreateCleansUp on the way there: what a failing create has cleared up already.
FailureAgrees(c) ==
  LET e == req[c].of IN
  req[c].op = "create" /\ e # None =>
    /\ at[c] \in {"failing", "refused"} \/ (at[c] = "noting" /\ ~copy[c].container)
         => e \notin containers \ stuck
    /\ at[c] \in {"dismantling", "failing", "refused"} /\ c \in copied => e \notin snapshots

\* DestroyRemoves, from the removal on.
DestroyAgrees(c) ==
  LET e == req[c].of IN
  req[c].op = "destroy" /\ at[c] \in {"closing", "answered"} =>
    /\ copy[c].container => e \notin containers \ stuck
    /\ copy[c].snapshot => e \notin snapshots

\* AnsweredCreateKept, from the container on: while no one destroys an experiment it keeps
\* its container, and its row, once READY was saved, says so.
Kept(c) ==
  LET e == req[c].of IN
  (req[c].op = "create" /\ \A d \in Calls : req[d].of = e => req[d].op # "destroy") =>
    /\ at[c] \in {"attaching", "readying", "answered"} \cup Marking => e \in containers
    /\ at[c] \in {"answered"} \cup Marking => row[e].container /\ row[e].status \in LiveStates

\* A call that may have written CREATING or RUNNING and not settled it.
Undecided(c) ==
  \/ req[c].op = "background"
  \/ at[c] \in Places \ {"unused", "checking", "getting", "detecting", "looking", "answered",
                         "refused"}

\* QuiescentSettled, made inductive: somebody answers for a row that is not settled.
Pending ==
  \A e \in Experiments : row[e].status \in {"CREATING", "RUNNING"} =>
    \E c \in Calls : req[c].of = e /\ Undecided(c)

CallAgrees(c) ==
  /\ PlaceAgrees(c) /\ CopyAgrees(c)
  /\ EarlyAgrees(c) /\ FailureAgrees(c) /\ DestroyAgrees(c) /\ Kept(c)

IInv ==
  /\ TypeOK
  /\ OneCreator /\ Referenced /\ Pending
  /\ \A c \in Calls : CallAgrees(c)
-----------------------------------------------------------------------------
\* Everything that moves a call or its job.
Step(c) ==
  \/ CallStep(c) \/ JobStep(c) \/ StartCreate(c) \/ CancelJob(c) \/ Abandon(c) \/ AbandonWait(c)
  \/ DatabaseRaises(c)
  \/ \E e \in Experiments : StartDestroy(c, e) \/ \E op \in Ops : StartExecute(c, op, e)

LEMMA NextSplits == Next <=> CrashAndRestart \/ \E c \in Calls : Step(c)
  BY DEF Next, Step

\* A job that ended leaves its experiment live and not RUNNING.
LEMMA Settles ==
  ASSUME NEW op, NEW outcome \in Outcomes \cup {"unfinished"}
  PROVE  SettledStatus(op, outcome) \in LiveStates \ {"RUNNING"}
  BY DEF SettledStatus, Outcomes, LiveStates, ExperimentStatuses

\* The rows the actions build are rows.
LEMMA Retyped ==
  /\ NoRow \in Rows /\ NewRow \in Rows
  /\ \A r \in Rows, status \in ExperimentStatuses : WithStatus(r, status) \in Rows
  /\ \A b1, b2 \in BOOLEAN : [status |-> "CREATING", container |-> b1, snapshot |-> b2] \in Rows
  BY DEF NoRow, NewRow, Rows, WithStatus, ExperimentStatuses

\* A step of a call keeps the types.
LEMMA StepTypeOK ==
  ASSUME TypeOK, NEW c \in Calls, PlaceAgrees(c), Step(c)
  PROVE  TypeOK'
<1> USE ExperimentsAssumption DEF PlaceAgrees, JobStates, Outcomes, Ops, LiveStates, TypeOK,
        Places, Awaiting, Saving, Early, ExperimentStatuses, Goes, Becomes, Writes, Removes,
        local, docker
<1>1. CASE CapacityChecked(c)
  <2>1. req' \in [Calls -> [op : Ops \cup {"none"}, of : Experiments \cup {None}]]
    BY <1>1 DEF CapacityChecked, Unused
  <2>2. copy' \in [Calls -> Rows]
    BY <1>1, Retyped DEF CapacityChecked
  <2>3. at' \in [Calls -> Places]
    BY <1>1 DEF CapacityChecked
  <2> QED
    BY <1>1, <2>1, <2>2, <2>3 DEF CapacityChecked
<1>2. CASE Inserted(c)
  <2>1. row' \in [Experiments -> Rows]
    BY <1>2 DEF Inserted
  <2>2. req[c].of \in Experiments
    BY <1>2 DEF Inserted
  <2>3. at' \in [Calls -> Places] /\ copied' \subseteq Calls /\ snapshots' \subseteq Experiments
    BY <1>2, <2>2 DEF Inserted, PreparesSnapshot
  <2> QED
    BY <1>2, <2>1, <2>3 DEF Inserted
<1>3. CASE Provisioned(c)
  <2>0. [status |-> "CREATING", container |-> TRUE, snapshot |-> c \in copied] \in Rows
    BY DEF Rows
  <2>1. copy' \in [Calls -> Rows]
    BY <1>3, <2>0 DEF Provisioned
  <2>2. req[c].of \in Experiments
    BY <1>3 DEF Provisioned
  <2> QED
    BY <1>3, <2>1, <2>2 DEF Provisioned
<1>4. CASE Attached(c)
  BY <1>4, Retyped DEF Attached
<1>5. CASE Readied(c)
  <2>1. copy' \in [Calls -> Rows]
    BY <1>5, Retyped DEF Readied
  <2>2. row' \in [Experiments -> Rows]
    BY <1>5 DEF Readied
  <2> QED
    BY <1>5, <2>1, <2>2 DEF Readied
<1>6. CASE CreationRaises(c)
  BY <1>6, Retyped DEF CreationRaises
<1>7. CASE FailureNoted(c)
  <2>1. copy' \in [Calls -> Rows]
    BY <1>7, Retyped DEF FailureNoted
  <2>2. row' \in [Experiments -> Rows]
    BY <1>7 DEF FailureNoted
  <2> QED
    BY <1>7, <2>1, <2>2 DEF FailureNoted
<1>8. CASE Dismantled(c)
  BY <1>8, Retyped DEF Dismantled
<1>9. CASE CreationFailed(c)
  BY <1>9 DEF CreationFailed
<1>10. CASE Got(c)
  <2>1. row[req[c].of] \in Rows
    BY <1>10 DEF Got
  <2>2. copy' \in [Calls -> Rows]
    BY <1>10, <2>1, Retyped DEF Got, Proceeds
  <2>3. job' \in [Calls -> JobStates]
    BY <1>10 DEF Got, Proceeds
  <2>4. at' \in [Calls -> Places]
    BY <1>10 DEF Got, Proceeds
  <2> QED
    BY <1>10, <2>2, <2>3, <2>4 DEF Got
<1>11. CASE Detected(c)
  <2>1. row[req[c].of] \in Rows
    BY <1>11 DEF Detected
  <2>2. copy' \in [Calls -> Rows]
    BY <1>11, <2>1, Retyped DEF Detected, Proceeds
  <2>3. job' \in [Calls -> JobStates]
    BY <1>11 DEF Detected, Proceeds
  <2>4. at' \in [Calls -> Places]
    BY <1>11 DEF Detected, Proceeds
  <2> QED
    BY <1>11, <2>2, <2>3, <2>4 DEF Detected
<1>12. CASE Marked(c)
  BY <1>12 DEF Marked
<1>13. CASE JobSubmitted(c)
  BY <1>13 DEF JobSubmitted
<1>14. CASE JobAwaited(c)
  <2>1. SettledStatus(req[c].op, job[c]) \in ExperimentStatuses
    BY <1>14, Settles DEF JobAwaited
  <2> QED
    BY <1>14, <2>1, Retyped DEF JobAwaited
<1>15. CASE Settled(c)
  BY <1>15 DEF Settled
<1>16. CASE LookedUp(c)
  <2>1. row[req[c].of] \in Rows
    BY <1>16 DEF LookedUp
  <2>2. job' \in [Calls -> JobStates]
    BY <1>16 DEF LookedUp, CancelJobs
  <2>3. copy' \in [Calls -> Rows]
    BY <1>16, <2>1 DEF LookedUp
  <2>4. targets' \in [Calls -> SUBSET Calls]
    BY <1>16 DEF LookedUp, JobsOf
  <2> QED
    BY <1>16, <2>2, <2>3, <2>4 DEF LookedUp
<1>17. CASE Drained(c)
  BY <1>17 DEF Drained
<1>18. CASE Removed(c)
  BY <1>18, Retyped DEF Removed
<1>19. CASE Closed(c)
  BY <1>19 DEF Closed
<1>20. CASE Lands(c)
  BY <1>20 DEF Lands
<1>21. CASE StartCreate(c)
  BY <1>21 DEF StartCreate, Starts
<1>22. CASE CancelJob(c)
  BY <1>22 DEF CancelJob, CancelJobs
<1>23. CASE Abandon(c)
  <2>1. at' \in [Calls -> Places] /\ job' \in [Calls -> JobStates]
    BY <1>23 DEF Abandon
  <2> QED
    BY <1>23, <2>1 DEF Abandon
<1>24. CASE AbandonWait(c)
  BY <1>24, Retyped, Settles DEF AbandonWait
<1>raised. CASE DatabaseRaises(c)
  BY <1>raised DEF DatabaseRaises, Unguarded
<1>25. CASE \E outcome \in Outcomes : JobEnds(c, outcome)
  BY <1>25 DEF JobEnds
<1>26. CASE \E e \in Experiments : StartDestroy(c, e)
  BY <1>26 DEF StartDestroy, Starts
<1>27. CASE \E e \in Experiments, op \in Ops : StartExecute(c, op, e)
  BY <1>27 DEF StartExecute, Starts
<1> QED
  BY <1>1, <1>2, <1>3, <1>4, <1>5, <1>6, <1>7, <1>8, <1>9, <1>10, <1>11, <1>12, <1>13, <1>14,
     <1>15, <1>16, <1>17, <1>18, <1>19, <1>20, <1>21, <1>22, <1>23, <1>24, <1>25, <1>26, <1>27,
     <1>raised
     DEF Step, CallStep, JobStep
-----------------------------------------------------------------------------
\* A row that is no longer this call's concern is settled.
Decides(c) ==
  Undecided(c) => Undecided(c)' \/ row'[req[c].of].status \notin {"CREATING", "RUNNING"}

\* What a step of one call changes, and where it may do so.
Footprint(c) ==
  /\ \A d \in Calls \ {c} :
       at'[d] = at[d] /\ req'[d] = req[d] /\ copy'[d] = copy[d] /\ (d \in copied' <=> d \in copied)
  /\ \/ req'[c] = req[c]
     \/ /\ at[c] \in {"unused", "checking"} /\ at'[c] # "unused"
        /\ row' = row /\ containers' = containers /\ snapshots' = snapshots /\ stuck' = stuck
  /\ at[c] = "unused" => req'[c].op # "create" \/ req'[c].of = None
  /\ at[c] = "checking" => req'[c].of = None \/ \A d \in Calls : req[d].of # req'[c].of
  /\ \A e \in Experiments :
       /\ \/ row'[e] = row[e]
          \/ e = req[c].of /\ at[c] \in Saving \cup {"landing"} /\ row'[e] = copy[c]
       /\ e \in containers' => e \in containers \/ (at[c] = "provisioning" /\ e = req[c].of)
       /\ e \in containers =>
            e \in containers' \/ (at[c] \in {"dismantling", "removing"} /\ e = req[c].of)
       /\ e \in snapshots' => e \in snapshots \/ (at[c] = "inserting" /\ e = req[c].of)
  /\ stuck \subseteq stuck'
  /\ \/ copy'[c].container = copy[c].container /\ copy'[c].snapshot = copy[c].snapshot
     \/ /\ req[c].op # "create" /\ req'[c] = req[c]
        /\ copy'[c].container = row[req[c].of].container
        /\ copy'[c].snapshot = row[req[c].of].snapshot
     \/ at[c] \in {"checking", "provisioning"}

\* Every step of a call stays within its footprint.
LEMMA StepFootprint ==
  ASSUME TypeOK, NEW c \in Calls, PlaceAgrees(c), Step(c)
  PROVE  Footprint(c)
<1> USE ExperimentsAssumption DEF PlaceAgrees, Early, Commands, Marking, Footprint, Ops, TypeOK,
        Places, Awaiting, Saving, Rows, NoRow, NewRow, ExperimentStatuses, Goes, Becomes,
        WithStatus, Writes, Removes, local, docker
<1>1. CASE CapacityChecked(c)
  BY <1>1 DEF CapacityChecked, Unused
<1>2. CASE Inserted(c)
  BY <1>2 DEF Inserted, PreparesSnapshot
<1>3. CASE Provisioned(c)
  BY <1>3 DEF Provisioned
<1>4. CASE Attached(c)
  BY <1>4 DEF Attached
<1>5. CASE Readied(c)
  BY <1>5 DEF Readied
<1>6. CASE CreationRaises(c)
  BY <1>6 DEF CreationRaises
<1>7. CASE FailureNoted(c)
  BY <1>7 DEF FailureNoted
<1>8. CASE Dismantled(c)
  BY <1>8 DEF Dismantled
<1>9. CASE CreationFailed(c)
  BY <1>9 DEF CreationFailed
<1>10. CASE Got(c)
  BY <1>10 DEF Got, Proceeds
<1>11. CASE Detected(c)
  BY <1>11 DEF Detected, Proceeds
<1>12. CASE Marked(c)
  BY <1>12 DEF Marked
<1>13. CASE JobSubmitted(c)
  BY <1>13 DEF JobSubmitted
<1>14. CASE JobAwaited(c)
  BY <1>14, Settles DEF JobAwaited
<1>15. CASE Settled(c)
  BY <1>15 DEF Settled
<1>16. CASE LookedUp(c)
  BY <1>16 DEF LookedUp, CancelJobs
<1>17. CASE Drained(c)
  BY <1>17 DEF Drained
<1>18. CASE Removed(c)
  BY <1>18 DEF Removed
<1>19. CASE Closed(c)
  BY <1>19 DEF Closed
<1>20. CASE Lands(c)
  BY <1>20 DEF Lands
<1>21. CASE StartCreate(c)
  BY <1>21 DEF StartCreate, Starts
<1>22. CASE CancelJob(c)
  BY <1>22 DEF CancelJob, CancelJobs
<1>23. CASE Abandon(c)
  BY <1>23 DEF Abandon
<1>24. CASE AbandonWait(c)
  BY <1>24, Settles DEF AbandonWait, Outcomes
<1>raised. CASE DatabaseRaises(c)
  BY <1>raised DEF DatabaseRaises, Unguarded
<1>25. CASE \E outcome \in Outcomes : JobEnds(c, outcome)
  BY <1>25 DEF JobEnds
<1>26. CASE \E e \in Experiments : StartDestroy(c, e)
  BY <1>26 DEF StartDestroy, Starts
<1>27. CASE \E e \in Experiments, op \in Ops : StartExecute(c, op, e)
  BY <1>27 DEF StartExecute, Starts
<1> QED
  BY <1>1, <1>2, <1>3, <1>4, <1>5, <1>6, <1>7, <1>8, <1>9, <1>10, <1>11, <1>12, <1>13, <1>14,
     <1>15, <1>16, <1>17, <1>18, <1>19, <1>20, <1>21, <1>22, <1>23, <1>24, <1>25, <1>26, <1>27,
     <1>raised
     DEF Step, CallStep, JobStep

\* So the other calls keep what they agree on.
LEMMA OthersAgree ==
  ASSUME IInv, NEW c \in Calls, Footprint(c), TypeOK', NEW d \in Calls \ {c}
  PROVE  CallAgrees(d)'
<1> USE ExperimentsAssumption DEF IInv, TypeOK, Footprint, CallAgrees
<1>1. PlaceAgrees(d)'
  BY DEF PlaceAgrees
<1>2. CopyAgrees(d)'
  BY DEF CopyAgrees
<1>3. EarlyAgrees(d)'
  <2> SUFFICES ASSUME at[d] \in Early PROVE EarlyAgrees(d)'
    BY DEF EarlyAgrees
  <2>1. req[d].op = "create" /\ req[d].of \in Experiments /\ req[c].of = req[d].of
          => req[c].op # "create"
    BY DEF PlaceAgrees, OneCreator, Early
  <2>2. req[d].op = "create" /\ req[d].of \in Experiments
    BY DEF PlaceAgrees, Early, Awaiting, Saving
  <2>3. ~row[req[d].of].container /\ ~row[req[d].of].snapshot
    BY DEF EarlyAgrees
  <2>4. req[c].of = req[d].of => ~copy[c].container /\ ~copy[c].snapshot
    BY DEF EarlyAgrees
  <2>5. ~row'[req[d].of].container /\ ~row'[req[d].of].snapshot
    BY <2>2, <2>3, <2>4
  <2>6. req[d].of \notin containers'
    BY <2>1, <2>2 DEF EarlyAgrees, PlaceAgrees, Early
  <2>7. req'[c].of = req[d].of => ~copy'[c].container /\ ~copy'[c].snapshot
    BY <2>1, <2>2, <2>3, <2>4 DEF PlaceAgrees, Early, NoRow
  <2> QED
    BY <2>5, <2>6, <2>7 DEF EarlyAgrees
<1>4. FailureAgrees(d)'
  BY DEF FailureAgrees, PlaceAgrees, OneCreator, Early
<1>5. DestroyAgrees(d)'
  BY DEF DestroyAgrees, PlaceAgrees, EarlyAgrees, Early
<1>6. Kept(d)'
  <2> SUFFICES ASSUME req[d].op = "create",
                      \A x \in Calls : req'[x].of = req[d].of => req'[x].op # "destroy"
               PROVE  Kept(d)'
    BY DEF Kept
  <2>1. req[c].of = req[d].of /\ req[d].of # None
          /\ at[c] \in Saving \cup {"landing", "dismantling", "removing"}
          => at[c] \in {"marking", "settling", "landing"} /\ req[c].op \in Commands
    BY DEF PlaceAgrees, OneCreator, Early, Marking, Commands, Saving, Awaiting, Ops
  <2>2. \A x \in Calls : req[x].of = req[d].of => req[x].op # "destroy"
    <3>1. at[c] \in {"unused", "checking"} => req[c].op # "destroy"
      BY DEF PlaceAgrees
    <3> QED
      BY <3>1, SMTT(30)
  <2>3. req[d].of # None /\ at[d] \in {"attaching", "readying", "answered"} \cup Marking
          => req[d].of \in containers'
    BY <2>1, <2>2 DEF Kept
  <2>4. req[d].of # None /\ at[d] \in {"answered"} \cup Marking =>
           row'[req[d].of].container /\ row'[req[d].of].status \in LiveStates
    BY <2>1, <2>2 DEF Kept, CopyAgrees, Marking
  <2> QED
    BY <2>3, <2>4 DEF Kept, PlaceAgrees, Marking, Awaiting, Saving
<1> QED
  BY <1>1, <1>2, <1>3, <1>4, <1>5, <1>6

\* The call itself, action by action.
LEMMA OwnAgrees ==
  ASSUME IInv, NEW c \in Calls, Step(c), TypeOK'
  PROVE  CallAgrees(c)' /\ Decides(c)
<1> USE ExperimentsAssumption DEF IInv, Marking, Commands, LiveStates, CallAgrees, PlaceAgrees,
        CopyAgrees, EarlyAgrees, FailureAgrees, DestroyAgrees, Kept, Decides, Undecided, TypeOK,
        Places, Awaiting, Saving, Early, Rows, NoRow, NewRow, ExperimentStatuses, Goes, Becomes,
        WithStatus, Writes, Removes, local, docker
<1>1. CASE CapacityChecked(c)
  <2>1. CASE at'[c] = "refused"
    BY <1>1, <2>1 DEF CapacityChecked
  <2>2. CASE at'[c] = "inserting"
    <3>1. PICK e \in Unused : req' = [req EXCEPT ![c] = [op |-> "create", of |-> e]]
      BY <1>1, <2>2 DEF CapacityChecked
    <3>2. /\ e \in Experiments /\ e \notin containers /\ row[e] = NoRow
          /\ \A d \in Calls : req[d].of # e
      BY <3>1 DEF Unused, Referenced
    <3>3. /\ req'[c] = [op |-> "create", of |-> e] /\ copy'[c] = NewRow
          /\ UNCHANGED <<row, containers>>
      BY <1>1, <2>2, <3>1 DEF CapacityChecked
    <3>4. \A d \in Calls : req'[d].of = e => d = c
      BY <3>1, <3>2
    <3> QED
      BY <2>2, <3>2, <3>3, <3>4
  <2> QED
    BY <1>1, <2>1, <2>2 DEF CapacityChecked
<1>2. CASE Inserted(c)
  BY <1>2 DEF Inserted, PreparesSnapshot
<1>3. CASE Provisioned(c)
  BY <1>3 DEF Provisioned
<1>4. CASE Attached(c)
  BY <1>4 DEF Attached
<1>5. CASE Readied(c)
  BY <1>5 DEF Readied
<1>6. CASE CreationRaises(c)
  BY <1>6 DEF CreationRaises
<1>7. CASE FailureNoted(c)
  BY <1>7 DEF FailureNoted
<1>8. CASE Dismantled(c)
  BY <1>8 DEF Dismantled
<1>9. CASE CreationFailed(c)
  BY <1>9 DEF CreationFailed
<1>10. CASE Got(c)
  <2>1. CASE Proceeds(c, row[req[c].of])
    BY <1>10, <2>1 DEF Got, Proceeds
  <2>2. CASE ~Proceeds(c, row[req[c].of])
    BY <1>10, <2>2 DEF Got
  <2> QED
    BY <2>1, <2>2
<1>11. CASE Detected(c)
  BY <1>11 DEF Detected, Proceeds
<1>12. CASE Marked(c)
  BY <1>12 DEF Marked
<1>13. CASE JobSubmitted(c)
  BY <1>13 DEF JobSubmitted
<1>14. CASE JobAwaited(c)
  BY <1>14, Settles DEF JobAwaited
<1>15. CASE Settled(c)
  BY <1>15 DEF Settled
<1>16. CASE LookedUp(c)
  BY <1>16 DEF LookedUp, CancelJobs
<1>17. CASE Drained(c)
  BY <1>17 DEF Drained
<1>18. CASE Removed(c)
  BY <1>18 DEF Removed
<1>19. CASE Closed(c)
  BY <1>19 DEF Closed
<1>20. CASE Lands(c)
  BY <1>20 DEF Lands
<1>21. CASE StartCreate(c)
  BY <1>21 DEF StartCreate, Starts
<1>22. CASE CancelJob(c)
  BY <1>22 DEF CancelJob, CancelJobs
<1>23. CASE Abandon(c)
  BY <1>23 DEF Abandon
<1>24. CASE AbandonWait(c)
  BY <1>24, Settles DEF AbandonWait, Outcomes
<1>raised. CASE DatabaseRaises(c)
  BY <1>raised DEF DatabaseRaises, Unguarded
<1>25. CASE \E outcome \in Outcomes : JobEnds(c, outcome)
  BY <1>25 DEF JobEnds
<1>26. CASE \E e \in Experiments : StartDestroy(c, e)
  BY <1>26 DEF StartDestroy, Starts
<1>27. CASE \E e \in Experiments, op \in Ops : StartExecute(c, op, e)
  BY <1>27 DEF StartExecute, Starts
<1> QED
  BY <1>1, <1>2, <1>3, <1>4, <1>5, <1>6, <1>7, <1>8, <1>9, <1>10, <1>11, <1>12, <1>13, <1>14,
     <1>15, <1>16, <1>17, <1>18, <1>19, <1>20, <1>21, <1>22, <1>23, <1>24, <1>25, <1>26, <1>27,
     <1>raised
     DEF Step, CallStep, JobStep

\* What relates calls and rows to each other.
LEMMA StepRest ==
  ASSUME IInv, NEW c \in Calls, Footprint(c), TypeOK', Decides(c)
  PROVE  (OneCreator /\ Referenced /\ Pending)'
<1> USE ExperimentsAssumption DEF IInv, TypeOK, Footprint, CallAgrees
<1>0. req[c].of # None => req'[c] = req[c]
  BY DEF PlaceAgrees
<1>1. OneCreator'
  <2> SUFFICES ASSUME NEW p \in Calls, NEW q \in Calls, req'[p].op = "create", req'[q].op = "create",
                      req'[p].of = req'[q].of, req'[p].of # None
               PROVE  p = q
    BY DEF OneCreator
  <2>1. CASE req'[c] = req[c]
    <3>1. req'[p] = req[p] /\ req'[q] = req[q]
      BY <2>1
    <3> QED
      BY <3>1 DEF OneCreator
  <2>2. CASE req'[c] # req[c]
    <3>1. \A d \in Calls \ {c} : req'[d] = req[d]
      OBVIOUS
    <3>2. req'[c].op # "create" \/ req'[c].of = None \/ \A d \in Calls : req[d].of # req'[c].of
      BY <2>2
    <3>3. OneCreator
      OBVIOUS
    <3> HIDE DEF IInv, TypeOK, Footprint, CallAgrees
    <3>4. CASE p # c /\ q # c
      BY <3>1, <3>3, <3>4 DEF OneCreator
    <3>5. CASE p = c \/ q = c
      BY <3>1, <3>2, <3>5
    <3> QED
      BY <3>4, <3>5
  <2> QED
    BY <2>1, <2>2
<1>2. Referenced'
  <2> SUFFICES ASSUME NEW e \in (containers \cup snapshots)' PROVE \E d \in Calls : req'[d].of = e
    BY DEF Referenced
  <2>1. e \in Experiments
    OBVIOUS
  <2>2. \E d \in Calls : req[d].of = e
    BY <2>1 DEF Referenced
  <2> QED
    BY <1>0, <2>1, <2>2
<1>3. Pending'
  <2> SUFFICES ASSUME NEW e \in Experiments, row'[e].status \in {"CREATING", "RUNNING"}
               PROVE  \E d \in Calls : req'[d].of = e /\ Undecided(d)'
    BY DEF Pending
  <2>1. PICK d \in Calls : req[d].of = e /\ Undecided(d)
    BY DEF Pending, Undecided, Places, Awaiting, Saving
  <2>2. CASE d = c
    BY <1>0, <2>1, <2>2 DEF Decides
  <2>3. CASE d # c
    BY <2>1, <2>3 DEF Undecided
  <2> QED
    BY <2>2, <2>3
<1> QED
  BY <1>1, <1>2, <1>3

\* A crash ends the calls and leaves the rows; the sweep spares what a live row claims.
LEMMA CrashIInv == IInv /\ CrashAndRestart => IInv'
<1> SUFFICES ASSUME IInv, CrashAndRestart PROVE IInv'
  OBVIOUS
<1> USE ExperimentsAssumption DEF IInv, CrashAndRestart
<1>1. TypeOK'
  BY DEF TypeOK, Places, Awaiting, Saving, JobStates, Outcomes, InFlight, Removes, local
<1>2. /\ UNCHANGED local /\ UNCHANGED <<row, snapshots>>
      /\ containers' \subseteq containers /\ stuck \subseteq stuck'
      /\ containers \cap Claimed \subseteq containers'
      /\ \A c \in Calls : at'[c] = (IF at[c] \in Awaiting \cup {"landing"} THEN "lost" ELSE at[c])
  BY DEF TypeOK, InFlight, Removes, Claimed
<1>3. (OneCreator /\ Referenced)'
  BY <1>2 DEF OneCreator, Referenced, local
<1>4. Pending'
  BY <1>2 DEF Pending, Undecided, local, Places, Awaiting, Saving
<1>5. ASSUME NEW c \in Calls PROVE CallAgrees(c)'
  BY <1>1, <1>2 DEF TypeOK, Awaiting, Saving, CallAgrees, PlaceAgrees, CopyAgrees, EarlyAgrees,
     FailureAgrees, DestroyAgrees, Kept, Early, Marking, local, Claimed
<1> QED
  BY <1>1, <1>3, <1>4, <1>5

LEMMA NextIInv == IInv /\ [Next]_vars => IInv'
<1> SUFFICES ASSUME IInv, [Next]_vars PROVE IInv'
  OBVIOUS
<1>1. CASE \E c \in Calls : Step(c)
  <2>1. PICK c \in Calls : Step(c)
    BY <1>1
  <2>2. PlaceAgrees(c) /\ TypeOK
    BY DEF IInv, CallAgrees
  <2>3. TypeOK' /\ Footprint(c)
    BY <2>1, <2>2, StepTypeOK, StepFootprint
  <2>4. CallAgrees(c)' /\ Decides(c)
    BY <2>1, <2>3, OwnAgrees
  <2>5. \A d \in Calls \ {c} : CallAgrees(d)'
    BY <2>3, OthersAgree
  <2>6. (OneCreator /\ Referenced /\ Pending)'
    BY <2>3, <2>4, StepRest
  <2> QED
    BY <2>3, <2>4, <2>5, <2>6 DEF IInv
<1>2. CASE CrashAndRestart
  BY <1>2, CrashIInv
<1>3. CASE UNCHANGED vars
  BY <1>3 DEF vars, local, docker, IInv, TypeOK, OneCreator, Referenced, Pending, Undecided,
     CallAgrees, PlaceAgrees, CopyAgrees, EarlyAgrees, FailureAgrees, DestroyAgrees, Kept
<1> QED
  BY <1>1, <1>2, <1>3, NextSplits

LEMMA InitIInv == Init => IInv
  BY ExperimentsAssumption DEF Init, IInv, TypeOK, Places, Rows, NoRow, None, JobStates,
     OneCreator, Referenced, Pending, CallAgrees, PlaceAgrees, CopyAgrees, EarlyAgrees,
     FailureAgrees, DestroyAgrees, Kept, Early, Marking, Commands, Awaiting, Saving

\* The inductive invariant.
THEOREM Invariance == Spec => []IInv
  BY InitIInv, NextIInv, PTL DEF Spec

\* Type correctness: every variable of the experiment manager keeps its range.
THEOREM TypeCorrectness == Spec => []TypeOK
  BY Invariance, PTL DEF IInv

\* However calls interleave, the server crashes or clients give up: an experiment whose calls
\* were all answered is not left CREATING or RUNNING.
THEOREM Quiescence == Spec => []QuiescentSettled
<1>1. IInv => QuiescentSettled
  BY DEF IInv, Pending, Undecided, QuiescentSettled
<1> QED
  BY <1>1, Invariance, PTL

\* An experiment the client was given and nobody destroys keeps its container and its row, over
\* any number of restarts and sweeps.
THEOREM Keeping == Spec => []AnsweredCreateKept
<1>1. IInv => AnsweredCreateKept
  BY DEF IInv, TypeOK, CallAgrees, Kept, PlaceAgrees, AnsweredCreateKept, Claimed
<1> QED
  BY <1>1, Invariance, PTL

\* A create that failed leaves neither its container, unless Docker refused, nor its snapshot.
THEOREM CleanFailure == Spec => []FailedCreateCleansUp
<1>1. IInv => FailedCreateCleansUp
  BY DEF IInv, CallAgrees, FailureAgrees, FailedCreateCleansUp
<1> QED
  BY <1>1, Invariance, PTL

\* What a destroy saw in the row is gone once it is answered, unless Docker refused.
THEOREM Removal == Spec => []DestroyRemoves
<1>1. IInv => DestroyRemoves
  BY DEF IInv, CallAgrees, DestroyAgrees, DestroyRemoves
<1> QED
  BY <1>1, Invariance, PTL
=============================================================================
