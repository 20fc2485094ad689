----------------------- MODULE ExperimentsSerialProofs -----------------------
(* Theorems about Experiments for a client that awaits each answer before its next  *)
(* call: the checks on the copies protect the rows.                                 *)
EXTENDS ExperimentsProofs, FiniteSetTheorems

\* A call that may still write its row.
Active(c) == at[c] \in Awaiting \cup {"landing"}

Alone == \A c, d \in Calls : Active(c) /\ Active(d) => c = d

RowsBegin == \A e \in Experiments : row[e].status = None => row[e] = NoRow

\* Where a call holds a copy that is not yet changed, or changed and saved.
InStep ==
  {"provisioning", "dismantling", "detecting", "submitting", "waiting", "draining", "removing"}

\* The copy of the active call against the row it was read from: the same status, or one the
\* row may move to when it is saved.
RowAgrees(c) ==
  LET e == req[c].of IN
  /\ req[c].op \in Commands \cup {"destroy"} => row[e].status # None
  /\ at[c] \in InStep => row[e].status = copy[c].status
  /\ at[c] \in Saving \cup {"landing"} =>
       IF row[e].status = None THEN copy[c].status = "CREATING"
                               ELSE CanMove(row[e].status, copy[c].status)
  /\ req[c].op \in Commands /\ at[c] \in Marking \cup {"landing"} => row[e].status \in LiveStates
  /\ req[c].op = "destroy" /\ at[c] = "landing" => copy[c].status = "DESTROYED"
  /\ at[c] \in {"attaching", "readying", "noting"} => row[e].status = "CREATING"
  /\ at[c] \in {"noting", "dismantling"} => copy[c].status \in {"CREATING", "READY"}

\* Behind the capacity check there is room for the experiment of a create.
Room(c) ==
  req[c].op = "create" /\ Active(c) /\ at[c] # "checking"
    => Cardinality(Live \ {req[c].of}) < MaxExperiments

SerialInv == Alone /\ RowsBegin /\ CapacityHeld /\ \A c \in Calls : RowAgrees(c) /\ Room(c)

\* The active call knows of a container the row knows of.
ContainerAgrees(c) ==
  LET e == req[c].of IN
  /\ at[c] \in Saving \cup InStep => (row[e].container => copy[c].container)
  /\ at[c] = "closing" => e \notin containers \ stuck
  /\ at[c] # "landing"

\* A container is in its row, or in the copy of the create that is about to save it.
Known ==
  \A e \in containers \ stuck :
    \/ row[e].container
    \/ \E c \in Calls : req[c].of = e /\ at[c] \in {"attaching", "noting"} /\ copy[c].container

\* Nobody cancels a request and the database answers: otherwise the container of a create that
\* was cancelled, or could not save its failure, is in no row.
Undisturbed == ~ClientMayCancel /\ ~DatabaseMayFail

ContainerInv ==
  Undisturbed => Known /\ DestroyedIsGone /\ \A c \in Calls : ContainerAgrees(c)
-----------------------------------------------------------------------------
\* A call begins when no other is active, and a create goes on when there is room.
MayBegin(c) ==
  /\ Active(c)' => Active(c) \/ \A d \in Calls : ~Active(d)
  /\ Active(c)' /\ at'[c] # "checking" /\ req'[c].op = "create" =>
       (Active(c) /\ at[c] # "checking") \/ Cardinality(Live) < MaxExperiments

\* The create that has the container in its copy saves it or keeps it.
StillKnown(c) ==
  /\ at[c] \in {"provisioning", "attaching", "noting"}
  /\ at[c] # "provisioning" => copy[c].container
  /\ req[c].of \in containers' \ stuck'
  => row'[req[c].of].container \/ (at'[c] \in {"attaching", "noting"} /\ copy'[c].container)

\* What the table says of the moves that matter below.
LEMMA Moves ==
  /\ \A s \in ExperimentStatuses : CanMove(s, "RUNNING") => s \in LiveStates
  /\ \A s \in ExperimentStatuses : \A t : CanMove(s, t) => t \in ExperimentStatuses
  /\ \A s \in ExperimentStatuses : CanMove(s, s)
  /\ CanMove("CREATING", "CREATING") /\ CanMove("CREATING", "READY")
  BY DEF CanMove, Successors, ExperimentStatuses, LiveStates

\* The guards of the beginnings.
LEMMA OwnBegin ==
  ASSUME OneAtATime, NEW c \in Calls, TypeOK, Step(c)
  PROVE  MayBegin(c)
<1> USE DEF TypeOK, Awaiting, Saving, Goes, Becomes, MayBegin, Active
<1>1. CASE CapacityChecked(c)
  BY <1>1 DEF CapacityChecked
<1>2. CASE Inserted(c)
  BY <1>2 DEF Inserted, PreparesSnapshot
<1>3. CASE Provisioned(c)
  BY <1>3 DEF Provisioned
<1>4. CASE Attached(c)
  BY <1>4 DEF Attached
<1>5. CASE Readied(c)
  BY <1>5 DEF Readied
<1>6. CASE CreationRaises(c)
  BY <1>6 DEF CreationRaises
<1>7. CASE FailureNoted(c)
  BY <1>7 DEF FailureNoted
<1>8. CASE Dismantled(c)
  BY <1>8 DEF Dismantled
<1>9. CASE CreationFailed(c)
  BY <1>9 DEF CreationFailed
<1>10. CASE Got(c)
  BY <1>10 DEF Got, Proceeds
<1>11. CASE Detected(c)
  BY <1>11 DEF Detected, Proceeds
<1>12. CASE Marked(c)
  BY <1>12 DEF Marked
<1>13. CASE JobSubmitted(c)
  BY <1>13 DEF JobSubmitted
<1>14. CASE JobAwaited(c)
  BY <1>14, Settles DEF JobAwaited
<1>15. CASE Settled(c)
  BY <1>15 DEF Settled
<1>16. CASE LookedUp(c)
  BY <1>16 DEF LookedUp, CancelJobs
<1>17. CASE Drained(c)
  BY <1>17 DEF Drained
<1>18. CASE Removed(c)
  BY <1>18 DEF Removed
<1>19. CASE Closed(c)
  BY <1>19 DEF Closed
<1>20. CASE Lands(c)
  BY <1>20 DEF Lands
<1>21. CASE StartCreate(c)
  BY <1>21 DEF InFlight, StartCreate, Starts
<1>22. CASE CancelJob(c)
  BY <1>22 DEF CancelJob, CancelJobs
<1>23. CASE Abandon(c)
  BY <1>23 DEF Abandon
<1>24. CASE AbandonWait(c)
  BY <1>24, Settles DEF AbandonWait, Outcomes
<1>raised. CASE DatabaseRaises(c)
  BY <1>raised DEF DatabaseRaises, Unguarded
<1>25. CASE \E outcome \in Outcomes : JobEnds(c, outcome)
  BY <1>25 DEF JobEnds
<1>26. CASE \E e \in Experiments : StartDestroy(c, e)
  BY <1>26 DEF InFlight, StartDestroy, Starts
<1>27. CASE \E e \in Experiments, op \in Ops : StartExecute(c, op, e)
  BY <1>27 DEF InFlight, StartExecute, Starts
<1> QED
  BY <1>1, <1>2, <1>3, <1>4, <1>5, <1>6, <1>7, <1>8, <1>9, <1>10, <1>11, <1>12, <1>13, <1>14,
     <1>15, <1>16, <1>17, <1>18, <1>19, <1>20, <1>21, <1>22, <1>23, <1>24, <1>25, <1>26, <1>27,
     <1>raised
     DEF Step, CallStep, JobStep

\* The call itself, action by action: its copy against its row,
LEMMA OwnRow ==
  ASSUME NEW c \in Calls, TypeOK, PlaceAgrees(c), CopyAgrees(c), RowsBegin, RowAgrees(c),
         Step(c), TypeOK'
  PROVE  RowAgrees(c)'
<1> USE ExperimentsAssumption, Moves DEF PlaceAgrees, CopyAgrees, TypeOK, Awaiting, Saving, Early,
        Marking, Commands, Rows, NoRow, NewRow, Goes, Becomes, WithStatus, Writes, Removes, local,
        docker, RowAgrees, Active, Ops, LiveStates, ExperimentStatuses, None, Outcomes, InStep
<1>1. CASE CapacityChecked(c)
  <2>1. CASE at'[c] = "refused"
    BY <1>1, <2>1 DEF CapacityChecked
  <2>2. CASE at'[c] = "inserting"
    <3>1. PICK e \in Unused : req' = [req EXCEPT ![c] = [op |-> "create", of |-> e]]
      BY <1>1, <2>2 DEF CapacityChecked
    <3>2. e \in Experiments /\ row[e].status = None
      BY <3>1 DEF Unused
    <3>3. req'[c] = [op |-> "create", of |-> e] /\ copy'[c] = NewRow /\ UNCHANGED row
      BY <1>1, <2>2, <3>1 DEF CapacityChecked
    <3> QED
      BY <2>2, <3>2, <3>3
  <2> QED
    BY <1>1, <2>1, <2>2 DEF CapacityChecked
<1>2. CASE Inserted(c)
  BY <1>2 DEF Inserted, PreparesSnapshot
<1>3. CASE Provisioned(c)
  BY <1>3 DEF Provisioned
<1>4. CASE Attached(c)
  BY <1>4 DEF Attached
<1>5. CASE Readied(c)
  BY <1>5 DEF Readied
<1>6. CASE CreationRaises(c)
  BY <1>6 DEF CreationRaises
<1>7. CASE FailureNoted(c)
  BY <1>7 DEF FailureNoted
<1>8. CASE Dismantled(c)
  BY <1>8 DEF Dismantled
<1>9. CASE CreationFailed(c)
  BY <1>9 DEF CreationFailed
<1>10. CASE Got(c)
  BY <1>10 DEF Got, Proceeds
<1>11. CASE Detected(c)
  BY <1>11 DEF Detected, Proceeds
<1>12. CASE Marked(c)
  BY <1>12 DEF Marked
<1>13. CASE JobSubmitted(c)
  BY <1>13 DEF JobSubmitted
<1>14. CASE JobAwaited(c)
  BY <1>14, Settles DEF JobAwaited
<1>15. CASE Settled(c)
  BY <1>15 DEF Settled
<1>16. CASE LookedUp(c)
  BY <1>16 DEF LookedUp, CancelJobs
<1>17. CASE Drained(c)
  BY <1>17 DEF Drained
<1>18. CASE Removed(c)
  BY <1>18 DEF Removed
<1>19. CASE Closed(c)
  BY <1>19 DEF Closed
<1>20. CASE Lands(c)
  BY <1>20 DEF Lands
<1>21. CASE StartCreate(c)
  BY <1>21 DEF InFlight, StartCreate, Starts
<1>22. CASE CancelJob(c)
  BY <1>22 DEF CancelJob, CancelJobs
<1>23. CASE Abandon(c)
  BY <1>23 DEF Abandon
<1>24. CASE AbandonWait(c)
  BY <1>24, Settles DEF AbandonWait, Outcomes
<1>raised. CASE DatabaseRaises(c)
  BY <1>raised DEF DatabaseRaises, Unguarded
<1>25. CASE \E outcome \in Outcomes : JobEnds(c, outcome)
  BY <1>25 DEF JobEnds
<1>26. CASE \E e \in Experiments : StartDestroy(c, e)
  BY <1>26 DEF InFlight, StartDestroy, RowsBegin, Starts
<1>27. CASE \E e \in Experiments, op \in Ops : StartExecute(c, op, e)
  BY <1>27 DEF InFlight, StartExecute, RowsBegin, Starts
<1>28. CASE JobStep(c)
  BY <1>25, <1>28 DEF JobStep
<1>29. CASE CallStep(c)
  BY <1>1, <1>2, <1>3, <1>4, <1>5, <1>6, <1>7, <1>8, <1>9, <1>10, <1>11, <1>12, <1>13, <1>14,
     <1>15, <1>16, <1>17, <1>18, <1>19, <1>20, <1>29 DEF CallStep
<1> QED
  BY <1>21, <1>22, <1>23, <1>24, <1>raised, <1>26, <1>27, <1>28, <1>29, SMTT(30) DEF Step

\* and against its container.
LEMMA OwnContainer ==
  ASSUME OneAtATime, Undisturbed, IInv, SerialInv, ContainerInv, NEW c \in Calls,
         Step(c), TypeOK'
  PROVE  ContainerAgrees(c)' /\ StillKnown(c)
<1> USE ExperimentsAssumption DEF IInv, CallAgrees, PlaceAgrees, CopyAgrees, TypeOK, Awaiting,
        Saving, Early, Marking, Commands, Rows, NoRow, NewRow, Goes, Becomes, WithStatus, Writes,
        Removes, local, docker, SerialInv, ContainerInv, RowAgrees, RowsBegin, Active, StillKnown,
        ContainerAgrees, EarlyAgrees, DestroyAgrees, Alone, Known, Referenced, Unused, InStep,
        Undisturbed
<1>1. CASE CapacityChecked(c)
  BY <1>1 DEF CapacityChecked
<1>2. CASE Inserted(c)
  BY <1>2 DEF Inserted, PreparesSnapshot
<1>3. CASE Provisioned(c)
  BY <1>3 DEF Provisioned
<1>4. CASE Attached(c)
  BY <1>4 DEF Attached
<1>5. CASE Readied(c)
  BY <1>5 DEF Readied
<1>6. CASE CreationRaises(c)
  BY <1>6 DEF CreationRaises
<1>7. CASE FailureNoted(c)
  BY <1>7 DEF FailureNoted
<1>8. CASE Dismantled(c)
  BY <1>8 DEF Dismantled
<1>9. CASE CreationFailed(c)
  BY <1>9 DEF CreationFailed
<1>10. CASE Got(c)
  <2>1. CASE Proceeds(c, row[req[c].of])
    <3> DEFINE r == row[req[c].of]
    <3>0. /\ at[c] = "getting"
          /\ copy' # copy \/ job' # job => r.container /\ r.status # "DESTROYED"
          /\ UNCHANGED <<req, copied, targets, row, docker, snapshots, crashes>>
      BY <1>10 DEF Got
    <3>1. CASE /\ copy' = [copy EXCEPT ![c] = r] /\ Goes(c, "submitting")
               /\ job' = [job EXCEPT ![c] = "submitting"] /\ r.status = "RUNNING"
      BY <3>0, <3>1
    <3>2. CASE Becomes(c, r, "RUNNING", "marking") /\ job' = job
      BY <3>0, <3>2
    <3>3. CASE Goes(c, "refused") /\ copy' = copy /\ job' = job
      BY <3>0, <3>3
    <3> QED
      BY <2>1, <3>1, <3>2, <3>3 DEF Proceeds
  <2>2. CASE ~Proceeds(c, row[req[c].of])
    BY <1>10, <2>2 DEF Got
  <2> QED
    BY <2>1, <2>2
<1>11. CASE Detected(c)
  BY <1>11 DEF Detected, Proceeds
<1>12. CASE Marked(c)
  BY <1>12 DEF Marked
<1>13. CASE JobSubmitted(c)
  BY <1>13 DEF JobSubmitted
<1>14. CASE JobAwaited(c)
  BY <1>14, Settles DEF JobAwaited
<1>15. CASE Settled(c)
  BY <1>15 DEF Settled
<1>16. CASE LookedUp(c)
  BY <1>16 DEF LookedUp, CancelJobs
<1>17. CASE Drained(c)
  BY <1>17 DEF Drained
<1>18. CASE Removed(c)
  BY <1>18 DEF Removed
<1>19. CASE Closed(c)
  BY <1>19 DEF Closed
<1>20. CASE Lands(c)
  BY <1>20 DEF Lands
<1>21. CASE StartCreate(c)
  BY <1>21 DEF InFlight, StartCreate, Starts
<1>22. CASE CancelJob(c)
  BY <1>22 DEF CancelJob, CancelJobs
<1>23. CASE Abandon(c)
  BY <1>23 DEF Abandon
<1>24. CASE AbandonWait(c)
  BY <1>24, Settles DEF AbandonWait, Outcomes
<1>raised. CASE DatabaseRaises(c)
  BY <1>raised DEF DatabaseRaises, Unguarded
<1>25. CASE \E outcome \in Outcomes : JobEnds(c, outcome)
  BY <1>25 DEF JobEnds
<1>26. CASE \E e \in Experiments : StartDestroy(c, e)
  BY <1>26 DEF InFlight, StartDestroy, Starts
<1>27. CASE \E e \in Experiments, op \in Ops : StartExecute(c, op, e)
  BY <1>27 DEF InFlight, StartExecute, Starts
<1> QED
  BY <1>1, <1>2, <1>3, <1>4, <1>5, <1>6, <1>7, <1>8, <1>9, <1>10, <1>11, <1>12, <1>13, <1>14,
     <1>15, <1>16, <1>17, <1>18, <1>19, <1>20, <1>21, <1>22, <1>23, <1>24, <1>25, <1>26, <1>27,
     <1>raised
     DEF Step, CallStep, JobStep


LEMMA StepAlone ==
  ASSUME Alone, NEW c \in Calls, Footprint(c), MayBegin(c)
  PROVE  Alone'
  BY DEF Alone, MayBegin, Footprint, Active

\* The only change to a row is a save of the active call, along an edge of the table.
LEMMA StepWrites ==
  ASSUME NEW c \in Calls, TypeOK, TypeOK', PlaceAgrees(c), RowAgrees(c), Footprint(c),
         NEW e \in Experiments, row'[e] # row[e]
  PROVE  /\ e = req[c].of /\ req'[c] = req[c] /\ Active(c)
         /\ at[c] \in Saving \cup {"landing"}
         /\ row'[e] = copy[c] /\ copy[c].status \in ExperimentStatuses
         /\ IF row[e].status = None THEN copy[c].status = "CREATING"
                                    ELSE CanMove(row[e].status, copy[c].status)
<1>1. e = req[c].of /\ at[c] \in Saving \cup {"landing"} /\ row'[e] = copy[c]
  BY DEF Footprint
<1>2. req'[c] = req[c]
  BY DEF Footprint
<1>3. IF row[e].status = None THEN copy[c].status = "CREATING"
                             ELSE CanMove(row[e].status, copy[c].status)
  BY <1>1 DEF RowAgrees, InStep
<1>4. row[e].status \in ExperimentStatuses \cup {None}
  BY DEF TypeOK, Rows
<1>5. copy[c].status \in ExperimentStatuses
  BY <1>3, <1>4, Moves DEF ExperimentStatuses
<1> QED
  BY <1>1, <1>2, <1>3, <1>5 DEF Active, Awaiting

\* The rows others read stay as they read them.
LEMMA StepRows ==
  ASSUME IInv, SerialInv, NEW c \in Calls, Footprint(c), TypeOK', RowAgrees(c)', MayBegin(c)
  PROVE  RowsBegin' /\ \A d \in Calls : RowAgrees(d)'
<1>0. TypeOK /\ PlaceAgrees(c) /\ RowAgrees(c)
  BY DEF IInv, SerialInv, CallAgrees
<1>1. ASSUME NEW e \in Experiments, row'[e] # row[e] PROVE row'[e].status # None
  BY <1>0, <1>1, StepWrites DEF ExperimentStatuses, None
<1>2. RowsBegin'
  BY <1>1 DEF SerialInv, RowsBegin
<1>3. ASSUME NEW d \in Calls \ {c} PROVE RowAgrees(d)'
  <2>0. at'[d] = at[d] /\ req'[d] = req[d] /\ copy'[d] = copy[d] /\ RowAgrees(d) /\ PlaceAgrees(d)
    BY DEF Footprint, SerialInv, IInv, CallAgrees
  <2>1. CASE row'[req[d].of] = row[req[d].of]
    BY <2>0, <2>1 DEF RowAgrees, InStep
  <2>2. CASE row'[req[d].of] # row[req[d].of] /\ req[d].of \in Experiments
    <3>1. ~Active(d)
      BY <2>2, <1>0, StepWrites DEF SerialInv, Alone
    <3>2. row'[req[d].of].status # None
      BY <2>2, <1>1
    <3> QED
      BY <2>0, <3>1, <3>2 DEF RowAgrees, Active, Awaiting, Saving, Marking, InStep
  <2>3. CASE req[d].of \notin Experiments
    BY <2>0, <2>3 DEF RowAgrees, PlaceAgrees, Awaiting, Saving, Marking, IInv, TypeOK, InStep
  <2> QED
    BY <2>1, <2>2, <2>3
<1> QED
  BY <1>2, <1>3

LEMMA LiveFinite ==
  /\ IsFiniteSet(Live) /\ Cardinality(Live) \in Nat
  /\ \A e : /\ IsFiniteSet(Live \ {e})
            /\ Cardinality(Live \ {e}) \in Nat
            /\ Cardinality(Live \ {e}) <= Cardinality(Live)
  BY ExperimentsAssumption, FS_Subset, FS_CardinalityType DEF Live

\* The save of a create has room; no other save makes an experiment live.
LEMMA StepCapacity ==
  ASSUME IInv, SerialInv, NEW c \in Calls, Footprint(c), Step(c), TypeOK', MayBegin(c)
  PROVE  CapacityHeld' /\ \A d \in Calls : Room(d)'
<1>0. TypeOK /\ PlaceAgrees(c) /\ CopyAgrees(c) /\ RowAgrees(c) /\ Room(c) /\ CapacityHeld
  BY DEF IInv, SerialInv, CallAgrees
<1>1. CASE row' = row
  <2>1. Live' = Live
    BY <1>1 DEF Live
  <2>2. CapacityHeld'
    BY <1>0, <2>1 DEF CapacityHeld
  <2>3. ASSUME NEW d \in Calls \ {c} PROVE Room(d)'
    BY <2>1 DEF Room, SerialInv, Footprint, Active
  <2>4. Room(c)'
    <3>1. CASE Active(c) /\ at[c] # "checking"
      BY <3>1, <2>1, <1>0 DEF Room, Footprint, Active, Awaiting, Saving
    <3>2. CASE ~(Active(c) /\ at[c] # "checking")
      <4> SUFFICES ASSUME Active(c)', at'[c] # "checking", req'[c].op = "create"
                   PROVE  Cardinality(Live \ {req'[c].of}) < MaxExperiments
        BY <2>1 DEF Room
      <4>1. Cardinality(Live) < MaxExperiments
        BY <3>2 DEF MayBegin
      <4>2. /\ Cardinality(Live \ {req'[c].of}) <= Cardinality(Live)
            /\ Cardinality(Live \ {req'[c].of}) \in Nat
        BY LiveFinite
      <4> QED
        BY <4>1, <4>2, LiveFinite, ExperimentsAssumption
    <3> QED
      BY <3>1, <3>2
  <2> QED
    BY <2>2, <2>3, <2>4
<1>2. CASE row' # row
  <2>1. PICK e \in Experiments : row'[e] # row[e]
    BY <1>0, <1>2 DEF TypeOK
  <2>2. /\ e = req[c].of /\ req'[c] = req[c] /\ Active(c)
        /\ at[c] \in Saving \cup {"landing"}
        /\ row'[e] = copy[c]
    BY <1>0, <2>1, StepWrites
  <2>3. \A f \in Experiments : f # e => row'[f] = row[f]
    BY <2>2 DEF Footprint
  <2>4. Live' \ {e} = Live \ {e}
    BY <2>3 DEF Live
  <2>5. CapacityHeld'
    <3>1. CASE req[c].op = "create"
      <4>1. Cardinality(Live \ {e}) < MaxExperiments
        BY <2>2, <3>1, <1>0 DEF Room, Saving
      <4>2. Live' \subseteq (Live \ {e}) \cup {e}
        BY <2>4
      <4>3. /\ IsFiniteSet((Live \ {e}) \cup {e})
            /\ Cardinality((Live \ {e}) \cup {e}) = Cardinality(Live \ {e}) + 1
        BY LiveFinite, FS_AddElement
      <4>4. Cardinality(Live') <= Cardinality(Live \ {e}) + 1 /\ Cardinality(Live') \in Nat
        BY <4>2, <4>3, FS_Subset, FS_CardinalityType
      <4> QED
        BY <4>1, <4>4, LiveFinite, ExperimentsAssumption DEF CapacityHeld
    <3>2. CASE req[c].op # "create"
      <4>1. Live' \subseteq Live
        <5>1. req[c].op \in Commands => e \in Live
          BY <2>2, <1>0 DEF RowAgrees, PlaceAgrees, Saving, Marking, Commands, Live, Early, InStep
        <5>2. req[c].op = "destroy" => e \notin Live'
          BY <2>2, <1>0 DEF RowAgrees, CopyAgrees, PlaceAgrees, Saving, Marking, Live, LiveStates,
             Early, Commands, InStep
        <5>3. req[c].op \in Commands \cup {"destroy"}
          BY <2>2, <3>2, <1>0 DEF PlaceAgrees, TypeOK, Ops, Commands, Awaiting
        <5> QED
          BY <2>4, <5>1, <5>2, <5>3
      <4>2. /\ Cardinality(Live') <= Cardinality(Live)
            /\ Cardinality(Live') \in Nat /\ Cardinality(Live) \in Nat
        BY <4>1, LiveFinite, FS_Subset, FS_CardinalityType
      <4> QED
        BY <4>2, <1>0, ExperimentsAssumption DEF CapacityHeld
    <3> QED
      BY <3>1, <3>2
  <2>6. Room(c)'
    BY <2>2, <2>4, <1>0 DEF Room, Saving
  <2>7. ASSUME NEW d \in Calls \ {c} PROVE Room(d)'
    BY <2>2 DEF Room, SerialInv, Alone, Footprint, Active
  <2> QED
    BY <2>5, <2>6, <2>7
<1> QED
  BY <1>1, <1>2

\* A container that is not stuck stays known, and is gone before its row says so.
LEMMA StepContainers ==
  ASSUME Undisturbed, IInv, SerialInv, ContainerInv, NEW c \in Calls, TypeOK',
         Step(c), Footprint(c), MayBegin(c), ContainerAgrees(c)', StillKnown(c)
  PROVE  ContainerInv'
<1>0. /\ TypeOK /\ PlaceAgrees(c) /\ CopyAgrees(c)
      /\ RowAgrees(c) /\ ContainerAgrees(c) /\ Alone /\ Known
  BY DEF IInv, SerialInv, ContainerInv, CallAgrees
<1>1. ASSUME NEW d \in Calls \ {c} PROVE ContainerAgrees(d)'
  <2>0. /\ at'[d] = at[d] /\ req'[d] = req[d] /\ copy'[d] = copy[d]
        /\ ContainerAgrees(d) /\ PlaceAgrees(d)
    BY DEF Footprint, ContainerInv, IInv, CallAgrees
  <2>1. CASE ~Active(d)
    BY <2>0, <2>1 DEF ContainerAgrees, Active, Awaiting, Saving, InStep
  <2>2. CASE Active(d)
    <3>1. ~Active(c)
      BY <1>0, <2>2 DEF Alone
    <3>2. row' = row /\ containers' \subseteq containers /\ stuck \subseteq stuck'
      BY <1>0, <3>1, StepWrites DEF TypeOK, Footprint, Active, Awaiting
    <3> QED
      BY <2>0, <3>2 DEF ContainerAgrees, InStep
  <2> QED
    BY <2>1, <2>2
<1>2. DestroyedIsGone'
  <2> SUFFICES ASSUME NEW e \in Experiments, row'[e].status = "DESTROYED"
               PROVE  e \notin containers' \ stuck'
    BY DEF DestroyedIsGone
  <2>1. CASE row'[e] = row[e]
    <3>1. e \notin containers \ stuck
      BY <2>1 DEF ContainerInv, DestroyedIsGone
    <3>2. ~(at[c] = "provisioning" /\ e = req[c].of)
      BY <2>1, <1>0 DEF RowAgrees, CopyAgrees, NewRow, InStep
    <3> QED
      BY <3>1, <3>2 DEF Footprint
  <2>2. CASE row'[e] # row[e]
    <3>1. e = req[c].of /\ at[c] \in Saving \cup {"landing"} /\ copy[c].status = "DESTROYED"
      BY <2>2, <1>0, StepWrites
    <3>2. at[c] = "closing"
      BY <3>1, <1>0 DEF CopyAgrees, RowAgrees, ContainerAgrees, Saving, NewRow, LiveStates,
         Marking, InStep
    <3> QED
      BY <3>1, <3>2, <1>0 DEF ContainerAgrees, Footprint, InStep
  <2> QED
    BY <2>1, <2>2
<1>3. Known'
  <2> SUFFICES ASSUME NEW e \in containers' \ stuck', ~row'[e].container
               PROVE  \E d \in Calls :
                        req'[d].of = e /\ at'[d] \in {"attaching", "noting"} /\ copy'[d].container
    BY DEF Known
  <2>1. CASE e = req[c].of /\ at[c] = "provisioning"
    BY <2>1 DEF StillKnown, Footprint
  <2>2. CASE ~(e = req[c].of /\ at[c] = "provisioning")
    <3>1. e \in containers \ stuck /\ e \in Experiments
      BY <1>0, <2>2 DEF Footprint, TypeOK
    <3>2. ~row[e].container
      BY <3>1, <1>0 DEF Footprint, ContainerAgrees, InStep
    <3>3. PICK d \in Calls : req[d].of = e /\ at[d] \in {"attaching", "noting"} /\ copy[d].container
      BY <3>1, <3>2, <1>0 DEF Known
    <3>4. CASE d = c
      BY <3>3, <3>4 DEF StillKnown, Footprint
    <3>5. CASE d # c
      BY <3>3, <3>5 DEF Footprint
    <3> QED
      BY <3>4, <3>5
  <2> QED
    BY <2>1, <2>2
<1> QED
  BY <1>1, <1>2, <1>3 DEF ContainerInv

\* A crash ends the active call; the sweep removes what no row knows of.
LEMMA CrashSerial ==
  ASSUME IInv, SerialInv, ContainerInv, CrashAndRestart, TypeOK'
  PROVE  SerialInv' /\ ContainerInv'
<1> USE ExperimentsAssumption DEF CrashAndRestart
<1>1. /\ UNCHANGED local /\ UNCHANGED row
      /\ \A c \in Calls : at'[c] = (IF at[c] \in Awaiting \cup {"landing"} THEN "lost" ELSE at[c])
  BY DEF IInv, TypeOK, InFlight
<1>2. \A e \in containers' \ stuck' : e \in containers \ stuck /\ row[e].container
  BY DEF Removes, Claimed, IInv, TypeOK
<1>3. Live' = Live
  BY <1>1 DEF Live
<1>4. \A c \in Calls : ~Active(c)'
  BY <1>1 DEF Active, Awaiting, Saving
<1>5. SerialInv'
  <2>1. Alone' /\ RowsBegin' /\ CapacityHeld' /\ \A c \in Calls : Room(c)'
    BY <1>1, <1>3, <1>4 DEF SerialInv, Alone, RowsBegin, CapacityHeld, Room
  <2>2. \A c \in Calls : RowAgrees(c)'
    BY <1>1, <1>4 DEF SerialInv, RowAgrees, Active, Awaiting, Saving, Marking, local, InStep
  <2> QED
    BY <2>1, <2>2 DEF SerialInv
<1>6. ContainerInv'
  BY <1>1, <1>2, <1>4 DEF ContainerInv, Known, DestroyedIsGone, ContainerAgrees, Active, Awaiting,
     Saving, local, InStep
<1> QED
  BY <1>5, <1>6

LEMMA NextSerial ==
  ASSUME OneAtATime, IInv, SerialInv, ContainerInv, [Next]_vars
  PROVE  SerialInv' /\ ContainerInv'
<1>0. IInv'
  BY NextIInv
<1>1. CASE \E c \in Calls : Step(c)
  <2>1. PICK c \in Calls : Step(c)
    BY <1>1
  <2>2. TypeOK /\ PlaceAgrees(c) /\ CopyAgrees(c) /\ RowAgrees(c) /\ RowsBegin /\ Alone /\ TypeOK'
    BY <1>0 DEF IInv, SerialInv, CallAgrees
  <2>3. Footprint(c) /\ MayBegin(c) /\ RowAgrees(c)'
    BY <2>1, <2>2, StepFootprint, OwnBegin, OwnRow
  <2>4. SerialInv'
    BY <2>1, <2>2, <2>3, StepAlone, StepRows, StepCapacity DEF SerialInv
  <2>5. CASE ~Undisturbed
    BY <2>4, <2>5 DEF ContainerInv
  <2>6. CASE Undisturbed
    <3>1. ContainerAgrees(c)' /\ StillKnown(c)
      BY <2>1, <2>2, <2>6, OwnContainer
    <3>2. ContainerInv'
      BY <2>1, <2>2, <2>3, <2>6, <3>1, StepContainers
    <3> QED
      BY <2>4, <3>2
  <2> QED
    BY <2>4, <2>5, <2>6
<1>2. CASE CrashAndRestart
  BY <1>0, <1>2, CrashSerial DEF IInv
<1>3. CASE UNCHANGED vars
  <2>1. SerialInv'
    BY <1>3 DEF vars, local, docker, SerialInv, Alone, Active, RowsBegin, CapacityHeld, Live,
       RowAgrees, Room, InStep
  <2>2. ContainerInv'
    BY <1>3 DEF vars, local, docker, ContainerInv, Known, DestroyedIsGone, ContainerAgrees, InStep
  <2> QED
    BY <2>1, <2>2
<1> QED
  BY <1>1, <1>2, <1>3, NextSplits

LEMMA InitSerial == Init => SerialInv /\ ContainerInv
<1> SUFFICES ASSUME Init PROVE SerialInv /\ ContainerInv
  OBVIOUS
<1>1. Live = {}
  BY DEF Init, Live, NoRow, None, LiveStates, ExperimentStatuses
<1>2. CapacityHeld
  BY <1>1, FS_EmptySet, ExperimentsAssumption DEF CapacityHeld
<1>3. SerialInv
  BY <1>2 DEF Init, SerialInv, Alone, Active, RowsBegin, RowAgrees, Room, Awaiting, Saving,
     Marking, Commands, NoRow, InStep
<1>4. ContainerInv
  BY DEF Init, ContainerInv, Known, DestroyedIsGone, ContainerAgrees, Awaiting, Saving, InStep
<1> QED
  BY <1>3, <1>4

\* The invariant of a client that awaits its answers.
THEOREM SerialInvariance == OneAtATime /\ Spec => [](SerialInv /\ ContainerInv)
<1>1. OneAtATime /\ IInv /\ SerialInv /\ ContainerInv /\ [Next]_vars => (SerialInv /\ ContainerInv)'
  BY NextSerial
<1>2. Init => SerialInv /\ ContainerInv
  BY InitSerial
<1>3. CASE OneAtATime
  BY <1>1, <1>2, <1>3, Invariance, PTL DEF Spec
<1> QED
  BY <1>3

\* For such a client no more experiments than configured are live, over any number of restarts.
THEOREM Capacity == OneAtATime /\ Spec => []CapacityHeld
<1>1. SerialInv /\ ContainerInv => CapacityHeld
  BY DEF SerialInv
<1> QED
  BY <1>1, SerialInvariance, PTL

\* For such a client, as long as it cancels nothing and the database answers, a row says DESTROYED only when the container
\* is gone or Docker refused to remove it.
THEOREM Gone == OneAtATime /\ ~ClientMayCancel /\ ~DatabaseMayFail /\ Spec => []DestroyedIsGone
<1>1. Undisturbed /\ SerialInv /\ ContainerInv => DestroyedIsGone
  BY DEF ContainerInv
<1>2. CASE Undisturbed
  BY <1>1, <1>2, SerialInvariance, PTL
<1> QED
  BY <1>2 DEF Undisturbed

Statuses == [e \in Experiments |-> row[e].status]

\* A row moves along an edge of the table, or does not move.
LEMMA StepLifecycle ==
  ASSUME IInv, SerialInv, [Next]_vars, TypeOK'
  PROVE  Promised!Next \/ Statuses' = Statuses
<1>1. CASE \E c \in Calls : Step(c)
  <2>1. PICK c \in Calls : Step(c)
    BY <1>1
  <2>2. TypeOK /\ PlaceAgrees(c) /\ RowAgrees(c)
    BY DEF IInv, SerialInv, CallAgrees
  <2>3. Footprint(c)
    BY <2>1, <2>2, StepFootprint
  <2>4. CASE row' = row
    BY <2>4 DEF Statuses
  <2>5. CASE row' # row
    <3>1. PICK e \in Experiments : row'[e] # row[e]
      BY <2>2, <2>5 DEF TypeOK
    <3>2. /\ e = req[c].of
          /\ row'[e] = copy[c] /\ copy[c].status \in ExperimentStatuses
          /\ IF row[e].status = None THEN copy[c].status = "CREATING"
                                    ELSE CanMove(row[e].status, copy[c].status)
      BY <2>2, <2>3, <3>1, StepWrites
    <3>3. Statuses' = [Statuses EXCEPT ![e] = copy[c].status]
      BY <2>3, <3>2 DEF Footprint, Statuses
    <3>4. Statuses[e] = row[e].status
      BY DEF Statuses
    <3>5. CASE row[e].status = None
      <4>1. Promised!Begin(e)
        BY <3>2, <3>3, <3>5 DEF Promised!Begin, Promised!None, None, Statuses
      <4> QED
        BY <4>1 DEF Promised!Next
    <3>6. CASE row[e].status # None /\ copy[c].status = row[e].status
      BY <3>3, <3>4, <3>6 DEF Statuses
    <3>7. CASE row[e].status # None /\ copy[c].status \in Successors[row[e].status]
      <4>1. Promised!Move(e)
        BY <3>3, <3>7 DEF Promised!Move, Promised!None, None, Promised!Successors, Successors,
           Statuses
      <4> QED
        BY <4>1 DEF Promised!Next
    <3> QED
      BY <3>2, <3>5, <3>6, <3>7 DEF CanMove
  <2> QED
    BY <2>4, <2>5
<1>2. CASE CrashAndRestart
  BY <1>2 DEF CrashAndRestart, Statuses
<1>3. CASE UNCHANGED vars
  BY <1>3 DEF vars, Statuses
<1> QED
  BY <1>1, <1>2, <1>3, NextSplits

\* For such a client every row moves along EXPERIMENT_TRANSITIONS, cancelled requests, crashes and
\* restarts included.
THEOREM ImplementsLifecycle == OneAtATime /\ Spec => LifecycleSpec
<1>1. Init => Promised!Init
  BY DEF Init, Promised!Init, NoRow, None, Promised!None
<1>2. IInv /\ IInv' /\ SerialInv /\ [Next]_vars
        => [Promised!Next]_([e \in Experiments |-> row[e].status])
  BY StepLifecycle DEF IInv, Statuses
<1> QED
  BY <1>1, <1>2, Invariance, SerialInvariance, PTL DEF Spec, LifecycleSpec, Promised!Spec
=============================================================================
