---------------------------- MODULE TaskRuntime ----------------------------
(***************************************************************************)
(* L7's SubmitTask around one walk (src/harness/orchestration): provision  *)
(* the environment, create the record, attach the witness, walk, and one   *)
(* of the closed terminations -- @complete, @fail, the budget floor, the   *)
(* failed egress, the invariant path -- with every disk operation on the   *)
(* way able to fail.  The walk's own steps are WorkflowWalk's: here it     *)
(* appends events and ends in one of its outcomes.                         *)
(***************************************************************************)
EXTENDS Environment

CONSTANT MaxWork    \* bound: the events of the walk, and the git
                    \* operations of the egress

ASSUME WorkAssumption == MaxWork \in Nat

VARIABLES
    pc,         \* where SubmitTask is
    after,      \* where it goes once Teardown returns
    bound,      \* the artifacts on the manifest
    reported,   \* TaskResult.Status, "" until SubmitTask returns one
    failed      \* ghost: the invariant path was entered

taskVars == <<pc, after, bound, reported, failed>>
vars == <<envVars, opVars, recordVars, taskVars>>

Statuses == {"CREATED", "RUNNING", "COMPLETED", "FAILED", "FAILED_PARTIAL"}

Delivery  == Event("l2-delivery", "l7", "")
Work      == Event("work", "l7", "")
Listing   == Operation("egress", "ok")
Invariant == Event("l7-invariant", "", "")
Bound     == Event("artifact-bound", "", "")

Init ==
    /\ EnvInit
    /\ pc = "provision" /\ after = "" /\ bound = FALSE
    /\ reported = "" /\ failed = FALSE

Goto(where) == pc' = where /\ UNCHANGED <<after, bound, reported, failed>>

\* Teardown, then where.
TearDownThen(where) ==
    pc' = "teardown" /\ after' = where /\ UNCHANGED <<bound, reported, failed>>

Returns(status) ==
    /\ pc' = "returning" /\ reported' = status
    /\ UNCHANGED <<after, bound, failed>>

\* The deferred Close: a late append finds the stream's file closed.
Close ==
    /\ pc = "returning" /\ broken' = TRUE
    /\ Goto("returned")
    /\ UNCHANGED <<envVars, opVars, events, man, faults>>

Raise ==
    /\ pc' = "invariant" /\ failed' = TRUE
    /\ UNCHANGED <<after, bound, reported>>

-----------------------------------------------------------------------------
(* Assembly. *)

Provision ==
    /\ pc = "provision"
    /\ \/ ProvisionDirectories /\ Goto("provision")
       \/ ~Provisioned /\ ProvisionGit(TRUE) /\ Goto("provision")
       \/ ~Provisioned /\ ProvisionGit(FALSE) /\ Goto("abandon")
       \/ host = "clean" /\ AbandonProvision /\ Goto("unprovisioned")
       \/ Provisioned /\ AbandonProvision /\ Goto("unprovisioned")
       \/ Provisioned /\ Activate /\ Goto("assemble")

\* Provision tears its own failures down; the caller has no more to do.
ProvisionFails ==
    \/ pc = "abandon" /\ AbandonProvision /\ Goto("unprovisioned")
    \/ pc = "unprovisioned" /\ TeardownEnd /\ Returns("")

Created == <<Decision("CREATED")>>

\* CreateTask.  Any check between Provision and it may refuse the task, and
\* it may itself fail with its first event committed.
Assemble ==
    /\ pc = "assemble" /\ UNCHANGED <<broken, faults>>
    /\ \/ man' = "CREATED" /\ events' = Created /\ Goto("attach")
       \/ /\ events' \in {events, Created} /\ UNCHANGED man
          /\ TearDownThen("refused")
    /\ UNCHANGED <<envVars, opVars>>

\* Mutant: a refused attachment is tried again.
AttachRetried ==
    /\ pc = "attach"
    /\ \/ Attach(TRUE) /\ Goto("materialize")
       \/ Attach(FALSE) /\ Goto("attach")

AttachWitness ==
    /\ pc = "attach"
    /\ \/ Attach(TRUE) /\ Goto("materialize")
       \/ Attach(FALSE) /\ TearDownThen("refused")

\* Mutant: the refusals after CreateTask return without a Teardown.
MaterializeLeaks ==
    /\ pc = "materialize"
    /\ \/ Appended(Delivery, TRUE) /\ Goto("start")
       \/ Appended(Delivery, FALSE) /\ Goto("refused")
    /\ UNCHANGED <<envVars, opVars, man>>

\* recordMaterializedArtifacts and the other checks before the walk.
Materialize ==
    /\ pc = "materialize"
    /\ \/ Appended(Delivery, TRUE) /\ (Goto("start") \/ TearDownThen("refused"))
       \/ Appended(Delivery, FALSE) /\ TearDownThen("refused")
       \/ UNCHANGED <<events, broken, faults>> /\ TearDownThen("refused")
    /\ UNCHANGED <<envVars, opVars, man>>

\* The record, if there is one, is left for the startup sweep.
Refused ==
    /\ pc = "refused" /\ Returns("")
    /\ UNCHANGED <<envVars, opVars, recordVars>>

-----------------------------------------------------------------------------
(* The record's lifecycle. *)

legalStatus == [s \in Statuses |->
    CASE s = "CREATED" -> {"RUNNING", "FAILED", "FAILED_PARTIAL"}
      [] s = "RUNNING" -> {"COMPLETED", "FAILED", "FAILED_PARTIAL"}
      [] OTHER         -> {}]

\* TaskRecord.Transition: the event, the status in memory, the manifest.
\* When the manifest fails the decision stands and the caller gets an error.
Transition(to, ok) ==
    \/ /\ to \in legalStatus[man]
       /\ \/ ok /\ Commits(Decision(to)) /\ man' = to
          \/ ~ok /\ Appended(Decision(to), FALSE) /\ UNCHANGED man
          \/ /\ ~ok /\ CanAppend /\ Fault
             /\ events' = Append(events, Decision(to)) /\ man' = to
             /\ UNCHANGED broken
    \/ to \notin legalStatus[man] /\ ~ok /\ UNCHANGED man /\ Refuses

Start ==
    /\ pc = "start"
    /\ \/ Transition("RUNNING", TRUE) /\ Goto("walk")
       \/ Transition("RUNNING", FALSE) /\ Raise
    /\ UNCHANGED <<envVars, opVars>>

Count(event) == Len(SelectSeq(events, LAMBDA e : e = event))

\* One event of the walk; one that is not recorded ends it.
WalkStep ==
    /\ pc = "walk" /\ Count(Work) < MaxWork
    /\ \/ Appended(Work, TRUE) /\ Goto("walk")
       \/ Appended(Work, FALSE) /\ Raise
    /\ UNCHANGED <<envVars, opVars, man>>

WalkEnds ==
    /\ pc = "walk"
    /\ Goto("complete") \/ Goto("fail") \/ Goto("floor") \/ Raise
    /\ UNCHANGED <<envVars, opVars, recordVars>>

-----------------------------------------------------------------------------
(* @complete. *)

SealComplete ==
    /\ pc = "complete"
    /\ \/ Seal("task-complete", TRUE) /\ Goto("egress")
       \/ Seal("task-complete", FALSE) /\ Raise
    /\ UNCHANGED opVars

Egress ==
    \/ /\ pc = "egress"
       /\ \/ BeginEgress(TRUE) /\ Goto("artifact")
          \/ BeginEgress(FALSE) /\ TearDownThen("closed")
    \/ /\ pc = "artifact"
       /\ \/ Count(Listing) < MaxWork /\ EgressGit(TRUE) /\ Goto("artifact")
          \/ Count(Listing) < MaxWork /\ EgressGit(FALSE) /\ Goto("refuse")
          \/ Count(Listing) > 0 /\ Put /\ Goto("acknowledge")
          \/ RefuseEgress /\ TearDownThen("closed")
    \/ pc = "refuse" /\ RefuseEgress /\ TearDownThen("closed")
    \/ /\ pc = "acknowledge"
       /\ \/ Acknowledge(TRUE) /\ Goto("bind")
          \/ Acknowledge(FALSE) /\ TearDownThen("closed")

\* The artifact is read back and stored as an object, then bound: the event
\* first, the manifest after it.
BindArtifact ==
    /\ pc = "bind"
    /\ \/ /\ Commits(Bound)
          /\ bound' = TRUE /\ pc' = "teardown" /\ after' = "completed"
          /\ UNCHANGED <<reported, failed>>
       \/ /\ CanAppend /\ Fault /\ UNCHANGED broken
          /\ events' = Append(events, Bound)
          /\ bound' = TRUE /\ pc' = "teardown" /\ after' = "closed"
          /\ UNCHANGED <<reported, failed>>
       \/ Appended(Bound, FALSE) /\ TearDownThen("closed")
       \/ Fault /\ UNCHANGED <<events, broken>> /\ TearDownThen("closed")
    /\ UNCHANGED <<envVars, opVars, man>>

Completed ==
    /\ pc = "completed"
    /\ \/ Transition("COMPLETED", TRUE) /\ Returns("COMPLETED")
       \/ Transition("COMPLETED", FALSE) /\ Raise
    /\ UNCHANGED <<envVars, opVars>>

-----------------------------------------------------------------------------
(* The other terminations. *)

Sealing == [fail |-> "caller-abort", floor |-> "env-deadline"]

\* @fail and the budget floor: whether the seal worked is not asked.
SealFailed ==
    /\ pc \in DOMAIN Sealing
    /\ \E ok \in BOOLEAN : Seal(Sealing[pc], ok)
    /\ TearDownThen("failed") /\ UNCHANGED opVars

\* Mutant: the transition's error is dropped.
FailedUnchecked ==
    /\ pc = "failed"
    /\ \E ok \in BOOLEAN : Transition("FAILED", ok)
    /\ Returns("FAILED")
    /\ UNCHANGED <<envVars, opVars>>

Failed ==
    /\ pc = "failed"
    /\ \/ Transition("FAILED", TRUE) /\ Returns("FAILED")
       \/ Transition("FAILED", FALSE) /\ Raise
    /\ UNCHANGED <<envVars, opVars>>

failClosed ==
    /\ pc = "closed"
    /\ \/ Transition("FAILED", TRUE) /\ Returns("FAILED")
       \/ Transition("FAILED", FALSE) /\ Returns("FAILED_PARTIAL")
    /\ UNCHANGED <<envVars, opVars>>

\* The invariant path ignores every error on its way.
RecordInvariant ==
    /\ pc = "invariant"
    /\ \E ok \in BOOLEAN : Appended(Invariant, ok)
    /\ Goto("breach")
    /\ UNCHANGED <<envVars, opVars, man>>

SealBreach ==
    /\ pc = "breach"
    /\ \E ok \in BOOLEAN : Seal("fatal-breach", ok)
    /\ TearDownThen("breached") /\ UNCHANGED opVars

Breached ==
    /\ pc = "breached"
    /\ \E ok \in BOOLEAN : Transition("FAILED", ok)
    /\ Returns("FAILED")
    /\ UNCHANGED <<envVars, opVars>>

Teardown ==
    \/ pc = "teardown" /\ TeardownBegin /\ Goto("remove")
    \/ pc = "remove" /\ TeardownEnd /\ Goto(after)

-----------------------------------------------------------------------------
SubmitTask ==
    \/ Provision \/ ProvisionFails \/ Assemble \/ AttachWitness
    \/ Materialize \/ Refused \/ Start \/ WalkStep \/ WalkEnds
    \/ SealComplete \/ Egress \/ BindArtifact \/ Completed
    \/ SealFailed \/ Failed \/ failClosed
    \/ RecordInvariant \/ SealBreach \/ Breached \/ Teardown \/ Close

Exec == (\E c \in Callers : ExecGit(c)) /\ UNCHANGED taskVars

Next == SubmitTask \/ Exec

\* SubmitTask runs on; nothing makes a caller use the environment.
Spec == Init /\ [][Next]_vars /\ WF_vars(SubmitTask)

-----------------------------------------------------------------------------
(* Properties. *)

\* The shape of the state: TaskRecord's, Env's and SubmitTask's.
TypeOK ==
    /\ state \in States /\ sealReason \in SealReasons \cup {""}
    /\ inflight \in 0 .. MaxCalls /\ remaining \in 0 .. Budget
    /\ witness \in BOOLEAN /\ broken \in BOOLEAN /\ stored \in BOOLEAN
    /\ bound \in BOOLEAN /\ failed \in BOOLEAN
    /\ host \in {"clean", "present"}
    /\ man \in Statuses \cup {""} /\ reported \in Statuses \cup {""}
    /\ \A c \in Callers : ops[c].limit \in 0 .. Budget
    /\ calls \in 0 .. MaxCalls /\ faults \in 0 .. MaxFaults

IsEdge(e) == e.class = "l5-transition"

Record(shown, e) == IF IsEdge(e) THEN Append(shown, e) ELSE shown

\* The edges among the events, in their order.
Recorded(evs) ==
    LET upTo[i \in 0 .. Len(evs)] ==
          IF i = 0 THEN <<>> ELSE Record(upTo[i - 1], evs[i])
    IN  upTo[Len(evs)]

\* The edges the record holds are the first edges of the machine, in order
\* and with none left out, whatever was buffered, refused or landed
\* unacknowledged (Attach, emitLocked).
RecordFollowsMachine ==
    /\ Len(Recorded(events)) <= Len(edges)
    /\ \A i \in DOMAIN Recorded(events) : Recorded(events)[i] = edges[i]

WholeMachine(end) ==
    <<Edge("PROVISIONING", "ACTIVE"), Edge("ACTIVE", "SEALED"),
      Edge("SEALED", "EGRESSING"), Edge("EGRESSING", "ACKNOWLEDGED"),
      Edge("ACKNOWLEDGED", "TEARDOWN"), Edge("TEARDOWN", end)>>

\* A record that says COMPLETED shows, before it says so, every edge of the
\* environment from its provisioning to its verified end (complete).
CompletedShowsWholeMachine ==
    \A k \in DOMAIN events : events[k] = Decision("COMPLETED") =>
        \E end \in Ended :
            Recorded(SubSeq(events, 1, k - 1)) = WholeMachine(end)

\* An artifact is bound after L5 witnessed its egress, and a task completes
\* after its artifact was bound (Egress, BindArtifact, complete).
CompletedIsProduced ==
    \A k \in DOMAIN events :
        /\ events[k] = Bound =>
             stored /\ \E i \in 1 .. k - 1 : events[i] = Acknowledgement
        /\ events[k] = Decision("COMPLETED") =>
             bound /\ \E j \in 1 .. k - 1 : events[j] = Bound

\* The three together: the record, whoever reads it and whenever, tells what
\* the environment did and a completion what was produced.
RecordShowsMachine ==
    RecordFollowsMachine /\ CompletedShowsWholeMachine /\ CompletedIsProduced

\* What is read for egress cannot change under the reader: the seal was
\* clean and no operation is running (Seal, beginEgress).
EgressIsStable ==
    state \in {"EGRESSING", "ACKNOWLEDGED"} =>
        inflight = 0 /\ sealReason = "task-complete" /\ witness

\* No path of SubmitTask returns and leaves its environment behind.
NothingOutlivesTask ==
    pc = "returned" =>
        \/ state = "DESTROYED" /\ host = "clean"
        \/ state = "TEARDOWN_ANOMALOUS"

Decided(status) == \E i \in DOMAIN events : events[i] = Decision(status)

\* The status that a record has in the end: the decision in its stream, which
\* recovery projects, or FAILED_PARTIAL, which recovery declares for want of
\* one (state/recovery.go:138-176).
Settles ==
    IF Decided("COMPLETED") THEN "COMPLETED"
    ELSE IF Decided("FAILED") THEN "FAILED" ELSE "FAILED_PARTIAL"

\* A record decides once, and the status SubmitTask reports is the one that
\* its record ends with.  They part only when a disk operation failed, and in
\* two ways: the invariant path reports FAILED, with an error, of a task whose
\* decision may have landed or been lost; and a task that failClosed could not
\* decide is reported FAILED_PARTIAL though its decision to fail may have
\* landed.  FAILED_PARTIAL is never reported but for a failed disk operation
\* (run, complete, fail, failClosed, invariant).
ReportedIsRecorded ==
    /\ ~(Decided("COMPLETED") /\ Decided("FAILED"))
    /\ reported \notin {"", Settles} =>
         /\ faults > 0
         /\ \/ reported = "FAILED" /\ failed
            \/ reported = "FAILED_PARTIAL" /\ Settles = "FAILED"
    /\ reported = "FAILED_PARTIAL" => faults > 0

\* SubmitTask returns, whatever fails on its way.
SubmitReturns == <>(pc = "returned")

\* The constitution's floor:invariant>seal:fatal-breach>FAILED: a task whose
\* invariant path ran does not stand in the record as completed.
InvariantEndsFailed == pc = "returned" /\ failed => ~Decided("COMPLETED")

=============================================================================
