---------------------------- MODULE Environment ----------------------------
(***************************************************************************)
(* The L5 environment of one task (src/harness/execution): its lifecycle   *)
(* machine, its wall-clock budget, the git operations that run in it, and  *)
(* the witness through which it tells the task's record what it did.       *)
(*                                                                         *)
(* One controller (L7) provisions, seals, egresses and tears down;         *)
(* Callers run ExecGit at the same time.  An action is one critical        *)
(* section of Env.mu, or one step that holds no lock.                      *)
(*                                                                         *)
(* The record behind the witness is the L6 stream of DurableState, seen    *)
(* from its caller: an append commits, or breaks the stream for good and   *)
(* may have landed all the same, or is refused.                            *)
(***************************************************************************)
EXTENDS Integers, Sequences

CONSTANTS
    Callers,      \* who may call ExecGit concurrently
    Budget,       \* wall_deadline_s
    MaxCalls,     \* bound: ExecGit calls in one behaviour
    MaxFaults     \* bound: failed disk operations in one behaviour

ASSUME LimitsAssumption ==
    Budget \in Nat /\ MaxCalls \in Nat /\ MaxFaults \in Nat

VARIABLES
    state,        \* Env.state
    sealReason,   \* trace.SealReason, "" before the seal
    inflight,     \* Env.inflight
    remaining,    \* Env.remaining, 0 once spent
    witness,      \* a witness handle is attached
    pending,      \* the emissions buffered before that
    edges,        \* trace.Transitions: every edge the machine took
    host,         \* the directories of the environment: "clean" | "present"
    stored,       \* the artifact is in the artifact store
    ops,          \* where each caller's ExecGit is
    calls,        \* the ExecGit calls made so far
    events,       \* the task's committed events, in order
    broken,       \* the stream refuses appends after a failed one
    man,          \* the status the TaskRecord holds, "" before CreateTask
    faults        \* ghost: the faults spent from MaxFaults

recordVars == <<events, broken, man, faults>>
opVars     == <<inflight, remaining, ops, calls>>
envVars    == <<state, sealReason, witness, pending, edges, host, stored>>

States == {"PROVISIONING", "ACTIVE", "SEALED", "EGRESSING", "ACKNOWLEDGED",
           "TEARDOWN", "DESTROYED", "TEARDOWN_ANOMALOUS"}

legalNext == [s \in States |->
    CASE s = "PROVISIONING" -> {"ACTIVE", "TEARDOWN"}
      [] s = "ACTIVE"       -> {"SEALED"}
      [] s = "SEALED"       -> {"EGRESSING", "TEARDOWN"}
      [] s = "EGRESSING"    -> {"ACKNOWLEDGED", "TEARDOWN"}
      [] s = "ACKNOWLEDGED" -> {"TEARDOWN"}
      [] s = "TEARDOWN"     -> {"DESTROYED", "TEARDOWN_ANOMALOUS"}
      [] OTHER              -> {}]

Ended == {"DESTROYED", "TEARDOWN_ANOMALOUS"}

SealReasons == {"task-complete", "env-deadline", "fatal-breach",
                "caller-abort"}

-----------------------------------------------------------------------------
(* The record, as its writers see it. *)

Event(class, from, to) == [class |-> class, from |-> from, to |-> to]
Edge(from, to)         == Event("l5-transition", from, to)
Operation(phase, out)  == Event("l5-op", phase, out)
EgressOp(outcome)      == Event("l5-op", "egress", outcome)
Decision(status)       == Event("lifecycle", "", status)

Acknowledgement == EgressOp("acknowledged")

Fault == faults < MaxFaults /\ faults' = faults + 1

Closed == {"", "COMPLETED", "FAILED", "FAILED_PARTIAL"}

CanAppend == man \notin Closed /\ ~broken

Commits(e) ==
    CanAppend /\ events' = Append(events, e) /\ UNCHANGED <<broken, faults>>

Breaks(e) ==
    /\ CanAppend /\ Fault
    /\ broken' = TRUE /\ events' \in {events, Append(events, e)}

Refuses == UNCHANGED <<events, broken, faults>>

\* One append by a writer of the record; ok is what the writer is told.
Appended(e, ok) ==
    IF ok THEN Commits(e) ELSE Breaks(e) \/ (~CanAppend /\ Refuses)

\* emitLocked: live through the handle, or buffered until there is one.
Emit(e, ok) ==
    IF witness THEN Appended(e, ok) /\ UNCHANGED pending
    ELSE ok /\ pending' = Append(pending, e) /\ Refuses

\* An operation's argv may exceed the frame cap: refused before the write.
EmitOp(e, ok) ==
    \/ Emit(e, ok)
    \/ witness /\ ~ok /\ Refuses /\ UNCHANGED pending

-----------------------------------------------------------------------------
EnvInit ==
    /\ state = "PROVISIONING" /\ sealReason = "" /\ edges = <<>>
    /\ inflight = 0 /\ remaining = Budget
    /\ witness = FALSE /\ pending = <<>>
    /\ host = "clean" /\ stored = FALSE
    /\ ops = [c \in Callers |-> [at |-> "out", limit |-> 0, out |-> ""]]
    /\ calls = 0
    /\ events = <<>> /\ broken = FALSE /\ man = "" /\ faults = 0

\* transitionLocked.
Move(to) ==
    /\ to \in legalNext[state]
    /\ state' = to /\ edges' = Append(edges, Edge(state, to))

-----------------------------------------------------------------------------
(* Provision: the clone, the checkout and the check of HEAD, then ACTIVE.  *)
(* Its operations draw on the budget and are buffered, as no record exists *)
(* yet; a failure tears the environment down at once.                      *)

ProvisionDirectories ==
    /\ state = "PROVISIONING" /\ host = "clean"
    /\ host' = "present"
    /\ UNCHANGED <<state, sealReason, witness, pending, edges, stored,
                   opVars, recordVars>>

\* A git operation that ends, well or not, before the budget does.
Elapse(limit) == \E t \in 0 .. limit : remaining' = remaining - t

ProvisionGit(ok) ==
    /\ state = "PROVISIONING" /\ host = "present"
    /\ ok => remaining > 0
    /\ Elapse(remaining)
    /\ Emit(Operation("provision", IF ok THEN "ok" ELSE "failed"), TRUE)
    /\ UNCHANGED <<state, sealReason, witness, edges, host, stored, inflight,
                   ops, calls, man>>

\* The steps of a provisioning, before it is declared ACTIVE.
Provisioned == host = "present" /\ Len(pending) = 3

Activate ==
    /\ state = "PROVISIONING" /\ Move("ACTIVE")
    /\ Emit(Edge(state, "ACTIVE"), TRUE)
    /\ UNCHANGED <<sealReason, witness, host, stored, opVars, man>>

\* fail(): this edge to TEARDOWN is in the trace and is not witnessed.
AbandonProvision ==
    /\ state = "PROVISIONING" /\ Move("TEARDOWN")
    /\ UNCHANGED <<sealReason, witness, pending, host, stored, opVars,
                   recordVars>>

-----------------------------------------------------------------------------
(* Attach: the buffer is replayed in order, then the handle is live.       *)

\* Mutant: the handle is bound and the buffer dropped.
AttachForgetsBuffer(ok) ==
    /\ ~witness /\ ok /\ witness' = TRUE /\ pending' = <<>>
    /\ UNCHANGED <<state, sealReason, edges, host, stored, opVars, recordVars>>

Attach(ok) ==
    /\ ~witness
    /\ IF ok
       THEN /\ CanAppend \/ pending = <<>>
            /\ events' = events \o pending /\ pending' = <<>>
            /\ witness' = TRUE /\ UNCHANGED <<broken, faults>>
       ELSE /\ \/ /\ CanAppend /\ Fault /\ broken' = TRUE
                  /\ \E i \in 0 .. Len(pending) :
                       events' = events \o SubSeq(pending, 1, i)
               \/ ~CanAppend /\ pending # <<>> /\ Refuses
            /\ UNCHANGED <<witness, pending>>
    /\ UNCHANGED <<state, sealReason, edges, host, stored, opVars, man>>

-----------------------------------------------------------------------------
(* Seal. *)

\* sealLocked, and what the caller is told.  The witness follows the
\* effect: when it is refused the environment is sealed all the same.
SealLocked(reason, ok) ==
    \/ /\ state # "ACTIVE" \/ (reason = "task-complete" /\ ~witness)
       /\ ~ok
       /\ UNCHANGED <<state, sealReason, edges, pending>> /\ Refuses
    \/ /\ reason = "task-complete" => witness
       /\ state = "ACTIVE" /\ Move("SEALED") /\ sealReason' = reason
       /\ Emit(Edge(state, "SEALED"), ok)

\* Mutant: a seal does not ask for the operations in flight.
SealAnyway(reason, ok) ==
    /\ SealLocked(reason, ok)
    /\ UNCHANGED <<witness, host, stored, opVars, man>>

Seal(reason, ok) ==
    /\ IF inflight > 0
       THEN /\ ~ok /\ UNCHANGED <<state, sealReason, edges, pending>> /\ Refuses
       ELSE SealLocked(reason, ok)
    /\ UNCHANGED <<witness, host, stored, opVars, man>>

-----------------------------------------------------------------------------
(* ExecGit, by one of the callers. *)

At(c, where) == ops[c].at = where

Goes(c, where, limit, out) ==
    ops' = [ops EXCEPT ![c] = [at |-> where, limit |-> limit, out |-> out]]

\* Refused, which changes nothing, unless ACTIVE.
ExecAdmitted(c) ==
    /\ At(c, "out") /\ calls < MaxCalls /\ state = "ACTIVE" /\ remaining > 0
    /\ inflight' = inflight + 1 /\ calls' = calls + 1
    /\ Goes(c, "admitted", 0, "")
    /\ UNCHANGED <<remaining, envVars, recordVars>>

\* A call on a spent budget seals, whoever else is running.
ExecSpent(c) ==
    /\ At(c, "out") /\ calls < MaxCalls /\ state = "ACTIVE" /\ remaining = 0
    /\ calls' = calls + 1
    /\ \E ok \in BOOLEAN : SealLocked("env-deadline", ok)
    /\ UNCHANGED <<witness, host, stored, inflight, remaining, ops, man>>

\* runGit, to the start of the process: unwitnessed work is refused, and a
\* budget spent meanwhile or a failed start is recorded.
ExecStart(c) ==
    /\ At(c, "admitted")
    /\ \/ ~witness /\ Goes(c, "leaving", 0, "unwitnessed")
       \/ /\ witness /\ remaining > 0
          /\ \/ Goes(c, "running", remaining, "")
             \/ Goes(c, "recording", 0, "failed")
       \/ witness /\ remaining = 0 /\ Goes(c, "recording", 0, "failed")
    /\ UNCHANGED <<inflight, remaining, calls, envVars, recordVars>>

Spent(t) == IF t < remaining THEN remaining - t ELSE 0

\* The process ends by itself or its group is killed at the deadline.
ExecProcessEnds(c) ==
    /\ At(c, "running")
    /\ \E t \in 0 .. ops[c].limit, out \in {"ok", "failed"} :
         remaining' = Spent(t) /\ Goes(c, "recording", 0, out)
    /\ UNCHANGED <<inflight, calls, envVars, recordVars>>

\* record: every operation that ran, or failed to, is witnessed.
ExecRecord(c) ==
    /\ At(c, "recording")
    /\ \E ok \in BOOLEAN : EmitOp(Operation("active", ops[c].out), ok)
    /\ Goes(c, "leaving", 0, ops[c].out)
    /\ UNCHANGED <<state, sealReason, witness, edges, host, stored, inflight,
                   remaining, calls, man>>

\* The last operation out of a spent environment seals it.
ExecLeave(c) ==
    /\ At(c, "leaving") /\ inflight' = inflight - 1
    /\ Goes(c, "out", 0, "")
    /\ IF remaining = 0 /\ state = "ACTIVE" /\ inflight' = 0
       THEN \E ok \in BOOLEAN : SealLocked("env-deadline", ok)
       ELSE UNCHANGED <<state, sealReason, edges, pending>> /\ Refuses
    /\ UNCHANGED <<witness, host, stored, remaining, calls, man>>

ExecGit(c) ==
    \/ ExecAdmitted(c) \/ ExecSpent(c) \/ ExecStart(c)
    \/ ExecProcessEnds(c) \/ ExecRecord(c) \/ ExecLeave(c)

-----------------------------------------------------------------------------
(* Egress. *)

\* beginEgress: a clean seal only; witnessed before the effect, and a
\* refused witness leaves the environment EGRESSING.
BeginEgress(ok) ==
    /\ IF state = "SEALED" /\ sealReason = "task-complete" /\ witness
       THEN Move("EGRESSING") /\ Emit(Edge(state, "EGRESSING"), ok)
       ELSE ~ok /\ UNCHANGED <<state, edges, pending>> /\ Refuses
    /\ UNCHANGED <<sealReason, witness, host, stored, opVars, man>>

\* A git operation of buildManifest: refused when the budget is spent, and
\* one that ran fails when its witness is refused.
EgressGit(ok) ==
    /\ state = "EGRESSING" /\ Elapse(remaining)
    /\ \/ remaining > 0 /\ EmitOp(Operation("egress", "ok"), ok)
       \/ ~ok /\ \E told \in BOOLEAN : EmitOp(Operation("egress", "failed"), told)
    /\ UNCHANGED <<state, sealReason, witness, edges, host, stored, inflight,
                   ops, calls, man>>

\* A bound, the encoding, an operation or the store refuses the artifact; the
\* refusal is witnessed as best it can be.
RefuseEgress ==
    /\ state = "EGRESSING"
    /\ \E ok \in BOOLEAN : Emit(EgressOp("refused"), ok)
    /\ UNCHANGED <<state, sealReason, witness, edges, host, stored, opVars,
                   man>>

Put ==
    /\ state = "EGRESSING" /\ stored' = TRUE
    /\ UNCHANGED <<state, sealReason, witness, pending, edges, host, opVars,
                   recordVars>>

\* After the store acknowledged: the egress, then the edge, are witnessed.
Acknowledge(ok) ==
    /\ state = "EGRESSING" /\ witness
    /\ \/ /\ ~ok /\ Appended(Acknowledgement, FALSE)
          /\ UNCHANGED <<state, edges>>
       \/ /\ CanAppend /\ Move("ACKNOWLEDGED")
          /\ LET both == Append(Append(events, Acknowledgement),
                                Edge(state, "ACKNOWLEDGED")) IN
             \/ ok /\ events' = both /\ UNCHANGED <<broken, faults>>
             \/ /\ ~ok /\ Fault /\ broken' = TRUE
                /\ events' \in {Append(events, Acknowledgement), both}
    /\ UNCHANGED <<sealReason, witness, pending, host, stored, opVars, man>>

-----------------------------------------------------------------------------
(* Teardown: announced, done, and verified. *)

\* An ACTIVE environment is sealed by force first, operations in flight or
\* not.  A refused witness stops nothing.
TeardownBegin ==
    /\ \/ /\ state = "ACTIVE" /\ state' = "TEARDOWN"
          /\ sealReason' = "caller-abort"
          /\ LET two == <<Edge("ACTIVE", "SEALED"), Edge("SEALED", "TEARDOWN")>>
             IN  /\ edges' = edges \o two
                 /\ \/ /\ ~witness /\ pending' = pending \o two /\ Refuses
                    \/ /\ witness /\ UNCHANGED pending
                       /\ \/ /\ CanAppend /\ events' = events \o two
                             /\ UNCHANGED <<broken, faults>>
                          \/ /\ CanAppend /\ Fault /\ broken' = TRUE
                             /\ \E i \in 0 .. 2 :
                                  events' = events \o SubSeq(two, 1, i)
                          \/ ~CanAppend /\ Refuses
       \/ /\ state \in {"SEALED", "EGRESSING", "ACKNOWLEDGED", "PROVISIONING"}
          /\ Move("TEARDOWN")
          /\ \E ok \in BOOLEAN : Emit(Edge(state, "TEARDOWN"), ok)
          /\ UNCHANGED sealReason
       \/ /\ state \in {"TEARDOWN"} \cup Ended
          /\ UNCHANGED <<state, sealReason, edges, pending>> /\ Refuses
    /\ UNCHANGED <<witness, host, stored, opVars, man>>

\* teardown(): everything is removed and the removal verified, or the
\* environment is declared anomalous.  Idempotent once it ended.
TeardownEnd ==
    /\ \/ /\ state = "TEARDOWN"
          /\ \/ Move("DESTROYED") /\ host' = "clean"
             \/ Move("TEARDOWN_ANOMALOUS") /\ host = "present" /\ UNCHANGED host
          /\ \E ok \in BOOLEAN : Emit(Edge(state, state'), ok)
       \/ /\ state \in Ended
          /\ UNCHANGED <<state, edges, host, pending>> /\ Refuses
    /\ UNCHANGED <<sealReason, witness, stored, opVars, man>>

=============================================================================
