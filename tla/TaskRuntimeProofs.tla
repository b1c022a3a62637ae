------------------------- MODULE TaskRuntimeProofs -------------------------
(***************************************************************************)
(* TaskRuntime, for any callers, budget and bounds: what egress reads is   *)
(* stable, no path of SubmitTask leaves its environment behind, and what   *)
(* the record and the caller are told is what happened.                    *)
(***************************************************************************)
EXTENDS TaskRuntime, FiniteSetTheorems, SequenceTheorems,
        WellFoundedInduction, TLAPS

(***************************************************************************)
(* The environment alone.  The seal can only promise stability because the *)
(* in-flight count is the number of operations in flight.                  *)
(***************************************************************************)

ExecPlaces == {"out", "admitted", "running", "recording", "leaving"}

Op == [at : ExecPlaces, limit : 0 .. Budget,
       out : {"", "ok", "failed", "unwitnessed"}]

Busy == {c \in Callers : ops[c].at # "out"}

Counted ==
    /\ IsFiniteSet(Busy) /\ inflight = Cardinality(Busy)
    /\ inflight <= calls

Stable ==
    \/ state \in {"EGRESSING", "ACKNOWLEDGED"}
    \/ state = "SEALED" /\ sealReason = "task-complete"
    => inflight = 0 /\ sealReason = "task-complete" /\ witness

RecordTyped == broken \in BOOLEAN /\ faults \in 0 .. MaxFaults

OpsTyped ==
    /\ remaining \in 0 .. Budget /\ calls \in 0 .. MaxCalls
    /\ ops \in [Callers -> Op] /\ Counted

EnvTyped ==
    /\ state \in States /\ sealReason \in SealReasons \cup {""}
    /\ witness \in BOOLEAN /\ stored \in BOOLEAN
    /\ host \in {"clean", "present"}

EnvInv ==
    /\ EnvTyped /\ OpsTyped /\ RecordTyped /\ Stable
    /\ state = "DESTROYED" => host = "clean"

\* A record that is written to stays well typed, whatever the writer is told.
LEMMA RecordKeeps ==
  ASSUME RecordTyped, NEW e, NEW ok,
         \/ Appended(e, ok) \/ Emit(e, ok) \/ EmitOp(e, ok)
         \/ Refuses \/ Commits(e) \/ Breaks(e)
  PROVE  RecordTyped'
  <1>1. CASE Refuses
    BY <1>1 DEF RecordTyped, Refuses
  <1>2. CASE Commits(e)
    BY <1>2 DEF RecordTyped, Commits
  <1>3. CASE Breaks(e)
    <2>1. broken' = TRUE /\ Fault
      BY <1>3 DEF Breaks
    <2>2. faults' \in 0 .. MaxFaults
      BY <2>1, LimitsAssumption DEF Fault, RecordTyped
    <2> QED BY <2>1, <2>2 DEF RecordTyped
  <1>4. Appended(e, ok) => Commits(e) \/ Breaks(e) \/ Refuses
    BY DEF Appended
  <1>5. Emit(e, ok) => Appended(e, ok) \/ Refuses
    BY DEF Emit
  <1>6. EmitOp(e, ok) => Emit(e, ok) \/ Refuses
    BY DEF EmitOp
  <1> QED BY <1>1, <1>2, <1>3, <1>4, <1>5, <1>6

LEMMA FaultKeeps ==
  ASSUME faults \in 0 .. MaxFaults, Fault
  PROVE  faults' \in 0 .. MaxFaults
  BY LimitsAssumption DEF Fault

\* The environment before anything happened.
LEMMA EnvStarts == EnvInit => EnvInv
  <1> SUFFICES ASSUME EnvInit PROVE EnvInv
    OBVIOUS
  <1>1. inflight = 0 /\ calls = 0 /\ remaining = Budget /\ faults = 0
    BY DEF EnvInit
  <1>2. ops = [c \in Callers |-> [at |-> "out", limit |-> 0, out |-> ""]]
    BY DEF EnvInit
  <1>3. IsFiniteSet(Busy) /\ inflight = Cardinality(Busy)
    <2>1. Busy = {}
      BY <1>2 DEF Busy
    <2> QED BY <1>1, <2>1, FS_EmptySet, Zenon
  <1>4. Counted
    BY <1>1, <1>3 DEF Counted
  <1>5. OpsTyped
    <2>1. 0 \in 0 .. Budget /\ 0 \in 0 .. MaxCalls /\ Budget \in 0 .. Budget
      BY LimitsAssumption
    <2>2. [at |-> "out", limit |-> 0, out |-> ""] \in Op
      BY <2>1 DEF Op, ExecPlaces
    <2>3. ops \in [Callers -> Op]
      BY <1>2, <2>2
    <2> QED BY <1>1, <1>4, <2>1, <2>3 DEF OpsTyped
  <1>6. RecordTyped
    <2>1. broken \in BOOLEAN
      BY DEF EnvInit
    <2>2. faults \in 0 .. MaxFaults
      BY <1>1, LimitsAssumption
    <2> QED BY <2>1, <2>2 DEF RecordTyped
  <1>7. EnvTyped
    BY DEF EnvTyped, EnvInit, States, SealReasons
  <1>8. state = "PROVISIONING"
    BY DEF EnvInit
  <1> QED BY <1>5, <1>6, <1>7, <1>8 DEF EnvInv, Stable

\* What does not touch the operations keeps what is known of them.
LEMMA OpsKept ==
  ASSUME OpsTyped, UNCHANGED opVars
  PROVE  OpsTyped' /\ inflight' = inflight
  BY DEF OpsTyped, opVars, Counted, Busy

LEMMA MoveTyped ==
  ASSUME state \in States, NEW to, Move(to)
  PROVE  /\ to \in States /\ state' = to /\ to \in legalNext[state]
  BY DEF Move, legalNext, States

\* A seal, by whoever asks for it, makes a clean one only at its own hand.
LEMMA SealKeeps ==
  ASSUME EnvInv, NEW reason \in SealReasons, NEW ok \in BOOLEAN,
         SealLocked(reason, ok), UNCHANGED <<witness, host, stored>>,
         reason = "task-complete" => inflight = 0 /\ inflight' = 0,
         OpsTyped', inflight' = 0 \/ state = "ACTIVE" \/ inflight' = inflight
  PROVE  EnvInv'
  <1>1. RecordTyped'
    BY RecordKeeps DEF SealLocked, EnvInv
  <1>2. CASE UNCHANGED <<state, sealReason>>
    BY <1>1, <1>2 DEF EnvInv, EnvTyped, Stable
  <1>3. CASE /\ reason = "task-complete" => witness
             /\ state = "ACTIVE" /\ Move("SEALED") /\ sealReason' = reason
    BY <1>1, <1>3 DEF EnvInv, EnvTyped, Stable, Move, States, SealReasons
  <1> QED BY <1>2, <1>3 DEF SealLocked

(***************************************************************************)
(* The controller's operations, each of which leaves the operations of the *)
(* callers alone.                                                          *)
(***************************************************************************)

\* What is left to show of a step that changes neither operations nor seal.
LEMMA StateKeeps ==
  ASSUME EnvInv, UNCHANGED opVars, RecordTyped', EnvTyped', Stable',
         state' = "DESTROYED" => host' = "clean"
  PROVE  EnvInv'
  BY OpsKept DEF EnvInv

LEMMA ProvisioningKeeps ==
  ASSUME EnvInv, NEW ok \in BOOLEAN,
         ProvisionDirectories \/ ProvisionGit(ok) \/ Activate
           \/ AbandonProvision
  PROVE  EnvInv'
  <1>1. CASE ProvisionDirectories
    BY <1>1, StateKeeps DEF ProvisionDirectories, recordVars, EnvInv, EnvTyped,
       RecordTyped, Stable
  <1>2. CASE ProvisionGit(ok)
    <2>1. RecordTyped'
      BY <1>2, RecordKeeps DEF ProvisionGit, EnvInv
    <2>2. remaining' \in 0 .. Budget
      BY <1>2, LimitsAssumption DEF ProvisionGit, Elapse, EnvInv, OpsTyped
    <2>3. OpsTyped'
      BY <1>2, <2>2 DEF ProvisionGit, EnvInv, OpsTyped, Counted, Busy
    <2> QED BY <1>2, <2>1, <2>3 DEF ProvisionGit, EnvInv, EnvTyped, Stable
  <1>3. CASE Activate
    <2>1. RecordTyped'
      BY <1>3, RecordKeeps DEF Activate, EnvInv
    <2> QED BY <1>3, <2>1, StateKeeps
            DEF Activate, Move, EnvInv, EnvTyped, Stable, States
  <1>4. CASE AbandonProvision
    BY <1>4, StateKeeps DEF AbandonProvision, Move, recordVars, EnvInv, EnvTyped,
       RecordTyped, Stable, States
  <1> QED BY <1>1, <1>2, <1>3, <1>4

LEMMA AttachKeeps ==
  ASSUME EnvInv, NEW ok \in BOOLEAN, Attach(ok)
  PROVE  EnvInv'
  <1>1. broken' \in BOOLEAN
    BY DEF Attach, Refuses, EnvInv, RecordTyped
  <1>2. faults' \in 0 .. MaxFaults
    BY FaultKeeps DEF Attach, Refuses, EnvInv, RecordTyped
  <1>3. witness' \in BOOLEAN /\ (witness => witness')
    BY DEF Attach, EnvInv, EnvTyped
  <1> QED BY <1>1, <1>2, <1>3, StateKeeps
          DEF Attach, EnvInv, EnvTyped, RecordTyped, Stable

LEMMA SealByController ==
  ASSUME EnvInv, NEW reason \in SealReasons, NEW ok \in BOOLEAN,
         Seal(reason, ok), UNCHANGED opVars
  PROVE  EnvInv'
  <1>1. OpsTyped' /\ inflight' = inflight
    BY OpsKept DEF EnvInv
  <1>2. CASE inflight > 0
    <2>1. RecordTyped'
      BY <1>2, RecordKeeps DEF Seal, EnvInv
    <2> QED BY <1>1, <1>2, <2>1, StateKeeps DEF Seal, EnvInv, EnvTyped, Stable
  <1>3. CASE ~(inflight > 0)
    <2>1. inflight = 0
      BY <1>3, FS_CardinalityType DEF EnvInv, OpsTyped, Counted
    <2>2. SealLocked(reason, ok) /\ UNCHANGED <<witness, host, stored>>
      BY <1>3 DEF Seal
    <2> QED BY <1>1, <2>1, <2>2, SealKeeps
  <1> QED BY <1>2, <1>3

LEMMA EgressKeeps ==
  ASSUME EnvInv, NEW ok \in BOOLEAN,
         BeginEgress(ok) \/ EgressGit(ok) \/ RefuseEgress \/ Put
  PROVE  EnvInv'
  <1>1. CASE BeginEgress(ok)
    <2>1. RecordTyped'
      BY <1>1, RecordKeeps DEF BeginEgress, EnvInv
    <2>2. inflight' = inflight
      BY <1>1 DEF BeginEgress, opVars
    <2>3. CASE state = "SEALED" /\ sealReason = "task-complete" /\ witness
      BY <1>1, <2>1, <2>2, <2>3, StateKeeps
         DEF BeginEgress, Move, EnvInv, EnvTyped, Stable, States
    <2>4. CASE ~(state = "SEALED" /\ sealReason = "task-complete" /\ witness)
      BY <1>1, <2>1, <2>2, <2>4, StateKeeps
         DEF BeginEgress, EnvInv, EnvTyped, Stable
    <2> QED BY <2>3, <2>4
  <1>2. CASE EgressGit(ok)
    <2>1. RecordTyped'
      BY <1>2, RecordKeeps DEF EgressGit, EnvInv
    <2>2. remaining' \in 0 .. Budget
      BY <1>2, LimitsAssumption DEF EgressGit, Elapse, EnvInv, OpsTyped
    <2>3. OpsTyped'
      BY <1>2, <2>2 DEF EgressGit, EnvInv, OpsTyped, Counted, Busy
    <2> QED BY <1>2, <2>1, <2>3 DEF EgressGit, EnvInv, EnvTyped, Stable
  <1>3. CASE RefuseEgress
    <2>1. RecordTyped'
      BY <1>3, RecordKeeps DEF RefuseEgress, EnvInv
    <2>2. inflight' = inflight
      BY <1>3 DEF RefuseEgress, opVars
    <2> QED BY <1>3, <2>1, <2>2, StateKeeps
            DEF RefuseEgress, EnvInv, EnvTyped, Stable
  <1>4. CASE Put
    BY <1>4, StateKeeps DEF Put, opVars, recordVars, EnvInv, EnvTyped,
       RecordTyped, Stable
  <1> QED BY <1>1, <1>2, <1>3, <1>4

LEMMA AcknowledgeKeeps ==
  ASSUME EnvInv, NEW ok \in BOOLEAN, Acknowledge(ok)
  PROVE  EnvInv'
  <1>1. inflight' = inflight /\ UNCHANGED opVars
    BY DEF Acknowledge, opVars
  <1>2. CASE Appended(Acknowledgement, FALSE) /\ UNCHANGED <<state, edges>>
    <2>1. RecordTyped'
      BY <1>2, RecordKeeps DEF EnvInv
    <2> QED BY <1>1, <1>2, <2>1, StateKeeps
            DEF Acknowledge, EnvInv, EnvTyped, Stable
  <1>3. CASE Move("ACKNOWLEDGED")
    <2>1. broken' \in BOOLEAN
      BY <1>3, RecordKeeps DEF Acknowledge, EnvInv, RecordTyped
    <2>2. faults' \in 0 .. MaxFaults
      BY <1>3, FaultKeeps, RecordKeeps DEF Acknowledge, EnvInv, RecordTyped
    <2> QED BY <1>1, <1>3, <2>1, <2>2, StateKeeps
            DEF Acknowledge, Move, EnvInv, EnvTyped, RecordTyped, Stable, States
  <1> QED BY <1>2, <1>3 DEF Acknowledge

LEMMA TeardownBeginKeeps ==
  ASSUME EnvInv, TeardownBegin
  PROVE  EnvInv'
  <1>1. broken' \in BOOLEAN
    BY RecordKeeps DEF TeardownBegin, EnvInv, RecordTyped
  <1>2. faults' \in 0 .. MaxFaults
    BY FaultKeeps, RecordKeeps DEF TeardownBegin, Refuses, EnvInv, RecordTyped
  <1>3. \/ state' = "TEARDOWN"
        \/ state \in Ended /\ state' = state
    BY DEF TeardownBegin, Move
  <1>4. sealReason' \in SealReasons \cup {""}
    BY DEF TeardownBegin, EnvInv, EnvTyped, SealReasons
  <1>5. UNCHANGED <<witness, host, stored, opVars>>
    BY DEF TeardownBegin
  <1> QED BY <1>1, <1>2, <1>3, <1>4, <1>5, StateKeeps
          DEF EnvInv, EnvTyped, RecordTyped, Stable, States, Ended

LEMMA TeardownEndKeeps ==
  ASSUME EnvInv, TeardownEnd
  PROVE  EnvInv'
  <1>1. RecordTyped'
    BY RecordKeeps DEF TeardownEnd, EnvInv
  <1>2. \/ state' = "DESTROYED" /\ host' = "clean"
        \/ state' = "TEARDOWN_ANOMALOUS" /\ host' = host
        \/ state \in Ended /\ state' = state /\ host' = host
    BY DEF TeardownEnd, Move
  <1>3. UNCHANGED <<sealReason, witness, stored, opVars>>
    BY DEF TeardownEnd
  <1> QED BY <1>1, <1>2, <1>3, StateKeeps
          DEF EnvInv, EnvTyped, Stable, States, Ended

(***************************************************************************)
(* ExecGit.  A call is counted from its admission until it leaves.         *)
(***************************************************************************)

\* What a caller's step within its call leaves alone.
LEMMA MovingKeepsOps ==
  ASSUME OpsTyped, NEW c \in Callers, ~At(c, "out"),
         NEW where \in ExecPlaces \ {"out"}, NEW limit \in 0 .. Budget,
         NEW out \in {"", "ok", "failed", "unwitnessed"},
         Goes(c, where, limit, out), UNCHANGED <<inflight, calls>>,
         remaining' \in 0 .. Budget
  PROVE  OpsTyped'
  <1> DEFINE next == [at |-> where, limit |-> limit, out |-> out]
  <1>1. next \in Op
    BY DEF Op
  <1>2. ops' \in [Callers -> Op] /\ ops' = [ops EXCEPT ![c] = next]
    BY <1>1 DEF Goes, OpsTyped
  <1> HIDE DEF next
  <1>3. next.at # "out"
    BY DEF next
  <1>4. Busy' = Busy
    BY <1>2, <1>3 DEF Busy, At, OpsTyped
  <1> QED BY <1>2, <1>4 DEF OpsTyped, Counted

LEMMA AdmissionKeeps ==
  ASSUME EnvInv, NEW c \in Callers, ExecAdmitted(c)
  PROVE  EnvInv'
  <1> DEFINE next == [at |-> "admitted", limit |-> 0, out |-> ""]
  <1>1. next \in Op
    BY LimitsAssumption DEF Op, ExecPlaces
  <1>2. ops' \in [Callers -> Op] /\ ops' = [ops EXCEPT ![c] = next]
    BY <1>1 DEF ExecAdmitted, Goes, EnvInv, OpsTyped
  <1>3. Busy' = Busy \cup {c} /\ c \notin Busy
    BY <1>2 DEF Busy, ExecAdmitted, At, EnvInv, OpsTyped
  <1>4. IsFiniteSet(Busy') /\ Cardinality(Busy') = Cardinality(Busy) + 1
    BY <1>3, FS_AddElement DEF EnvInv, OpsTyped, Counted
  <1>5. inflight \in Nat
    BY FS_CardinalityType DEF EnvInv, OpsTyped, Counted
  <1>6. inflight' = Cardinality(Busy')
    BY <1>4 DEF ExecAdmitted, EnvInv, OpsTyped, Counted
  <1>7. inflight' <= calls' /\ calls' \in 0 .. MaxCalls
    <2>1. inflight <= calls /\ calls \in 0 .. MaxCalls
      BY DEF EnvInv, OpsTyped, Counted
    <2>2. calls < MaxCalls /\ inflight' = inflight + 1 /\ calls' = calls + 1
      BY DEF ExecAdmitted
    <2> QED BY <1>5, <2>1, <2>2, LimitsAssumption
  <1>8. Counted'
    BY <1>4, <1>6, <1>7 DEF Counted
  <1>9. OpsTyped'
    BY <1>2, <1>7, <1>8 DEF OpsTyped, ExecAdmitted, EnvInv
  <1> QED BY <1>9 DEF ExecAdmitted, envVars, recordVars, EnvInv, EnvTyped,
          RecordTyped, Stable

LEMMA SpentKeeps ==
  ASSUME EnvInv, NEW c \in Callers, ExecSpent(c)
  PROVE  EnvInv'
  <1>1. PICK ok \in BOOLEAN : SealLocked("env-deadline", ok)
    BY DEF ExecSpent
  <1>2. calls' \in 0 .. MaxCalls /\ calls <= calls'
    BY LimitsAssumption DEF ExecSpent, EnvInv, OpsTyped
  <1>3. inflight \in Nat
    BY FS_CardinalityType DEF EnvInv, OpsTyped, Counted
  <1>4. Busy' = Busy
    BY DEF ExecSpent, Busy
  <1>5. inflight' <= calls'
    BY <1>2, <1>3 DEF ExecSpent, EnvInv, OpsTyped, Counted
  <1>6. OpsTyped'
    BY <1>2, <1>4, <1>5 DEF ExecSpent, EnvInv, OpsTyped, Counted
  <1> QED BY <1>1, <1>6, SealKeeps DEF ExecSpent, SealReasons

LEMMA RunningKeeps ==
  ASSUME EnvInv, NEW c \in Callers,
         ExecStart(c) \/ ExecProcessEnds(c) \/ ExecRecord(c)
  PROVE  EnvInv'
  <1>0. 0 \in 0 .. Budget
    BY LimitsAssumption
  <1>1. CASE ExecStart(c)
    <2>1. \E where \in ExecPlaces \ {"out"}, limit \in 0 .. Budget,
             out \in {"", "failed", "unwitnessed"} : Goes(c, where, limit, out)
      BY <1>0, <1>1 DEF ExecStart, ExecPlaces, EnvInv, OpsTyped
    <2>2. OpsTyped'
      BY <1>1, <2>1, MovingKeepsOps DEF ExecStart, At, EnvInv, OpsTyped
    <2> QED BY <1>1, <2>2 DEF ExecStart, envVars, recordVars, EnvInv, EnvTyped,
            RecordTyped, Stable
  <1>2. CASE ExecProcessEnds(c)
    <2>1. PICK t \in 0 .. ops[c].limit, out \in {"ok", "failed"} :
             remaining' = Spent(t) /\ Goes(c, "recording", 0, out)
      BY <1>2 DEF ExecProcessEnds
    <2>2. ops[c].limit \in 0 .. Budget
      BY DEF EnvInv, OpsTyped, Op
    <2>3. remaining' \in 0 .. Budget
      BY <2>1, <2>2, LimitsAssumption DEF Spent, EnvInv, OpsTyped
    <2>4. OpsTyped'
      BY <1>0, <1>2, <2>1, <2>3, MovingKeepsOps
         DEF ExecProcessEnds, At, EnvInv, ExecPlaces
    <2> QED BY <1>2, <2>4 DEF ExecProcessEnds, envVars, recordVars, EnvInv,
            EnvTyped, RecordTyped, Stable
  <1>3. CASE ExecRecord(c)
    <2>1. RecordTyped'
      BY <1>3, RecordKeeps DEF ExecRecord, EnvInv
    <2>2. ops[c].out \in {"", "ok", "failed", "unwitnessed"}
      BY DEF EnvInv, OpsTyped, Op
    <2>3. OpsTyped'
      BY <1>0, <1>3, <2>2, MovingKeepsOps
         DEF ExecRecord, At, EnvInv, ExecPlaces, OpsTyped
    <2> QED BY <1>3, <2>1, <2>3 DEF ExecRecord, EnvInv, EnvTyped, Stable
  <1> QED BY <1>1, <1>2, <1>3

LEMMA LeavingKeeps ==
  ASSUME EnvInv, NEW c \in Callers, ExecLeave(c)
  PROVE  EnvInv'
  <1> DEFINE next == [at |-> "out", limit |-> 0, out |-> ""]
  <1>1. next \in Op
    BY LimitsAssumption DEF Op, ExecPlaces
  <1>2. ops' \in [Callers -> Op] /\ ops' = [ops EXCEPT ![c] = next]
    BY <1>1 DEF ExecLeave, Goes, EnvInv, OpsTyped
  <1>3. Busy' = Busy \ {c} /\ c \in Busy
    BY <1>2 DEF Busy, ExecLeave, At, EnvInv, OpsTyped
  <1>4. IsFiniteSet(Busy') /\ Cardinality(Busy') = Cardinality(Busy) - 1
    BY <1>3, FS_RemoveElement DEF EnvInv, OpsTyped, Counted
  <1>5. Cardinality(Busy) \in Nat /\ Cardinality(Busy') \in Nat
    BY <1>4, FS_CardinalityType DEF EnvInv, OpsTyped, Counted
  <1>6. inflight' = Cardinality(Busy') /\ inflight' <= calls' /\ inflight > 0
    <2>1. inflight = Cardinality(Busy) /\ inflight <= calls
      BY DEF EnvInv, OpsTyped, Counted
    <2>2. inflight' = inflight - 1 /\ calls' = calls /\ calls \in 0 .. MaxCalls
      BY DEF ExecLeave, EnvInv, OpsTyped
    <2> QED BY <1>4, <1>5, <2>1, <2>2
  <1>7. OpsTyped'
    BY <1>2, <1>4, <1>6 DEF ExecLeave, EnvInv, OpsTyped, Counted
  <1>8. CASE UNCHANGED <<state, sealReason>> /\ Refuses
    <2>1. RecordTyped'
      BY <1>8, RecordKeeps DEF EnvInv
    <2>2. inflight # 0 /\ witness' = witness
      <3>1. inflight # 0
        BY <1>6
      <3> QED BY <3>1 DEF ExecLeave
    <2>3. Stable'
      BY <1>8, <2>2 DEF EnvInv, Stable
    <2> QED BY <1>7, <1>8, <2>1, <2>3 DEF ExecLeave, EnvInv, EnvTyped
  <1>9. ASSUME NEW ok \in BOOLEAN, SealLocked("env-deadline", ok),
               state = "ACTIVE"
        PROVE  EnvInv'
    BY <1>7, <1>9, SealKeeps DEF ExecLeave, SealReasons
  <1> QED BY <1>8, <1>9 DEF ExecLeave

LEMMA ExecKeeps ==
  ASSUME EnvInv, NEW c \in Callers, ExecGit(c)
  PROVE  EnvInv'
  BY AdmissionKeeps, SpentKeeps, RunningKeeps, LeavingKeeps DEF ExecGit

(***************************************************************************)
(* SubmitTask.  Every way to a return leads through the end of a Teardown. *)
(***************************************************************************)

\* Where a Teardown leads.
Sequels == {"refused", "completed", "failed", "closed", "breached"}

Control ==
    /\ pc \in {"teardown", "remove"} => after \in Sequels
    /\ pc = "remove" => state \in {"TEARDOWN"} \cup Ended
    /\ pc = "unprovisioned" => state = "TEARDOWN"
    /\ pc \in Sequels \cup {"returning", "returned"} => state \in Ended

TaskTyped ==
    /\ bound \in BOOLEAN /\ failed \in BOOLEAN
    /\ man \in Statuses \cup {""} /\ reported \in Statuses \cup {""}

Inv == EnvInv /\ Control /\ TaskTyped

\* A caller moves the machine out of ACTIVE at most, and never the record.
LEMMA ExecMoves ==
  ASSUME NEW c \in Callers, ExecGit(c)
  PROVE  /\ state' = state \/ (state = "ACTIVE" /\ state' = "SEALED")
         /\ man' = man
  <1>1. ASSUME NEW reason, NEW ok, SealLocked(reason, ok)
        PROVE  state' = state \/ (state = "ACTIVE" /\ state' = "SEALED")
    BY <1>1 DEF SealLocked, Move
  <1> QED BY <1>1 DEF ExecGit, ExecAdmitted, ExecSpent, ExecStart,
          ExecProcessEnds, ExecRecord, ExecLeave, envVars, recordVars

\* The environment's own invariant, along every step of SubmitTask.
LEMMA SubmitKeepsEnv ==
  ASSUME EnvInv, SubmitTask
  PROVE  EnvInv'
  <1>1. ASSUME UNCHANGED <<envVars, opVars>>, RecordTyped' PROVE EnvInv'
    BY <1>1, StateKeeps DEF envVars, opVars, EnvInv, EnvTyped, Stable
  <1>2. ASSUME NEW to, NEW ok, Transition(to, ok) PROVE RecordTyped'
    <2>1. broken' \in BOOLEAN
      BY <1>2, RecordKeeps DEF Transition, EnvInv, RecordTyped
    <2>2. faults' \in 0 .. MaxFaults
      BY <1>2, FaultKeeps, RecordKeeps DEF Transition, EnvInv, RecordTyped
    <2> QED BY <2>1, <2>2 DEF RecordTyped
  <1>3. CASE Provision \/ ProvisionFails
    BY <1>3, ProvisioningKeeps, TeardownEndKeeps DEF Provision, ProvisionFails
  <1>4. CASE Assemble \/ Refused \/ WalkEnds \/ Close
    BY <1>1, <1>4 DEF Assemble, Refused, WalkEnds, Close, EnvInv, RecordTyped,
       recordVars
  <1>5. CASE AttachWitness
    BY <1>5, AttachKeeps DEF AttachWitness
  <1>6. CASE Materialize \/ WalkStep \/ RecordInvariant
    <2>1. RecordTyped'
      BY <1>6, RecordKeeps
         DEF Materialize, WalkStep, RecordInvariant, EnvInv, RecordTyped
    <2> QED BY <1>1, <1>6, <2>1 DEF Materialize, WalkStep, RecordInvariant
  <1>7. CASE Start \/ Completed \/ Failed \/ failClosed \/ Breached
    <2>1. RecordTyped'
      BY <1>2, <1>7 DEF Start, Completed, Failed, failClosed, Breached
    <2> QED BY <1>1, <1>7, <2>1
            DEF Start, Completed, Failed, failClosed, Breached
  <1>8. CASE SealComplete \/ SealFailed \/ SealBreach
    <2>1. CASE SealFailed
      <3>1. Sealing[pc] \in SealReasons
        BY <2>1 DEF SealFailed, Sealing, SealReasons
      <3> QED BY <2>1, <3>1, SealByController DEF SealFailed
    <2> QED BY <1>8, <2>1, SealByController
            DEF SealComplete, SealBreach, SealReasons
  <1>9. CASE Egress
    BY <1>9, EgressKeeps, AcknowledgeKeeps DEF Egress
  <1>10. CASE BindArtifact
    <2>1. broken' \in BOOLEAN
      BY <1>10, RecordKeeps DEF BindArtifact, Commits, EnvInv, RecordTyped
    <2>2. faults' \in 0 .. MaxFaults
      BY <1>10, FaultKeeps, RecordKeeps
         DEF BindArtifact, Commits, EnvInv, RecordTyped
    <2> QED BY <1>1, <1>10, <2>1, <2>2 DEF BindArtifact, RecordTyped
  <1>11. CASE Teardown
    BY <1>11, TeardownBeginKeeps, TeardownEndKeeps DEF Teardown
  <1> QED BY <1>3, <1>4, <1>5, <1>6, <1>7, <1>8, <1>9, <1>10, <1>11
          DEF SubmitTask

\* Where SubmitTask goes is where the environment allows it.
LEMMA SubmitKeepsControl ==
  ASSUME EnvInv, Control, SubmitTask
  PROVE  Control'
  <1> USE DEF Goto, TearDownThen, Returns, Raise, Sequels
  <1>1. CASE Provision \/ ProvisionFails
    <2>1. CASE pc' \in {"provision", "abandon", "assemble"}
      BY <2>1 DEF Control
    <2>2. CASE AbandonProvision /\ Goto("unprovisioned")
      BY <2>2 DEF AbandonProvision, Move, Control
    <2>3. CASE pc = "unprovisioned" /\ TeardownEnd /\ Returns("")
      BY <2>3 DEF TeardownEnd, Move, Control, Ended
    <2> QED BY <1>1, <2>1, <2>2, <2>3 DEF Provision, ProvisionFails
  <1>2. CASE Assemble \/ AttachWitness \/ Materialize \/ Start \/ WalkStep
               \/ WalkEnds \/ SealComplete \/ Egress \/ BindArtifact
               \/ SealFailed \/ RecordInvariant \/ SealBreach
    <2>1. \/ pc' = "teardown" /\ after' \in Sequels
          \/ pc' \in {"attach", "materialize", "start", "walk", "complete",
                      "fail", "floor", "egress", "artifact", "refuse",
                      "acknowledge", "bind", "invariant", "breach"}
      BY <1>2 DEF Assemble, AttachWitness, Materialize, Start, WalkStep,
         WalkEnds, SealComplete, Egress, BindArtifact, SealFailed,
         RecordInvariant, SealBreach
    <2> QED BY <2>1 DEF Control
  <1>3. CASE Refused \/ Completed \/ Failed \/ failClosed \/ Breached \/ Close
    <2>1. pc \in Sequels \cup {"returning"} /\ state' = state
      BY <1>3 DEF Refused, Completed, Failed, failClosed, Breached, Close,
         envVars
    <2>2. pc' \in {"returning", "returned", "invariant"}
      BY <1>3 DEF Refused, Completed, Failed, failClosed, Breached, Close
    <2> QED BY <2>1, <2>2 DEF Control
  <1>4. CASE Teardown
    <2>1. CASE pc = "teardown" /\ TeardownBegin /\ Goto("remove")
      BY <2>1 DEF TeardownBegin, Move, Control
    <2>2. CASE pc = "remove" /\ TeardownEnd /\ Goto(after)
      BY <2>2 DEF TeardownEnd, Move, Control, Ended
    <2> QED BY <1>4, <2>1, <2>2 DEF Teardown
  <1> QED BY <1>1, <1>2, <1>3, <1>4 DEF SubmitTask

LEMMA SubmitKeepsTask ==
  ASSUME EnvInv, TaskTyped, SubmitTask
  PROVE  TaskTyped'
  <1> USE DEF Goto, TearDownThen, Returns, Raise, Statuses
  <1>1. bound' \in BOOLEAN /\ failed' \in BOOLEAN
    BY DEF TaskTyped, SubmitTask, Provision, ProvisionFails, Assemble,
       AttachWitness, Materialize, Refused, Start, WalkStep, WalkEnds,
       SealComplete, Egress, BindArtifact, Completed, SealFailed, Failed,
       failClosed, RecordInvariant, SealBreach, Breached, Teardown, Close
  <1>2. reported' \in Statuses \cup {""}
    BY DEF TaskTyped, SubmitTask, Provision, ProvisionFails, Assemble,
       AttachWitness, Materialize, Refused, Start, WalkStep, WalkEnds,
       SealComplete, Egress, BindArtifact, Completed, SealFailed, Failed,
       failClosed, RecordInvariant, SealBreach, Breached, Teardown, Close
  <1>3. ASSUME NEW to \in Statuses, NEW ok, Transition(to, ok)
        PROVE  man' \in Statuses \cup {""}
    BY <1>3 DEF Transition, TaskTyped
  <1>4. man' \in Statuses \cup {""}
    <2>1. CASE Start \/ Completed \/ Failed \/ failClosed \/ Breached
      BY <1>3, <2>1 DEF Start, Completed, Failed, failClosed, Breached
    <2>2. CASE Provision \/ ProvisionFails
      BY <2>2 DEF Provision, ProvisionFails, ProvisionDirectories,
         ProvisionGit, AbandonProvision, Activate, TeardownEnd, recordVars,
         TaskTyped
    <2>3. CASE Assemble \/ AttachWitness \/ Materialize \/ Refused
      BY <2>3 DEF Assemble, AttachWitness, Attach, Materialize, Refused,
         recordVars, TaskTyped
    <2>4. CASE WalkStep \/ WalkEnds \/ RecordInvariant \/ Close \/ BindArtifact
      BY <2>4 DEF WalkStep, WalkEnds, RecordInvariant, Close, BindArtifact,
         recordVars, TaskTyped
    <2>5. CASE SealComplete \/ SealFailed \/ SealBreach \/ Teardown
      BY <2>5 DEF SealComplete, SealFailed, SealBreach, Seal, Teardown,
         TeardownBegin, TeardownEnd, TaskTyped
    <2>6. CASE Egress
      BY <2>6 DEF Egress, BeginEgress, EgressGit, Put, RefuseEgress,
         Acknowledge, recordVars, TaskTyped
    <2> QED BY <2>1, <2>2, <2>3, <2>4, <2>5, <2>6 DEF SubmitTask
  <1> QED BY <1>1, <1>2, <1>4 DEF TaskTyped

LEMMA InvStarts == Init => Inv
  <1> SUFFICES ASSUME Init PROVE Inv
    OBVIOUS
  <1>1. man = ""
    BY DEF Init, EnvInit
  <1> QED BY <1>1, EnvStarts DEF Init, Inv, Control, TaskTyped, Sequels

LEMMA InvKept == Inv /\ [Next]_vars => Inv'
  <1> SUFFICES ASSUME Inv, [Next]_vars PROVE Inv'
    OBVIOUS
  <1>1. CASE SubmitTask
    BY <1>1, SubmitKeepsEnv, SubmitKeepsControl, SubmitKeepsTask DEF Inv
  <1>2. CASE Exec
    <2>1. PICK c \in Callers : ExecGit(c)
      BY <1>2 DEF Exec
    <2>2. EnvInv'
      BY <2>1, ExecKeeps DEF Inv
    <2>3. Control' /\ TaskTyped'
      BY <1>2, <2>1, ExecMoves
         DEF Exec, Inv, Control, TaskTyped, taskVars, Ended
    <2> QED BY <2>2, <2>3 DEF Inv
  <1>3. CASE UNCHANGED vars
    <2>1. EnvInv'
      BY <1>3, StateKeeps DEF vars, envVars, recordVars, opVars, Inv, EnvInv,
         EnvTyped, RecordTyped, Stable
    <2> QED BY <1>3, <2>1
            DEF vars, envVars, recordVars, taskVars, Inv, Control, TaskTyped
  <1> QED BY <1>1, <1>2, <1>3 DEF Next

LEMMA Invariance == Spec => []Inv
  BY InvStarts, InvKept, PTL DEF Spec

\* TaskRecord, Env and SubmitTask keep the shape of their state.
THEOREM TaskIsWellTyped == Spec => []TypeOK
  <1>1. Inv => TypeOK
    <2> SUFFICES ASSUME Inv PROVE TypeOK
      OBVIOUS
    <2>1. inflight \in 0 .. MaxCalls
      <3>1. /\ inflight \in Nat /\ inflight <= calls
            /\ calls \in 0 .. MaxCalls
        BY FS_CardinalityType DEF Inv, EnvInv, OpsTyped, Counted
      <3> QED BY <3>1, LimitsAssumption
    <2>2. \A c \in Callers : ops[c].limit \in 0 .. Budget
      BY DEF Inv, EnvInv, OpsTyped, Op
    <2> QED BY <2>1, <2>2
            DEF Inv, EnvInv, EnvTyped, OpsTyped, RecordTyped, TaskTyped, TypeOK
  <1> QED BY <1>1, Invariance, PTL

\* What is read for egress cannot change under the reader, for any number of
\* callers of ExecGit (Seal, beginEgress).
THEOREM EgressReadsStable == Spec => []EgressIsStable
  <1>1. Inv => EgressIsStable
    BY DEF Inv, EnvInv, Stable, EgressIsStable
  <1> QED BY <1>1, Invariance, PTL

\* However SubmitTask returns, its environment is destroyed and its host
\* clean, or it is declared anomalous.
THEOREM TaskLeavesNothing == Spec => []NothingOutlivesTask
  <1>1. Inv => NothingOutlivesTask
    BY DEF Inv, EnvInv, Control, NothingOutlivesTask, Ended
  <1> QED BY <1>1, Invariance, PTL

(***************************************************************************)
(* The record.  Only a lifecycle transition writes a decision: whatever    *)
(* else is appended, at whatever moment, leaves what was decided alone.    *)
(***************************************************************************)

Classes == {"l5-transition", "l5-op", "l2-delivery", "work", "l7-invariant",
            "artifact-bound", "lifecycle"}

Words == {"", "l7", "provision", "active", "egress", "ok", "failed",
          "unwitnessed", "acknowledged", "refused"} \cup States \cup Statuses

Events == [class : Classes, from : Words, to : Words]

Remarks == {e \in Events : e.class # "lifecycle"}

Written == events \in Seq(Events) /\ pending \in Seq(Remarks)

Says(evs, status) == \E i \in DOMAIN evs : evs[i] = Decision(status)

\* What the record says of the outcome does not change.
SaysNoMore ==
    /\ events' \in Seq(Events)
    /\ \A status : Says(events', status) <=> Says(events, status)

LEMMA RemarkSaysNothing ==
  ASSUME NEW evs \in Seq(Events), NEW more \in Seq(Remarks), NEW status
  PROVE  /\ evs \o more \in Seq(Events)
         /\ Says(evs \o more, status) <=> Says(evs, status)
  <1>1. \A i \in DOMAIN more : more[i] # Decision(status)
    <2>1. \A e \in Remarks : e # Decision(status)
      <3>1. Decision(status).class = "lifecycle"
        BY DEF Decision, Event
      <3> QED BY <3>1 DEF Remarks
    <2> QED BY <2>1
  <1>2. evs \o more \in Seq(Events)
    <2>1. Remarks \subseteq Events
      BY DEF Remarks
    <2>2. more \in Seq(Events)
      BY <2>1
    <2> QED BY <2>2, ConcatProperties
  <1>3. ASSUME Says(evs, status) PROVE Says(evs \o more, status)
    BY <1>3 DEF Says
  <1>4. ASSUME Says(evs \o more, status) PROVE Says(evs, status)
    <2>1. PICK i \in DOMAIN (evs \o more) : (evs \o more)[i] = Decision(status)
      BY <1>4 DEF Says
    <2>2. CASE i <= Len(evs)
      BY <2>1, <2>2 DEF Says
    <2>3. CASE i > Len(evs)
      BY <1>1, <2>1, <2>3
    <2> QED BY <2>1, <2>2, <2>3
  <1> QED BY <1>2, <1>3, <1>4

LEMMA AppendSaysNothing ==
  ASSUME NEW evs \in Seq(Events), NEW e \in Remarks
  PROVE  /\ Append(evs, e) \in Seq(Events)
         /\ \A status : Says(Append(evs, e), status) <=> Says(evs, status)
  <1>1. Append(evs, e) = evs \o <<e>> /\ <<e>> \in Seq(Remarks)
    BY DEF Remarks
  <1> QED BY <1>1, RemarkSaysNothing

\* What the writers of the environment append is well formed.
LEMMA RemarksAre ==
  /\ \A from, to \in States : Edge(from, to) \in Remarks
  /\ \A phase \in {"provision", "active", "egress"},
        out \in {"", "ok", "failed", "unwitnessed"} :
       Operation(phase, out) \in Remarks
  /\ EgressOp("refused") \in Remarks /\ Acknowledgement \in Remarks
  /\ Delivery \in Remarks /\ Work \in Remarks
  /\ Invariant \in Remarks /\ Bound \in Remarks
  <1>1. ASSUME NEW class \in Classes \ {"lifecycle"}, NEW from \in Words,
               NEW to \in Words
        PROVE  Event(class, from, to) \in Remarks
    <2>1. Event(class, from, to) \in Events
      BY DEF Event, Events
    <2>2. Event(class, from, to).class # "lifecycle"
      BY DEF Event
    <2> QED BY <2>1, <2>2 DEF Remarks
  <1>2. {"l5-transition", "l5-op", "l2-delivery", "work", "l7-invariant",
         "artifact-bound"} \subseteq Classes \ {"lifecycle"}
    BY DEF Classes
  <1>3. /\ States \subseteq Words
        /\ {"", "l7", "provision", "active", "egress", "ok", "failed",
            "unwitnessed", "acknowledged", "refused"} \subseteq Words
    BY DEF Words
  <1>4. \A from, to \in States : Edge(from, to) \in Remarks
    BY <1>1, <1>2, <1>3 DEF Edge
  <1>5. \A phase \in {"provision", "active", "egress"},
           out \in {"", "ok", "failed", "unwitnessed"} :
          Operation(phase, out) \in Remarks
    BY <1>1, <1>2, <1>3 DEF Operation
  <1>6. EgressOp("refused") \in Remarks /\ Acknowledgement \in Remarks
    BY <1>1, <1>2, <1>3 DEF EgressOp, Acknowledgement
  <1>7. /\ Delivery \in Remarks /\ Work \in Remarks
        /\ Invariant \in Remarks /\ Bound \in Remarks
    BY <1>1, <1>2, <1>3 DEF Delivery, Work, Invariant, Bound
  <1> QED BY <1>4, <1>5, <1>6, <1>7

LEMMA WritingSaysNothing ==
  ASSUME Written, NEW e \in Remarks, NEW ok,
         \/ Refuses /\ pending' = pending
         \/ Appended(e, ok) /\ pending' = pending
         \/ Emit(e, ok) \/ EmitOp(e, ok)
  PROVE  Written' /\ SaysNoMore
  <1>1. Append(pending, e) \in Seq(Remarks)
    BY DEF Written
  <1>2. pending' \in Seq(Remarks)
    BY <1>1 DEF Emit, EmitOp, Written
  <1>3. events' = events \/ events' = Append(events, e)
    BY DEF Emit, EmitOp, Appended, Commits, Breaks, Refuses
  <1> QED BY <1>2, <1>3, AppendSaysNothing DEF Written, SaysNoMore

\* Several events at once.
LEMMA WritingMoreSaysNothing ==
  ASSUME Written, NEW more \in Seq(Remarks), pending' \in Seq(Remarks),
         \/ events' = events
         \/ events' = events \o more
         \/ \E i \in 0 .. Len(more) : events' = events \o SubSeq(more, 1, i)
  PROVE  Written' /\ SaysNoMore
  <1>1. CASE events' = events
    BY <1>1 DEF Written, SaysNoMore
  <1>2. CASE events' = events \o more
    BY <1>2, RemarkSaysNothing DEF Written, SaysNoMore
  <1>3. ASSUME NEW i \in 0 .. Len(more), events' = events \o SubSeq(more, 1, i)
        PROVE  Written' /\ SaysNoMore
    <2>1. SubSeq(more, 1, i) \in Seq(Remarks)
      BY <1>3
    <2> QED BY <1>3, <2>1, RemarkSaysNothing DEF Written, SaysNoMore
  <1> QED BY <1>1, <1>2, <1>3

LEMMA SilenceSaysNothing ==
  ASSUME Written, UNCHANGED <<events, pending>>
  PROVE  Written' /\ SaysNoMore
  BY DEF Written, SaysNoMore

LEMMA SealSaysNothing ==
  ASSUME Written, NEW reason, NEW ok,
         SealLocked(reason, ok) \/ Seal(reason, ok)
  PROVE  Written' /\ SaysNoMore
  <1>1. Edge("ACTIVE", "SEALED") \in Remarks
    BY RemarksAre DEF States
  <1>2. ASSUME SealLocked(reason, ok) PROVE Written' /\ SaysNoMore
    BY <1>1, <1>2, WritingSaysNothing, SilenceSaysNothing
       DEF SealLocked, Refuses
  <1> QED BY <1>2, SilenceSaysNothing DEF Seal, Refuses

LEMMA EnvSaysNothing ==
  ASSUME EnvInv, Written, NEW ok \in BOOLEAN,
         \/ ProvisionDirectories \/ ProvisionGit(ok) \/ Activate
         \/ AbandonProvision \/ Attach(ok) \/ BeginEgress(ok)
         \/ EgressGit(ok) \/ RefuseEgress \/ Put
  PROVE  Written' /\ SaysNoMore
  <1>1. CASE ProvisionDirectories \/ AbandonProvision \/ Put
    BY <1>1, SilenceSaysNothing
       DEF ProvisionDirectories, AbandonProvision, Put, recordVars
  <1>2. CASE ProvisionGit(ok)
    <2>1. Operation("provision", IF ok THEN "ok" ELSE "failed") \in Remarks
      BY RemarksAre
    <2> QED BY <1>2, <2>1, WritingSaysNothing DEF ProvisionGit
  <1>3. CASE Activate
    <2>1. Edge(state, "ACTIVE") \in Remarks
      BY RemarksAre DEF EnvInv, EnvTyped, States
    <2> QED BY <1>3, <2>1, WritingSaysNothing DEF Activate
  <1>4. CASE Attach(ok)
    <2>1. pending \in Seq(Remarks) /\ pending' \in Seq(Remarks)
      <3>1. pending' = pending \/ pending' = <<>>
        BY <1>4 DEF Attach
      <3>2. << >> \in Seq(Remarks)
        OBVIOUS
      <3> QED BY <3>1, <3>2, Zenon DEF Written
    <2>2. \/ events' = events
          \/ events' = events \o pending
          \/ \E i \in 0 .. Len(pending) :
               events' = events \o SubSeq(pending, 1, i)
      BY <1>4 DEF Attach, Refuses
    <2> QED BY <2>1, <2>2, WritingMoreSaysNothing
  <1>5. CASE BeginEgress(ok)
    <2>1. Edge(state, "EGRESSING") \in Remarks
      BY RemarksAre DEF EnvInv, EnvTyped, States
    <2> QED BY <1>5, <2>1, WritingSaysNothing DEF BeginEgress
  <1>6. CASE EgressGit(ok)
    <2>1. /\ Operation("egress", "ok") \in Remarks
          /\ Operation("egress", "failed") \in Remarks
      BY RemarksAre
    <2> QED BY <1>6, <2>1, WritingSaysNothing DEF EgressGit
  <1>7. CASE RefuseEgress
    BY <1>7, RemarksAre, WritingSaysNothing DEF RefuseEgress
  <1> QED BY <1>1, <1>2, <1>3, <1>4, <1>5, <1>6, <1>7

LEMMA AcknowledgeSaysNothing ==
  ASSUME Written, NEW ok \in BOOLEAN, Acknowledge(ok)
  PROVE  Written' /\ SaysNoMore
  <1>1. pending' = pending
    BY DEF Acknowledge
  <1>2. CASE Appended(Acknowledgement, FALSE)
    BY <1>1, <1>2, RemarksAre, WritingSaysNothing
  <1>3. CASE Move("ACKNOWLEDGED")
    <2>1. state = "EGRESSING"
      BY DEF Acknowledge
    <2> DEFINE one == Append(events, Acknowledgement)
               two == Append(one, Edge("EGRESSING", "ACKNOWLEDGED"))
    <2>2. events' \in {events, one, two}
      BY <2>1 DEF Acknowledge, Appended, Commits, Breaks, Refuses
    <2>3. /\ one \in Seq(Events)
          /\ \A status : Says(one, status) <=> Says(events, status)
      BY RemarksAre, AppendSaysNothing DEF Written
    <2>4. Edge("EGRESSING", "ACKNOWLEDGED") \in Remarks
      BY RemarksAre DEF States
    <2> HIDE DEF one
    <2>5. /\ two \in Seq(Events)
          /\ \A status : Says(two, status) <=> Says(one, status)
      BY <2>3, <2>4, AppendSaysNothing
    <2> HIDE DEF two
    <2> QED BY <1>1, <2>2, <2>3, <2>5 DEF Written, SaysNoMore
  <1> QED BY <1>2, <1>3 DEF Acknowledge

LEMMA TeardownSaysNothing ==
  ASSUME EnvInv, Written, TeardownBegin \/ TeardownEnd
  PROVE  Written' /\ SaysNoMore
  <1>1. \A from, to \in States : Edge(from, to) \in Remarks
    BY RemarksAre
  <1>2. state \in States
    BY DEF EnvInv, EnvTyped
  <1>3. CASE TeardownEnd
    <2>1. Edge(state, state') \in Remarks
      BY <1>1, <1>2, <1>3 DEF TeardownEnd, Move, States
    <2> QED BY <1>3, <2>1, WritingSaysNothing DEF TeardownEnd
  <1>4. CASE TeardownBegin
    <2> DEFINE two == <<Edge("ACTIVE", "SEALED"), Edge("SEALED", "TEARDOWN")>>
    <2>1. two \in Seq(Remarks) /\ Len(two) = 2
      BY <1>1 DEF States
    <2>2. Edge(state, "TEARDOWN") \in Remarks
      BY <1>1, <1>2 DEF States
    <2>3. \/ /\ pending' = pending \/ pending' = pending \o two
             /\ \/ events' = events \/ events' = events \o two
                \/ \E i \in 0 .. 2 : events' = events \o SubSeq(two, 1, i)
          \/ \E ok \in BOOLEAN : Emit(Edge(state, "TEARDOWN"), ok)
      BY <1>4 DEF TeardownBegin, Refuses
    <2> HIDE DEF two
    <2>4. pending \o two \in Seq(Remarks) /\ pending \in Seq(Remarks)
      BY <2>1, ConcatProperties DEF Written
    <2> QED BY <2>1, <2>2, <2>3, <2>4, WritingSaysNothing,
            WritingMoreSaysNothing
  <1> QED BY <1>3, <1>4

LEMMA ExecSaysNothing ==
  ASSUME EnvInv, Written, NEW c \in Callers, ExecGit(c)
  PROVE  Written' /\ SaysNoMore
  <1>1. CASE ExecAdmitted(c) \/ ExecStart(c) \/ ExecProcessEnds(c)
    BY <1>1, SilenceSaysNothing
       DEF ExecAdmitted, ExecStart, ExecProcessEnds, envVars, recordVars
  <1>2. CASE ExecSpent(c)
    BY <1>2, SealSaysNothing DEF ExecSpent
  <1>3. CASE ExecRecord(c)
    <2>1. Operation("active", ops[c].out) \in Remarks
      BY RemarksAre DEF EnvInv, OpsTyped, Op
    <2> QED BY <1>3, <2>1, WritingSaysNothing DEF ExecRecord
  <1>4. CASE ExecLeave(c)
    BY <1>4, SealSaysNothing, SilenceSaysNothing DEF ExecLeave, Refuses
  <1> QED BY <1>1, <1>2, <1>3, <1>4 DEF ExecGit

(***************************************************************************)
(* What SubmitTask reports.  Before it returns, the record says COMPLETED  *)
(* only on the invariant path.                                             *)
(***************************************************************************)

Settled == {"returning", "returned"}

Breaching ==
    \/ pc \in {"invariant", "breach", "breached"}
    \/ pc \in {"teardown", "remove"} /\ after = "breached"

\* What SubmitTask reports against what the record says, no fault asked about.
Announced ==
    /\ reported = "COMPLETED" => Says(events, "COMPLETED")
    /\ reported = "FAILED" /\ ~failed =>
         Says(events, "FAILED") /\ ~Says(events, "COMPLETED")
    /\ reported = "FAILED_PARTIAL" => ~Says(events, "COMPLETED")

Story ==
    /\ Says(events, "COMPLETED") => failed \/ reported = "COMPLETED"
    /\ pc \notin Settled => (failed <=> Breaching) /\ reported = ""
    /\ Announced

LEMMA TransitionSays ==
  ASSUME Written, pending' = pending, NEW to \in Statuses,
         NEW ok \in BOOLEAN, Transition(to, ok)
  PROVE  /\ Written' /\ (ok => Says(events', to))
         /\ \A status : status # to =>
              (Says(events', status) <=> Says(events, status))
  <1> DEFINE more == Append(events, Decision(to))
  <1>1. Decision(to) \in Events
    BY DEF Decision, Event, Events, Classes, Words
  <1>2. more \in Seq(Events) /\ Len(more) = Len(events) + 1
    BY <1>1 DEF Written
  <1>3. more[Len(events) + 1] = Decision(to)
    BY <1>1 DEF Written
  <1>4. \A i \in 1 .. Len(events) : more[i] = events[i]
    BY <1>1 DEF Written
  <1>5. events' \in {events, more} /\ (ok => events' = more)
    BY DEF Transition, Appended, Commits, Breaks, Refuses
  <1> HIDE DEF more
  <1>6. Says(more, to)
    BY <1>2, <1>3 DEF Says, Written
  <1>7. ASSUME NEW status, status # to
        PROVE  Says(more, status) <=> Says(events, status)
    <2>1. Decision(status) # Decision(to)
      <3>1. Decision(status).to = status /\ Decision(to).to = to
        BY DEF Decision, Event
      <3> QED BY <1>7, <3>1
    <2>2. DOMAIN more = 1 .. Len(events) + 1 /\ DOMAIN events = 1 .. Len(events)
      BY <1>2 DEF Written
    <2> QED BY <1>3, <1>4, <2>1, <2>2 DEF Says
  <1> QED BY <1>2, <1>5, <1>6, <1>7 DEF Written

\* A step on the way, which neither raises nor returns.
LEMMA OnTheWay ==
  ASSUME Story, pc \notin Settled, pc' \notin Settled,
         UNCHANGED <<failed, reported>>, Breaching' <=> Breaching,
         Says(events', "COMPLETED") => Says(events, "COMPLETED")
  PROVE  Story'
  BY DEF Story, Announced

LEMMA RaiseTells == ASSUME Story, pc \notin Settled, Raise PROVE Story'
  BY DEF Story, Raise, Breaching, Settled, Announced

\* The steps of SubmitTask that decide nothing.
Wordless ==
    \/ Provision \/ ProvisionFails \/ AttachWitness \/ Materialize
    \/ WalkStep \/ WalkEnds \/ SealComplete \/ Egress \/ BindArtifact
    \/ SealFailed \/ RecordInvariant \/ SealBreach \/ Teardown

LEMMA WordlessSaysNothing ==
  ASSUME EnvInv, Written, Wordless
  PROVE  Written' /\ SaysNoMore
  <1>1. CASE Provision \/ ProvisionFails \/ AttachWitness \/ SealComplete
               \/ SealFailed \/ SealBreach \/ Egress \/ Teardown
    BY <1>1, EnvSaysNothing, AcknowledgeSaysNothing, SealSaysNothing,
       TeardownSaysNothing
       DEF Provision, ProvisionFails, AttachWitness, SealComplete, SealFailed,
           SealBreach, Egress, Teardown
  <1>2. CASE Materialize \/ WalkStep \/ RecordInvariant
    <2>1. pending' = pending
      BY <1>2 DEF Materialize, WalkStep, RecordInvariant, envVars
    <2> QED BY <1>2, <2>1, RemarksAre, WritingSaysNothing, SilenceSaysNothing
            DEF Materialize, WalkStep, RecordInvariant
  <1>3. CASE BindArtifact
    <2>1. pending' = pending
      BY <1>3 DEF BindArtifact, envVars
    <2>2. events' = events \/ events' = Append(events, Bound)
      BY <1>3 DEF BindArtifact, Appended, Commits, Breaks, Refuses
    <2> QED BY <2>1, <2>2, RemarksAre, AppendSaysNothing, ZenonT(40)
            DEF Written, SaysNoMore
  <1>4. CASE WalkEnds
    BY <1>4, SilenceSaysNothing DEF WalkEnds, envVars, recordVars
  <1> QED BY <1>1, <1>2, <1>3, <1>4 DEF Wordless

\* The steps that decide: one transition each.
Deciding == Start \/ Completed \/ Failed \/ failClosed \/ Breached

Target ==
    CASE pc = "start" -> "RUNNING" [] pc = "completed" -> "COMPLETED"
      [] OTHER -> "FAILED"

Outcome(ok) ==
    \/ pc = "start" /\ ok /\ Goto("walk")
    \/ pc \in {"start", "completed", "failed"} /\ ~ok /\ Raise
    \/ pc = "completed" /\ ok /\ Returns("COMPLETED")
    \/ pc \in {"failed", "closed"} /\ ok /\ Returns("FAILED")
    \/ pc = "closed" /\ ~ok /\ Returns("FAILED_PARTIAL")
    \/ pc = "breached" /\ Returns("FAILED")

LEMMA DecidingIs ==
  ASSUME Deciding
  PROVE  \E ok \in BOOLEAN : Transition(Target, ok) /\ Outcome(ok)
  BY DEF Deciding, Start, Completed, Failed, failClosed, Breached, Target,
     Outcome

LEMMA SubmitTells ==
  ASSUME EnvInv, Control, Written, Story, SubmitTask
  PROVE  Written' /\ Story'
  <1> USE DEF Goto, TearDownThen, Returns
  <1>1. CASE Provision \/ ProvisionFails
    <2>1. Written' /\ SaysNoMore
      BY <1>1, WordlessSaysNothing DEF Wordless
    <2>2. CASE pc' \notin Settled
      <3>1. /\ pc \in {"provision", "abandon"} /\ UNCHANGED <<failed, reported>>
            /\ pc' \in {"provision", "abandon", "assemble", "unprovisioned"}
        BY <1>1, <2>2 DEF Provision, ProvisionFails, Settled
      <3> QED BY <2>1, <3>1, OnTheWay DEF Breaching, Settled, SaysNoMore
    <2>3. CASE pc' \in Settled
      <3>1. pc = "unprovisioned" /\ reported' = "" /\ failed' = failed
        BY <1>1, <2>3 DEF Provision, ProvisionFails, Settled
      <3> QED BY <2>1, <2>3, <3>1
              DEF Story, Breaching, Settled, Announced, SaysNoMore
    <2> QED BY <2>2, <2>3
  <1>2. CASE Assemble
    <2>1. <<Decision("CREATED")>> \in Seq(Events)
      BY DEF Decision, Event, Events, Classes, Words, Statuses
    <2>2. ~Says(Created, "COMPLETED")
      <3>1. Decision("CREATED").to # Decision("COMPLETED").to
        BY DEF Decision, Event
      <3>2. Decision("CREATED") # Decision("COMPLETED")
        BY <3>1
      <3> QED BY <3>2 DEF Says, Created
    <2>3. Written'
      BY <1>2, <2>1 DEF Assemble, Created, envVars, Written
    <2>4. Says(events', "COMPLETED") => Says(events, "COMPLETED")
      BY <1>2, <2>2 DEF Assemble
    <2>5. /\ pc = "assemble" /\ pc' \in {"attach", "teardown"}
          /\ pc' = "teardown" => after' = "refused"
          /\ UNCHANGED <<failed, reported>>
      BY <1>2 DEF Assemble
    <2> QED BY <2>3, <2>4, <2>5, OnTheWay DEF Breaching, Settled
  <1>3. CASE AttachWitness \/ SealComplete \/ SealFailed \/ SealBreach
               \/ Egress \/ Teardown
    <2>1. Written' /\ SaysNoMore
      BY <1>3, WordlessSaysNothing DEF Wordless
    <2>2. pc \notin Settled
      BY <1>3 DEF AttachWitness, SealComplete, SealFailed, SealBreach, Egress,
         Teardown, Settled, Sealing
    <2>3. CASE SealComplete /\ Raise
      BY <2>1, <2>2, <2>3, RaiseTells
    <2>4. CASE Teardown
      <3>1. pc = "remove" => after \in Sequels
        BY DEF Control
      <3>2. /\ UNCHANGED <<failed, reported>> /\ pc' \notin Settled
            /\ Breaching' <=> Breaching
        BY <2>4, <3>1 DEF Teardown, Breaching, Settled, Sequels
      <3> QED BY <2>1, <2>2, <3>2, OnTheWay DEF SaysNoMore
    <2>5. CASE ~(SealComplete /\ Raise) /\ ~Teardown
      <3>1. UNCHANGED <<failed, reported>> /\ pc' \notin Settled
        BY <1>3, <2>5 DEF AttachWitness, SealComplete, SealFailed, SealBreach,
           Egress, Settled
      <3>2. Breaching' <=> Breaching
        BY <1>3, <2>5 DEF AttachWitness, SealComplete, SealFailed, SealBreach,
           Egress, Breaching, Sealing
      <3> QED BY <2>1, <2>2, <3>1, <3>2, OnTheWay DEF SaysNoMore
    <2> QED BY <2>3, <2>4, <2>5
  <1>4. CASE Materialize \/ WalkStep \/ RecordInvariant \/ BindArtifact
    <2>1. Written' /\ SaysNoMore
      BY <1>4, WordlessSaysNothing DEF Wordless
    <2>2. CASE WalkStep /\ Raise
      BY <2>1, <2>2, RaiseTells DEF WalkStep, Settled
    <2>3. CASE ~(WalkStep /\ Raise)
      <3>1. UNCHANGED <<failed, reported>> /\ pc \notin Settled
        BY <1>4, <2>3 DEF Materialize, WalkStep, RecordInvariant, BindArtifact,
           Settled
      <3>2. (Breaching' <=> Breaching) /\ pc' \notin Settled
        BY <1>4, <2>3 DEF Materialize, WalkStep, RecordInvariant, BindArtifact,
           Breaching, Settled
      <3> QED BY <2>1, <3>1, <3>2, OnTheWay DEF SaysNoMore
    <2> QED BY <2>2, <2>3
  <1>5. CASE WalkEnds
    <2>1. Written' /\ SaysNoMore /\ events' = events
      BY <1>5, SilenceSaysNothing DEF WalkEnds, envVars, recordVars
    <2>2. CASE Raise
      BY <1>5, <2>1, <2>2, RaiseTells DEF WalkEnds, Settled
    <2>3. CASE ~Raise
      BY <1>5, <2>1, <2>3, OnTheWay DEF WalkEnds, Breaching, Settled
    <2> QED BY <2>2, <2>3
  <1>6. CASE Refused \/ Close
    <2>1. Written' /\ SaysNoMore
      BY <1>6, SilenceSaysNothing DEF Refused, Close, envVars, recordVars
    <2>2. CASE Refused
      BY <2>1, <2>2 DEF Refused, Story, Breaching, Settled,
         Announced, SaysNoMore
    <2>3. CASE Close
      BY <2>1, <2>3 DEF Close, Story, Breaching, Settled, SaysNoMore,
         Announced
    <2> QED BY <1>6, <2>2, <2>3
  <1>7. CASE Deciding
    <2>1. PICK ok \in BOOLEAN : Transition(Target, ok) /\ Outcome(ok)
      BY <1>7, DecidingIs
    <2>2. Target \in Statuses /\ (Target = "COMPLETED" <=> pc = "completed")
      BY DEF Statuses, Target
    <2>3. pending' = pending
      BY <1>7 DEF Deciding, Start, Completed, Failed, failClosed, Breached,
         envVars
    <2>4. /\ Written' /\ (ok => Says(events', Target))
          /\ \A status : status # Target =>
               (Says(events', status) <=> Says(events, status))
      BY <2>1, <2>2, <2>3, TransitionSays
    <2>5. pc \notin Settled
      BY <2>1 DEF Settled, Outcome
    <2>6. CASE Raise
      BY <2>4, <2>5, <2>6, RaiseTells
    <2>7. CASE ~Raise
      <3>1. /\ Says(events, "COMPLETED") => failed
            /\ (failed <=> Breaching) /\ reported = ""
        BY <2>5 DEF Story
      <3>2. CASE pc = "start" /\ ok /\ Goto("walk")
        BY <2>2, <2>4, <2>5, <3>1, <3>2, OnTheWay DEF Breaching, Settled
      <3>3. CASE pc = "completed" /\ ok /\ Returns("COMPLETED")
        BY <2>2, <2>4, <3>3
           DEF Story, Settled, Announced
      <3>4. CASE pc \in {"failed", "closed"} /\ ~failed /\ Returns("FAILED") /\ ok
        <4>1. Target = "FAILED"
          BY <3>4 DEF Target
        <4>2. Says(events', "FAILED") /\ ~Says(events', "COMPLETED")
          BY <2>4, <3>1, <3>4, <4>1
        <4> QED BY <2>4, <3>4, <4>2
                DEF Story, Settled, Announced
      <3>5. CASE pc = "closed" /\ ~failed /\ Returns("FAILED_PARTIAL")
        <4>1. Target = "FAILED"
          BY <3>5 DEF Target
        <4>2. ~Says(events', "COMPLETED")
          BY <2>4, <3>1, <3>5, <4>1
        <4> QED BY <2>4, <3>5, <4>2
                DEF Story, Settled, Announced
      <3>6. CASE pc = "breached" /\ failed /\ Returns("FAILED")
        BY <2>4, <3>6 DEF Story, Settled, Announced
      <3> QED BY <2>1, <2>7, <3>1, <3>2, <3>3, <3>4, <3>5, <3>6
              DEF Breaching, Outcome
    <2> QED BY <2>6, <2>7
  <1> QED BY <1>1, <1>2, <1>3, <1>4, <1>5, <1>6, <1>7 DEF SubmitTask, Deciding

LEMMA StoryStarts == Init => Written /\ Story
  <1> SUFFICES ASSUME Init PROVE Written /\ Story
    OBVIOUS
  <1>1. events = << >> /\ pending = << >>
    BY DEF Init, EnvInit
  <1>2. Written
    BY <1>1 DEF Written
  <1>3. ~Says(events, "COMPLETED")
    BY <1>1 DEF Says
  <1> QED BY <1>2, <1>3
          DEF Init, Story, Breaching, Settled, Announced

LEMMA StoryKept == Inv /\ Written /\ Story /\ [Next]_vars => Written' /\ Story'
  <1> SUFFICES ASSUME Inv, Written, Story, [Next]_vars
               PROVE  Written' /\ Story'
    OBVIOUS
  <1>1. CASE SubmitTask
    BY <1>1, SubmitTells DEF Inv
  <1>2. CASE Exec
    <2>1. Written' /\ SaysNoMore
      BY <1>2, ExecSaysNothing DEF Exec, Inv
    <2> QED BY <1>2, <2>1 DEF Exec, taskVars, Story, Breaching, Settled,
            SaysNoMore, Announced
  <1>3. CASE UNCHANGED vars
    BY <1>3 DEF vars, envVars, recordVars, taskVars, Written, Story, Breaching,
       Settled, Announced
  <1> QED BY <1>1, <1>2, <1>3 DEF Next

(***************************************************************************)
(* What parts the report from the record is a failed disk operation.  The  *)
(* record decides once, because a decision, landed or committed, leaves a  *)
(* stream that takes no more; and until SubmitTask returns the stream is   *)
(* closed, in memory or by a torn append, only after a fault.              *)
(***************************************************************************)

\* Where the record exists.
Begun ==
    \/ pc \in {"attach", "materialize", "start", "walk", "complete", "fail",
               "floor", "egress", "artifact", "refuse", "acknowledge", "bind",
               "invariant", "breach"} \cup (Sequels \ {"refused"})
    \/ pc \in {"teardown", "remove"} /\ after \in Sequels \ {"refused"}

Final == {"COMPLETED", "FAILED"}

Once ==
    /\ \A status \in Final : Says(events, status) => ~CanAppend
    /\ ~(Says(events, "COMPLETED") /\ Says(events, "FAILED"))

Whole ==
    /\ pc \notin Settled /\ (broken \/ man \in Closed \ {""}) => faults > 0
    /\ Begun => man # ""

Excused ==
    /\ reported \in Final \cup {"", "FAILED_PARTIAL"}
    /\ reported = "FAILED_PARTIAL" => faults > 0
    /\ reported = "FAILED" /\ failed /\ ~Says(events, "FAILED") => faults > 0

Standing == Once /\ Whole /\ Excused

\* What a step that changes no status does to the record.
Quiet ==
    /\ man' = man /\ (broken => broken') /\ faults' >= faults
    /\ broken' => broken \/ faults' > faults

LEMMA WritingIsQuiet ==
  ASSUME RecordTyped, man' = man, NEW e, NEW ok,
         \/ Refuses \/ Commits(e) \/ Breaks(e) \/ Appended(e, ok)
         \/ Emit(e, ok) \/ EmitOp(e, ok)
  PROVE  Quiet
  <1>1. CASE Refuses
    BY <1>1 DEF Refuses, Quiet, RecordTyped
  <1>2. CASE Commits(e)
    BY <1>2 DEF Commits, Quiet, RecordTyped
  <1>3. CASE Breaks(e)
    BY <1>3 DEF Breaks, Fault, Quiet, RecordTyped
  <1>4. Appended(e, ok) => Commits(e) \/ Breaks(e) \/ Refuses
    BY DEF Appended
  <1>5. Emit(e, ok) => Appended(e, ok) \/ Refuses
    BY DEF Emit
  <1>6. EmitOp(e, ok) => Emit(e, ok) \/ Refuses
    BY DEF EmitOp
  <1> QED BY <1>1, <1>2, <1>3, <1>4, <1>5, <1>6

LEMMA SilenceIsQuiet ==
  ASSUME RecordTyped, UNCHANGED <<man, broken, faults>>
  PROVE  Quiet
  BY DEF Quiet, RecordTyped

LEMMA FaultIsQuiet ==
  ASSUME RecordTyped, man' = man, Fault, broken' = TRUE \/ broken' = broken
  PROVE  Quiet
  BY DEF Quiet, RecordTyped, Fault

LEMMA SealIsQuiet ==
  ASSUME RecordTyped, man' = man, NEW reason, NEW ok,
         SealLocked(reason, ok) \/ Seal(reason, ok)
  PROVE  Quiet
  <1>1. SealLocked(reason, ok) => Refuses \/ \E e : Emit(e, ok)
    BY DEF SealLocked
  <1>2. Seal(reason, ok) => Refuses \/ SealLocked(reason, ok)
    BY DEF Seal
  <1> QED BY <1>1, <1>2, WritingIsQuiet

LEMMA EnvIsQuiet ==
  ASSUME RecordTyped, NEW ok \in BOOLEAN,
         \/ ProvisionDirectories \/ ProvisionGit(ok) \/ Activate
         \/ AbandonProvision \/ Attach(ok) \/ BeginEgress(ok)
         \/ EgressGit(ok) \/ RefuseEgress \/ Put \/ Acknowledge(ok)
  PROVE  Quiet
  <1>1. CASE ProvisionDirectories \/ AbandonProvision \/ Put
    BY <1>1, SilenceIsQuiet
       DEF ProvisionDirectories, AbandonProvision, Put, recordVars
  <1>2. CASE ProvisionGit(ok) \/ Activate \/ EgressGit(ok) \/ RefuseEgress
    BY <1>2, WritingIsQuiet DEF ProvisionGit, Activate, EgressGit, RefuseEgress
  <1>3. CASE Attach(ok)
    <2>1. /\ man' = man
          /\ \/ UNCHANGED <<broken, faults>>
             \/ Fault /\ broken' = TRUE
      BY <1>3 DEF Attach, Refuses
    <2> QED BY <2>1, SilenceIsQuiet, FaultIsQuiet
  <1>4. CASE BeginEgress(ok)
    <2>1. man' = man /\ (Refuses \/ \E e : Emit(e, ok))
      BY <1>4 DEF BeginEgress
    <2> QED BY <2>1, WritingIsQuiet
  <1>5. CASE Acknowledge(ok)
    <2>1. /\ man' = man
          /\ \/ Appended(Acknowledgement, FALSE)
             \/ UNCHANGED <<broken, faults>>
             \/ Fault /\ broken' = TRUE
      BY <1>5 DEF Acknowledge
    <2> QED BY <2>1, WritingIsQuiet, SilenceIsQuiet, FaultIsQuiet
  <1> QED BY <1>1, <1>2, <1>3, <1>4, <1>5

LEMMA TeardownIsQuiet ==
  ASSUME RecordTyped, TeardownBegin \/ TeardownEnd
  PROVE  Quiet
  <1>1. CASE TeardownBegin
    <2>1. /\ man' = man
          /\ \/ UNCHANGED <<broken, faults>>
             \/ Fault /\ broken' = TRUE
             \/ \E e, ok : Emit(e, ok)
      BY <1>1 DEF TeardownBegin, Refuses
    <2> QED BY <2>1, WritingIsQuiet, SilenceIsQuiet, FaultIsQuiet
  <1>2. CASE TeardownEnd
    <2>1. man' = man /\ (Refuses \/ \E e, ok : Emit(e, ok))
      BY <1>2 DEF TeardownEnd
    <2> QED BY <2>1, WritingIsQuiet
  <1> QED BY <1>1, <1>2

LEMMA ExecIsQuiet ==
  ASSUME RecordTyped, NEW c \in Callers, ExecGit(c)
  PROVE  Quiet
  <1>1. CASE ExecAdmitted(c) \/ ExecStart(c) \/ ExecProcessEnds(c)
    BY <1>1, SilenceIsQuiet
       DEF ExecAdmitted, ExecStart, ExecProcessEnds, recordVars
  <1>2. CASE ExecSpent(c)
    BY <1>2, SealIsQuiet DEF ExecSpent
  <1>3. CASE ExecRecord(c)
    BY <1>3, WritingIsQuiet DEF ExecRecord
  <1>4. CASE ExecLeave(c)
    BY <1>4, SealIsQuiet, WritingIsQuiet DEF ExecLeave
  <1> QED BY <1>1, <1>2, <1>3, <1>4 DEF ExecGit

LEMMA WordlessIsQuiet ==
  ASSUME RecordTyped, Wordless
  PROVE  Quiet
  <1>1. CASE Provision \/ ProvisionFails \/ Teardown
    BY <1>1, EnvIsQuiet, TeardownIsQuiet DEF Provision, ProvisionFails, Teardown
  <1>2. CASE AttachWitness \/ Egress
    BY <1>2, EnvIsQuiet DEF AttachWitness, Egress
  <1>3. CASE SealComplete \/ SealFailed \/ SealBreach
    <2>1. man' = man /\ \E reason, ok : Seal(reason, ok)
      BY <1>3 DEF SealComplete, SealFailed, SealBreach, Seal
    <2> QED BY <2>1, SealIsQuiet
  <1>4. CASE Materialize \/ WalkStep \/ RecordInvariant
    <2>1. /\ man' = man
          /\ UNCHANGED <<broken, faults>> \/ \E e, ok : Appended(e, ok)
      BY <1>4 DEF Materialize, WalkStep, RecordInvariant
    <2> QED BY <2>1, WritingIsQuiet, SilenceIsQuiet
  <1>5. CASE BindArtifact
    <2>1. /\ man' = man
          /\ \/ Commits(Bound) \/ Appended(Bound, FALSE)
             \/ Fault /\ UNCHANGED broken
      BY <1>5 DEF BindArtifact
    <2> QED BY <2>1, WritingIsQuiet, FaultIsQuiet
  <1>6. CASE WalkEnds
    BY <1>6, SilenceIsQuiet DEF WalkEnds, recordVars
  <1> QED BY <1>1, <1>2, <1>3, <1>4, <1>5, <1>6 DEF Wordless

LEMMA FaultsRemain ==
  ASSUME RecordTyped, RecordTyped', Quiet
  PROVE  /\ faults > 0 => faults' > 0
         /\ broken' => broken \/ faults' > 0
  BY LimitsAssumption DEF RecordTyped, Quiet

\* A step that decides nothing leaves the record as final as it was.
LEMMA QuietStands ==
  ASSUME Standing, RecordTyped, RecordTyped', Quiet, SaysNoMore,
         reported' = reported, failed' = failed \/ reported = "",
         pc' \notin Settled => pc \notin Settled, Begun' => Begun
  PROVE  Standing'
  <1>1. CanAppend' => CanAppend
    BY DEF CanAppend, Quiet, RecordTyped
  <1>2. Once'
    BY <1>1 DEF Standing, Once, SaysNoMore, Final
  <1>3. faults > 0 => faults' > 0
    BY FaultsRemain
  <1>4. broken' => broken \/ faults' > 0
    BY FaultsRemain
  <1>5. Whole'
    BY <1>3, <1>4 DEF Standing, Whole, Quiet
  <1>6. Says(events', "FAILED") <=> Says(events, "FAILED")
    BY DEF SaysNoMore
  <1>7. Excused'
    <2>1. CASE reported = ""
      <3>1. reported' = ""
        BY <2>1
      <3> QED BY ONLY <3>1 DEF Excused, Final
    <2>2. CASE failed' = failed
      <3>1. Excused /\ reported' = reported
        BY DEF Standing
      <3> QED BY ONLY <1>3, <1>6, <2>2, <3>1 DEF Excused
    <2> QED BY <2>1, <2>2
  <1> QED BY <1>2, <1>5, <1>7 DEF Standing

LEMMA WordlessStands ==
  ASSUME EnvInv, RecordTyped', Control, Written, Story, Standing, Wordless
  PROVE  Standing'
  <1>1. RecordTyped /\ Quiet /\ SaysNoMore
    BY WordlessIsQuiet, WordlessSaysNothing DEF EnvInv
  <1>2. CASE pc = "unprovisioned" /\ Returns("")
    <2>1. reported' = reported /\ failed' = failed /\ ~Begun'
      BY <1>2 DEF Returns, Story, Settled, Begun, Sequels
    <2> QED BY <1>1, <1>2, <2>1, QuietStands DEF Settled
  <1>3. CASE ~(pc = "unprovisioned" /\ Returns(""))
    <2>1. /\ reported' = reported /\ pc \notin Settled
          /\ failed' = failed \/ Raise
      BY <1>3 DEF Wordless, Provision, ProvisionFails, AttachWitness,
         Materialize, WalkStep, WalkEnds, SealComplete, Egress, BindArtifact,
         SealFailed, RecordInvariant, SealBreach, Teardown, Goto,
         TearDownThen, Raise, Settled, Sealing
    <2>2. reported = ""
      BY <2>1 DEF Story
    <2>3. Begun' => Begun
      <3>1. CASE Provision \/ ProvisionFails
        BY <1>3, <3>1 DEF Provision, ProvisionFails, Goto, Begun, Sequels
      <3>2. CASE Teardown
        BY <3>2 DEF Teardown, Goto, Begun, Sequels, Control
      <3>3. CASE ~(Provision \/ ProvisionFails \/ Teardown)
        BY <3>3 DEF Wordless, AttachWitness, Materialize, WalkStep, WalkEnds,
           SealComplete, Egress, BindArtifact, SealFailed, RecordInvariant,
           SealBreach, Sealing, Begun, Sequels
      <3> QED BY <3>1, <3>2, <3>3
    <2> QED BY <1>1, <2>1, <2>2, <2>3, QuietStands
  <1> QED BY <1>2, <1>3

LEMMA AssembleStands ==
  ASSUME RecordTyped, Story, Standing, Assemble
  PROVE  Standing'
  <1>1. /\ pc = "assemble" /\ pc' \in {"attach", "teardown"}
        /\ pc' = "teardown" => after' = "refused" /\ man' = man
        /\ pc' = "attach" => man' = "CREATED"
        /\ UNCHANGED <<failed, reported, broken, faults>>
        /\ events' \in {events, Created}
        /\ events' = events => man' = man \/ events = Created
    BY DEF Assemble, Goto, TearDownThen
  <1>2. \A status \in Final : ~Says(Created, status)
    <2>1. ASSUME NEW status \in Final
          PROVE  Decision("CREATED") # Decision(status)
      <3>1. Decision("CREATED").to = "CREATED" /\ Decision(status).to = status
        BY DEF Decision, Event
      <3> QED BY <3>1 DEF Final
    <2> QED BY <2>1 DEF Says, Created
  <1>3. Once'
    <2>1. CASE events' = Created
      BY <1>2, <2>1 DEF Once, Final
    <2>2. CASE events' = events /\ man' = man
      BY <1>1, <2>2 DEF Standing, Once, CanAppend, Final
    <2>3. CASE events' = events /\ events = Created
      BY <1>2, <2>3 DEF Once, Final
    <2> QED BY <1>1, <2>1, <2>2, <2>3
  <1>4. Whole'
    BY <1>1 DEF Standing, Whole, Begun, Sequels, Settled, Closed
  <1>5. Excused'
    <2>1. reported' = ""
      BY <1>1 DEF Story, Settled
    <2> QED BY <2>1 DEF Excused, Final
  <1> QED BY <1>3, <1>4, <1>5 DEF Standing

\* A transition decides nothing that was decided, and closes what it decides.
LEMMA TransitionDecides ==
  ASSUME Written, RecordTyped, Standing, pending' = pending,
         NEW to \in Statuses, NEW ok \in BOOLEAN, Transition(to, ok)
  PROVE  Once'
  <1>1. /\ \A status : status # to =>
             (Says(events', status) <=> Says(events, status))
        /\ ok => Says(events', to)
    BY TransitionSays
  <1>2. CASE Refuses /\ man' = man
    <2>1. events' = events /\ (CanAppend' <=> CanAppend)
      BY <1>2 DEF Refuses, CanAppend
    <2> QED BY <2>1 DEF Standing, Once, Final
  <1>3. CASE CanAppend
    <2>1. \A status \in Final : ~Says(events, status)
      BY <1>3 DEF Standing, Once
    <2>2. man' = to \/ broken' = TRUE \/ (Refuses /\ man' = man)
      BY DEF Transition, Appended, Breaks
    <2>3. to \in Final /\ man' = to => ~CanAppend'
      BY DEF CanAppend, Closed, Final
    <2>4. broken' = TRUE => ~CanAppend'
      BY DEF CanAppend
    <2> QED BY <1>1, <1>2, <2>1, <2>2, <2>3, <2>4 DEF Once, Final
  <1>4. CASE ~CanAppend
    BY <1>2, <1>4 DEF Transition, Appended, Commits, Breaks
  <1> QED BY <1>3, <1>4

\* One that is refused, of a record that stands and is not decided, was
\* refused by the disk.
LEMMA RefusalIsFault ==
  ASSUME RecordTyped, Whole, pc \notin Settled, man \in Statuses,
         NEW to \in Statuses, Transition(to, FALSE),
         to \in {"FAILED", "FAILED_PARTIAL"}
  PROVE  faults' > 0
  <1>1. CASE man \in Closed
    <2>1. faults > 0
      BY <1>1 DEF Whole, Statuses
    <2>2. faults' = faults \/ faults' = faults + 1
      BY DEF Transition, Appended, Breaks, Refuses, Fault
    <2> QED BY <2>1, <2>2, LimitsAssumption DEF RecordTyped
  <1>2. CASE man \notin Closed
    <2>1. to \in legalStatus[man]
      BY <1>2 DEF legalStatus, Statuses, Closed
    <2>2. (CanAppend /\ Fault) \/ (broken /\ Refuses)
      BY <1>2, <2>1 DEF Transition, Appended, Breaks, CanAppend
    <2>3. CASE CanAppend /\ Fault
      BY <2>3, LimitsAssumption DEF Fault, RecordTyped
    <2>4. CASE broken /\ Refuses
      BY <2>4 DEF Whole, Refuses
    <2> QED BY <2>2, <2>3, <2>4
  <1> QED BY <1>1, <1>2

LEMMA DecisionStands ==
  ASSUME EnvInv, TaskTyped, Written, Story, Standing, Deciding
  PROVE  Standing'
  <1>1. PICK ok \in BOOLEAN : Transition(Target, ok) /\ Outcome(ok)
    BY DecidingIs
  <1>2. /\ Target \in {"RUNNING", "COMPLETED", "FAILED"} /\ Target \in Statuses
        /\ pc \in {"closed", "breached", "failed"} => Target = "FAILED"
        /\ pc = "start" => Target = "RUNNING"
    BY DEF Target, Statuses
  <1>3. pending' = pending
    BY DEF Deciding, Start, Completed, Failed, failClosed, Breached, envVars
  <1>4. RecordTyped /\ Once /\ Whole /\ pc \notin Settled
    BY <1>1 DEF EnvInv, Standing, Outcome, Settled
  <1>5. man \in Statuses
    <2>1. Begun
      BY <1>1 DEF Outcome, Begun, Sequels
    <2> QED BY <1>4, <2>1 DEF Whole, TaskTyped
  <1>6. Once'
    BY <1>1, <1>2, <1>3, <1>4, TransitionDecides
  <1>7. reported = ""
    BY <1>4 DEF Story
  <1>8. Whole'
    <2>1. CASE pc' = "walk" /\ ok /\ pc = "start"
      <3>1. man' = "RUNNING" /\ broken' = broken /\ ~broken
        BY <1>1, <1>2, <2>1 DEF Transition, Commits, CanAppend
      <3> QED BY <2>1, <3>1 DEF Whole, Closed
    <2>2. CASE pc' = "invariant" /\ ~ok
      <3>1. Transition(Target, FALSE)
        BY <1>1, <2>2
      <3>2. man' \in {man, Target} /\ man' # ""
        BY <1>2, <1>5, <3>1 DEF Transition, Statuses
      <3>3. Fault \/ UNCHANGED <<man, broken, faults>>
        BY <3>1 DEF Transition, Appended, Breaks, Refuses
      <3>4. CASE Fault
        <4>1. faults' > 0
          BY <1>4, <3>4, LimitsAssumption DEF RecordTyped, Fault
        <4> QED BY <3>2, <4>1 DEF Whole
      <3>5. CASE UNCHANGED <<man, broken, faults>>
        BY <1>4, <3>2, <3>5 DEF Whole
      <3> QED BY <3>3, <3>4, <3>5
    <2>3. CASE pc' = "returning"
      BY <2>3 DEF Whole, Settled, Begun, Sequels
    <2> QED BY <1>1, <2>1, <2>2, <2>3 DEF Outcome, Goto, Raise, Returns
  <1>9. Excused'
    <2>1. CASE reported' \in {"", "COMPLETED"}
      BY ONLY <2>1 DEF Excused, Final
    <2>2. CASE reported' = "FAILED" /\ ok /\ Target = "FAILED"
      <3>1. Says(events', "FAILED")
        BY <1>1, <1>2, <1>3, <2>2, TransitionSays
      <3> QED BY ONLY <2>2, <3>1 DEF Excused, Final
    <2>3. CASE /\ reported' \in {"FAILED", "FAILED_PARTIAL"}
               /\ ~ok /\ Target = "FAILED"
      <3>1. faults' > 0
        BY <1>1, <1>2, <1>4, <1>5, <2>3, RefusalIsFault
      <3> QED BY ONLY <2>3, <3>1 DEF Excused, Final
    <2> QED BY <1>1, <1>2, <1>7, <2>1, <2>2, <2>3
            DEF Outcome, Goto, Raise, Returns
  <1> QED BY <1>6, <1>8, <1>9 DEF Standing

LEMMA StandingStarts == Init => Standing
  <1> SUFFICES ASSUME Init PROVE Standing
    OBVIOUS
  <1>1. /\ events = << >> /\ man = "" /\ ~broken /\ pc = "provision"
        /\ reported = ""
    BY DEF Init, EnvInit
  <1>2. ~Says(events, "COMPLETED") /\ ~Says(events, "FAILED")
    <2>1. events = << >>
      BY <1>1
    <2>2. DOMAIN events = {}
      BY ONLY <2>1
    <2> QED BY ONLY <2>2 DEF Says
  <1> QED BY <1>1, <1>2 DEF Standing, Once, Whole, Excused, Begun, Sequels,
          Settled, Final

LEMMA StandingKept ==
  Inv /\ Inv' /\ Written /\ Story /\ Standing /\ [Next]_vars => Standing'
  <1> SUFFICES ASSUME Inv, Inv', Written, Story, Standing, [Next]_vars
               PROVE  Standing'
    OBVIOUS
  <1>0. EnvInv /\ RecordTyped /\ RecordTyped' /\ Control /\ TaskTyped
    BY DEF Inv, EnvInv
  <1>1. CASE Wordless
    BY <1>0, <1>1, WordlessStands
  <1>2. CASE Assemble
    BY <1>0, <1>2, AssembleStands
  <1>3. CASE Deciding
    BY <1>0, <1>3, DecisionStands
  <1>4. CASE Refused
    <2>1. /\ reported' = "" /\ pc' = "returning" /\ UNCHANGED <<events, man, broken>>
      BY <1>4 DEF Refused, Returns, recordVars
    <2>2. Once'
      BY <2>1 DEF Standing, Once, CanAppend, Says
    <2>3. Whole' /\ Excused'
      BY <2>1 DEF Whole, Excused, Settled, Begun, Sequels
    <2> QED BY <2>2, <2>3 DEF Standing
  <1>5. CASE Close
    <2>1. /\ pc' = "returned" /\ UNCHANGED <<events, man, faults, reported, failed>>
          /\ broken' = TRUE
      BY <1>5 DEF Close, Goto
    <2>2. Once'
      BY <2>1 DEF Standing, Once, CanAppend, Says
    <2>3. Whole'
      BY <2>1 DEF Whole, Settled, Begun, Sequels
    <2>4. Excused'
      BY <2>1 DEF Standing, Excused, Says
    <2> QED BY <2>2, <2>3, <2>4 DEF Standing
  <1>6. CASE Exec
    <2>1. SaysNoMore /\ Quiet
      BY <1>0, <1>6, ExecSaysNothing, ExecIsQuiet DEF Exec
    <2>2. UNCHANGED <<pc, after, reported, failed>>
      BY <1>6 DEF Exec, taskVars
    <2>3. Begun' => Begun
      BY <2>2 DEF Begun
    <2> QED BY <1>0, <2>1, <2>2, <2>3, QuietStands
  <1>7. CASE UNCHANGED vars
    <2>1. UNCHANGED <<pc, after, reported, failed, events, man, broken, faults>>
      BY <1>7 DEF vars, recordVars, taskVars
    <2> QED BY <2>1 DEF Standing, Once, Whole, Excused, CanAppend, Says, Begun
  <1> QED BY <1>1, <1>2, <1>3, <1>4, <1>5, <1>6, <1>7
          DEF Next, SubmitTask, Wordless, Deciding

\* A record decides once, whatever disk operation fails and whatever is in
\* flight.  The status SubmitTask reports is the one the record ends with but
\* after a failed disk operation, and then only in two ways: FAILED, reported by
\* the invariant path with an error, of a record that ends otherwise; or
\* FAILED_PARTIAL, reported by failClosed, of one whose decision to fail landed
\* (run, complete, fail, failClosed, invariant).
THEOREM ReportFollowsRecord == Spec => []ReportedIsRecorded
  <1>1. Spec => [](Written /\ Story /\ Standing)
    BY StoryStarts, StoryKept, StandingStarts, StandingKept, Invariance, PTL
       DEF Spec
  <1>2. Story /\ Standing => ReportedIsRecorded
    <2> SUFFICES ASSUME Story, Standing PROVE ReportedIsRecorded
      OBVIOUS
    <2>1. /\ Decided("COMPLETED") <=> Says(events, "COMPLETED")
          /\ Decided("FAILED") <=> Says(events, "FAILED")
      BY DEF Decided, Says
    <2>2. ~(Decided("COMPLETED") /\ Decided("FAILED"))
      BY <2>1 DEF Standing, Once
    <2>3. reported = "FAILED_PARTIAL" => faults > 0
      BY DEF Standing, Excused
    <2>4. CASE reported = ""
      BY <2>2, <2>4 DEF ReportedIsRecorded
    <2>5. CASE reported = "COMPLETED"
      <3>1. Settles = reported
        BY <2>1, <2>5 DEF Settles, Story, Announced
      <3> QED BY <2>2, <2>5, <3>1 DEF ReportedIsRecorded
    <2>6. CASE reported = "FAILED"
      <3>1. CASE Settles = "FAILED"
        BY <2>2, <2>6, <3>1 DEF ReportedIsRecorded
      <3>2. CASE Settles # "FAILED"
        <4>1. ~Decided("FAILED")
          BY <2>2, <3>2 DEF Settles
        <4>2. failed
          BY <2>1, <2>6, <4>1 DEF Story, Announced
        <4>3. faults > 0
          BY <2>1, <2>6, <4>1, <4>2 DEF Standing, Excused
        <4> QED BY <2>2, <2>6, <4>2, <4>3 DEF ReportedIsRecorded
      <3> QED BY <3>1, <3>2
    <2>7. CASE reported = "FAILED_PARTIAL"
      <3>1. Settles = "FAILED" \/ Settles = reported
        BY <2>1, <2>7 DEF Settles, Story, Announced
      <3> QED BY <2>2, <2>3, <2>7, <3>1 DEF ReportedIsRecorded
    <2> QED BY <2>4, <2>5, <2>6, <2>7 DEF Standing, Excused, Final
  <1> QED BY <1>1, <1>2, PTL

(***************************************************************************)
(* The edges a stream shows.  Recorded is a recursive function of the      *)
(* positions of the stream: it exists, and one more event shows one edge   *)
(* more or none, by induction on the positions.                            *)
(***************************************************************************)

Less == {ss \in Nat \X Nat : ss[1] < ss[2]}

\* Induction up to n, for the members of a set instead of a predicate.
LEMMA UpTo ==
  ASSUME NEW n \in Nat, NEW S, 0 \in S,
         \A k \in Nat : k < n /\ k \in S => k + 1 \in S
  PROVE  0 .. n \subseteq S
  <1> DEFINE T == {k \in Nat : k <= n /\ k \notin S}
  <1> SUFFICES ASSUME T # {} PROVE FALSE
    OBVIOUS
  <1>1. PICK x \in T : \A y \in T : ~(<<y, x>> \in Less)
    <2>1. T \subseteq Nat
      OBVIOUS
    <2>2. IsWellFoundedOn(Less, Nat)
      BY NatLessThanWellFounded, Zenon DEF OpToRel, Less
    <2> QED BY <2>1, <2>2, WFMin, Zenon
  <1>2. \A y \in T : ~(y < x)
    BY <1>1 DEF Less
  <1>3. x # 0 /\ x - 1 \in Nat /\ x - 1 < n /\ x - 1 < x
    BY <1>1
  <1>4. x - 1 \in S
    BY <1>2, <1>3
  <1>5. (x - 1) + 1 \in S
    BY <1>3, <1>4
  <1> QED BY <1>1, <1>5

Streams == Seq(Events)

LEMMA RecordTypes ==
  ASSUME NEW shown \in Streams, NEW e \in Events
  PROVE  Record(shown, e) \in Streams
  BY DEF Record, Streams

\* f shows what the first n events of evs show, position by position.
Shows(f, evs, n) ==
    /\ f \in [0 .. n -> Streams]
    /\ f[0] = <<>>
    /\ \A k \in 1 .. n : f[k] = Record(f[k - 1], evs[k])

LEMMA ShowsOneMore ==
  ASSUME NEW evs \in Streams, NEW k \in Nat, k < Len(evs), NEW f,
         Shows(f, evs, k)
  PROVE  \E g : Shows(g, evs, k + 1)
  <1> DEFINE g == [i \in 0 .. k + 1 |->
                     IF i = k + 1 THEN Record(f[k], evs[k + 1]) ELSE f[i]]
  <1>1. /\ f \in [0 .. k -> Streams] /\ f[0] = <<>>
        /\ \A i \in 1 .. k : f[i] = Record(f[i - 1], evs[i])
    BY DEF Shows
  <1>2. evs[k + 1] \in Events /\ f[k] \in Streams
    BY <1>1 DEF Streams
  <1>3. Record(f[k], evs[k + 1]) \in Streams
    BY <1>2, RecordTypes
  <1>4. g \in [0 .. k + 1 -> Streams]
    <2>1. \A i \in 0 .. k + 1 : i # k + 1 => i \in 0 .. k
      OBVIOUS
    <2> QED BY <1>1, <1>3, <2>1
  <1>5. g[0] = <<>>
    BY <1>1
  <1>6. ASSUME NEW i \in 1 .. k + 1 PROVE g[i] = Record(g[i - 1], evs[i])
    <2>1. i \in 0 .. k + 1 /\ i - 1 \in 0 .. k + 1 /\ i - 1 # k + 1
      OBVIOUS
    <2>2. CASE i = k + 1
      BY <2>1, <2>2
    <2>3. CASE i # k + 1
      <3>1. i \in 1 .. k
        BY <2>3
      <3> QED BY <1>1, <2>1, <2>3, <3>1
    <2> QED BY <2>2, <2>3
  <1> HIDE DEF g
  <1> QED BY <1>4, <1>5, <1>6 DEF Shows

LEMMA ShowsExists ==
  ASSUME NEW evs \in Streams
  PROVE  \E f : Shows(f, evs, Len(evs))
  <1> DEFINE S == {k \in Nat : \E f : Shows(f, evs, k)}
  <1>1. 0 \in S
    <2>1. Shows([i \in 0 .. 0 |-> <<>>], evs, 0)
      BY DEF Shows, Streams
    <2> QED BY <2>1
  <1>2. \A k \in Nat : k < Len(evs) /\ k \in S => k + 1 \in S
    BY ShowsOneMore
  <1>3. Len(evs) \in Nat /\ Len(evs) \in 0 .. Len(evs)
    BY DEF Streams
  <1>4. 0 .. Len(evs) \subseteq S
    <2> HIDE DEF S
    <2> QED BY <1>1, <1>2, <1>3, UpTo, Zenon
  <1> QED BY <1>3, <1>4

\* The equation of the recursive function of Recorded.
RecordedUpTo(f, evs) ==
    f = [i \in 0 .. Len(evs) |->
           IF i = 0 THEN <<>> ELSE Record(f[i - 1], evs[i])]

LEMMA RecordedUpToShows ==
  ASSUME NEW evs \in Streams, NEW f, RecordedUpTo(f, evs)
  PROVE  Shows(f, evs, Len(evs))
  <1> DEFINE n == Len(evs)
             S == {k \in Nat : k <= n => f[k] \in Streams}
  <1>1. /\ n \in Nat
        /\ \A i \in 0 .. n :
             f[i] = IF i = 0 THEN <<>> ELSE Record(f[i - 1], evs[i])
    <2>1. \A i \in 0 .. n :
            f[i] = IF i = 0 THEN <<>> ELSE Record(f[i - 1], evs[i])
      BY Zenon DEF RecordedUpTo
    <2> QED BY <2>1 DEF Streams
  <1>2. f[0] = <<>>
    BY <1>1
  <1>3. \A k \in 1 .. n : f[k] = Record(f[k - 1], evs[k])
    BY <1>1
  <1>4. 0 \in S
    <2>1. <<>> \in Streams
      BY DEF Streams
    <2> QED BY <1>2, <2>1
  <1>5. ASSUME NEW k \in Nat, k < n, k \in S PROVE k + 1 \in S
    <2>1. /\ k + 1 \in 1 .. n /\ (k + 1) - 1 = k
          /\ f[k] \in Streams /\ evs[k + 1] \in Events
      BY <1>1, <1>5 DEF Streams
    <2>2. f[k + 1] = Record(f[k], evs[k + 1])
      BY <1>3, <2>1
    <2> QED BY <2>1, <2>2, RecordTypes
  <1>6. 0 .. n \subseteq S
    <2> HIDE DEF S
    <2> QED BY <1>1, <1>4, <1>5, UpTo
  <1>7. f = [i \in 0 .. n |-> f[i]]
    BY DEF RecordedUpTo
  <1>8. f \in [0 .. n -> Streams]
    BY <1>6, <1>7
  <1> QED BY <1>2, <1>3, <1>8 DEF Shows

LEMMA ShowsSolves ==
  ASSUME NEW evs \in Streams, NEW f, Shows(f, evs, Len(evs))
  PROVE  RecordedUpTo(f, evs)
  <1>1. f = [i \in 0 .. Len(evs) |-> f[i]]
    BY DEF Shows
  <1>2. \A i \in 0 .. Len(evs) :
          f[i] = IF i = 0 THEN <<>> ELSE Record(f[i - 1], evs[i])
    BY DEF Shows
  <1> QED BY <1>1, <1>2 DEF RecordedUpTo

LEMMA RecordedIs ==
  ASSUME NEW evs \in Streams
  PROVE  \E f : Shows(f, evs, Len(evs)) /\ Recorded(evs) = f[Len(evs)]
  <1> DEFINE g == CHOOSE f : RecordedUpTo(f, evs)
  <1>1. RecordedUpTo(g, evs)
    <2>1. \E f : RecordedUpTo(f, evs)
      BY ShowsExists, ShowsSolves
    <2> QED BY <2>1
  <1>2. Recorded(evs) = g[Len(evs)]
    BY Zenon DEF Recorded, RecordedUpTo
  <1> HIDE DEF g
  <1> QED BY <1>1, <1>2, RecordedUpToShows

LEMMA RecordedEmpty == Recorded(<<>>) = <<>>
  <1>1. <<>> \in Streams /\ Len(<<>>) = 0
    BY DEF Streams
  <1> QED BY <1>1, RecordedIs DEF Shows

LEMMA RecordedTyped ==
  ASSUME NEW evs \in Streams
  PROVE  Recorded(evs) \in Streams
  <1>1. Len(evs) \in 0 .. Len(evs)
    BY DEF Streams
  <1> QED BY <1>1, RecordedIs DEF Shows

\* One more event shows its edge, or nothing.
LEMMA RecordedAppend ==
  ASSUME NEW evs \in Streams, NEW e \in Events
  PROVE  Recorded(Append(evs, e)) = Record(Recorded(evs), e)
  <1> DEFINE more == Append(evs, e)
             n    == Len(evs)
  <1>1. /\ more \in Streams /\ n \in Nat /\ Len(more) = n + 1
        /\ more[n + 1] = e /\ \A k \in 1 .. n : more[k] = evs[k]
    BY AppendProperties DEF Streams
  <1> HIDE DEF more
  <1>2. PICK f : Shows(f, evs, n) /\ Recorded(evs) = f[n]
    BY RecordedIs
  <1>3. PICK g : Shows(g, more, n + 1) /\ Recorded(more) = g[n + 1]
    BY <1>1, RecordedIs
  <1> DEFINE S == {k \in Nat : k <= n => g[k] = f[k]}
  <1>4. 0 \in S
    BY <1>2, <1>3 DEF Shows
  <1>5. ASSUME NEW k \in Nat, k < n, k \in S PROVE k + 1 \in S
    <2>1. /\ k + 1 \in 1 .. n /\ k + 1 \in 1 .. n + 1 /\ (k + 1) - 1 = k
          /\ g[k] = f[k]
      BY <1>1, <1>5
    <2>2. /\ f[k + 1] = Record(f[k], evs[k + 1])
          /\ g[k + 1] = Record(g[k], more[k + 1])
      BY <1>2, <1>3, <2>1 DEF Shows
    <2> QED BY <1>1, <2>1, <2>2
  <1>6. 0 .. n \subseteq S
    <2> HIDE DEF S
    <2> QED BY <1>1, <1>4, <1>5, UpTo
  <1>7. n + 1 \in 1 .. n + 1 /\ (n + 1) - 1 = n /\ g[n] = f[n]
    BY <1>1, <1>6
  <1>8. g[n + 1] = Record(g[n], more[n + 1])
    BY <1>3, <1>7 DEF Shows
  <1> QED BY <1>1, <1>2, <1>3, <1>7, <1>8 DEF more

LEMMA ConcatAppend ==
  ASSUME NEW s \in Streams, NEW t \in Streams, NEW e \in Events
  PROVE  s \o Append(t, e) = Append(s \o t, e)
  BY DEF Streams

\* What two streams show one after the other, whole or torn.
LEMMA RecordedConcat ==
  ASSUME NEW evs \in Streams, NEW more \in Streams, NEW i \in 0 .. Len(more)
  PROVE  Recorded(evs \o SubSeq(more, 1, i))
           = Recorded(evs) \o Recorded(SubSeq(more, 1, i))
  <1> DEFINE S == {k \in Nat : k <= Len(more) =>
                     Recorded(evs \o SubSeq(more, 1, k))
                       = Recorded(evs) \o Recorded(SubSeq(more, 1, k))}
  <1>1. Len(more) \in Nat /\ i \in 0 .. Len(more) /\ Recorded(evs) \in Streams
    BY RecordedTyped DEF Streams
  <1>2. 0 \in S
    <2>1. SubSeq(more, 1, 0) = <<>> /\ evs \o <<>> = evs
      BY DEF Streams
    <2>2. Recorded(evs) \o <<>> = Recorded(evs)
      BY <1>1 DEF Streams
    <2> QED BY <2>1, <2>2, RecordedEmpty
  <1>3. ASSUME NEW k \in Nat, k < Len(more), k \in S PROVE k + 1 \in S
    <2> DEFINE s == SubSeq(more, 1, k)
               e == more[k + 1]
    <2>1. e \in Events /\ s \in Streams /\ evs \o s \in Streams
      BY <1>3 DEF Streams
    <2>2. SubSeq(more, 1, k + 1) = Append(s, e)
      BY <1>3 DEF Streams
    <2>3. evs \o Append(s, e) = Append(evs \o s, e)
      BY <2>1, ConcatAppend
    <2>4. Recorded(evs \o s) = Recorded(evs) \o Recorded(s)
      BY <1>3
    <2>5. Recorded(s) \in Streams
      BY <2>1, RecordedTyped
    <2> HIDE DEF s, e
    <2>6. Recorded(Append(evs \o s, e)) = Record(Recorded(evs \o s), e)
      BY <2>1, RecordedAppend
    <2>7. Recorded(Append(s, e)) = Record(Recorded(s), e)
      BY <2>1, RecordedAppend
    <2>8. Record(Recorded(evs) \o Recorded(s), e)
            = Recorded(evs) \o Record(Recorded(s), e)
      BY <1>1, <2>1, <2>5, ConcatAppend DEF Record
    <2>9. Recorded(evs \o Append(s, e)) = Recorded(evs) \o Recorded(Append(s, e))
      BY <2>3, <2>4, <2>6, <2>7, <2>8
    <2>10. Recorded(evs \o SubSeq(more, 1, k + 1))
             = Recorded(evs) \o Recorded(SubSeq(more, 1, k + 1))
      BY ONLY <2>2, <2>9, Zenon
    <2> QED BY <2>10
  <1>4. 0 .. Len(more) \subseteq S
    <2> HIDE DEF S
    <2> QED BY <1>1, <1>2, <1>3, UpTo
  <1> QED BY <1>1, <1>4

LEMMA RecordedMore ==
  ASSUME NEW evs \in Streams, NEW more \in Streams
  PROVE  Recorded(evs \o more) = Recorded(evs) \o Recorded(more)
  <1>1. Len(more) \in 0 .. Len(more) /\ SubSeq(more, 1, Len(more)) = more
    BY DEF Streams
  <1> QED BY <1>1, RecordedConcat

LEMMA RecordedOne ==
  ASSUME NEW e \in Events
  PROVE  Recorded(<<e>>) = IF IsEdge(e) THEN <<e>> ELSE <<>>
  <1>1. <<>> \in Streams /\ Append(<<>>, e) = <<e>>
    BY DEF Streams
  <1>2. Recorded(Append(<<>>, e)) = Record(Recorded(<<>>), e)
    BY <1>1, RecordedAppend
  <1> QED BY <1>1, <1>2, RecordedEmpty DEF Record

\* What a torn tail shows is the beginning of what the tail shows.
IsBeginning(s, t) == Len(s) <= Len(t) /\ \A i \in DOMAIN s : s[i] = t[i]

LEMMA BeginsTorn ==
  ASSUME NEW more \in Streams, NEW i \in 0 .. Len(more)
  PROVE  IsBeginning(Recorded(SubSeq(more, 1, i)), Recorded(more))
  <1> DEFINE s == SubSeq(more, 1, i)
             t == SubSeq(more, i + 1, Len(more))
  <1>1. s \in Streams /\ t \in Streams /\ s \o t = more
    <2>1. /\ s \in Streams /\ Len(s) = i /\ \A j \in 1 .. i : s[j] = more[j]
          /\ t \in Streams /\ Len(t) = Len(more) - i
          /\ \A j \in 1 .. Len(more) - i : t[j] = more[i + j]
      BY DEF Streams
    <2> HIDE DEF s, t
    <2>2. s \o t \in Seq(Events) /\ Len(s \o t) = Len(more)
      BY <2>1 DEF Streams
    <2>3. ASSUME NEW j \in 1 .. Len(more) PROVE (s \o t)[j] = more[j]
      <3>1. CASE j <= i
        BY <2>1, <3>1 DEF Streams
      <3>2. CASE i < j
        <4>1. j - i \in 1 .. Len(more) - i /\ i + (j - i) = j
          BY <3>2 DEF Streams
        <4>2. t[j - i] = more[j]
          BY <2>1, <4>1
        <4>3. (s \o t)[j] = t[j - i]
          BY <2>1, <3>2, <4>1 DEF Streams
        <4> QED BY <4>2, <4>3
      <3>3. j <= i \/ i < j
        <4>1. i \in Int /\ j \in Int
          OBVIOUS
        <4> QED BY <4>1
      <3> QED BY <3>1, <3>2, <3>3, Zenon
    <2> QED BY <2>1, <2>2, <2>3, SeqEqual DEF Streams
  <1> HIDE DEF s, t
  <1>2. Recorded(more) = Recorded(s) \o Recorded(t)
    BY <1>1, RecordedMore
  <1>3. Recorded(s) \in Streams /\ Recorded(t) \in Streams
    BY <1>1, RecordedTyped
  <1>4. IsBeginning(Recorded(s), Recorded(s) \o Recorded(t))
    BY <1>3 DEF IsBeginning, Streams
  <1>5. IsBeginning(Recorded(s), Recorded(more))
    BY <1>2, <1>4
  <1> QED BY <1>5 DEF s

LEMMA BeginsUnder ==
  ASSUME NEW r \in Streams, NEW s \in Streams, NEW t \in Streams,
         IsBeginning(s, t)
  PROVE  IsBeginning(r \o s, r \o t)
  BY DEF IsBeginning, Streams

LEMMA BeginsLonger ==
  ASSUME NEW s \in Streams, NEW t \in Streams, NEW more \in Streams,
         IsBeginning(s, t)
  PROVE  IsBeginning(s, t \o more)
  BY DEF IsBeginning, Streams

LEMMA BeginsItself ==
  ASSUME NEW s \in Streams PROVE IsBeginning(s, s)
  BY DEF IsBeginning

(***************************************************************************)
(* The steps, by what they do to the record.  The environment tells a few  *)
(* events at once, through the handle or into the buffer; SubmitTask adds  *)
(* one of its own.                                                         *)
(***************************************************************************)

MachineEdges == {Edge(from, to) : from \in States, to \in States}

Notes == {e \in Remarks : ~IsEdge(e) /\ e # Bound}

Plain == Notes \cup MachineEdges

\* The machine takes the edges among all, and the record is told of all.
Tells(all) ==
    /\ edges' = edges \o Recorded(all)
    /\ UNCHANGED <<witness, man>> /\ (broken => broken')
    /\ IF witness
       THEN /\ pending' = pending
            /\ \/ CanAppend /\ events' = events \o all
               \/ /\ CanAppend /\ broken'
                  /\ \E i \in 0 .. Len(all) : events' = events \o SubSeq(all, 1, i)
               \/ ~CanAppend /\ events' = events
       ELSE events' = events /\ pending' = pending \o all

Told == \E all \in Seq(Plain) : Tells(all)

\* SubmitTask's own append of e, whatever came of it.
Adds(e) ==
    /\ UNCHANGED envVars
    /\ CanAppend' => CanAppend
    /\ \/ events' = events
       \/ CanAppend /\ events' = Append(events, e)

Follows ==
    /\ edges \in Streams
    /\ RecordFollowsMachine
    /\ witness /\ CanAppend => Recorded(events) = edges

LEMMA PlainEvents == Plain \subseteq Events
  <1>1. \A from, to \in States : Edge(from, to) \in Events
    BY RemarksAre DEF Remarks
  <1>2. Notes \subseteq Events
    BY DEF Notes, Remarks
  <1> QED BY <1>1, <1>2 DEF Plain, MachineEdges

LEMMA PlainStreams == Seq(Plain) \subseteq Streams
  BY PlainEvents DEF Streams

LEMMA WrittenStreams ==
  ASSUME Written
  PROVE  events \in Streams /\ pending \in Streams
  <1>1. Remarks \subseteq Events
    BY DEF Remarks
  <1> QED BY <1>1 DEF Written, Streams

\* What is told keeps the record a beginning of the machine, and up to date
\* as long as it can be appended to.
LEMMA TellingFollows ==
  ASSUME Written, Follows, NEW all \in Streams, Tells(all)
  PROVE  /\ Follows'
         /\ ~witness => /\ events' = events
                        /\ Recorded(pending') = Recorded(pending) \o Recorded(all)
  <1>1. events \in Streams /\ pending \in Streams
    BY WrittenStreams
  <1>2. /\ Recorded(all) \in Streams /\ Recorded(events) \in Streams
        /\ edges \in Streams
    BY <1>1, RecordedTyped DEF Follows
  <1>3. edges' = edges \o Recorded(all) /\ edges' \in Streams
    BY <1>2 DEF Tells, Streams
  <1>4. CanAppend' => CanAppend
    BY DEF Tells, CanAppend
  <1>5. IsBeginning(Recorded(events), edges)
    BY DEF Follows, RecordFollowsMachine, IsBeginning
  <1>6. ASSUME ~witness \/ ~CanAppend
        PROVE  events' = events /\ Follows'
    <2>1. events' = events
      BY <1>6 DEF Tells
    <2>2. IsBeginning(Recorded(events), edges')
      BY <1>2, <1>3, <1>5, BeginsLonger
    <2>3. ~(witness /\ CanAppend)'
      BY <1>4, <1>6 DEF Tells
    <2> QED BY <1>3, <2>1, <2>2, <2>3
            DEF Follows, RecordFollowsMachine, IsBeginning
  <1>7. ASSUME witness, CanAppend PROVE Follows'
    <2>1. Recorded(events) = edges
      BY <1>7 DEF Follows
    <2>2. CASE events' = events \o all
      <3>1. Recorded(events') = edges'
        BY <1>1, <1>3, <2>1, <2>2, RecordedMore
      <3> QED BY <1>3, <3>1 DEF Follows, RecordFollowsMachine, Streams
    <2>3. ASSUME broken', NEW i \in 0 .. Len(all),
                 events' = events \o SubSeq(all, 1, i)
          PROVE  Follows'
      <3>1. Recorded(events') = edges \o Recorded(SubSeq(all, 1, i))
        BY <1>1, <2>1, <2>3, RecordedConcat
      <3>2. SubSeq(all, 1, i) \in Streams
        BY <2>3 DEF Streams
      <3>3. IsBeginning(Recorded(events'), edges')
        BY <1>2, <1>3, <3>1, <3>2, RecordedTyped, BeginsTorn, BeginsUnder
      <3>4. ~CanAppend'
        BY <2>3 DEF CanAppend
      <3> QED BY <1>3, <3>3, <3>4 DEF Follows, RecordFollowsMachine, IsBeginning
    <2> QED BY <1>7, <2>2, <2>3 DEF Tells
  <1>8. ~witness => Recorded(pending') = Recorded(pending) \o Recorded(all)
    BY <1>1, RecordedMore DEF Tells
  <1> QED BY <1>6, <1>7, <1>8

LEMMA NotesAre ==
  /\ \A phase \in {"provision", "active", "egress"},
        out \in {"", "ok", "failed", "unwitnessed"} :
       Operation(phase, out) \in Notes
  /\ EgressOp("refused") \in Notes /\ Acknowledgement \in Notes
  /\ Delivery \in Notes /\ Work \in Notes /\ Invariant \in Notes
  <1>1. ASSUME NEW e \in Remarks, e.class \notin {"l5-transition", "artifact-bound"}
        PROVE  e \in Notes
    <2>1. Bound.class = "artifact-bound"
      BY DEF Bound, Event
    <2> QED BY <1>1, <2>1 DEF Notes, IsEdge
  <1>2. \A from, to : /\ Operation(from, to).class = "l5-op"
                      /\ EgressOp(to).class = "l5-op"
    BY DEF Operation, EgressOp, Event
  <1>3. /\ Delivery.class = "l2-delivery" /\ Work.class = "work"
        /\ Invariant.class = "l7-invariant" /\ Acknowledgement.class = "l5-op"
    BY <1>2 DEF Delivery, Work, Invariant, Acknowledgement, Event
  <1> QED BY <1>1, <1>2, <1>3, RemarksAre

LEMMA EdgesAre ==
  ASSUME NEW from \in States, NEW to \in States
  PROVE  /\ Edge(from, to) \in Plain /\ Edge(from, to) \in Events
         /\ IsEdge(Edge(from, to))
  <1>1. Edge(from, to) \in Plain
    BY DEF Plain, MachineEdges
  <1>2. IsEdge(Edge(from, to))
    BY DEF Edge, Event, IsEdge
  <1> QED BY <1>1, <1>2, PlainEvents

LEMMA TellsNothing ==
  ASSUME Written, Follows, UNCHANGED <<edges, witness, pending, man>>,
         Refuses \/ (UNCHANGED events /\ (broken => broken'))
  PROVE  Told
  <1>1. <<>> \in Seq(Plain) /\ Len(<<>>) = 0 /\ SubSeq(<<>>, 1, 0) = <<>>
    OBVIOUS
  <1>2. /\ events \o <<>> = events /\ pending \o <<>> = pending
        /\ edges \o <<>> = edges
    BY WrittenStreams DEF Follows, Streams
  <1>3. events' = events /\ (broken => broken')
    BY DEF Refuses
  <1>4. Tells(<<>>)
    BY <1>2, <1>3, RecordedEmpty DEF Tells
  <1> QED BY <1>1, <1>4 DEF Told

\* What one append may come to, for a writer of the record.
LEMMA AppendedIs ==
  ASSUME NEW e, NEW ok, Appended(e, ok)
  PROVE  /\ broken => broken'
         /\ \/ CanAppend /\ events' = Append(events, e)
            \/ CanAppend /\ broken' /\ events' = events
            \/ ~CanAppend /\ events' = events
  BY DEF Appended, Commits, Breaks, Refuses, CanAppend

LEMMA TellsOne ==
  ASSUME Written, Follows, NEW e \in Plain, NEW ok \in BOOLEAN,
         UNCHANGED <<witness, man>>,
         edges' = IF IsEdge(e) THEN Append(edges, e) ELSE edges,
         Emit(e, ok) \/ (witness /\ Appended(e, ok) /\ UNCHANGED pending)
  PROVE  Told
  <1>1. <<e>> \in Seq(Plain) /\ e \in Events
    BY PlainEvents
  <1>2. /\ events \o <<e>> = Append(events, e)
        /\ pending \o <<e>> = Append(pending, e)
        /\ edges \o <<e>> = Append(edges, e) /\ edges \o <<>> = edges
    BY <1>1, WrittenStreams DEF Follows, Streams
  <1>3. edges' = edges \o Recorded(<<e>>)
    BY <1>1, <1>2, RecordedOne
  <1>4. CASE witness
    <2>1. pending' = pending /\ Appended(e, ok)
      BY <1>4 DEF Emit
    <2>2. /\ broken => broken'
          /\ \/ CanAppend /\ events' = Append(events, e)
             \/ CanAppend /\ broken' /\ events' = events
             \/ ~CanAppend /\ events' = events
      BY <2>1, AppendedIs
    <2>3. 0 \in 0 .. Len(<<e>>) /\ events = events \o SubSeq(<<e>>, 1, 0)
      BY WrittenStreams DEF Streams
    <2>4. Tells(<<e>>)
      BY <1>2, <1>3, <1>4, <2>1, <2>2, <2>3 DEF Tells
    <2> QED BY <1>1, <2>4 DEF Told
  <1>5. CASE ~witness
    <2>1. pending' = Append(pending, e) /\ events' = events /\ broken' = broken
      BY <1>5 DEF Emit, Refuses
    <2>2. Tells(<<e>>)
      BY <1>2, <1>3, <1>5, <2>1 DEF Tells
    <2> QED BY <1>1, <2>2 DEF Told
  <1> QED BY <1>4, <1>5

LEMMA TellsNote ==
  ASSUME Written, Follows, NEW e \in Notes, NEW ok \in BOOLEAN,
         UNCHANGED <<witness, man, edges>>, EmitOp(e, ok)
  PROVE  Told
  <1>1. e \in Plain /\ ~IsEdge(e)
    BY DEF Plain, Notes
  <1>2. CASE Emit(e, ok)
    BY <1>1, <1>2, TellsOne
  <1>3. CASE ~Emit(e, ok)
    BY <1>3, TellsNothing DEF EmitOp
  <1> QED BY <1>2, <1>3

LEMMA TellsMove ==
  ASSUME EnvInv, Written, Follows, NEW to \in States, NEW ok \in BOOLEAN,
         UNCHANGED <<witness, man>>, Move(to), Emit(Edge(state, to), ok)
  PROVE  Told
  <1>1. state \in States
    BY DEF EnvInv, EnvTyped
  <1> QED BY <1>1, EdgesAre, TellsOne DEF Move

LEMMA SealTells ==
  ASSUME EnvInv, Written, Follows, NEW reason, NEW ok \in BOOLEAN,
         \/ Seal(reason, ok)
         \/ SealLocked(reason, ok) /\ UNCHANGED <<witness, man>>
  PROVE  Told
  <1>1. UNCHANGED <<witness, man>>
    BY DEF Seal
  <1>2. CASE SealLocked(reason, ok)
    <2>1. CASE Move("SEALED") /\ Emit(Edge(state, "SEALED"), ok)
      BY <1>1, <2>1, TellsMove DEF States
    <2>2. CASE UNCHANGED <<edges, pending>> /\ Refuses
      BY <1>1, <2>2, TellsNothing
    <2> QED BY <1>2, <2>1, <2>2 DEF SealLocked
  <1>3. CASE UNCHANGED <<edges, pending>> /\ Refuses
    BY <1>1, <1>3, TellsNothing
  <1> QED BY <1>2, <1>3 DEF Seal

LEMMA EnvTells ==
  ASSUME EnvInv, Written, Follows, NEW ok \in BOOLEAN,
         \/ ProvisionDirectories \/ ProvisionGit(ok) \/ Activate
         \/ BeginEgress(ok) \/ EgressGit(ok) \/ RefuseEgress \/ Put
  PROVE  Told
  <1>1. CASE ProvisionDirectories \/ Put
    BY <1>1, TellsNothing DEF ProvisionDirectories, Put, recordVars
  <1>2. CASE ProvisionGit(ok)
    <2>1. Operation("provision", IF ok THEN "ok" ELSE "failed") \in Notes
      BY NotesAre
    <2> QED BY <1>2, <2>1, TellsNote DEF ProvisionGit, EmitOp
  <1>3. CASE Activate
    BY <1>3, TellsMove DEF Activate, States
  <1>4. CASE BeginEgress(ok)
    <2>1. CASE Move("EGRESSING") /\ Emit(Edge(state, "EGRESSING"), ok)
      BY <1>4, <2>1, TellsMove DEF BeginEgress, States
    <2>2. CASE UNCHANGED <<edges, pending>> /\ Refuses
      BY <1>4, <2>2, TellsNothing DEF BeginEgress
    <2> QED BY <1>4, <2>1, <2>2 DEF BeginEgress
  <1>5. CASE EgressGit(ok)
    <2>1. /\ Operation("egress", "ok") \in Notes
          /\ Operation("egress", "failed") \in Notes
      BY NotesAre
    <2> QED BY <1>5, <2>1, TellsNote DEF EgressGit
  <1>6. CASE RefuseEgress
    BY <1>6, NotesAre, TellsNote DEF RefuseEgress, EmitOp
  <1> QED BY <1>1, <1>2, <1>3, <1>4, <1>5, <1>6

LEMMA PairsAre ==
  ASSUME NEW e \in Events, NEW f \in Events, NEW evs \in Streams
  PROVE  /\ evs \o <<e, f>> = Append(Append(evs, e), f)
         /\ evs \o SubSeq(<<e, f>>, 1, 1) = Append(evs, e)
         /\ evs \o SubSeq(<<e, f>>, 1, 2) = Append(Append(evs, e), f)
         /\ Recorded(<<e, f>>) = Record(Recorded(<<e>>), f)
  <1>1. <<e, f>> = Append(<<e>>, f) /\ <<e>> \in Streams
    BY DEF Streams
  <1>2. SubSeq(<<e, f>>, 1, 1) = <<e>>
    <2>1. \A i \in 1 .. 1 : <<e, f>>[i] \in Events
      OBVIOUS
    <2>2. /\ SubSeq(<<e, f>>, 1, 1) \in Seq(Events)
          /\ Len(SubSeq(<<e, f>>, 1, 1)) = 1
          /\ SubSeq(<<e, f>>, 1, 1)[1] = e
      BY <2>1, SubSeqProperties
    <2>3. <<e>> \in Seq(Events) /\ Len(<<e>>) = 1 /\ <<e>>[1] = e
      OBVIOUS
    <2> DEFINE s == SubSeq(<<e, f>>, 1, 1)
               t == <<e>>
    <2>4. /\ s \in Seq(Events) /\ t \in Seq(Events) /\ Len(s) = Len(t)
          /\ \A i \in 1 .. Len(s) : s[i] = t[i]
      BY <2>2, <2>3
    <2> HIDE DEF s, t
    <2>5. s = t
      BY <2>4, SeqEqual
    <2> QED BY <2>5 DEF s, t
  <1>4. SubSeq(<<e, f>>, 1, 2) = <<e, f>>
    <2>1. <<e, f>> \in Seq(Events) /\ Len(<<e, f>>) = 2
      OBVIOUS
    <2> QED BY <2>1, SubSeqFull
  <1>3. evs \o <<e>> = Append(evs, e) /\ evs \o <<e, f>> = Append(Append(evs, e), f)
    BY DEF Streams
  <1> QED BY <1>1, <1>2, <1>3, <1>4, RecordedAppend

LEMMA AcknowledgeTells ==
  ASSUME EnvInv, Written, Follows, NEW ok \in BOOLEAN, Acknowledge(ok)
  PROVE  Told
  <1>1. UNCHANGED <<witness, pending, man>> /\ witness /\ state = "EGRESSING"
    BY DEF Acknowledge
  <1>2. Acknowledgement \in Plain /\ ~IsEdge(Acknowledgement)
    BY NotesAre DEF Plain, Notes
  <1>3. CASE Appended(Acknowledgement, FALSE) /\ edges' = edges
    BY <1>1, <1>2, <1>3, TellsOne
  <1>4. CASE Move("ACKNOWLEDGED")
    <2> DEFINE a == Acknowledgement
               e == Edge("EGRESSING", "ACKNOWLEDGED")
               all == <<a, e>>
    <2>1. e \in Plain /\ IsEdge(e) /\ a \in Plain
      BY <1>2, EdgesAre DEF States
    <2>2. a \in Events /\ e \in Events /\ events \in Streams /\ edges \in Streams
      BY <2>1, PlainEvents, WrittenStreams DEF Follows
    <2>3. edges' = Append(edges, e)
      BY <1>1, <1>4 DEF Move
    <2>4. /\ CanAppend /\ (broken => broken')
          /\ \/ events' = Append(Append(events, a), e)
             \/ broken' /\ events' \in {Append(events, a), Append(Append(events, a), e)}
      BY <1>1, <1>4 DEF Acknowledge, CanAppend, Appended, Breaks, Refuses, Move
    <2>5. ~IsEdge(a)
      BY <1>2
    <2> HIDE DEF a, e
    <2>6. Recorded(all) = <<e>>
      <3>1. Recorded(<<a>>) = <<>>
        BY <2>2, <2>5, RecordedOne
      <3>2. Recorded(<<a, e>>) = Record(Recorded(<<a>>), e)
        BY <2>2, PairsAre
      <3> QED BY <2>1, <3>1, <3>2 DEF Record
    <2>7. /\ events \o all = Append(Append(events, a), e)
          /\ events \o SubSeq(all, 1, 1) = Append(events, a)
      BY <2>2, PairsAre
    <2>8. 1 \in 0 .. Len(all) /\ all \in Seq(Plain)
      BY <2>1
    <2>9. edges' = edges \o Recorded(all)
      <3>1. Append(edges, e) = edges \o <<e>>
        BY <2>2 DEF Streams
      <3> QED BY <2>3, <2>6, <3>1
    <2> HIDE DEF all
    <2>10. Tells(all)
      BY <1>1, <2>4, <2>7, <2>8, <2>9 DEF Tells
    <2> QED BY <2>8, <2>10 DEF Told
  <1> QED BY <1>3, <1>4 DEF Acknowledge

LEMMA TeardownTells ==
  ASSUME EnvInv, Written, Follows, TeardownBegin \/ TeardownEnd
  PROVE  Told
  <1>1. UNCHANGED <<witness, man>> /\ state \in States
    BY DEF TeardownBegin, TeardownEnd, EnvInv, EnvTyped
  <1>2. CASE UNCHANGED <<edges, pending>> /\ Refuses
    BY <1>1, <1>2, TellsNothing
  <1>3. ASSUME NEW to \in {"TEARDOWN", "DESTROYED", "TEARDOWN_ANOMALOUS"},
               Move(to), NEW ok \in BOOLEAN, Emit(Edge(state, to), ok)
        PROVE  Told
    BY <1>1, <1>3, TellsMove DEF States
  <1>4. CASE TeardownEnd
    <2>1. Move("DESTROYED") => state' = "DESTROYED"
      BY DEF Move
    <2>2. Move("TEARDOWN_ANOMALOUS") => state' = "TEARDOWN_ANOMALOUS"
      BY DEF Move
    <2> QED BY <1>2, <1>3, <1>4, <2>1, <2>2 DEF TeardownEnd
  <1>5. CASE TeardownBegin /\ state = "ACTIVE"
    <2> DEFINE e == Edge("ACTIVE", "SEALED")
               f == Edge("SEALED", "TEARDOWN")
               two == <<e, f>>
    <2>1. e \in Plain /\ f \in Plain /\ IsEdge(e) /\ IsEdge(f)
      BY EdgesAre DEF States
    <2>2. e \in Events /\ f \in Events
      BY <2>1, PlainEvents
    <2>3. /\ edges' = edges \o two
          /\ \/ ~witness /\ pending' = pending \o two /\ Refuses
             \/ /\ witness /\ UNCHANGED pending
                /\ \/ /\ CanAppend /\ events' = events \o two
                      /\ UNCHANGED <<broken, faults>>
                   \/ /\ CanAppend /\ Fault /\ broken' = TRUE
                      /\ \E i \in 0 .. 2 :
                           events' = events \o SubSeq(two, 1, i)
                   \/ ~CanAppend /\ Refuses
      <3>1. /\ state \notin {"SEALED", "EGRESSING", "ACKNOWLEDGED", "PROVISIONING"}
            /\ state \notin {"TEARDOWN"} \cup Ended
        BY <1>5 DEF Ended
      <3> QED BY <1>5, <3>1, Zenon DEF TeardownBegin
    <2> HIDE DEF e, f
    <2>4. Recorded(two) = two
      <3>1. Recorded(<<e>>) = <<e>>
        BY <2>1, <2>2, RecordedOne
      <3>2. <<>> \in Streams
        BY DEF Streams
      <3>3. Recorded(<<e, f>>) = Record(Recorded(<<e>>), f)
        BY <2>2, <3>2, PairsAre
      <3> QED BY <2>1, <3>1, <3>3 DEF Record
    <2>5. two \in Seq(Plain) /\ Len(two) = 2
      BY <2>1
    <2> HIDE DEF two
    <2>6. Tells(two)
      BY <1>1, <2>3, <2>4, <2>5 DEF Tells, Refuses
    <2> QED BY <2>5, <2>6 DEF Told
  <1>6. CASE TeardownBegin /\ state # "ACTIVE"
    <2>1. \/ /\ Move("TEARDOWN")
             /\ \E ok \in BOOLEAN : Emit(Edge(state, "TEARDOWN"), ok)
          \/ UNCHANGED <<edges, pending>> /\ Refuses
      BY <1>6 DEF TeardownBegin
    <2>2. ASSUME Move("TEARDOWN"), NEW ok \in BOOLEAN,
                 Emit(Edge(state, "TEARDOWN"), ok)
          PROVE  Told
      BY <1>3, <2>2
    <2> QED BY <1>2, <2>1, <2>2
  <1> QED BY <1>4, <1>5, <1>6

LEMMA ExecTells ==
  ASSUME EnvInv, Written, Follows, NEW c \in Callers, ExecGit(c)
  PROVE  Told
  <1>1. CASE ExecAdmitted(c) \/ ExecStart(c) \/ ExecProcessEnds(c)
    <2>1. UNCHANGED <<envVars, recordVars>>
      BY <1>1 DEF ExecAdmitted, ExecStart, ExecProcessEnds
    <2> QED BY <2>1, TellsNothing DEF envVars, recordVars
  <1>2. ASSUME NEW ok \in BOOLEAN, SealLocked("env-deadline", ok),
               UNCHANGED <<witness, man>>
        PROVE  Told
    BY <1>2, SealTells
  <1>3. CASE ExecSpent(c)
    <2>1. /\ UNCHANGED <<witness, man>>
          /\ \E ok \in BOOLEAN : SealLocked("env-deadline", ok)
      BY <1>3 DEF ExecSpent
    <2> QED BY <1>2, <2>1
  <1>4. CASE ExecRecord(c)
    <2>1. Operation("active", ops[c].out) \in Notes
      BY NotesAre DEF EnvInv, OpsTyped, Op
    <2> QED BY <1>4, <2>1, TellsNote DEF ExecRecord
  <1>5. CASE ExecLeave(c)
    <2>1. /\ UNCHANGED <<witness, man>>
          /\ \/ \E ok \in BOOLEAN : SealLocked("env-deadline", ok)
             \/ UNCHANGED <<edges, pending>> /\ Refuses
      BY <1>5 DEF ExecLeave
    <2> QED BY <1>2, <2>1, TellsNothing
  <1> QED BY <1>1, <1>3, <1>4, <1>5 DEF ExecGit

\* One event of SubmitTask's own shows no edge.
LEMMA AddingFollows ==
  ASSUME Written, Follows, NEW e \in Events, ~IsEdge(e), Adds(e)
  PROVE  Follows' /\ Recorded(events') = Recorded(events)
  <1>1. Recorded(events') = Recorded(events)
    BY WrittenStreams, RecordedAppend DEF Adds, Record
  <1> QED BY <1>1 DEF Adds, envVars, Follows, RecordFollowsMachine

\* The buffer is what the machine did so far: replayed, whole or in part, it
\* is the beginning of it.
LEMMA AttachFollows ==
  ASSUME Written, Follows, NEW ok \in BOOLEAN, Attach(ok),
         Recorded(events) = <<>>, Recorded(pending) = edges
  PROVE  Follows'
  <1>1. events \in Streams /\ pending \in Streams /\ edges' = edges
    BY WrittenStreams DEF Attach
  <1>2. Recorded(pending) \in Streams /\ <<>> \o Recorded(pending) = edges
    BY <1>1, RecordedTyped DEF Streams
  <1>3. CASE ok
    <2>1. events' = events \o pending
      BY <1>3 DEF Attach
    <2>2. Recorded(events') = edges
      BY <1>1, <1>2, <2>1, RecordedMore
    <2> QED BY <1>1, <2>2 DEF Follows, RecordFollowsMachine, Streams
  <1>4. CASE ~ok
    <2>1. witness' = FALSE
      BY <1>4 DEF Attach
    <2>2. CASE events' = events
      BY <1>1, <2>1, <2>2 DEF Follows, RecordFollowsMachine
    <2>3. ASSUME NEW i \in 0 .. Len(pending),
                 events' = events \o SubSeq(pending, 1, i)
          PROVE  Follows'
      <3>1. SubSeq(pending, 1, i) \in Streams
        BY <1>1, <2>3 DEF Streams
      <3>2. Recorded(SubSeq(pending, 1, i)) \in Streams
        BY <3>1, RecordedTyped
      <3>3. Recorded(events') = Recorded(SubSeq(pending, 1, i))
        <4>1. Recorded(events') = <<>> \o Recorded(SubSeq(pending, 1, i))
          BY <1>1, <2>3, RecordedConcat
        <4> QED BY <3>2, <4>1 DEF Streams
      <3>4. IsBeginning(Recorded(events'), edges')
        BY <1>1, <2>3, <3>3, BeginsTorn
      <3> QED BY <1>1, <2>1, <3>4 DEF Follows, RecordFollowsMachine, IsBeginning
    <2> QED BY <1>4, <2>2, <2>3 DEF Attach, Refuses
  <1> QED BY <1>3, <1>4

Early == {"provision", "abandon", "assemble", "attach"}

\* SubmitTask's own append, and where it makes which.
Adding(e) ==
    /\ e \in Events /\ ~IsEdge(e) /\ Adds(e)
    /\ pc \notin Early /\ pc' \notin Early
    /\ e = Bound => pc = "bind"
    /\ e = Decision("COMPLETED") => pc = "completed"

LEMMA NoteIsAdded ==
  ASSUME NEW e \in Notes, NEW ok, UNCHANGED <<envVars, man>>,
         Appended(e, ok) \/ Refuses \/ (UNCHANGED events /\ broken'),
         pc \notin Early, pc' \notin Early
  PROVE  Adding(e)
  <1>1. e \in Events /\ ~IsEdge(e) /\ e # Bound /\ e.class # "lifecycle"
    BY DEF Notes, Remarks
  <1>2. e # Decision("COMPLETED")
    <2>1. Decision("COMPLETED").class = "lifecycle"
      BY DEF Decision, Event
    <2> QED BY <1>1, <2>1
  <1>3. Adds(e)
    BY AppendedIs DEF Adds, Refuses, CanAppend
  <1> QED BY <1>1, <1>2, <1>3 DEF Adding

LEMMA DecisionIsAdded ==
  ASSUME NEW to \in Statuses, NEW ok, Transition(to, ok), UNCHANGED envVars,
         pc \notin Early, pc' \notin Early,
         to = "COMPLETED" => pc = "completed"
  PROVE  Adding(Decision(to))
  <1>1. Decision(to) \in Events
    BY DEF Decision, Event, Events, Classes, Words
  <1>2. Decision(to).class = "lifecycle" /\ Decision(to).to = to
    BY DEF Decision, Event
  <1>3. ~IsEdge(Decision(to)) /\ Decision(to) # Bound
    <2>1. Bound.class = "artifact-bound"
      BY DEF Bound, Event
    <2> QED BY <1>2, <2>1 DEF IsEdge
  <1>4. Decision(to) = Decision("COMPLETED") => to = "COMPLETED"
    <2>1. Decision("COMPLETED").to = "COMPLETED"
      BY DEF Decision, Event
    <2> QED BY <1>2, <2>1
  <1>5. Adds(Decision(to))
    <2>1. CASE Commits(Decision(to))
      BY <2>1 DEF Commits, Adds
    <2>2. CASE Appended(Decision(to), FALSE) /\ UNCHANGED man
      BY <2>2, AppendedIs DEF Adds, CanAppend
    <2>3. CASE CanAppend /\ events' = Append(events, Decision(to))
      BY <2>3 DEF Adds
    <2>4. CASE UNCHANGED man /\ Refuses
      BY <2>4 DEF Refuses, Adds, CanAppend
    <2> QED BY <2>1, <2>2, <2>3, <2>4 DEF Transition
  <1> QED BY <1>1, <1>3, <1>4, <1>5 DEF Adding

LEMMA BoundIsAdded ==
  ASSUME BindArtifact
  PROVE  Adding(Bound)
  <1>1. Bound \in Events /\ Bound.class = "artifact-bound"
    BY RemarksAre DEF Remarks, Bound, Event
  <1>2. ~IsEdge(Bound) /\ Bound # Decision("COMPLETED")
    <2>1. Decision("COMPLETED").class = "lifecycle"
      BY DEF Decision, Event
    <2> QED BY <1>1, <2>1 DEF IsEdge
  <1>3. UNCHANGED <<envVars, man>> /\ pc = "bind" /\ pc' = "teardown"
    BY DEF BindArtifact, TearDownThen
  <1>4. Adds(Bound)
    <2>1. CASE Commits(Bound)
      BY <1>3, <2>1 DEF Commits, Adds
    <2>2. CASE Appended(Bound, FALSE)
      BY <1>3, <2>2, AppendedIs DEF Adds, CanAppend
    <2>3. CASE CanAppend /\ events' = Append(events, Bound)
      BY <1>3, <2>3 DEF Adds
    <2>4. CASE UNCHANGED <<events, broken>>
      BY <1>3, <2>4 DEF Adds, CanAppend
    <2> QED BY <2>1, <2>2, <2>3, <2>4 DEF BindArtifact
  <1> QED BY <1>1, <1>2, <1>3, <1>4 DEF Adding, Early

\* Every step of SubmitTask, by what it does to the record.
LEMMA StepsAre ==
  ASSUME EnvInv, Control, Written, Follows, SubmitTask
  PROVE  \/ Told
         \/ \E e : Adding(e)
         \/ pc \in {"provision", "abandon"} /\ AbandonProvision
            /\ pc' = "unprovisioned"
         \/ AttachWitness \/ Assemble
  <1> USE DEF Goto, TearDownThen, Returns, Raise
  <1>1. CASE Provision
    BY <1>1, EnvTells DEF Provision
  <1>2. CASE ProvisionFails
    BY <1>2, TeardownTells DEF ProvisionFails
  <1>3. CASE Materialize
    <2>1. UNCHANGED <<envVars, man>> /\ pc \notin Early /\ pc' \notin Early
      BY <1>3 DEF Materialize, Early
    <2>2. CASE UNCHANGED <<events, broken, faults>>
      BY <2>1, <2>2, NotesAre, NoteIsAdded DEF Refuses
    <2>3. CASE ~UNCHANGED <<events, broken, faults>>
      <3>1. \E ok \in BOOLEAN : Appended(Delivery, ok)
        BY <1>3, <2>3 DEF Materialize
      <3> QED BY <2>1, <3>1, NotesAre, NoteIsAdded
    <2> QED BY <2>2, <2>3
  <1>4. CASE WalkStep \/ RecordInvariant
    <2>1. UNCHANGED <<envVars, man>> /\ pc \notin Early /\ pc' \notin Early
      BY <1>4 DEF WalkStep, RecordInvariant, Early
    <2>2. \E e \in Notes, ok \in BOOLEAN : Appended(e, ok)
      BY <1>4, NotesAre DEF WalkStep, RecordInvariant
    <2> QED BY <2>1, <2>2, NoteIsAdded
  <1>5. CASE Refused \/ WalkEnds \/ Close
    <2>1. UNCHANGED <<envVars, man>> /\ pc \notin Early /\ pc' \notin Early
      BY <1>5 DEF Refused, WalkEnds, Close, Early, recordVars
    <2>2. UNCHANGED events /\ (broken' \/ Refuses)
      BY <1>5 DEF Refused, WalkEnds, Close, recordVars, Refuses
    <2> QED BY <2>1, <2>2, NotesAre, NoteIsAdded
  <1>6. CASE Start \/ Completed \/ Failed \/ failClosed \/ Breached
    <2>1. UNCHANGED envVars /\ pc \notin Early /\ pc' \notin Early
      BY <1>6 DEF Start, Completed, Failed, failClosed, Breached, Early
    <2>2. \E to \in Statuses, ok \in BOOLEAN :
            Transition(to, ok) /\ (to = "COMPLETED" => pc = "completed")
      BY <1>6 DEF Start, Completed, Failed, failClosed, Breached, Statuses
    <2> QED BY <2>1, <2>2, DecisionIsAdded
  <1>7. CASE SealComplete \/ SealFailed \/ SealBreach
    <2>1. PICK reason \in {"task-complete", "fatal-breach", Sealing[pc]} :
            \E ok \in BOOLEAN : Seal(reason, ok)
      BY <1>7 DEF SealComplete, SealFailed, SealBreach
    <2> QED BY <2>1, SealTells
  <1>8. CASE Egress
    BY <1>8, EnvTells, AcknowledgeTells DEF Egress
  <1>9. CASE BindArtifact
    BY <1>9, BoundIsAdded
  <1>10. CASE Teardown
    BY <1>10, TeardownTells DEF Teardown
  <1> QED BY <1>1, <1>2, <1>3, <1>4, <1>5, <1>6, <1>7, <1>8, <1>9, <1>10
          DEF SubmitTask

(***************************************************************************)
(* The record follows the machine.  Until the handle is live the record    *)
(* shows no edge and the buffer shows them all; from then on they are all  *)
(* in the record, unless the record can no longer be written.              *)
(***************************************************************************)

Buffers ==
    /\ pc \in Early =>
         ~witness /\ Recorded(events) = <<>> /\ Recorded(pending) = edges
    /\ pc \in {"provision", "assemble"} => events = <<>>

LEMMA EarlyOrder ==
  ASSUME Control, SubmitTask
  PROVE  /\ pc' \in Early => pc \in Early
         /\ pc' \in {"provision", "assemble"} => pc = "provision"
  <1> USE DEF Goto, TearDownThen, Returns, Raise, Early
  <1>1. CASE Provision \/ ProvisionFails \/ Assemble \/ AttachWitness
    BY <1>1 DEF Provision, ProvisionFails, Assemble, AttachWitness
  <1>2. CASE Materialize \/ Refused \/ Start \/ WalkStep \/ WalkEnds
    BY <1>2 DEF Materialize, Refused, Start, WalkStep, WalkEnds
  <1>3. CASE SealComplete \/ Egress \/ BindArtifact \/ Completed
    BY <1>3 DEF SealComplete, Egress, BindArtifact, Completed
  <1>4. CASE SealFailed \/ Failed \/ failClosed \/ RecordInvariant
               \/ SealBreach \/ Breached \/ Close
    BY <1>4 DEF SealFailed, Failed, failClosed, RecordInvariant, SealBreach,
       Breached, Close
  <1>5. CASE Teardown
    <2>1. pc = "remove" => after \in Sequels
      BY DEF Control
    <2> QED BY <1>5, <2>1 DEF Teardown, Sequels
  <1> QED BY <1>1, <1>2, <1>3, <1>4, <1>5 DEF SubmitTask

LEMMA ToldKeeps ==
  ASSUME Written, Follows, Buffers, Told, pc' \in Early => pc \in Early,
         pc' \in {"provision", "assemble"} => pc \in {"provision", "assemble"}
  PROVE  Follows' /\ Buffers'
  <1>1. PICK all \in Streams : Tells(all)
    BY PlainStreams DEF Told
  <1>2. /\ Follows'
        /\ ~witness => /\ events' = events
                       /\ Recorded(pending') = Recorded(pending) \o Recorded(all)
    BY <1>1, TellingFollows
  <1>3. witness' = witness /\ edges' = edges \o Recorded(all)
    BY <1>1 DEF Tells
  <1>4. pc' \in {"provision", "assemble"} => pc' \in Early
    BY DEF Early
  <1> QED BY <1>2, <1>3, <1>4 DEF Buffers

LEMMA FollowsKept ==
  ASSUME Inv, Written, Follows, Buffers, SubmitTask \/ Exec
  PROVE  Follows' /\ Buffers'
  <1>1. EnvInv /\ Control
    BY DEF Inv
  <1>2. CASE Exec
    <2>1. Told
      BY <1>1, <1>2, ExecTells DEF Exec
    <2>2. pc' = pc
      BY <1>2 DEF Exec, taskVars
    <2> QED BY <2>1, <2>2, ToldKeeps
  <1>3. CASE SubmitTask /\ Told
    <2>1. /\ pc' \in Early => pc \in Early
          /\ pc' \in {"provision", "assemble"} => pc = "provision"
      BY <1>1, <1>3, EarlyOrder
    <2> QED BY <1>3, <2>1, ToldKeeps
  <1>4. ASSUME NEW e, Adding(e) PROVE Follows' /\ Buffers'
    <2>1. Follows'
      BY <1>4, AddingFollows DEF Adding
    <2> QED BY <1>4, <2>1 DEF Adding, Buffers, Early
  <1>5. CASE pc \in {"provision", "abandon"} /\ AbandonProvision
               /\ pc' = "unprovisioned"
    <2>1. /\ edges' = Append(edges, Edge(state, "TEARDOWN"))
          /\ UNCHANGED <<witness, events, broken, man>> /\ state = "PROVISIONING"
      BY <1>5 DEF AbandonProvision, Move, recordVars
    <2>2. Edge(state, "TEARDOWN") \in Events
      BY <2>1, EdgesAre DEF States
    <2>3. edges' \in Streams /\ IsBeginning(edges, edges')
      BY <2>1, <2>2 DEF Follows, Streams, IsBeginning
    <2>4. RecordFollowsMachine'
      <3>1. IsBeginning(Recorded(events), edges)
        BY DEF Follows, RecordFollowsMachine, IsBeginning
      <3>2. Recorded(events) \in Streams /\ <<Edge(state, "TEARDOWN")>> \in Streams
        BY <2>2, WrittenStreams, RecordedTyped DEF Streams
      <3>3. edges' = edges \o <<Edge(state, "TEARDOWN")>>
        BY <2>1, <2>2 DEF Follows, Streams
      <3>4. IsBeginning(Recorded(events), edges')
        BY <3>1, <3>2, <3>3, BeginsLonger DEF Follows
      <3>5. events' = events
        BY <2>1
      <3> QED BY <3>4, <3>5 DEF RecordFollowsMachine, IsBeginning
    <2>5. ~witness'
      BY <1>5, <2>1 DEF AbandonProvision, Buffers, Early
    <2> QED BY <1>5, <2>3, <2>4, <2>5 DEF Follows, Buffers, Early
  <1>6. CASE AttachWitness
    <2>1. /\ Recorded(events) = <<>> /\ Recorded(pending) = edges
          /\ pc' \notin Early
      BY <1>6 DEF AttachWitness, Buffers, Early, Goto, TearDownThen
    <2>2. PICK ok \in BOOLEAN : Attach(ok)
      BY <1>6 DEF AttachWitness
    <2>3. Follows'
      BY <2>1, <2>2, AttachFollows
    <2> QED BY <2>1, <2>3 DEF Buffers, Early
  <1>7. CASE Assemble
    <2>1. /\ pc = "assemble" /\ UNCHANGED <<witness, pending, edges>>
          /\ events' \in {events, Created} /\ pc' \in {"attach", "teardown"}
      BY <1>7 DEF Assemble, envVars, Goto, TearDownThen
    <2>2. ~witness /\ Recorded(events) = <<>> /\ Recorded(pending) = edges
      BY <2>1 DEF Buffers, Early
    <2>3. Recorded(Created) = <<>>
      <3>1. Decision("CREATED") \in Events /\ ~IsEdge(Decision("CREATED"))
        BY DEF Decision, Event, Events, Classes, Words, Statuses, IsEdge
      <3> QED BY <3>1, RecordedOne DEF Created
    <2>4. Recorded(events') = <<>>
      BY <2>1, <2>2, <2>3
    <2> QED BY <2>1, <2>2, <2>4
            DEF Follows, RecordFollowsMachine, Buffers, Streams
  <1> QED BY <1>1, <1>2, <1>3, <1>4, <1>5, <1>6, <1>7, StepsAre

LEMMA FollowsStarts == Init => Follows /\ Buffers
  <1> SUFFICES ASSUME Init PROVE Follows /\ Buffers
    OBVIOUS
  <1>1. /\ events = <<>> /\ pending = <<>> /\ edges = <<>> /\ ~witness
        /\ pc = "provision"
    BY DEF Init, EnvInit
  <1> QED BY <1>1, RecordedEmpty
          DEF Follows, Buffers, RecordFollowsMachine, Streams

(***************************************************************************)
(* A completion and what precedes it.  The edges are what the state says   *)
(* they are on the one way to ACKNOWLEDGED, and from the binding to the    *)
(* decision SubmitTask leaves that way for the end of the teardown only.   *)
(***************************************************************************)

ToActive       == <<Edge("PROVISIONING", "ACTIVE")>>
ToSealed       == Append(ToActive, Edge("ACTIVE", "SEALED"))
ToEgressing    == Append(ToSealed, Edge("SEALED", "EGRESSING"))
ToAcknowledged == Append(ToEgressing, Edge("EGRESSING", "ACKNOWLEDGED"))
ToTeardown     == Append(ToAcknowledged, Edge("ACKNOWLEDGED", "TEARDOWN"))

OnTheOneWay ==
    /\ state = "PROVISIONING" => edges = <<>>
    /\ state = "ACTIVE" => edges = ToActive
    /\ state = "SEALED" => edges = ToSealed
    /\ state = "EGRESSING" => edges = ToEgressing
    /\ state = "ACKNOWLEDGED" => edges = ToAcknowledged

Holds(evs, e) == \E i \in DOMAIN evs : evs[i] = e

Concluding == after = "completed" /\ pc \in {"teardown", "remove", "completed"}

Concludes ==
    /\ pc \in {"acknowledge", "bind"} => stored
    /\ pc = "bind" => state = "ACKNOWLEDGED" /\ Holds(events, Acknowledgement)
    /\ pc = "completed" => after = "completed"
    /\ Concluding => witness /\ bound /\ Holds(events, Bound)
    /\ Concluding /\ pc = "teardown" => state = "ACKNOWLEDGED"
    /\ Concluding /\ pc = "remove" => state = "TEARDOWN" /\ edges = ToTeardown
    /\ pc = "completed" => state \in Ended /\ edges = WholeMachine(state)

\* What the machine does in one step.
MachineMoves ==
    \/ UNCHANGED <<state, edges>>
    \/ \E to \in States : Move(to)
    \/ state = "ACTIVE" /\ state' = "TEARDOWN"

LEMMA WholeMachineIs ==
  ASSUME NEW end \in Ended
  PROVE  WholeMachine(end) = Append(ToTeardown, Edge("TEARDOWN", end))
  <1> HIDE DEF Edge
  <1> QED BY DEF WholeMachine, ToTeardown, ToAcknowledged, ToEgressing,
              ToSealed, ToActive

LEMMA SealMoves ==
  ASSUME NEW reason, NEW ok, Seal(reason, ok) \/ SealLocked(reason, ok)
  PROVE  UNCHANGED <<state, edges>> \/ (state = "ACTIVE" /\ Move("SEALED"))
  BY DEF Seal, SealLocked

LEMMA ExecMovesMachine ==
  ASSUME NEW c \in Callers, ExecGit(c)
  PROVE  /\ UNCHANGED <<state, edges>> \/ (state = "ACTIVE" /\ Move("SEALED"))
         /\ UNCHANGED <<stored, witness>>
  <1>1. CASE ExecAdmitted(c) \/ ExecStart(c) \/ ExecProcessEnds(c)
               \/ ExecRecord(c)
    BY <1>1 DEF ExecAdmitted, ExecStart, ExecProcessEnds, ExecRecord, envVars
  <1>2. CASE ExecSpent(c)
    BY <1>2, SealMoves DEF ExecSpent
  <1>3. CASE ExecLeave(c)
    BY <1>3, SealMoves DEF ExecLeave
  <1> QED BY <1>1, <1>2, <1>3 DEF ExecGit

LEMMA TeardownMoves ==
  ASSUME TeardownBegin \/ TeardownEnd
  PROVE  /\ MachineMoves
         /\ UNCHANGED <<witness, stored>>
  <1>1. CASE TeardownBegin
    BY <1>1 DEF TeardownBegin, MachineMoves, States
  <1>2. CASE TeardownEnd
    BY <1>2 DEF TeardownEnd, MachineMoves, States
  <1> QED BY <1>1, <1>2

LEMMA EnvMoves ==
  ASSUME NEW ok \in BOOLEAN,
         \/ ProvisionDirectories \/ ProvisionGit(ok) \/ Activate
         \/ AbandonProvision \/ BeginEgress(ok) \/ EgressGit(ok)
         \/ RefuseEgress \/ Put \/ Acknowledge(ok)
  PROVE  MachineMoves /\ (stored => stored')
  <1>1. \A to \in {"ACTIVE", "TEARDOWN", "EGRESSING", "ACKNOWLEDGED"} :
          Move(to) => MachineMoves
    BY DEF MachineMoves, States
  <1>2. CASE ProvisionDirectories \/ ProvisionGit(ok) \/ EgressGit(ok)
               \/ RefuseEgress \/ Put
    <2>1. UNCHANGED <<state, edges>>
      BY <1>2 DEF ProvisionDirectories, ProvisionGit, EgressGit, RefuseEgress,
         Put
    <2>2. stored' = stored \/ stored'
      BY <1>2 DEF ProvisionDirectories, ProvisionGit, EgressGit, RefuseEgress,
         Put
    <2> QED BY <2>1, <2>2 DEF MachineMoves
  <1>3. CASE Activate \/ AbandonProvision
    <2>1. Move("ACTIVE") \/ Move("TEARDOWN")
      BY <1>3 DEF Activate, AbandonProvision
    <2>2. stored' = stored
      BY <1>3 DEF Activate, AbandonProvision
    <2> QED BY <1>1, <2>1, <2>2
  <1>4. CASE BeginEgress(ok)
    <2>1. Move("EGRESSING") \/ UNCHANGED <<state, edges>>
      BY <1>4 DEF BeginEgress
    <2>2. stored' = stored
      BY <1>4 DEF BeginEgress
    <2> QED BY <1>1, <2>1, <2>2 DEF MachineMoves
  <1>5. CASE Acknowledge(ok)
    <2>1. Move("ACKNOWLEDGED") \/ UNCHANGED <<state, edges>>
      BY <1>5 DEF Acknowledge
    <2>2. stored' = stored
      BY <1>5 DEF Acknowledge
    <2> QED BY <1>1, <2>1, <2>2 DEF MachineMoves
  <1> QED BY <1>2, <1>3, <1>4, <1>5

LEMMA SubmitMoves ==
  ASSUME SubmitTask
  PROVE  MachineMoves /\ (stored => stored') /\ (bound => bound')
  <1> USE DEF Goto, TearDownThen, Returns, Raise
  <1>1. bound => bound'
    BY DEF SubmitTask, Provision, ProvisionFails, Assemble,
       AttachWitness, Materialize, Refused, Start, WalkStep, WalkEnds,
       SealComplete, Egress, BindArtifact, Completed, SealFailed, Failed,
       failClosed, RecordInvariant, SealBreach, Breached, Teardown, Close
  <1> SUFFICES MachineMoves /\ (stored => stored')
    BY <1>1
  <1>2. ASSUME UNCHANGED envVars PROVE MachineMoves /\ (stored => stored')
    BY <1>2 DEF envVars, MachineMoves
  <1>3. CASE Provision \/ ProvisionFails
    <2>1. CASE TeardownEnd
      BY <2>1, TeardownMoves
    <2>2. CASE ~TeardownEnd
      BY <1>3, <2>2, EnvMoves DEF Provision, ProvisionFails
    <2> QED BY <2>1, <2>2
  <1>4. CASE Assemble \/ Materialize \/ Refused \/ Start \/ WalkStep \/ WalkEnds
    BY <1>2, <1>4 DEF Assemble, Materialize, Refused, Start, WalkStep, WalkEnds
  <1>5. CASE BindArtifact \/ Completed \/ Failed \/ failClosed
               \/ RecordInvariant \/ Breached \/ Close
    BY <1>2, <1>5 DEF BindArtifact, Completed, Failed, failClosed,
       RecordInvariant, Breached, Close
  <1>6. CASE AttachWitness
    BY <1>6 DEF AttachWitness, Attach, MachineMoves
  <1>7. CASE SealComplete \/ SealFailed \/ SealBreach
    <2>1. PICK reason \in {"task-complete", "fatal-breach", Sealing[pc]} :
            \E ok \in BOOLEAN : Seal(reason, ok)
      BY <1>7 DEF SealComplete, SealFailed, SealBreach
    <2>2. stored' = stored
      BY <2>1 DEF Seal
    <2> QED BY <2>1, <2>2, SealMoves DEF MachineMoves, States
  <1>8. CASE Egress
    BY <1>8, EnvMoves DEF Egress
  <1>9. CASE Teardown
    BY <1>9, TeardownMoves DEF Teardown
  <1> QED BY <1>3, <1>4, <1>5, <1>6, <1>7, <1>8, <1>9 DEF SubmitTask

LEMMA OneWayKept ==
  ASSUME state \in States, OnTheOneWay, MachineMoves
  PROVE  OnTheOneWay'
  <1>1. CASE UNCHANGED <<state, edges>>
    BY <1>1 DEF OnTheOneWay
  <1>2. ASSUME NEW to \in States, Move(to) PROVE OnTheOneWay'
    <2>1. state' = to /\ edges' = Append(edges, Edge(state, to))
      BY <1>2 DEF Move
    <2>2. /\ to # "PROVISIONING" /\ (to = "ACTIVE" => state = "PROVISIONING")
          /\ to = "SEALED" => state = "ACTIVE"
          /\ to = "EGRESSING" => state = "SEALED"
          /\ to = "ACKNOWLEDGED" => state = "EGRESSING"
      BY <1>2 DEF Move, legalNext, States
    <2>3. to = "ACTIVE" => edges' = ToActive
      <3>1. Append(<<>>, Edge("PROVISIONING", "ACTIVE")) = ToActive
        BY DEF ToActive
      <3> QED BY <2>1, <2>2, <3>1 DEF OnTheOneWay
    <2>4. to = "SEALED" => edges' = ToSealed
      BY <2>1, <2>2 DEF OnTheOneWay, ToSealed
    <2>5. to = "EGRESSING" => edges' = ToEgressing
      BY <2>1, <2>2 DEF OnTheOneWay, ToEgressing
    <2>6. to = "ACKNOWLEDGED" => edges' = ToAcknowledged
      BY <2>1, <2>2 DEF OnTheOneWay, ToAcknowledged
    <2> QED BY <2>1, <2>2, <2>3, <2>4, <2>5, <2>6 DEF OnTheOneWay
  <1>3. CASE state' = "TEARDOWN"
    BY <1>3 DEF OnTheOneWay
  <1> QED BY <1>1, <1>2, <1>3 DEF MachineMoves

Completes == CompletedShowsWholeMachine /\ CompletedIsProduced

\* The environment binds nothing and decides nothing.
Grows == \E more \in Seq(Plain) : events' = events \o more

LEMMA PlainIsPlain ==
  ASSUME NEW e \in Plain
  PROVE  e # Bound /\ e # Decision("COMPLETED")
  <1>1. /\ Bound.class = "artifact-bound"
        /\ Decision("COMPLETED").class = "lifecycle"
    BY DEF Bound, Decision, Event
  <1>2. CASE e \in Notes
    BY <1>1, <1>2 DEF Notes, Remarks
  <1>3. CASE e \in MachineEdges
    <2>1. e.class = "l5-transition"
      BY <1>3 DEF MachineEdges, Edge, Event
    <2> QED BY <1>1, <2>1
  <1> QED BY <1>2, <1>3 DEF Plain

LEMMA ToldGrows ==
  ASSUME Written, pending \in Seq(Plain), Told
  PROVE  Grows /\ pending' \in Seq(Plain) /\ witness' = witness
  <1>1. PICK all \in Seq(Plain) : Tells(all)
    BY DEF Told
  <1>2. witness' = witness /\ pending' \in {pending, pending \o all}
    BY <1>1 DEF Tells
  <1>3. pending' \in Seq(Plain)
    BY <1>2, ConcatProperties
  <1>4. CASE events' = events
    <2>1. <<>> \in Seq(Plain) /\ events = events \o <<>>
      BY WrittenStreams DEF Streams
    <2> QED BY <1>2, <1>3, <1>4, <2>1 DEF Grows
  <1>5. CASE events' = events \o all
    BY <1>2, <1>3, <1>5 DEF Grows
  <1>6. ASSUME NEW i \in 0 .. Len(all), events' = events \o SubSeq(all, 1, i)
        PROVE  Grows
    <2>1. SubSeq(all, 1, i) \in Seq(Plain)
      BY <1>6
    <2> QED BY <1>6, <2>1 DEF Grows
  <1> QED BY <1>1, <1>2, <1>3, <1>4, <1>5, <1>6 DEF Tells

LEMMA AttachGrows ==
  ASSUME Written, pending \in Seq(Plain), NEW ok, Attach(ok)
  PROVE  Grows /\ pending' \in Seq(Plain)
  <1>1. <<>> \in Seq(Plain) /\ events = events \o <<>>
    BY WrittenStreams DEF Streams
  <1>2. pending' \in {pending, <<>>}
    BY DEF Attach
  <1>3. CASE events' = events
    BY <1>1, <1>2, <1>3 DEF Grows
  <1>4. CASE events' = events \o pending
    BY <1>1, <1>2, <1>4 DEF Grows
  <1>5. ASSUME NEW i \in 0 .. Len(pending),
               events' = events \o SubSeq(pending, 1, i)
        PROVE  Grows
    <2>1. SubSeq(pending, 1, i) \in Seq(Plain)
      BY <1>5
    <2> QED BY <1>5, <2>1 DEF Grows
  <1> QED BY <1>1, <1>2, <1>3, <1>4, <1>5 DEF Attach, Refuses

\* What a stream held it still holds when more is appended.
LEMMA FrontKept ==
  ASSUME NEW s \in Streams, NEW t \in Streams
  PROVE  /\ s \o t \in Streams /\ Len(s \o t) = Len(s) + Len(t)
         /\ \A k \in DOMAIN s : (s \o t)[k] = s[k]
         /\ \A k \in DOMAIN (s \o t) :
              k \notin DOMAIN s => \E j \in DOMAIN t : (s \o t)[k] = t[j]
         /\ \A n \in 0 .. Len(s) : SubSeq(s \o t, 1, n) = SubSeq(s, 1, n)
  <1>1. /\ s \o t \in Streams /\ Len(s \o t) = Len(s) + Len(t)
        /\ \A k \in DOMAIN s : (s \o t)[k] = s[k]
    BY DEF Streams
  <1>2. ASSUME NEW k \in DOMAIN (s \o t), k \notin DOMAIN s
        PROVE  \E j \in DOMAIN t : (s \o t)[k] = t[j]
    <2>1. k - Len(s) \in DOMAIN t /\ (s \o t)[k] = t[k - Len(s)]
      BY <1>2 DEF Streams
    <2> QED BY <2>1
  <1>3. ASSUME NEW n \in 0 .. Len(s)
        PROVE  SubSeq(s \o t, 1, n) = SubSeq(s, 1, n)
    <2> DEFINE u == s \o t
               a == SubSeq(u, 1, n)
               b == SubSeq(s, 1, n)
    <2>1. u \in Seq(Events) /\ Len(u) >= Len(s) /\ \A k \in 1 .. Len(s) : u[k] = s[k]
      BY <1>1 DEF Streams
    <2> HIDE DEF u
    <2>2. /\ a \in Seq(Events) /\ Len(a) = n /\ \A k \in 1 .. n : a[k] = u[k]
          /\ b \in Seq(Events) /\ Len(b) = n /\ \A k \in 1 .. n : b[k] = s[k]
      BY <2>1 DEF Streams
    <2> HIDE DEF a, b
    <2>3. \A k \in 1 .. n : a[k] = b[k]
      <3>1. \A k \in 1 .. n : k \in 1 .. Len(s)
        BY DEF Streams
      <3> QED BY <2>1, <2>2, <3>1
    <2>4. a = b
      BY <2>2, <2>3, SeqEqual
    <2> QED BY <2>4 DEF a, b, u
  <1> QED BY <1>1, <1>2, <1>3

\* What an event says of itself, with the artifact stored and bound or not.
SaidBefore(evs, k, isStored, isBound) ==
    /\ evs[k] = Decision("COMPLETED") =>
         \E end \in Ended : Recorded(SubSeq(evs, 1, k - 1)) = WholeMachine(end)
    /\ evs[k] = Bound =>
         isStored /\ \E i \in 1 .. k - 1 : evs[i] = Acknowledgement
    /\ evs[k] = Decision("COMPLETED") =>
         isBound /\ \E j \in 1 .. k - 1 : evs[j] = Bound

Said(evs, isStored, isBound) ==
    \A k \in DOMAIN evs : SaidBefore(evs, k, isStored, isBound)

LEMMA CompletesIs ==
  /\ Completes <=> Said(events, stored, bound)
  /\ Completes' <=> Said(events', stored', bound')
  BY DEF Completes, CompletedShowsWholeMachine, CompletedIsProduced, SaidBefore,
     Said

LEMMA FrontSaid ==
  ASSUME NEW s \in Streams, NEW t \in Streams, NEW k \in DOMAIN s,
         NEW st, NEW st2, NEW bd, NEW bd2,
         SaidBefore(s, k, st, bd), st => st2, bd => bd2
  PROVE  SaidBefore(s \o t, k, st2, bd2)
  <1>1. k - 1 \in 0 .. Len(s) /\ \A i \in 1 .. k - 1 : i \in DOMAIN s
    BY DEF Streams
  <1>2. (s \o t)[k] = s[k] /\ \A i \in 1 .. k - 1 : (s \o t)[i] = s[i]
    BY <1>1, FrontKept
  <1>3. SubSeq(s \o t, 1, k - 1) = SubSeq(s, 1, k - 1)
    BY <1>1, FrontKept
  <1> QED BY <1>2, <1>3 DEF SaidBefore

\* What was said of a completion stays said, whatever is appended that says
\* nothing of one.
LEMMA GrowthSaid ==
  ASSUME NEW s \in Streams, NEW t \in Seq(Plain),
         NEW st, NEW st2, NEW bd, NEW bd2,
         Said(s, st, bd), st => st2, bd => bd2
  PROVE  /\ Said(s \o t, st2, bd2)
         /\ \A e : Holds(s, e) => Holds(s \o t, e)
  <1>1. t \in Streams
    BY PlainStreams
  <1>2. DOMAIN s \subseteq DOMAIN (s \o t)
    BY <1>1, FrontKept DEF Streams
  <1>3. ASSUME NEW e, Holds(s, e) PROVE Holds(s \o t, e)
    BY <1>1, <1>2, <1>3, FrontKept DEF Holds
  <1>4. ASSUME NEW k \in DOMAIN (s \o t) PROVE SaidBefore(s \o t, k, st2, bd2)
    <2>1. CASE k \in DOMAIN s
      <3>1. SaidBefore(s, k, st, bd)
        BY <2>1 DEF Said
      <3> QED BY <1>1, <2>1, <3>1, FrontSaid
    <2>2. CASE k \notin DOMAIN s
      <3>1. \E j \in DOMAIN t : (s \o t)[k] = t[j]
        BY <1>1, <2>2, FrontKept
      <3>2. (s \o t)[k] \in Plain
        BY <3>1
      <3> QED BY <3>2, PlainIsPlain DEF SaidBefore
    <2> QED BY <2>1, <2>2
  <1> QED BY <1>3, <1>4 DEF Said

LEMMA GrowingCompletes ==
  ASSUME Written, Completes, Grows, stored => stored', bound => bound'
  PROVE  /\ Completes'
         /\ \A e : Holds(events, e) => Holds(events', e)
  <1>1. PICK more \in Seq(Plain) : events' = events \o more
    BY DEF Grows
  <1>2. events \in Streams /\ Said(events, stored, bound)
    BY WrittenStreams, CompletesIs
  <1>3. /\ Said(events \o more, stored', bound')
        /\ \A e : Holds(events, e) => Holds(events \o more, e)
    BY <1>1, <1>2, GrowthSaid
  <1>4. Said(events', stored', bound')
    BY <1>1, <1>3
  <1>5. Completes'
    BY <1>4, CompletesIs
  <1> QED BY <1>1, <1>3, <1>5

\* SubmitTask's own append: a binding after the acknowledgement, a completion
\* after the binding and with the whole machine in the record.
LEMMA AddingCompletes ==
  ASSUME Written, Follows, Completes, Concludes, NEW e, Adding(e),
         stored => stored', bound => bound'
  PROVE  /\ Completes'
         /\ \A f : Holds(events, f) => Holds(events', f)
  <1>1. events \in Streams /\ e \in Events
    BY WrittenStreams DEF Adding
  <1>2. Said(events, stored, bound)
    BY CompletesIs
  <1>3. CASE events' = events
    <2>1. Said(events', stored', bound')
      BY <1>2, <1>3 DEF Said, SaidBefore
    <2> QED BY <1>3, <2>1, CompletesIs
  <1>4. CASE events' # events
    <2>1. CanAppend /\ events' = Append(events, e)
      BY <1>4 DEF Adding, Adds
    <2> DEFINE n == Len(events)
               one == <<e>>
    <2>2. /\ events' = events \o one /\ one \in Streams
          /\ events' \in Streams /\ Len(events') = n + 1 /\ n \in Nat
          /\ events'[n + 1] = e /\ DOMAIN events = 1 .. n
          /\ DOMAIN events' = 1 .. n + 1
      BY <1>1, <2>1 DEF Streams
    <2> HIDE DEF one
    <2>3. SubSeq(events', 1, n) = events
      <3>1. n \in 0 .. n
        BY <2>2
      <3>2. SubSeq(events \o one, 1, n) = SubSeq(events, 1, n)
        BY <1>1, <2>2, <3>1, FrontKept
      <3>3. SubSeq(events, 1, n) = events
        BY <1>1, SubSeqFull DEF Streams
      <3> QED BY <2>2, <3>2, <3>3
    <2>4. \A k \in 1 .. n : events'[k] = events[k]
      BY <1>1, <2>2, FrontKept
    <2>5. ASSUME NEW f, Holds(events, f)
          PROVE  Holds(events', f) /\ \E i \in 1 .. n : events'[i] = f
      <3>1. PICK i \in 1 .. n : events[i] = f
        BY <2>2, <2>5 DEF Holds
      <3>2. events'[i] = f /\ i \in DOMAIN events'
        BY <2>2, <2>4, <3>1
      <3> QED BY <3>1, <3>2 DEF Holds
    <2>6. ASSUME NEW k \in DOMAIN events'
          PROVE  SaidBefore(events', k, stored', bound')
      <3>1. CASE k # n + 1
        <4>1. k \in DOMAIN events
          BY <2>2, <3>1
        <4>2. SaidBefore(events, k, stored, bound)
          BY <1>2, <4>1 DEF Said
        <4>3. SaidBefore(events \o one, k, stored', bound')
          BY <1>1, <2>2, <4>1, <4>2, FrontSaid
        <4> QED BY <2>2, <4>3
      <3>2. CASE k = n + 1
        <4>1. events'[k] = e /\ k - 1 = n
          BY <2>2, <3>2
        <4>2. e = Bound => stored /\ \E i \in 1 .. n : events'[i] = Acknowledgement
          BY <2>5 DEF Adding, Concludes
        <4>3. ASSUME e = Decision("COMPLETED")
              PROVE  /\ bound /\ \E i \in 1 .. n : events'[i] = Bound
                     /\ \E end \in Ended : Recorded(events) = WholeMachine(end)
          <5>1. pc = "completed" /\ Concluding
            BY <4>3 DEF Adding, Concludes, Concluding
          <5>2. /\ witness /\ bound /\ Holds(events, Bound)
                /\ state \in Ended /\ edges = WholeMachine(state)
            BY <5>1 DEF Concludes
          <5>3. Recorded(events) = WholeMachine(state)
            BY <2>1, <5>2 DEF Follows
          <5> QED BY <2>5, <5>2, <5>3
        <4> QED BY <2>3, <4>1, <4>2, <4>3 DEF SaidBefore
      <3> QED BY <3>1, <3>2
    <2>7. Completes'
      BY <2>6, CompletesIs DEF Said
    <2> QED BY <2>5, <2>7
  <1> QED BY <1>3, <1>4

\* The parts of the record's story, along every step.
LEMMA CompletesKept ==
  ASSUME Inv, Written, Follows, Buffers, Completes, Concludes,
         pending \in Seq(Plain), SubmitTask \/ Exec
  PROVE  /\ Completes' /\ pending' \in Seq(Plain)
         /\ pc # "assemble" => \A f : Holds(events, f) => Holds(events', f)
  <1>1. (stored => stored') /\ (bound => bound')
    <2>1. CASE SubmitTask
      BY <2>1, SubmitMoves
    <2>2. CASE Exec
      BY <2>2, ExecMovesMachine DEF Exec, taskVars
    <2> QED BY <2>1, <2>2
  <1>2. CASE Told
    BY <1>1, <1>2, ToldGrows, GrowingCompletes
  <1>3. ASSUME NEW e, Adding(e)
        PROVE  /\ Completes' /\ pending' \in Seq(Plain)
               /\ \A f : Holds(events, f) => Holds(events', f)
    BY <1>1, <1>3, AddingCompletes DEF Adding, Adds, envVars
  <1>4. CASE AbandonProvision
    <2>1. UNCHANGED <<events, pending>>
      BY <1>4 DEF AbandonProvision, recordVars
    <2>2. <<>> \in Seq(Plain) /\ events \o <<>> = events
      BY WrittenStreams DEF Streams
    <2>3. Grows
      BY <2>1, <2>2 DEF Grows
    <2> QED BY <1>1, <2>1, <2>3, GrowingCompletes
  <1>5. CASE AttachWitness
    <2>1. Grows /\ pending' \in Seq(Plain)
      BY <1>5, AttachGrows DEF AttachWitness
    <2> QED BY <1>1, <2>1, GrowingCompletes
  <1>6. CASE Assemble
    <2>1. /\ events' = <<>> \/ events' = <<Decision("CREATED")>>
          /\ pc = "assemble" /\ pending' = pending
      BY <1>6 DEF Assemble, Created, Buffers, envVars
    <2>2. Decision("CREATED") # Decision("COMPLETED") /\ Decision("CREATED") # Bound
      <3>1. /\ Decision("CREATED").to = "CREATED"
            /\ Decision("COMPLETED").to = "COMPLETED"
            /\ Decision("CREATED").class = "lifecycle"
            /\ Bound.class = "artifact-bound"
        BY DEF Decision, Bound, Event
      <3> QED BY <3>1
    <2>3. Said(events', stored', bound')
      BY <2>1, <2>2 DEF Said, SaidBefore
    <2> QED BY <2>1, <2>3, CompletesIs
  <1>7. CASE Exec
    <2>1. Told
      BY <1>7, ExecTells DEF Exec, Inv
    <2> QED BY <1>2, <2>1
  <1>8. CASE SubmitTask
    BY <1>2, <1>3, <1>4, <1>5, <1>6, <1>8, StepsAre DEF Inv
  <1> QED BY <1>7, <1>8

\* Elsewhere nothing is concluded.
LEMMA ElsewhereConcludes ==
  ASSUME pc' \notin {"acknowledge", "bind", "completed"},
         pc' \in {"teardown", "remove"} => after' # "completed"
  PROVE  Concludes'
  BY DEF Concludes, Concluding

LEMMA ExecConcludes ==
  ASSUME Concludes, NEW c \in Callers, ExecGit(c), UNCHANGED taskVars,
         \A f : Holds(events, f) => Holds(events', f)
  PROVE  Concludes'
  <1>1. /\ UNCHANGED <<state, edges>> \/ (state = "ACTIVE" /\ state' = "SEALED")
        /\ UNCHANGED <<stored, witness, pc, after, bound>>
    BY ExecMovesMachine DEF taskVars, Move
  <1>2. state = "ACTIVE" => pc \notin {"bind", "completed"} /\ ~Concluding
    BY DEF Concludes, Concluding, Ended
  <1>3. CASE UNCHANGED <<state, edges>>
    BY <1>1, <1>3 DEF Concludes, Concluding
  <1>4. CASE state = "ACTIVE"
    BY <1>1, <1>2, <1>4 DEF Concludes, Concluding
  <1> QED BY <1>1, <1>3, <1>4

LEMMA EgressConcludes ==
  ASSUME Written, Concludes, Egress,
         \A f : Holds(events, f) => Holds(events', f)
  PROVE  Concludes'
  <1> USE DEF Goto, TearDownThen
  <1>1. CASE pc' \notin {"acknowledge", "bind"}
    <2>1. pc' # "completed" /\ (pc' \in {"teardown", "remove"} => after' # "completed")
      BY <1>1 DEF Egress
    <2> QED BY <1>1, <2>1, ElsewhereConcludes
  <1>2. CASE pc' = "acknowledge"
    <2>1. stored'
      BY <1>2 DEF Egress, Put
    <2> QED BY <1>2, <2>1 DEF Concludes, Concluding
  <1>3. CASE pc' = "bind"
    <2>1. pc = "acknowledge" /\ Acknowledge(TRUE)
      BY <1>3 DEF Egress
    <2>2. /\ Move("ACKNOWLEDGED") /\ stored' = stored
          /\ events' = Append(Append(events, Acknowledgement),
                              Edge(state, "ACKNOWLEDGED"))
      BY <2>1 DEF Acknowledge
    <2>3. Holds(events', Acknowledgement)
      <3> DEFINE a == Acknowledgement
                 e == Edge(state, "ACKNOWLEDGED")
      <3>1. events' = Append(Append(events, a), e) /\ events \in Seq(Events)
        BY <2>2 DEF Written
      <3> HIDE DEF a, e
      <3>2. /\ Len(events) + 1 \in DOMAIN events'
            /\ events'[Len(events) + 1] = a
        BY <3>1
      <3> QED BY <3>2 DEF Holds, a
    <2> QED BY <1>3, <2>1, <2>2, <2>3 DEF Concludes, Concluding, Move
  <1> QED BY <1>1, <1>2, <1>3

LEMMA BindConcludes ==
  ASSUME EnvInv, Written, Concludes, BindArtifact
  PROVE  Concludes'
  <1> USE DEF TearDownThen
  <1>1. pc = "bind" /\ pc' = "teardown" /\ UNCHANGED <<state, witness>>
    BY DEF BindArtifact, envVars
  <1>2. CASE after' # "completed"
    BY <1>1, <1>2, ElsewhereConcludes
  <1>3. CASE after' = "completed"
    <2>1. events' = Append(events, Bound) /\ bound'
      BY <1>3 DEF BindArtifact, Commits
    <2>2. Len(events) + 1 \in DOMAIN events' /\ events'[Len(events) + 1] = Bound
      BY <2>1 DEF Written
    <2>3. Holds(events', Bound)
      BY <2>2 DEF Holds
    <2>4. state' = "ACKNOWLEDGED" /\ witness'
      BY <1>1 DEF Concludes, EnvInv, Stable
    <2> QED BY <1>1, <2>1, <2>3, <2>4 DEF Concludes, Concluding
  <1> QED BY <1>2, <1>3

LEMMA TeardownConcludes ==
  ASSUME Control, Concludes, OnTheOneWay, Teardown,
         \A f : Holds(events, f) => Holds(events', f)
  PROVE  Concludes'
  <1> USE DEF Goto
  <1>1. UNCHANGED <<after, bound, witness>>
    BY DEF Teardown, TeardownBegin, TeardownEnd
  <1>2. CASE after # "completed"
    <2>1. pc' = "remove" \/ pc' \in Sequels \ {"completed"}
      BY <1>2 DEF Teardown, Control
    <2> QED BY <1>1, <1>2, <2>1, ElsewhereConcludes DEF Sequels
  <1>3. CASE after = "completed" /\ pc = "teardown"
    <2>1. pc' = "remove" /\ TeardownBegin
      BY <1>3 DEF Teardown
    <2>2. state = "ACKNOWLEDGED" /\ witness /\ bound /\ Holds(events, Bound)
      BY <1>3 DEF Concludes, Concluding
    <2>3. Move("TEARDOWN")
      BY <2>1, <2>2 DEF TeardownBegin, Ended
    <2>4. state' = "TEARDOWN" /\ edges' = ToTeardown
      BY <2>2, <2>3 DEF Move, OnTheOneWay, ToTeardown
    <2> QED BY <1>1, <1>3, <2>1, <2>2, <2>4 DEF Concludes, Concluding
  <1>4. CASE after = "completed" /\ pc = "remove"
    <2>1. pc' = "completed" /\ TeardownEnd
      BY <1>4 DEF Teardown
    <2>2. /\ state = "TEARDOWN" /\ edges = ToTeardown
          /\ witness /\ bound /\ Holds(events, Bound)
      BY <1>4 DEF Concludes, Concluding
    <2>3. PICK end \in Ended : Move(end)
      BY <2>1, <2>2 DEF TeardownEnd, Ended
    <2>4. state' = end /\ edges' = WholeMachine(end)
      BY <2>2, <2>3, WholeMachineIs DEF Move
    <2> QED BY <1>1, <1>4, <2>1, <2>2, <2>4 DEF Concludes, Concluding
  <1> QED BY <1>2, <1>3, <1>4 DEF Teardown

LEMMA ConcludesKept ==
  ASSUME Inv, Written, Follows, Buffers, Completes, Concludes, OnTheOneWay,
         pending \in Seq(Plain), SubmitTask \/ Exec
  PROVE  Concludes'
  <1> USE DEF Goto, TearDownThen, Returns, Raise
  <1>1. pc # "assemble" => \A f : Holds(events, f) => Holds(events', f)
    BY CompletesKept
  <1>2. CASE Exec
    <2>1. CASE pc = "assemble"
      BY <1>2, <2>1, ElsewhereConcludes DEF Exec, taskVars
    <2>2. CASE pc # "assemble"
      BY <1>1, <1>2, <2>2, ExecConcludes DEF Exec
    <2> QED BY <2>1, <2>2
  <1>3. CASE Egress
    BY <1>1, <1>3, EgressConcludes DEF Egress
  <1>4. CASE BindArtifact
    BY <1>4, BindConcludes DEF Inv
  <1>5. CASE Teardown
    BY <1>1, <1>5, TeardownConcludes DEF Teardown, Inv
  <1>6. CASE Provision \/ ProvisionFails \/ Assemble \/ AttachWitness
               \/ Materialize \/ Refused \/ Start \/ WalkStep \/ WalkEnds
    <2>1. /\ pc' \notin {"acknowledge", "bind", "completed"}
          /\ pc' \in {"teardown", "remove"} => after' # "completed"
      BY <1>6 DEF Provision, ProvisionFails, Assemble, AttachWitness,
         Materialize, Refused, Start, WalkStep, WalkEnds
    <2> QED BY <2>1, ElsewhereConcludes
  <1>7. CASE SealComplete \/ SealFailed \/ Completed \/ Failed \/ failClosed
               \/ RecordInvariant \/ SealBreach \/ Breached \/ Close
    <2>1. /\ pc' \notin {"acknowledge", "bind", "completed"}
          /\ pc' \in {"teardown", "remove"} => after' # "completed"
      BY <1>7 DEF SealComplete, SealFailed, Completed, Failed, failClosed,
         RecordInvariant, SealBreach, Breached, Close
    <2> QED BY <2>1, ElsewhereConcludes
  <1> QED BY <1>2, <1>3, <1>4, <1>5, <1>6, <1>7 DEF SubmitTask

-----------------------------------------------------------------------------
ShowInv ==
    /\ Follows /\ Buffers /\ Completes /\ Concludes /\ OnTheOneWay
    /\ pending \in Seq(Plain)

LEMMA ShowStarts == Init => ShowInv
  <1> SUFFICES ASSUME Init PROVE ShowInv
    OBVIOUS
  <1>1. /\ events = <<>> /\ pending = <<>> /\ edges = <<>>
        /\ pc = "provision" /\ after = "" /\ state = "PROVISIONING"
    BY DEF Init, EnvInit
  <1>2. Completes
    <2>1. \A k \in DOMAIN events : FALSE
      <3>1. <<>> \in Seq(Events) /\ Len(<<>>) = 0
        OBVIOUS
      <3>2. events \in Seq(Events) /\ Len(events) = 0
        BY <1>1, <3>1, Zenon
      <3> QED BY <3>2
    <2> QED BY <2>1 DEF Completes, CompletedShowsWholeMachine,
            CompletedIsProduced
  <1>3. Concludes /\ OnTheOneWay
    BY <1>1 DEF Concludes, Concluding, OnTheOneWay
  <1>4. pending \in Seq(Plain)
    <2>1. <<>> \in Seq(Plain)
      OBVIOUS
    <2> QED BY <1>1, <2>1, Zenon
  <1> QED BY <1>2, <1>3, <1>4, FollowsStarts DEF ShowInv

LEMMA ShowKept == Inv /\ Written /\ ShowInv /\ [Next]_vars => ShowInv'
  <1> SUFFICES ASSUME Inv, Written, ShowInv, [Next]_vars PROVE ShowInv'
    OBVIOUS
  <1>1. CASE Next
    <2>1. SubmitTask \/ Exec
      BY <1>1 DEF Next
    <2>2. Follows' /\ Buffers'
      BY <2>1, FollowsKept DEF ShowInv
    <2>3. Completes' /\ pending' \in Seq(Plain)
      BY <2>1, CompletesKept DEF ShowInv
    <2>4. Concludes'
      BY <2>1, ConcludesKept DEF ShowInv
    <2>5. MachineMoves
      <3>1. CASE SubmitTask
        BY <3>1, SubmitMoves
      <3>2. CASE Exec
        BY <3>2, ExecMovesMachine DEF Exec, MachineMoves, States
      <3> QED BY <2>1, <3>1, <3>2
    <2>6. OnTheOneWay'
      BY <2>5, OneWayKept DEF ShowInv, Inv, EnvInv, EnvTyped
    <2> QED BY <2>2, <2>3, <2>4, <2>6 DEF ShowInv
  <1>2. CASE UNCHANGED vars
    <2>1. UNCHANGED <<state, witness, pending, edges, stored, events, broken,
                      man, pc, after, bound>>
      BY <1>2 DEF vars, envVars, recordVars, taskVars
    <2>2. Follows' /\ Buffers' /\ OnTheOneWay' /\ pending' \in Seq(Plain)
      BY <2>1 DEF ShowInv, Follows, RecordFollowsMachine, CanAppend, Buffers,
         OnTheOneWay
    <2>3. Completes' /\ Concludes'
      BY <2>1 DEF ShowInv, Completes, CompletedShowsWholeMachine,
         CompletedIsProduced, Concludes, Concluding, Holds
    <2> QED BY <2>2, <2>3 DEF ShowInv
  <1> QED BY <1>1, <1>2

\* Whenever it is read, and whatever was buffered, refused or torn, the record
\* of a task shows the edges the environment took, in their order and with none
\* left out; a completion follows the whole machine, the acknowledged egress
\* and the binding of what it produced (Attach, emitLocked, Acknowledge,
\* BindArtifact, complete).
THEOREM RecordAlwaysShowsMachine == Spec => []RecordShowsMachine
  <1>1. Spec => [](Inv /\ Written /\ Story /\ ShowInv)
    BY StoryStarts, StoryKept, ShowStarts, ShowKept, Invariance, PTL DEF Spec
  <1>2. ShowInv => RecordShowsMachine
    BY DEF ShowInv, Follows, Completes, RecordShowsMachine
  <1> QED BY <1>1, <1>2, PTL

=============================================================================
