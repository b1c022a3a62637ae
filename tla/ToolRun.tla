------------------------------ MODULE ToolRun ------------------------------
(***************************************************************************)
(* L4's per-call pipeline as L7's loop drives it (src/harness/tools/       *)
(* execute.go and mutate.go, orchestration/loop.go): authorize, execute    *)
(* under the registry's timeout, audit, count.  An executor is a goroutine *)
(* (a job) that goes on after its call was answered with a timeout; every  *)
(* job works on the same workspace, one disk operation a step.             *)
(***************************************************************************)
EXTENDS Authorization, SequencesExt

CONSTANTS
    Files,       \* the paths calls name
    Creatable,   \* those CreatePath accepts: no link, not .git*, a parent
    Contents,    \* the contents of files
    Workspaces,  \* the workspaces a walk may begin with
    Registry,    \* the tool registry
    Grant,       \* the task's grant
    Phases,      \* the capabilities of each phase of the workflow
    Calls,       \* what the model may ask for: a call and its operations
    MaxCalls,    \* bound: the calls of a walk
    MaxFaults    \* bound: the disk operations that fail

Absent == "absent"
Torn   == "torn"      \* what a write that failed half-way leaves

ASSUME ToolAssumption ==
    /\ LoadRegistry(Registry) /\ LoadGrant(Grant)
    /\ DOMAIN Grant.entries \subseteq DOMAIN Registry
    /\ Creatable \subseteq Files
    /\ {Absent, Torn} \cap Contents = {}
    /\ Workspaces \subseteq [Files -> Contents \cup {Absent}]
    /\ MaxCalls \in Nat /\ MaxFaults \in Nat

\* What a patch decodes to.
Operations ==
    [op : {"write"}, path : Files, content : Contents]
        \cup [op : {"delete"}, path : Files]
        \cup [op : {"rename"}, from : Files, to : Files]

\* Only a patch has several operations; a quota is an integer.
ASSUME InputAssumption ==
    /\ \A c \in Calls : /\ c.ops \in Seq(Operations)
                        /\ c.tool = "apply_patch" \/ Len(c.ops) <= 1
    /\ {"entries", "total"} \subseteq DOMAIN Grant /\ Grant.total \in Nat
    /\ \A t \in DOMAIN Grant.entries : Grant.entries[t].max \in Nat

VARIABLES
    files,         \* the workspace
    jobs,          \* the executors started, the last one for the last call
    trace,         \* the audits on the record, with the changes of each
    state,         \* CallState: what L4's quotas are held against
    capabilities,  \* of the phase the walk is in
    walk,          \* "turn", "call", "failed" or "ended"
    artifact,      \* what the egress read
    faults,        \* disk operations that failed
    unseen         \* ghost: a failure the code neither reports nor repairs

vars == <<files, jobs, trace, state, capabilities, walk, artifact, faults, unseen>>
walkVars == <<trace, state, capabilities, walk, artifact>>

Tools == DOMAIN Registry

Fault == faults < MaxFaults /\ faults' = faults + 1
Fine  == UNCHANGED <<faults, unseen>>

Init ==
    /\ files \in Workspaces
    /\ jobs = << >> /\ trace = << >>
    /\ state = [calls |-> [t \in Tools \cup {c.tool : c \in Calls} |-> 0], total |-> 0]
    /\ capabilities \in Phases
    /\ walk = "turn" /\ artifact = << >>
    /\ faults = 0 /\ unseen = FALSE

-----------------------------------------------------------------------------
(* The executors.                                                          *)

\* job j goes to where, with the rest of it as upd says.
Step(j, where) == jobs' = [jobs EXCEPT ![j].at = where]

Transactional(job) == job.tool = "apply_patch"
Op(job) == job.ops[job.next]

Touched(op) ==
    IF op.op = "rename" THEN <<op.from, op.to>> ELSE <<op.path>>

\* CreatePath of all an operation names, and os.Stat of what it takes away.
Valid(op) ==
    /\ \A i \in DOMAIN Touched(op) : Touched(op)[i] \in Creatable
    /\ op.op \in {"delete", "rename"} => files[Touched(op)[1]] # Absent

\* The executors that change nothing: confinement, a read, the size cap.
Read(j) ==
    /\ jobs[j].at = "validate" /\ jobs[j].ops = << >>
    /\ Step(j, "done") \/ Step(j, "refused")
    /\ Fine /\ UNCHANGED files

Validate(j) ==
    /\ jobs[j].at = "validate" /\ jobs[j].ops # << >>
    /\ IF \A i \in DOMAIN jobs[j].ops : Valid(jobs[j].ops[i])
       THEN Step(j, IF Transactional(jobs[j]) THEN "snapshot" ELSE "apply")
       ELSE Step(j, "refused")
    /\ Fine /\ UNCHANGED files

\* The undo journal; a file that cannot be read is noted as not there.
Snapshot(j) ==
    /\ jobs[j].at = "snapshot"
    /\ LET touched == Touched(Op(jobs[j]))
           Notes(as) ==
             jobs' = [jobs EXCEPT ![j].at = "apply", ![j].journal =
                        @ \o [i \in DOMAIN touched |-> <<touched[i], as[i]>>]]
           seen == [i \in DOMAIN touched |-> files[touched[i]]]
       IN \/ Notes(seen) /\ Fine
          \/ \E i \in DOMAIN touched :
               /\ seen[i] # Absent /\ Fault /\ unseen' = TRUE
               /\ Notes([seen EXCEPT ![i] = Absent])
    /\ UNCHANGED files

Change(path, op, old, new) == [path |-> path, op |-> op, old |-> old, new |-> new]

\* Mutant: a rename reports the name it gave and not the one it took.
RecordsOneName(op) ==
    CASE op.op = "write"  -> <<Change(op.path, "write", files[op.path], op.content)>>
      [] op.op = "delete" -> <<Change(op.path, "delete", files[op.path], Absent)>>
      [] op.op = "rename" -> <<Change(op.to, "rename-to", "", files[op.from])>>

Records(op) ==
    CASE op.op = "write"  -> <<Change(op.path, "write", files[op.path], op.content)>>
      [] op.op = "delete" -> <<Change(op.path, "delete", files[op.path], Absent)>>
      [] op.op = "rename" -> <<Change(op.from, "rename-from", files[op.from], Absent),
                               Change(op.to, "rename-to", "", files[op.from])>>

Effect(fs, op) ==
    CASE op.op = "write"  -> [fs EXCEPT ![op.path] = op.content]
      [] op.op = "delete" -> [fs EXCEPT ![op.path] = Absent]
      [] op.op = "rename" -> [fs EXCEPT ![op.from] = Absent, ![op.to] = fs[op.from]]

Apply(j) ==
    LET job  == jobs[j]
        op   == Op(job)
        last == job.next = Len(job.ops)
        Fails == IF Transactional(job) THEN "rollback" ELSE "refused"
    IN
    /\ job.at = "apply"
    /\ \/ /\ op.op \in {"delete", "rename"} /\ files[Touched(op)[1]] = Absent
          /\ Step(j, Fails) /\ Fine /\ UNCHANGED files
       \/ /\ op.op = "write" \/ files[Touched(op)[1]] # Absent
          /\ files' = Effect(files, op)
          /\ jobs' = [jobs EXCEPT ![j].changes = @ \o Records(op),
                        ![j].next = IF last THEN @ ELSE @ + 1,
                        ![j].journal = IF last THEN << >> ELSE @,
                        ![j].at = IF last THEN "done" ELSE "snapshot"]
          /\ Fine
       \/ /\ Fault /\ Step(j, Fails)
          /\ \/ UNCHANGED <<files, unseen>>
             \/ /\ op.op = "write"     \* opened, truncated and not written
                /\ files' = [files EXCEPT ![op.path] = Torn]
                /\ unseen' = (unseen \/ ~Transactional(job))

\* Mutant: the journal is undone in the order it was written.
RollbackInOrder(j) ==
    /\ jobs[j].at = "rollback"
    /\ LET journal == jobs[j].journal IN
       IF journal = << >> THEN Step(j, "refused") /\ Fine /\ UNCHANGED files
       ELSE /\ jobs' = [jobs EXCEPT ![j].journal = Tail(journal)]
            /\ files' = [files EXCEPT ![Head(journal)[1]] = Head(journal)[2]] /\ Fine

\* The journal backwards; what fails is passed over.
Rollback(j) ==
    /\ jobs[j].at = "rollback"
    /\ LET journal == jobs[j].journal IN
       IF journal = << >> THEN Step(j, "refused") /\ Fine /\ UNCHANGED files
       ELSE /\ jobs' = [jobs EXCEPT ![j].journal = Front(journal)]
            /\ \/ files' = [files EXCEPT ![Last(journal)[1]] = Last(journal)[2]] /\ Fine
               \/ Fault /\ unseen' = TRUE /\ UNCHANGED files

\* Until the teardown takes the workspace away.
Run(j) ==
    /\ walk \in {"turn", "call"} /\ UNCHANGED walkVars
    /\ Read(j) \/ Validate(j) \/ Snapshot(j) \/ Apply(j) \/ Rollback(j)

-----------------------------------------------------------------------------
(* The loop over a turn's calls.                                           *)

\* Mutant: only the calls that were answered count.
AuditedIfAnswered(tool, decision, changes) ==
    /\ trace' = Append(trace, [tool |-> tool, decision |-> decision, changes |-> changes])
    /\ state' = IF decision = "timeout" THEN state
                ELSE [calls |-> [state.calls EXCEPT ![tool] = @ + 1], total |-> state.total + 1]
    /\ walk' = "turn" /\ UNCHANGED <<capabilities, artifact>>

\* The audit is on the record before the call counts and is answered.
Audited(tool, decision, changes) ==
    /\ trace' = Append(trace, [tool |-> tool, decision |-> decision, changes |-> changes])
    /\ state' = [calls |-> [state.calls EXCEPT ![tool] = @ + 1], total |-> state.total + 1]
    /\ walk' = "turn" /\ UNCHANGED <<capabilities, artifact>>

Answers(call) == Authorize(Registry, phaseGrant(Grant, capabilities), call, state)

Refuse(call) ==
    /\ walk = "turn" /\ Len(trace) < MaxCalls
    /\ Answers(call) # {Allow}
    /\ Audited(call.tool, "denied", << >>)
    /\ UNCHANGED <<files, jobs, faults, unseen>>

Execute(call) ==
    /\ walk = "turn" /\ Len(trace) < MaxCalls
    /\ Allow \in Answers(call)
    /\ jobs' = Append(jobs, [tool |-> call.tool, ops |-> call.ops, at |-> "validate",
                             next |-> 1, journal |-> << >>, changes |-> << >>,
                             left |-> FALSE, before |-> files])
    /\ walk' = "call"
    /\ UNCHANGED <<files, trace, state, capabilities, artifact, faults, unseen>>

\* The result arrives.
Answer ==
    LET job == jobs[Len(jobs)] IN
    /\ walk = "call" /\ job.at \in {"done", "refused"}
    /\ IF job.at = "done" THEN Audited(job.tool, "authorized", job.changes)
                          ELSE Audited(job.tool, "error", << >>)
    /\ UNCHANGED <<files, jobs, faults, unseen>>

\* Mutant: the timer is looked at when the executor is done.
TimeoutWaits ==
    /\ walk = "call" /\ jobs[Len(jobs)].at = "done"
    /\ jobs' = [jobs EXCEPT ![Len(jobs)].left = TRUE]
    /\ Audited(jobs[Len(jobs)].tool, "timeout", << >>)
    /\ UNCHANGED <<files, faults, unseen>>

\* The timer fires, the result being there or not; the job is left to itself.
Timeout ==
    /\ walk = "call"
    /\ jobs' = [jobs EXCEPT ![Len(jobs)].left = TRUE]
    /\ Audited(jobs[Len(jobs)].tool, "timeout", << >>)
    /\ UNCHANGED <<files, faults, unseen>>

\* StoreObject or AppendEvent fails: the invariant path, with no egress.
AuditFails ==
    /\ walk = "call" /\ jobs[Len(jobs)].at \in {"done", "refused"}
    /\ Fault /\ walk' = "failed"
    /\ UNCHANGED <<files, jobs, trace, state, capabilities, artifact, unseen>>

EnterPhase ==
    /\ walk = "turn" /\ capabilities' \in Phases \ {capabilities}
    /\ UNCHANGED <<files, jobs, trace, state, walk, artifact, faults, unseen>>

\* The walk ends and the egress reads the workspace.
Collect ==
    /\ walk = "turn" /\ walk' = "ended" /\ artifact' = files
    /\ UNCHANGED <<files, jobs, trace, state, capabilities, faults, unseen>>

Next ==
    \/ \E call \in Calls : Refuse(call) \/ Execute(call)
    \/ Answer \/ Timeout \/ AuditFails \/ EnterPhase \/ Collect
    \/ \E j \in DOMAIN jobs : Run(j)

\* Only the timer is bound to fire: a disk operation may hang for ever.
Spec == Init /\ [][Next]_vars /\ WF_vars(Answer \/ Timeout)

-----------------------------------------------------------------------------
(* Properties.                                                             *)

Quiet == ~unseen /\ \A j \in DOMAIN jobs : ~jobs[j].left

\* While no timed-out job is about and no failure went unnoticed, a patch
\* that is refused has changed nothing, and one that is done has the effect
\* of its operations in their order: execApplyPatch is a transaction.
PatchAllOrNothing ==
    walk = "call" /\ Quiet =>
        LET job == jobs[Len(jobs)] IN
        /\ job.at = "refused" => files = job.before
        /\ job.at = "done" => files = FoldLeft(Effect, job.before, job.ops)

\* The workspace the trace's records lead to from the one it began with.
Put(fs, change)   == [fs EXCEPT ![change.path] = change.new]
PutAll(fs, audit) == FoldLeft(Put, fs, audit.changes)
Replay(fs)        == FoldLeft(PutAll, fs, trace)

Began == IF jobs = << >> THEN files ELSE jobs[1].before

\* What a job that was left to itself may still write.
Stray == UNION {UNION {Range(Touched(op)) : op \in Range(jobs[j].ops)} :
                  j \in {j \in DOMAIN jobs : jobs[j].left}}

\* The records of the trace explain the artifact the egress reads, file by
\* file: what a timed-out job does later, and the rollbacks of others over
\* it, stay within the paths its own call named.
TraceExplainsArtifact ==
    walk = "ended" /\ ~unseen =>
        \A f \in Files \ Stray : artifact[f] = Replay(Began)[f]

\* What ran is within the grant over all phases, however calls are denied,
\* time out or fail, and nothing mutates without the grant saying so.
QuotasBound ==
    /\ Len(jobs) <= Grant.total
    /\ \A t \in Tools :
         LET ran == {j \in DOMAIN jobs : jobs[j].tool = t} IN
         ran # {} => /\ t \in DOMAIN Grant.entries
                     /\ Cardinality(ran) <= Grant.entries[t].max
                     /\ Registry[t].mutating => Grant.entries[t].mutating

\* A call that was let through is answered, whatever its executor does.
CallsAreAnswered == walk = "call" ~> walk # "call"

=============================================================================
