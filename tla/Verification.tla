---------------------------- MODULE Verification ----------------------------
(***************************************************************************)
(* L10 at the execution-result boundary: tasks that share one evaluator    *)
(* (verification/seam) call verifier tools while an operator edits the     *)
(* contract registry and the contract files under it.                      *)
(*                                                                         *)
(* A call's registry is read outside the evaluator's mutex, compared with  *)
(* the last state used under it, and resolved after it; what was resolved  *)
(* is kept until the call's l4-audit has committed.  Handling of the call  *)
(* itself is ToolRun's, the walk the outcome moves is WorkflowWalk's, and  *)
(* the commit of one event is DurableState's: an append is one step here.  *)
(***************************************************************************)
EXTENDS Contracts

CONSTANTS
    Tasks, Calls, Reports,      \* what models call, and the reports captured
    Authorizing,                \* the hash of the registry L4 authorizes under
    Canonicalizers,             \* the capabilities with a canonicalization
    Registrable,                \* entries an operator may add
    Contents,                   \* what a contract file may be overwritten with
    FirstRegistry, FirstDisk,
    MaxCalls, MaxEdits, MaxRestarts

ASSUME BoundsAssumption ==
    MaxCalls \in [Tasks -> Nat] /\ MaxEdits \in Nat /\ MaxRestarts \in Nat

VARIABLES
    file, disk,     \* the registry file, and the contract files by path
    prior,          \* the evaluator's last used registry, or Absent
    prepared,       \* per task, the contract resolved for the call in flight
    pc, call,       \* per task, its place in the call and the call
    loaded,         \* per task, the registry its call has read
    refusal,        \* per task, the refusal its call was given
    evaluation,     \* per task, the evaluation in flight
    log,            \* per task, its committed events
    told,           \* per task, the tool messages its model was sent
    store,          \* the object store of the root
    stored,         \* per task, the tokens whose contract it has stored
    verifState,     \* per task, the latest outcome per token
    used,           \* every registry used since the process started (history)
    edits, restarts

vars == <<file, disk, prior, prepared, pc, call, loaded, refusal, evaluation,
          log, told, store, stored, verifState, used, edits, restarts>>
operator == <<file, disk, edits>>
evaluator == <<prior, prepared, used>>

Token(c) == <<c.name, c.version>>

Init ==
    /\ file = FirstRegistry /\ disk = FirstDisk
    /\ prior = Absent /\ used = <<>>
    /\ prepared = [t \in Tasks |-> Absent]
    /\ pc = [t \in Tasks |-> "turn"]
    /\ call = [t \in Tasks |-> Absent]
    /\ loaded = [t \in Tasks |-> Absent]
    /\ refusal = [t \in Tasks |-> ""]
    /\ evaluation = [t \in Tasks |-> Absent]
    /\ log = [t \in Tasks |-> <<>>] /\ told = [t \in Tasks |-> <<>>]
    /\ store = {} /\ stored = [t \in Tasks |-> {}]
    /\ verifState = [t \in Tasks |-> <<>>]
    /\ edits = 0 /\ restarts = 0

-----------------------------------------------------------------------------
(* The operator: legal edits, and edits no operator should make. *)

(* Edits once no call can follow change nothing a task does: a bound.      *)
Edit ==
    /\ edits < MaxEdits /\ edits' = edits + 1
    /\ \E t \in Tasks : /\ pc[t] # "failed"
                         /\ pc[t] = "turn" => Len(told[t]) < MaxCalls[t]

Register(e) ==
    /\ Edit
    /\ file # Absent
    /\ \A i \in DOMAIN file.entries : Key(file.entries[i]) # Key(e)
    /\ file' = [file EXCEPT !.entries = Append(@, e)]
    /\ disk' = [disk EXCEPT ![e.path] = e.contract]

Withdraw(i) ==
    /\ Edit
    /\ file # Absent
    /\ i \in DOMAIN file.entries /\ file.entries[i].state = "active"
    /\ file' = [file EXCEPT !.entries[i].state = "withdrawn"]
    /\ UNCHANGED disk

Rebind(i, c) ==
    /\ Edit
    /\ file # Absent
    /\ i \in DOMAIN file.entries /\ file.entries[i].contract # c
    /\ file' = [file EXCEPT !.entries[i].contract = c]
    /\ disk' = [disk EXCEPT ![file.entries[i].path] = c]

Restore ==      \* an earlier copy of the file is put back, or it goes away
    /\ Edit
    /\ file' \in {FirstRegistry, Absent} \ {file}
    /\ UNCHANGED disk

Overwrite(p, c) ==
    /\ Edit
    /\ disk[p] # c
    /\ disk' = [disk EXCEPT ![p] = c]
    /\ UNCHANGED file

OperatorStep ==
    /\ \/ \E e \in Registrable : Register(e)
       \/ \E i \in 1 .. 2 : Withdraw(i)
       \/ \E i \in 1 .. 2, c \in Contents \ {Absent} : Rebind(i, c)
       \/ Restore
       \/ \E p \in DOMAIN disk, c \in Contents : Overwrite(p, c)
    /\ UNCHANGED <<prior, prepared, pc, call, loaded, refusal, evaluation,
                   log, told, store, stored, verifState, used, restarts>>

-----------------------------------------------------------------------------
(* A verifier call, from the L4 gate to the committed outcome. *)

(* What loop.go does with an authorized call's evidence before the audit.  *)
Handle(t) ==
    /\ pc[t] = "turn" /\ Len(told[t]) < MaxCalls[t]
    /\ \E c \in Calls, raw \in Reports :
         /\ call' = [call EXCEPT ![t] = [request |-> c, raw |-> raw]]
         /\ store' = store \cup {raw}
    /\ pc' = [pc EXCEPT ![t] = "load"]
    /\ UNCHANGED <<operator, evaluator, loaded, refusal, evaluation, log, told,
                   stored, verifState, restarts>>

(* The refusals that need no registry. *)
Malformed(c) ==
    IF ~ c.parsed THEN "unparseable"
    ELSE IF c.ref = Absent THEN "no-contract"
    ELSE IF Authorizing # L4.hash THEN "registry-drift"
    ELSE IF ~ LoadRegistry(file) THEN "registry-unreadable"
    ELSE ""

Load(t) ==
    /\ pc[t] = "load"
    /\ LET why == Malformed(call[t].request)
       IN /\ refusal' = [refusal EXCEPT ![t] = why]
          /\ loaded' = [loaded EXCEPT ![t] = IF why = "" THEN file ELSE @]
          /\ pc' = [pc EXCEPT ![t] = IF why = "" THEN "check" ELSE "audit"]
    /\ UNCHANGED <<operator, evaluator, call, evaluation, log, told, store,
                   stored, verifState, restarts>>

(* What a bug would hold on to: the first state the evaluator ever used.   *)
FirstUsed(t) == IF prior = Absent THEN loaded[t] ELSE prior

Observed(t) == loaded[t]

AppendOnly(t) == prior # Absent => CheckAppendOnly(loaded[t], prior)

Check(t) ==
    /\ pc[t] = "check" /\ AppendOnly(t)
    /\ prior' = Observed(t)
    /\ used' = Append(used, loaded[t])
    /\ pc' = [pc EXCEPT ![t] = "resolve"]
    /\ UNCHANGED <<operator, prepared, call, loaded, refusal, evaluation, log,
                   told, store, stored, verifState, restarts>>

(* A registry that is not an extension of the last one is tampering: the   *)
(* task ends on the invariant path, and nothing is recorded of the call.   *)
Tampered(t) ==
    /\ pc[t] = "check" /\ ~ AppendOnly(t)
    /\ pc' = [pc EXCEPT ![t] = "failed"]
    /\ loaded' = [loaded EXCEPT ![t] = Absent]
    /\ call' = [call EXCEPT ![t] = Absent]
    /\ UNCHANGED <<operator, evaluator, refusal, evaluation, log, told, store,
                   stored, verifState, restarts>>

(* Why the registry r refuses the call c, or "" when it does not. *)
Refuses(r, c) ==
    LET why == Resolve(r, c.ref, disk)
        found == ResolvedContract(r, c.ref, disk)
    IN IF why # "" THEN why
       ELSE IF found.capability # c.name THEN "other-capability"
       ELSE IF Len(found.slots) # 1 THEN "slots"
       ELSE ""

ResolveCall(t) ==
    /\ pc[t] = "resolve"
    /\ LET c == call[t].request
           why == Refuses(loaded[t], c)
       IN /\ refusal' = [refusal EXCEPT ![t] = why]
          /\ prepared' = [prepared EXCEPT ![t] = IF why # "" THEN @ ELSE
                            ResolvedContract(loaded[t], c.ref, disk)]
    /\ pc' = [pc EXCEPT ![t] = "audit"]
    /\ loaded' = [loaded EXCEPT ![t] = Absent]
    /\ UNCHANGED <<operator, prior, used, call, evaluation, log, told, store,
                   stored, verifState, restarts>>

Audit(t) ==
    /\ pc[t] = "audit"
    /\ log' = [log EXCEPT ![t] = Append(@,
                 [class |-> "l4-audit", tool |-> call[t].request.name,
                  registry |-> Authorizing, refusal |-> refusal[t]])]
    /\ IF refusal[t] = ""
       THEN pc' = [pc EXCEPT ![t] = "evaluate"] /\ UNCHANGED <<told, call>>
       ELSE /\ pc' = [pc EXCEPT ![t] = "turn"]
            /\ call' = [call EXCEPT ![t] = Absent]
            /\ told' = [told EXCEPT ![t] = Append(@, <<"refused", refusal[t]>>)]
    /\ refusal' = [refusal EXCEPT ![t] = ""]
    /\ UNCHANGED <<operator, evaluator, loaded, evaluation, store, stored,
                   verifState, restarts>>

(* What a bug would evaluate under: whatever the files say by now. *)
ResolvedAgain(t) ==
    LET c == call[t].request
        why == IF Malformed(c) # "" THEN Malformed(c) ELSE Refuses(file, c)
    IN [refusal |-> why, contract |->
          IF why = "" THEN ResolvedContract(file, c.ref, disk) ELSE Absent]

Held(t) == [refusal |-> "", contract |-> prepared[t]]

(* The facts the seam establishes, and the evidence it refers to. *)
Canonical(raw) == [size |-> 1, result |-> canonReport(raw)]
Facts(t, c) == [executionRef |-> Len(log[t]), config |-> c.config,
                raw |-> call[t].raw, canonical |-> Canonical(call[t].raw),
                result |-> canonReport(call[t].raw)]
Refs(t, c) == <<[slot |-> c.slots[1].name, object |-> call[t].raw,
                 inTask |-> TRUE, resolvable |-> TRUE]>>

(* The bytes evaluateVerification stores; the contract once per token.     *)
(* Empty bytes are not stored by it: Handle has stored them as evidence.   *)
Objects(t, c, record) ==
    (IF Token(c) \in stored[t] THEN {} ELSE {c})
      \cup {b \in {call[t].raw, Canonical(call[t].raw)} : b.size > 0}
      \cup {record}

EvaluateCall(t) ==
    /\ pc[t] = "evaluate" /\ call[t].request.name \in Canonicalizers
    /\ prepared' = [prepared EXCEPT ![t] = Absent]
    /\ LET c == Held(t).contract
           record == Evaluate(c, Refs(t, c), Facts(t, c))
       IN IF Held(t).refusal # ""
          THEN /\ told' = [told EXCEPT ![t] =
                             Append(@, <<"refused", Held(t).refusal>>)]
               /\ pc' = [pc EXCEPT ![t] = "turn"]
               /\ UNCHANGED <<store, stored, evaluation>>
          ELSE /\ store' = store \cup Objects(t, c, record)
               /\ stored' = [stored EXCEPT ![t] = @ \cup {Token(c)}]
               /\ evaluation' = [evaluation EXCEPT ![t] = record]
               /\ pc' = [pc EXCEPT ![t] = "commit"]
               /\ UNCHANGED told
    /\ UNCHANGED <<operator, prior, used, call, loaded, refusal, log,
                   verifState, restarts>>

(* An eligible capability no canonicalization is registered for. *)
EvaluatorFails(t) ==
    /\ pc[t] = "evaluate" /\ call[t].request.name \notin Canonicalizers
    /\ prepared' = [prepared EXCEPT ![t] = Absent]
    /\ pc' = [pc EXCEPT ![t] = "failed"]
    /\ call' = [call EXCEPT ![t] = Absent]
    /\ UNCHANGED <<operator, prior, used, loaded, refusal, evaluation, log,
                   told, store, stored, verifState, restarts>>

Commit(t) ==
    /\ pc[t] = "commit"
    /\ LET ev == evaluation[t]
       IN /\ log' = [log EXCEPT ![t] = Append(@,
                       [class |-> "l10-verification", record |-> ev,
                        contract |-> Token(ev.contract),
                        outcome |-> ev.outcome])]
          /\ verifState' = [verifState EXCEPT ![t] =
               [k \in DOMAIN @ \cup {Token(ev.contract)} |->
                  IF k = Token(ev.contract) THEN ev.outcome ELSE @[k]]]
          /\ told' = [told EXCEPT ![t] = Append(@, <<"verified", ev.outcome>>)]
    /\ evaluation' = [evaluation EXCEPT ![t] = Absent]
    /\ call' = [call EXCEPT ![t] = Absent]
    /\ pc' = [pc EXCEPT ![t] = "turn"]
    /\ UNCHANGED <<operator, evaluator, loaded, refusal, store, stored,
                   restarts>>

(* The process dies and another is started: tasks under way are not        *)
(* resumed, and the new evaluator remembers no registry.                   *)
Restart ==
    /\ restarts < MaxRestarts /\ restarts' = restarts + 1
    /\ \E t \in Tasks : pc[t] \notin {"turn", "failed"}
    /\ pc' = [t \in Tasks |-> IF pc[t] = "turn" /\ log[t] = <<>>
                              THEN "turn" ELSE "failed"]
    /\ prior' = Absent /\ used' = <<>>
    /\ prepared' = [t \in Tasks |-> Absent]
    /\ loaded' = [t \in Tasks |-> Absent]
    /\ call' = [t \in Tasks |-> Absent]
    /\ refusal' = [t \in Tasks |-> ""]
    /\ evaluation' = [t \in Tasks |-> Absent]
    /\ UNCHANGED <<operator, log, told, store, stored, verifState>>

TaskStep(t) ==
    \/ Handle(t) \/ Load(t) \/ Check(t) \/ Tampered(t) \/ ResolveCall(t)
    \/ Audit(t) \/ EvaluateCall(t) \/ EvaluatorFails(t) \/ Commit(t)

Next == OperatorStep \/ Restart \/ \E t \in Tasks : TaskStep(t)

Spec == Init /\ [][Next]_vars

-----------------------------------------------------------------------------
(* Reconstruction over a committed record (verification/seam/reconstruct). *)

ReconstructEvent(t, i) ==
    LET ev == log[t][i]
        record == ev.record
    IN /\ record \in store
       /\ Reconstruct(record, Get(store, record.contract),
                      Get(store, record.raw), Get(store, record.canonical))
       /\ ev.contract = Token(record.contract) /\ ev.outcome = record.outcome
       /\ record.executionRef \in DOMAIN log[t]
       /\ log[t][record.executionRef].class = "l4-audit"
       /\ log[t][record.executionRef].tool = record.capability
       /\ log[t][record.executionRef].registry = record.registry

Evaluations(t) == {i \in DOMAIN log[t] : log[t][i].class = "l10-verification"}

(* VerificationHistory: the latest outcome per contract, in commit order.  *)
Latest(t) ==
    [k \in {log[t][i].contract : i \in Evaluations(t)} |->
       log[t][CHOOSE i \in Evaluations(t) :
                /\ log[t][i].contract = k
                /\ \A j \in Evaluations(t) :
                     log[t][j].contract = k => j <= i].outcome]

Refusals(events) ==
    {i \in DOMAIN events : events[i].class = "l4-audit" /\ events[i].refusal # ""}
RefusedIn(messages) == {j \in DOMAIN messages : messages[j][1] = "refused"}

(* Every refusal a model was told of is in the l4-audit of that call, and  *)
(* a call whose audit carries no refusal is never refused (loop.go,        *)
(* F-L8-3: "the recorded refusal, verbatim"), whatever was edited since:   *)
(* messages and audits go together one by one, in their order.             *)
RefusalsAreRecorded ==
    \A t \in Tasks :
        \E at \in [RefusedIn(told[t]) -> Refusals(log[t])] :
            /\ \A i \in Refusals(log[t]) : \E j \in RefusedIn(told[t]) : at[j] = i
            /\ \A j, k \in RefusedIn(told[t]) : j < k => at[j] < at[k]
            /\ \A j \in RefusedIn(told[t]) : told[t][j][2] = log[t][at[j]].refusal

(* Every committed evaluation can be derived again from the objects alone, *)
(* though a contract's bytes are stored once per token, and its reason is  *)
(* of its outcome's class; the history view agrees with what the walk      *)
(* remembers.  The exception is an outcome of an empty report, which       *)
(* reconstruction calls missing.                                           *)
EvaluationsReconstruct ==
    \A t \in Tasks :
        /\ \A i \in Evaluations(t) :
             /\ CheckReasonClass(log[t][i].record)
             /\ \/ log[t][i].record.raw.size = 0
                \/ ReconstructEvent(t, i)
        /\ Latest(t) = verifState[t]

(* Within the life of a process, whatever order tasks load and check in,   *)
(* no registry is used after one it takes something back from: a binding   *)
(* keeps its contract and a withdrawal is final.                           *)
UsedRegistriesGrow ==
    \A i, j \in DOMAIN used : i < j =>
        \A p \in Entries(used[i]) : \E e \in Entries(used[j]) :
            /\ Key(e) = Key(p) /\ e.contract = p.contract
            /\ p.state = "withdrawn" => e.state = "withdrawn"
=============================================================================
