# A verification project for the Themis AI runtime harness

TLA+ models, TLC runs and TLAPS proofs for the Go harness under
`src/harness` of `github.com/tofchaliss/themis-ai-runtime`: the runtime that
executes an AI agent's task under a governed workflow, records everything the
task does durably, and can re-derive every claim from that record afterwards.

The harness is organised in layers (`ARCHITECTURE.md`,
`docs/architecture/harness/execution-chain.md`). One process holds one
orchestrator over one state root; tasks of that process may run concurrently.
What makes the system hard is not any single layer but that the layers promise
things about *histories*: nothing acknowledged is lost, a record never shows an
outcome nobody decided, a walk always ends, a gate is decided on the latest
verification. Those promises are what this project checks.

## 1. Inventory

| Part | Code | State it keeps | Operations |
|---|---|---|---|
| L6 task record | `state/task.go`, `sink.go`, `manifest.go` | `events.log`, `manifest.json`, the writer's copy of the manifest, the stream's position and "terminal" flag, the registry of live writers | CreateTask, AppendEvent, Transition, BindArtifact, StoreObject, Close |
| L6 recovery | `state/recovery.go` | none of its own | Recover |
| L6 verifier, views | `state/verify.go`, `view.go` | none | Verify, ReadStatus, ReadEvents, Resolve |
| L6 object store | `state/store.go` | content-addressed files | StoreObject, GetObject, HasObject |
| L7 startup | `orchestration/orchestrator.go` (Open) | StartupReport | anchor admission, sweep |
| L7 assembly and termination | `orchestrator.go` (SubmitTask), `loop.go` (complete, fail, failClosed, invariant) | the task's governed inputs | submit, terminate |
| L7 workflow and walk | `workflow.go`, `loop.go`, `phasestate.go` | cursor, turn count, edge counters, latest outcome per contract, call quota | load, run, step, evaluateVerification |
| L5 environment | `execution/lifecycle.go`, `local.go`, `egress.go`, `witness.go` | lifecycle state, seal reason, operations in flight, wall-clock budget, witness handle and buffered emissions, the host directories | Provision, ExecGit, Seal, Egress, Teardown, Attach |
| L5 artifact store | `execution/store.go` | content-addressed files | Put, Get |
| L4 tool gate | `tools/authorize.go`, `execute.go`, `mutate.go` | CallState (owned by L7) | Authorize, Handle, write_file, apply_patch |
| L10 verification | `verification/...` | contract registry, the seam's prior registry and prepared contracts | LoadRegistry, PreResolve, EvaluateCall |
| L8 delegation | `subagents/delegation/...` | template registry | Instantiate, Delegate |
| L9 skills | `skills/...` | catalog | LoadCatalog, Resolve, Instantiate |
| L11 ratchet | `ratchet/...` | criterion registry | Compare, Derive, Package, admission door |
| L2/L3 context | `context/...` | none | Gather, Manage, Compose |
| L1 instructions | `instructions/...` | none | Resolve, Render |
| G1 anchor | `deployment/anchor.go` | anchor registry, observed registry | AdmitAnchor, RecordObserved |
| Providers, router | `runtime/model`, `internal/...` | none | Execute |
| Benchmarks, gate, commands | `benchmarks/...`, `cmd/...` | run and verdict files | Compare, WriteVerdict |

**Interactions.** `Open` admits the anchor, then sweeps the state root
(ReadStatus, then Recover) before it accepts a task. `SubmitTask` loads the
governed inputs, provisions the L5 environment, creates the L6 record, attaches
the record to the environment as its witness (what the provisioning did is
buffered until then and replayed), and runs the walk. Each model turn may call tools
through L4; a verifier's result goes to L10 and comes back as a typed event of
the walk; a delegation goes to L8. Every such effect is appended to L6 before
the walk moves ("record before effect"). The walk ends in one of four ways and
the ending seals and tears down L5 and projects a terminal status in L6.

**Hard behaviours.** Failed and interrupted disk operations at every step of a
commit; recovery interrupted by a crash and run again over what it left; a
writer that goes on after a failed append; the sweep over records it cannot
read; interleaving of recovery and a writer; cycles and counters of a workflow;
gates evaluated against outcomes that later evaluations replace; events that
only particular model behaviour in a particular phase can produce. The full
list, each at its line, is `hazards` in `PROJECT.json`.

**What makes each part correct.**

* *Record*: acknowledged events survive; one appender numbers the stream; the
  decisions walk the closed lifecycle; the manifest never runs ahead of the
  stream and binds the prefix it claims; a settled record does not change.
* *Recovery*: it finishes the decision the stream holds, declares
  FAILED_PARTIAL only on its own recorded evidence, and removes nothing
  committed.
* *Sweep*: while tasks are served, the past is closed or surfaced as corrupt;
  a deployment that keeps being restarted settles what it finds.
* *Walk*: no event without an edge; phases are revisited only against counters;
  it ends; what it did is rederivable from the record; a gate is decided on the
  latest outcome.
* *Environment*: what is read for egress cannot change under the reader; the
  record's edges are the machine's, in order and without a gap.
* *Task*: a task completes after its artifact was witnessed and bound and its
  environment ended; no path leaves an environment behind; a record decides
  once, and what the caller is told is what it ends with unless a disk operation
  failed; SubmitTask returns.
* *Object and artifact store*: an address is absent or complete; what was
  acknowledged, and what a committed event refers to, outlives a power failure.
* *Tool gate*: what runs is within the grant, whatever is denied, times out or
  fails; a patch is all or nothing; the audit explains the workspace.
* *Delegation*: a model reads what was stored, is witnessed once for each call,
  and passes on no more trust than the evidence it read had; the record of a
  delegation reconstructs.
* *Verification*: what was evaluated reconstructs from the record whatever has
  become of the registry since; a version once used is never rebound.
* *Deployment*: an identity keeps its meaning across restarts; a task that runs
  is one its deployment anchors, and its record holds the bytes that ran; L9
  emits only what L7 takes.
* *Context*: a slot holds what the plan gives it; a budget drops least.

## 2. Modules

| Module | Models | How it corresponds to the code |
|---|---|---|
| `DurableState` | one task's L6 record, its writer and Recover | one action per method of TaskRecord *per disk effect*: `CreateTask` (Mkdir), `CreatedEvent`, `Project` (writeManifest), `Register` (setLive). `pc` and `op` are the position inside the operation the record's mutex protects. Recover is `RecoverParse` ... `RecoverProject`, in the order of its statements. A failed append lands nothing, a torn frame or a whole frame; a failed manifest write leaves the old or the new one; `Crash` drops everything in memory. `objects` are the addresses `HasObject` finds; what a power failure leaves of them is the subject of `ObjectStore` |
| `RecordVerifier` | Verify | the verdict as a function of the record |
| `StartupSweep` | Open's sweep | composes the two above; `orch` says when the record's own steps may happen |
| `WorkflowWalk` | LoadWorkflow and the loop | the loader is a predicate on definitions (`LoadWorkflow`, `VerifierMapped`); the loop is one action per exit of `runPhase`; `step` is `walk.step` |
| `Environment` | the L5 environment | one action per critical section of `Env.mu` or lock-free step; `ops` is where each concurrent `ExecGit` is. It has no specification of its own: its controller is L7 |
| `TaskRuntime` | SubmitTask from Provision on | extends `Environment`; `pc` is the position in SubmitTask, `run`, `complete`, `fail`, `failClosed` or `invariant`, and each step names the environment's operation it makes and both of its answers |
| `ObjectStore` | StoreObject and Put, and the references to what they stored | one action per system call of the publication; `held` is what its calls returned to a task, `Refer` an append that refers to it, past the `HasObject` of the record's door; `PowerFails` loses what was not synced |
| `WriteOnceStore` | what a content-addressed store promises | the abstract specification `ObjectStore` refines (`KeepsPromise`) |
| `Authorization` | L4's registry, grants and decision table | `LoadRegistry`, `LoadGrant`, `Authorize`, `Instantiates`, `phaseGrant` are the functions of those names; an answer that depends on the iteration over a Go map is a set of answers |
| `ToolRun` | Handle, the executors and the loop over calls | extends `Authorization`; an executor is a job that takes one disk operation a step and goes on when its call was answered by the timer; `Audited` is the audit, then the counters, then the answer |
| `Context` | L2's contract, sources and Gather, L3's policy and Manage | the functions of those names over item records; an item's text is its hash and its size |
| `Decisions` | — | puts `Context` to enumerated questions |
| `DelegationSeam` | L8's templates, compose, deriveClass, Delegate's body and reconstructOne | operators over the record and the files at the time they are read; extends `Context` |
| `Delegation` | a task whose turns delegate | one action per step between which files or the store may change: the instantiation inside the executor, the audit, the second composition, each store, the model call, the witness |
| `Contracts` | L10's contracts, registry, Evaluate and Reconstruct | operators; `Evaluate` is the stages in their order |
| `Verification` | concurrent tasks over one evaluator | the load of the registry, the check under the mutex, and the resolution are three actions; the operator rewrites the registry and the contract files between any two |
| `Skills` | L9's catalog, manifests, schema and Instantiate; L5's specs | operators over a disk; the envelope is the record L7 loads |
| `Deployment` | Open under an anchor, and SubmitTask up to its record | extends `Skills`; an action per reading of a file that is read more than once; `Edit` rewrites any governed file between them |
| `DurableStateProofs`, `WorkflowWalkProofs`, `ObjectStoreProofs`, `TaskRuntimeProofs`, `ToolRunProofs`, `VerificationProofs`, `DelegationProofs`, `DeploymentProofs` | — | the theorems about the module each is named after, `DurableStateProofs` also those about `RecordVerifier` and `StartupSweep`; they share no lemma and each stands alone |
| `MC...` | — | for each run that needs one, the documents and inputs enumerated for TLC |

**How they fit.** `Environment` is inside `TaskRuntime`, `Authorization` inside
`ToolRun` and `Skills`, `Context` inside `DelegationSeam` and that inside
`Delegation`, `Contracts` inside `Verification`, `Skills` inside `Deployment`.
`Deployment` ends where `TaskRuntime` begins, at Provision and the record; the
walk inside `TaskRuntime` is `WorkflowWalk`; a call of the walk is a call of
`ToolRun`, and what comes of it when it verifies or delegates is `Verification`
or `Delegation`. What each of these says of the record is what `DurableState`
promises of it.

Abstractions, and why they lose nothing the properties see:

* Hashes are collision free: a summary over a prefix *is* the prefix.
* Event bodies are dropped except a lifecycle event's target and an event's
  reference: no property of the record looks further. All caller-appended
  classes are one class, `work`: the record treats them alike.
* The frame of an entry is atomic in the sense that what is on disk after a
  failed write is nothing, a tail that does not parse, or the frame.
* One task. Two records share only the object store. A process that dies takes
  no object with it, so in `DurableState` the occupied addresses only grow;
  that an occupied address is not yet a durable one, and that another task may
  have published it, is modelled in `ObjectStore`, where the power can fail.
* In the walk, model output, tool evidence and prompts are a nondeterministic
  choice of what happens next. All tool calls that decide no transition are
  `QuietCall`.
* In `Environment`, git's work is its duration and its outcome; the budget is
  counted in ticks. The record is seen as its writers see it: an append
  commits, or breaks the stream and may have landed all the same, or is
  refused. `DurableState` is that record in full. The walk inside `TaskRuntime`
  appends events and ends in one of its outcomes; `WorkflowWalk` is that walk.
* `ExecGit` has no production caller at this commit. The environment's guards
  against it (in-flight count, budget seal) are modelled with two callers that
  may call it at any moment, so the properties hold for whatever uses it next.
* The filesystem: a link is atomic; bytes outlive a power failure once their
  file is synced, an entry once its directory is, and a directory once created
  is there. The last is an assumption: the shard directory `StoreObject` makes
  (`state/store.go:101`) is not synced into its parent.
* Phases are numbered in definition order, so the loader's "forward" is
  "greater".
* A path is a model value with what confinement says of it (`Confined`,
  `Creatable`, `Prefixed`); the string work that decides it is not modelled.
* A file's content stands for its hash. Reads of different files in one action
  of `Deployment` commute with any edit between them, so an action is split
  only where one file is read twice; an edit is made only while a reader of
  the file is still to come, because it commutes with everything else.
* In `Delegation` only the two compositions read files, and only the next call
  and a reconstruction read the store: `ChangeFiles` and `Lose` happen where
  they can be seen and nowhere else.
* A reading tool returns any of its results; a delegated model any output.

## 3. Runs

| Run | Shows | Bounds |
|---|---|---|
| `record` | the safety and action properties of the record | 2 objects, operations start on streams shorter than 4 events, 2 faults |
| `startup_sweep` | what a start may rely on, and `RestartedRecordsSettle` | 1 object, 4 events, 2 faults |
| `walk` | totality, boundedness, termination; gate decisions and rederivation | every definition one edge away from a two-phase one (315 of them load), one whose only counter buys whole passes, and three with gates on signals and on outcomes, 2 turns per phase, 4 calls, 2 contracts, 2 outcomes |
| `task_runtime` | the environment's and the task's properties, and `SubmitReturns` | 2 callers of ExecGit, 2 calls, a budget of 2 ticks, 1 event of the walk and 1 git operation of the egress, 2 failed disk operations |
| `object_store` | the store's properties, what references survive, and the refinement | 2 writers, 2 objects, 4 calls, 3 faults |
| `tool_run` | quotas, the patch transaction, what the audit explains, `CallsAreAnswered` | 3 calls of 7, 2 files a mutation reaches and one it may not, 2 phases, 1 failed disk operation |
| `decisions` | Gather, Manage | every question of `MCDecisions` |
| `delegation` | witnesses, trust, durability of what was asked, reconstruction | 3 turns, 1 reference each, 1 fault (a rewrite or a lost object) besides failures of the task |
| `verification` | refusals, reconstruction, registries used | 2 tasks, 3 calls, 2 edits, 1 restart |
| `deployment` | identity, execution, narrowing of grants, record, emission | 2 recordings of Open, 2 edits, 1 task from L9 or one of the altered envelopes; 5 calls, at every usage up to a quota and past it |
| `sweep_completes`, `delegation_whole` | a statement of the repository's own comments that the code does not keep | as above; `delegation_whole` has one turn and arguments spelled in two ways |

*Bounds.* `MaxEvents` bounds when the caller starts an operation; recovery's
own events come on top, so streams reach length 8. Four events hold the longest
interesting record: CREATED, RUNNING, one work or artifact event with its
contamination flag, and a terminal decision. Two faults are needed and enough
for the interactions that matter: one that leaves a damaged record, one that
interrupts its recovery. Two phases and countered edges with counters up to 2
exercise every branch of the loader; definitions are enumerated, so the loader
is not merely asserted: the candidates include the ones it must refuse.

In `task_runtime` two calls are the least that overlap; a budget of two ticks
lets one operation be admitted while another spends the rest, which is what
decides who seals. Two faults let a termination fail and the path it falls back
on fail as well. In `object_store`, two writers of one address with a failure
of the first, a power failure and a third event exhaust the ways one writer can
stand on another's publication.

In `tool_run` three calls are the least in which a timed-out job overlaps one
that was authorised after it and a third whose rollback meets both. In
`delegation` three turns give a delegation whose evidence is another's output
and is itself delegated on. In `verification` two edits are a withdrawal or a
rebinding and its way back, which is what the check against the last observed
registry must catch; the task with two calls meets the evaluator before and
after the other. In `deployment` two edits suffice to rewrite a file and
restore it between two readings, or to rewrite two files; the hand-made
envelopes are those of L9 altered in one member and sealed again; four of them
widen the grant, each in one dimension (a quota, the total, a flag, a scope).

*Fairness.* The record by itself has none: nothing makes a writer go on, and
Recover is called by Open's sweep alone, which never reaches it for a record
without a manifest and does not call it for one that verifies CORRUPT.
`StartupSweep` is fair to Open and to the steps of its sweep: a deployment that
is down is started again, and Open is sequential code with no waiting. Nothing
makes a serving deployment stop, nor a task end, so `RestartedRecordsSettle`
speaks of deployments that go down again and again (`Stop` needs no fault, so
they can for ever), and of every record but one whose artifact list trails its
stream: that one the sweep only lists, and it never settles. In the walk only
`Loop` is fair: the model call has a deadline (`loop.go:163`), each tool has a timeout; neither the wall-clock floor nor a
failure of the machinery is assumed to come. In `TaskRuntime` SubmitTask is
weakly fair: it is one goroutine, and every call it makes returns (git
operations are killed at their deadline, `local.go:409-417`). Nothing makes a
caller of ExecGit go on. In `ToolRun` only the loop's select is fair, for its
timer fires (`tools/execute.go:335-340`): a disk operation may hang for ever.

*Deadlock* is off where the system really stops: a walk at its terminal, a
SubmitTask that returned, a store whose callers made their last call, a tool
walk that ended, a question that was answered, a task that was refused.

## 4. What the code does not keep

Two runs check a sentence of the repository and TLC refutes it (`findings` has
the quotes):

1. `sweep_completes`: a crash inside CreateTask leaves a directory on which
   every later Open fails.
2. `delegation_whole`: the audit hashes a call's arguments as the model spelled
   them, the turn stores them compacted and escaped, so a reconstruction looks
   for a call it cannot find and reports a missing input of a whole record.

Six more are stated in the modules, with no run of their own. TLC refutes each
on the instance of the run named.

* `NoCrashYieldsCorruption` (`startup_sweep`): a crash between the
  artifact-bound event and the manifest leaves a record that verifies CORRUPT,
  which the sweep never touches. `SweepIsSound` shows this is the *only*
  divergence a crash can leave.
* `TornTailsPreserved` (`record`): a second tail torn at the same frontier, or
  one whose save was interrupted, is truncated unsaved.
* `WorstCaseBoundsWalk` (`walk`): the loader's worst case underestimates the
  walk. `VisitsPaidFor` is the bound that holds.
* `ModelNeverBreaches` (`walk`): `@stay` on a provider-error edge, or on a gated
  turns-exhausted edge, sends ordinary model behaviour to the fatal-breach path.
* `InvariantEndsFailed` (`task_runtime`): a task whose COMPLETED decision
  reached the stream while its fsync or its manifest write failed is reported
  FAILED; recovery finishes the record COMPLETED. `ReportedIsRecorded` shows
  that this and a FAILED_PARTIAL whose decision to fail landed are the only ways
  report and record can part, and that each takes a failed disk operation.
* `PresentIsDurable` (`object_store`): `HasObject` "reports durable presence"
  (`state/store.go:173`) and asks `os.Stat`; a linked object whose directory is
  not synced is present and is lost with the power. `ReferencesSurvive` holds
  all the same, because callers refer only to what StoreObject returned to them.

Behaviour that a reader of the properties should know, because a property
names it as an exception or is silent about it:

* A tool that timed out goes on. It may write after its audit says it failed,
  and its rollback may undo a later authorised write. `TraceExplainsArtifact`
  holds for every file that no such call named.
* A failed undo of a patch is silent, and so is a file that could not be read
  for the undo journal: `PatchAllOrNothing` holds unless one of these happened.
* Two tasks that load the contract registry around an append to it can check it
  in the other order; the later check then reports tampering
  (`verification/seam/seam.go:139-156`) though nobody tampered, and that task
  fails. What is used only grows all the same (`UsedRegistriesGrow`).
* An empty report is evaluated and recorded but never reconstructs, since an
  object of no bytes is no evidence: the exception in `EvaluationsReconstruct`.
* A lost instruction object makes the reconstruction of a delegation answer
  DISCREPANCY, not that an input is missing: the exception in
  `LiveRecordsReconstruct`. An instantiation that fails after its call timed out
  leaves its error for the next call, which then takes the invariant path.
* `Open` reads the anchors registry three times and records the third reading.
  `IdentityIsFinal` excepts an Open under which the registry was rewritten
  against its own append-only rule. A crash in the middle of the recording
  leaves a file that no later Open accepts.
* The instruction roots and the policy are read again after they were hashed;
  `ExecutesTheDeployment` excepts a rewrite in between.
* When a later source of a slot yields nothing, Gather calls the slot
  unavailable and Compose shows none of what the earlier ones put there, though
  it still counts against the caps (`context/gather.go:114-124`). No caller
  plans such a slot; `GatheredIsThePlan` speaks of what is gathered.
* A payload may exceed the cap of `LoadEnvelope` though its schema allows it,
  and a template may write an empty workspace, which L9 accepts and L7 refuses:
  the exceptions in `EmittedIsAdmitted`.

## 5. Proofs

All theorems are for every value of the constants the named assumptions allow,
checked by TLAPS. TLC evaluates the assumptions on the instances it checks.

`DurableStateProofs`. The invariants of the record are not inductive alone:
that the writer may append at `Len(chain)` is true because `chain` *is* the
durable stream while no append has failed and no recovery is between its parse
and its end. `Ownership` states that, with the typing it rests on, and the
other theorems follow: `Durability`, `SingleAppender`, `Lawfulness` (the
decision rules of both appenders relate the stream's last decision to the
status each holds), `StreamAppendOnly` (truncation cuts exactly the torn bytes). `SettledRecordsStay` needs to know more: that every
place from which the record could still be written - the open handle, its
projection in progress, a recovery at each of its steps - knows that a record
whose manifest is terminal is settled. `SettledInv` says it place by place; the
property is then that no step from such a place writes. Assumptions: `None` is
neither an object nor a status nor a manifest; the bounds are naturals, of any
size.

The sweep is proved over the record it drives. `SweepImplementsRecord`: every
step of `StartupSweep` is a step of `DurableState` or leaves it alone, so what
the record promises holds under the sweep. `RestInv` adds what a cold reader
finds: the manifest on disk claims nothing that the stream does not say, and
its artifact list is the first part of what the stream binds (`RecordsAtRest`);
for that it must be known what the writer's copy lists and recovery's.
`SweepInv` says which parts may run in which phase of Open, that a recovery of
the sweep starts from a complete list and keeps it so, and that what it
listed as closed is; `SweepIsSoundAlways` and
`ListedRecordsStay` follow. `boundArtifacts` is a recursive function over the
stream: what an appended event adds to it, and that bytes read twice yield one
list, are lemmas by induction on the length.

`WorkflowWalkProofs`. `IInv` adds to the type invariant that the definition was
loaded and the budget of visits: visits so far plus phases still ahead of the
cursor are paid for by one pass over the definition and one per counter fired.
Each transition is forward, which keeps the budget, or fires a counter, which
buys a pass. `EdgeMapIsTotal` is the static totality the loop's two invariant
checks rely on: for every definition that loads, they are unreachable.
`RecordTellsTheWalk` is proved from `RecordInv`: the record so far can be
rederived, and what the walk holds in memory - the cursor, the latest outcomes,
whether it ended - is what the record says last. An appended entry changes none
of what is said of the entries before it (`PrefixSays`), a move makes its
target the place led to (`LastMoveLeads`), an evaluation the latest outcome of
its contract (`LastEvaluationDecides`).
Assumptions: at least one phase, quotas are naturals, outcomes are not names of
other events.

`ObjectStoreProofs`. The inductive invariant relates the three places an object
passes through: what is linked is whole and was flushed before the link, a
writer that is at its directory sync has its object linked, and whatever was
acknowledged is linked and durable. `NeverPoisoned` and the refinement follow:
only `DirSync` acknowledges, only `Link` publishes, and `PowerFails`, which
keeps what is durable, is the abstract `Lose`. `ReferencesAlwaysSurvive` needs
one thing more: an address that a task holds was confirmed to it, and a power
failure that could take the object takes the task, so what it refers to is among
what was acknowledged and hence linked, whole and durable.

`TaskRuntimeProofs`. The environment's invariant makes the in-flight count the
number of callers inside an operation: only then does a count of zero at the
seal say that nothing runs, and since a sealed environment admits no one, that
it stays so (`EgressReadsStable`). `Control` ties SubmitTask's place to the
machine's state, which no caller of ExecGit can move once it left ACTIVE
(`TaskLeavesNothing`). `RecordShowsMachine` compares two histories: the
edges the machine went through, and those its record shows. `ShowInv` says that
before the witness is attached the buffer shows all of them and the record
none, that afterwards the record shows all of them while no append has failed
and a prefix of them otherwise, and where on its one way the machine stands at
each place of SubmitTask, so that a record that says COMPLETED shows the whole
of it (`RecordAlwaysShowsMachine`). What
the record shows is a recursive function with an append law of its own
(`Recorded`). `ReportFollowsRecord` rests on two facts: nobody but a
lifecycle transition writes a decision, whatever else is appended and when
(`SaysNoMore`); and a record that says COMPLETED before SubmitTask returns is
on the invariant path (`Story`). `Standing` accounts for the faults: a decision,
committed or landed, leaves a stream that takes no more, so there is one at most
(`Once`); until SubmitTask returns, the stream is closed only after a fault
(`Whole`), every step that decides nothing preserves that (`Quiet`), and so a
decision that was refused was refused by the disk (`RefusalIsFault`). Assumptions: the bounds are naturals.

`ToolRunProofs`. `QuotasHold`: the jobs that were started are no more than the
calls that were counted and the one that runs and is not yet counted
(`Counted`), and what a phase's grant allows the task's grant allows
(`PhaseGrantNarrows`). `RecordsExplain` and `PatchesAreTransactions` are about
disk operations of jobs that overlap. `FilesInv`: only the last job and those
that were left write, each writes the files its call named, and on a file no
stray job named the workspace is the replay of the trace, with the progress of
the call that runs on top. `EffectInv`: while nothing strays, the workspace is
the one the patch began with and the operations up to its cursor applied to it,
and the journal holds what undoes them. Replays and patches are `FoldLeft`s,
unrolled by induction on the position reached (the well-founded induction of
the library on the least counterexample). Assumptions: a patch decodes to
writes, deletions and renames, every other call to one operation at most; the
quotas of a grant are naturals, as its loader makes them.

`VerificationProofs`. `RegistryInv`: the registry held as `prior` is the last
one used, every registry used loads, and what a task resolves under is one of
them; append-only is transitive over registries that load, so those used grow
pairwise, though the operator rewrites the file at any moment
(`RegistriesGrow`). `EvaluationInv`: a contract that is evaluated, or was, is
one of a registry used and its bytes are in the store; a token has one contract
among the registries used, so a reconstruction from the store finds the one
that was evaluated, and the latest outcome of a token is that of its last event
(`RecordsReconstruct`). `RefusalsAreVerbatim`: messages and audits of refusals
are paired in order, one to one; an event or message that is none leaves the
pairing alone and a refusal adds a last pair. Assumption: the bounds are
naturals.

`DelegationProofs`. `SeamInv` carries what was composed through the steps at
which files change and objects are lost: `Composed` is the inversion of
`compose`, what must be true of the record, of the store and of the references
when it yields no error. `NeighbourInv`: the last event is an authorized
delegation exactly while the seam works on it (`WitnessesAreNeighbours`).
`AskedInv`: from the store step on, the input is stored or was lost from the
store (`InputsAreDurable`). `TrustIsRooted` is the one that needs the record's
past: a rendering is of the worst trust of its evidence, a delegation's output
inherits it, and evidence that is governed therefore leads back to a call of a
tool of that trust. `LiveRecordsReconstruct` is proved in every state, also in
the middle of a call (`LiveRecordsAlwaysReconstruct`): `AccountInv` says of each
witness that `reconstructOne` finds the turn that asked and the call in it
(`TurnFound`), that the evidence is derived from the prefix it was derived from
(`EvidenceIs`), that the template and its members are those composed
(`TemplateIs`), and that composing again from the record gives the input that
was sent (`RecomposeIs`); what cannot be checked is an object that was lost, and is
reported as missing. A record that grows reads as it did (`StillExplained`), for
nothing it refers to lies ahead of it. Assumptions: a template file names
finitely many slots, an output's size is a number, and the mark of a registry
not at hand is no object a tool returns.

`DeploymentProofs`. `TypeOK` says which fields Open and SubmitTask hold at
which step. `RegistryInv`: each Open that recorded checked its registry against
the one recorded before, by transitivity against all before, as far as no
rewrite under an Open broke the chain (`IdentitiesAreFinal`). `AnchorInv` and
`TaskInv` say at each step which of what was read is still what the anchor
pins, and what was rewritten since; at the last step they are the two
properties (`TasksExecuteTheDeployment`, `RecordsHoldWhatExecutes`).
`EmittedIsAlwaysAdmitted` follows `Instantiate` through its checks: each check
of `LoadEnvelope`, `CheckInstance` and `SpecInstantiates` is one that the
emission passed or made true, but for the two exceptions of section 4.
`GrantsAlwaysNarrow`: `GrantInv` says that what lies beside an envelope decodes
to a grant, and so does what SubmitTask read; that one is an instance of the
registered template by `ExecutesTheDeployment`. `Narrows` relates two grants of
which one permits no more than the other: instances do once their workspace is
bound (`BoundNarrows`), and phases of them (`PhaseNarrows`); and `Authorize`
answers alike under both but for the quotas (`NarrowAuthorizes`).
Assumptions: the words that mark an absent or torn registry are not names of
registries; the instructions and the policy exist; templates and grants decode
to documents; the inputs of a request are finitely many and have lengths; calls
are counted from zero.

*Only model-checked.* Liveness under fairness (`RestartedRecordsSettle`, `Terminates`,
`SubmitReturns`, `CallsAreAnswered`) is out of this prover's reach, and the
refuted statements are false. Of the safety properties, the two of `Decisions`
have no proof: `GatheredIsThePlan` and `ManageDropsLeast` speak of what sorting
and dropping do to sequences of any content, and the prover can expand neither
`SortSeq` nor `SelectSeq` (nor `@@`), which is why the proved modules use folds,
recursive functions and function constructors. Every other invariant and every
action property that a run checks is a theorem. The type invariants of the
proved modules are theorems, and no run checks them again.

## 6. Not modelled

* L1 instructions: files are loaded, validated and rendered in one pass, and
  nothing of it outlives the result. When they are read, and what hashes them,
  is in `Deployment`.
* L11 ratchet: offline and pure; it compares recorded runs and derives a report.
* Providers and router: what they return is any answer of the model.
* Benchmarks and gate, commands and integrations: offline tooling and wiring.
  One hazard is known there: the verdict's run digest is computed after the
  scores were read (`benchmarks/internal/gate/gate.go:197`).
* Path confinement and the duplicate-key checks of the loaders: predicates on
  strings.
* `ExecutionBound` (a statement that is recorded and decides nothing), the
  catalog's `CheckAppendOnly` (no caller outside tests), unanchored deployments
  (a test role), the retention scan (it deletes nothing). `Manage` has no
  production caller at this commit and is modelled as the function it is.

## 7. What could come next

1. `GatheredIsThePlan` and `ManageDropsLeast` for every plan, once `Gather` and
   `Manage` sort with an operator whose definition the prover can expand.
2. L11's comparison as an algorithm against its reference definition.
3. One model of a task from its submission to its record's recovery: the
   modules now meet at assumptions stated in section 2, each checked on its own
   side.
