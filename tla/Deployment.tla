----------------------------- MODULE Deployment -----------------------------
(***************************************************************************)
(* G1 and the assembly boundary of L7: an orchestrator opens under a       *)
(* deployment anchor that Governance registered, and SubmitTask accepts a  *)
(* task only of artifacts that the anchor, or the catalog it pins, names.  *)
(*                                                                         *)
(* Everything is read from files that others may rewrite between any two   *)
(* reads, and most files are read more than once: the actions are split    *)
(* where a file is read again, and Edit may come in between.  Reads of     *)
(* different files in one action commute with any edit that falls between  *)
(* them.  What was opened, and what a task was admitted with, is in        *)
(* memory; the registry last observed is on the orchestrator's disk.       *)
(***************************************************************************)
EXTENDS Skills, SequencesExt

CONSTANTS
    Registries,     \* content -> anchors registry: version, entries
    Anchors,        \* content -> anchor
    ToolRegistries, Workflows, WorkflowCeilings, Contracts, Ceilings,
                    \* content -> document
    Templates,      \* delegation registry content -> the references in it
    ControlVerbs, VerificationEvents,
    Configured,     \* the labels of the plane the configuration has a path for
    Compiled,       \* the constitutions compiled into the binary
    Expected,       \* the anchor hashes an operator starts it with
    Verifier, Delegator,    \* are these seams wired
    Initial,        \* path -> content: the files at first
    Versions,       \* path -> contents somebody may write there
    Requests,       \* the requests made of L9
    HandMade,       \* envelopes of other submitters, with their files
    Calls, Usages,  \* a model's calls; what a task may have used before one
    MaxOpens, MaxEdits

\* The two marks of an observed state are no registry, a deployment has its
\* instruction roots and its policy, a template and a grant decode to
\* documents, the inputs of a request are finitely many and have lengths,
\* and calls are counted from zero.
ASSUME DeploymentAssumption ==
    /\ {"none", "torn"} \cap DOMAIN Registries = {}
    /\ {"instructions", "policy", "grant"} \subseteq DOMAIN Initial
    /\ \A c \in DOMAIN Manifests :
         "grant_template" \in DOMAIN Manifests[c].pins =>
            GrantDocument(Manifests[c].pins["grant_template"].sha)
    /\ GrantDocument(Initial["grant"]) /\ \A env \in HandMade : GrantDocument(env.grant)
    /\ "grant" \in DOMAIN Versions => \A c \in Versions["grant"] : GrantDocument(c)
    /\ PayloadCap \in Nat
    /\ \A req \in Requests :
         /\ IsFiniteSet(DOMAIN req.inputs)
         /\ \A n \in DOMAIN req.inputs : req.inputs[n].len \in Nat
    /\ \A used \in Usages :
         used.total \in Nat /\ \A call \in Calls : used.calls[call.tool] \in Nat

VARIABLES
    disk,       \* path -> content
    observed,   \* the registry last observed: a content, "none" or "torn"
    orch,       \* the orchestrator: pc, and what Open holds in memory
    seen,       \* history: the readings of the registry, per recording
    offer,      \* the envelope offered to SubmitTask, if any
    task,       \* the task in SubmitTask: pc, and what it holds in memory
    record,     \* the durable record of the task: << >> or its objects
    edits       \* history: how many edits were made

vars == <<disk, observed, orch, seen, offer, task, record, edits>>

\* r with the fields of e: what a step adds to what is held in memory.
With(r, e) == [k \in DOMAIN r \cup DOMAIN e |-> IF k \in DOMAIN e THEN e[k] ELSE r[k]]

NoTask  == [pc |-> "none"]
Refused == [pc |-> "refused"]
Closed  == [pc |-> "closed"]

Init ==
    /\ disk = Initial /\ observed = "none" /\ orch = Closed /\ seen = << >>
    /\ offer = << >> /\ task = NoTask /\ record = << >> /\ edits = 0

-----------------------------------------------------------------------------
(* The anchors registry.                                                   *)

parseRegistry(content) ==
    /\ content \in DOMAIN Registries
    /\ LET reg == Registries[content] IN
       /\ reg.version >= 1
       /\ \A e \in Entries(reg) : e.version >= 1 /\ e.state \in {"active", "withdrawn"}
       /\ \A i, j \in DOMAIN reg.entries :
            LET e == reg.entries[i]  f == reg.entries[j] IN
            Key(e) = Key(f) \/ e.artifact = f.artifact => i = j

LoadRegistryOf(content) ==
    /\ parseRegistry(content)
    /\ Registries[content].version >= 2 =>
         \A e \in Entries(Registries[content]) : Bind(e, e.artifact)

CheckAppendOnly(cur, prior) ==
    \A p \in Entries(prior) : \E e \in Entries(cur) :
       /\ Key(e) = Key(p) /\ e.artifact = p.artifact
       /\ p.state = "withdrawn" => e.state = "withdrawn"

\* Mutant: an observed state that does not parse counts as none.
ObservedOrNone == observed = "none" \/ ~parseRegistry(observed)

\* No file, or none that can be read, is no prior; a torn one is an error.
NoPrior == observed = "none"

PriorHolds(cur) ==
    IF NoPrior THEN TRUE
    ELSE parseRegistry(observed)
         /\ CheckAppendOnly(Registries[cur], Registries[observed])

-----------------------------------------------------------------------------
(* Anchors.                                                                *)

Plane    == {"instructions", "policy", "models", "delegations", "themis"}
Optional == {"models", "delegations", "themis"}
Seams    == {"delegations", "themis"}  \* wired objects with a hash of their own

ParseAnchor(content) ==
    /\ content \in DOMAIN Anchors
    /\ LET a == Anchors[content] IN
       /\ a.deployment >= 1 /\ DOMAIN a.pins = Plane
       /\ \A l \in Plane \ Optional : a.pins[l] # "absent"
       /\ a.bundles # {} /\ a.models # {}
       /\ \A b, c \in a.bundles : b.workflow = c.workflow => b = c

AdmitAnchor(content, expected, reg) ==
    /\ content = expected /\ ParseAnchor(content)
    /\ LoadRegistryOf(reg)
    /\ \E e \in Entries(Registries[reg]) :
         /\ e.artifact = content /\ e.state # "withdrawn"
         /\ Key(e) = <<Anchors[content].name, Anchors[content].deployment>>

\* What a cold reader establishes of a record: withdrawal is no matter.
VerifyAnchorRecord(content, reg) ==
    /\ ParseAnchor(content) /\ LoadRegistryOf(reg)
    /\ \E e \in Entries(Registries[reg]) :
         e.artifact = content /\ Key(e) = <<Anchors[content].name,
                                            Anchors[content].deployment>>

\* An optional label is declared absent exactly when it is not configured.
verifyAnchoredInstructionPlane(a, held) ==
    /\ a.constitution = Compiled
    /\ \A l \in Plane :
         IF a.pins[l] = "absent" THEN l \notin Configured
         ELSE l \in Configured /\ disk[l] = a.pins[l]
    /\ \A l \in Seams : a.pins[l] # "absent" => held[l] = a.pins[l]

-----------------------------------------------------------------------------
(* Open.  moved collects the paths that were rewritten meanwhile.          *)

\* The seams are wired and the policy is loaded before anything is verified.
Start ==
    /\ orch.pc = "closed"
    /\ \E x \in Expected : orch' =
               [pc |-> "started", expected |-> x, held |-> [l \in Seams |-> disk[l]],
                policy |-> disk["policy"], moved |-> {}]
    /\ UNCHANGED <<disk, observed, seen, offer, task, record, edits>>

\* The first reading of the registry, held against the state observed last.
ReadRegistry ==
    /\ orch.pc = "started"
    /\ LET ok == LoadRegistryOf(disk["anchors"]) /\ PriorHolds(disk["anchors"]) IN
       orch' = IF ok THEN With(orch, [pc |-> "checked", checked |-> disk["anchors"]])
               ELSE Closed
    /\ UNCHANGED <<disk, observed, seen, offer, task, record, edits>>

\* The second: the anchor is admitted by it.
Admit ==
    /\ orch.pc = "checked"
    /\ orch' = IF AdmitAnchor(disk[orch.expected], orch.expected, disk["anchors"])
               THEN With(orch, [pc |-> "admitted", anchor |-> orch.expected,
                                by |-> disk["anchors"]])
               ELSE Closed
    /\ UNCHANGED <<disk, observed, seen, offer, task, record, edits>>

VerifyPlane ==
    /\ orch.pc = "admitted"
    /\ LET a == Anchors[orch.anchor] IN
       orch' = IF /\ verifyAnchoredInstructionPlane(a, orch.held)
                  /\ disk["ceiling"] = a.ceiling /\ a.ceiling \in DOMAIN Ceilings
               THEN With(orch, [pc |-> "verified", ceiling |-> disk["ceiling"]])
               ELSE Closed
    /\ UNCHANGED <<disk, observed, seen, offer, task, record, edits>>

\* recordObservedRegistry: the third reading, and a write that truncates.
BeginRecording ==
    /\ orch.pc = "verified"
    /\ orch' = With(orch, [pc |-> "recording", recorded |-> disk["anchors"]])
    /\ observed' = "torn"
    /\ UNCHANGED <<disk, seen, offer, task, record, edits>>

EndRecording ==
    /\ orch.pc = "recording"
    /\ orch' = [orch EXCEPT !.pc = "recorded"]
    /\ observed' = orch.recorded
    /\ seen' = Append(seen, [checked |-> orch.checked, by |-> orch.by,
                             recorded |-> orch.recorded, anchor |-> orch.anchor])
    /\ UNCHANGED <<disk, offer, task, record, edits>>

\* The instruction roots are read here, after they were hashed.
Opened ==
    /\ orch.pc = "recorded"
    /\ orch' = With(orch, [pc |-> "open", eis |-> disk["instructions"]])
    /\ UNCHANGED <<disk, observed, seen, offer, task, record, edits>>

\* The process ends or dies: the disk is what it was.  A task that had not
\* been recorded leaves no trace, so it is enough to die before one is
\* offered.  MaxOpens is a bound.
Restart ==
    /\ orch.pc # "closed" /\ offer = << >> /\ Len(seen) < MaxOpens
    /\ orch' = Closed
    /\ UNCHANGED <<disk, observed, seen, offer, task, record, edits>>

-----------------------------------------------------------------------------
(* L9 and other submitters.  The files beside an envelope are written with *)
(* it; who made the offer is kept for the properties.                      *)

NoOffer == orch.pc = "open" /\ offer = << >> /\ record = << >>

Offer(env, by) ==
    /\ offer' = <<[env |-> env, by |-> by]>>
    /\ disk' = [disk EXCEPT !["grant"] = env.grant, !["spec"] = env.spec]
    /\ UNCHANGED <<observed, orch, seen, task, record, edits>>

InstantiateSkill ==
    /\ NoOffer
    /\ \E req \in Requests : \E env \in Instantiate(disk, req) : Offer(env, "L9")

Assemble == NoOffer /\ \E env \in HandMade : Offer(env, "other")

-----------------------------------------------------------------------------
(* LoadEnvelope and the commitment an envelope may carry.                  *)

checkSeal(c) == c.seal = c.fields

EnvelopeLoads(env) ==
    /\ env.task # "" /\ env.model # "" /\ env.turn > 0
    /\ env.payload <= PayloadCap
    /\ (env.procedure = << >>) = ("procedure" \notin DOMAIN env.paths)
    /\ DOMAIN env.origin \cap Origins # {} =>
         env.composition # << >> /\ env.skill # << >>
    /\ env.skill # << >> =>
         /\ env.composition # << >>
         /\ "skill" \in DOMAIN env.origin => env.origin["skill"] = env.skill
    /\ env.composition # << >> =>
         LET c == Head(env.composition) IN
         /\ SealedFields \ {"procedure"} \subseteq DOMAIN c.fields
         /\ ("procedure" \in DOMAIN c.fields) = (env.procedure # << >>)
         /\ checkSeal(c)

\* Mutant: the members without the procedure.
CorrespondsButProcedure(c, m) ==
    \A member \in Members \ {"procedure"} :
       member \in DOMAIN c.fields /\ c.fields[member] = m.pins[member].sha

\* Every member the manifest pins is the one the envelope commits to.
Corresponds(c, m) ==
    \A member \in Members :
       member \in DOMAIN c.fields /\ c.fields[member] = m.pins[member].sha

\* The manifest that the anchored catalog registers, if the envelope's
\* composition is that one.
verifyAnchoredSkill(a, env) ==
    {m \in IF LoadCatalog(disk["catalog"]) /\ disk["catalog"] = a.catalog
           THEN Resolve(Catalogs[disk["catalog"]], disk, env.skill) ELSE {} :
       Corresponds(Head(env.composition), m)}

-----------------------------------------------------------------------------
(* SubmitTask up to the creation of the record.  Captured are the labels   *)
(* read a second time for the record.                                      *)

Captured == {"workflow", "workflow_ceiling", "context_contract", "spec"}
Loaded   == Captured \cup {"registry", "ceiling"}

PathOf(env, label) == IF label \in DOMAIN env.paths THEN env.paths[label] ELSE label
Commits(env, label, content) ==
    env.composition # << >> => Head(env.composition).fields[label] = content

\* Every early return of SubmitTask here leaves nothing behind.
Advance(ok, next) ==
    /\ task' = IF ok THEN next ELSE Refused
    /\ UNCHANGED <<disk, observed, orch, seen, offer, record, edits>>

Submit ==
    /\ orch.pc = "open" /\ offer # << >> /\ task = NoTask
    /\ LET env  == Head(offer).env
           read == [l \in Loaded |-> disk[PathOf(env, l)]]
       IN Advance(/\ EnvelopeLoads(env)
                  /\ read["workflow"] \in DOMAIN Workflows
                  /\ read["workflow_ceiling"] \in DOMAIN WorkflowCeilings
                  /\ read["context_contract"] \in DOMAIN Contracts
                  /\ read["registry"] \in DOMAIN ToolRegistries
                  /\ LoadRegistry(ToolRegistries[read["registry"]])
                  /\ read["ceiling"] \in DOMAIN Ceilings
                  /\ parseSpec(read["spec"]),
                  [pc |-> "loaded", env |-> env, read |-> read, moved |-> {}])

AnchorAdmits ==
    /\ task.pc = "loaded"
    /\ LET a == Anchors[orch.anchor]  env == task.env  read == task.read
           skilled == env.skill # << >>
           found   == IF skilled THEN verifyAnchoredSkill(a, env) ELSE {}
       IN Advance(/\ verifyAnchoredInstructionPlane(a, orch.held)
                  /\ skilled => env.skill \in a.skills
                  /\ read["registry"] = a.registry
                  /\ read["ceiling"] = orch.ceiling
                  /\ \E b \in a.bundles : /\ b.workflow = read["workflow"]
                                          /\ b.ceiling = read["workflow_ceiling"]
                                          /\ b.contract = read["context_contract"]
                  /\ skilled \/ env.procedure = << >>
                  /\ skilled => found # {}
                  /\ env.model \in a.models,
                  With(task, [pc |-> "admitted", manifest |-> SetToSeq(found),
                              catalog |-> disk["catalog"]]))

\* Mutant: the bytes read for the record are not held to the loader's hash.
captureAny(read, label, body) == TRUE

captureVerified(read, label, body) == body = read[label]

\* The control vocabulary both ways, and what a phase that exposes a
\* verifier or a delegation asks of the workflow and of the wiring.
Assembles(reg, wf) ==
    /\ \A t \in DOMAIN reg : reg[t].control => t \in ControlVerbs
    /\ \A i \in DOMAIN wf.phases :
         LET p == wf.phases[i]
             verifies  == \E t \in p.capabilities \cap DOMAIN reg : reg[t].verifier_eligible
             delegates == \E t \in p.capabilities \cap DOMAIN reg :
                             reg[t].target = "delegation-template"
         IN /\ p.capabilities \subseteq DOMAIN reg
            /\ delegates => Delegator
            /\ verifies => Verifier /\ VerificationEvents \subseteq wf.declared \cap p.edges

Capture ==
    /\ task.pc = "admitted"
    /\ LET env == task.env
           body == [l \in Captured |-> disk[PathOf(env, l)]]
       IN Advance(/\ \A l \in Captured : captureVerified(task.read, l, body[l])
                  /\ \A l \in Captured : Commits(env, l, task.read[l])
                  /\ Contracts[task.read["context_contract"]].workflow
                       = Workflows[task.read["workflow"]].name
                  /\ Assembles(ToolRegistries[task.read["registry"]],
                               Workflows[task.read["workflow"]]),
                  With(task, [pc |-> "captured", bodies |-> body]))

\* The grant is read once; its reference and the spec's are the templates
\* that the manifest pins.
CheckInstance ==
    /\ task.pc = "captured"
    /\ LET grant == disk["grant"]  spec == task.read["spec"]
           Template(member) == Head(task.manifest).pins[member].sha
       IN Advance(/\ Commits(task.env, "grant", grant)
                  /\ task.manifest # << >> =>
                       /\ PinHolds(Head(task.manifest), disk, "grant_template")
                       /\ Instantiates(Decoded(grant), Decoded(Template("grant_template")),
                                       task.env.task)
                       /\ PinHolds(Head(task.manifest), disk, "spec_template")
                       /\ SpecInstantiates(spec, Template("spec_template"))
                  /\ spec.task = task.env.task,
                  With(task, [pc |-> "instance", grant |-> grant]))

\* instantiateGrant: the placeholder, where a workspace is written, becomes
\* the provisioned root, and nothing else may be written there.
BindsWorkspace(grant) ==
    \A t \in DOMAIN grant.entries :
       grant.entries[t].workspace \in {"none", "@workspace"}

Bound(grant) ==
    [grant EXCEPT !.entries = [t \in DOMAIN grant.entries |->
        [grant.entries[t] EXCEPT !.workspace = IF @ = "@workspace" THEN "absolute" ELSE ""]]]

ValidateAgainst(spec, ceiling) ==
    \A l \in Limits(spec) : l.value <= ceiling[l.dimension]

grantWithinCeiling(grant, ceiling) ==
    DOMAIN grant.entries \subseteq ceiling.tools /\ grant.total <= ceiling.total

TemplatesRegistered(grant) ==
    \A t \in DOMAIN grant.entries :
       grant.entries[t].templates # {} =>
          Delegator /\ grant.entries[t].templates \subseteq Templates[orch.held["delegations"]]

Provision ==
    /\ task.pc = "instance"
    /\ LET grant == Bound(task.grant) IN
       Advance(/\ ValidateAgainst(task.read["spec"], Ceilings[task.read["ceiling"]])
               /\ BindsWorkspace(task.grant) /\ LoadGrant(grant)
               /\ grant.task = task.env.task
               /\ grantWithinCeiling(grant,
                     WorkflowCeilings[task.read["workflow_ceiling"]])
               /\ TemplatesRegistered(grant),
               With(task, [pc |-> "provisioned", effective |-> grant]))

\* The roots are walked again, after AnchorAdmits hashed them; a procedure
\* is held to the commitment and to the envelope's pin.
resolveTaskEIS ==
    /\ task.pc = "provisioned"
    /\ LET env  == task.env
           proc == IF env.procedure = << >> THEN << >>
                   ELSE <<disk[PathOf(env, "procedure")]>>
       IN Advance(proc # << >> => /\ Commits(env, "procedure", Head(proc))
                                  /\ proc = env.procedure,
                  With(task, [pc |-> "resolved", procedure |-> proc,
                              eis |-> disk["instructions"]]))

\* The record takes the bytes that were captured, not those that were read.
recordMaterializedArtifacts ==
    [bodies |-> task.bodies, anchor |-> orch.anchor, grant |-> task.grant,
     procedure |-> task.procedure, manifest |-> task.manifest,
     catalog |-> task.catalog, eis |-> task.eis, effective |-> task.effective]

CreateTask ==
    /\ task.pc = "resolved"
    /\ record' = <<recordMaterializedArtifacts>>
    /\ task' = [task EXCEPT !.pc = "running"]
    /\ UNCHANGED <<disk, observed, orch, seen, offer, edits>>

-----------------------------------------------------------------------------
(* The world: anyone who may write to the governed files.  MaxEdits is a   *)
(* bound; an edit is placed where its first reader can still come, for     *)
(* until then it commutes with everything.                                 *)

OpenReads == {"anchors"} \cup Expected

\* The state of a task that reads a path last.
LastReader(p) ==
    CASE p \in {"ceiling", "registry"} -> "none"
      [] p \in Captured -> "admitted"
      [] p \in {"grant", "grant_template", "spec_template"} -> "captured"
      [] p \in {"instructions", "procedure"} -> "provisioned"
      [] OTHER -> "loaded"

Stages == <<"none", "loaded", "admitted", "captured", "instance", "provisioned">>
Stage(pc) == CHOOSE i \in DOMAIN Stages : Stages[i] = pc

Readable(p) ==
    IF orch.pc # "open" THEN p \in OpenReads \cup Plane \cup {"ceiling"}
    ELSE /\ p \notin OpenReads /\ record = << >>
         /\ task.pc \in Range(Stages) /\ Stage(task.pc) <= Stage(LastReader(p))

Moved(r, p) == IF "moved" \in DOMAIN r THEN [r EXCEPT !.moved = @ \cup {p}] ELSE r

Edit ==
    /\ edits < MaxEdits
    /\ \E p \in DOMAIN Versions : \E c \in Versions[p] :
         /\ Readable(p) /\ c # disk[p]
         /\ disk' = [disk EXCEPT ![p] = c]
         /\ orch' = IF orch.pc = "open" THEN orch ELSE Moved(orch, p)
         /\ task' = Moved(task, p)
    /\ edits' = edits + 1
    /\ UNCHANGED <<observed, seen, offer, record>>

Next ==
    \/ Start \/ ReadRegistry \/ Admit \/ VerifyPlane
    \/ BeginRecording \/ EndRecording \/ Opened \/ Restart
    \/ InstantiateSkill \/ Assemble
    \/ Submit \/ AnchorAdmits \/ Capture \/ CheckInstance \/ Provision
    \/ resolveTaskEIS \/ CreateTask
    \/ Edit

Spec == Init /\ [][Next]_vars

-----------------------------------------------------------------------------

\* The three readings of one Open tell one history.
OneHistory(s) ==
    /\ CheckAppendOnly(Registries[s.by], Registries[s.checked])
    /\ parseRegistry(s.recorded)
    /\ CheckAppendOnly(Registries[s.recorded], Registries[s.by])

\* G1, across restarts and crashes (orchestrator.go Open, anchor.go
\* CheckAppendOnly and LoadObserved): whatever is done to the registry
\* between two Opens, a name and version mean for the later one what they
\* meant for the earlier one, and what had been withdrawn governs no more.
\* An Open under whose three readings the registry was rewritten against
\* its own rule is excepted, and with it those that follow.
IdentityIsFinal ==
    \A i, j \in 1..Len(seen) :
       i < j /\ (\A k \in 1..j : OneHistory(seen[k])) =>
          /\ CheckAppendOnly(Registries[seen[j].checked], Registries[seen[i].recorded])
          /\ ~\E e \in Entries(Registries[seen[i].recorded]) :
                e.artifact = seen[j].anchor /\ e.state = "withdrawn"
          /\ VerifyAnchorRecord(seen[i].anchor, seen[j].checked)

SkillOf(a, env) ==
    Manifests[(CHOOSE e \in Named(Catalogs[a.catalog], env.skill) :
                  e.state = "active").composition]

\* D-SA-2/3/4 and Q-G1-5: whatever an envelope claims, and whichever files
\* are rewritten on the way, a task that runs under an anchor runs one of
\* its bundles with its tools and its ceiling; a skill is the composition
\* the anchored catalog registers, with the procedure that is delivered and
\* instances of the registered templates; without one no procedure is.  The
\* instruction roots are pinned unless they were rewritten in between.
ExecutesTheDeployment ==
    task.pc = "running" =>
       LET a == Anchors[orch.anchor]  env == task.env  read == task.read IN
       /\ \E b \in a.bundles : /\ b.workflow = read["workflow"]
                               /\ b.ceiling = read["workflow_ceiling"]
                               /\ b.contract = read["context_contract"]
       /\ read["registry"] = a.registry /\ read["ceiling"] = a.ceiling
       /\ env.model \in a.models
       /\ IF env.skill = << >> THEN task.procedure = << >>
          ELSE LET m == SkillOf(a, env) IN
               /\ env.skill \in a.skills
               /\ \A l \in Captured \ {"spec"} : read[l] = m.pins[l].sha
               /\ task.procedure = <<m.pins["procedure"].sha>>
               /\ Instantiates(Decoded(task.grant),
                               Decoded(m.pins["grant_template"].sha), env.task)
               /\ SpecInstantiates(read["spec"], m.pins["spec_template"].sha)
       /\ "instructions" \notin task.moved => task.eis = a.pins["instructions"]
       /\ "policy" \notin orch.moved => orch.policy = a.pins["policy"]

\* D-SA-4, to the call (instantiate.go Instantiates, assemble.go
\* instantiateGrant, loop.go phaseGrant): whatever grant a submitter puts
\* beside a skill's envelope and whoever rewrites it, and whatever the task
\* has used, a call that gets through in a phase of the running task gets
\* through under the template that the anchored catalog registers.
GrantsOnlyNarrow ==
    task.pc = "running" /\ task.env.skill # << >> =>
       LET reg == ToolRegistries[task.read["registry"]]
           pins == SkillOf(Anchors[orch.anchor], task.env).pins
       IN \A phase \in Range(Workflows[task.read["workflow"]].phases),
             call \in Calls, used \in Usages :
             Authorizes(reg, phaseGrant(task.effective, phase.capabilities), call, used)
                => Authorizes(reg, Decoded(pins["grant_template"].sha), call, used)

\* R-L9-2 (captureVerified): the record holds the bytes that execute, also
\* when a file changes between its loading and its capture, and with them
\* the evidence that the anchor and the catalog give them their meaning.
RecordHoldsWhatExecutes ==
    task.pc = "running" =>
       LET r == Head(record) IN
       /\ \A l \in Captured : r.bodies[l] = task.read[l]
       /\ r.effective = Bound(r.grant) /\ r.procedure = task.procedure
       /\ ParseAnchor(r.anchor) /\ r.eis = task.eis
       /\ r.manifest # << >> => r.catalog = Anchors[r.anchor].catalog

\* "L9 can never emit an envelope the admission relation refuses"
\* (instantiate.go): every envelope that Instantiate writes loads, keeps
\* the seal, commits to the files beside it and binds its workspace.  Two
\* exceptions the code leaves: a payload over the cap, which no bound of
\* the schema excludes, and a template that writes an empty workspace.
EmittedIsAdmitted ==
    offer # << >> /\ Head(offer).by = "L9" =>
       LET env == Head(offer).env
           wrote == \E t \in DOMAIN env.grant.entries :
                       env.grant.entries[t].workspace = ""
       IN \/ env.payload > PayloadCap
          \/ wrote
          \/ /\ EnvelopeLoads(env)
             /\ Commits(env, "grant", env.grant) /\ Commits(env, "spec", env.spec)
             /\ env.spec.task = env.task
             /\ BindsWorkspace(env.grant) /\ LoadGrant(Bound(env.grant))

=============================================================================
