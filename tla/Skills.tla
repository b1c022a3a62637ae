------------------------------- MODULE Skills -------------------------------
(***************************************************************************)
(* L9 (src/harness/skills): the catalog, the manifests it registers, the   *)
(* schema of a skill's inputs, and Instantiate, which compiles one         *)
(* registered composition into an envelope; with the two contracts it      *)
(* leans on, L5's ProvisionSpec and the decision records of the operator.  *)
(*                                                                         *)
(* A file's content stands for its SHA-256.  Contents that are not         *)
(* rewritten on the way are names, and the functions below give the        *)
(* document a name decodes to; a name outside their domain does not        *)
(* decode.  Grants and specs are the documents themselves.                 *)
(***************************************************************************)
EXTENDS Authorization, FiniteSetsExt, Functions

CONSTANTS
    Catalogs,       \* content -> catalog: version, entries
    Manifests,      \* content -> manifest: name, skill, pins
    Schemas,        \* content -> input schema: version, fields
    Recorded,       \* the targets of the decision records on disk
    TaskIDs,        \* the valid task identities
    Repos, SHAs,    \* well-formed repository names; full commit hashes
    MaxFieldLength, MaxSchemaFields, MaxEnumValues,
    IntegerInputs,  \* the integers an input may be
    PayloadCap      \* the cap LoadEnvelope puts on a payload

Members == {"workflow", "workflow_ceiling", "context_contract",
            "grant_template", "spec_template", "input_schema", "procedure"}

Entries(doc) == {doc.entries[i] : i \in DOMAIN doc.entries}
Key(e)       == <<e.name, e.version>>

-----------------------------------------------------------------------------
(* Decisions: a record cited by an entry exists and targets that entry.    *)

Bind(e, hash) == e.decision = <<e.name, e.version, hash>> /\ e.decision \in Recorded

-----------------------------------------------------------------------------
(* L5's ProvisionSpec (src/harness/execution/artifacts.go).                *)

Dimensions == {"wall_deadline_s", "cpu_time_s", "mem_bytes", "disk_bytes",
               "file_bytes", "proc_count"}

Enforced(l) == l.strength \in {"", "enforced"}

Limits(spec) == {spec.limits[i] : i \in DOMAIN spec.limits}
Deadlines(spec) == {i \in DOMAIN spec.limits :
                      spec.limits[i].dimension = "wall_deadline_s"}

parseSpec(spec) ==
    /\ spec.version >= 1 /\ spec.task # "" /\ spec.repo \in Repos
    /\ spec.sha \in SHAs
    /\ \A i, j \in DOMAIN spec.limits :
         spec.limits[i].dimension = spec.limits[j].dimension => i = j
    /\ \A l \in Limits(spec) :
         /\ l.dimension \in Dimensions /\ l.value > 0
         /\ l.strength \in {"", "enforced", "observed"}
    /\ \E l \in Limits(spec) : l.dimension = "wall_deadline_s" /\ Enforced(l)

\* The last limit of a dimension: what the map of template limits keeps.
Limit(spec, dim) ==
    spec.limits[Max({i \in DOMAIN spec.limits : spec.limits[i].dimension = dim})]

SpecInstantiates(eff, tpl) ==
    /\ tpl.task = "@task_id" /\ tpl.repo = "@repo" /\ tpl.sha = "@pinned_sha"
    /\ eff.version = tpl.version /\ Len(eff.limits) = Len(tpl.limits)
    /\ \A l \in Limits(eff) :
         /\ l.dimension \in {t.dimension : t \in Limits(tpl)}
         /\ LET t == Limit(tpl, l.dimension) IN
            /\ Enforced(l) = Enforced(t)
            /\ IF l.dimension = "wall_deadline_s"
               THEN l.value \in 1..t.value ELSE l.value = t.value

-----------------------------------------------------------------------------
(* The catalog and its manifests.  disk maps paths to contents.            *)

LoadCatalog(content) ==
    /\ content \in DOMAIN Catalogs
    /\ LET cat == Catalogs[content] IN
       /\ cat.version >= 1
       /\ \A i, j \in DOMAIN cat.entries :
            Key(cat.entries[i]) = Key(cat.entries[j]) => i = j
       /\ \A e \in Entries(cat) :
            /\ e.version >= 1 /\ e.state \in {"active", "withdrawn"}
            /\ IF cat.version >= 2 THEN Bind(e, e.composition)
               ELSE e.decision = << >>

LoadManifest(content) ==
    /\ content \in DOMAIN Manifests
    /\ Manifests[content].skill >= 1
    /\ DOMAIN Manifests[content].pins = Members

\* What is registered under an exact reference: one entry, or none.
Named(cat, ref) == {e \in Entries(cat) : Key(e) = ref}

\* The manifest Resolve returns, in memory from here on; or none.
Resolve(cat, disk, ref) ==
    {Manifests[e.composition] :
       e \in {e \in Named(cat, ref) :
               /\ e.state = "active" /\ e.path \in DOMAIN disk
               /\ LoadManifest(disk[e.path]) /\ disk[e.path] = e.composition
               /\ <<Manifests[disk[e.path]].name, Manifests[disk[e.path]].skill>> = ref}}

\* A member of the composition is read at its path and held to its pin.
PinHolds(m, disk, member) ==
    m.pins[member].path \in DOMAIN disk
        /\ disk[m.pins[member].path] = m.pins[member].sha

-----------------------------------------------------------------------------
(* The inputs of a skill.  An input is [type, len, value].                 *)

Fields(schema) == {schema.fields[i] : i \in DOMAIN schema.fields}

parseSchema(content) ==
    /\ content \in DOMAIN Schemas
    /\ LET s == Schemas[content] IN
       /\ Len(s.fields) \in 1..MaxSchemaFields
       /\ \A i, j \in DOMAIN s.fields : s.fields[i].name = s.fields[j].name => i = j
       /\ \A f \in Fields(s) :
            /\ f.type \in ParamTypes /\ Cardinality(f.enum) <= MaxEnumValues
            /\ IF f.type = "string" THEN f.max \in 1..MaxFieldLength
               ELSE f.max = 0 /\ f.enum = {}

Validate(schema, inputs) ==
    /\ DOMAIN inputs \subseteq {f.name : f \in Fields(schema)}
    /\ \A f \in Fields(schema) :
         IF f.name \notin DOMAIN inputs THEN ~f.required
         ELSE LET v == inputs[f.name] IN
              /\ v.type = f.type
              /\ f.type = "string" => /\ v.len <= f.max
                                      /\ f.enum # {} => v.value \in f.enum
              /\ f.type = "integer" => v.value \in IntegerInputs

\* The bytes of the payload, the encoding's own left out.
PayloadSize(inputs) == MapThenSumSet(LAMBDA n : inputs[n].len, DOMAIN inputs)

-----------------------------------------------------------------------------
(* The two templates, bound to a task.  In a raw grant an entry without a  *)
(* workspace key has workspace "none"; it decodes to the empty string.     *)

Decoded(raw) ==
    [raw EXCEPT !.entries = [t \in DOMAIN raw.entries |->
        IF raw.entries[t].workspace = "none"
        THEN [raw.entries[t] EXCEPT !.workspace = ""] ELSE raw.entries[t]]]

\* What a raw grant decodes to has these fields, whatever it says.
GrantDocument(raw) ==
    /\ DOMAIN raw = {"version", "task", "total", "entries"}
    /\ \A t \in DOMAIN raw.entries :
         DOMAIN raw.entries[t] = {"max", "workspace", "themis", "mutating", "templates"}

SumOfCaps(grant) ==
    MapThenSumSet(LAMBDA t : grant.entries[t].max, DOMAIN grant.entries)

GrantTemplateBinds(tpl, overrides) ==
    /\ tpl.task = "@task_id"
    /\ \A t \in DOMAIN overrides :
         t \in DOMAIN tpl.entries /\ overrides[t] \in 1..tpl.entries[t].max

instantiateGrantTemplate(tpl, task, overrides) ==
    LET caps == [tpl EXCEPT !.task = task,
                   !.entries = [t \in DOMAIN tpl.entries |->
                      IF t \in DOMAIN overrides
                      THEN [tpl.entries[t] EXCEPT !.max = overrides[t]]
                      ELSE tpl.entries[t]]]
    IN [caps EXCEPT !.total = Min({caps.total, SumOfCaps(caps)})]

checkGrantShape(eff, task) ==
    /\ eff.version >= 1 /\ eff.task = task /\ DOMAIN eff.entries # {}
    /\ eff.total > 0 /\ eff.total <= SumOfCaps(eff)
    /\ \A t \in DOMAIN eff.entries :
         /\ eff.entries[t].max > 0
         /\ eff.entries[t].workspace \in {"none", "", "@workspace"}

SpecTemplateBinds(tpl, wall) ==
    /\ tpl.task = "@task_id" /\ tpl.repo = "@repo" /\ tpl.sha = "@pinned_sha"
    /\ wall > 0 => /\ Cardinality(Deadlines(tpl)) = 1
                   /\ wall <= Limit(tpl, "wall_deadline_s").value

instantiateSpecTemplate(tpl, task, repo, sha, wall) ==
    [tpl EXCEPT !.task = task, !.repo = repo, !.sha = sha,
       !.limits = [i \in DOMAIN tpl.limits |->
          IF wall > 0 /\ i \in Deadlines(tpl)
          THEN [tpl.limits[i] EXCEPT !.value = wall] ELSE tpl.limits[i]]]

-----------------------------------------------------------------------------
(* The envelope.                                                           *)

Origins == {"skill", "skill_composition", "skill_catalog"}

SealedFields == Members \cup {"grant", "spec"}

\* Mutant: the commitment seals the template and not what was made of it.
sealTemplate(m, grant, spec) ==
    [f \in SealedFields |->
        CASE f = "grant" -> m.pins["grant_template"].sha
          [] f = "spec"  -> spec
          [] OTHER       -> m.pins[f].sha]

\* The identities of the composition; its seal is a hash over all of them.
sealedComposition(m, grant, spec) ==
    [f \in SealedFields |->
        CASE f = "grant" -> grant
          [] f = "spec"  -> spec
          [] OTHER       -> m.pins[f].sha]

\* What is asked of a request by itself; of its roots, that none of those a
\* task can write to meets the catalog's.
RequestHolds(req) ==
    /\ req.task \in TaskIDs /\ req.retry \in TaskIDs \cup {""}
    /\ req.repo \in Repos /\ req.sha \in SHAs
    /\ req.model # "" /\ req.turn > 0 /\ req.disjoint

\* What is asked of the composition before anything is made of it.
CompositionHolds(m, disk, req) ==
    /\ \A member \in Members : PinHolds(m, disk, member)
    /\ parseSchema(m.pins["input_schema"].sha)
    /\ Validate(Schemas[m.pins["input_schema"].sha], req.inputs)
    /\ GrantTemplateBinds(m.pins["grant_template"].sha, req.overrides)
    /\ SpecTemplateBinds(m.pins["spec_template"].sha, req.wall)

\* What is asked of the two files it writes.
InstanceHolds(m, grant, spec, req) ==
    /\ parseSpec(spec) /\ spec.task = req.task
    /\ SpecInstantiates(spec, m.pins["spec_template"].sha)
    /\ checkGrantShape(grant, req.task)
    /\ Instantiates(Decoded(grant), Decoded(m.pins["grant_template"].sha), req.task)

\* The envelope, with the two files beside it; a reference is a path.
Envelope(m, grant, spec, req) ==
    LET sealed == sealedComposition(m, grant, spec) IN
    [task |-> req.task, model |-> req.model, turn |-> req.turn,
     payload |-> PayloadSize(req.inputs), skill |-> req.skill,
     origin |-> [k \in Origins |-> req.skill],
     paths |-> [l \in {"workflow", "workflow_ceiling", "context_contract",
                       "procedure"} |-> m.pins[l].path],
     procedure |-> <<m.pins["procedure"].sha>>,
     composition |-> <<[fields |-> sealed, seal |-> sealed]>>,
     grant |-> grant, spec |-> spec]

Files(m, req) ==
    {<<instantiateGrantTemplate(m.pins["grant_template"].sha, req.task, req.overrides),
       instantiateSpecTemplate(m.pins["spec_template"].sha, req.task, req.repo,
                               req.sha, req.wall)>>}

\* The envelope that Instantiate writes for a request, or none: from one
\* reading of the catalog, by way of files each held to its pin.
Instantiate(disk, req) ==
    IF ~LoadCatalog(disk["catalog"]) \/ ~RequestHolds(req) THEN {}
    ELSE UNION {{Envelope(m, f[1], f[2], req) :
                   f \in {f \in Files(m, req) : InstanceHolds(m, f[1], f[2], req)}} :
                m \in {m \in Resolve(Catalogs[disk["catalog"]], disk, req.skill) :
                         CompositionHolds(m, disk, req)}}

=============================================================================
