--------------------------- MODULE Authorization ---------------------------
(***************************************************************************)
(* L4's decision table (src/harness/tools): what a registry and a grant    *)
(* must be to load, when a grant instantiates a template, and what a call  *)
(* is answered.  A JSON document is the record it decodes to; a name, an   *)
(* id and a path are members of small sets, with the relations between     *)
(* them that the checks ask for given as constants.                        *)
(***************************************************************************)
EXTENDS Integers, Sequences, FiniteSets

CONSTANTS
    Confined,     \* the paths that resolve inside the workspace
    Identifiers,  \* the targets with the syntax of a Themis id
    UUIDs,        \* those with the syntax of a UUID
    Prefixed,     \* <<scope, id>>: the id starts with the scope
    References    \* the names with the syntax of an exact name@version

TargetClasses == {"workspace-path", "themis-id", "none", "delegation-template"}
ParamTypes    == {"string", "integer", "boolean"}
Untrusted     == "external-untrusted"
TrustClasses  == {Untrusted, "governed-record", "governed-external"}

\* The names of a disposition, which no schema may carry.
forbiddenParams == {"authority", "approved", "trust", "grant", "permission"}

Params(def) == {def.params[i] : i \in DOMAIN def.params}
Targets(def) == {p \in Params(def) : p.target}

\* One tool of LoadRegistry's loop, after the checks of its syntax.
ToolLoads(def) ==
    /\ ~(def.control /\ def.verifier_eligible)
    /\ def.target \in TargetClasses /\ def.trust \in TrustClasses
    /\ \A i, j \in DOMAIN def.params :
         def.params[i].name = def.params[j].name => i = j
    /\ \A p \in Params(def) :
         /\ p.name \notin forbiddenParams /\ p.type \in ParamTypes
         /\ p.target => p.type = "string"
    /\ Cardinality(Targets(def)) = IF def.target = "none" THEN 0 ELSE 1
    /\ def.target = "delegation-template" =>
         /\ def.trust = Untrusted
         /\ ~def.verifier_eligible /\ ~def.mutating /\ ~def.control
    /\ def.control => def.params = << >> /\ def.target = "none" /\ ~def.mutating

\* A registry maps its tools' names to their definitions.
LoadRegistry(reg) == DOMAIN reg # {} /\ \A t \in DOMAIN reg : ToolLoads(reg[t])

\* What LoadGrant and parseGrantShape ask alike; they differ in workspaces.
GrantShape(grant) ==
    /\ DOMAIN grant.entries # {} /\ grant.total \in Nat \ {0}
    /\ \A t \in DOMAIN grant.entries :
         /\ grant.entries[t].max \in Nat \ {0}
         /\ grant.entries[t].templates \subseteq References

LoadGrant(grant) ==
    /\ GrantShape(grant)
    /\ \A t \in DOMAIN grant.entries :
         grant.entries[t].workspace \in {"", "absolute"}

parseGrantShape(grant) ==
    /\ GrantShape(grant)
    /\ \A t \in DOMAIN grant.entries :
         grant.entries[t].workspace \in {"", "@workspace"}

\* Mutant: the scope of templates is not compared.
InstantiatesButScope(eff, tpl, task) ==
    /\ parseGrantShape(eff) /\ parseGrantShape(tpl)
    /\ tpl.task = "@task_id" /\ eff.task = task
    /\ eff.version = tpl.version /\ eff.total <= tpl.total
    /\ DOMAIN eff.entries = DOMAIN tpl.entries
    /\ \A t \in DOMAIN eff.entries :
         LET e == eff.entries[t]  f == tpl.entries[t] IN
         e.max <= f.max /\ [e EXCEPT !.max = 0, !.templates = {}]
                              = [f EXCEPT !.max = 0, !.templates = {}]

\* eff is tpl for one task: quotas narrow and the rest is equal.
Instantiates(eff, tpl, task) ==
    /\ parseGrantShape(eff) /\ parseGrantShape(tpl)
    /\ tpl.task = "@task_id" /\ eff.task = task
    /\ eff.version = tpl.version /\ eff.total <= tpl.total
    /\ DOMAIN eff.entries = DOMAIN tpl.entries
    /\ \A t \in DOMAIN eff.entries :
         LET e == eff.entries[t]  f == tpl.entries[t] IN
         e.max <= f.max /\ [e EXCEPT !.max = 0] = [f EXCEPT !.max = 0]

-----------------------------------------------------------------------------
(* The answer to a call: what the model may see of a decision.             *)

Deny(class, detail) == [denial |-> class, detail |-> detail]
Allow               == [denial |-> "", detail |-> ""]

NotAvailable == Deny("not-available", "")

\* Registry, grant, the mutating flag, and the quotas of the task.
Available(reg, grant, tool, state) ==
    /\ tool \in DOMAIN reg /\ tool \in DOMAIN grant.entries
    /\ reg[tool].mutating => grant.entries[tool].mutating
    /\ state.calls[tool] < grant.entries[tool].max
    /\ state.total < grant.total

InScope(scopes, id) ==
    \E s \in scopes : IF s = "uuid" THEN id \in UUIDs ELSE <<s, id>> \in Prefixed

\* Class rule and instance scope; the evidence references by their shape.
TargetAnswer(def, entry, call) ==
    LET refused == Deny("target-refused", call.target) IN
    CASE def.target = "workspace-path" ->
           IF entry.workspace = "" THEN NotAvailable
           ELSE IF call.target \in Confined THEN Allow ELSE refused
      [] def.target = "themis-id" ->
           IF call.target \in Identifiers /\ InScope(entry.themis, call.target)
           THEN Allow ELSE refused
      [] def.target = "delegation-template" ->
           IF call.target \notin References \cap entry.templates THEN refused
           ELSE IF call.evidence = "misshapen" THEN Deny("invalid-args", "evidence")
           ELSE Allow
      [] OTHER -> Allow

\* Arguments as a partial function from names to types.
BadParams(def, args) ==
    {i \in DOMAIN def.params :
        LET p == def.params[i] IN
        IF p.name \in DOMAIN args THEN args[p.name] # p.type ELSE p.required}

Unknown(def, args) == DOMAIN args \ {p.name : p \in Params(def)}

\* The answers a call may get once it is available.  An unknown field is
\* named by whichever the iteration over a Go map meets first.
ArgsAnswers(def, entry, call) ==
    LET bad == BadParams(def, call.args) IN
    IF ~call.object THEN {Deny("invalid-args", "")}
    ELSE IF Unknown(def, call.args) # {}
    THEN {Deny("invalid-args", field) : field \in Unknown(def, call.args)}
    ELSE IF bad # {}
    THEN {Deny("invalid-args", def.params[i].name) :
            i \in {i \in bad : \A j \in bad : i <= j}}
    ELSE {TargetAnswer(def, entry, call)}

Authorize(reg, grant, call, state) ==
    IF ~Available(reg, grant, call.tool, state) THEN {NotAvailable}
    ELSE ArgsAnswers(reg[call.tool], grant.entries[call.tool], call)

Authorizes(reg, grant, call, state) ==
    Allow \in Authorize(reg, grant, call, state)

\* The narrowing of the task's grant to the capabilities of a phase.
phaseGrant(grant, capabilities) ==
    [grant EXCEPT !.entries =
        [t \in DOMAIN grant.entries \cap capabilities |-> grant.entries[t]]]

=============================================================================
