--------------------------- MODULE DelegationSeam ---------------------------
(***************************************************************************)
(* L8 as functions of a task's record and of the files about it            *)
(* (src/harness/subagents/delegation): the template registry, what a       *)
(* delegation composes, the closure of its witness and its reconstruction. *)
(* Bytes are the values they encode, so a hash is the value itself; a      *)
(* record is the sequence of its events and an event's seq its place.      *)
(***************************************************************************)
EXTENDS Context, FiniteSetsExt

CONSTANTS
    ToolTrust,      \* tool |-> the trust the registry in force gives it
    ToolsHash,      \* the hash of that registry
    ParentEIS,      \* scope |-> the instruction the parent resolved
    ParentCeiling,  \* the sensitivity ceiling of the parent's contract
    SizeOf(_)       \* the size of an object

Untrusted == "external-untrusted"
NoPin     == "none"
NoObject  == << >>
NoFile    == << >>
Unreadable == 0        \* of an instruction root

Mandatory == {"harness-safety", "harness-system", "themis-domain"}
carryScopes == {"repository", "directory", "skill"}

-----------------------------------------------------------------------------
(* Templates and their registry.                                           *)

\* parseManifest and bind: a manifest with the members it pins.
TemplateLoads(t) ==
    /\ t.carry \subseteq carryScopes
    /\ t.max_brief \in 1..MaxItemBytes /\ t.max_output \in 1..MaxItemBytes
    /\ validate(t.contract)
    /\ \E s \in Named(t.contract, t.brief) : ~s.withhold /\ s.classes = {Untrusted}

LoadRegistry(reg) ==
    \A i, j \in DOMAIN reg :
        /\ reg[i].ref = reg[j].ref => i = j
        /\ reg[i].state \in {"active", "withdrawn"}

CheckAppendOnly(reg, prior) ==
    \A p \in Range(prior) : \E e \in Range(reg) :
        /\ e.ref = p.ref /\ e.template = p.template
        /\ p.state = "withdrawn" => e.state = "withdrawn"

Entries(reg, ref) == {e \in Range(reg) : e.ref = ref}

\* Assembly asks for a registration, current or withdrawn.
Registered(reg, ref) == Entries(reg, ref) # {}

Is(reason) == [reason |-> reason]

\* From the registry as it was loaded and the files as they are: dir holds
\* the manifest with its members, or NoFile, at the path of each entry.
Resolve(reg, dir, ref) ==
    LET entry == CHOOSE e \in Entries(reg, ref) : TRUE
        t == dir[ref][1]
    IN
    IF Entries(reg, ref) = {} THEN Is("template-unresolvable")
    ELSE IF entry.state = "withdrawn" THEN Is("template-withdrawn")
    ELSE IF dir[ref] = NoFile THEN Is("template-unresolvable")
    ELSE IF ~TemplateLoads(t) THEN Is("template-unresolvable")
    ELSE IF t # entry.template THEN Is("template-hash-mismatch")
    ELSE IF t.ref # ref THEN Is("template-unresolvable")
    ELSE [reason |-> "", template |-> t]

-----------------------------------------------------------------------------
(* Evidence.                                                               *)

\* Mutant: an output has the class of the tool that delegated.
deriveClassOfTool(ev, object, toolsHash) ==
    CASE ev.class = "l8-delegation" ->
           [reason |-> "", kind |-> <<"delegation-output", 1>>, class |-> "governed-record"]
      [] ev.class = "l4-audit" ->
           [reason |-> "", kind |-> <<"tool", ev.tool>>, class |-> ToolTrust[ev.tool]]
      [] OTHER -> [reason |-> "", kind |-> <<"model-turn", 1>>, class |-> Untrusted]

\* The class and kind of an object by the event that witnesses it.
deriveClass(ev, object, toolsHash) ==
    LET As(kind, class) == [reason |-> "", kind |-> kind, class |-> class]
        unreachable == Is("evidence-unreachable")
        drift == Is("evidence-registry-drift")
    IN
    CASE ev.class = "l4-audit" ->
           IF ev.decision # "authorized" THEN unreachable
           ELSE IF ev.registry # toolsHash \/ ev.tool \notin DOMAIN ToolTrust THEN drift
           ELSE As(<<"tool", ev.tool>>, ToolTrust[ev.tool])
      [] ev.class = "model-turn" -> As(<<"model-turn", 1>>, Untrusted)
      [] ev.class = "l8-delegation" ->
           IF ev.body.output # object THEN unreachable
           ELSE As(<<"delegation-output", 1>>, Untrusted)
      [] OTHER -> unreachable

Carried(events, r) == r.seq \in DOMAIN events /\ r.object \in Range(events[r.seq].refs)

Establish(events, r) ==
    IF Carried(events, r) THEN deriveClass(events[r.seq], r.object, ToolsHash)
    ELSE Is("evidence-unreachable")

HasDuplicate(refs) == \E i, j \in DOMAIN refs : i # j /\ refs[i].seq = refs[j].seq

\* By ascending seq, of which no two are equal.
SortEvidence(refs) ==
    LET seqs == InOrder({refs[i].seq : i \in DOMAIN refs})
    IN [k \in DOMAIN seqs |-> CHOOSE r \in Range(refs) : r.seq = seqs[k]]

-----------------------------------------------------------------------------
(* Composition.                                                            *)

Targets(t, kind) ==
    {s \in Slots(t.contract) :
        ~s.withhold /\ s.name # t.brief /\ kindMatches(s.kind, kind)}

\* Contents are ordered by their address; here, by where they first appear.
Address(events, object) == Min({i \in DOMAIN events : object \in Range(events[i].refs)})

BriefSource(t, brief) ==
    [name |-> "brief", kind |-> "inline", class |-> Untrusted, sensitivity |-> 0,
     reads |-> IF brief = 0 THEN << >>
               ELSE <<[status |-> "ok", item |-> [kind |-> SlotOf(t.contract, t.brief).kind,
                                                   hash |-> brief, size |-> brief]]>>]

RecordSource(events, objects, r, kind) ==
    [name |-> <<r.seq, r.object>>, kind |-> "record-object", class |-> r.class,
     sensitivity |-> r.sensitivity,
     reads |-> <<[status |-> IF r.object \in objects THEN "ok" ELSE "unreadable",
                  item |-> [kind |-> kind, hash |-> Address(events, r.object),
                            size |-> SizeOf(r.object)]]>>]

AbsentSource(name) ==
    [name |-> <<"absent", name>>, kind |-> "record-object", class |-> Untrusted,
     sensitivity |-> 0, reads |-> << >>]

\* The brief, one source a reference, and the slots nothing fills.
Assignments(t, events, objects, brief, refs, kinds) ==
    LET Target(i) == (CHOOSE s \in Targets(t, kinds[i]) : TRUE).name
        named == <<[slot |-> t.brief, source |-> BriefSource(t, brief)]>> \o
                 [i \in DOMAIN refs |->
                    [slot |-> Target(i), source |-> RecordSource(events, objects, refs[i], kinds[i])]]
        filled == {a.slot : a \in Range(named)}
        slots == t.contract.slots
        rest == InOrder({i \in DOMAIN slots : ~slots[i].withhold /\ slots[i].name \notin filled})
    IN named \o [k \in DOMAIN rest |->
                   [slot |-> slots[rest[k]].name, source |-> AbsentSource(slots[rest[k]].name)]]

\* The instructions a delegation carries, as the roots read now.
EIS(t, roots) ==
    [s \in {s \in DOMAIN ParentEIS : s \in Mandatory \cup t.carry} |-> roots[s]]

Gathered(contract, g) == IF g.error # "" THEN g ELSE Compose(contract, g.slots)

View(t, assignments) == Gathered(t.contract, Gather(t.contract, assignments))

Rendered(t, eis, refs, view) ==
    IF view.error # "" THEN Is("compose-refused")
    ELSE [reason |-> "", template |-> t, eis |-> eis, evidence |-> refs,
          input |-> [system |-> <<eis, t.instruction>>, user |-> view.view]]

\* met[i] is what the i-th reference is established as.
composeMet(t, eis, events, objects, brief, refs, met) ==
    LET kinds == [i \in DOMAIN met |-> met[i].kind]
        bad == {i \in DOMAIN met : met[i].reason # ""}
        stamped == [i \in DOMAIN met |->
                      [seq |-> refs[i].seq, object |-> refs[i].object,
                       class |-> met[i].class, sensitivity |-> ParentCeiling]]
    IN
    IF bad # {} THEN Is(met[Min(bad)].reason)
    ELSE IF brief > t.max_brief THEN Is("brief-over-bound")
    ELSE IF \E i \in DOMAIN kinds : Cardinality(Targets(t, kinds[i])) # 1
    THEN Is("evidence-slot-ambiguous")
    ELSE IF Unreadable \in Range(eis) THEN Is("resolve-failed")
    ELSE IF \E s \in DOMAIN eis : eis[s] # ParentEIS[s] THEN Is("machinery")
    ELSE Rendered(t, eis, stamped,
                  View(t, Assignments(t, events, objects, brief, stamped, kinds)))

composeFor(found, roots, events, objects, request) ==
    LET refs == SortEvidence(request.evidence) IN
    IF found.reason # "" THEN found
    ELSE IF HasDuplicate(request.evidence) THEN Is("evidence-duplicate")
    ELSE composeMet(found.template, EIS(found.template, roots), events, objects,
                    request.brief, refs,
                    [i \in DOMAIN refs |-> Establish(events, refs[i])])

\* Stage B: a composition, a refusal, or "machinery".  files is what the
\* registry's directory and the instruction roots hold.
compose(reg, files, events, objects, request) ==
    composeFor(Resolve(reg, files.dir, request.template), files.roots, events, objects,
               request)

\* What the executor captures: identities, which here are the values.
Capture(composition) == <<"capture", composition>>

-----------------------------------------------------------------------------
(* The witness and its reconstruction.                                     *)

Outcomes == {"completed", "provider-error", "output-over-bound", "model-identity-mismatch"}

Validate(body) ==
    /\ body.parent >= 1 /\ body.outcome \in Outcomes /\ body.templates # << >>
    /\ \A i \in DOMAIN body.evidence : body.evidence[i].seq < body.parent
    /\ \A i \in DOMAIN body.evidence :
         i > 1 => body.evidence[i - 1].seq < body.evidence[i].seq
    /\ (body.output = NoObject) <=> (body.outcome = "provider-error")

\* The bytes a template is re-verified from.
Members(t) ==
    <<<<"manifest", t>>, <<"contract", t.contract>>>> \o
    (IF t.instruction = NoPin THEN << >> ELSE <<<<"instruction", t.instruction>>>>)

\* A tool call's arguments as the record keeps them: the turn is marshalled,
\* which compacts and escapes the model's own bytes.
Compact(args) == [args EXCEPT !.form = "compact"]

Turn(calls) == <<"turn", [i \in DOMAIN calls |->
                            [tool |-> calls[i].tool, args |-> Compact(calls[i].args)]]>>

Lost(x)      == [missing |-> {x}, discrepancies |-> {}]
Disagrees(x) == [missing |-> {}, discrepancies |-> {x}]
Sound        == [missing |-> {}, discrepancies |-> {}]
Both(a, b)   == [missing |-> a.missing \cup b.missing,
                 discrepancies |-> a.discrepancies \cup b.discrepancies]
When(bad, r) == IF bad THEN r ELSE Sound
All(rs)      == [missing |-> UNION {rs[i].missing : i \in DOMAIN rs},
                 discrepancies |-> UNION {rs[i].discrepancies : i \in DOMAIN rs}]

\* The authorizing audit, and nothing between it and the witness.
CheckWindow(events, seq, d) ==
    LET audit == events[d.parent] IN
    Both(When(IF d.parent \notin DOMAIN events THEN TRUE
              ELSE audit.class # "l4-audit" \/ audit.decision # "authorized",
              Disagrees("audit")),
         When(\E i \in DOMAIN events : d.parent < i /\ i < seq, Disagrees("window")))

Present(objects, os) == All([i \in DOMAIN os |-> When(os[i] \notin objects, Lost(os[i]))])

Instructed(t) == t.instruction # NoPin

\* Template identity from the stored members; the instruction's bytes are
\* none when its object is not there.
StoredTemplate(objects, d) ==
    d.templates[1] \in objects /\ d.templates[2] \in objects

CheckTemplate(objects, d) ==
    LET t == d.templates[1][2] IN
    Both(Present(objects, d.templates),
         When(StoredTemplate(objects, d),
              All(<<When(Instructed(t) /\ ~(Len(d.templates) = 3 /\ d.templates[3] \in objects),
                         Disagrees("template bytes")),
                    When(t # d.template \/ t.ref # d.ref, Disagrees("template identity")),
                    When(t.contract # d.contract, Disagrees("contract"))>>)))

\* Each reference from the record, its class derived again; a registry that
\* is not at hand leaves the class to the witness.
CheckEvidence(events, objects, d, toolsHash) ==
    LET Of(i) ==
          LET ref == d.evidence[i]
              got == deriveClass(events[ref.seq], ref.object, toolsHash)
              drift == events[ref.seq].class = "l4-audit" /\ got.reason = "evidence-registry-drift"
          IN
          IF ~Carried(events, ref) THEN Disagrees("evidence")
          ELSE IF drift THEN Both(Lost(<<"registry">>), When(ref.object \notin objects, Lost(ref.object)))
          ELSE IF got.reason # "" THEN Disagrees("class not derivable")
          ELSE Both(When(got.class # ref.class, Disagrees("class")),
                    When(ref.object \notin objects, Lost(ref.object)))
    IN All([i \in DOMAIN d.evidence |-> Of(i)])

KindOf(events, ref) ==
    CASE events[ref.seq].class = "l4-audit" -> <<"tool", events[ref.seq].tool>>
      [] events[ref.seq].class = "model-turn" -> <<"model-turn", 1>>
      [] OTHER -> <<"delegation-output", 1>>

\* The calls in the parent's turns whose arguments are those of the audit.
BriefsOf(events, objects, d) ==
    {c \in UNION {Range(events[i].refs[1][2]) :
                    i \in {i \in 1..d.parent - 1 :
                             /\ events[i].class = "model-turn" /\ events[i].refs # << >>
                             /\ events[i].refs[1] \in objects}} :
        c.args = events[d.parent].args}

\* Mutant: the brief is not part of what is composed again.
RecomposeNoBrief(events, objects, d, brief) ==
    LET t == d.templates[1][2] IN
    When(View(t, Assignments(t, events, objects, 0, d.evidence,
                             [i \in DOMAIN d.evidence |-> KindOf(events, d.evidence[i])]))
           # [error |-> "", view |-> d.input.user],
         Disagrees("recompose"))

Recompose(events, objects, d, brief) ==
    LET t == d.templates[1][2] IN
    When(View(t, Assignments(t, events, objects, brief, d.evidence,
                             [i \in DOMAIN d.evidence |-> KindOf(events, d.evidence[i])]))
           # [error |-> "", view |-> d.input.user],
         Disagrees("recompose"))

reconstructOne(events, objects, seq, toolsHash) ==
    LET d == events[seq].body
        template == CheckTemplate(objects, d)
        evidence == CheckEvidence(events, objects, d, toolsHash)
        briefs == BriefsOf(events, objects, d)
        whole == /\ StoredTemplate(objects, d) /\ "template bytes" \notin template.discrepancies
                 /\ <<"input", d.input>> \in objects /\ briefs # {}
                 /\ evidence.discrepancies = {} /\ evidence.missing \subseteq {<<"registry">>}
    IN
    IF ~Validate(d) THEN Disagrees("body")
    ELSE All(<<CheckWindow(events, seq, d), template,
               Present(objects, <<<<"input", d.input>>>>), evidence,
               When(briefs = {}, Lost(<<"turn">>)),
               IF whole THEN Recompose(events, objects, d, (CHOOSE c \in briefs : TRUE).args.brief)
               ELSE Sound,
               When(d.output # NoObject, Present(objects, <<d.output>>))>>)

\* A discrepancy outranks a missing input.
Verdict(r) ==
    IF r.discrepancies # {} THEN "DISCREPANCY"
    ELSE IF r.missing # {} THEN "UNREPRODUCIBLE-FOR-MISSING-INPUTS" ELSE "CONFIRMED"

=============================================================================
