---------------------------- MODULE MCDeployment ----------------------------
(***************************************************************************)
(* One deployment of two versions, whose anchor registers one skill and    *)
(* two workflow bundles.  Of every file there is a second version that     *)
(* somebody may write; the submitters' envelopes are the ones that L9      *)
(* makes and their nearest alterations, sealed again.                      *)
(***************************************************************************)
EXTENDS Deployment

Sk(n) == <<"skill", n>>

E(version, artifact, state) ==
    [name |-> "dep", version |-> version, artifact |-> artifact, state |-> state,
     decision |-> <<"dep", version, artifact>>]

Reg(entries) == [version |-> 2, entries |-> entries]

\* R1; R1 with the first anchor withdrawn; rebound; appended to.  The last
\* has an entry whose decision record targets something else.
MCRegistries ==
    [c \in {"R1", "RW", "RX", "RA", "RD"} |->
        CASE c = "R1" -> Reg(<<E(1, "A1", "active"), E(2, "A2", "active")>>)
          [] c = "RW" -> Reg(<<E(1, "A1", "withdrawn"), E(2, "A2", "active")>>)
          [] c = "RX" -> Reg(<<E(1, "A1", "active"), E(2, "A3", "active")>>)
          [] c = "RA" -> Reg(<<E(1, "A1", "active"), E(2, "A2", "active"),
                               E(3, "A3", "active")>>)
          [] c = "RD" -> Reg(<<E(1, "A1", "active"),
                               [E(2, "A2", "active") EXCEPT
                                  !.decision = <<"dep", 1, "A1">>]>>)]

Anchor(n) ==
    [name |-> "dep", deployment |-> n, constitution |-> "c1",
     pins |-> [l \in Plane |->
        CASE l = "instructions" -> "I1" [] l = "policy" -> "P1"
          [] l = "delegations" -> "D1" [] OTHER -> "absent"],
     registry |-> "T1", ceiling |-> "C1", catalog |-> "K1",
     bundles |-> {[workflow |-> "W1", ceiling |-> "WC1", contract |-> "CC1"],
                  [workflow |-> "W2", ceiling |-> "WC1", contract |-> "CC2"]},
     models |-> {"m"}, skills |-> IF n = 1 THEN {Sk(1), Sk(2)} ELSE {}]

MCAnchors == [c \in {"A1", "A2"} |-> IF c = "A1" THEN Anchor(1) ELSE Anchor(2)]

Tool(eligible, mutating, target) ==
    [control |-> FALSE, verifier_eligible |-> eligible, target |-> target,
     trust |-> Untrusted, mutating |-> mutating,
     params |-> IF target = "none" THEN << >>
                ELSE <<[name |-> "at", type |-> "string", required |-> TRUE,
                        target |-> TRUE]>>]

MCToolRegistries ==
    [c \in {"T1", "T2"} |->
        ("read" :> Tool(c = "T1", FALSE, "workspace-path"))
          @@ ("ask" :> Tool(FALSE, FALSE, "delegation-template"))
          @@ ("fix" :> Tool(FALSE, TRUE, "none"))]

Phase(caps, edges) == [capabilities |-> caps, edges |-> edges]

MCWorkflows ==
    [c \in {"W1", "W2"} |->
        [name |-> IF c = "W1" THEN "one" ELSE "two", declared |-> {"passed"},
         phases |-> <<Phase({"read", "ask"}, {"passed"}), Phase({"ask", "fix"}, {})>>]]

MCWorkflowCeilings == "WC1" :> [tools |-> {"read", "ask", "fix"}, total |-> 5]
MCContracts ==
    ("CC1" :> [workflow |-> "one"]) @@ ("CC2" :> [workflow |-> "two"])
MCCeilings ==
    [c \in {"C1", "C2"} |->
        [d \in Dimensions |-> IF c = "C1" THEN 3 ELSE 9]]
MCTemplates == ("D1" :> {"t@1", "t@2"}) @@ ("D2" :> {"t@1"})

Entry(max, ws, templates) ==
    [max |-> max, workspace |-> ws, themis |-> << >>, mutating |-> FALSE,
     templates |-> templates]

\* Its total exceeds the sum of the caps once one of them is narrowed.
GrantTemplate(ws) ==
    [version |-> 1, task |-> "@task_id", total |-> 4,
     entries |-> ("read" :> Entry(2, ws, {})) @@ ("ask" :> Entry(1, "none", {"t@1"}))
                   @@ ("fix" :> Entry(1, "none", {}))]

Wall(v) == [dimension |-> "wall_deadline_s", value |-> v, strength |-> ""]
SpecTemplate ==
    [version |-> 1, task |-> "@task_id", repo |-> "@repo", sha |-> "@pinned_sha",
     limits |-> <<Wall(3), [dimension |-> "mem_bytes", value |-> 2,
                            strength |-> "observed"]>>]

Pin(path, sha) == [path |-> path, sha |-> sha]

\* The second skill writes its workspace as the empty string.
Manifest(n) ==
    [name |-> "skill", skill |-> n,
     pins |-> [workflow |-> Pin("workflow", "W1"),
               workflow_ceiling |-> Pin("workflow_ceiling", "WC1"),
               context_contract |-> Pin("context_contract", "CC1"),
               grant_template |->
                  IF n = 1
                  THEN Pin("grant_template", GrantTemplate("@workspace"))
                  ELSE Pin("grant_template_2", GrantTemplate("")),
               spec_template |-> Pin("spec_template", SpecTemplate),
               input_schema |-> Pin("input_schema", "S1"),
               procedure |-> Pin("procedure", "PR1")]]

MCManifests == ("M1" :> Manifest(1)) @@ ("M2" :> Manifest(2))

CatalogEntry(n, composition, path, state) ==
    [name |-> "skill", version |-> n, composition |-> composition, path |-> path,
     state |-> state, decision |-> <<"skill", n, composition>>]

\* The pinned catalog, and one that withdraws the first skill.
Catalog(state) ==
    [version |-> 2,
     entries |-> <<CatalogEntry(1, "M1", "manifest", state),
                   CatalogEntry(2, "M2", "manifest_2", "active")>>]
MCCatalogs == ("K1" :> Catalog("active")) @@ ("K2" :> Catalog("withdrawn"))

MCRecorded == {<<"dep", 1, "A1">>, <<"dep", 2, "A2">>, <<"dep", 2, "A3">>,
               <<"dep", 3, "A3">>, <<"skill", 1, "M1">>, <<"skill", 2, "M2">>}

\* Two strings whose bounds together exceed the cap of a payload.
Field(n) == [name |-> n, type |-> "string", max |-> 2, enum |-> {}, required |-> n = "a"]
MCSchemas == "S1" :> [fields |-> <<Field("a"), Field("b")>>]

In(len) == [type |-> "string", len |-> len, value |-> "v"]

Request(skill, overrides, wall, inputs) ==
    [skill |-> skill, task |-> "t1", retry |-> "", repo |-> "r", sha |-> "h",
     turn |-> 1, model |-> "m", disjoint |-> TRUE, overrides |-> overrides,
     wall |-> wall, inputs |-> inputs]

Plain == Request(Sk(1), << >>, 0, "a" :> In(1))

\* The last three are refused: a cap that widens, a deadline that does, and
\* an input past its bound.
MCRequests ==
    {Plain, Request(Sk(1), "read" :> 1, 2, "a" :> In(1)),
     Request(Sk(1), << >>, 0, ("a" :> In(2)) @@ ("b" :> In(2))),
     Request(Sk(2), << >>, 0, "a" :> In(1)),
     Request(Sk(1), "read" :> 3, 0, "a" :> In(1)),
     Request(Sk(1), << >>, 4, "a" :> In(1)),
     Request(Sk(1), << >>, 0, "a" :> In(3))}

MCInitial ==
    [p \in {"anchors", "A1", "A2", "ceiling", "registry", "catalog", "manifest",
            "manifest_2", "workflow_2", "context_contract_2", "procedure_2",
            "grant_template_2", "grant", "spec"} \cup Plane \cup Members |->
        CASE p = "anchors" -> "R1" [] p = "A1" -> "A1" [] p = "A2" -> "A2"
          [] p = "ceiling" -> "C1" [] p = "registry" -> "T1"
          [] p = "catalog" -> "K1" [] p = "manifest" -> "M1"
          [] p = "manifest_2" -> "M2"
          [] p = "workflow" -> "W1" [] p = "workflow_2" -> "W2"
          [] p = "workflow_ceiling" -> "WC1"
          [] p = "context_contract" -> "CC1"
          [] p = "context_contract_2" -> "CC2"
          [] p = "procedure" -> "PR1" [] p = "procedure_2" -> "PR2"
          [] p = "input_schema" -> "S1" [] p = "instructions" -> "I1"
          [] p = "policy" -> "P1" [] p = "delegations" -> "D1"
          [] p \in {"grant_template", "grant"} -> GrantTemplate("@workspace")
          [] p = "grant_template_2" -> GrantTemplate("")
          [] p \in {"spec_template", "spec"} -> SpecTemplate
          [] OTHER -> "absent"]

\* An envelope of L9, and the commitment of another sealed again.
Made == CHOOSE env \in Instantiate(MCInitial, Plain) : TRUE
Commit(env, field, content) ==
    LET f == [Head(env.composition).fields EXCEPT ![field] = content] IN
    [env EXCEPT !.composition = <<[fields |-> f, seal |-> f]>>]

\* Grants that widen the template: in a quota, the total, a flag, a scope.
Wider == [Made.grant EXCEPT !.entries["read"].max = 3]
Widened == {Wider, [Made.grant EXCEPT !.total = 5],
            [Made.grant EXCEPT !.entries["fix"].mutating = TRUE],
            [Made.grant EXCEPT !.entries["ask"].templates = {"t@1", "t@2"}]}

\* Another procedure; another workflow of the deployment; a broken seal;
\* attribution without a skill; no skill, without and with a procedure; and
\* a wider grant.
MCHandMade ==
    {[Commit(Made, "procedure", "PR2") EXCEPT !.paths["procedure"] = "procedure_2",
                                               !.procedure = <<"PR2">>],
     [Commit(Commit(Made, "workflow", "W2"), "context_contract", "CC2")
        EXCEPT !.paths["workflow"] = "workflow_2",
               !.paths["context_contract"] = "context_contract_2"],
     [Made EXCEPT !.composition[1].fields["workflow"] = "W2"],
     [Made EXCEPT !.skill = << >>],
     [Made EXCEPT !.skill = << >>, !.origin = << >>, !.composition = << >>,
        !.procedure = << >>,
        !.paths = [l \in DOMAIN Made.paths \ {"procedure"} |-> l]],
     [Made EXCEPT !.skill = << >>, !.origin = << >>, !.composition = << >>]}
      \cup {[Commit(Made, "grant", grant) EXCEPT !.grant = grant] : grant \in Widened}

Call(tool, at) ==
    [tool |-> tool, object |-> TRUE, evidence |-> "none", target |-> at,
     args |-> IF at = "" THEN << >> ELSE "at" :> "string"]

MCCalls == {Call("read", "in"), Call("read", "out"), Call("ask", "t@1"), Call("ask", "t@2"),
            Call("fix", "")}

MCUsages == {[calls |-> [t \in {"read", "ask", "fix"} |-> n], total |-> m] : n \in 0..2, m \in 3..5}

Narrowed == [Made.spec EXCEPT !.limits[1].value = 2]

MCVersions ==
    [p \in {"anchors", "A1", "instructions", "policy", "delegations", "ceiling",
            "registry", "catalog", "manifest", "workflow", "context_contract",
            "procedure", "grant_template", "grant", "spec"} |->
        CASE p = "anchors" -> {"R1", "RW", "RX", "RA", "RD"}
          [] p = "A1" -> {"A2"}
          [] p = "instructions" -> {"I1", "I2"}
          [] p = "policy" -> {"P1", "P2"}
          [] p = "delegations" -> {"D2"}
          [] p = "ceiling" -> {"C2"} [] p = "registry" -> {"T2"}
          [] p = "catalog" -> {"K2"} [] p = "manifest" -> {"M2"}
          [] p = "workflow" -> {"W1", "W2"}
          [] p = "context_contract" -> {"CC2"}
          [] p = "procedure" -> {"PR1", "PR2"}
          [] p = "grant_template" -> {GrantTemplate("")}
          [] p = "grant" -> {Wider}
          [] OTHER -> {Narrowed}]

=============================================================================
