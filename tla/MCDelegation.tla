---------------------------- MODULE MCDelegation ----------------------------
(***************************************************************************)
(* Instances of Delegation: a governed tool and an untrusted one, a        *)
(* template whose contract has a slot for each kind of evidence and one    *)
(* that is ambiguous or withdrawn, files that change to another manifest,  *)
(* another root or none.                                                   *)
(***************************************************************************)
EXTENDS Delegation

Slot(name, kind, required, classes) ==
    [name |-> name, kind |-> kind, required |-> required, withhold |-> FALSE,
     droppable |-> FALSE, classes |-> classes]

MCContract ==
    [ceiling |-> 1,
     slots |-> <<Slot("brief", <<"brief", 1>>, FALSE, {Untrusted}),
                 Slot("facts", <<"tool", AnyName>>, FALSE, {Untrusted, "governed-record"}),
                 Slot("said", <<"delegation-output", 1>>, FALSE, {Untrusted, "governed-record"})>>]

MCTemplate(ref, carry, instruction) ==
    [ref |-> ref, contract |-> MCContract, brief |-> "brief", max_brief |-> 2,
     max_output |-> 2, carry |-> carry, instruction |-> instruction]

MCReview == MCTemplate("review@1", {"skill"}, "be terse")
MCOld    == MCTemplate("old@1", {}, NoPin)

MCRegistry == <<[ref |-> "review@1", template |-> MCReview, state |-> "active"],
                [ref |-> "old@1", template |-> MCOld, state |-> "withdrawn"]>>

MCParentEIS == [s \in {"harness-system", "skill", "task"} |-> 1]
MCDir  == ("review@1" :> <<MCReview>>) @@ ("old@1" :> <<MCOld>>)
MCStart == [dir |-> MCDir, roots |-> MCParentEIS]
MCFiles == {MCStart, [MCStart EXCEPT !.roots["skill"] = 2],
            [MCStart EXCEPT !.dir["review@1"] = <<MCTemplate("review@1", {}, "be terse")>>],
            [MCStart EXCEPT !.dir["review@1"] = NoFile]}

MCToolTrust == 1 :> Untrusted @@ 2 :> "governed-record"
MCResults   == 2 :> {<<"output", 1>>}

\* An output of two delegations, or of one and a tool, may be equal bytes.
MCSizeOf(o) == IF o[1] = "output" THEN o[2] ELSE 1

=============================================================================
