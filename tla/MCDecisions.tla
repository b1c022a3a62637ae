---------------------------- MODULE MCDecisions ----------------------------
(***************************************************************************)
(* The questions put to Decisions: plans with several sources to a slot    *)
(* and every way a source can fail, and slots that meet the budget, nearly *)
(* meet it or cannot.                                                      *)
(***************************************************************************)
EXTENDS Decisions

Untrusted == "external-untrusted"

Slot(name, kind, required, withhold, droppable, classes) ==
    [name |-> name, kind |-> kind, required |-> required, withhold |-> withhold,
     droppable |-> droppable, classes |-> classes]

MCContract ==
    [ceiling |-> 1,
     slots |-> <<Slot("task", <<"brief", 1>>, TRUE, FALSE, FALSE, {Untrusted}),
                 Slot("code", <<"file", AnyName>>, FALSE, FALSE, TRUE, {Untrusted}),
                 Slot("facts", <<"tool", AnyName>>, FALSE, FALSE, TRUE,
                      {Untrusted, "governed-record"}),
                 Slot("secret", <<"file", AnyName>>, FALSE, TRUE, FALSE, {Untrusted})>>]

It(kind, hash, size) == [kind |-> kind, hash |-> hash, size |-> size]
Seen(status, item) == [status |-> status, matches |-> TRUE, item |-> item]
Source(name, kind, class, sensitivity, reads) ==
    [name |-> name, kind |-> kind, class |-> class, sensitivity |-> sensitivity, reads |-> reads]

File(n, h) == It(<<"file", n>>, h, 4)
Fact(n, h) == It(<<"tool", n>>, h, 4)

MCSources ==
    {Source("brief", "inline", Untrusted, 0, <<Seen("ok", It(<<"brief", 1>>, 1, 4))>>),
     Source("empty", "inline", Untrusted, 0, << >>),
     Source("files", "filesystem", Untrusted, 0, <<Seen("ok", File(2, 2)), Seen("ok", File(1, 3))>>),
     Source("found", "search", Untrusted, 0, <<Seen("ok", File(1, 2)), Seen("unreadable", File(3, 1))>>),
     Source("gone", "search", Untrusted, 0, <<Seen("gone", File(1, 2))>>),
     Source("link", "filesystem", Untrusted, 0, <<Seen("outside", File(1, 1))>>),
     Source("one", "record-object", "governed-record", 1, <<Seen("ok", Fact(1, 2))>>),
     Source("two", "record-object", Untrusted, 1, <<Seen("ok", Fact(1, 1))>>),
     Source("lost", "record-object", Untrusted, 1, <<Seen("unreadable", Fact(1, 1))>>),
     Source("big", "record-object", Untrusted, 1, <<Seen("ok", It(<<"tool", 1>>, 3, 9))>>),
     Source("high", "record-object", Untrusted, 2, <<Seen("ok", Fact(1, 1))>>),
     Source("absent", "record-object", Untrusted, 0, << >>)}

MCAssignments == [slot : {"task", "code", "facts", "secret", "none"}, source : MCSources]
Fill(slot, names) == {a \in MCAssignments : a.slot = slot /\ a.source.name \in names}

MCPlans ==
    LET first == Fill("task", {"brief", "empty"})
        code  == Fill("code", {"files", "found", "gone", "link", "absent"})
        facts == Fill("facts", {"one", "two", "lost", "big", "high", "absent"})
        odd   == Fill("secret", {"files"}) \cup Fill("none", {"files"}) \cup Fill("code", {"two"})
    IN {[about |-> "plan", contract |-> MCContract, plan |-> p] :
          p \in ({<<a, b, c, d>> : a \in first, b \in code, c \in facts, d \in code \cup facts \cup odd}
                 \cup {<<a, b, c>> : a \in facts, b \in code, c \in first})}

-----------------------------------------------------------------------------

Held(hash, size) ==
    [kind |-> <<"file", 1>>, hash |-> hash, size |-> size, source |-> "s",
     class |-> Untrusted, sensitivity |-> 0]

MCItems == {Held(1, 4), Held(2, 9), Held(3, 5)}
MCSeqs  == {<< >>} \cup {<<a>> : a \in MCItems} \cup {<<a, b>> : a, b \in MCItems}

SlotState(items) ==
    [availability |-> IF items = << >> THEN "unavailable" ELSE "delivered",
     omitted |-> FALSE, items |-> items]

MCPolicies ==
    [budget : 1..6, drop : {<<"code", "facts">>, <<"facts", "code">>, <<"code">>, <<"task">>},
     keys : {<< >>, <<"size_asc">>, <<"kind", "size_desc">>}, dedup : BOOLEAN]

MCPressures ==
    {[about |-> "budget", contract |-> MCContract, policy |-> p,
      slots |-> [n \in {"task", "code", "facts", "secret"} |->
                    CASE n = "task" -> SlotState(<<Held(4, 4)>>)
                      [] n = "code" -> SlotState(a) [] n = "facts" -> SlotState(b)
                      [] OTHER -> Empty("withheld")]] :
        p \in MCPolicies, a \in MCSeqs, b \in MCSeqs}

=============================================================================
