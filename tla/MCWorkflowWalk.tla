--------------------------- MODULE MCWorkflowWalk ---------------------------
(***************************************************************************)
(* Instances of WorkflowWalk: two phases, two of the five outcomes, and    *)
(* candidate definitions made of a base definition and everything one edge *)
(* of it, or one missing edge, can make of it. The loader picks the ones   *)
(* that may run.                                                           *)
(***************************************************************************)
EXTENDS WorkflowWalk

U(on, to) ==
    [on |-> on, to |-> to, counter |-> 0, exhausted |-> Absent, gate |-> None]
C(on, to, n, exhausted) ==
    [U(on, to) EXCEPT !.counter = n, !.exhausted = exhausted]
G(on, to, token, outcome) ==
    [U(on, to) EXCEPT !.gate = [token |-> token, outcome |-> outcome]]

Def(initial, exposes, edges) ==
    [initial |-> initial,
     declared |-> UNION {{edges[p][i].on : i \in DOMAIN edges[p]} : p \in Phases},
     turns |-> [p \in Phases |-> MaxTurnsPerPhase],
     exposes |-> exposes,
     edges |-> edges]

\* Control only: forward on the signal, back once without an action.
Control ==
    Def(1, <<{"signal"}, {"signal"}>>,
        <<<<U("turns-exhausted", Fail),
            C("turn-no-action", Stay, 1, Fail),
            U("turn-provider-error", Fail),
            U("signal", 2)>>,
          <<U("turns-exhausted", Fail),
            C("turn-no-action", 1, 1, Fail),
            U("turn-provider-error", Fail),
            U("signal", Complete)>>>>)

\* Edges on the same event, with every target, counter and exhaustion.
Variants(e) ==
    {C(e.on, to, n, x) : to \in Stay..Fail, n \in 0..2, x \in {Absent} \cup Stay..Fail}
        \cup {G(e.on, to, t, o) : to \in Stay..Fail, t \in Tokens, o \in Outcomes}

WithEdge(w, p, i, e) == [w EXCEPT !.edges[p][i] = e]
WithoutEdge(w, p, i) ==
    [w EXCEPT !.edges[p] = SubSeq(@, 1, i - 1) \o SubSeq(@, i + 1, Len(@))]
WithGate(w, p, i, e) ==
    [w EXCEPT !.edges[p] = SubSeq(@, 1, i - 1) \o <<e>> \o SubSeq(@, i, Len(@))]

OneEdgeAway(w) ==
    UNION {UNION {
        {WithEdge(w, p, i, e) : e \in Variants(w.edges[p][i])}
            \cup {WithoutEdge(w, p, i)}
            \cup {WithGate(w, p, i, e) : e \in
                    {v \in Variants(w.edges[p][i]) : Gated(v)}}
        : i \in DOMAIN w.edges[p]} : p \in Phases}

MCControl == OneEdgeAway(Control)

\* Verification: the signal completes only on the latest PASS of both
\* contracts' gates, a FAIL sends the walk back.
Verified ==
    Def(1, <<{"signal", "verifier"}, {"signal"}>>,
        <<<<U("turns-exhausted", Fail),
            C("turn-no-action", 1, 1, Fail),
            U("turn-provider-error", Fail),
            G("signal", Complete, "unit@1", "PASS"),
            G("signal", 2, "lint@1", "PASS"),
            C("signal", Stay, 1, Fail),
            C("PASS", Stay, 3, Complete),
            C("FAIL", 1, 1, Fail),
            U("tool-error", 2)>>,
          <<U("turns-exhausted", Fail),
            C("turn-no-action", 1, 1, Fail),
            U("turn-provider-error", Fail),
            U("tool-error", Fail),
            G("signal", Complete, "unit@1", "FAIL"),
            C("signal", 1, 1, Fail)>>>>)

\* The same with the outcomes themselves gated: a verification event is
\* presented after the state that holds it.
GatedOutcomes ==
    [Verified EXCEPT
        !.edges[1][7] = G("PASS", Complete, "unit@1", "PASS"),
        !.edges[1][8] = U("PASS", 2),
        !.edges[1] = @ \o <<G("FAIL", 2, "lint@1", "PASS"), U("FAIL", Fail)>>]

MCGates == {Verified, GatedOutcomes, [Verified EXCEPT !.initial = 2]}

\* The only counter buys whole passes.
MCBack ==
    {[Control EXCEPT !.edges[1][2] = U("turn-no-action", Fail),
                     !.edges[2][2] = C("turn-no-action", 1, 3, Fail)]}

MCWorkflows == MCControl \cup MCGates \cup MCBack
=============================================================================
