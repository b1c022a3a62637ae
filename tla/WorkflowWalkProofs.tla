------------------------- MODULE WorkflowWalkProofs -------------------------
(***************************************************************************)
(* Proofs about WorkflowWalk, for any number of phases, any set of         *)
(* definitions, any outcome vocabulary and any quota: what the loader      *)
(* checks makes the loop's edge map total, and bounds how often a walk can *)
(* revisit the phases.                                                     *)
(***************************************************************************)
EXTENDS WorkflowWalk, WellFoundedInduction, TLAPS

(***************************************************************************)
(* A non-empty set of indexes has a first element: what "first satisfied   *)
(* gate, else the fallback" relies on.                                     *)
(***************************************************************************)
LEMMA FirstExists ==
    ASSUME NEW S \in SUBSET Nat, S # {}
    PROVE  \E x \in S : \A y \in S : x <= y
<1> DEFINE R == OpToRel(<, Nat)
<1>1. PICK x \in S : \A y \in S : ~(<<y, x>> \in R)
    BY NatLessThanWellFounded, WFMin
<1>2. \A y \in S : <<y, x>> \in R <=> y < x
    BY DEF OpToRel
<1> HIDE DEF R
<1>3. \A y \in S : ~(y < x) => x <= y
    OBVIOUS
<1> QED
    BY <1>1, <1>2, <1>3

(***************************************************************************)
(* A phase that has an ungated edge for an event has a selected edge for   *)
(* it, and a selected edge is one of the phase's edges for that event.     *)
(***************************************************************************)
LEMMA SelectedExists ==
    ASSUME NEW w \in Workflow, NEW p \in Phases, NEW ev, NEW verif,
           NEW i \in DOMAIN w.edges[p],
           w.edges[p][i].on = ev, ~Gated(w.edges[p][i])
    PROVE  Selected(w, p, ev, verif) # {}
<1> DEFINE open == {k \in DOMAIN w.edges[p] :
                       /\ w.edges[p][k].on = ev
                       /\ \/ ~Gated(w.edges[p][k])
                          \/ Satisfied(w.edges[p][k], verif)}
<1>1. i \in open
    OBVIOUS
<1>2. w.edges[p] \in Seq(Edge)
    BY DEF Workflow
<1>3. DOMAIN w.edges[p] \subseteq Nat
    BY <1>2
<1>4. open \in SUBSET Nat
    BY <1>3
<1> HIDE DEF open
<1>5. PICK k \in open : \A j \in open : k <= j
    BY <1>1, <1>4, FirstExists
<1>6. w.edges[p][k] \in {w.edges[p][l] : l \in {m \in open : \A j \in open : m <= j}}
    BY <1>5
<1> QED
    BY <1>6 DEF Selected, open

LEMMA SelectedIsAnEdge ==
    ASSUME NEW w \in Workflow, NEW p \in Phases, NEW ev, NEW verif,
           NEW e \in Selected(w, p, ev, verif)
    PROVE  \E i \in DOMAIN w.edges[p] : e = w.edges[p][i] /\ e.on = ev
BY DEF Selected

(***************************************************************************)
(* Where an edge of a loaded definition leads: a non-forward move is only  *)
(* made by a countered edge that has fires left (workflow.go:213-271).     *)
(***************************************************************************)
LEMMA EdgeTargets ==
    ASSUME NEW w \in Workflow, LoadWorkflow(w), NEW p \in Phases,
           NEW i \in DOMAIN w.edges[p]
    PROVE  LET e == w.edges[p][i] IN
               /\ e \in Edge
               /\ e.to \in Stay..Fail
               /\ e.counter > 0 => e.exhausted \in (p + 1)..Fail
               /\ e.counter <= 0 => e.to = Stay \/ e.to \in (p + 1)..Fail
<1> DEFINE e == w.edges[p][i]
<1>1. w.edges[p] \in Seq(Edge)
    BY DEF Workflow
<1>2. e \in Edge
    BY <1>1
<1>3. EdgeLoads(w, p, i)
    BY DEF LoadWorkflow
<1>4. p \in 1..NumPhases /\ NumPhases \in Nat /\ Fail = NumPhases + 2 /\ Stay = 0
    BY NumPhasesAssumption DEF Phases, Fail, Stay
<1>5. e.counter \in Int /\ e.to \in Int /\ e.exhausted \in Int
    BY <1>2 DEF Edge
<1>6. CASE GatedEdgeLoads(p, e)
    BY <1>2, <1>4, <1>5, <1>6 DEF GatedEdgeLoads, isForward
<1>7. CASE UngatedEdgeLoads(p, e)
    BY <1>2, <1>4, <1>5, <1>7 DEF UngatedEdgeLoads, isForward
<1> QED
    BY <1>3, <1>6, <1>7 DEF EdgeLoads

Mapped(ev) == \E i \in DOMAIN wf.edges[phase] :
                  wf.edges[phase][i].on = ev /\ ~Gated(wf.edges[phase][i])

(***************************************************************************)
(* The budget of visits: what is left of the current pass over the         *)
(* definition is paid for in advance, so that a forward move is free and a *)
(* move back costs a fire.                                                 *)
(***************************************************************************)
Budget ==
    /\ visits <= NumPhases * (1 + fired)
    /\ phase \in Phases => visits + (NumPhases - phase) <= NumPhases * (1 + fired)

IInv == TypeOK /\ Assembled(wf) /\ StaticTotality /\ Budget

(***************************************************************************)
(* Every event the loop can present is declared and has an ungated edge in *)
(* the phase that presents it (workflow.go:148-157, 199-201, 276-296;      *)
(* orchestrator.go:732-795).                                               *)
(***************************************************************************)
LEMMA EventsMapped ==
    ASSUME wf \in Workflow, Assembled(wf), phase \in Phases, NEW ev,
           \/ ev \in Mandatory
           \/ ev = "signal" /\ "signal" \in wf.exposes[phase]
           \/ ev = "tool-error" /\ ev \in wf.declared
           \/ ev \in Outcomes /\ "verifier" \in wf.exposes[phase]
    PROVE  ev \in wf.declared /\ Mapped(ev)
<1>1. ev \in wf.declared
    BY DEF Assembled, LoadWorkflow, DeclaresWhatRuns, VerifierMapped
<1>2. Total(wf)
    BY DEF Assembled, LoadWorkflow
<1>3. ~(ev \in Outcomes /\ \A i \in DOMAIN wf.edges[phase] : wf.edges[phase][i].on # ev)
    <2>1. CASE ev \in Outcomes /\ "verifier" \in wf.exposes[phase]
        BY <2>1 DEF Assembled, VerifierMapped
    <2>2. CASE ev \in Mandatory \cup {"tool-error", "signal"}
        BY <2>2, OutcomesAssumption
    <2> QED
        BY <2>1, <2>2
<1> QED
    BY <1>1, <1>2, <1>3 DEF Total, Mapped

(***************************************************************************)
(* Arithmetic of one more pass.                                            *)
(***************************************************************************)
LEMMA OnePassMore ==
    ASSUME NEW n \in Nat
    PROVE  /\ NumPhases * (1 + n) \in Nat
           /\ NumPhases * (1 + (n + 1)) = NumPhases * (1 + n) + NumPhases
BY NumPhasesAssumption

(***************************************************************************)
(* What a move leaves behind.                                              *)
(***************************************************************************)
Kept ==
    /\ phase' \in Phases \cup {Stay}
    /\ pc' \in {"enter", "turn", "calls", "complete", "fail"}
    /\ pc' \in {"turn", "calls"} => phase' \in Phases
    /\ breach' = breach
    /\ fired' \in Nat
    /\ visits' \in Nat
    /\ Budget'

(***************************************************************************)
(* Moving to a target keeps the budget if the target is @stay, forward, or *)
(* paid for with a fire.                                                   *)
(***************************************************************************)
LEMMA MoveKeepsBudget ==
    ASSUME IInv, phase \in Phases, NEW e, NEW to \in Stay..Fail, NEW x, NEW rec,
           NEW stays \in {"enter", "turn", "calls"},
           Move(e, to, x, rec, stays),
           \/ fired' = fired + 1
           \/ fired' = fired /\ (to = Stay \/ to \in (phase + 1)..Fail)
    PROVE  Kept
<1> USE DEF Phases, Stay, Fail, Complete
<1> DEFINE before == NumPhases * (1 + fired)
           after == NumPhases * (1 + fired')
<1>1. /\ NumPhases \in Nat \ {0} /\ fired \in Nat /\ visits \in Nat /\ phase \in Int
      /\ visits + (NumPhases - phase) <= before
      /\ phase <= NumPhases
    BY NumPhasesAssumption DEF IInv, TypeOK, Budget
<1>2. fired' \in Nat /\ before \in Nat /\ after \in Nat
    BY <1>1, OnePassMore
<1>3. \/ after = before + NumPhases
      \/ after = before /\ (to = Stay \/ to \in (phase + 1)..Fail)
    BY <1>1, OnePassMore
<1>4. ASSUME visits' <= after,
             phase' \in Phases => visits' + (NumPhases - phase') <= after
      PROVE  Budget'
    BY <1>4 DEF Budget
<1> HIDE DEF before, after
<1>5. before <= after
    BY <1>1, <1>2, <1>3
<1>6. CASE to = Stay
    <2>1. /\ pc' = stays /\ visits' = visits /\ breach' = breach
          /\ phase' = IF stays = "enter" THEN Stay ELSE phase
        BY <1>6 DEF Move
    <2>2. visits' <= after /\ (phase' \in Phases => visits' + (NumPhases - phase') <= after)
        BY <1>1, <1>2, <1>5, <2>1
    <2> QED
        BY <1>1, <1>2, <1>4, <2>1, <2>2 DEF Kept
<1>7. CASE to # Stay
    <2>1. /\ pc' = Landing(to) /\ breach' = breach
          /\ phase' = IF to \in Phases THEN to ELSE phase
          /\ visits' = visits + (IF to \in Phases THEN 1 ELSE 0)
        BY <1>7 DEF Move
    <2>2. pc' \in {"enter", "complete", "fail"}
        BY <2>1 DEF Landing
    <2>3. phase' \in Phases /\ NumPhases - phase' \in Nat /\ visits' \in Nat
        BY <1>1, <2>1
    <2>4. visits' + (NumPhases - phase') <= after
        <3>1. CASE to \in Phases
            BY <1>1, <1>2, <1>3, <1>7, <2>1, <3>1
        <3>2. CASE to \notin Phases
            BY <1>1, <1>2, <1>5, <2>1, <3>2
        <3> QED
            BY <3>1, <3>2
    <2>5. visits' <= after
        <3>1. ASSUME NEW v \in Nat, NEW d \in Nat, NEW c \in Nat, v + d <= c
              PROVE  v <= c
            BY <3>1
        <3> QED
            BY <1>2, <2>3, <2>4, <3>1
    <2> QED
        BY <1>2, <1>4, <2>1, <2>2, <2>3, <2>4, <2>5 DEF Kept
<1> QED
    BY <1>6, <1>7

(***************************************************************************)
(* One presented event: the edge map answers it, and the budget pays.      *)
(***************************************************************************)
LEMMA StepKeeps ==
    ASSUME IInv, phase \in Phases, breach = "none",
           NEW ev \in Events, NEW rec, NEW verif,
           NEW stays \in {"enter", "turn", "calls"},
           ev \in wf.declared, Mapped(ev), step(ev, rec, verif, stays)
    PROVE  Kept /\ edgeFires' \in [Phases \X Events -> Nat]
<1>1. wf \in Workflow /\ LoadWorkflow(wf)
    BY DEF IInv, TypeOK, Assembled
<1>2. Selected(wf, phase, ev, verif) # {}
    BY <1>1, SelectedExists DEF Mapped
<1>3. PICK e \in Selected(wf, phase, ev, verif) :
          \/ CounterFires(e) /\ Move(e, e.to, FALSE, rec, stays)
          \/ CounterExhausted(e) /\ Move(e, e.exhausted, TRUE, rec, stays)
          \/ Uncountered(e) /\ Move(e, e.to, FALSE, rec, stays)
    BY <1>2 DEF step
<1>4. PICK i \in DOMAIN wf.edges[phase] : e = wf.edges[phase][i] /\ e.on = ev
    BY <1>1, SelectedIsAnEdge
<1>5. /\ e.counter \in Int
      /\ e.to \in Stay..Fail
      /\ e.counter > 0 => e.exhausted \in (phase + 1)..Fail
      /\ e.counter <= 0 => e.to = Stay \/ e.to \in (phase + 1)..Fail
    BY <1>1, <1>4, EdgeTargets DEF Edge
<1>6. edgeFires \in [Phases \X Events -> Nat] /\ <<phase, e.on>> \in Phases \X Events
    BY <1>4 DEF IInv, TypeOK
<1>7. CASE CounterFires(e) /\ Move(e, e.to, FALSE, rec, stays)
    <2>1. edgeFires' \in [Phases \X Events -> Nat] /\ fired' = fired + 1
        BY <1>6, <1>7 DEF CounterFires
    <2>2. Kept
        BY <1>5, <1>7, <2>1, MoveKeepsBudget
    <2> QED
        BY <2>1, <2>2
<1>8. CASE CounterExhausted(e) /\ Move(e, e.exhausted, TRUE, rec, stays)
    <2>1. edgeFires' = edgeFires /\ fired' = fired
        BY <1>8 DEF CounterExhausted
    <2>2. e.exhausted \in (phase + 1)..Fail /\ e.exhausted \in Stay..Fail
        BY <1>5, <1>8, NumPhasesAssumption DEF CounterExhausted, Phases, Stay, Fail
    <2>3. Kept
        BY <1>8, <2>1, <2>2, MoveKeepsBudget
    <2> QED
        BY <1>6, <2>1, <2>3
<1>9. CASE Uncountered(e) /\ Move(e, e.to, FALSE, rec, stays)
    <2>1. edgeFires' = edgeFires /\ fired' = fired
        BY <1>9 DEF Uncountered
    <2>2. e.to = Stay \/ e.to \in (phase + 1)..Fail
        BY <1>5, <1>9 DEF Uncountered
    <2>3. Kept
        BY <1>5, <1>9, <2>1, <2>2, MoveKeepsBudget
    <2> QED
        BY <1>6, <2>1, <2>3
<1> QED
    BY <1>3, <1>7, <1>8, <1>9

LEMMA InitIInv == Init => IInv
<1> SUFFICES ASSUME Init PROVE IInv
    OBVIOUS
<1>1. wf \in Workflow /\ Assembled(wf)
    BY WorkflowsAssumption DEF Init
<1>2. phase \in Phases
    BY <1>1 DEF Init, Workflow
<1>3. TypeOK
    BY <1>1, <1>2, QuotaAssumption DEF Init, TypeOK, Terminals, Breaches
<1>4. Budget
    BY <1>2, NumPhasesAssumption DEF Init, Budget, Phases
<1> QED
    BY <1>1, <1>3, <1>4 DEF IInv, StaticTotality, Init

(***************************************************************************)
(* What every action that presents an event has in common.                 *)
(***************************************************************************)
LEMMA PresentingKeepsIInv ==
    ASSUME IInv, pc \in {"turn", "calls"},
           NEW ev \in Events, NEW rec, NEW verif,
           NEW stays \in {"enter", "turn", "calls"},
           \/ ev \in Mandatory
           \/ ev = "signal" /\ "signal" \in wf.exposes[phase]
           \/ ev = "tool-error" /\ ev \in wf.declared
           \/ ev \in Outcomes /\ "verifier" \in wf.exposes[phase],
           step(ev, rec, verif, stays),
           wf' = wf, turns' \in Nat, calls' \in 0..TotalMaxCalls, spent' \in Nat,
           verifState' \in [Tokens -> Outcomes \cup {None}]
    PROVE  IInv'
<1>1. phase \in Phases /\ breach = "none" /\ wf \in Workflow /\ Assembled(wf)
    BY DEF IInv, TypeOK
<1>2. ev \in wf.declared /\ Mapped(ev)
    BY <1>1, EventsMapped
<1>3. Kept /\ edgeFires' \in [Phases \X Events -> Nat]
    BY ONLY IInv, step(ev, rec, verif, stays), stays \in {"enter", "turn", "calls"},
            ev \in Events, <1>1, <1>2, StepKeeps, Zenon
<1>4. TypeOK' /\ breach' = "none" /\ Budget'
    BY <1>1, <1>3 DEF Kept, TypeOK, Terminals, Breaches
<1>5. Assembled(wf)'
    BY <1>1
<1> QED
    BY <1>4, <1>5 DEF IInv, StaticTotality

LEMMA NextKeepsIInv == IInv /\ [Next]_vars => IInv'
<1> SUFFICES ASSUME IInv, [Next]_vars PROVE IInv'
    OBVIOUS
<1> USE DEF Mandatory
<1>0. /\ Mandatory \subseteq Events /\ "signal" \in Events /\ "tool-error" \in Events
      /\ Outcomes \subseteq Events
    BY DEF Events
<1>1. CASE EnterPhase
    <2>1. phase \in Phases \cup {Stay} /\ breach = "none"
        BY <1>1 DEF EnterPhase, IInv, TypeOK
    <2>2. TypeOK'
        BY <1>1, <2>1 DEF EnterPhase, Breach, IInv, TypeOK, Terminals, Breaches
    <2> QED
        BY <1>1, <2>2 DEF EnterPhase, Breach, IInv, StaticTotality, Budget
<1>2. CASE TurnsExhausted
    <2>1. step("turns-exhausted", record, verifState, "enter")
        BY <1>2 DEF TurnsExhausted
    <2> QED
        BY <1>0, <1>2, <2>1, PresentingKeepsIInv DEF TurnsExhausted, IInv, TypeOK
<1>3. CASE ProviderError
    <2>1. step("turn-provider-error", record, verifState, "enter")
        BY <1>3 DEF ProviderError
    <2> QED
        BY <1>0, <1>3, <2>1, PresentingKeepsIInv DEF ProviderError, Turn, IInv, TypeOK
<1>4. CASE NoAction
    <2>1. step("turn-no-action", record, verifState, "turn")
        BY <1>4 DEF NoAction
    <2> QED
        BY <1>0, <1>4, <2>1, PresentingKeepsIInv DEF NoAction, Turn, IInv, TypeOK
<1>5. CASE ToolCalls
    <2>1. TypeOK'
        BY <1>5 DEF ToolCalls, Turn, IInv, TypeOK
    <2> QED
        BY <1>5, <2>1 DEF ToolCalls, Turn, IInv, StaticTotality, Budget
<1>6. CASE QuietCall
    <2>1. TypeOK'
        BY <1>6, QuotaAssumption DEF QuietCall, IInv, TypeOK, ghosts
    <2> QED
        BY <1>6, <2>1 DEF QuietCall, IInv, StaticTotality, Budget, ghosts
<1>7. CASE Signal
    <2>1. step("signal", record, verifState, "calls")
        BY <1>7 DEF Signal
    <2>2. calls' \in 0..TotalMaxCalls
        BY <1>7, QuotaAssumption DEF Signal, Call, IInv, TypeOK
    <2> QED
        BY <1>0, <1>7, <2>1, <2>2, PresentingKeepsIInv DEF Signal, Call, IInv, TypeOK
<1>8. CASE ToolError
    <2>1. step("tool-error", record, verifState, "calls")
        BY <1>8 DEF ToolError
    <2>2. calls' \in 0..TotalMaxCalls
        BY <1>8, QuotaAssumption DEF ToolError, Call, IInv, TypeOK
    <2> QED
        BY <1>0, <1>8, <2>1, <2>2, PresentingKeepsIInv DEF ToolError, Call, IInv, TypeOK
<1>9. CASE Verification
    <2>1. PICK t \in Tokens, o \in Outcomes :
              /\ Call
              /\ "verifier" \in wf.exposes[phase]
              /\ verifState' = LatestOutcome(t, o)
              /\ step(o, Append(record, Evaluation(t, o)), verifState', "calls")
        BY <1>9 DEF Verification
    <2>2. calls' \in 0..TotalMaxCalls
        BY <2>1, QuotaAssumption DEF Call, IInv, TypeOK
    <2>3. verifState' \in [Tokens -> Outcomes \cup {None}]
        BY <2>1 DEF LatestOutcome, IInv, TypeOK
    <2> QED
        BY <1>0, <2>1, <2>2, <2>3, PresentingKeepsIInv DEF Call, IInv, TypeOK
<1>10. CASE EndOfCalls
    <2>1. TypeOK'
        BY <1>10 DEF EndOfCalls, IInv, TypeOK, ghosts
    <2> QED
        BY <1>10, <2>1 DEF EndOfCalls, IInv, StaticTotality, Budget, ghosts
<1>11. CASE BudgetFloor
    <2>1. TypeOK'
        BY <1>11 DEF BudgetFloor, IInv, TypeOK, ghosts, Terminals
    <2> QED
        BY <1>11, <2>1 DEF BudgetFloor, IInv, StaticTotality, Budget, ghosts
<1>12. CASE MachineryFails
    <2>1. TypeOK'
        BY <1>12 DEF MachineryFails, Breach, IInv, TypeOK, Terminals, Breaches
    <2> QED
        BY <1>12, <2>1 DEF MachineryFails, Breach, IInv, StaticTotality, Budget
<1>13. CASE TurnUnrecorded
    <2>1. TypeOK'
        BY <1>13 DEF TurnUnrecorded, Turn, Breach, IInv, TypeOK, Terminals,
                     Breaches
    <2> QED
        BY <1>13, <2>1 DEF TurnUnrecorded, Turn, Breach, IInv, StaticTotality,
                           Budget
<1>14. CASE TransitionUncommitted
    <2>1. PICK t \in Tokens, o \in Outcomes :
              /\ Call
              /\ verifState' = LatestOutcome(t, o)
              /\ pc' = "invariant" /\ breach' = "machinery"
              /\ UNCHANGED <<phase, edgeFires, visits, fired>>
        BY <1>14 DEF TransitionUncommitted
    <2>2. calls' \in 0..TotalMaxCalls
        BY <2>1, QuotaAssumption DEF Call, IInv, TypeOK
    <2>3. verifState' \in [Tokens -> Outcomes \cup {None}]
        BY <2>1 DEF LatestOutcome, IInv, TypeOK
    <2>4. TypeOK'
        BY <2>1, <2>2, <2>3 DEF Call, IInv, TypeOK, Terminals, Breaches
    <2> QED
        BY <2>1, <2>4 DEF Call, IInv, StaticTotality, Budget
<1>15. CASE UNCHANGED vars
    <2>1. TypeOK'
        BY <1>15 DEF vars, IInv, TypeOK
    <2> QED
        BY <1>15, <2>1 DEF vars, IInv, StaticTotality, Budget
<1> QED
    BY <1>1, <1>2, <1>3, <1>4, <1>5, <1>6, <1>7, <1>8, <1>9, <1>10, <1>11, <1>12,
       <1>13, <1>14, <1>15 DEF Next, Loop

(***************************************************************************)
(* The inductive invariant holds in every reachable state.                 *)
(***************************************************************************)
THEOREM WalkInvariant == Spec => []IInv
<1> QED
    BY InitIInv, NextKeepsIInv, PTL DEF Spec

(***************************************************************************)
(* Type correctness of the walk.                                           *)
(***************************************************************************)
THEOREM WalkTypeCorrect == Spec => []TypeOK
<1>1. IInv => TypeOK
    BY DEF IInv
<1> QED
    BY WalkInvariant, <1>1, PTL

(***************************************************************************)
(* The two "static totality" invariants of step are unreachable, for every *)
(* definition that loads and is assembled (loop.go:368-405).               *)
(***************************************************************************)
THEOREM EdgeMapIsTotal == Spec => []StaticTotality
<1>1. IInv => StaticTotality
    BY DEF IInv
<1> QED
    BY WalkInvariant, <1>1, PTL

(***************************************************************************)
(* Phases are revisited only against fires of countered edges: the static  *)
(* boundedness the loader is there for (workflow.go:253-268).              *)
(***************************************************************************)
THEOREM RevisitsAreCountered == Spec => []VisitsPaidFor
<1>1. IInv => VisitsPaidFor
    BY DEF IInv, Budget, VisitsPaidFor
<1> QED
    BY WalkInvariant, <1>1, PTL

(***************************************************************************)
(* The latest of the indexes of a record, and the earliest of the edges:   *)
(* every non-empty set of indexes has them.                                *)
(***************************************************************************)
LEMMA MaxIs ==
    ASSUME NEW S \in SUBSET Nat, NEW m \in S, \A y \in S : y <= m
    PROVE  Max(S) = m
<1>1. \A x \in S : x \in Nat
    OBVIOUS
<1>2. m \in S /\ \A y \in S : m >= y
    BY <1>1
<1>3. \A x \in S : (\A y \in S : x >= y) => x = m
    BY <1>1
<1> QED
    BY <1>2, <1>3 DEF Max

LEMMA MinIs ==
    ASSUME NEW S \in SUBSET Nat, NEW m \in S, \A y \in S : m <= y
    PROVE  Min(S) = m
<1>1. \A x \in S : x \in Nat
    OBVIOUS
<1>2. \A x \in S : (\A y \in S : x <= y) => x = m
    BY <1>1
<1> QED
    BY <1>2 DEF Min

LEMMA MaxExists ==
    ASSUME NEW n \in Nat, NEW S \in SUBSET (1..n), S # {}
    PROVE  Max(S) \in S /\ \A y \in S : y <= Max(S)
<1> DEFINE T == {n - y : y \in S}
<1>1. T \in SUBSET Nat /\ T # {}
    <2>1. \A y \in S : y \in 1..n /\ n - y \in Nat
        OBVIOUS
    <2> QED
        BY <2>1
<1>2. PICK d \in T : \A c \in T : d <= c
    BY <1>1, FirstExists
<1>3. PICK m \in S : d = n - m
    BY <1>2
<1>4. \A y \in S : n - m <= n - y
    BY <1>2, <1>3
<1>5. \A y \in S : y <= m
    BY <1>4
<1>6. S \in SUBSET Nat
    OBVIOUS
<1> QED
    BY <1>3, <1>5, <1>6, MaxIs

(***************************************************************************)
(* What a record is a sequence of, and what its first n entries say: the   *)
(* phase they lead to and the latest outcome of every token. The record is *)
(* an argument here, for an event may come with an entry of its own.       *)
(***************************************************************************)
Moves == [class : {"workflow-transition"}, from : Phases, to : Stay..Fail,
          on : Events, exhausted : BOOLEAN, gate : Gates \cup {None}]
Evaluations == [class : {"l10-verification"}, token : Tokens, outcome : Outcomes]
Entries == Moves \cup Evaluations

MovesIn(r, n) == {k \in 1..n : IsTransition(r[k])}
EvaluationsIn(r, n, t) == {k \in 1..n : IsEvaluation(r[k]) /\ r[k].token = t}

Leads(w, r, n) ==
    IF MovesIn(r, n) = {} THEN w.initial ELSE r[Max(MovesIn(r, n))].to
Latest(r, n, t) ==
    IF EvaluationsIn(r, n, t) = {} THEN None
    ELSE r[Max(EvaluationsIn(r, n, t))].outcome
VerifAt(r, n) == [t \in Tokens |-> Latest(r, n, t)]

(***************************************************************************)
(* What the first n entries say depends on them alone, ...                 *)
(***************************************************************************)
LEMMA PrefixSays ==
    ASSUME NEW w, NEW r, NEW s, NEW n \in Nat, \A k \in 1..n : r[k] = s[k]
    PROVE  Leads(w, r, n) = Leads(w, s, n) /\ VerifAt(r, n) = VerifAt(s, n)
<1>1. MovesIn(r, n) = MovesIn(s, n)
    BY DEF MovesIn
<1>2. Leads(w, r, n) = Leads(w, s, n)
    <2>1. MovesIn(r, n) \in SUBSET (1..n)
        BY DEF MovesIn
    <2>2. CASE MovesIn(r, n) # {}
        <3>1. Max(MovesIn(r, n)) \in 1..n
            BY <2>1, <2>2, MaxExists
        <3> QED
            BY <1>1, <3>1 DEF Leads
    <2> QED
        BY <1>1, <2>2 DEF Leads
<1>3. ASSUME NEW t \in Tokens PROVE Latest(r, n, t) = Latest(s, n, t)
    <2>1. EvaluationsIn(r, n, t) = EvaluationsIn(s, n, t)
        BY DEF EvaluationsIn
    <2>2. EvaluationsIn(r, n, t) \in SUBSET (1..n)
        BY DEF EvaluationsIn
    <2>3. CASE EvaluationsIn(r, n, t) # {}
        <3>1. Max(EvaluationsIn(r, n, t)) \in 1..n
            BY <2>2, <2>3, MaxExists
        <3> QED
            BY <2>1, <3>1 DEF Latest
    <2> QED
        BY <2>1, <2>3 DEF Latest
<1> QED
    BY <1>2, <1>3 DEF VerifAt

(***************************************************************************)
(* ... and a last entry says what it says: a transition the phase, an      *)
(* evaluation the outcome of its token, and neither anything else.         *)
(***************************************************************************)
LEMMA AppendKeepsPrefix ==
    ASSUME NEW r \in Seq(Entries), NEW x \in Entries
    PROVE  /\ Append(r, x) \in Seq(Entries)
           /\ Len(r) \in Nat
           /\ Len(Append(r, x)) = Len(r) + 1
           /\ DOMAIN Append(r, x) = 1..(Len(r) + 1)
           /\ Append(r, x)[Len(r) + 1] = x
           /\ \A k \in 1..Len(r) : Append(r, x)[k] = r[k]
OBVIOUS

LEMMA LastMoveLeads ==
    ASSUME NEW w, NEW r \in Seq(Entries), NEW x \in Moves
    PROVE  LET s == Append(r, x) IN
               /\ Leads(w, s, Len(s)) = x.to
               /\ VerifAt(s, Len(s)) = VerifAt(r, Len(r))
<1> DEFINE s == Append(r, x)
           n == Len(r)
<1>1. /\ n \in Nat /\ Len(s) = n + 1 /\ s[n + 1] = x
      /\ \A k \in 1..n : s[k] = r[k]
    BY AppendKeepsPrefix DEF Entries
<1>2. IsTransition(x) /\ ~IsEvaluation(x)
    BY DEF Moves, IsTransition, IsEvaluation
<1> HIDE DEF s, n
<1>3. MovesIn(s, n + 1) \in SUBSET Nat /\ n + 1 \in MovesIn(s, n + 1)
    BY <1>1, <1>2 DEF MovesIn
<1>4. \A y \in MovesIn(s, n + 1) : y <= n + 1
    BY <1>1 DEF MovesIn
<1>5. Max(MovesIn(s, n + 1)) = n + 1
    BY <1>3, <1>4, MaxIs
<1>6. Leads(w, s, Len(s)) = x.to
    BY <1>1, <1>3, <1>5 DEF Leads
<1>7. ASSUME NEW t PROVE EvaluationsIn(s, n + 1, t) = EvaluationsIn(s, n, t)
    <2>1. \A k \in 1..(n + 1) : k \in 1..n \/ k = n + 1
        BY <1>1
    <2>2. 1..n \subseteq 1..(n + 1)
        BY <1>1
    <2> QED
        BY <1>1, <1>2, <2>1, <2>2 DEF EvaluationsIn
<1>8. VerifAt(s, n + 1) = VerifAt(s, n)
    BY <1>7 DEF VerifAt, Latest
<1>9. VerifAt(s, n) = VerifAt(r, n)
    BY <1>1, PrefixSays
<1> QED
    BY <1>1, <1>6, <1>8, <1>9 DEF s, n

LEMMA LastEvaluationDecides ==
    ASSUME NEW w, NEW r \in Seq(Entries), NEW t \in Tokens, NEW o \in Outcomes
    PROVE  LET s == Append(r, Evaluation(t, o)) IN
               /\ Leads(w, s, Len(s)) = Leads(w, r, Len(r))
               /\ VerifAt(s, Len(s)) = [VerifAt(r, Len(r)) EXCEPT ![t] = o]
<1> DEFINE x == Evaluation(t, o)
           s == Append(r, x)
           n == Len(r)
<1>1. x \in Evaluations /\ ~IsTransition(x) /\ IsEvaluation(x) /\ x.token = t /\ x.outcome = o
    BY DEF Evaluation, Evaluations, IsTransition, IsEvaluation
<1> HIDE DEF x
<1>2. /\ n \in Nat /\ Len(s) = n + 1 /\ s[n + 1] = x
      /\ \A k \in 1..n : s[k] = r[k]
    BY <1>1, AppendKeepsPrefix DEF Entries
<1> HIDE DEF s, n
<1>3. \A k : k \in 1..(n + 1) <=> k \in 1..n \/ k = n + 1
    BY <1>2
<1>4. MovesIn(s, n + 1) = MovesIn(s, n)
    BY <1>1, <1>2, <1>3 DEF MovesIn
<1>5. Leads(w, s, n + 1) = Leads(w, r, n)
    <2>1. Leads(w, s, n) = Leads(w, r, n)
        BY <1>2, PrefixSays
    <2> QED
        BY <1>4, <2>1 DEF Leads
<1>6. Latest(s, n + 1, t) = o
    <2>1. EvaluationsIn(s, n + 1, t) \in SUBSET Nat /\ n + 1 \in EvaluationsIn(s, n + 1, t)
        BY <1>1, <1>2 DEF EvaluationsIn
    <2>2. \A y \in EvaluationsIn(s, n + 1, t) : y <= n + 1
        BY <1>2 DEF EvaluationsIn
    <2>3. Max(EvaluationsIn(s, n + 1, t)) = n + 1
        BY <2>1, <2>2, MaxIs
    <2> QED
        BY <1>1, <1>2, <2>1, <2>3 DEF Latest
<1>7. ASSUME NEW u \in Tokens, u # t PROVE Latest(s, n + 1, u) = VerifAt(r, n)[u]
    <2>1. EvaluationsIn(s, n + 1, u) = EvaluationsIn(s, n, u)
        BY <1>1, <1>2, <1>3, <1>7 DEF EvaluationsIn
    <2>2. VerifAt(s, n) = VerifAt(r, n)
        BY <1>2, PrefixSays
    <2>3. Latest(s, n + 1, u) = Latest(s, n, u)
        BY <2>1 DEF Latest
    <2>4. VerifAt(s, n)[u] = Latest(s, n, u)
        BY DEF VerifAt
    <2> QED
        BY <2>2, <2>3, <2>4
<1>8. VerifAt(s, n + 1) = [VerifAt(r, n) EXCEPT ![t] = o]
    <2>1. \A u \in Tokens : VerifAt(s, n + 1)[u] = [VerifAt(r, n) EXCEPT ![t] = o][u]
        BY <1>6, <1>7 DEF VerifAt
    <2> QED
        BY <2>1 DEF VerifAt
<1> QED
    BY <1>2, <1>5, <1>8 DEF s, n, x

(***************************************************************************)
(* The right branch for the latest outcomes: what GatesDecideOnLatest asks *)
(* of one transition, and of every transition of a record.                 *)
(***************************************************************************)
OpenGates(w, p, ev, verif) ==
    {i \in DOMAIN w.edges[p] :
        /\ w.edges[p][i].on = ev
        /\ Gated(w.edges[p][i])
        /\ Satisfied(w.edges[p][i], verif)}

RightBranch(w, x, verif) ==
    LET satisfied == OpenGates(w, x.from, x.on, verif) IN
        \/ x.gate = None /\ satisfied = {}
        \/ /\ satisfied # {}
           /\ x.gate = w.edges[x.from][Min(satisfied)].gate
           /\ x.to = w.edges[x.from][Min(satisfied)].to

Rederivable(w, r) ==
    \A k \in DOMAIN r : IsTransition(r[k]) =>
        /\ r[k].from = Leads(w, r, k - 1)
        /\ RightBranch(w, r[k], VerifAt(r, k - 1))

(***************************************************************************)
(* The edge selected is the right branch, wherever its target is followed: *)
(* the first satisfied gate of the event, or the fallback when none is.    *)
(***************************************************************************)
LEMMA SelectedIsRight ==
    ASSUME NEW w \in Workflow, LoadWorkflow(w), NEW p \in Phases, NEW ev, NEW verif,
           NEW e \in Selected(w, p, ev, verif),
           NEW x, x.from = p, x.on = ev, x.gate = e.gate,
           Gated(e) => x.to = e.to
    PROVE  RightBranch(w, x, verif)
<1> DEFINE edges == w.edges[p]
           open == {i \in DOMAIN edges :
                       /\ edges[i].on = ev
                       /\ ~Gated(edges[i]) \/ Satisfied(edges[i], verif)}
           satisfied == OpenGates(w, p, ev, verif)
<1>1. PICK i \in open : e = edges[i] /\ \A j \in open : i <= j
    BY DEF Selected
<1>2. DOMAIN edges \in SUBSET Nat
    <2>1. edges \in Seq(Edge)
        BY DEF Workflow
    <2> QED
        BY <2>1
<1>3. satisfied = {j \in open : Gated(edges[j])}
    BY DEF OpenGates
<1>4. satisfied \in SUBSET Nat
    BY <1>2 DEF OpenGates
<1>5. CASE Gated(e)
    <2>1. i \in satisfied /\ \A j \in satisfied : i <= j
        BY <1>1, <1>3, <1>5
    <2>2. Min(satisfied) = i
        BY <1>4, <2>1, MinIs
    <2> QED
        BY <1>1, <1>5, <2>1, <2>2 DEF RightBranch
<1>6. CASE ~Gated(e)
    <2>1. EdgeLoads(w, p, i)
        BY <1>1 DEF LoadWorkflow
    <2>2. LastOfItsEvent(w, p, i)
        BY <1>1, <1>6, <2>1 DEF EdgeLoads
    <2>3. ASSUME NEW j \in satisfied PROVE FALSE
        <3>1. j \in open /\ Gated(edges[j]) /\ i <= j /\ j # i
            BY <1>1, <1>3, <1>6
        <3>2. i \in Nat /\ j \in Nat /\ j \in DOMAIN edges
            BY <1>2, <3>1
        <3>3. j > i
            BY <3>1, <3>2
        <3>4. edges[j].on # edges[i].on
            BY <2>2, <3>2, <3>3 DEF LastOfItsEvent
        <3> QED
            BY <1>1, <3>1, <3>4
    <2>4. x.gate = None
        BY <1>6 DEF Gated
    <2> QED
        BY <2>3, <2>4 DEF RightBranch
<1> QED
    BY <1>5, <1>6

(***************************************************************************)
(* An entry appended leaves what was rederivable as it was.                *)
(***************************************************************************)
LEMMA AppendKeepsRederivable ==
    ASSUME NEW w, NEW r \in Seq(Entries), NEW x \in Entries, Rederivable(w, r),
           IsTransition(x) => /\ x.from = Leads(w, r, Len(r))
                              /\ RightBranch(w, x, VerifAt(r, Len(r)))
    PROVE  Rederivable(w, Append(r, x))
<1> DEFINE s == Append(r, x)
           n == Len(r)
<1>1. /\ n \in Nat /\ s[n + 1] = x /\ DOMAIN s = 1..(n + 1)
      /\ \A k \in 1..n : s[k] = r[k]
    BY AppendKeepsPrefix
<1>2. DOMAIN r = 1..n
    OBVIOUS
<1>3. (IsTransition(x) => /\ x.from = Leads(w, r, n)
                          /\ RightBranch(w, x, VerifAt(r, n)))
    OBVIOUS
<1> HIDE DEF s, n
<1> SUFFICES ASSUME NEW k \in 1..(n + 1), IsTransition(s[k])
             PROVE  /\ s[k].from = Leads(w, s, k - 1)
                    /\ RightBranch(w, s[k], VerifAt(s, k - 1))
    BY <1>1 DEF Rederivable, s
<1>4. k - 1 \in Nat /\ \A j \in 1..(k - 1) : s[j] = r[j]
    BY <1>1
<1>5. Leads(w, s, k - 1) = Leads(w, r, k - 1) /\ VerifAt(s, k - 1) = VerifAt(r, k - 1)
    BY <1>4, PrefixSays
<1>6. CASE k = n + 1
    <2>1. k - 1 = n
        BY <1>1, <1>6
    <2> QED
        BY <1>1, <1>3, <1>5, <1>6, <2>1
<1>7. CASE k \in 1..n
    <2>1. /\ r[k].from = Leads(w, r, k - 1)
          /\ RightBranch(w, r[k], VerifAt(r, k - 1))
        BY <1>1, <1>2, <1>7 DEF Rederivable
    <2> QED
        BY <1>1, <1>5, <1>7, <2>1
<1>8. k = n + 1 \/ k \in 1..n
    BY <1>1
<1> QED
    BY <1>6, <1>7, <1>8

(***************************************************************************)
(* The cursor, the verification state and the two endings are what the     *)
(* record says. With IInv this is inductive.                               *)
(***************************************************************************)
RecordInv ==
    /\ record \in Seq(Entries)
    /\ Rederivable(wf, record)
    /\ Walking /\ phase \in Phases => phase = Leads(wf, record, Len(record))
    /\ pc = "complete" => Leads(wf, record, Len(record)) = Complete
    /\ pc = "fail" => Leads(wf, record, Len(record)) = Fail
    /\ verifState = VerifAt(record, Len(record))

(***************************************************************************)
(* A move: what it records is where it goes.                               *)
(***************************************************************************)
LEMMA MoveKeepsRecord ==
    ASSUME wf \in Workflow, LoadWorkflow(wf), phase \in Phases,
           NEW ev \in Events, NEW rec \in Seq(Entries), NEW verif,
           Rederivable(wf, rec), phase = Leads(wf, rec, Len(rec)),
           verif = VerifAt(rec, Len(rec)),
           NEW e \in Selected(wf, phase, ev, verif),
           NEW to \in Stay..Fail, NEW x \in BOOLEAN, Gated(e) => to = e.to,
           NEW stays \in {"enter", "turn", "calls"}, Move(e, to, x, rec, stays),
           wf' = wf, verifState' = verif
    PROVE  RecordInv'
<1>1. CASE to = Stay
    <2>1. /\ record' = rec /\ pc' \in {"enter", "turn", "calls"}
          /\ phase' = phase \/ phase' = Stay
        BY <1>1 DEF Move
    <2>2. phase' \in Phases => phase' = phase
        BY <2>1 DEF Phases, Stay
    <2>3. verifState' = VerifAt(rec, Len(rec))
        OBVIOUS
    <2>4. pc' # "complete" /\ pc' # "fail"
        BY <2>1
    <2> QED
        BY <2>1, <2>2, <2>3, <2>4 DEF RecordInv
<1>2. CASE to # Stay
    <2> DEFINE m == Transition(e, to, x)
    <2>1. /\ record' = Append(rec, m) /\ pc' = Landing(to)
          /\ phase' = IF to \in Phases THEN to ELSE phase
        BY <1>2 DEF Move
    <2>2. PICK i \in DOMAIN wf.edges[phase] : e = wf.edges[phase][i] /\ e.on = ev
        BY SelectedIsAnEdge
    <2>3. e \in Edge
        BY <2>2, EdgeTargets
    <2>4. m \in Moves
        BY <2>3 DEF Transition, Moves, Edge
    <2>5. m.from = phase /\ m.on = ev /\ m.gate = e.gate /\ m.to = to
        BY <2>2 DEF Transition
    <2> HIDE DEF m
    <2>6. RightBranch(wf, m, verif)
        BY <2>5, SelectedIsRight
    <2>7. record' \in Seq(Entries) /\ Rederivable(wf, record')
        BY <2>1, <2>4, <2>5, <2>6, AppendKeepsPrefix, AppendKeepsRederivable DEF Entries
    <2>8. /\ Leads(wf, record', Len(record')) = to
          /\ VerifAt(record', Len(record')) = verif
        BY <2>1, <2>4, <2>5, LastMoveLeads
    <2>9. /\ pc' = "complete" => to = Complete
          /\ pc' = "fail" => to = Fail
          /\ pc' \in {"enter", "turn", "calls"} => to \in Phases
        BY <1>2, <2>1, NumPhasesAssumption
           DEF Landing, Phases, Stay, Complete, Fail
    <2> QED
        BY <2>1, <2>7, <2>8, <2>9 DEF RecordInv, Walking
<1> QED
    BY <1>1, <1>2

(***************************************************************************)
(* One presented event: the edge followed is the selected one, and a gated *)
(* edge has no counter that could send it elsewhere.                       *)
(***************************************************************************)
LEMMA PresentingKeepsRecord ==
    ASSUME IInv, pc \in {"turn", "calls"},
           NEW ev \in Events, NEW rec \in Seq(Entries), NEW verif,
           Rederivable(wf, rec), phase = Leads(wf, rec, Len(rec)),
           verif = VerifAt(rec, Len(rec)),
           NEW stays \in {"enter", "turn", "calls"},
           \/ ev \in Mandatory
           \/ ev = "signal" /\ "signal" \in wf.exposes[phase]
           \/ ev = "tool-error" /\ ev \in wf.declared
           \/ ev \in Outcomes /\ "verifier" \in wf.exposes[phase],
           step(ev, rec, verif, stays),
           wf' = wf, verifState' = verif
    PROVE  RecordInv'
<1>1. phase \in Phases /\ wf \in Workflow /\ Assembled(wf) /\ LoadWorkflow(wf)
    BY DEF IInv, TypeOK, Assembled
<1>2. ev \in wf.declared /\ Mapped(ev)
    BY <1>1, EventsMapped
<1>3. Selected(wf, phase, ev, verif) # {}
    BY <1>1, <1>2, SelectedExists DEF Mapped
<1>4. PICK e \in Selected(wf, phase, ev, verif) :
          \/ CounterFires(e) /\ Move(e, e.to, FALSE, rec, stays)
          \/ CounterExhausted(e) /\ Move(e, e.exhausted, TRUE, rec, stays)
          \/ Uncountered(e) /\ Move(e, e.to, FALSE, rec, stays)
    BY <1>2, <1>3 DEF step
<1>5. PICK i \in DOMAIN wf.edges[phase] : e = wf.edges[phase][i] /\ e.on = ev
    BY <1>1, SelectedIsAnEdge
<1>6. /\ e.to \in Stay..Fail
      /\ e.counter > 0 => e.exhausted \in Stay..Fail
    <2>1. e.counter > 0 => e.exhausted \in (phase + 1)..Fail
        BY <1>1, <1>5, EdgeTargets
    <2>2. (phase + 1)..Fail \subseteq Stay..Fail
        BY <1>1, NumPhasesAssumption DEF Phases, Stay, Fail
    <2> QED
        BY <1>1, <1>5, <2>1, <2>2, EdgeTargets
<1>7. Gated(e) => e.counter <= 0
    <2>1. EdgeLoads(wf, phase, i)
        BY <1>1, <1>5 DEF LoadWorkflow
    <2> QED
        BY <1>5, <2>1 DEF EdgeLoads, GatedEdgeLoads
<1>8. CASE Move(e, e.to, FALSE, rec, stays)
    BY <1>1, <1>6, <1>8, MoveKeepsRecord
<1>9. CASE CounterExhausted(e) /\ Move(e, e.exhausted, TRUE, rec, stays)
    <2>1. e.counter > 0
        BY <1>9 DEF CounterExhausted
    <2>2. e.exhausted \in Stay..Fail
        BY <1>6, <2>1
    <2>3. ~Gated(e)
        <3>1. e.counter \in Int
            BY <1>1, <1>5, EdgeTargets DEF Edge
        <3> QED
            BY <1>7, <2>1, <3>1
    <2> QED
        BY <1>1, <1>9, <2>2, <2>3, MoveKeepsRecord
<1> QED
    BY <1>4, <1>8, <1>9

LEMMA InitRecord == Init => RecordInv
<1> SUFFICES ASSUME Init PROVE RecordInv
    OBVIOUS
<1>1. record = <<>> /\ Len(record) = 0 /\ record \in Seq(Entries)
    BY DEF Init
<1>2. Rederivable(wf, record)
    BY <1>1 DEF Rederivable
<1>3. MovesIn(record, 0) = {} /\ \A t : EvaluationsIn(record, 0, t) = {}
    BY DEF MovesIn, EvaluationsIn
<1>4. Leads(wf, record, 0) = wf.initial /\ VerifAt(record, 0) = [t \in Tokens |-> None]
    BY <1>3 DEF Leads, VerifAt, Latest
<1> QED
    BY <1>1, <1>2, <1>4 DEF Init, RecordInv

LEMMA NextKeepsRecord == IInv /\ RecordInv /\ [Next]_vars => RecordInv'
<1> SUFFICES ASSUME IInv, RecordInv, [Next]_vars PROVE RecordInv'
    OBVIOUS
<1> USE DEF Mandatory
<1>0. /\ Mandatory \subseteq Events /\ "signal" \in Events /\ "tool-error" \in Events
      /\ Outcomes \subseteq Events
    BY DEF Events
<1>a. ASSUME pc \in {"turn", "calls"}
      PROVE  /\ record \in Seq(Entries) /\ Rederivable(wf, record)
             /\ phase \in Phases /\ phase = Leads(wf, record, Len(record))
             /\ verifState = VerifAt(record, Len(record))
    BY <1>a DEF RecordInv, Walking, IInv, TypeOK
\* What changes neither the record nor the cursor, and ends no walk.
<1>b. ASSUME UNCHANGED <<wf, phase, record, verifState>>,
             pc' \notin {"complete", "fail"}, Walking' => Walking
      PROVE  RecordInv'
    BY <1>b DEF RecordInv
<1>1. CASE EnterPhase
    BY <1>1, <1>b DEF EnterPhase, Breach, Walking
<1>2. CASE TurnsExhausted
    <2>1. step("turns-exhausted", record, verifState, "enter")
          /\ pc \in {"turn", "calls"} /\ UNCHANGED <<wf, verifState>>
        BY <1>2 DEF TurnsExhausted
    <2> QED
        BY <1>0, <1>a, <2>1, PresentingKeepsRecord
<1>3. CASE ProviderError
    <2>1. step("turn-provider-error", record, verifState, "enter")
          /\ pc \in {"turn", "calls"} /\ UNCHANGED <<wf, verifState>>
        BY <1>3 DEF ProviderError, Turn
    <2> QED
        BY <1>0, <1>a, <2>1, PresentingKeepsRecord
<1>4. CASE NoAction
    <2>1. step("turn-no-action", record, verifState, "turn")
          /\ pc \in {"turn", "calls"} /\ UNCHANGED <<wf, verifState>>
        BY <1>4 DEF NoAction, Turn
    <2> QED
        BY <1>0, <1>a, <2>1, PresentingKeepsRecord
<1>5. CASE ToolCalls
    BY <1>5, <1>b DEF ToolCalls, Turn, Walking
<1>6. CASE QuietCall
    BY <1>6, <1>b DEF QuietCall, Walking
<1>7. CASE Signal
    <2>1. step("signal", record, verifState, "calls") /\ "signal" \in wf.exposes[phase]
          /\ pc \in {"turn", "calls"} /\ UNCHANGED <<wf, verifState>>
        BY <1>7 DEF Signal, Call
    <2> QED
        BY <1>0, <1>a, <2>1, PresentingKeepsRecord
<1>8. CASE ToolError
    <2>1. step("tool-error", record, verifState, "calls") /\ "tool-error" \in wf.declared
          /\ pc \in {"turn", "calls"} /\ UNCHANGED <<wf, verifState>>
        BY <1>8 DEF ToolError, Call
    <2> QED
        BY <1>0, <1>a, <2>1, PresentingKeepsRecord
\* An evaluation is recorded and held, and moves nothing.
<1>c. ASSUME NEW t \in Tokens, NEW o \in Outcomes, pc \in {"turn", "calls"},
             verifState' = LatestOutcome(t, o)
      PROVE  LET rec == Append(record, Evaluation(t, o)) IN
                 /\ rec \in Seq(Entries) /\ Rederivable(wf, rec)
                 /\ phase = Leads(wf, rec, Len(rec))
                 /\ verifState' = VerifAt(rec, Len(rec))
    <2>1. Evaluation(t, o) \in Entries /\ ~IsTransition(Evaluation(t, o))
        BY DEF Evaluation, Entries, Evaluations, IsTransition
    <2>2. LET rec == Append(record, Evaluation(t, o)) IN
              rec \in Seq(Entries) /\ Rederivable(wf, rec)
        BY <1>a, <1>c, <2>1, AppendKeepsPrefix, AppendKeepsRederivable
    <2> DEFINE r == Append(record, Evaluation(t, o))
    <2>3. /\ Leads(wf, r, Len(r)) = Leads(wf, record, Len(record))
          /\ VerifAt(r, Len(r)) = [VerifAt(record, Len(record)) EXCEPT ![t] = o]
        BY <1>a, <1>c, LastEvaluationDecides
    <2>4. verifState' = [VerifAt(record, Len(record)) EXCEPT ![t] = o]
        BY <1>a, <1>c DEF LatestOutcome
    <2>5. phase = Leads(wf, record, Len(record))
        BY <1>a, <1>c
    <2> HIDE DEF r
    <2>6. phase = Leads(wf, r, Len(r)) /\ verifState' = VerifAt(r, Len(r))
        BY <2>3, <2>4, <2>5
    <2> QED
        BY <2>2, <2>6 DEF r
<1>9. CASE Verification
    <2>1. PICK t \in Tokens, o \in Outcomes :
              /\ Call
              /\ "verifier" \in wf.exposes[phase]
              /\ verifState' = LatestOutcome(t, o)
              /\ step(o, Append(record, Evaluation(t, o)), verifState', "calls")
        BY <1>9 DEF Verification
    <2>2. pc \in {"turn", "calls"} /\ wf' = wf
        BY <2>1 DEF Call
    <2> QED
        BY <1>0, <1>c, <2>1, <2>2, PresentingKeepsRecord
<1>10. CASE EndOfCalls
    BY <1>10, <1>b DEF EndOfCalls, Walking
<1>11. CASE BudgetFloor
    BY <1>11, <1>b DEF BudgetFloor, Walking
<1>12. CASE MachineryFails
    BY <1>12, <1>b DEF MachineryFails, Breach, Walking
<1>13. CASE TurnUnrecorded
    BY <1>13, <1>b DEF TurnUnrecorded, Turn, Breach, Walking
<1>14. CASE TransitionUncommitted
    <2>1. PICK t \in Tokens, o \in Outcomes :
              /\ Call
              /\ verifState' = LatestOutcome(t, o)
              /\ record' = Append(record, Evaluation(t, o))
              /\ pc' = "invariant"
        BY <1>14 DEF TransitionUncommitted
    <2>2. pc \in {"turn", "calls"} /\ wf' = wf
        BY <2>1 DEF Call
    <2>3. record' \in Seq(Entries) /\ Rederivable(wf, record')
          /\ verifState' = VerifAt(record', Len(record'))
        BY <1>c, <2>1, <2>2
    <2> QED
        BY <2>1, <2>2, <2>3 DEF RecordInv, Walking
<1>15. CASE UNCHANGED vars
    BY <1>15 DEF vars, RecordInv, Walking
<1> QED
    BY <1>1, <1>2, <1>3, <1>4, <1>5, <1>6, <1>7, <1>8, <1>9, <1>10, <1>11, <1>12,
       <1>13, <1>14, <1>15 DEF Next, Loop

(***************************************************************************)
(* The walk can be rederived from its record, for every definition that    *)
(* loads: every transition leaves where the record had led, the cursor and *)
(* the verification state are what it says, and every gate was decided on  *)
(* the latest outcome recorded before it (loop.go:339-447).                *)
(***************************************************************************)
THEOREM RecordTellsTheWalk == Spec => []RecordRederivesWalk
<1>1. IInv /\ RecordInv => RecordRederivesWalk
    <2> SUFFICES ASSUME IInv, RecordInv PROVE RecordRederivesWalk
        OBVIOUS
    <2>1. \A n : PhaseAt(n) = Leads(wf, record, n)
        BY DEF PhaseAt, Leads, MovesIn
    <2>2. \A n, t : LatestAt(n, t) = Latest(record, n, t)
        BY DEF LatestAt, Latest, EvaluationsIn
    <2>3. \A t \in Tokens : verifState[t] = LatestAt(Len(record), t)
        BY <2>2 DEF RecordInv, VerifAt
    <2>4. GatesDecideOnLatest
        <3> SUFFICES ASSUME NEW k \in DOMAIN record, IsTransition(record[k])
                     PROVE  LET r == record[k]
                                Open(g) == LatestAt(k - 1, g.token) = g.outcome
                                onEvent == {i \in DOMAIN wf.edges[r.from] :
                                               /\ wf.edges[r.from][i].on = r.on
                                               /\ Gated(wf.edges[r.from][i])}
                                satisfied == {i \in onEvent : Open(wf.edges[r.from][i].gate)}
                            IN \/ r.gate = None /\ satisfied = {}
                               \/ /\ satisfied # {}
                                  /\ r.gate = wf.edges[r.from][Min(satisfied)].gate
                                  /\ r.to = wf.edges[r.from][Min(satisfied)].to
            BY DEF GatesDecideOnLatest
        <3> DEFINE p == record[k].from
                   satisfied == {i \in {j \in DOMAIN wf.edges[p] :
                                            /\ wf.edges[p][j].on = record[k].on
                                            /\ Gated(wf.edges[p][j])} :
                                     LatestAt(k - 1, wf.edges[p][i].gate.token)
                                         = wf.edges[p][i].gate.outcome}
        <3>1. RightBranch(wf, record[k], VerifAt(record, k - 1))
            BY DEF RecordInv, Rederivable
        <3>2. p \in Phases
            <4>1. record[k] \in Entries
                BY DEF RecordInv
            <4> QED
                BY <4>1 DEF Entries, Moves, Evaluations, IsTransition
        <3>3. ASSUME NEW i \in DOMAIN wf.edges[p], Gated(wf.edges[p][i])
              PROVE  Satisfied(wf.edges[p][i], VerifAt(record, k - 1))
                         <=> LatestAt(k - 1, wf.edges[p][i].gate.token)
                                 = wf.edges[p][i].gate.outcome
            <4>1. wf.edges[p] \in Seq(Edge)
                BY <3>2 DEF IInv, TypeOK, Workflow
            <4>2. wf.edges[p][i] \in Edge
                BY <3>3, <4>1
            <4>3. wf.edges[p][i].gate \in Gates
                BY <3>3, <4>2 DEF Edge, Gated
            <4>4. wf.edges[p][i].gate.token \in Tokens
                BY <4>3 DEF Gates
            <4> QED
                BY <2>2, <4>4 DEF Satisfied, VerifAt
        <3>4. satisfied = OpenGates(wf, p, record[k].on, VerifAt(record, k - 1))
            BY <3>3 DEF OpenGates
        <3> QED
            BY <3>1, <3>4 DEF RightBranch
    <2> QED
        BY <2>1, <2>3, <2>4 DEF RecordInv, Rederivable, RecordRederivesWalk
<1> QED
    BY WalkInvariant, InitRecord, NextKeepsRecord, <1>1, PTL DEF Spec

=============================================================================
