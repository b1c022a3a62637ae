---------------------------- MODULE WorkflowWalk ----------------------------
(***************************************************************************)
(* The governed walk of L7 (harness/orchestration): LoadWorkflow's static  *)
(* verification of a workflow definition, and the loop that walks a loaded *)
(* definition for one task.                                                *)
(*                                                                         *)
(* A definition is data the operator supplies, so the specification        *)
(* quantifies over a set of candidate definitions: the ones that load are  *)
(* the ones a walk may be started on, and what the loader promises the     *)
(* loop is a property of the walk.                                         *)
(*                                                                         *)
(* Phases are numbered in definition order and the other targets around    *)
(* them, so that "forward" is "greater": @stay is 0, @complete and @fail   *)
(* follow the last phase.                                                  *)
(***************************************************************************)
EXTENDS Integers, Sequences, FiniteSetsExt

CONSTANTS
    NumPhases,          \* phases of a definition
    Outcomes,           \* the closed verification-outcome vocabulary
    Tokens,             \* contract-identity tokens a gate can name
    None,               \* no gate, no outcome yet
    Workflows,          \* the candidate definitions
    MaxTurnsPerPhase,   \* workflow ceiling: max_turns_per_phase
    MaxWalkLength,      \* workflow ceiling: max_walk_length
    TotalMaxCalls       \* the grant's total call quota

Phases == 1..NumPhases
Stay == 0
Complete == NumPhases + 1
Fail == NumPhases + 2
Absent == -1            \* an edge without exhausted_to

ASSUME NumPhasesAssumption == NumPhases \in Nat \ {0}
ASSUME QuotaAssumption == TotalMaxCalls \in Nat /\ MaxTurnsPerPhase \in Nat
ASSUME NoneAssumption == None \notin Outcomes

\* The events every definition must declare, the others it may, and the
\* verification events, each named by the outcome it carries.
Mandatory == {"turns-exhausted", "turn-no-action", "turn-provider-error"}
Events == Mandatory \cup {"tool-error", "signal"} \cup Outcomes

ASSUME OutcomesAssumption ==
    Outcomes \cap (Mandatory \cup {"tool-error", "signal"}) = {}

Gates == [token : Tokens, outcome : Outcomes]

Edge == [on : Events, to : Int, counter : Int, exhausted : Int,
         gate : Gates \cup {None}]

Workflow == [initial : Phases,
             declared : SUBSET Events,
             turns : [Phases -> Int],
             exposes : [Phases -> SUBSET {"signal", "verifier"}],
             edges : [Phases -> Seq(Edge)]]

ASSUME WorkflowsAssumption == Workflows \subseteq Workflow

-----------------------------------------------------------------------------
(* LoadWorkflow: what a definition must satisfy to be loaded.              *)

\* Forward is terminal or later in the definition. A mutant compares with >=.
ForwardOrSelf(from, to) == to \in from..Fail
isForward(from, to) == to \in (from + 1)..Fail

Gated(e) == e.gate # None

\* The events a walk can meet without asking are declared, and a phase that
\* exposes the control verb has declared the signal it produces.
DeclaresWhatRuns(w) ==
    /\ Mandatory \subseteq w.declared
    /\ \A p \in Phases : "signal" \in w.exposes[p] => "signal" \in w.declared

\* Among the edges of one event the gated ones come first, and one edge at
\* most is ungated.
LastOfItsEvent(w, p, i) ==
    \A j \in DOMAIN w.edges[p] :
        j > i => w.edges[p][j].on # w.edges[p][i].on

GatedEdgeLoads(p, e) ==
    /\ e.counter <= 0
    /\ e.exhausted = Absent
    /\ e.to = Stay \/ isForward(p, e.to)

UngatedEdgeLoads(p, e) ==
    /\ e.to \in Stay..Fail
    /\ e.on = "turns-exhausted" => Stay \notin {e.to, e.exhausted}
    /\ ~isForward(p, e.to) => e.counter > 0
    /\ e.counter > 0 => isForward(p, e.exhausted)
    /\ e.counter = 0 => e.exhausted = Absent

EdgeLoads(w, p, i) ==
    LET e == w.edges[p][i] IN
        /\ e.on \in w.declared
        /\ \/ Gated(e) /\ GatedEdgeLoads(p, e)
           \/ ~Gated(e) /\ UngatedEdgeLoads(p, e) /\ LastOfItsEvent(w, p, i)

\* Mutant: totality is checked only for the mandatory events.
MandatoryTotal(w) ==
    \A p \in Phases : \A ev \in Mandatory :
        \E i \in DOMAIN w.edges[p] :
            w.edges[p][i].on = ev /\ ~Gated(w.edges[p][i])

\* Every phase maps every declared event to an ungated edge. Verification
\* events are excused where no verifier is exposed, unless a gate needs its
\* fallback.
Total(w) ==
    \A p \in Phases : \A ev \in w.declared :
        \/ /\ ev \in Outcomes
           /\ \A i \in DOMAIN w.edges[p] : w.edges[p][i].on # ev
        \/ \E i \in DOMAIN w.edges[p] :
               w.edges[p][i].on = ev /\ ~Gated(w.edges[p][i])

\* SubmitTask: a phase exposing a verifier has all outcomes declared and
\* mapped.
VerifierMapped(w) ==
    \A p \in Phases : "verifier" \in w.exposes[p] =>
        \A ev \in Outcomes :
            /\ ev \in w.declared
            /\ \E i \in DOMAIN w.edges[p] : w.edges[p][i].on = ev

\* The worst case the loader computes and holds against the ceiling.
backwardCounterSum(w) ==
    MapThenSumSet(
        LAMBDA p : MapThenSumSet(
            LAMBDA i : IF w.edges[p][i].counter > 0
                       THEN w.edges[p][i].counter ELSE 0,
            DOMAIN w.edges[p]),
        Phases)

maxTurns(w) == Max({w.turns[p] : p \in Phases})

WorstCaseLen(w) == (NumPhases + backwardCounterSum(w)) * (maxTurns(w) + 1)

LoadWorkflow(w) ==
    /\ DeclaresWhatRuns(w)
    /\ \A p \in Phases : w.turns[p] \in 1..MaxTurnsPerPhase
    /\ \A p \in Phases : \A i \in DOMAIN w.edges[p] : EdgeLoads(w, p, i)
    /\ Total(w)
    /\ WorstCaseLen(w) <= MaxWalkLength

Assembled(w) == LoadWorkflow(w) /\ VerifierMapped(w)

-----------------------------------------------------------------------------
VARIABLES
    wf,         \* the definition of this task
    phase,      \* the cursor
    pc,         \* where the loop stands, or the terminal it reached
    turns,      \* model turns spent in this visit
    calls,      \* CallState.Total
    edgeFires,  \* fires of each countered edge, by phase and event
    verifState, \* latest committed outcome per token
    record,     \* the transition and verification events of the L6 record
    breach,     \* what sent the walk to the invariant path
    visits,     \* history: phases entered
    fired,      \* history: countered edges fired before exhaustion
    spent       \* history: model turns spent in all

ghosts == <<visits, fired, spent>>
vars == <<wf, phase, pc, turns, calls, edgeFires, verifState, record, breach,
          visits, fired, spent>>

Terminals == {"complete", "fail", "floor", "invariant"}
Breaches == {"none", "machinery", "cursor", "undeclared", "unmapped"}

Init ==
    /\ wf \in {w \in Workflows : Assembled(w)}
    /\ phase = wf.initial
    /\ pc = "enter"
    /\ turns = 0
    /\ calls = 0
    /\ edgeFires = [k \in Phases \X Events |-> 0]
    /\ verifState = [t \in Tokens |-> None]
    /\ record = <<>>
    /\ breach = "none"
    /\ visits = 1
    /\ fired = 0
    /\ spent = 0

-----------------------------------------------------------------------------
(* step: one declared event is presented and one edge is applied.          *)

Breach(kind) ==
    /\ pc' = "invariant"
    /\ breach' = kind
    /\ UNCHANGED <<phase, edgeFires, record, visits, fired>>

Satisfied(e, verif) == verif[e.gate.token] = e.gate.outcome

\* The edge of phase p for ev: the first satisfied gate in definition order,
\* otherwise the ungated edge. A singleton, or empty if ev is not mapped.
Selected(w, p, ev, verif) ==
    LET open == {i \in DOMAIN w.edges[p] :
                     /\ w.edges[p][i].on = ev
                     /\ \/ ~Gated(w.edges[p][i])
                        \/ Satisfied(w.edges[p][i], verif)}
    IN {w.edges[p][i] : i \in {k \in open : \A j \in open : k <= j}}

\* Mutant: the record names the edge's own target also when it is exhausted.
NominalTransition(e, to, exhausted) ==
    [class |-> "workflow-transition", from |-> phase, to |-> e.to, on |-> e.on,
     exhausted |-> exhausted, gate |-> e.gate]
Transition(e, to, exhausted) ==
    [class |-> "workflow-transition", from |-> phase, to |-> to, on |-> e.on,
     exhausted |-> exhausted, gate |-> e.gate]

Landing(to) ==
    CASE to = Complete -> "complete"
      [] to = Fail -> "fail"
      [] OTHER -> "enter"

\* A target other than @stay is recorded and then moved to. An @stay keeps
\* the walk where the caller stands, except that runPhase returns it for the
\* two events that end a visit, and run makes it the cursor.
Move(e, to, exhausted, rec, stays) ==
    \/ /\ to = Stay
       /\ record' = rec
       /\ pc' = stays
       /\ phase' = IF stays = "enter" THEN Stay ELSE phase
       /\ UNCHANGED <<visits, breach>>
    \/ /\ to # Stay
       /\ record' = Append(rec, Transition(e, to, exhausted))
       /\ pc' = Landing(to)
       /\ phase' = IF to \in Phases THEN to ELSE phase
       /\ visits' = visits + (IF to \in Phases THEN 1 ELSE 0)
       /\ UNCHANGED breach

CounterFires(e) ==
    /\ e.counter > 0
    /\ edgeFires[<<phase, e.on>>] < e.counter
    /\ edgeFires' = [edgeFires EXCEPT ![<<phase, e.on>>] = @ + 1]
    /\ fired' = fired + 1

CounterExhausted(e) ==
    /\ e.counter > 0
    /\ edgeFires[<<phase, e.on>>] >= e.counter
    /\ UNCHANGED <<edgeFires, fired>>

Uncountered(e) ==
    /\ e.counter <= 0
    /\ UNCHANGED <<edgeFires, fired>>

\* rec and verif: the record and the verification state the event comes with.
step(ev, rec, verif, stays) ==
    \/ ev \notin wf.declared /\ Breach("undeclared")
    \/ /\ ev \in wf.declared
       /\ Selected(wf, phase, ev, verif) = {}
       /\ Breach("unmapped")
    \/ \E e \in Selected(wf, phase, ev, verif) :
        /\ ev \in wf.declared
        /\ \/ CounterFires(e) /\ Move(e, e.to, FALSE, rec, stays)
           \/ CounterExhausted(e) /\ Move(e, e.exhausted, TRUE, rec, stays)
           \/ Uncountered(e) /\ Move(e, e.to, FALSE, rec, stays)

-----------------------------------------------------------------------------
(* runPhase: one visit of one phase.                                       *)

\* Mutant: a cursor that names no phase is not refused.
KnownPhaseOnly ==
    /\ pc = "enter"
    /\ turns' = 0
    /\ phase \in Phases
    /\ pc' = "turn"
    /\ UNCHANGED <<wf, phase, calls, edgeFires, verifState, record, breach,
                   ghosts>>

\* run calls runPhase with the cursor: the payload is composed and recorded,
\* or the cursor names no phase.
EnterPhase ==
    /\ pc = "enter"
    /\ turns' = 0
    /\ \/ /\ phase \in Phases
          /\ pc' = "turn"
          /\ UNCHANGED <<phase, edgeFires, record, breach, visits, fired>>
       \/ phase \notin Phases /\ Breach("cursor")
    /\ UNCHANGED <<wf, calls, verifState, spent>>

TurnsExhausted ==
    /\ pc = "turn"
    /\ turns >= wf.turns[phase]
    /\ step("turns-exhausted", record, verifState, "enter")
    /\ UNCHANGED <<wf, turns, calls, verifState, spent>>

\* The wall-clock floor is consulted before every turn.
BudgetFloor ==
    /\ pc = "turn"
    /\ turns < wf.turns[phase]
    /\ pc' = "floor"
    /\ UNCHANGED <<wf, phase, turns, calls, edgeFires, verifState, record,
                   breach, ghosts>>

\* A turn is spent whatever the model answers.
Turn ==
    /\ pc = "turn"
    /\ turns < wf.turns[phase]
    /\ turns' = turns + 1
    /\ spent' = spent + 1
    /\ UNCHANGED <<wf, calls, verifState>>

ProviderError ==
    Turn /\ step("turn-provider-error", record, verifState, "enter")

NoAction ==
    Turn /\ step("turn-no-action", record, verifState, "turn")

ToolCalls ==
    /\ Turn
    /\ pc' = "calls"
    /\ UNCHANGED <<phase, edgeFires, record, breach, visits, fired>>

\* A call the gate refuses or that decides nothing (a plain tool, a
\* delegation, a verifier refused before an instance) still counts against
\* the quota. Past the quota every call is refused and decides nothing, so
\* calls stops there.
QuietCall ==
    /\ pc = "calls"
    /\ calls < TotalMaxCalls
    /\ calls' = calls + 1
    /\ UNCHANGED <<wf, phase, pc, turns, edgeFires, verifState, record, breach,
                   ghosts>>

\* The other calls are authorized: within the quota and, for the control verb
\* and the verifiers, exposed by the phase.
Call ==
    /\ pc = "calls"
    /\ calls < TotalMaxCalls
    /\ calls' = calls + 1
    /\ UNCHANGED <<wf, turns, spent>>

Signal ==
    /\ Call
    /\ "signal" \in wf.exposes[phase]
    /\ step("signal", record, verifState, "calls")
    /\ UNCHANGED verifState

ToolError ==
    /\ Call
    /\ "tool-error" \in wf.declared
    /\ step("tool-error", record, verifState, "calls")
    /\ UNCHANGED verifState

Evaluation(t, o) == [class |-> "l10-verification", token |-> t, outcome |-> o]

LatestOutcome(t, o) == [verifState EXCEPT ![t] = o]

\* The evaluation is committed, then the walk state holds it, then the event
\* is presented.
Verification ==
    \E t \in Tokens, o \in Outcomes :
        /\ Call
        /\ "verifier" \in wf.exposes[phase]
        /\ verifState' = LatestOutcome(t, o)
        /\ step(o, Append(record, Evaluation(t, o)), verifState', "calls")

EndOfCalls ==
    /\ pc = "calls"
    /\ pc' = "turn"
    /\ UNCHANGED <<wf, phase, turns, calls, edgeFires, verifState, record,
                   breach, ghosts>>

\* Any store, append or composition the loop performs may fail, ...
MachineryFails ==
    /\ pc \in {"enter", "turn", "calls"}
    /\ Breach("machinery")
    /\ UNCHANGED <<wf, turns, calls, verifState, spent>>

\* ... also the record of a turn the model has answered, ...
TurnUnrecorded == Turn /\ Breach("machinery")

\* ... and the transition event after an evaluation that is committed.
TransitionUncommitted ==
    \E t \in Tokens, o \in Outcomes :
        /\ Call
        /\ "verifier" \in wf.exposes[phase]
        /\ verifState' = LatestOutcome(t, o)
        /\ record' = Append(record, Evaluation(t, o))
        /\ pc' = "invariant" /\ breach' = "machinery"
        /\ UNCHANGED <<phase, edgeFires, visits, fired>>

Loop ==
    \/ EnterPhase
    \/ TurnsExhausted
    \/ ProviderError
    \/ NoAction
    \/ ToolCalls
    \/ QuietCall
    \/ Signal
    \/ ToolError
    \/ Verification
    \/ EndOfCalls

Next ==
    \/ Loop
    \/ BudgetFloor
    \/ MachineryFails
    \/ TurnUnrecorded
    \/ TransitionUncommitted

Spec == Init /\ [][Next]_vars

\* The loop is sequential and each thing it waits for has a deadline (the
\* model call its turn budget, a tool its timeout), so its next step comes.
\* Neither the floor nor a failure is owed to it.
FairSpec == Spec /\ WF_vars(Loop)

-----------------------------------------------------------------------------
(* Properties                                                              *)

Walking == pc \in {"enter", "turn", "calls"}

\* Every variable keeps its type, the cursor is a phase except where an
\* exit event left it on @stay, and an unfinished walk has no breach.
TypeOK ==
    /\ wf \in Workflow
    /\ phase \in Phases \cup {Stay}
    /\ pc \in {"enter", "turn", "calls"} \cup Terminals
    /\ turns \in Nat
    /\ calls \in 0..TotalMaxCalls
    /\ edgeFires \in [Phases \X Events -> Nat]
    /\ verifState \in [Tokens -> Outcomes \cup {None}]
    /\ breach \in Breaches
    /\ pc \in {"turn", "calls"} => phase \in Phases
    /\ breach # "none" <=> pc = "invariant"
    /\ {visits, fired, spent} \subseteq Nat

\* What the loader and the assembly check is enough for the loop: no event
\* ever reaches an edge map that lacks it (step's two "static totality"
\* invariants, loop.go:368-405, are unreachable).
StaticTotality == breach \notin {"undeclared", "unmapped"}

\* Boundedness: phases are only revisited against a fire of a countered edge,
\* each of which buys at most one more pass over the definition.
VisitsPaidFor == visits <= NumPhases * (1 + fired)

IsTransition(r) == r.class = "workflow-transition"
IsEvaluation(r) == r.class = "l10-verification"

\* The latest outcome of a token among the first n events of the record.
LatestAt(n, t) ==
    LET of == {k \in 1..n : IsEvaluation(record[k]) /\ record[k].token = t}
    IN IF of = {} THEN None ELSE record[Max(of)].outcome

\* The phase the first n events of the record lead to.
PhaseAt(n) ==
    LET moves == {k \in 1..n : IsTransition(record[k])}
    IN IF moves = {} THEN wf.initial ELSE record[Max(moves)].to

\* A recorded branch was the right one: a gated edge was taken on the latest
\* outcome recorded before it and no earlier gate was satisfied; the ungated
\* edge was taken only when no gate of the event was.
GatesDecideOnLatest ==
    \A k \in DOMAIN record : IsTransition(record[k]) =>
        LET r == record[k]
            Open(g) == LatestAt(k - 1, g.token) = g.outcome
            onEvent == {i \in DOMAIN wf.edges[r.from] :
                           /\ wf.edges[r.from][i].on = r.on
                           /\ Gated(wf.edges[r.from][i])}
            satisfied == {i \in onEvent : Open(wf.edges[r.from][i].gate)}
        IN \/ r.gate = None /\ satisfied = {}
           \/ /\ satisfied # {}
              /\ r.gate = wf.edges[r.from][Min(satisfied)].gate
              /\ r.to = wf.edges[r.from][Min(satisfied)].to

\* The walk can be rederived from its record: every transition leaves the
\* phase the record had reached, the cursor is where the record leads
\* (DerivePhaseState refuses anything else), so is the verification state, and every branch
\* recorded is the one its gates select.
RecordRederivesWalk ==
    /\ \A k \in DOMAIN record :
           IsTransition(record[k]) => record[k].from = PhaseAt(k - 1)
    /\ Walking /\ phase \in Phases => phase = PhaseAt(Len(record))
    /\ pc = "complete" => PhaseAt(Len(record)) = Complete
    /\ pc = "fail" => PhaseAt(Len(record)) = Fail
    /\ \A t \in Tokens : verifState[t] = LatestAt(Len(record), t)
    /\ GatesDecideOnLatest

\* Every walk reaches a terminal (loop.go:80-81).
Terminates == <>(pc \in Terminals)

\* The loader's own bound, held against the ceiling and stated as the bound
\* on parent model turns, is one (workflow.go:299-301, projection.go:77-84).
WorstCaseBoundsWalk == spent <= WorstCaseLen(wf)

\* What the model and its tools do never ends in the invariant path
\* (workflow.go:148-152): only a failure of the machinery does.
ModelNeverBreaches == breach \in {"none", "machinery"}
=============================================================================
