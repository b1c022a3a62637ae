----------------------------- MODULE Decisions -----------------------------
(***************************************************************************)
(* The pure decisions of Context put to questions: a state is a question   *)
(* and, after one step, its answer.  The properties hold the answers       *)
(* against what the decision is for.                                       *)
(***************************************************************************)
EXTENDS Context

CONSTANTS
    Plans,         \* a contract and a plan for Gather
    Pressures      \* a contract, gathered slots and a policy for Manage

ASSUME QuestionAssumption ==
    /\ \A q \in Plans \cup Pressures : validate(q.contract)
    /\ \A q \in Pressures : LoadManagementPolicy(q.policy)

VARIABLES question, answer

vars == <<question, answer>>

Pending == [error |-> "pending"]

Init == question \in Plans \cup Pressures /\ answer = Pending

Plan ==
    /\ answer = Pending /\ question.about = "plan"
    /\ answer' = Gather(question.contract, question.plan)
    /\ UNCHANGED question

Press ==
    /\ answer = Pending /\ question.about = "budget"
    /\ answer' = Manage(question.contract, question.policy, question.slots)
    /\ UNCHANGED question

Next == Plan \/ Press

Spec == Init /\ [][Next]_vars

-----------------------------------------------------------------------------
(* Properties.                                                             *)

Answered(about) == answer # Pending /\ question.about = about

\* What the sources of a slot yield, in the order of the plan.
Yielded(plan, name) ==
    FoldLeft(LAMBDA seq, a : IF a.slot = name THEN seq \o Collect(a.source).items ELSE seq,
             << >>, plan)

Count(seq, x) == Cardinality({i \in DOMAIN seq : seq[i] = x})

\* An accepted plan gathers into each slot what its sources yield, no item
\* lost, doubled or moved, in an order the plan does not decide; and a
\* required slot is never left empty, nor a withheld one filled.
GatheredIsThePlan ==
    Answered("plan") /\ answer.error = "" =>
        \A n \in DOMAIN answer.slots :
            LET items == answer.slots[n].items
                all   == Yielded(question.plan, n)
                slot  == SlotOf(question.contract, n)
            IN
            /\ Len(items) = Len(all)
            /\ \A i \in DOMAIN all : Count(items, all[i]) = Count(all, all[i])
            /\ \A i, j \in DOMAIN items : i < j => ~Less(items[j], items[i])
            /\ slot.required => items # << >>
            /\ slot.withhold => items = << >>

Lost(n) ==
    LET had == IF question.policy.dedup THEN Dedup(question.slots[n].items)
               ELSE question.slots[n].items
    IN SelectSeq(had, LAMBDA it : Count(answer.slots[n].items, it) < Count(had, it))

\* Manage meets the budget by dropping as little as the policy's order
\* allows: a slot loses nothing while an earlier one still holds an item, the
\* safest item lost was one too many, only the slots of the order lose
\* anything, and every loss shows in the state of its slot.  It refuses only
\* when the rest is over the budget alone.
ManageDropsLeast ==
    Answered("budget") /\ answer.error \in {"", "budget"} =>
        LET p == question.policy
            droppable == {p.drop[i] : i \in DOMAIN p.drop}
            names == DOMAIN question.slots
            Weight(ns, items(_)) == MapThenFoldSet(+, 0, LAMBDA n : Total(Tokens, items(n)),
                                                   LAMBDA s : CHOOSE n \in s : TRUE, ns)
            Held(n) == IF p.dedup THEN Dedup(question.slots[n].items) ELSE question.slots[n].items
            Kept(n) == answer.slots[n].items
        IN IF answer.error = "budget"
           THEN Weight(names \ droppable, Held) > p.budget
           ELSE /\ answer.used = Weight(names, Kept) /\ answer.used <= p.budget
                /\ \A n \in names \ droppable : Lost(n) = << >>
                /\ \A i \in DOMAIN p.drop : Lost(p.drop[i]) # << >> =>
                     /\ \A j \in 1..i - 1 : Kept(p.drop[j]) = << >>
                     /\ (\A j \in i + 1..Len(p.drop) : Lost(p.drop[j]) = << >>) =>
                          LET lost == Lost(p.drop[i])
                              safest == lost[rankForDrop(p.keys, lost)[1]]
                          IN answer.used + Tokens(safest) > p.budget
                /\ \A n \in names : question.slots[n].availability = "delivered" =>
                     /\ answer.slots[n].omitted <=> (Lost(n) # << >> /\ Kept(n) # << >>)
                     /\ answer.slots[n].availability =
                          IF Kept(n) = << >> THEN "omitted_for_capacity" ELSE "delivered"

=============================================================================
