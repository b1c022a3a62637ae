------------------------------ MODULE Context ------------------------------
(***************************************************************************)
(* L2 and L3 as functions of their inputs (src/harness/context): what a    *)
(* source yields, Gather's validated set, Manage's capacity omission and   *)
(* Compose's refusals.  A kind is <<family, name>>; a name, a hash, a size *)
(* and a sensitivity are numbers (equal hashes, equal bytes), and a source *)
(* holds what reading it meets, in the order it is read.                   *)
(***************************************************************************)
EXTENDS Integers, SequencesExt

CONSTANTS MaxItemBytes, MaxContextBytes, MaxContextItems, MaxComposedBytes,
          MaxMatches,   \* the files a search may match
          Frame         \* the bytes a fence and its header add to an item

ASSUME CapAssumption ==
    /\ MaxItemBytes \in Nat /\ MaxContextBytes \in Nat /\ MaxContextItems \in Nat
    /\ MaxComposedBytes \in Nat /\ MaxMatches \in Nat /\ Frame \in Nat

Classes   == {"governed-record", "governed-external", "derived", "external-untrusted"}
SourceKinds ==
    {"inline", "harness-state", "filesystem", "search", "themis", "record-object"}

\* What a kind of source can prove about its items.
allowedClasses == [k \in SourceKinds |->
    CASE k = "harness-state" -> {"derived"}
      [] k = "themis"        -> {"governed-record", "governed-external"}
      [] k = "record-object" -> Classes
      [] OTHER               -> {"external-untrusted"}]

\* The members of a set of numbers, in their order.
InOrder(S) == [k \in 1..Cardinality(S) |->
                 CHOOSE i \in S : Cardinality({j \in S : j <= i}) = k]

Total(f(_), seq) == FoldLeft(LAMBDA sum, x : sum + f(x), 0, seq)
Size(item) == item.size

-----------------------------------------------------------------------------
(* Contracts.                                                              *)

validate(contract) ==
    /\ contract.slots # << >> /\ contract.ceiling \in 0..2
    /\ \A i \in DOMAIN contract.slots :
         LET s == contract.slots[i] IN
         /\ \A j \in DOMAIN contract.slots : contract.slots[j].name = s.name => i = j
         /\ s.classes # {} /\ s.classes \subseteq Classes
         /\ ~(s.required /\ (s.withhold \/ s.droppable)) /\ ~(s.droppable /\ s.withhold)

AnyName == 0      \* the star of "file:*" and "tool:*"

kindMatches(slot, item) ==
    \/ slot = item
    \/ slot[1] \in {"file", "tool"} /\ slot[2] = AnyName /\ item[1] = slot[1]

Slots(contract) == {contract.slots[i] : i \in DOMAIN contract.slots}
Named(contract, name) == {s \in Slots(contract) : s.name = name}
SlotOf(contract, name) == CHOOSE s \in Named(contract, name) : TRUE

-----------------------------------------------------------------------------
(* Sources.                                                                *)

IsAbsence(s) == s.kind = "record-object" /\ s.reads = << >>

Fails(e) == [error |-> e, items |-> << >>]
Yields(items) == [error |-> "", items |-> items]

\* Classification is stamped from the registration, whatever an item says.
Stamp(s, item) ==
    [kind |-> item.kind, hash |-> item.hash, size |-> item.size, source |-> s.name,
     class |-> s.class, sensitivity |-> s.sensitivity]

checkSource(s) == s.kind \in SourceKinds /\ s.class \in allowedClasses[s.kind]

\* "gone": found by the walk and not there when it is read again.
Matched(r) ==
    r.status \in {"ok", "gone"} /\ r.matches /\ r.item.size <= MaxItemBytes

\* What is read of a source, a search's matches only.
ReadOf(s) == IF s.kind = "search" THEN SelectSeq(s.reads, Matched) ELSE s.reads

Bad(r) == r.status # "ok" \/ r.item.size > MaxItemBytes

\* The first of the reads that went wrong says how.
FromReads(s, reads) ==
    LET bad == {i \in DOMAIN reads : Bad(reads[i])}
        first == reads[Min(bad)]
    IN
    IF s.kind = "search" /\ \E i \in DOMAIN s.reads : s.reads[i].status = "outside"
    THEN Fails("confinement")
    ELSE IF s.kind = "search" /\ Len(reads) > MaxMatches THEN Fails("too-large")
    ELSE IF bad = {} THEN Yields([i \in DOMAIN reads |-> Stamp(s, reads[i].item)])
    ELSE IF first.status = "outside" THEN Fails("confinement")
    ELSE IF first.status = "ok" THEN Fails("too-large")
    ELSE IF s.kind = "record-object" THEN Fails(first.status)
    ELSE Yields(<< >>)

\* The items of a source, none when it is unavailable, or the error that
\* refuses the plan.
Collect(s) == FromReads(s, ReadOf(s))

-----------------------------------------------------------------------------
(* Gather.                                                                 *)

Less(a, b) ==
    \/ a.kind[2] < b.kind[2]
    \/ a.kind[2] = b.kind[2] /\ a.hash < b.hash

\* sort.SliceStable by kind and hash.
Sorted(items) ==
    LET Before(i, j) == \/ Less(items[i], items[j])
                        \/ ~Less(items[j], items[i]) /\ i < j
    IN [k \in DOMAIN items |-> items[SortSeq([i \in DOMAIN items |-> i], Before)[k]]]

\* A source that may be read, once it is.
Unfit(slot, c) ==
    IF c.error # "" THEN c.error
    ELSE IF c.items = << >> /\ slot.required THEN "required"
    ELSE IF \E i \in DOMAIN c.items : ~kindMatches(slot.kind, c.items[i].kind)
    THEN "plan"
    ELSE ""

RefusedBy(slot, ceiling, done, a) ==
    IF slot.withhold THEN "plan"
    ELSE IF \E i \in DOMAIN done : done[i].slot = a.slot /\ done[i].source.name = a.source.name
    THEN "plan"
    ELSE IF ~checkSource(a.source) THEN "source"
    ELSE IF ~IsAbsence(a.source) /\ a.source.class \notin slot.classes THEN "plan"
    ELSE IF ~IsAbsence(a.source) /\ a.source.sensitivity > ceiling
    THEN "sensitivity"
    ELSE Unfit(slot, Collect(a.source))

Refusal(contract, done, a) ==
    IF Named(contract, a.slot) = {} THEN "plan"
    ELSE RefusedBy(SlotOf(contract, a.slot), contract.ceiling, done, a)

Empty(availability) == [availability |-> availability, omitted |-> FALSE, items |-> << >>]

\* Mutant: what a slot held before is overwritten.
AssignedLast(states, a) ==
    LET new == Collect(a.source).items IN
    [states EXCEPT ![a.slot] =
        [availability |-> IF new = << >> THEN "unavailable" ELSE "delivered",
         omitted |-> FALSE, items |-> Sorted(new)]]

\* The state of the slot a names.  What earlier sources put there stays, and
\* the state says what the last one did.
Assigned(states, a) ==
    LET new == Collect(a.source).items IN
    [states EXCEPT ![a.slot] =
        [availability |-> IF new = << >> THEN "unavailable" ELSE "delivered",
         omitted |-> FALSE, items |-> Sorted(states[a.slot].items \o new)]]

AllItems(states, contract) ==
    FoldLeft(LAMBDA seq, s : seq \o states[s.name].items, << >>, contract.slots)

Refused(e) == [error |-> e, slots |-> << >>]

\* What the plan amounts to when no source of it is refused.
Validated(states, items) ==
    IF Total(Size, items) > MaxContextBytes \/ Len(items) > MaxContextItems
    THEN Refused("too-large")
    ELSE IF \E n \in DOMAIN states : states[n].availability = "none" THEN Refused("plan")
    ELSE [error |-> "", slots |-> states]

Filled(contract, plan) ==
    FoldLeft(Assigned,
             [n \in {s.name : s \in Slots(contract)} |->
                Empty(IF SlotOf(contract, n).withhold THEN "withheld" ELSE "none")],
             plan)

\* The first refusal in the order of the plan, then the caps and coverage.
Gather(contract, plan) ==
    LET Why(i) == Refusal(contract, SubSeq(plan, 1, i - 1), plan[i])
        refused == {i \in DOMAIN plan : Why(i) # ""}
    IN IF refused # {} THEN Refused(Why(Min(refused)))
       ELSE Validated(Filled(contract, plan), AllItems(Filled(contract, plan), contract))

-----------------------------------------------------------------------------
(* Manage.                                                                 *)

estimateTokens(bytes) == (bytes + 3) \div 4
Tokens(item) == estimateTokens(item.size)

LoadManagementPolicy(p) ==
    /\ p.budget > 0 /\ p.dedup \in BOOLEAN /\ IsInjective(p.drop)
    /\ \A i \in DOMAIN p.keys : p.keys[i] \in {"size_asc", "size_desc", "kind"}

\* The first of each class and hash.
Dedup(items) ==
    FoldLeft(LAMBDA kept, it :
                IF \E i \in DOMAIN kept : kept[i].class = it.class /\ kept[i].hash = it.hash
                THEN kept ELSE Append(kept, it),
             << >>, items)

KeyOf(key, item) ==
    CASE key = "size_asc" -> item.size [] key = "size_desc" -> -item.size
      [] key = "kind" -> item.kind[2]

\* Safest first: the declared keys in their order, then the hash, then the
\* place in the slot.
Safer(keys, items, i, j) ==
    LET ranks(n) == [k \in DOMAIN keys |-> KeyOf(keys[k], items[n])] \o <<items[n].hash, n>>
        differ == {k \in 1..Len(keys) + 2 : ranks(i)[k] # ranks(j)[k]}
    IN differ # {} /\ LET k == CHOOSE k \in differ : \A l \in differ : k <= l
                      IN ranks(i)[k] < ranks(j)[k]

rankForDrop(keys, items) ==
    SortSeq([i \in DOMAIN items |-> i], LAMBDA i, j : Safer(keys, items, i, j))

\* Mutant: a drop is a drop of the slot.
DropSlot(work, policy, acc, name) ==
    IF acc.used <= policy.budget THEN acc
    ELSE [used |-> acc.used - Total(Tokens, work[name]),
          dropped |-> acc.dropped \cup {<<name, i>> : i \in DOMAIN work[name]}]

\* The worst-ranked items of a slot, until the budget is met.
Drop(work, policy, acc, name) ==
    LET ranked == rankForDrop(policy.keys, work[name])
        worst  == Reverse(ranked)
        One(a, i) == IF a.used <= policy.budget THEN a
                     ELSE [used |-> a.used - Tokens(work[name][i]),
                           dropped |-> a.dropped \cup {<<name, i>>}]
    IN FoldLeft(One, acc, worst)

Keep(items, gone) ==
    FoldLeft(LAMBDA kept, i : IF i \in gone THEN kept ELSE Append(kept, items[i]),
             << >>, [i \in DOMAIN items |-> i])

Manage(contract, policy, slots) ==
    LET work == [n \in DOMAIN slots |->
                   IF policy.dedup THEN Dedup(slots[n].items) ELSE slots[n].items]
        all  == FoldLeft(LAMBDA seq, s : seq \o work[s.name], << >>, contract.slots)
        end  == FoldLeft(LAMBDA acc, n : Drop(work, policy, acc, n),
                         [used |-> Total(Tokens, all), dropped |-> {}], policy.drop)
        gone(n) == {i \in DOMAIN work[n] : <<n, i>> \in end.dropped}
        State(n) ==
            LET kept == Keep(work[n], gone(n)) IN
            IF slots[n].availability # "delivered" THEN [slots[n] EXCEPT !.items = << >>]
            ELSE IF kept = << >> THEN Empty("omitted_for_capacity")
            ELSE [availability |-> "delivered", omitted |-> gone(n) # {}, items |-> kept]
    IN
    IF \E i \in DOMAIN policy.drop : \/ Named(contract, policy.drop[i]) = {}
                                     \/ ~SlotOf(contract, policy.drop[i]).droppable
    THEN Refused("policy")
    ELSE IF end.used > policy.budget THEN Refused("budget")
    ELSE [error |-> "", used |-> end.used, slots |-> [n \in DOMAIN slots |-> State(n)]]

-----------------------------------------------------------------------------
(* Compose: what is delivered, unless the rendered view is too large.      *)

Delivered(slots, name) ==
    IF slots[name].availability = "delivered" THEN slots[name].items ELSE << >>

Compose(contract, slots) ==
    LET view == [i \in DOMAIN contract.slots |->
                   LET n == contract.slots[i].name IN
                   [slot |-> n, availability |-> slots[n].availability,
                    omitted |-> slots[n].omitted, items |-> Delivered(slots, n)]]
        Bytes(s) == Frame + Total(Size, s.items) + Frame * Len(s.items)
    IN IF Total(Bytes, view) > MaxComposedBytes THEN Refused("too-large")
       ELSE [error |-> "", view |-> view]

=============================================================================
