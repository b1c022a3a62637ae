--------------------------- MODULE DelegationProofs ---------------------------
(***************************************************************************)
(* Delegation, for any templates, tools, files, turns and faults: what is  *)
(* on the record of a task about its delegations, whenever it is read.     *)
(***************************************************************************)
EXTENDS Delegation, SequenceTheorems, NaturalsInduction, FiniteSetTheorems, TLAPS

Walks == {"turn", "call", "audited", "stored", "answered", "failed"}

\* A sequence, of whatever its members are.
IsSeq(s) == s \in Seq({s[i] : i \in DOMAIN s})

TypeOK == walk \in Walks /\ machinery \in BOOLEAN /\ IsSeq(events) /\ IsSeq(jobs)

LEMMA Appended ==
  ASSUME NEW s, IsSeq(s), NEW x
  PROVE  /\ IsSeq(Append(s, x)) /\ Len(s) \in Nat /\ DOMAIN s = 1 .. Len(s)
         /\ Len(Append(s, x)) = Len(s) + 1 /\ DOMAIN Append(s, x) = 1 .. Len(s) + 1
         /\ Append(s, x)[Len(s) + 1] = x
         /\ \A i \in 1 .. Len(s) : Append(s, x)[i] = s[i]
         /\ Append(s, x) # << >>
  <1> DEFINE S == {s[i] : i \in DOMAIN s} \cup {x}
             a == Append(s, x)
  <1>1. s \in Seq(S)
    BY DEF IsSeq
  <1>2. /\ Len(s) \in Nat /\ DOMAIN s = 1 .. Len(s) /\ a \in Seq(S)
        /\ Len(a) = Len(s) + 1 /\ DOMAIN a = 1 .. Len(s) + 1
        /\ a[Len(s) + 1] = x /\ \A i \in 1 .. Len(s) : a[i] = s[i]
    <2> HIDE DEF S
    <2>1. x \in S
      BY DEF S
    <2> QED BY <1>1, <2>1, AppendProperties, LenProperties
  <1>3. \A i \in 1 .. Len(a) : a[i] \in {a[i_1] : i_1 \in DOMAIN a}
    BY <1>2
  <1>4. a \in [1 .. Len(a) -> {a[i] : i \in DOMAIN a}] /\ Len(a) \in Nat
    <2> HIDE DEF a
    <2> QED BY <1>2, <1>3
  <1>5. IsSeq(a)
    <2> HIDE DEF a
    <2> QED BY <1>4 DEF IsSeq
  <1>6. a # << >>
    BY <1>2
  <1> QED BY <1>2, <1>5, <1>6

LEMMA NoMembers == IsSeq(<< >>) /\ DOMAIN << >> = {} /\ Len(<< >>) = 0
  BY DEF IsSeq

\* What a member of a sequence is changed to, its domain is not.
LEMMA MemberChanged ==
  ASSUME NEW s, IsSeq(s), NEW j, NEW x, NEW a, a = [s EXCEPT ![j] = x]
  PROVE  IsSeq(a)
  <1> DEFINE n == Len(s)
  <1>1. n \in Nat /\ DOMAIN s = 1 .. n /\ s = [i \in DOMAIN s |-> s[i]]
    BY DEF IsSeq
  <1> HIDE DEF n
  <1>2. DOMAIN a = 1 .. n /\ a = [i \in DOMAIN a |-> a[i]]
    BY <1>1
  <1>3. a \in [1 .. n -> {a[i] : i \in DOMAIN a}]
    BY <1>1, <1>2
  <1>4. a \in Seq({a[i] : i \in DOMAIN a})
    <2> DEFINE S == {a[i] : i \in DOMAIN a}
    <2>1. a \in [1 .. n -> S]
      BY <1>3
    <2> HIDE DEF S
    <2>2. a \in Seq(S)
      <3>1. a \in [1 .. n -> S] /\ n \in Nat
        BY <1>1, <2>1
      <3>2. Seq(S) = UNION {[1 .. k -> S] : k \in Nat}
        BY SeqDef
      <3> QED BY <3>1, <3>2, Zenon
    <2> QED BY <2>2 DEF S
  <1> QED BY <1>4 DEF IsSeq

LEMMA TypeInit == Init => TypeOK
  BY NoMembers DEF Init, TypeOK, Walks

\* What Handle's answer leaves of the state.
LEMMA HandledTypes ==
  ASSUME TypeOK, NEW decision, NEW refs, Handled(decision, refs), IsSeq(jobs')
  PROVE  TypeOK'
  <1>1. IsSeq(Append(events, Audit(decision, refs)))
    BY Appended DEF TypeOK
  <1> QED BY <1>1 DEF Handled, TypeOK, Walks

LEMMA TypeStep == TypeOK /\ [Next]_vars => TypeOK'
  <1> SUFFICES ASSUME TypeOK, [Next]_vars PROVE TypeOK'
    OBVIOUS
  <1>0. IsSeq(events) /\ IsSeq(jobs)
    BY DEF TypeOK
  <1>1. ASSUME NEW tool, NEW args, ModelTurn(tool, args) PROVE TypeOK'
    <2>1. IsSeq(Append(events, [class |-> "model-turn", refs |-> <<Turn(<<[tool |-> tool, args |-> args]>>)>>]))
      BY <1>0, Appended
    <2>2. IsSeq(Append(jobs, [request |-> args, at |-> "ready", left |-> FALSE]))
      BY <1>0, Appended
    <2> QED BY <1>0, <1>1, <2>1, <2>2 DEF ModelTurn, TypeOK, Walks
  <1>2. ASSUME NEW j \in DOMAIN jobs, Begin(j) \/ Instantiate(j) PROVE TypeOK'
    <2>1. CASE Begin(j)
      <3> DEFINE started == [jobs[j] EXCEPT !.at = "running"]
      <3>1. jobs' = [jobs EXCEPT ![j] = started]
        BY <2>1 DEF Begin
      <3>2. IsSeq(jobs')
        <4> HIDE DEF started
        <4> QED BY <1>0, <3>1, MemberChanged
      <3> QED BY <2>1, <3>2 DEF Begin, TypeOK
    <2>2. CASE Instantiate(j)
      <3>1. IsSeq(jobs')
        BY <1>0, <2>2, MemberChanged DEF Instantiate
      <3> QED BY <2>2, <3>1 DEF Instantiate, TypeOK
    <2> QED BY <1>2, <2>1, <2>2
  <1>3. CASE Tool
    BY <1>0, <1>3, HandledTypes DEF Tool
  <1>4. CASE Instantiated
    <2>1. IsSeq(jobs')
      BY <1>0, <1>4, MemberChanged DEF Instantiated
    <2> QED BY <1>4, <2>1, HandledTypes DEF Instantiated
  <1>5. CASE Timeout
    <2>1. IsSeq(jobs')
      BY <1>0, <1>5, MemberChanged DEF Timeout
    <2> QED BY <1>5, <2>1, HandledTypes DEF Timeout
  <1>6. CASE Store
    BY <1>6 DEF Store, TypeOK, Walks
  <1>7. CASE Ask
    BY <1>7 DEF Ask, TypeOK, Walks
  <1>8. CASE Witness
    <2>1. \A e : IsSeq(Append(events, e))
      BY <1>0, Appended
    <2> QED BY <1>8, <2>1 DEF Witness, TypeOK, Walks
  <1>9. CASE Fail \/ ChangeFiles \/ Lose
    BY <1>9 DEF Fail, ChangeFiles, Lose, TypeOK, Walks
  <1>10. CASE UNCHANGED vars
    BY <1>10 DEF vars, TypeOK
  <1> QED BY <1>1, <1>2, <1>3, <1>4, <1>5, <1>6, <1>7, <1>8, <1>9, <1>10 DEF Next

\* At every step of a task whose turns delegate (seam.go Delegate) the walk is
\* at one of its places, and the record and the jobs are sequences.
THEOREM TypesHold == Spec => []TypeOK
  BY TypeInit, TypeStep, PTL DEF Spec

(***************************************************************************)
(* Composition.  What a composition that is no refusal was made of.        *)
(***************************************************************************)

Below == {ss \in Nat \X Nat : ss[1] < ss[2]}

LEMMA LeastIs ==
  ASSUME NEW S, S \subseteq Nat, S # {}
  PROVE  Min(S) \in S
  <1>1. IsWellFoundedOn(Below, Nat)
    BY NatLessThanWellFounded, Zenon DEF OpToRel, Below
  <1>2. PICK x \in S : \A y \in S : ~(<<y, x>> \in Below)
    BY <1>1, WFMin, Zenon
  <1>3. \A y \in S : y \in Nat /\ x \in Nat /\ ~(y < x)
    BY <1>2 DEF Below
  <1>4. \A y \in S : x <= y
    BY <1>3
  <1> QED BY <1>4 DEF Min

\* What a request names is a template that has a place, and finitely many
\* references.
Asks(request) ==
    request.template \in DOMAIN Start.dir /\ IsFiniteSet(DOMAIN request.evidence)

LEMMA OrderIs ==
  ASSUME NEW S, IsFiniteSet(S)
  PROVE  \E n \in Nat : DOMAIN InOrder(S) = 1 .. n
  BY FS_CardinalityType DEF InOrder

LEMMA SortedIs ==
  ASSUME NEW refs, IsFiniteSet(DOMAIN refs)
  PROVE  \E n \in Nat : DOMAIN SortEvidence(refs) = 1 .. n
  <1> DEFINE S == {refs[i].seq : i \in DOMAIN refs}
  <1>1. IsFiniteSet(S)
    <2> DEFINE f == [i \in DOMAIN refs |-> refs[i].seq]
    <2>1. f \in Surjection(DOMAIN refs, S)
      BY DEF Surjection
    <2> HIDE DEF f, S
    <2> QED BY <2>1, FS_Surjection
  <1>2. DOMAIN SortEvidence(refs) = DOMAIN InOrder(S)
    BY DEF SortEvidence
  <1> HIDE DEF S
  <1> QED BY <1>1, <1>2, OrderIs

Met(evs, request) == [i \in DOMAIN SortEvidence(request.evidence) |->
                         Establish(evs, SortEvidence(request.evidence)[i])]

KindsOf(met) == [i \in DOMAIN met |-> met[i].kind]

Stamped(refs, met) ==
    [i \in DOMAIN met |-> [seq |-> refs[i].seq, object |-> refs[i].object,
                           class |-> met[i].class, sensitivity |-> ParentCeiling]]

Viewed(t, evs, objs, brief, refs, kinds) ==
    View(t, Assignments(t, evs, objs, brief, refs, kinds))

\* c is a composition for the request, as the record and the store were.
Composed(evs, objs, request, c) ==
    LET t == c.template
        met == Met(evs, request)
        view == Viewed(t, evs, objs, request.brief, c.evidence, KindsOf(met))
    IN
    /\ TemplateLoads(t) /\ t.ref = request.template /\ IsFiniteSet(DOMAIN t.contract.slots)
    /\ \A i \in DOMAIN met : met[i].reason = ""
    /\ c.evidence = Stamped(SortEvidence(request.evidence), met)
    /\ view.error = "" /\ c.input.user = view.view

LEMMA NoRefusal ==
  ASSUME NEW c, c.reason = "", NEW x, x # ""
  PROVE  c # Is(x)
  <1> SUFFICES ASSUME c = Is(x) PROVE FALSE
    OBVIOUS
  <1>1. Is(x).reason = x
    BY DEF Is
  <1>2. c.reason = Is(x).reason
    BY Zenon
  <1> QED BY <1>1, <1>2

\* t is the template that its place holds.
ResolutionOf(t, dir, ref) ==
    TemplateLoads(t) /\ t.ref = ref /\ dir[ref] # NoFile /\ t = dir[ref][1]

LEMMA ResolveGives ==
  ASSUME NEW reg, NEW dir, NEW ref, Resolve(reg, dir, ref).reason = ""
  PROVE  ResolutionOf(Resolve(reg, dir, ref).template, dir, ref)
  <1> DEFINE t == dir[ref][1]
             found == Resolve(reg, dir, ref)
             whole == [reason |-> "", template |-> t]
  <1>1. \A x : x # "" => found # Is(x)
    <2>1. found.reason = ""
      OBVIOUS
    <2> HIDE DEF found
    <2> QED BY <2>1, NoRefusal
  <1>2. found = whole /\ dir[ref] # NoFile /\ TemplateLoads(t) /\ t.ref = ref
    <2> HIDE DEF found
    <2>1. /\ found # Is("template-unresolvable") /\ found # Is("template-withdrawn")
          /\ found # Is("template-hash-mismatch")
      BY <1>1
    <2> QED BY <2>1, Zenon DEF Resolve, found
  <1>3. whole.template = t
    OBVIOUS
  <1> HIDE DEF whole, t
  <1>4. found.template = t
    BY <1>2, <1>3, Zenon
  <1> QED BY <1>2, <1>4, Zenon DEF ResolutionOf, t, found

\* c is what is rendered of the view.
RenderingOf(c, t, refs, view) ==
    view.error = "" /\ c.template = t /\ c.evidence = refs /\ c.input.user = view.view

LEMMA RenderedGives ==
  ASSUME NEW t, NEW eis, NEW refs, NEW view, Rendered(t, eis, refs, view).reason = ""
  PROVE  RenderingOf(Rendered(t, eis, refs, view), t, refs, view)
  <1> DEFINE input == [system |-> <<eis, t.instruction>>, user |-> view.view]
             r == [reason |-> "", template |-> t, eis |-> eis, evidence |-> refs, input |-> input]
  <1>1. view.error = ""
    <2> SUFFICES ASSUME view.error # "" PROVE FALSE
      OBVIOUS
    <2>1. Rendered(t, eis, refs, view) = Is("compose-refused")
      BY Zenon DEF Rendered
    <2> QED BY <2>1, NoRefusal, Zenon
  <1>2. Rendered(t, eis, refs, view) = r
    BY <1>1, Zenon DEF Rendered
  <1>3. r.template = t /\ r.evidence = refs /\ r.input = input /\ input.user = view.view
    OBVIOUS
  <1> HIDE DEF r, input
  <1> QED BY <1>1, <1>2, <1>3, Zenon DEF RenderingOf

\* What is composed of references that were met: no other conjunct of the
\* result depends on the instructions.
LEMMA MetGives ==
  ASSUME NEW t, NEW eis, NEW evs, NEW objs, NEW brief, NEW refs, NEW met, DOMAIN met \subseteq Nat,
         composeMet(t, eis, evs, objs, brief, refs, met).reason = ""
  PROVE  /\ \A i \in DOMAIN met : met[i].reason = ""
         /\ RenderingOf(composeMet(t, eis, evs, objs, brief, refs, met), t, Stamped(refs, met),
                        Viewed(t, evs, objs, brief, Stamped(refs, met), KindsOf(met)))
  <1> DEFINE c == composeMet(t, eis, evs, objs, brief, refs, met)
             bad == {i \in DOMAIN met : met[i].reason # ""}
             view == Viewed(t, evs, objs, brief, Stamped(refs, met), KindsOf(met))
             rendered == Rendered(t, eis, Stamped(refs, met), view)
             Ambiguous == \E i \in DOMAIN KindsOf(met) : Cardinality(Targets(t, KindsOf(met)[i])) # 1
             Unread == Unreadable \in Range(eis)
             Moved == \E s \in DOMAIN eis : eis[s] # ParentEIS[s]
  <1>1. c.reason = "" /\ \A x : Is(x).reason = x
    BY DEF Is
  <1>2. c = IF bad # {} THEN Is(met[Min(bad)].reason)
            ELSE IF brief > t.max_brief THEN Is("brief-over-bound")
            ELSE IF Ambiguous THEN Is("evidence-slot-ambiguous")
            ELSE IF Unread THEN Is("resolve-failed")
            ELSE IF Moved THEN Is("machinery") ELSE rendered
    BY Zenon DEF composeMet, Stamped, Viewed, KindsOf
  <1>3. bad = {}
    <2> SUFFICES ASSUME bad # {} PROVE FALSE
      OBVIOUS
    <2>1. Min(bad) \in bad
      <3>1. bad \subseteq Nat
        OBVIOUS
      <3> HIDE DEF bad
      <3> QED BY <3>1, LeastIs
    <2>2. met[Min(bad)].reason # ""
      <3> DEFINE m == Min(bad)
      <3>1. m \in bad
        BY <2>1
      <3> HIDE DEF m
      <3>2. met[m].reason # ""
        BY <3>1
      <3> QED BY <3>2 DEF m
    <2> HIDE DEF c, bad, Ambiguous, Unread, Moved, rendered
    <2>3. c = Is(met[Min(bad)].reason)
      BY <1>2, Zenon
    <2> QED BY <1>1, <2>2, <2>3, Zenon
  <1>4. \A i \in DOMAIN met : met[i].reason = ""
    BY <1>3
  <1> HIDE DEF c, bad, Ambiguous, Unread, Moved, rendered
  <1>5. c # Is("brief-over-bound") /\ c # Is("evidence-slot-ambiguous")
    BY <1>1, NoRefusal
  <1>6. c # Is("resolve-failed") /\ c # Is("machinery")
    BY <1>1, NoRefusal
  <1>7. c = rendered
    BY <1>2, <1>3, <1>5, <1>6, Zenon
  <1>8. rendered.reason = ""
    BY <1>1, <1>7, Zenon
  <1>9. RenderingOf(rendered, t, Stamped(refs, met), view)
    <2> DEFINE stamped == Stamped(refs, met)
    <2> HIDE DEF view, stamped
    <2>1. Rendered(t, eis, stamped, view).reason = ""
      BY <1>8, Zenon DEF rendered, stamped
    <2>2. RenderingOf(Rendered(t, eis, stamped, view), t, stamped, view)
      BY <2>1, RenderedGives, Zenon
    <2> QED BY <2>2, Zenon DEF rendered, stamped
  <1>10. RenderingOf(c, t, Stamped(refs, met), view)
    BY <1>7, <1>9, Zenon
  <1> QED BY <1>4, <1>10 DEF c, view

LEMMA InNat == \A n \in Nat : 1 .. n \subseteq Nat
  OBVIOUS

LEMMA ComposeGives ==
  ASSUME NEW reg, NEW fs \in Files, NEW evs, NEW objs, NEW request, Asks(request),
         compose(reg, fs, evs, objs, request).reason = ""
  PROVE  Composed(evs, objs, request, compose(reg, fs, evs, objs, request))
  <1> DEFINE c == compose(reg, fs, evs, objs, request)
             found == Resolve(reg, fs.dir, request.template)
             t == found.template
             eis == EIS(t, fs.roots)
             refs == SortEvidence(request.evidence)
             met == Met(evs, request)
             whole == composeMet(t, eis, evs, objs, request.brief, refs, met)
             Twice == HasDuplicate(request.evidence)
  <1>1. c = IF found.reason # "" THEN found ELSE IF Twice THEN Is("evidence-duplicate") ELSE whole
    BY Zenon DEF compose, composeFor, Met
  <1>2. found.reason = "" /\ c = whole
    <2>1. c.reason = ""
      OBVIOUS
    <2> HIDE DEF c, found, Twice, whole
    <2>2. c # Is("evidence-duplicate")
      BY <2>1, NoRefusal
    <2> QED BY <1>1, <2>1, <2>2, Zenon
  <1>3. whole.reason = ""
    BY <1>2, Zenon
  <1>4. /\ TemplateLoads(t) /\ t.ref = request.template
        /\ fs.dir[request.template] # NoFile /\ t = fs.dir[request.template][1]
    <2>1. Resolve(reg, fs.dir, request.template).reason = ""
      BY <1>2
    <2>2. ResolutionOf(Resolve(reg, fs.dir, request.template).template, fs.dir, request.template)
      BY <2>1, ResolveGives, Zenon
    <2> QED BY <2>2, Zenon DEF ResolutionOf
  <1>5. IsFiniteSet(DOMAIN t.contract.slots)
    <2> HIDE DEF t
    <2>1. request.template \in DOMAIN fs.dir
      BY DelegationAssumption DEF Asks
    <2>2. IsFiniteSet(DOMAIN fs.dir[request.template][1].contract.slots)
      BY <1>4, <2>1, DelegationAssumption
    <2> QED BY <1>4, <2>2, Zenon
  <1>6. DOMAIN met \subseteq Nat
    <2>1. DOMAIN met = DOMAIN refs
      BY DEF Met
    <2> HIDE DEF met
    <2>2. PICK n \in Nat : DOMAIN refs = 1 .. n
      BY SortedIs DEF Asks
    <2>3. 1 .. n \subseteq Nat
      BY InNat, Zenon
    <2> QED BY <2>1, <2>2, <2>3, Zenon
  <1> DEFINE view == Viewed(t, evs, objs, request.brief, Stamped(refs, met), KindsOf(met))
  <1>7. /\ \A i \in DOMAIN met : met[i].reason = ""
        /\ RenderingOf(whole, t, Stamped(refs, met), view)
    <2> HIDE DEF t, eis, refs, met
    <2> QED BY <1>3, <1>6, MetGives, Zenon
  <1> HIDE DEF c, whole, t, refs, met, found
  <1>8. RenderingOf(c, t, Stamped(refs, met), view)
    BY <1>2, <1>7, Zenon
  <1>9. Composed(evs, objs, request, c)
    BY <1>4, <1>5, <1>7, <1>8, Zenon DEF Composed, RenderingOf, met, refs
  <1> QED BY <1>9 DEF c

(***************************************************************************)
(* The seam at work.  What it composed is a composition of the call for    *)
(* the record as it is, and what the model answered is an output.          *)
(***************************************************************************)

AtWork == walk \in {"audited", "stored", "answered"}
Stored == walk \in {"stored", "answered"}

SeamInv ==
    /\ files \in Files
    /\ (walk = "call" \/ AtWork) /\ call.tool = Delegate => Asks(call.args)
    /\ AtWork => call.tool = Delegate
    /\ Stored => \E objs : Composed(events, objs, call.args, composed)
    /\ walk = "answered" /\ ~reply.error => \E size \in Outputs : reply.output = <<"output", size>>

LEMMA SeamInit == Init => SeamInv
  BY DelegationAssumption DEF Init, SeamInv, AtWork, Stored

LEMMA AskedProperly ==
  ASSUME NEW n \in Nat, NEW args \in Delegations(n)
  PROVE  Asks(args)
  <1> DEFINE active == {ref \in DOMAIN Start.dir : Resolve(Registry, Start.dir, ref).reason = ""}
  <1>1. CASE args \in [template : active, brief : Briefs, form : Forms,
                       evidence : UNION {[1 .. k -> References] : k \in 0 .. n}]
    <2>1. args.template \in active /\ args.evidence \in UNION {[1 .. k -> References] : k \in 0 .. n}
      <3> HIDE DEF active
      <3> QED BY <1>1
    <2>2. PICK k \in 0 .. n : args.evidence \in [1 .. k -> References]
      BY <2>1
    <2>3. k \in Nat /\ DOMAIN args.evidence = 1 .. k
      BY <2>2
    <2>4. IsFiniteSet(1 .. k)
      BY <2>3, FS_Interval
    <2> QED BY <2>1, <2>3, <2>4 DEF Asks
  <1>2. CASE args \in [template : DOMAIN Start.dir \ active, brief : Briefs, form : Forms,
                       evidence : {<< >>}]
    <2>1. args.template \in DOMAIN Start.dir /\ args.evidence = << >>
      <3> HIDE DEF active
      <3> QED BY <1>2
    <2>2. DOMAIN << >> = {} /\ IsFiniteSet({})
      BY NoMembers, FS_EmptySet
    <2> QED BY <2>1, <2>2 DEF Asks
  <1> QED BY <1>1, <1>2, Zenon DEF Delegations

LEMMA SeamStep == SeamInv /\ [Next]_vars => SeamInv'
  <1> SUFFICES ASSUME SeamInv, [Next]_vars PROVE SeamInv'
    OBVIOUS
  <1> USE DEF AtWork, Stored
  <1>1. ASSUME NEW tool, NEW args, ModelTurn(tool, args),
               tool = Delegate => args \in Delegations(MaxRefs)
        PROVE  SeamInv'
    <2>1. tool = Delegate => Asks(args)
      BY <1>1, AskedProperly, DelegationAssumption
    <2>2. call' = [tool |-> tool, args |-> args] /\ walk' = "call" /\ files' = files
      BY <1>1 DEF ModelTurn
    <2>3. call'.tool = tool /\ call'.args = args
      BY <2>2
    <2> QED BY <2>1, <2>2, <2>3 DEF SeamInv
  <1>2. ASSUME NEW j \in DOMAIN jobs, Begin(j) \/ Instantiate(j) PROVE SeamInv'
    BY <1>2 DEF Begin, Instantiate, SeamInv
  <1>3. ASSUME NEW decision, NEW refs, Handled(decision, refs), walk = "call" PROVE SeamInv'
    BY <1>3 DEF Handled, SeamInv
  <1>4. CASE Tool \/ Instantiated \/ Timeout
    BY <1>3, <1>4 DEF Tool, Instantiated, Timeout
  <1>5. CASE Store
    <2> DEFINE c == compose(Registry, files, events, objects, call.args)
    <2>0. walk = "audited" /\ UNCHANGED <<events, files, call, reply>>
      BY <1>5 DEF Store
    <2>1. CASE Agrees(c)
      <3>1. composed' = c /\ walk' = "stored"
        BY <1>5, <2>1 DEF Store
      <3>2. c.reason = "" /\ Asks(call.args) /\ files \in Files
        BY <2>0, <2>1 DEF Agrees, SeamInv
      <3>3. Composed(events, objects, call.args, c)
        BY <3>2, ComposeGives
      <3> HIDE DEF c
      <3> QED BY <2>0, <3>1, <3>3 DEF SeamInv
    <2>2. CASE ~Agrees(c)
      BY <1>5, <2>0, <2>2 DEF Store, SeamInv
    <2> QED BY <2>1, <2>2
  <1>6. CASE Ask
    <2>1. walk = "stored" /\ walk' = "answered" /\ UNCHANGED <<events, files, call, composed>>
      BY <1>6 DEF Ask
    <2>2. ~reply'.error => \E size \in Outputs : reply'.output = <<"output", size>>
      BY <1>6 DEF Ask
    <2> QED BY <2>1, <2>2 DEF SeamInv
  <1>7. CASE Witness
    BY <1>7 DEF Witness, SeamInv
  <1>8. CASE Fail \/ ChangeFiles \/ Lose
    BY <1>8 DEF Fail, ChangeFiles, Lose, SeamInv
  <1>9. CASE UNCHANGED vars
    BY <1>9 DEF vars, SeamInv
  <1> QED BY <1>1, <1>2, <1>4, <1>5, <1>6, <1>7, <1>8, <1>9 DEF Next

(***************************************************************************)
(* Neighbours.  The last event is an authorized delegation exactly while   *)
(* the seam is at work on it.                                              *)
(***************************************************************************)

NeighbourInv ==
    /\ TypeOK /\ OneWitnessPerCall
    /\ \A i \in Witnesses : i - 1 \in DOMAIN events
    /\ AtWork => events # << >> /\ Authorized(Len(events))
    /\ walk \in {"turn", "call"} /\ events # << >> => ~Authorized(Len(events))

LEMMA EventsGrow ==
  ASSUME TypeOK, NEW e, events' = Append(events, e)
  PROVE  LET n == Len(events) IN
         /\ n \in Nat /\ DOMAIN events = 1 .. n /\ DOMAIN events' = 1 .. n + 1
         /\ Len(events') = n + 1 /\ events'[n + 1] = e /\ events' # << >>
         /\ \A i \in 1 .. n : events'[i] = events[i]
         /\ events # << >> => n \in 1 .. n
         /\ \A i : i \in 1 .. n + 1 <=> i \in 1 .. n \/ i = n + 1
  <1>1. IsSeq(events)
    BY DEF TypeOK
  <1>2. events # << >> => Len(events) # 0
    BY <1>1 DEF IsSeq
  <1> QED BY <1>1, <1>2, Appended

\* An event that is no witness, after one that is no delegation's audit.
LEMMA OtherEvent ==
  ASSUME NeighbourInv, walk \in {"turn", "call"}, NEW e, events' = Append(events, e),
         reentered' = reentered, e.class # "l8-delegation"
  PROVE  OneWitnessPerCall' /\ \A i \in Witnesses' : i - 1 \in DOMAIN events'
  <1> DEFINE n == Len(events)
  <1>1. /\ n \in Nat /\ DOMAIN events = 1 .. n /\ DOMAIN events' = 1 .. n + 1
        /\ Len(events') = n + 1 /\ events'[n + 1] = e
        /\ \A i \in 1 .. n : events'[i] = events[i]
        /\ events # << >> => n \in 1 .. n
        /\ \A i : i \in 1 .. n + 1 <=> i \in 1 .. n \/ i = n + 1
    BY EventsGrow DEF NeighbourInv
  <1>2. Witnesses' = Witnesses
    BY <1>1 DEF Witnesses
  <1>3. \A i \in Witnesses : /\ i \in 1 .. n /\ i - 1 \in 1 .. n
                             /\ events[i].body.parent = i - 1 /\ Authorized(i - 1)
    BY <1>1 DEF NeighbourInv, OneWitnessPerCall, Witnesses
  <1>4. \A i \in 1 .. n : Authorized(i)' <=> Authorized(i)
    BY <1>1 DEF Authorized
  <1> HIDE DEF n
  <1>5. \A i \in Witnesses' : events'[i].body.parent = i - 1 /\ Authorized(i - 1)'
    BY <1>1, <1>2, <1>3, <1>4
  <1>6. ASSUME NEW i \in DOMAIN events', Authorized(i)', i < Len(events') PROVE i + 1 \in Witnesses'
    <2>1. i \in 1 .. n /\ Authorized(i)
      BY <1>1, <1>4, <1>6
    <2>2. events # << >> /\ ~Authorized(n)
      BY <1>1, <2>1 DEF NeighbourInv, n
    <2>3. i < n
      BY <1>1, <2>1, <2>2
    <2> QED BY <1>1, <1>2, <2>1, <2>3 DEF NeighbourInv, OneWitnessPerCall, n
  <1>7. \A r \in reentered : events'[r.seq] = events[r.seq] /\ r.seq \in Witnesses'
    BY <1>1, <1>2, <1>3 DEF NeighbourInv, OneWitnessPerCall
  <1>8. \A r \in reentered' :
          /\ r.seq \in Witnesses'
          /\ LET d == events'[r.seq].body IN
             d.outcome = "completed" /\ d.output = r.output /\ SizeOf(r.output) <= d.template.max_output
    BY <1>7 DEF NeighbourInv, OneWitnessPerCall
  <1> QED BY <1>1, <1>2, <1>3, <1>5, <1>6, <1>8 DEF OneWitnessPerCall

LEMMA HandledNeighbours ==
  ASSUME NeighbourInv, NEW decision, NEW refs, Handled(decision, refs), walk = "call",
         TypeOK'
  PROVE  NeighbourInv'
  <1> DEFINE e == Audit(decision, refs)
  <1>1. CASE machinery
    <2>1. UNCHANGED <<events, reentered>> /\ walk' = "failed"
      BY <1>1 DEF Handled
    <2> QED BY <2>1 DEF NeighbourInv, OneWitnessPerCall, Witnesses, Authorized, AtWork
  <1>2. CASE ~machinery
    <2>1. /\ events' = Append(events, e) /\ reentered' = reentered
          /\ walk' = IF decision = "authorized" /\ call.tool = Delegate THEN "audited" ELSE "turn"
      BY <1>2 DEF Handled
    <2>2. /\ e.class = "l4-audit" /\ e.decision = decision /\ e.tool = call.tool
      BY DEF Audit
    <2> HIDE DEF e
    <2>3. OneWitnessPerCall' /\ \A i \in Witnesses' : i - 1 \in DOMAIN events'
      BY <2>1, <2>2, OtherEvent
    <2>4. events'[Len(events')] = e /\ events' # << >>
      BY <2>1, EventsGrow DEF NeighbourInv
    <2> QED BY <2>1, <2>2, <2>3, <2>4 DEF NeighbourInv, Authorized, AtWork
  <1> QED BY <1>1, <1>2

LEMMA WitnessNeighbours ==
  ASSUME NeighbourInv, SeamInv, Witness, TypeOK'
  PROVE  NeighbourInv'
  <1> DEFINE n == Len(events)
             b == Body
             out == IF reply.error THEN << >> ELSE <<reply.output>>
             e == [class |-> "l8-delegation", body |-> b,
                   refs |-> <<<<"input", composed.input>>>> \o b.templates \o out]
  <1>1. CASE ~Validate(Body)
    <2>1. UNCHANGED <<events, reentered>> /\ walk' = "failed"
      BY <1>1 DEF Witness
    <2> QED BY <2>1 DEF NeighbourInv, OneWitnessPerCall, Witnesses, Authorized, AtWork
  <1>2. CASE Validate(Body)
    <2>1. /\ walk = "answered" /\ walk' = "turn" /\ events' = Append(events, e)
          /\ reentered' = reentered \cup
               IF Outcome = "completed" THEN {[seq |-> n + 1, output |-> reply.output]} ELSE {}
      BY <1>2 DEF Witness
    <2>2. /\ e.class = "l8-delegation" /\ e.body = b
      OBVIOUS
    <2>3. /\ b.parent = n /\ b.outcome = Outcome /\ b.template = composed.template
          /\ b.output = IF reply.error THEN NoObject ELSE reply.output
      BY DEF Body, Parent
    <2>4. Outcome = "completed" =>
            ~reply.error /\ SizeOf(reply.output) <= composed.template.max_output
      <3> SUFFICES ASSUME Outcome = "completed"
                   PROVE  ~reply.error /\ SizeOf(reply.output) <= composed.template.max_output
        OBVIOUS
      <3>1. ~reply.error /\ ~(SizeOf(reply.output) > composed.template.max_output)
        BY DEF Outcome
      <3>2. PICK objs : Composed(events, objs, call.args, composed)
        BY <2>1 DEF SeamInv, Stored
      <3>3. composed.template.max_output \in 1 .. MaxItemBytes
        BY <3>2, Zenon DEF Composed, TemplateLoads
      <3>4. PICK size \in Outputs : reply.output = <<"output", size>>
        BY <2>1, <3>1 DEF SeamInv
      <3>5. SizeOf(reply.output) \in Nat
        BY <3>4, DelegationAssumption
      <3> QED BY <3>1, <3>3, <3>5, CapAssumption
    <2> HIDE DEF e, b
    <2>5. /\ n \in Nat /\ DOMAIN events = 1 .. n /\ DOMAIN events' = 1 .. n + 1
          /\ Len(events') = n + 1 /\ events'[n + 1] = e /\ events' # << >>
          /\ \A i \in 1 .. n : events'[i] = events[i]
          /\ events # << >> => n \in 1 .. n
          /\ \A i : i \in 1 .. n + 1 <=> i \in 1 .. n \/ i = n + 1
      BY <2>1, EventsGrow DEF NeighbourInv
    <2>6. Authorized(n) /\ n \in 1 .. n
      BY <2>1, <2>5 DEF NeighbourInv, AtWork
    <2> HIDE DEF n
    <2>7. Witnesses' = Witnesses \cup {n + 1}
      BY <2>2, <2>5 DEF Witnesses
    <2>8. \A i \in Witnesses : /\ i \in 1 .. n /\ i - 1 \in 1 .. n
                               /\ events[i].body.parent = i - 1 /\ Authorized(i - 1)
      BY <2>5 DEF NeighbourInv, OneWitnessPerCall, Witnesses
    <2>9. \A i \in 1 .. n : Authorized(i)' <=> Authorized(i)
      BY <2>5 DEF Authorized
    <2>10. events'[n + 1].class # "l4-audit" /\ (n + 1) - 1 = n
      BY <2>2, <2>5
    <2>11. \A i \in Witnesses' : /\ i - 1 \in DOMAIN events'
                                 /\ events'[i].body.parent = i - 1 /\ Authorized(i - 1)'
      BY <2>2, <2>3, <2>5, <2>6, <2>7, <2>8, <2>9, <2>10
    <2>12. ASSUME NEW i \in DOMAIN events', Authorized(i)', i < Len(events')
           PROVE  i + 1 \in Witnesses'
      <3>1. i \in 1 .. n /\ Authorized(i)
        BY <2>5, <2>9, <2>12
      <3>2. i = n \/ i < n
        BY <2>5, <3>1
      <3>3. i < n => i + 1 \in Witnesses
        BY <2>5, <3>1 DEF NeighbourInv, OneWitnessPerCall, n
      <3> QED BY <2>7, <3>2, <3>3
    <2>13. ASSUME NEW r \in reentered'
           PROVE  /\ r.seq \in Witnesses'
                  /\ LET d == events'[r.seq].body IN
                     /\ d.outcome = "completed" /\ d.output = r.output
                     /\ SizeOf(r.output) <= d.template.max_output
      <3>1. CASE r \in reentered
        <4>1. events'[r.seq] = events[r.seq] /\ r.seq \in Witnesses
          BY <2>5, <2>8, <3>1 DEF NeighbourInv, OneWitnessPerCall
        <4> QED BY <2>7, <3>1, <4>1 DEF NeighbourInv, OneWitnessPerCall
      <3>2. CASE r \notin reentered
        <4>1. Outcome = "completed" /\ r.seq = n + 1 /\ r.output = reply.output
          BY <2>1, <3>2
        <4> QED BY <2>2, <2>3, <2>4, <2>5, <2>7, <4>1
      <3> QED BY <3>1, <3>2
    <2>14. OneWitnessPerCall'
      BY <2>11, <2>12, <2>13 DEF OneWitnessPerCall
    <2>15. ~Authorized(Len(events))'
      BY <2>5, <2>10 DEF Authorized
    <2> QED BY <2>1, <2>11, <2>14, <2>15 DEF NeighbourInv, AtWork
  <1> QED BY <1>1, <1>2

LEMMA NeighbourStep == NeighbourInv /\ SeamInv /\ [Next]_vars => NeighbourInv'
  <1> SUFFICES ASSUME NeighbourInv, SeamInv, [Next]_vars PROVE NeighbourInv'
    OBVIOUS
  <1>0. TypeOK /\ TypeOK'
    BY TypeStep DEF NeighbourInv
  <1>1. ASSUME NEW tool, NEW args, ModelTurn(tool, args) PROVE NeighbourInv'
    <2> DEFINE e == [class |-> "model-turn", refs |-> <<Turn(<<[tool |-> tool, args |-> args]>>)>>]
    <2>1. walk = "turn" /\ walk' = "call" /\ events' = Append(events, e) /\ reentered' = reentered
      BY <1>1 DEF ModelTurn
    <2>2. e.class = "model-turn"
      OBVIOUS
    <2> HIDE DEF e
    <2>3. OneWitnessPerCall' /\ \A i \in Witnesses' : i - 1 \in DOMAIN events'
      BY <2>1, <2>2, OtherEvent
    <2>4. events'[Len(events')] = e /\ events' # << >>
      BY <1>0, <2>1, EventsGrow
    <2> QED BY <1>0, <2>1, <2>2, <2>3, <2>4 DEF NeighbourInv, Authorized, AtWork
  <1>2. ASSUME UNCHANGED <<events, reentered>>,
               AtWork' => AtWork, walk' \in {"turn", "call"} => walk' = walk
        PROVE  NeighbourInv'
    <2>1. OneWitnessPerCall' /\ \A i \in Witnesses' : i - 1 \in DOMAIN events'
      BY <1>2 DEF NeighbourInv, OneWitnessPerCall, Witnesses, Authorized
    <2>2. AtWork' => events' # << >> /\ Authorized(Len(events))'
      BY <1>2 DEF NeighbourInv, Authorized
    <2>3. walk' \in {"turn", "call"} /\ events' # << >> => ~Authorized(Len(events))'
      BY <1>2 DEF NeighbourInv, Authorized
    <2> QED BY <1>0, <2>1, <2>2, <2>3 DEF NeighbourInv
  <1>3. ASSUME NEW j \in DOMAIN jobs, Begin(j) \/ Instantiate(j) PROVE NeighbourInv'
    BY <1>2, <1>3 DEF Begin, Instantiate, AtWork
  <1>4. CASE Tool \/ Instantiated \/ Timeout
    BY <1>0, <1>4, HandledNeighbours DEF Tool, Instantiated, Timeout
  <1>5. CASE Store \/ Ask \/ Fail \/ ChangeFiles \/ Lose
    BY <1>2, <1>5 DEF Store, Ask, Fail, ChangeFiles, Lose, AtWork
  <1>6. CASE Witness
    BY <1>0, <1>6, WitnessNeighbours
  <1>7. CASE UNCHANGED vars
    BY <1>2, <1>7 DEF vars, AtWork
  <1> QED BY <1>1, <1>3, <1>4, <1>5, <1>6, <1>7 DEF Next

LEMMA NeighbourInit == Init => NeighbourInv
  <1> SUFFICES ASSUME Init PROVE NeighbourInv
    OBVIOUS
  <1>1. DOMAIN events = {} /\ events = << >> /\ reentered = {} /\ walk = "turn"
    BY NoMembers DEF Init
  <1>2. OneWitnessPerCall /\ \A i \in Witnesses : i - 1 \in DOMAIN events
    BY <1>1 DEF OneWitnessPerCall, Witnesses
  <1> QED BY <1>1, <1>2, TypeInit DEF NeighbourInv, AtWork

\* OneWitnessPerCall, whatever the bounds: loop.go's dispatch and the seam
\* put an authorized delegation and its witness next to each other.
THEOREM WitnessesAreNeighbours == Spec => []OneWitnessPerCall
  <1>1. Init => NeighbourInv /\ SeamInv
    BY NeighbourInit, SeamInit
  <1>2. NeighbourInv /\ SeamInv /\ [Next]_vars => NeighbourInv' /\ SeamInv'
    BY NeighbourStep, SeamStep
  <1>3. NeighbourInv => OneWitnessPerCall
    BY DEF NeighbourInv
  <1> QED BY <1>1, <1>2, <1>3, PTL DEF Spec

(***************************************************************************)
(* The store.                                                              *)
(***************************************************************************)

Kept(o) == o \in objects \cup lost

AskedInv ==
    /\ AskedIsStored
    /\ Stored => Kept(<<"input", composed.input>>)

\* What the store held it holds, or it is one of the lost.
LEMMA NothingVanishes ==
  ASSUME [Next]_vars, NEW o, Kept(o)
  PROVE  Kept(o)'
  <1>1. ASSUME NEW tool, NEW args, ModelTurn(tool, args) PROVE Kept(o)'
    BY <1>1 DEF ModelTurn, Kept
  <1>2. ASSUME NEW j \in DOMAIN jobs, Begin(j) \/ Instantiate(j) PROVE Kept(o)'
    BY <1>2 DEF Begin, Instantiate, Kept
  <1>3. ASSUME NEW decision, NEW refs, Handled(decision, refs) PROVE Kept(o)'
    BY <1>3 DEF Handled, Kept
  <1>4. CASE Tool \/ Instantiated \/ Timeout
    BY <1>3, <1>4 DEF Tool, Instantiated, Timeout
  <1>5. CASE Store \/ Ask
    BY <1>5 DEF Store, Ask, Kept
  <1>6. CASE Witness
    BY <1>6 DEF Witness, Kept
  <1>7. CASE Fail \/ ChangeFiles \/ Lose
    BY <1>7 DEF Fail, ChangeFiles, Lose, Kept
  <1>8. CASE UNCHANGED vars
    BY <1>8 DEF vars, Kept
  <1> QED BY <1>1, <1>2, <1>4, <1>5, <1>6, <1>7, <1>8 DEF Next

\* The record grows at its end, by one event or none.
LEMMA RecordGrows ==
  ASSUME [Next]_vars
  PROVE  events' = events \/ \E e : events' = Append(events, e)
  <1>1. ASSUME NEW tool, NEW args, ModelTurn(tool, args) PROVE \E e : events' = Append(events, e)
    BY <1>1 DEF ModelTurn
  <1>2. ASSUME NEW j \in DOMAIN jobs, Begin(j) \/ Instantiate(j) PROVE events' = events
    BY <1>2 DEF Begin, Instantiate
  <1>3. ASSUME NEW decision, NEW refs, Handled(decision, refs)
        PROVE  events' = events \/ \E e : events' = Append(events, e)
    BY <1>3 DEF Handled
  <1>4. CASE Tool \/ Instantiated \/ Timeout
    BY <1>3, <1>4 DEF Tool, Instantiated, Timeout
  <1>5. CASE Store \/ Ask \/ Fail \/ ChangeFiles \/ Lose
    BY <1>5 DEF Store, Ask, Fail, ChangeFiles, Lose
  <1>6. CASE Witness
    BY <1>6 DEF Witness
  <1>7. CASE UNCHANGED vars
    BY <1>7 DEF vars
  <1> QED BY <1>1, <1>2, <1>4, <1>5, <1>6, <1>7 DEF Next

\* What was on the record is at its place.
LEMMA PlacesKept ==
  ASSUME TypeOK, [Next]_vars
  PROVE  /\ Len(events) \in Nat /\ DOMAIN events = 1 .. Len(events)
         /\ \A i \in DOMAIN events : i \in DOMAIN events' /\ events'[i] = events[i]
  <1>1. IsSeq(events)
    BY DEF TypeOK
  <1>2. Len(events) \in Nat /\ DOMAIN events = 1 .. Len(events)
    BY <1>1, Appended
  <1>3. CASE events' = events
    BY <1>2, <1>3
  <1>4. ASSUME NEW e, events' = Append(events, e)
        PROVE  \A i \in DOMAIN events : i \in DOMAIN events' /\ events'[i] = events[i]
    BY <1>4, EventsGrow
  <1> QED BY <1>2, <1>3, <1>4, RecordGrows

LEMMA AskedStep ==
  ASSUME TypeOK, SeamInv, NeighbourInv, AskedInv, [Next]_vars
  PROVE  AskedInv'
  <1>1. (\E i \in DOMAIN events : Authorized(i)) => (\E i \in DOMAIN events : Authorized(i))'
    BY PlacesKept DEF Authorized
  <1>2. \A input \in asked : Kept(<<"input", input>>)' /\ (\E i \in DOMAIN events : Authorized(i))'
    BY <1>1, NothingVanishes DEF AskedInv, AskedIsStored, Kept
  <1>3. CASE asked' = asked
    <2>1. AskedIsStored'
      BY <1>2, <1>3 DEF AskedIsStored, Kept
    <2>2. CASE Stored' /\ Stored /\ composed' = composed
      BY <2>1, <2>2, NothingVanishes DEF AskedInv
    <2>3. CASE ~Stored'
      BY <2>1, <2>3 DEF AskedInv
    <2>4. CASE Store
      <3>1. Stored' => <<"input", composed'.input>> \in objects'
        BY <2>4 DEF Store, Stored
      <3> QED BY <2>1, <3>1 DEF AskedInv, Kept
    <2>5. ASSUME ~Store PROVE ~Stored' \/ (Stored /\ composed' = composed)
      <3>1. ASSUME NEW tool, NEW args, ModelTurn(tool, args) PROVE ~Stored'
        BY <3>1 DEF ModelTurn, Stored
      <3>2. ASSUME NEW j \in DOMAIN jobs, Begin(j) \/ Instantiate(j)
            PROVE  walk' = walk /\ composed' = composed
        BY <3>2 DEF Begin, Instantiate
      <3>3. ASSUME NEW decision, NEW refs, Handled(decision, refs) PROVE ~Stored'
        BY <3>3 DEF Handled, Stored
      <3>4. CASE Tool \/ Instantiated \/ Timeout
        BY <3>3, <3>4 DEF Tool, Instantiated, Timeout
      <3>5. CASE Ask \/ Witness \/ Fail \/ ChangeFiles \/ Lose \/ UNCHANGED vars
        BY <3>5 DEF Ask, Witness, Fail, ChangeFiles, Lose, vars, Stored
      <3> QED BY <2>5, <3>1, <3>2, <3>4, <3>5 DEF Next, Stored
    <2> QED BY <2>2, <2>3, <2>4, <2>5
  <1>4. CASE Ask
    <2>1. walk = "stored" /\ composed' = composed /\ asked' \subseteq asked \cup {composed.input}
      BY <1>4 DEF Ask
    <2>2. Kept(<<"input", composed.input>>)'
      BY <2>1, NothingVanishes DEF AskedInv, Stored
    <2>3. events # << >> /\ Authorized(Len(events))
      BY <2>1 DEF NeighbourInv, AtWork
    <2>4. Len(events) \in DOMAIN events
      <3>1. IsSeq(events)
        BY DEF TypeOK
      <3>2. Len(events) # 0
        BY <2>3, <3>1 DEF IsSeq
      <3> QED BY <3>2, PlacesKept
    <2>5. (\E i \in DOMAIN events : Authorized(i))'
      BY <1>1, <2>3, <2>4
    <2>6. AskedIsStored'
      BY <1>2, <2>1, <2>2, <2>5 DEF AskedIsStored, Kept
    <2> QED BY <2>1, <2>2, <2>6 DEF AskedInv
  <1>5. asked' = asked \/ Ask
    <2>1. ASSUME NEW tool, NEW args, ModelTurn(tool, args) PROVE asked' = asked
      BY <2>1 DEF ModelTurn
    <2>2. ASSUME NEW j \in DOMAIN jobs, Begin(j) \/ Instantiate(j) PROVE asked' = asked
      BY <2>2 DEF Begin, Instantiate
    <2>3. ASSUME NEW decision, NEW refs, Handled(decision, refs) PROVE asked' = asked
      BY <2>3 DEF Handled
    <2>4. CASE Tool \/ Instantiated \/ Timeout
      BY <2>3, <2>4 DEF Tool, Instantiated, Timeout
    <2>5. CASE Store \/ Witness \/ Fail \/ ChangeFiles \/ Lose \/ UNCHANGED vars
      BY <2>5 DEF Store, Witness, Fail, ChangeFiles, Lose, vars
    <2> QED BY <2>1, <2>2, <2>4, <2>5 DEF Next
  <1> QED BY <1>3, <1>4, <1>5

\* AskedIsStored, whatever the bounds: the seam stores the model's input
\* before it asks, so a task that dies between the two has it on disk.
THEOREM InputsAreDurable == Spec => []AskedIsStored
  <1>1. Init => NeighbourInv /\ SeamInv /\ AskedInv
    BY NeighbourInit, SeamInit DEF Init, AskedInv, AskedIsStored, Stored
  <1>2. NeighbourInv /\ SeamInv /\ AskedInv /\ [Next]_vars => NeighbourInv' /\ SeamInv' /\ AskedInv'
    BY NeighbourStep, SeamStep, AskedStep DEF NeighbourInv
  <1>3. AskedInv => AskedIsStored
    BY DEF AskedInv
  <1> QED BY <1>1, <1>2, <1>3, PTL DEF Spec

(***************************************************************************)
(* Trust.                                                                  *)
(***************************************************************************)

\* An event of the record that gives an object its class.
Vouches(e, object, class) ==
    /\ e.class = "l4-audit" /\ e.decision = "authorized"
    /\ object \in Range(e.refs) /\ ToolTrust[e.tool] = class

\* What the classes of a delegation's evidence rest on.
Trusted(evs, n, refs) ==
    \A r \in Range(refs) :
        r.class # Untrusted => \E j \in 1 .. n : Vouches(evs[j], r.object, r.class)

\* An object's class is that of its event, and no other event vouches for one.
LEMMA DerivedClass ==
  ASSUME NEW ev, NEW object, NEW hash,
         deriveClass(ev, object, hash).reason = "",
         deriveClass(ev, object, hash).class # Untrusted
  PROVE  /\ ev.class = "l4-audit" /\ ev.decision = "authorized"
         /\ deriveClass(ev, object, hash).class = ToolTrust[ev.tool]
  <1> DEFINE d == deriveClass(ev, object, hash)
             audit == [reason |-> "", kind |-> <<"tool", ev.tool>>, class |-> ToolTrust[ev.tool]]
             turn == [reason |-> "", kind |-> <<"model-turn", 1>>, class |-> Untrusted]
             output == [reason |-> "", kind |-> <<"delegation-output", 1>>, class |-> Untrusted]
  <1>1. d.reason = "" /\ d.class # Untrusted
    OBVIOUS
  <1>2. /\ audit.class = ToolTrust[ev.tool] /\ turn.class = Untrusted /\ output.class = Untrusted
    OBVIOUS
  <1>3. \/ ev.class = "l4-audit" /\ ev.decision = "authorized" /\ d = audit
        \/ d = turn \/ d = output
        \/ d = Is("evidence-unreachable") \/ d = Is("evidence-registry-drift")
    BY Zenon DEF deriveClass
  <1> HIDE DEF d, audit, turn, output
  <1>4. d # Is("evidence-unreachable") /\ d # Is("evidence-registry-drift")
    BY <1>1, NoRefusal
  <1>5. d # turn /\ d # output
    BY <1>1, <1>2, Zenon
  <1> QED BY <1>1, <1>2, <1>3, <1>4, <1>5, Zenon DEF d

LEMMA EstablishedAs ==
  ASSUME NEW evs, NEW r, Establish(evs, r).reason = ""
  PROVE  /\ Carried(evs, r) /\ Establish(evs, r) = deriveClass(evs[r.seq], r.object, ToolsHash)
  <1> DEFINE m == Establish(evs, r)
  <1>1. m.reason = ""
    OBVIOUS
  <1>2. m # Is("evidence-unreachable")
    <2> HIDE DEF m
    <2> QED BY <1>1, NoRefusal
  <1> QED BY <1>2, Zenon DEF Establish

LEMMA ComposedTrust ==
  ASSUME NEW evs, IsSeq(evs), NEW objs, NEW request, NEW c, Composed(evs, objs, request, c)
  PROVE  Trusted(evs, Len(evs), c.evidence)
  <1> DEFINE refs == SortEvidence(request.evidence)
             met == Met(evs, request)
             stamped == Stamped(refs, met)
  <1>1. c.evidence = stamped /\ \A i \in DOMAIN met : met[i].reason = ""
    BY Zenon DEF Composed
  <1>2. \A i \in DOMAIN met : met[i] = Establish(evs, refs[i])
    BY DEF Met
  <1>3. DOMAIN stamped = DOMAIN met
    BY DEF Stamped
  <1>4. \A i \in DOMAIN met : stamped[i].object = refs[i].object /\ stamped[i].class = met[i].class
    BY DEF Stamped
  <1> HIDE DEF refs, met, stamped
  <1>5. ASSUME NEW i \in DOMAIN stamped, stamped[i].class # Untrusted
        PROVE  \E j \in 1 .. Len(evs) : Vouches(evs[j], stamped[i].object, stamped[i].class)
    <2> DEFINE r == refs[i]
    <2>1. Establish(evs, r).reason = "" /\ Establish(evs, r).class # Untrusted
      BY <1>1, <1>2, <1>3, <1>4, <1>5, Zenon
    <2>2. /\ stamped[i].object = r.object /\ stamped[i].class = Establish(evs, r).class
      BY <1>2, <1>3, <1>4, <1>5, Zenon
    <2> HIDE DEF r
    <2>3. Carried(evs, r) /\ Establish(evs, r) = deriveClass(evs[r.seq], r.object, ToolsHash)
      BY <2>1, EstablishedAs
    <2>4. /\ evs[r.seq].class = "l4-audit" /\ evs[r.seq].decision = "authorized"
          /\ Establish(evs, r).class = ToolTrust[evs[r.seq].tool]
      <3> DEFINE ev == evs[r.seq]
                 object == r.object
      <3>1. /\ deriveClass(ev, object, ToolsHash).reason = ""
            /\ deriveClass(ev, object, ToolsHash).class # Untrusted
        BY <2>1, <2>3, Zenon
      <3>2. Establish(evs, r) = deriveClass(ev, object, ToolsHash)
        BY <2>3
      <3> HIDE DEF ev, object
      <3>3. /\ ev.class = "l4-audit" /\ ev.decision = "authorized"
            /\ deriveClass(ev, object, ToolsHash).class = ToolTrust[ev.tool]
        BY <3>1, DerivedClass
      <3> QED BY <3>2, <3>3, Zenon DEF ev
    <2>5. r.seq \in 1 .. Len(evs) /\ r.object \in Range(evs[r.seq].refs)
      BY <2>3, Appended DEF Carried
    <2> QED BY <2>2, <2>4, <2>5, Zenon DEF Vouches
  <1>6. \A r \in Range(stamped) : \E i \in DOMAIN stamped : r = stamped[i]
    BY DEF Range
  <1>7. Trusted(evs, Len(evs), stamped)
    BY <1>5, <1>6, Zenon DEF Trusted
  <1> QED BY <1>1, <1>7, Zenon

LEMMA TrustStep ==
  ASSUME TypeOK, SeamInv, TrustIsWitnessed, [Next]_vars
  PROVE  TrustIsWitnessed'
  <1> DEFINE n == Len(events)
             TrustAt(evs, i) == Trusted(evs, i, evs[i].body.evidence)
  <1>1. /\ n \in Nat /\ DOMAIN events = 1 .. n
        /\ \A i \in DOMAIN events : i \in DOMAIN events' /\ events'[i] = events[i]
    BY PlacesKept
  <1>2. ASSUME NEW i \in Witnesses PROVE TrustAt(events', i)
    <2>1. i \in 1 .. n /\ TrustAt(events, i)
      BY <1>1 DEF TrustIsWitnessed, Witnesses, Trusted, Vouches
    <2>2. \A j \in 1 .. i : events'[j] = events[j]
      BY <1>1, <2>1
    <2> QED BY <1>1, <2>1, <2>2 DEF Trusted
  <1>3. CASE events' = events
    <2>1. Witnesses' = Witnesses
      BY <1>3 DEF Witnesses
    <2> QED BY <1>2, <2>1 DEF TrustIsWitnessed, Trusted, Vouches
  <1>4. ASSUME NEW e, events' = Append(events, e),
               e.class = "l8-delegation" =>
                 \E objs : Composed(events, objs, call.args, composed) /\ e.body.evidence = composed.evidence
        PROVE  TrustIsWitnessed'
    <2>1. /\ DOMAIN events' = 1 .. n + 1 /\ events'[n + 1] = e
          /\ \A i \in 1 .. n : events'[i] = events[i]
          /\ \A i : i \in 1 .. n + 1 <=> i \in 1 .. n \/ i = n + 1
      BY <1>4, EventsGrow
    <2>2. ASSUME NEW i \in Witnesses', i # n + 1 PROVE TrustAt(events', i)
      <3>1. i \in Witnesses
        BY <1>1, <2>1, <2>2 DEF Witnesses
      <3> QED BY <1>2, <3>1
    <2>3. ASSUME n + 1 \in Witnesses' PROVE TrustAt(events', n + 1)
      <3>1. e.class = "l8-delegation"
        BY <2>1, <2>3 DEF Witnesses
      <3>2. Trusted(events, n, e.body.evidence)
        <4>1. PICK objs : Composed(events, objs, call.args, composed) /\ e.body.evidence = composed.evidence
          BY <1>4, <3>1
        <4>2. Trusted(events, Len(events), composed.evidence)
          BY <4>1, ComposedTrust DEF TypeOK
        <4> QED BY <4>1, <4>2, Zenon
      <3> QED BY <1>1, <2>1, <3>2 DEF Trusted
    <2>4. \A i \in Witnesses' : TrustAt(events', i)
      BY <2>2, <2>3
    <2> QED BY <2>4 DEF TrustIsWitnessed, Trusted, Vouches
  <1>5. ASSUME NEW tool, NEW args, ModelTurn(tool, args) PROVE TrustIsWitnessed'
    <2> DEFINE e == [class |-> "model-turn", refs |-> <<Turn(<<[tool |-> tool, args |-> args]>>)>>]
    <2>1. events' = Append(events, e) /\ e.class = "model-turn"
      BY <1>5 DEF ModelTurn
    <2> HIDE DEF e
    <2> QED BY <1>4, <2>1
  <1>6. ASSUME NEW decision, NEW refs, Handled(decision, refs) PROVE TrustIsWitnessed'
    <2>1. events' = events \/ events' = Append(events, Audit(decision, refs))
      BY <1>6 DEF Handled
    <2>2. Audit(decision, refs).class = "l4-audit"
      BY DEF Audit
    <2> QED BY <1>3, <1>4, <2>1, <2>2
  <1>7. ASSUME NEW j \in DOMAIN jobs, Begin(j) \/ Instantiate(j) PROVE TrustIsWitnessed'
    BY <1>3, <1>7 DEF Begin, Instantiate
  <1>8. CASE Tool \/ Instantiated \/ Timeout
    BY <1>6, <1>8 DEF Tool, Instantiated, Timeout
  <1>9. CASE Store \/ Ask \/ Fail \/ ChangeFiles \/ Lose
    BY <1>3, <1>9 DEF Store, Ask, Fail, ChangeFiles, Lose
  <1>10. CASE Witness
    <2> DEFINE b == Body
               e == [class |-> "l8-delegation", body |-> b,
                     refs |-> <<<<"input", composed.input>>>> \o b.templates \o
                              IF reply.error THEN << >> ELSE <<reply.output>>]
    <2>1. events' = events \/ events' = Append(events, e)
      BY <1>10 DEF Witness
    <2>2. e.body = b
      OBVIOUS
    <2>3. b.evidence = composed.evidence
      BY DEF Body
    <2>4. \E objs : Composed(events, objs, call.args, composed)
      BY <1>10 DEF Witness, SeamInv, Stored
    <2> HIDE DEF e, b
    <2>5. \E objs : Composed(events, objs, call.args, composed) /\ e.body.evidence = composed.evidence
      BY <2>2, <2>3, <2>4, Zenon
    <2> QED BY <1>3, <1>4, <2>1, <2>5
  <1>11. CASE UNCHANGED vars
    BY <1>3, <1>11 DEF vars
  <1> QED BY <1>5, <1>7, <1>8, <1>9, <1>10, <1>11 DEF Next

\* TrustIsWitnessed, whatever the bounds and the registry of tools: no chain
\* of models makes an object of what a model said a governed one.
THEOREM TrustIsRooted == Spec => []TrustIsWitnessed
  <1>1. Init => TypeOK /\ SeamInv /\ TrustIsWitnessed
    BY TypeInit, SeamInit, NoMembers DEF Init, TrustIsWitnessed, Witnesses
  <1>2. TypeOK /\ SeamInv /\ TrustIsWitnessed /\ [Next]_vars => TypeOK' /\ SeamInv' /\ TrustIsWitnessed'
    BY TypeStep, SeamStep, TrustStep
  <1> QED BY <1>1, <1>2, PTL DEF Spec

(***************************************************************************)
(* Sequences, one after the other.                                         *)
(***************************************************************************)

LEMMA Joined ==
  ASSUME NEW s, NEW t, IsSeq(s), IsSeq(t)
  PROVE  /\ Len(s) \in Nat /\ Len(t) \in Nat
         /\ DOMAIN s = 1 .. Len(s) /\ DOMAIN t = 1 .. Len(t)
         /\ IsSeq(s \o t) /\ Len(s \o t) = Len(s) + Len(t)
         /\ DOMAIN (s \o t) = 1 .. Len(s) + Len(t)
         /\ \A i \in 1 .. Len(s) : (s \o t)[i] = s[i]
         /\ \A i \in 1 .. Len(t) : (s \o t)[Len(s) + i] = t[i]
  <1> DEFINE S == {s[i] : i \in DOMAIN s} \cup {t[i] : i \in DOMAIN t}
             u == s \o t
  <1>1. s \in Seq(S) /\ t \in Seq(S)
    BY DEF IsSeq
  <1>2. /\ Len(s) \in Nat /\ Len(t) \in Nat
        /\ DOMAIN s = 1 .. Len(s) /\ DOMAIN t = 1 .. Len(t)
    <2> HIDE DEF S
    <2> QED BY <1>1, LenProperties
  <1>3. /\ u \in Seq(S) /\ Len(u) = Len(s) + Len(t)
        /\ \A i \in 1 .. Len(s) + Len(t) : u[i] = IF i <= Len(s) THEN s[i] ELSE t[i - Len(s)]
    <2> HIDE DEF S
    <2> QED BY <1>1, ConcatProperties
  <1>4. DOMAIN u = 1 .. Len(u) /\ u \in [1 .. Len(u) -> S]
    <2> HIDE DEF S, u
    <2> QED BY <1>3, LenProperties
  <1> HIDE DEF S, u
  <1>5. \A i \in 1 .. Len(s) : u[i] = s[i]
    BY <1>2, <1>3
  <1>6. \A i \in 1 .. Len(t) : u[Len(s) + i] = t[i]
    BY <1>2, <1>3
  <1>7. IsSeq(u)
    <2>1. u \in [1 .. Len(u) -> {u[i] : i \in DOMAIN u}] /\ Len(u) \in Nat
      BY <1>2, <1>3, <1>4
    <2>2. u \in Seq({u[i] : i \in DOMAIN u})
      BY <2>1
    <2> QED BY <2>2 DEF IsSeq
  <1> QED BY <1>2, <1>3, <1>4, <1>5, <1>6, <1>7 DEF u

LEMMA JoinedRange ==
  ASSUME NEW s, NEW t, IsSeq(s), IsSeq(t)
  PROVE  Range(s \o t) = Range(s) \cup Range(t)
  <1> DEFINE u == s \o t
             m == Len(s)
             n == Len(t)
  <1>1. /\ m \in Nat /\ n \in Nat /\ DOMAIN s = 1 .. m /\ DOMAIN t = 1 .. n
        /\ DOMAIN u = 1 .. m + n
        /\ \A i \in 1 .. m : u[i] = s[i]
        /\ \A i \in 1 .. n : u[m + i] = t[i]
    BY Joined
  <1> HIDE DEF u, m, n
  <1>2. \A i \in 1 .. m + n : i \in 1 .. m \/ i - m \in 1 .. n
    BY <1>1
  <1>3. \A i \in 1 .. n : m + i \in 1 .. m + n
    BY <1>1
  <1>4. \A i \in 1 .. m + n : i = m + (i - m)
    BY <1>1
  <1>5. \A i \in 1 .. m : i \in 1 .. m + n
    BY <1>1
  <1>6. ASSUME NEW i \in 1 .. m + n PROVE u[i] \in Range(s) \cup Range(t)
    <2>1. CASE i \in 1 .. m
      BY <1>1, <2>1 DEF Range
    <2>2. CASE i - m \in 1 .. n
      <3>1. u[i] = t[i - m]
        BY <1>1, <1>4, <2>2
      <3> QED BY <1>1, <2>2, <3>1 DEF Range
    <2> QED BY <1>2, <2>1, <2>2
  <1>7. \A i \in 1 .. m : s[i] \in Range(u)
    BY <1>1, <1>5 DEF Range
  <1>8. \A i \in 1 .. n : t[i] \in Range(u)
    BY <1>1, <1>3 DEF Range
  <1>9. Range(u) \subseteq Range(s) \cup Range(t)
    BY <1>1, <1>6 DEF Range
  <1>10. Range(s) \subseteq Range(u) /\ Range(t) \subseteq Range(u)
    BY <1>1, <1>7, <1>8 DEF Range
  <1> QED BY <1>9, <1>10 DEF u

LEMMA OneMember == \A x : IsSeq(<<x>>) /\ Range(<<x>>) = {x} /\ Len(<<x>>) = 1 /\ <<x>>[1] = x
  BY DEF IsSeq, Range

LEMMA TwoMembers ==
  \A x, y : /\ IsSeq(<<x, y>>) /\ Range(<<x, y>>) = {x, y} /\ Len(<<x, y>>) = 2
            /\ <<x, y>>[1] = x /\ <<x, y>>[2] = y
  BY DEF IsSeq, Range

LEMMA MembersAre ==
  ASSUME NEW t
  PROVE  /\ IsSeq(Members(t)) /\ Members(t)[1] = <<"manifest", t>>
         /\ Members(t)[1][2] = t
         /\ Members(t)[2] = <<"contract", t.contract>>
         /\ DOMAIN Members(t) = 1 .. Len(Members(t)) /\ Len(Members(t)) \in {2, 3}
         /\ Instructed(t) => Len(Members(t)) = 3 /\ Members(t)[3] = <<"instruction", t.instruction>>
         /\ \A o \in Range(Members(t)) : o # <<"registry">>
  <1> DEFINE a == <<<<"manifest", t>>, <<"contract", t.contract>>>>
             b == <<<<"instruction", t.instruction>>>>
             m == Members(t)
  <1>1. /\ IsSeq(a) /\ Len(a) = 2 /\ a[1] = <<"manifest", t>> /\ a[2] = <<"contract", t.contract>>
        /\ Range(a) = {<<"manifest", t>>, <<"contract", t.contract>>}
    BY TwoMembers
  <1>2. /\ IsSeq(b) /\ Len(b) = 1 /\ b[1] = <<"instruction", t.instruction>>
        /\ Range(b) = {<<"instruction", t.instruction>>}
    BY OneMember
  <1>3. IsSeq(<< >>) /\ Len(<< >>) = 0 /\ Range(<< >>) = {}
    BY NoMembers DEF Range
  <1>4. m = IF Instructed(t) THEN a \o b ELSE a \o << >>
    BY Zenon DEF Members, Instructed
  <1>5. \A x : <<"manifest", x>> # <<"registry">> /\ <<"contract", x>> # <<"registry">>
               /\ <<"instruction", x>> # <<"registry">> /\ <<"manifest", x>>[2] = x
    OBVIOUS
  <1> HIDE DEF a, b, m
  <1>6. CASE Instructed(t)
    <2>1. /\ IsSeq(m) /\ Len(m) = 3 /\ DOMAIN m = 1 .. 3
          /\ m[1] = a[1] /\ m[2] = a[2] /\ m[3] = b[1]
      <3>1. /\ IsSeq(m) /\ Len(m) = Len(a) + Len(b) /\ DOMAIN m = 1 .. Len(a) + Len(b)
            /\ \A i \in 1 .. Len(a) : m[i] = a[i]
            /\ \A i \in 1 .. Len(b) : m[Len(a) + i] = b[i]
        <4>1. m = a \o b
          BY <1>4, <1>6
        <4>2. IsSeq(a) /\ IsSeq(b)
          BY <1>1, <1>2
        <4>3. /\ IsSeq(a \o b) /\ DOMAIN (a \o b) = 1 .. Len(a) + Len(b)
              /\ Len(a \o b) = Len(a) + Len(b)
              /\ \A i \in 1 .. Len(a) : (a \o b)[i] = a[i]
              /\ \A i \in 1 .. Len(b) : (a \o b)[Len(a) + i] = b[i]
          BY <4>2, Joined
        <4> QED BY <4>1, <4>3, Zenon
      <3> QED BY <1>1, <1>2, <3>1
    <2>2. Range(m) = Range(a) \cup Range(b)
      BY <1>1, <1>2, <1>4, <1>6, JoinedRange
    <2> QED BY <1>1, <1>2, <1>5, <2>1, <2>2 DEF m
  <1>7. CASE ~Instructed(t)
    <2>1. /\ IsSeq(m) /\ Len(m) = 2 /\ DOMAIN m = 1 .. 2
          /\ m[1] = a[1] /\ m[2] = a[2]
      BY <1>1, <1>3, <1>4, <1>7, Joined
    <2>2. Range(m) = Range(a) \cup {}
      BY <1>1, <1>3, <1>4, <1>7, JoinedRange
    <2> QED BY <1>1, <1>5, <1>7, <2>1, <2>2 DEF m
  <1> QED BY <1>6, <1>7

(***************************************************************************)
(* A composition again.  A record only grows, so what a delegation read    *)
(* from it reads the same later.                                           *)
(***************************************************************************)

Continues(later, evs) ==
    /\ IsSeq(evs) /\ IsSeq(later)
    /\ \A i \in DOMAIN evs : i \in DOMAIN later /\ later[i] = evs[i]

LEMMA SameLeast ==
  ASSUME NEW S, NEW T, S \subseteq T, T \subseteq Nat, S # {},
         \A x \in S : \A y \in T : y \in S \/ x < y
  PROVE  Min(S) = Min(T)
  <1> DEFINE Least(U, x) == x \in U /\ \A y \in U : x =< y
  <1>1. \A U : Min(U) = CHOOSE x : Least(U, x)
    BY Zenon DEF Min
  <1>2. ASSUME NEW x PROVE Least(S, x) <=> Least(T, x)
    <2>1. ASSUME Least(S, x) PROVE Least(T, x)
      <3>1. \A y \in T : x =< y
        BY <2>1
      <3> QED BY <2>1, <3>1
    <2>2. ASSUME Least(T, x) PROVE Least(S, x)
      <3>1. PICK z \in S : TRUE
        OBVIOUS
      <3>2. x \in S
        BY <2>2, <3>1
      <3> QED BY <2>2, <3>2
    <2> QED BY <2>1, <2>2
  <1> HIDE DEF Least
  <1>3. (CHOOSE x : Least(S, x)) = (CHOOSE x : Least(T, x))
    BY <1>2, Zenon
  <1> QED BY <1>1, <1>3, Zenon

LEMMA SameAddress ==
  ASSUME NEW evs, NEW later, Continues(later, evs), NEW i \in DOMAIN evs,
         NEW object, object \in Range(evs[i].refs)
  PROVE  Address(later, object) = Address(evs, object)
  <1> DEFINE S == {k \in DOMAIN evs : object \in Range(evs[k].refs)}
             T == {k \in DOMAIN later : object \in Range(later[k].refs)}
             m == Len(evs)
             n == Len(later)
  <1>1. /\ m \in Nat /\ DOMAIN evs = 1 .. m /\ n \in Nat /\ DOMAIN later = 1 .. n
    BY Appended DEF Continues
  <1> HIDE DEF m, n
  <1>2. \A k \in DOMAIN evs : k \in DOMAIN later /\ later[k] = evs[k]
    BY DEF Continues
  <1>3. S \subseteq T /\ T \subseteq Nat /\ S # {}
    BY <1>1, <1>2
  <1>4. \A k \in T : k \in 1 .. m => k \in S
    BY <1>1, <1>2
  <1>5. \A x \in S : \A y \in T : y \in S \/ x < y
    <2>1. \A x \in S : x \in 1 .. m
      BY <1>1
    <2>2. \A y \in T : y \in 1 .. n
      BY <1>1
    <2> HIDE DEF S, T
    <2> QED BY <1>1, <1>4, <2>1, <2>2
  <1>6. Min(S) = Min(T)
    <2> HIDE DEF S, T
    <2> QED BY <1>3, <1>5, SameLeast
  <1> QED BY <1>6 DEF Address

\* What a source of the record reads, of an object that is there.
LEMMA SameSource ==
  ASSUME NEW evs, NEW later, Continues(later, evs), NEW objs, NEW objs2, NEW r, NEW kind,
         Carried(evs, r), r.object \in objs, r.object \in objs2
  PROVE  RecordSource(later, objs2, r, kind) = RecordSource(evs, objs, r, kind)
  <1>1. r.seq \in DOMAIN evs /\ r.object \in Range(evs[r.seq].refs)
    BY DEF Carried
  <1>2. Address(later, r.object) = Address(evs, r.object)
    BY <1>1, SameAddress
  <1> QED BY <1>2, Zenon DEF RecordSource

\* The sources of the references, in the plan of a composition.
SourcesOf(t, evs, objs, refs, kinds) ==
    [i \in DOMAIN refs |->
        [slot |-> (CHOOSE s \in Targets(t, kinds[i]) : TRUE).name,
         source |-> RecordSource(evs, objs, refs[i], kinds[i])]]

NamedIn(t, brief, sources) == <<[slot |-> t.brief, source |-> BriefSource(t, brief)]>> \o sources

Unnamed(t, named) ==
    LET slots == t.contract.slots
        filled == {a.slot : a \in Range(named)}
        rest == InOrder({i \in DOMAIN slots : ~slots[i].withhold /\ slots[i].name \notin filled})
    IN [k \in DOMAIN rest |-> [slot |-> slots[rest[k]].name,
                               source |-> AbsentSource(slots[rest[k]].name)]]

LEMMA PlanIs ==
  ASSUME NEW t, NEW evs, NEW objs, NEW brief, NEW refs, NEW kinds
  PROVE  Assignments(t, evs, objs, brief, refs, kinds) =
           NamedIn(t, brief, SourcesOf(t, evs, objs, refs, kinds)) \o
           Unnamed(t, NamedIn(t, brief, SourcesOf(t, evs, objs, refs, kinds)))
  BY DEF Assignments, NamedIn, Unnamed, SourcesOf

\* All the references of a delegation are on the record and in the store.
AllThere(evs, objs, refs) ==
    \A i \in DOMAIN refs : Carried(evs, refs[i]) /\ refs[i].object \in objs

LEMMA SameView ==
  ASSUME NEW evs, NEW later, Continues(later, evs), NEW t, NEW brief, NEW refs, NEW kinds,
         NEW objs, NEW objs2, AllThere(evs, objs, refs), AllThere(evs, objs2, refs)
  PROVE  Viewed(t, later, objs2, brief, refs, kinds) = Viewed(t, evs, objs, brief, refs, kinds)
  <1>1. \A i \in DOMAIN refs :
          RecordSource(later, objs2, refs[i], kinds[i]) = RecordSource(evs, objs, refs[i], kinds[i])
    BY SameSource DEF AllThere
  <1>2. SourcesOf(t, later, objs2, refs, kinds) = SourcesOf(t, evs, objs, refs, kinds)
    BY <1>1, Zenon DEF SourcesOf
  <1>3. Assignments(t, later, objs2, brief, refs, kinds) = Assignments(t, evs, objs, brief, refs, kinds)
    BY <1>2, PlanIs, Zenon
  <1> QED BY <1>3, Zenon DEF Viewed

(***************************************************************************)
(* A composition that is no refusal read every object it names.            *)
(***************************************************************************)

LEMMA UnreadableFails ==
  ASSUME NEW s, NEW item, s.kind = "record-object",
         s.reads = <<[status |-> "unreadable", item |-> item]>>
  PROVE  Collect(s).error # ""
  <1> DEFINE read == [status |-> "unreadable", item |-> item]
             reads == s.reads
             bad == {i \in DOMAIN reads : Bad(reads[i])}
  <1>1. DOMAIN reads = {1} /\ reads[1] = read /\ read.status = "unreadable"
    BY OneMember
  <1>2. Bad(read)
    BY DEF Bad
  <1>3. bad = {1}
    BY <1>1, <1>2
  <1>4. Min(bad) = 1
    BY <1>3, LeastIs
  <1>5. Collect(s) = FromReads(s, reads)
    BY DEF Collect, ReadOf
  <1>6. reads[Min(bad)].status = "unreadable"
    BY <1>1, <1>4
  <1> HIDE DEF bad, reads, read
  <1>7. FromReads(s, reads) = Fails("unreadable")
    BY <1>3, <1>6 DEF FromReads, bad
  <1>8. Fails("unreadable").error = "unreadable"
    BY DEF Fails
  <1> QED BY <1>5, <1>7, <1>8

\* A plan that is gathered has no assignment that is refused.
LEMMA GatheredWhole ==
  ASSUME NEW contract, NEW plan, IsSeq(plan), Gather(contract, plan).error = "",
         NEW i \in DOMAIN plan
  PROVE  \E done : Refusal(contract, done, plan[i]) = ""
  <1> DEFINE Why(k) == Refusal(contract, SubSeq(plan, 1, k - 1), plan[k])
             refused == {k \in DOMAIN plan : Why(k) # ""}
             m == Min(refused)
  <1>1. SUFFICES ASSUME refused # {} PROVE FALSE
    BY DEF refused
  <1>2. refused \subseteq Nat
    <2>1. DOMAIN plan = 1 .. Len(plan)
      BY Appended
    <2>2. DOMAIN plan \subseteq Nat
      <3>1. Len(plan) \in Nat
        BY Appended
      <3> QED BY <2>1, <3>1, InNat
    <2> HIDE DEF Why
    <2> QED BY <2>2
  <1>3. m \in refused
    <2> HIDE DEF refused
    <2> QED BY <1>1, <1>2, LeastIs
  <1>4. Why(m) # ""
    <2> HIDE DEF m
    <2> QED BY <1>3
  <1> HIDE DEF Why, m
  <1>5. Gather(contract, plan) = Refused(Why(m))
    BY <1>1, Zenon DEF Gather, Why, m
  <1>6. Refused(Why(m)).error = Why(m)
    BY DEF Refused
  <1> QED BY <1>4, <1>5, <1>6

LEMMA CollectedOf ==
  ASSUME NEW contract, NEW done, NEW a, Refusal(contract, done, a) = ""
  PROVE  Collect(a.source).error = ""
  <1> DEFINE slot == SlotOf(contract, a.slot)
             c == Collect(a.source)
  <1>1. RefusedBy(slot, contract.ceiling, done, a) = ""
    BY DEF Refusal
  <1>2. Unfit(slot, c) = ""
    <2> HIDE DEF slot, c
    <2>1. /\ "plan" # "" /\ "source" # "" /\ "sensitivity" # ""
      OBVIOUS
    <2> QED BY <1>1, <2>1 DEF RefusedBy, c
  <1> QED BY <1>2 DEF Unfit

LEMMA ViewOfWhole ==
  ASSUME NEW t, NEW plan, View(t, plan).error = ""
  PROVE  Gather(t.contract, plan).error = ""
  BY DEF View, Gathered

\* The plan's assignment of the i-th reference comes after that of the brief.
HasSources(plan, evs, objs, refs, kinds) ==
    /\ IsSeq(plan)
    /\ \A i \in DOMAIN refs :
         /\ i + 1 \in DOMAIN plan
         /\ plan[i + 1].source = RecordSource(evs, objs, refs[i], kinds[i])

LEMMA PlanHolds ==
  ASSUME NEW t, IsFiniteSet(DOMAIN t.contract.slots), NEW evs, NEW objs, NEW brief, NEW refs, NEW kinds,
         NEW n \in Nat, DOMAIN refs = 1 .. n, NEW plan, plan = Assignments(t, evs, objs, brief, refs, kinds)
  PROVE  HasSources(plan, evs, objs, refs, kinds)
  <1> DEFINE sources == SourcesOf(t, evs, objs, refs, kinds)
             first == <<[slot |-> t.brief, source |-> BriefSource(t, brief)]>>
             named == NamedIn(t, brief, sources)
             rest == Unnamed(t, named)
  <1>1. IsSeq(first) /\ Len(first) = 1
    BY OneMember
  <1>2. DOMAIN sources = 1 .. n /\ sources = [i \in DOMAIN sources |-> sources[i]]
    BY DEF SourcesOf
  <1>3. \A i \in 1 .. n : sources[i].source = RecordSource(evs, objs, refs[i], kinds[i])
    BY DEF SourcesOf
  <1>4. \A f, k : k \in Nat /\ DOMAIN f = 1 .. k /\ f = [i \in DOMAIN f |-> f[i]] => IsSeq(f) /\ Len(f) = k
    <2> SUFFICES ASSUME NEW f, NEW k \in Nat, DOMAIN f = 1 .. k, f = [i \in DOMAIN f |-> f[i]]
                 PROVE  IsSeq(f) /\ Len(f) = k
      OBVIOUS
    <2> DEFINE S == {f[i] : i \in DOMAIN f}
    <2>1. f \in [1 .. k -> S]
      OBVIOUS
    <2> HIDE DEF S
    <2>2. f \in Seq(S)
      BY <2>1
    <2>3. Len(f) = k
      BY <2>1, <2>2
    <2> QED BY <2>2, <2>3 DEF IsSeq, S
  <1>5. IsSeq(sources) /\ Len(sources) = n
    <2> HIDE DEF sources
    <2> QED BY <1>2, <1>4
  <1>6. IsSeq(rest)
    <2> DEFINE S == {i \in DOMAIN t.contract.slots :
                       /\ ~t.contract.slots[i].withhold
                       /\ t.contract.slots[i].name \notin {a.slot : a \in Range(named)}}
    <2>1. IsFiniteSet(S)
      BY FS_Subset
    <2>2. DOMAIN rest = DOMAIN InOrder(S) /\ rest = [k \in DOMAIN rest |-> rest[k]]
      BY DEF Unnamed
    <2> HIDE DEF S, rest
    <2>3. PICK k \in Nat : DOMAIN InOrder(S) = 1 .. k
      BY <2>1, OrderIs
    <2> QED BY <1>4, <2>2, <2>3
  <1>7. named = first \o sources
    BY DEF NamedIn
  <1>8. plan = named \o rest
    BY PlanIs
  <1> HIDE DEF sources, first, named, rest
  <1>9. /\ IsSeq(named) /\ Len(named) = 1 + n /\ DOMAIN named = 1 .. 1 + n
        /\ \A i \in 1 .. n : named[1 + i] = sources[i]
    <2>1. /\ IsSeq(first \o sources) /\ Len(first \o sources) = Len(first) + Len(sources)
          /\ DOMAIN (first \o sources) = 1 .. Len(first) + Len(sources)
          /\ \A i \in 1 .. Len(sources) : (first \o sources)[Len(first) + i] = sources[i]
      <3>1. IsSeq(first) /\ IsSeq(sources)
        BY <1>1, <1>5
      <3> QED BY <3>1, Joined
    <2> QED BY <1>1, <1>5, <1>7, <2>1
  <1>10. /\ IsSeq(plan) /\ Len(rest) \in Nat /\ DOMAIN plan = 1 .. 1 + n + Len(rest)
         /\ \A i \in 1 .. 1 + n : plan[i] = named[i]
    <2>1. /\ IsSeq(named \o rest) /\ Len(rest) \in Nat
          /\ DOMAIN (named \o rest) = 1 .. Len(named) + Len(rest)
          /\ \A i \in 1 .. Len(named) : (named \o rest)[i] = named[i]
      <3>1. IsSeq(named) /\ IsSeq(rest)
        BY <1>6, <1>9
      <3> QED BY ONLY <3>1, Joined, Zenon
    <2> QED BY <1>8, <1>9, <2>1
  <1>11. ASSUME NEW i \in 1 .. n
         PROVE  i + 1 \in DOMAIN plan /\ plan[i + 1] = sources[i]
    <2>1. i + 1 \in 1 .. 1 + n /\ i + 1 = 1 + i /\ i + 1 \in 1 .. 1 + n + Len(rest)
      BY <1>10
    <2> QED BY <1>9, <1>10, <2>1
  <1> QED BY <1>3, <1>10, <1>11 DEF HasSources

LEMMA AllRead ==
  ASSUME NEW t, IsFiniteSet(DOMAIN t.contract.slots), NEW evs, NEW objs, NEW brief, NEW refs, NEW kinds,
         NEW n \in Nat, DOMAIN refs = 1 .. n,
         Viewed(t, evs, objs, brief, refs, kinds).error = ""
  PROVE  \A i \in DOMAIN refs : refs[i].object \in objs
  <1> DEFINE plan == Assignments(t, evs, objs, brief, refs, kinds)
  <1>1. SUFFICES ASSUME NEW i \in DOMAIN refs, refs[i].object \notin objs PROVE FALSE
    OBVIOUS
  <1> DEFINE source == RecordSource(evs, objs, refs[i], kinds[i])
  <1>2. Gather(t.contract, plan).error = ""
    BY ViewOfWhole DEF Viewed
  <1>3. IsSeq(plan) /\ i + 1 \in DOMAIN plan /\ plan[i + 1].source = source
    <2>1. plan = Assignments(t, evs, objs, brief, refs, kinds)
      OBVIOUS
    <2> HIDE DEF plan
    <2>2. HasSources(plan, evs, objs, refs, kinds)
      BY <2>1, PlanHolds, Zenon
    <2> QED BY <2>2 DEF HasSources
  <1>4. Collect(source).error = ""
    <2> HIDE DEF plan, source
    <2>1. PICK done : Refusal(t.contract, done, plan[i + 1]) = ""
      BY <1>2, <1>3, GatheredWhole
    <2> QED BY <1>3, <2>1, CollectedOf
  <1>5. \E item : source.kind = "record-object" /\
                  source.reads = <<[status |-> "unreadable", item |-> item]>>
    BY <1>1 DEF RecordSource
  <1> HIDE DEF source
  <1> QED BY <1>4, <1>5, UnreadableFails

(***************************************************************************)
(* What a delegation's record explains.                                    *)
(***************************************************************************)

\* A reference whose class is derived from the record again.
Derives(evs, r) ==
    LET got == deriveClass(evs[r.seq], r.object, ToolsHash) IN
    Carried(evs, r) /\ got.reason = "" /\ got.class = r.class

KindsIn(evs, refs) == [i \in DOMAIN refs |-> KindOf(evs, refs[i])]

\* The input of d is what the request composes of the record, of a store that
\* holds all it names.
Explained(evs, d, request) ==
    /\ d.template.ref = request.template
    /\ \A i \in DOMAIN d.evidence : Derives(evs, d.evidence[i])
    /\ \E objs :
         /\ AllThere(evs, objs, d.evidence)
         /\ Viewed(d.template, evs, objs, request.brief, d.evidence, KindsIn(evs, d.evidence)) =
              [error |-> "", view |-> d.input.user]

LEMMA KindDerived ==
  ASSUME NEW evs, NEW r, deriveClass(evs[r.seq], r.object, ToolsHash).reason = ""
  PROVE  deriveClass(evs[r.seq], r.object, ToolsHash).kind = KindOf(evs, r)
  <1> DEFINE ev == evs[r.seq]
             d == deriveClass(ev, r.object, ToolsHash)
             audit == [reason |-> "", kind |-> <<"tool", ev.tool>>, class |-> ToolTrust[ev.tool]]
             turn == [reason |-> "", kind |-> <<"model-turn", 1>>, class |-> Untrusted]
             output == [reason |-> "", kind |-> <<"delegation-output", 1>>, class |-> Untrusted]
  <1>1. d.reason = ""
    OBVIOUS
  <1>2. /\ audit.kind = <<"tool", ev.tool>> /\ turn.kind = <<"model-turn", 1>>
        /\ output.kind = <<"delegation-output", 1>>
    OBVIOUS
  <1>3. \/ ev.class = "l4-audit" /\ d = audit
        \/ ev.class = "model-turn" /\ d = turn
        \/ ev.class = "l8-delegation" /\ d = output
        \/ d = Is("evidence-unreachable") \/ d = Is("evidence-registry-drift")
    BY Zenon DEF deriveClass
  <1>4. KindOf(evs, r) = CASE ev.class = "l4-audit" -> <<"tool", ev.tool>>
                           [] ev.class = "model-turn" -> <<"model-turn", 1>>
                           [] OTHER -> <<"delegation-output", 1>>
    BY DEF KindOf
  <1> HIDE DEF d, ev, audit, turn, output
  <1>5. d # Is("evidence-unreachable") /\ d # Is("evidence-registry-drift")
    BY <1>1, NoRefusal
  <1>6. d.kind = KindOf(evs, r)
    BY <1>2, <1>3, <1>4, <1>5
  <1> QED BY <1>6 DEF d, ev

LEMMA ViewIs ==
  ASSUME NEW t, NEW plan, View(t, plan).error = ""
  PROVE  View(t, plan) = [error |-> "", view |-> View(t, plan).view]
  <1> DEFINE g == Gather(t.contract, plan)
             v == View(t, plan)
  <1>1. v = IF g.error # "" THEN g ELSE Compose(t.contract, g.slots)
    BY DEF View, Gathered
  <1>2. v.error = ""
    BY Zenon
  <1>3. v = Compose(t.contract, g.slots)
    BY <1>1, <1>2
  <1>4. (\E w : v = [error |-> "", view |-> w]) \/ v = Refused("too-large")
    <2> HIDE DEF v, g
    <2> QED BY <1>3, Zenon DEF Compose
  <1> HIDE DEF v, g
  <1>5. Refused("too-large").error = "too-large"
    BY DEF Refused
  <1>6. v = [error |-> "", view |-> v.view]
    <2>1. v.error = ""
      BY <1>2
    <2>2. PICK w : v = [error |-> "", view |-> w]
      BY <1>4, <1>5, <2>1
    <2>3. v.view = w
      BY <2>2
    <2> QED BY <2>2, <2>3, Zenon
  <1> QED BY <1>6 DEF v

LEMMA ComposedExplains ==
  ASSUME NEW evs, NEW objs, NEW request, Asks(request), NEW c, Composed(evs, objs, request, c)
  PROVE  Explained(evs, c, request)
  <1> DEFINE refs == SortEvidence(request.evidence)
             met == Met(evs, request)
             t == c.template
             kinds == KindsOf(met)
  <1>1. PICK n \in Nat : DOMAIN refs = 1 .. n
    BY SortedIs DEF Asks
  <1>2. DOMAIN met = 1 .. n /\ \A i \in 1 .. n : met[i] = Establish(evs, refs[i])
    BY <1>1 DEF Met
  <1>3. /\ t.ref = request.template /\ IsFiniteSet(DOMAIN t.contract.slots)
        /\ \A i \in DOMAIN met : met[i].reason = ""
        /\ c.evidence = Stamped(refs, met)
        /\ Viewed(t, evs, objs, request.brief, c.evidence, kinds).error = ""
        /\ c.input.user = Viewed(t, evs, objs, request.brief, c.evidence, kinds).view
    BY Zenon DEF Composed
  <1> HIDE DEF refs, met, t
  <1>4. /\ DOMAIN c.evidence = 1 .. n
        /\ \A i \in 1 .. n : /\ c.evidence[i].seq = refs[i].seq /\ c.evidence[i].object = refs[i].object
                             /\ c.evidence[i].class = met[i].class
    <2>1. c.evidence = [i \in 1 .. n |-> [seq |-> refs[i].seq, object |-> refs[i].object,
                                         class |-> met[i].class, sensitivity |-> ParentCeiling]]
      BY <1>2, <1>3, Zenon DEF Stamped
    <2> QED BY <2>1
  <1>5. ASSUME NEW i \in 1 .. n
        PROVE  Derives(evs, c.evidence[i]) /\ met[i].kind = KindOf(evs, c.evidence[i])
    <2> DEFINE r == refs[i]
               e == c.evidence[i]
    <2>1. Establish(evs, r).reason = "" /\ e.class = Establish(evs, r).class
      BY <1>2, <1>3, <1>4
    <2>2. e.seq = r.seq /\ e.object = r.object
      BY <1>4
    <2>3. met[i] = Establish(evs, r)
      BY <1>2
    <2> HIDE DEF r, e
    <2>4. Carried(evs, r) /\ Establish(evs, r) = deriveClass(evs[r.seq], r.object, ToolsHash)
      BY <2>1, EstablishedAs
    <2>5. Carried(evs, e) /\ Establish(evs, r) = deriveClass(evs[e.seq], e.object, ToolsHash)
      BY <2>2, <2>4 DEF Carried
    <2>6. Derives(evs, e)
      BY <2>1, <2>5, Zenon DEF Derives
    <2>7. Establish(evs, r).kind = KindOf(evs, e)
      <3>1. deriveClass(evs[e.seq], e.object, ToolsHash).reason = ""
        BY <2>1, <2>5, Zenon
      <3>2. deriveClass(evs[e.seq], e.object, ToolsHash).kind = KindOf(evs, e)
        BY <3>1, KindDerived
      <3> QED BY <2>5, <3>2, Zenon
    <2>8. Derives(evs, e) /\ met[i].kind = KindOf(evs, e)
      BY <2>3, <2>6, <2>7, Zenon
    <2> QED BY <2>8 DEF e
  <1>6. kinds = KindsIn(evs, c.evidence)
    <2>1. kinds = [i \in 1 .. n |-> met[i].kind]
      BY <1>2 DEF KindsOf
    <2>2. KindsIn(evs, c.evidence) = [i \in 1 .. n |-> KindOf(evs, c.evidence[i])]
      BY <1>4 DEF KindsIn
    <2> QED BY <1>5, <2>1, <2>2
  <1> HIDE DEF kinds
  <1>7. \A i \in DOMAIN c.evidence : c.evidence[i].object \in objs
    <2>1. /\ Viewed(t, evs, objs, request.brief, c.evidence, kinds).error = ""
          /\ DOMAIN c.evidence = 1 .. n /\ IsFiniteSet(DOMAIN t.contract.slots)
      BY <1>3, <1>4
    <2> QED BY <2>1, AllRead, Zenon
  <1>8. AllThere(evs, objs, c.evidence)
    BY <1>4, <1>5, <1>7 DEF AllThere, Derives
  <1>9. Viewed(t, evs, objs, request.brief, c.evidence, kinds) = [error |-> "", view |-> c.input.user]
    BY <1>3, ViewIs DEF Viewed
  <1> QED BY <1>3, <1>4, <1>5, <1>6, <1>8, <1>9 DEF Explained, t

\* What is explained stays so while the record grows.
LEMMA StillDerives ==
  ASSUME NEW evs, NEW later, Continues(later, evs), NEW r, Derives(evs, r)
  PROVE  Derives(later, r) /\ KindOf(later, r) = KindOf(evs, r)
  <1>1. r.seq \in DOMAIN evs
    BY DEF Derives, Carried
  <1>2. r.seq \in DOMAIN later /\ later[r.seq] = evs[r.seq]
    BY <1>1 DEF Continues
  <1> QED BY <1>2 DEF Derives, Carried, KindOf

LEMMA StillExplained ==
  ASSUME NEW evs, NEW later, Continues(later, evs), NEW d, NEW request, Explained(evs, d, request)
  PROVE  Explained(later, d, request)
  <1>1. PICK objs :
         /\ AllThere(evs, objs, d.evidence)
         /\ Viewed(d.template, evs, objs, request.brief, d.evidence, KindsIn(evs, d.evidence)) =
              [error |-> "", view |-> d.input.user]
    BY DEF Explained
  <1>2. \A i \in DOMAIN d.evidence : /\ Derives(later, d.evidence[i])
                                     /\ KindOf(later, d.evidence[i]) = KindOf(evs, d.evidence[i])
    BY StillDerives DEF Explained
  <1>3. KindsIn(later, d.evidence) = KindsIn(evs, d.evidence)
    BY <1>2, Zenon DEF KindsIn
  <1>4. Viewed(d.template, later, objs, request.brief, d.evidence, KindsIn(evs, d.evidence)) =
        Viewed(d.template, evs, objs, request.brief, d.evidence, KindsIn(evs, d.evidence))
    <2> DEFINE t == d.template
               refs == d.evidence
               kinds == KindsIn(evs, refs)
               brief == request.brief
    <2>1. AllThere(evs, objs, refs)
      BY <1>1
    <2> HIDE DEF t, refs, kinds, brief
    <2>2. Viewed(t, later, objs, brief, refs, kinds) = Viewed(t, evs, objs, brief, refs, kinds)
      BY <2>1, SameView
    <2> QED BY <2>2 DEF t, refs, kinds, brief
  <1>5. AllThere(later, objs, d.evidence)
    BY <1>1, <1>2 DEF AllThere, Derives
  <1>6. d.template.ref = request.template
    BY DEF Explained
  <1>7. Viewed(d.template, later, objs, request.brief, d.evidence, KindsIn(later, d.evidence)) =
          [error |-> "", view |-> d.input.user]
    BY <1>1, <1>3, <1>4, Zenon
  <1> QED BY <1>2, <1>5, <1>6, <1>7 DEF Explained

(***************************************************************************)
(* The verdict on a witness that is explained.                             *)
(***************************************************************************)

LEMMA ReportsAre ==
  /\ Sound.missing = {} /\ Sound.discrepancies = {}
  /\ \A x : Lost(x).missing = {x} /\ Lost(x).discrepancies = {}
  /\ \A a, b : /\ Both(a, b).missing = a.missing \cup b.missing
               /\ Both(a, b).discrepancies = a.discrepancies \cup b.discrepancies
  /\ \A bad, r : (bad => When(bad, r) = r) /\ (~bad => When(bad, r) = Sound)
  BY DEF Sound, Lost, Both, When

LEMMA NothingMissing ==
  ASSUME NEW rs, \A i \in DOMAIN rs : rs[i].missing = {}
  PROVE  All(rs).missing = {}
  <1>1. All(rs).missing = UNION {rs[i].missing : i \in DOMAIN rs}
    BY DEF All
  <1> QED BY <1>1

LEMMA NothingDisagrees ==
  ASSUME NEW rs, \A i \in DOMAIN rs : rs[i].discrepancies = {}
  PROVE  All(rs).discrepancies = {}
  <1>1. All(rs).discrepancies = UNION {rs[i].discrepancies : i \in DOMAIN rs}
    BY DEF All
  <1> QED BY <1>1

LEMMA PresentIs ==
  ASSUME NEW objs, NEW os
  PROVE  /\ Present(objs, os).discrepancies = {}
         /\ Range(os) \subseteq objs => Present(objs, os).missing = {}
  <1> DEFINE rs == [i \in DOMAIN os |-> When(os[i] \notin objs, Lost(os[i]))]
  <1>1. Present(objs, os) = All(rs)
    BY DEF Present
  <1>2. \A i \in DOMAIN rs : /\ rs[i].discrepancies = {}
                             /\ os[i] \in objs => rs[i].missing = {}
    <2>1. SUFFICES ASSUME NEW i \in DOMAIN rs
                   PROVE  /\ rs[i].discrepancies = {}
                          /\ os[i] \in objs => rs[i].missing = {}
      OBVIOUS
    <2>2. rs[i] = When(os[i] \notin objs, Lost(os[i]))
      OBVIOUS
    <2> HIDE DEF rs
    <2>3. CASE os[i] \in objs
      <3>1. rs[i] = Sound
        BY <2>2, <2>3 DEF When
      <3> QED BY <3>1 DEF Sound
    <2>4. CASE os[i] \notin objs
      <3>1. rs[i] = Lost(os[i])
        BY <2>2, <2>4 DEF When
      <3> QED BY <2>4, <3>1 DEF Lost
    <2> QED BY <2>3, <2>4
  <1>3. DOMAIN rs = DOMAIN os
    OBVIOUS
  <1>4. Range(os) \subseteq objs => \A i \in DOMAIN rs : os[i] \in objs
    BY DEF Range
  <1> HIDE DEF rs
  <1> QED BY <1>1, <1>2, <1>3, <1>4, NothingMissing, NothingDisagrees

\* The i-th reference of d, checked.
CheckedRef(evs, objs, ref) ==
    LET got == deriveClass(evs[ref.seq], ref.object, ToolsHash)
        drift == evs[ref.seq].class = "l4-audit" /\ got.reason = "evidence-registry-drift"
    IN
    IF ~Carried(evs, ref) THEN Disagrees("evidence")
    ELSE IF drift THEN Both(Lost(<<"registry">>), When(ref.object \notin objs, Lost(ref.object)))
    ELSE IF got.reason # "" THEN Disagrees("class not derivable")
    ELSE Both(When(got.class # ref.class, Disagrees("class")),
              When(ref.object \notin objs, Lost(ref.object)))

LEMMA EvidenceIs ==
  ASSUME NEW evs, NEW objs, NEW d, \A i \in DOMAIN d.evidence : Derives(evs, d.evidence[i])
  PROVE  /\ CheckEvidence(evs, objs, d, ToolsHash).discrepancies = {}
         /\ CheckEvidence(evs, objs, d, ToolsHash).missing =
              {o \in {d.evidence[i].object : i \in DOMAIN d.evidence} : o \notin objs}
  <1> DEFINE refs == d.evidence
             rs == [i \in DOMAIN refs |-> CheckedRef(evs, objs, refs[i])]
             report == CheckEvidence(evs, objs, d, ToolsHash)
  <1>1. report = All(rs)
    BY DEF CheckEvidence, CheckedRef
  <1>2. ASSUME NEW r, Derives(evs, r)
        PROVE  CheckedRef(evs, objs, r) = Both(Sound, When(r.object \notin objs, Lost(r.object)))
    <2> DEFINE got == deriveClass(evs[r.seq], r.object, ToolsHash)
    <2>1. Carried(evs, r) /\ got.reason = "" /\ got.class = r.class
      BY <1>2 DEF Derives
    <2>2. got.reason # "evidence-registry-drift"
      BY <2>1
    <2>3. When(got.class # r.class, Disagrees("class")) = Sound
      BY <2>1 DEF When
    <2> HIDE DEF got
    <2> QED BY <2>1, <2>2, <2>3 DEF CheckedRef, got
  <1>3. ASSUME NEW i \in DOMAIN refs
        PROVE  /\ rs[i].discrepancies = {}
               /\ rs[i].missing = IF refs[i].object \in objs THEN {} ELSE {refs[i].object}
    <2>1. rs[i] = Both(Sound, When(refs[i].object \notin objs, Lost(refs[i].object)))
      BY <1>2, <1>3
    <2> DEFINE o == refs[i].object
               seen == When(o \notin objs, Lost(o))
    <2>2. seen.discrepancies = {} /\ seen.missing = IF o \in objs THEN {} ELSE {o}
      <3> HIDE DEF o
      <3>1. CASE o \in objs
        BY <3>1, ReportsAre
      <3>2. CASE o \notin objs
        BY <3>2, ReportsAre
      <3> QED BY <3>1, <3>2
    <2>3. rs[i] = Both(Sound, seen)
      BY <2>1
    <2> HIDE DEF rs, refs, seen
    <2>4. /\ rs[i].discrepancies = Sound.discrepancies \cup seen.discrepancies
          /\ rs[i].missing = Sound.missing \cup seen.missing
      <3> HIDE DEF o
      <3> QED BY <2>3 DEF Both
    <2>5. rs[i].discrepancies = {} /\ rs[i].missing = IF o \in objs THEN {} ELSE {o}
      BY <2>2, <2>4 DEF Sound
    <2> QED BY <2>5 DEF o
  <1>4. DOMAIN rs = DOMAIN refs
    OBVIOUS
  <1>5. All(rs).discrepancies = {}
    <2> HIDE DEF rs, refs
    <2> QED BY <1>3, <1>4, NothingDisagrees
  <1>6. All(rs).missing = UNION {rs[i].missing : i \in DOMAIN rs}
    BY DEF All
  <1> HIDE DEF rs
  <1>7. All(rs).missing = {o \in {refs[i].object : i \in DOMAIN refs} : o \notin objs}
    <2> DEFINE Missed(i) == IF refs[i].object \in objs THEN {} ELSE {refs[i].object}
    <2>1. \A i \in DOMAIN refs : rs[i].missing = Missed(i)
      BY <1>3
    <2> HIDE DEF refs
    <2>2. All(rs).missing = UNION {Missed(i) : i \in DOMAIN refs}
      BY <1>4, <1>6, <2>1
    <2>3. ASSUME NEW o
          PROVE  o \in UNION {Missed(i) : i \in DOMAIN refs} <=>
                 o \in {refs[i].object : i \in DOMAIN refs} /\ o \notin objs
      <3>1. \A i : o \in Missed(i) <=> o = refs[i].object /\ o \notin objs
        OBVIOUS
      <3> HIDE DEF Missed
      <3> QED BY <3>1
    <2> HIDE DEF Missed
    <2> QED BY <2>2, <2>3
  <1> QED BY <1>1, <1>5, <1>7

LEMMA TemplateIs ==
  ASSUME NEW objs, NEW d, NEW t, d.template = t, d.templates = Members(t),
         d.contract = t.contract, t.ref = d.ref,
         Instructed(t) => <<"instruction", t.instruction>> \in objs
  PROVE  /\ CheckTemplate(objs, d).discrepancies = {}
         /\ Range(Members(t)) \subseteq objs => CheckTemplate(objs, d).missing = {}
  <1> DEFINE m == Members(t)
             bytes == When(Instructed(t) /\ ~(Len(m) = 3 /\ m[3] \in objs), Disagrees("template bytes"))
             identity == When(t # d.template \/ t.ref # d.ref, Disagrees("template identity"))
             contract == When(t.contract # d.contract, Disagrees("contract"))
             rs == <<bytes, identity, contract>>
             stored == When(StoredTemplate(objs, d), All(rs))
  <1>1. /\ m[1][2] = t /\ (Instructed(t) => Len(m) = 3 /\ m[3] = <<"instruction", t.instruction>>)
    BY MembersAre
  <1>2. bytes = Sound /\ identity = Sound /\ contract = Sound
    <2>1. bytes = Sound
      <3> HIDE DEF m
      <3> QED BY <1>1 DEF When
    <2>2. identity = Sound /\ contract = Sound
      BY DEF When
    <2> QED BY <2>1, <2>2
  <1>3. CheckTemplate(objs, d) = Both(Present(objs, m), stored)
    BY <1>1 DEF CheckTemplate
  <1> HIDE DEF m, bytes, identity, contract
  <1>4. DOMAIN rs = 1 .. 3 /\ \A i \in 1 .. 3 : rs[i] = Sound
    BY <1>2
  <1> HIDE DEF rs
  <1>5. All(rs).missing = {} /\ All(rs).discrepancies = {}
    BY <1>4, ReportsAre, NothingMissing, NothingDisagrees
  <1>6. stored.missing = {} /\ stored.discrepancies = {}
    BY <1>5, ReportsAre
  <1> HIDE DEF stored
  <1> QED BY <1>3, <1>6, ReportsAre, PresentIs DEF m

TurnOf(e, c) == e.class = "model-turn" /\ e.refs = <<Turn(<<c>>)>>

\* The i-th event is a witness of the call of the event before it.
Accounted(evs, i) ==
    LET d == evs[i].body
        audit == evs[i - 1]
        t == d.template
    IN
    /\ i \in DOMAIN evs /\ i - 1 \in DOMAIN evs /\ d.parent = i - 1 /\ Validate(d)
    /\ audit.class = "l4-audit" /\ audit.decision = "authorized"
    /\ d.templates = Members(t) /\ d.contract = t.contract /\ d.ref = audit.args.template
    /\ Explained(evs, d, audit.args)
    /\ Range(evs[i].refs) = {<<"input", d.input>>} \cup Range(d.templates) \cup
                            (IF d.output = NoObject THEN {} ELSE {d.output})
    /\ \E j \in 1 .. i - 2 : \E tool : TurnOf(evs[j], [tool |-> tool, args |-> audit.args])
    /\ audit.args.form = "compact" => Compact(audit.args) = audit.args

LEMMA WindowIs ==
  ASSUME NEW evs, IsSeq(evs), NEW i, Accounted(evs, i)
  PROVE  CheckWindow(evs, i, evs[i].body) = Both(Sound, Sound)
  <1> DEFINE d == evs[i].body
             p == d.parent
  <1>1. i \in DOMAIN evs /\ p = i - 1 /\ p \in DOMAIN evs
    BY DEF Accounted
  <1>2. evs[p].class = "l4-audit" /\ evs[p].decision = "authorized"
    BY DEF Accounted
  <1>3. DOMAIN evs = 1 .. Len(evs) /\ Len(evs) \in Nat
    BY Appended
  <1> HIDE DEF p
  <1>4. ~\E k \in DOMAIN evs : p < k /\ k < i
    BY <1>1, <1>3
  <1>5. When(IF p \notin DOMAIN evs THEN TRUE
             ELSE evs[p].class # "l4-audit" \/ evs[p].decision # "authorized",
             Disagrees("audit")) = Sound
    BY <1>1, <1>2 DEF When
  <1>6. When(\E k \in DOMAIN evs : p < k /\ k < i, Disagrees("window")) = Sound
    BY <1>4 DEF When
  <1>7. CheckWindow(evs, i, d) =
          Both(When(IF p \notin DOMAIN evs THEN TRUE
                    ELSE evs[p].class # "l4-audit" \/ evs[p].decision # "authorized",
                    Disagrees("audit")),
               When(\E k \in DOMAIN evs : p < k /\ k < i, Disagrees("window")))
    BY DEF CheckWindow, p
  <1> QED BY <1>5, <1>6, <1>7

\* The brief a verifier finds is the one of the call.
LEMMA BriefIs ==
  ASSUME NEW evs, NEW objs, NEW d, BriefsOf(evs, objs, d) # {}
  PROVE  (CHOOSE c \in BriefsOf(evs, objs, d) : TRUE).args = evs[d.parent].args
  <1> DEFINE c == CHOOSE c \in BriefsOf(evs, objs, d) : TRUE
  <1>1. c \in BriefsOf(evs, objs, d)
    OBVIOUS
  <1> HIDE DEF c
  <1>2. c.args = evs[d.parent].args
    BY <1>1 DEF BriefsOf
  <1> QED BY <1>2 DEF c

LEMMA RecomposeIs ==
  ASSUME NEW evs, IsSeq(evs), NEW i, Accounted(evs, i), NEW objs,
         \A k \in DOMAIN evs[i].body.evidence : evs[i].body.evidence[k].object \in objs
  PROVE  Recompose(evs, objs, evs[i].body, evs[i - 1].args.brief) = Sound
  <1> DEFINE d == evs[i].body
             t == d.template
             refs == d.evidence
             kinds == KindsIn(evs, refs)
             brief == evs[i - 1].args.brief
             found == [error |-> "", view |-> d.input.user]
  <1>1. d.templates[1][2] = t
    BY MembersAre DEF Accounted
  <1>2. Explained(evs, d, evs[i - 1].args)
    BY DEF Accounted
  <1>3. PICK objs0 : AllThere(evs, objs0, refs) /\ Viewed(t, evs, objs0, brief, refs, kinds) = found
    BY <1>2 DEF Explained
  <1>4. AllThere(evs, objs, refs)
    <2>1. \A k \in DOMAIN refs : Carried(evs, refs[k])
      BY <1>2 DEF Explained, Derives
    <2> QED BY <2>1 DEF AllThere
  <1>5. Continues(evs, evs)
    BY DEF Continues
  <1>6. Viewed(t, evs, objs, brief, refs, kinds) = found
    <2> HIDE DEF d, t, refs, kinds, brief, found
    <2>1. Viewed(t, evs, objs, brief, refs, kinds) = Viewed(t, evs, objs0, brief, refs, kinds)
      BY <1>3, <1>4, <1>5, SameView
    <2> QED BY <1>3, <2>1
  <1>7. Recompose(evs, objs, d, brief) =
          When(Viewed(t, evs, objs, brief, refs, kinds) # found, Disagrees("recompose"))
    BY <1>1, Zenon DEF Recompose, Viewed, KindsIn
  <1>8. Recompose(evs, objs, d, brief) = Sound
    <2> HIDE DEF d, t, refs, kinds, brief, found
    <2> QED BY <1>6, <1>7 DEF When
  <1> QED BY <1>8

LEMMA Judged ==
  ASSUME NEW evs, IsSeq(evs), NEW i, Accounted(evs, i), NEW objs,
         \A k \in DOMAIN evs[i].body.evidence : evs[i].body.evidence[k].object # <<"registry">>,
         Instructed(evs[i].body.template) =>
           <<"instruction", evs[i].body.template.instruction>> \in objs
  PROVE  /\ reconstructOne(evs, objs, i, ToolsHash).discrepancies = {}
         /\ /\ Range(evs[i].refs) \subseteq objs
            /\ \A k \in DOMAIN evs[i].body.evidence : evs[i].body.evidence[k].object \in objs
            /\ BriefsOf(evs, objs, evs[i].body) # {}
            => reconstructOne(evs, objs, i, ToolsHash).missing = {}
  <1> DEFINE d == evs[i].body
             t == d.template
             refs == d.evidence
             window == CheckWindow(evs, i, d)
             template == CheckTemplate(objs, d)
             input == Present(objs, <<<<"input", d.input>>>>)
             evidence == CheckEvidence(evs, objs, d, ToolsHash)
             briefs == BriefsOf(evs, objs, d)
             brief == When(briefs = {}, Lost(<<"turn">>))
             whole == /\ StoredTemplate(objs, d) /\ "template bytes" \notin template.discrepancies
                      /\ <<"input", d.input>> \in objs /\ briefs # {}
                      /\ evidence.discrepancies = {} /\ evidence.missing \subseteq {<<"registry">>}
             again == IF whole THEN Recompose(evs, objs, d, (CHOOSE c \in briefs : TRUE).args.brief)
                      ELSE Sound
             output == When(d.output # NoObject, Present(objs, <<d.output>>))
             rs == <<window, template, input, evidence, brief, again, output>>
             Whole == /\ Range(evs[i].refs) \subseteq objs
                      /\ \A k \in DOMAIN refs : refs[k].object \in objs
                      /\ briefs # {}
  <1>1. /\ Validate(d) /\ d.templates = Members(t) /\ d.contract = t.contract
        /\ t.ref = d.ref /\ d.parent = i - 1
        /\ \A k \in DOMAIN refs : Derives(evs, refs[k])
        /\ Range(evs[i].refs) = {<<"input", d.input>>} \cup Range(Members(t)) \cup
                                (IF d.output = NoObject THEN {} ELSE {d.output})
    BY DEF Accounted, Explained
  <1>2. reconstructOne(evs, objs, i, ToolsHash) = All(rs)
    BY <1>1, Zenon DEF reconstructOne
  <1>3. window.discrepancies = {} /\ window.missing = {}
    BY WindowIs, ReportsAre
  <1>4. template.discrepancies = {} /\ (Whole => template.missing = {})
    <2>1. Whole => Range(Members(t)) \subseteq objs
      BY <1>1
    <2>2. /\ template.discrepancies = {}
          /\ Range(Members(t)) \subseteq objs => template.missing = {}
      BY <1>1, TemplateIs
    <2> QED BY <2>1, <2>2
  <1>5. input.discrepancies = {} /\ (Whole => input.missing = {})
    BY <1>1, PresentIs, OneMember
  <1>6. /\ evidence.discrepancies = {}
        /\ evidence.missing = {o \in {refs[k].object : k \in DOMAIN refs} : o \notin objs}
    BY <1>1, EvidenceIs
  <1>7. Whole => evidence.missing = {}
    BY <1>6
  <1>8. brief.discrepancies = {} /\ (Whole => brief.missing = {})
    <2> HIDE DEF briefs
    <2> QED BY ReportsAre
  <1>9. again = Sound
    <2>1. SUFFICES ASSUME whole PROVE again = Sound
      OBVIOUS
    <2>2. \A k \in DOMAIN refs : refs[k].object \in objs
      <3>1. evidence.missing \subseteq {<<"registry">>}
        BY <2>1
      <3>2. \A k \in DOMAIN refs : refs[k].object # <<"registry">>
        OBVIOUS
      <3> HIDE DEF refs, evidence, whole
      <3> QED BY <1>6, <3>1, <3>2
    <2>3. (CHOOSE c \in briefs : TRUE).args.brief = evs[i - 1].args.brief
      <3>1. briefs # {}
        BY <2>1
      <3> QED BY <1>1, <3>1, BriefIs
    <2>4. Recompose(evs, objs, d, evs[i - 1].args.brief) = Sound
      BY <2>2, RecomposeIs
    <2> HIDE DEF whole
    <2> QED BY <2>1, <2>3, <2>4
  <1>10. output.discrepancies = {} /\ (Whole => output.missing = {})
    <2>1. Whole /\ d.output # NoObject => Range(<<d.output>>) \subseteq objs
      BY <1>1, OneMember
    <2> DEFINE o == d.output
               there == Present(objs, <<o>>)
    <2>2. there.discrepancies = {} /\ (Range(<<o>>) \subseteq objs => there.missing = {})
      <3> HIDE DEF o
      <3> QED BY PresentIs
    <2>3. Whole /\ o # NoObject => there.missing = {}
      BY <2>1, <2>2
    <2>4. output = When(o # NoObject, there)
      OBVIOUS
    <2> HIDE DEF Whole, d, o, there
    <2>5. CASE o # NoObject
      BY <2>2, <2>3, <2>4, <2>5, ReportsAre
    <2>6. CASE o = NoObject
      BY <2>4, <2>6, ReportsAre
    <2> QED BY <2>5, <2>6
  <1> HIDE DEF window, template, input, evidence, brief, again, output
  <1>11. DOMAIN rs = 1 .. 7 /\ \A k \in 1 .. 7 : k \in {1, 2, 3, 4, 5, 6, 7}
    OBVIOUS
  <1>12. \A k \in DOMAIN rs : rs[k] \in {window, template, input, evidence, brief, again, output}
    BY <1>11
  <1>13. \A r \in {window, template, input, evidence, brief, again, output} :
           r.discrepancies = {} /\ (Whole => r.missing = {})
    <2> HIDE DEF Whole
    <2> QED BY <1>3, <1>4, <1>5, <1>6, <1>7, <1>8, <1>9, <1>10, ReportsAre
  <1> HIDE DEF rs
  <1>14. All(rs).discrepancies = {}
    BY <1>12, <1>13, NothingDisagrees
  <1>15. Whole => All(rs).missing = {}
    <2> HIDE DEF Whole
    <2> QED BY <1>12, <1>13, NothingMissing
  <1> QED BY <1>2, <1>14, <1>15

(***************************************************************************)
(* The record of a task explains its delegations at every moment.          *)
(***************************************************************************)

\* What the record names is in the store or lost, and no object is what
\* stands for a registry.
RefsKept == \A i \in DOMAIN events : \A o \in Range(events[i].refs) : Kept(o) /\ o # <<"registry">>

Spelt(args) == args.form = "compact" => Compact(args) = args

\* The call is that of a turn on the record, and its audit follows the turn.
CalledInv ==
    /\ walk = "call" =>
         events # << >> /\ TurnOf(events[Len(events)], call) /\ call.tool \in DOMAIN ToolTrust
    /\ AtWork => /\ Len(events) - 1 \in DOMAIN events /\ TurnOf(events[Len(events) - 1], call)
                 /\ events[Len(events)].args = call.args
    /\ (walk = "call" \/ AtWork) => call = [tool |-> call.tool, args |-> call.args]
    /\ (walk = "call" \/ AtWork) /\ call.tool = Delegate => Spelt(call.args)

StoredInv ==
    Stored => /\ Kept(<<"input", composed.input>>)
              /\ \A o \in Range(Members(composed.template)) : Kept(o)

AccountInv == \A i \in Witnesses : Accounted(events, i)

LEMMA SpeltProperly ==
  ASSUME NEW n \in Nat, NEW args \in Delegations(n)
  PROVE  Spelt(args)
  <1>1. args = [x \in DOMAIN args |-> args[x]]
    BY DEF Delegations
  <1>2. SUFFICES ASSUME args.form = "compact" PROVE Compact(args) = args
    BY DEF Spelt
  <1>3. Compact(args) = [x \in DOMAIN args |-> IF x = "form" THEN "compact" ELSE args[x]]
    BY DEF Compact
  <1>4. \A x \in DOMAIN args : (IF x = "form" THEN "compact" ELSE args[x]) = args[x]
    BY <1>2
  <1> QED BY <1>1, <1>3, <1>4

LEMMA ContinuesAppended ==
  ASSUME TypeOK, NEW e, events' = Append(events, e)
  PROVE  Continues(events', events)
  <1>1. IsSeq(events) /\ IsSeq(events')
    BY Appended DEF TypeOK
  <1> QED BY <1>1, EventsGrow DEF Continues

LEMMA StillAccounted ==
  ASSUME NEW evs, NEW later, Continues(later, evs), NEW i, Accounted(evs, i)
  PROVE  Accounted(later, i)
  <1>1. i \in DOMAIN evs /\ i - 1 \in DOMAIN evs
    BY DEF Accounted
  <1>2. DOMAIN evs = 1 .. Len(evs) /\ Len(evs) \in Nat
    BY Appended DEF Continues
  <1>3. \A k \in DOMAIN evs : k \in DOMAIN later /\ later[k] = evs[k]
    BY DEF Continues
  <1>4. i \in DOMAIN later /\ i - 1 \in DOMAIN later /\ later[i] = evs[i] /\ later[i - 1] = evs[i - 1]
    BY <1>1, <1>3
  <1>5. \A j \in 1 .. i - 2 : later[j] = evs[j]
    BY <1>1, <1>2, <1>3
  <1>6. Explained(later, evs[i].body, evs[i - 1].args)
    BY StillExplained DEF Accounted
  <1>7. \E j \in 1 .. i - 2 : \E tool : TurnOf(later[j], [tool |-> tool, args |-> evs[i - 1].args])
    <2>1. PICK j \in 1 .. i - 2 : \E tool : TurnOf(evs[j], [tool |-> tool, args |-> evs[i - 1].args])
      BY DEF Accounted
    <2> QED BY <1>5, <2>1
  <1> QED BY <1>4, <1>6, <1>7, Zenon DEF Accounted

LEMMA TurnsAreObjects == \A calls, c : Turn(calls) # <<"registry">> /\ Capture(c) # <<"registry">>
  BY DEF Turn, Capture

\* What an event adds to the record.
LEMMA RefsGrow ==
  ASSUME TypeOK, RefsKept, [Next]_vars, NEW e, events' = Append(events, e),
         \A o \in Range(e.refs) : Kept(o)' /\ o # <<"registry">>
  PROVE  RefsKept'
  <1> DEFINE n == Len(events)
  <1>1. /\ DOMAIN events = 1 .. n /\ DOMAIN events' = 1 .. n + 1 /\ events'[n + 1] = e
        /\ \A i \in 1 .. n : events'[i] = events[i]
        /\ \A i : i \in 1 .. n + 1 <=> i \in 1 .. n \/ i = n + 1
    BY EventsGrow
  <1> HIDE DEF n
  <1>2. ASSUME NEW i \in 1 .. n, NEW o \in Range(events[i].refs)
        PROVE  Kept(o)' /\ o # <<"registry">>
    <2>1. Kept(o) /\ o # <<"registry">>
      BY <1>1 DEF RefsKept
    <2> QED BY <2>1, NothingVanishes
  <1>3. ASSUME NEW i \in DOMAIN events', NEW o \in Range(events'[i].refs)
        PROVE  Kept(o)' /\ o # <<"registry">>
    BY <1>1, <1>2
  <1> QED BY <1>3 DEF RefsKept

\* What a witness names.
LEMMA WitnessNames ==
  ASSUME SeamInv, StoredInv, Witness, Validate(Body)
  PROVE  \E e : /\ events' = Append(events, e) /\ e.class = "l8-delegation" /\ e.body = Body
                /\ Range(e.refs) = {<<"input", composed.input>>} \cup Range(Members(composed.template)) \cup
                                   (IF Body.output = NoObject THEN {} ELSE {Body.output})
                /\ \A o \in Range(e.refs) : Kept(o) \/ o \in objects'
                /\ \A o \in Range(e.refs) : o # <<"registry">>
  <1> DEFINE b == Body
             out == IF reply.error THEN << >> ELSE <<reply.output>>
             first == <<<<"input", composed.input>>>>
             m == Members(composed.template)
             refs == first \o b.templates \o out
             e == [class |-> "l8-delegation", body |-> b, refs |-> refs]
  <1>1. walk = "answered" /\ events' = Append(events, e) /\ objects' = objects \cup Range(out)
    BY DEF Witness
  <1>2. /\ b.templates = m
        /\ b.output = IF reply.error THEN NoObject ELSE reply.output
    BY DEF Body
  <1>3. ~reply.error => \E size : reply.output = <<"output", size>>
    BY <1>1 DEF SeamInv
  <1>4. \A size : <<"output", size>> # NoObject /\ <<"output", size>> # <<"registry">>
    BY DEF NoObject
  <1>5. /\ IsSeq(first) /\ Range(first) = {<<"input", composed.input>>}
        /\ \A o \in Range(first) : o # <<"registry">>
    BY OneMember
  <1>6. IsSeq(m) /\ \A o \in Range(m) : o # <<"registry">>
    BY MembersAre
  <1>7. /\ IsSeq(out) /\ Range(out) = IF b.output = NoObject THEN {} ELSE {b.output}
        /\ \A o \in Range(out) : o # <<"registry">>
    <2> HIDE DEF b
    <2>1. CASE reply.error
      BY <1>2, <2>1, NoMembers DEF Range
    <2>2. CASE ~reply.error
      BY <1>2, <1>3, <1>4, <2>2, OneMember
    <2> QED BY <2>1, <2>2
  <1>8. e.class = "l8-delegation" /\ e.body = b /\ e.refs = first \o m \o out
    BY <1>2
  <1> HIDE DEF e, first, m, out, b, refs
  <1>9. IsSeq(first \o m) /\ Range(first \o m) = Range(first) \cup Range(m)
    BY <1>5, <1>6, Joined, JoinedRange
  <1>10. Range(e.refs) = Range(first) \cup Range(m) \cup Range(out)
    BY <1>7, <1>8, <1>9, JoinedRange
  <1>11. \A o \in Range(e.refs) : Kept(o) \/ o \in objects'
    <2>1. \A o \in Range(m) : Kept(o)
      BY <1>1 DEF StoredInv, Stored, m
    <2>2. \A o \in Range(first) : Kept(o)
      BY <1>1, <1>5 DEF StoredInv, Stored
    <2>3. \A o \in Range(out) : o \in objects'
      BY <1>1
    <2> QED BY <1>10, <2>1, <2>2, <2>3
  <1>12. \A o \in Range(e.refs) : o # <<"registry">>
    BY <1>5, <1>6, <1>7, <1>10
  <1>13. Range(e.refs) = {<<"input", composed.input>>} \cup Range(m) \cup
                         (IF b.output = NoObject THEN {} ELSE {b.output})
    BY <1>5, <1>7, <1>10
  <1> QED BY <1>1, <1>8, <1>11, <1>12, <1>13 DEF b, m

LEMMA RefsStep ==
  ASSUME TypeOK, SeamInv, CalledInv, StoredInv, RefsKept, [Next]_vars
  PROVE  RefsKept'
  <1>1. CASE events' = events
    BY <1>1, NothingVanishes DEF RefsKept
  <1>2. ASSUME NEW tool, NEW args, ModelTurn(tool, args) PROVE RefsKept'
    <2> DEFINE turn == Turn(<<[tool |-> tool, args |-> args]>>)
               e == [class |-> "model-turn", refs |-> <<turn>>]
    <2>1. events' = Append(events, e) /\ turn \in objects'
      BY <1>2 DEF ModelTurn
    <2>2. e.refs = <<turn>> /\ turn # <<"registry">>
      BY TurnsAreObjects
    <2> HIDE DEF e, turn
    <2>3. \A o \in Range(e.refs) : Kept(o)' /\ o # <<"registry">>
      BY <2>1, <2>2, OneMember DEF Kept
    <2> QED BY <2>1, <2>3, RefsGrow
  <1>3. ASSUME NEW decision, NEW refs, Handled(decision, refs),
               \A o \in Range(refs) : o # <<"registry">>
        PROVE  RefsKept'
    <2> DEFINE e == Audit(decision, refs)
    <2>1. CASE machinery
      BY <1>1, <1>3, <2>1 DEF Handled
    <2>2. CASE ~machinery
      <3>1. events' = Append(events, e) /\ Range(refs) \subseteq objects'
        BY <1>3, <2>2 DEF Handled
      <3>2. e.refs = refs
        BY DEF Audit
      <3> HIDE DEF e
      <3>3. \A o \in Range(e.refs) : Kept(o)' /\ o # <<"registry">>
        BY <1>3, <3>1, <3>2 DEF Kept
      <3> QED BY <3>1, <3>3, RefsGrow
    <2> QED BY <2>1, <2>2
  <1>4. Range(<< >>) = {}
    BY NoMembers DEF Range
  <1>5. CASE Tool
    <2>1. CASE Handled("error", << >>)
      BY <1>3, <1>4, <2>1
    <2>2. ASSUME NEW r \in Results[call.tool], Handled("authorized", <<r>>) PROVE RefsKept'
      <3>1. call.tool \in DOMAIN ToolTrust \ {Delegate}
        BY <1>5 DEF Tool, CalledInv
      <3>2. r # <<"registry">>
        BY <2>2, <3>1, DelegationAssumption
      <3> QED BY <1>3, <2>2, <3>2, OneMember
    <2> QED BY <1>5, <2>1, <2>2 DEF Tool
  <1>6. CASE Instantiated
    <2>1. \A c : \A o \in Range(<<Capture(c)>>) : o # <<"registry">>
      BY TurnsAreObjects, OneMember
    <2> QED BY <1>3, <1>4, <1>6, <2>1 DEF Instantiated
  <1>7. CASE Timeout
    BY <1>3, <1>4, <1>7 DEF Timeout
  <1>8. CASE Witness
    <2>1. CASE ~Validate(Body)
      BY <1>1, <1>8, <2>1 DEF Witness
    <2>2. CASE Validate(Body)
      <3>1. PICK e : /\ events' = Append(events, e)
                     /\ \A o \in Range(e.refs) : Kept(o) \/ o \in objects'
                     /\ \A o \in Range(e.refs) : o # <<"registry">>
        BY <1>8, <2>2, WitnessNames
      <3>2. \A o \in Range(e.refs) : Kept(o)'
        BY <3>1, NothingVanishes DEF Kept
      <3> QED BY <3>1, <3>2, RefsGrow
    <2> QED BY <2>1, <2>2
  <1>9. ASSUME NEW j \in DOMAIN jobs, Begin(j) \/ Instantiate(j) PROVE RefsKept'
    BY <1>1, <1>9 DEF Begin, Instantiate
  <1>10. CASE Store \/ Ask \/ Fail \/ ChangeFiles \/ Lose \/ UNCHANGED vars
    BY <1>1, <1>10 DEF Store, Ask, Fail, ChangeFiles, Lose, vars
  <1> QED BY <1>2, <1>5, <1>6, <1>7, <1>8, <1>9, <1>10 DEF Next

LEMMA CalledStep ==
  ASSUME TypeOK, NeighbourInv, CalledInv, [Next]_vars
  PROVE  CalledInv'
  <1> USE DEF AtWork
  <1>1. ASSUME UNCHANGED <<events, call>>, AtWork' => AtWork, walk' = "call" => walk = "call"
        PROVE  CalledInv'
    BY <1>1 DEF CalledInv
  <1>2. ASSUME NEW tool \in DOMAIN ToolTrust, NEW args, ModelTurn(tool, args),
               tool = Delegate => args \in Delegations(MaxRefs)
        PROVE  CalledInv'
    <2> DEFINE c == [tool |-> tool, args |-> args]
               e == [class |-> "model-turn", refs |-> <<Turn(<<c>>)>>]
    <2>1. events' = Append(events, e) /\ call' = c /\ walk' = "call"
      BY <1>2 DEF ModelTurn
    <2>2. TurnOf(e, c) /\ c.tool = tool /\ c.args = args /\ c = [tool |-> c.tool, args |-> c.args]
      BY DEF TurnOf
    <2>3. tool = Delegate => Spelt(args)
      BY <1>2, SpeltProperly, DelegationAssumption
    <2> HIDE DEF e, c
    <2>4. events'[Len(events')] = e /\ events' # << >>
      BY <2>1, EventsGrow
    <2> QED BY <1>2, <2>1, <2>2, <2>3, <2>4 DEF CalledInv
  <1>3. ASSUME NEW decision, NEW refs, Handled(decision, refs), walk = "call"
        PROVE  CalledInv'
    <2> DEFINE e == Audit(decision, refs)
    <2>1. CASE machinery
      BY <1>3, <2>1 DEF Handled, CalledInv
    <2>2. CASE ~machinery
      <3>1. /\ events' = Append(events, e) /\ call' = call
            /\ walk' = IF decision = "authorized" /\ call.tool = Delegate THEN "audited" ELSE "turn"
        BY <1>3, <2>2 DEF Handled
      <3>2. e.args = call.args
        BY DEF Audit
      <3> HIDE DEF e
      <3>3. /\ events # << >> /\ TurnOf(events[Len(events)], call)
            /\ call = [tool |-> call.tool, args |-> call.args]
            /\ call.tool = Delegate => Spelt(call.args)
        BY <1>3 DEF CalledInv
      <3> DEFINE n == Len(events)
      <3>4. /\ n \in 1 .. n /\ n \in Nat /\ Len(events') = n + 1 /\ events'[n + 1] = e
            /\ events'[n] = events[n] /\ DOMAIN events' = 1 .. n + 1
        BY <3>1, <3>3, EventsGrow
      <3>5. Len(events') - 1 = n /\ n \in DOMAIN events'
        BY <3>4
      <3> HIDE DEF n
      <3>6. /\ Len(events') - 1 \in DOMAIN events' /\ TurnOf(events'[Len(events') - 1], call)
            /\ events'[Len(events')].args = call.args
        BY <3>2, <3>3, <3>4, <3>5 DEF n
      <3> QED BY <3>1, <3>3, <3>6 DEF CalledInv
    <2> QED BY <2>1, <2>2
  <1>4. CASE Tool \/ Instantiated \/ Timeout
    BY <1>3, <1>4 DEF Tool, Instantiated, Timeout
  <1>5. CASE Witness
    BY <1>5 DEF Witness, CalledInv
  <1>6. ASSUME NEW j \in DOMAIN jobs, Begin(j) \/ Instantiate(j) PROVE CalledInv'
    BY <1>1, <1>6 DEF Begin, Instantiate
  <1>7. CASE Store \/ Ask \/ Fail \/ ChangeFiles \/ Lose \/ UNCHANGED vars
    BY <1>1, <1>7 DEF Store, Ask, Fail, ChangeFiles, Lose, vars
  <1> QED BY <1>2, <1>4, <1>5, <1>6, <1>7 DEF Next

LEMMA StoredStep ==
  ASSUME StoredInv, [Next]_vars
  PROVE  StoredInv'
  <1>1. CASE Stored /\ composed' = composed
    BY <1>1, NothingVanishes DEF StoredInv
  <1>2. CASE ~Stored'
    BY <1>2 DEF StoredInv
  <1>3. CASE Store
    <2>1. Stored' => /\ <<"input", composed'.input>> \in objects'
                     /\ Range(Members(composed'.template)) \subseteq objects'
      BY <1>3 DEF Store, Stored
    <2> QED BY <2>1 DEF StoredInv, Kept
  <1>4. ASSUME NEW tool, NEW args, ModelTurn(tool, args) PROVE ~Stored'
    BY <1>4 DEF ModelTurn, Stored
  <1>5. ASSUME NEW j \in DOMAIN jobs, Begin(j) \/ Instantiate(j)
        PROVE  walk' = walk /\ composed' = composed
    BY <1>5 DEF Begin, Instantiate
  <1>6. ASSUME NEW decision, NEW refs, Handled(decision, refs) PROVE ~Stored'
    BY <1>6 DEF Handled, Stored
  <1>7. CASE Tool \/ Instantiated \/ Timeout
    BY <1>2, <1>6, <1>7 DEF Tool, Instantiated, Timeout
  <1>8. CASE Ask \/ Fail \/ ChangeFiles \/ Lose \/ UNCHANGED vars
    <2>1. ~Stored' \/ (Stored /\ composed' = composed)
      BY <1>8 DEF Ask, Fail, ChangeFiles, Lose, vars, Stored
    <2> QED BY <1>1, <1>2, <2>1
  <1>9. CASE Witness
    BY <1>2, <1>9 DEF Witness, Stored
  <1>10. ASSUME NEW j \in DOMAIN jobs, Begin(j) \/ Instantiate(j) PROVE StoredInv'
    <2>1. ~Stored' \/ (Stored /\ composed' = composed)
      BY <1>5, <1>10 DEF Stored
    <2> QED BY <1>1, <1>2, <2>1
  <1> QED BY <1>2, <1>3, <1>4, <1>7, <1>8, <1>9, <1>10 DEF Next

\* The witness of a call accounts for it.
LEMMA WitnessAccounted ==
  ASSUME NeighbourInv, SeamInv, CalledInv, StoredInv, Witness, Validate(Body)
  PROVE  /\ \E e : events' = Append(events, e)
         /\ Accounted(events', Len(events) + 1)
  <1> DEFINE n == Len(events)
             b == Body
             t == composed.template
  <1>1. PICK e : /\ events' = Append(events, e) /\ e.body = b
                 /\ Range(e.refs) = {<<"input", composed.input>>} \cup Range(Members(t)) \cup
                                    (IF b.output = NoObject THEN {} ELSE {b.output})
    BY WitnessNames
  <1>2. /\ walk = "answered" /\ call.tool = Delegate /\ Asks(call.args) /\ TypeOK
    BY DEF Witness, SeamInv, AtWork, NeighbourInv
  <1>3. /\ n \in Nat /\ DOMAIN events = 1 .. n /\ DOMAIN events' = 1 .. n + 1 /\ events'[n + 1] = e
        /\ \A i \in 1 .. n : events'[i] = events[i]
        /\ events # << >> => n \in 1 .. n
    BY <1>1, <1>2, EventsGrow
  <1>4. n \in 1 .. n /\ Authorized(n)
    BY <1>2, <1>3 DEF NeighbourInv, AtWork
  <1>5. /\ n - 1 \in DOMAIN events /\ TurnOf(events[n - 1], call) /\ events[n].args = call.args
        /\ call = [tool |-> call.tool, args |-> call.args] /\ Spelt(call.args)
    BY <1>2 DEF CalledInv, AtWork
  <1>6. /\ b.parent = n /\ b.ref = call.args.template /\ b.template = t /\ b.contract = t.contract
        /\ b.templates = Members(t) /\ b.input = composed.input /\ b.evidence = composed.evidence
    BY DEF Body, Parent
  <1>7. Explained(events', b, call.args)
    <2>1. PICK objs : Composed(events, objs, call.args, composed)
      BY <1>2 DEF SeamInv, Stored
    <2>2. Explained(events, composed, call.args)
      BY <1>2, <2>1, ComposedExplains
    <2> HIDE DEF b, t
    <2>3. Explained(events, b, call.args)
      BY <1>6, <2>2 DEF Explained, t
    <2>4. Continues(events', events)
      BY <1>1, <1>2, ContinuesAppended
    <2> QED BY <2>3, <2>4, StillExplained
  <1>8. Validate(b)
    OBVIOUS
  <1> HIDE DEF n, b, t
  <1>9. /\ (n + 1) - 1 = n /\ (n + 1) - 2 = n - 1 /\ n + 1 \in DOMAIN events' /\ n \in DOMAIN events'
        /\ events'[n] = events[n]
    BY <1>3, <1>4
  <1>10. n - 1 \in 1 .. n - 1 /\ events'[n - 1] = events[n - 1]
    BY <1>3, <1>5
  <1>11. /\ events'[n].class = "l4-audit" /\ events'[n].decision = "authorized"
         /\ events'[n].args = call.args
    BY <1>4, <1>5, <1>9 DEF Authorized
  <1>12. /\ events'[n + 1].body = b
         /\ Range(events'[n + 1].refs) = {<<"input", b.input>>} \cup Range(b.templates) \cup
                                         (IF b.output = NoObject THEN {} ELSE {b.output})
    BY <1>1, <1>3, <1>6
  <1>13. \E j \in 1 .. n - 1 : \E tool : TurnOf(events'[j], [tool |-> tool, args |-> call.args])
    BY <1>5, <1>10
  <1>14. Accounted(events', n + 1)
    BY <1>5, <1>6, <1>7, <1>8, <1>9, <1>11, <1>12, <1>13 DEF Accounted, Spelt
  <1> QED BY <1>1, <1>14 DEF n

LEMMA AccountStep ==
  ASSUME NeighbourInv, SeamInv, CalledInv, StoredInv, AccountInv, [Next]_vars
  PROVE  AccountInv'
  <1> DEFINE n == Len(events)
  <1>0. TypeOK
    BY DEF NeighbourInv
  <1>1. CASE events' = events
    BY <1>1 DEF AccountInv, Witnesses
  <1>2. ASSUME NEW e, events' = Append(events, e),
               e.class = "l8-delegation" => Accounted(events', n + 1)
        PROVE  AccountInv'
    <2>1. /\ DOMAIN events = 1 .. n /\ DOMAIN events' = 1 .. n + 1 /\ events'[n + 1] = e
          /\ \A i \in 1 .. n : events'[i] = events[i]
          /\ \A i : i \in 1 .. n + 1 <=> i \in 1 .. n \/ i = n + 1
      BY <1>0, <1>2, EventsGrow
    <2>2. Continues(events', events)
      BY <1>0, <1>2, ContinuesAppended
    <2> HIDE DEF n
    <2>3. ASSUME NEW i \in Witnesses' PROVE Accounted(events', i)
      <3>1. CASE i = n + 1
        BY <1>2, <2>1, <2>3, <3>1 DEF Witnesses
      <3>2. CASE i # n + 1
        <4>1. i \in Witnesses
          BY <2>1, <2>3, <3>2 DEF Witnesses
        <4> QED BY <2>2, <4>1, StillAccounted DEF AccountInv
      <3> QED BY <3>1, <3>2
    <2> QED BY <2>3 DEF AccountInv
  <1>3. ASSUME NEW tool, NEW args, ModelTurn(tool, args) PROVE AccountInv'
    <2> DEFINE e == [class |-> "model-turn", refs |-> <<Turn(<<[tool |-> tool, args |-> args]>>)>>]
    <2>1. events' = Append(events, e) /\ e.class = "model-turn"
      BY <1>3 DEF ModelTurn
    <2> HIDE DEF e, n
    <2> QED BY <1>2, <2>1
  <1>4. ASSUME NEW decision, NEW refs, Handled(decision, refs) PROVE AccountInv'
    <2>1. events' = events \/ events' = Append(events, Audit(decision, refs))
      BY <1>4 DEF Handled
    <2>2. Audit(decision, refs).class = "l4-audit"
      BY DEF Audit
    <2> HIDE DEF n
    <2> QED BY <1>1, <1>2, <2>1, <2>2
  <1>5. CASE Tool \/ Instantiated \/ Timeout
    BY <1>4, <1>5 DEF Tool, Instantiated, Timeout
  <1>6. CASE Witness
    <2>1. CASE ~Validate(Body)
      BY <1>1, <1>6, <2>1 DEF Witness
    <2>2. CASE Validate(Body)
      <3>1. (\E e : events' = Append(events, e)) /\ Accounted(events', n + 1)
        BY <1>6, <2>2, WitnessAccounted
      <3> HIDE DEF n
      <3> QED BY <1>2, <3>1
    <2> QED BY <2>1, <2>2
  <1>7. ASSUME NEW j \in DOMAIN jobs, Begin(j) \/ Instantiate(j) PROVE AccountInv'
    BY <1>1, <1>7 DEF Begin, Instantiate
  <1>8. CASE Store \/ Ask \/ Fail \/ ChangeFiles \/ Lose \/ UNCHANGED vars
    BY <1>1, <1>8 DEF Store, Ask, Fail, ChangeFiles, Lose, vars
  <1> QED BY <1>3, <1>5, <1>6, <1>7, <1>8 DEF Next

\* The turn of a call is where a verifier looks for its arguments.
LEMMA TurnFound ==
  ASSUME NEW evs, IsSeq(evs), NEW objs, NEW i, Accounted(evs, i),
         \A j \in DOMAIN evs : Range(evs[j].refs) \subseteq objs,
         evs[i - 1].args.form = "compact"
  PROVE  BriefsOf(evs, objs, evs[i].body) # {}
  <1> DEFINE args == evs[i - 1].args
             d == evs[i].body
  <1>0. PICK j \in 1 .. i - 2 : \E tool : TurnOf(evs[j], [tool |-> tool, args |-> args])
    BY DEF Accounted
  <1>1. PICK tool : TurnOf(evs[j], [tool |-> tool, args |-> args])
    BY <1>0
  <1>2. /\ i \in DOMAIN evs /\ d.parent = i - 1 /\ Compact(args) = args
    BY DEF Accounted
  <1>3. DOMAIN evs = 1 .. Len(evs) /\ Len(evs) \in Nat
    BY Appended
  <1>4. j \in DOMAIN evs /\ j \in 1 .. d.parent - 1
    BY <1>2, <1>3
  <1> DEFINE c == [tool |-> tool, args |-> args]
             turn == Turn(<<c>>)
  <1>5. evs[j].class = "model-turn" /\ evs[j].refs = <<turn>>
    BY <1>1 DEF TurnOf
  <1>6. c \in Range(turn[2]) /\ c.args = args
    <2>1. turn[2] = [k \in DOMAIN <<c>> |-> [tool |-> <<c>>[k].tool, args |-> Compact(<<c>>[k].args)]]
      BY DEF Turn
    <2>2. DOMAIN <<c>> = {1} /\ <<c>>[1] = c /\ c.tool = tool /\ c.args = args
      BY OneMember
    <2> HIDE DEF args, turn
    <2>3. DOMAIN turn[2] = {1} /\ turn[2][1] = c
      BY <1>2, <2>1, <2>2
    <2> HIDE DEF c
    <2> QED BY <2>2, <2>3 DEF Range
  <1>7. evs[j].refs # << >> /\ evs[j].refs[1] = turn /\ turn \in objs
    <2> HIDE DEF turn, c
    <2>1. Range(evs[j].refs) \subseteq objs
      BY <1>4
    <2>2. evs[j].refs = <<turn>> /\ Range(<<turn>>) = {turn} /\ <<turn>>[1] = turn
      BY <1>5, OneMember
    <2>3. <<turn>> # << >>
      BY NoMembers, OneMember
    <2> QED BY <2>1, <2>2, <2>3
  <1> HIDE DEF c, turn, args
  <1>8. c \in BriefsOf(evs, objs, d)
    <2>1. c.args = evs[d.parent].args
      BY <1>2, <1>6 DEF args
    <2> HIDE DEF d
    <2>2. j \in {k \in 1 .. d.parent - 1 : /\ evs[k].class = "model-turn" /\ evs[k].refs # << >>
                                           /\ evs[k].refs[1] \in objs}
      BY <1>4, <1>5, <1>7
    <2>3. c \in UNION {Range(evs[k].refs[1][2]) :
                         k \in {k \in 1 .. d.parent - 1 :
                                 /\ evs[k].class = "model-turn" /\ evs[k].refs # << >>
                                 /\ evs[k].refs[1] \in objs}}
      BY <1>6, <1>7, <2>2
    <2> QED BY <2>1, <2>3 DEF BriefsOf
  <1> QED BY <1>8

LEMMA RecordsExplain ==
  ASSUME TypeOK, RefsKept, AccountInv, NEW i \in Witnesses
  PROVE  /\ Instructions = {} => Reconstructed(i) # "DISCREPANCY"
         /\ lost = {} /\ Spelled(i) = "compact" => Reconstructed(i) = "CONFIRMED"
  <1> DEFINE d == events[i].body
             t == d.template
             r == reconstructOne(events, objects, i, ToolsHash)
  <1>1. IsSeq(events) /\ Accounted(events, i)
    BY DEF TypeOK, AccountInv
  <1>2. \A k \in DOMAIN events : \A o \in Range(events[k].refs) : Kept(o) /\ o # <<"registry">>
    BY DEF RefsKept
  <1>3. /\ i \in DOMAIN events /\ d.parent = i - 1 /\ d.templates = Members(t)
        /\ Range(Members(t)) \subseteq Range(events[i].refs)
        /\ \A k \in DOMAIN d.evidence : Carried(events, d.evidence[k])
    BY <1>1 DEF Accounted, Explained, Derives
  <1>4. \A k \in DOMAIN d.evidence : Kept(d.evidence[k].object) /\ d.evidence[k].object # <<"registry">>
    BY <1>2, <1>3 DEF Carried
  <1>5. Instructions = {} /\ Instructed(t) => <<"instruction", t.instruction>> \in objects
    <2> DEFINE o == <<"instruction", t.instruction>>
    <2>1. SUFFICES ASSUME Instructions = {}, Instructed(t) PROVE o \in objects
      OBVIOUS
    <2>2. o \in Range(Members(t))
      <3>1. Members(t)[3] = o /\ 3 \in DOMAIN Members(t)
        <4> HIDE DEF t
        <4>1. /\ DOMAIN Members(t) = 1 .. Len(Members(t))
              /\ Len(Members(t)) = 3 /\ Members(t)[3] = o
          BY <2>1, MembersAre
        <4> QED BY <4>1
      <3> QED BY <3>1 DEF Range
    <2>3. Kept(o)
      BY <1>2, <1>3, <2>2
    <2>4. o[1] = "instruction"
      OBVIOUS
    <2> HIDE DEF o
    <2> QED BY <2>1, <2>3, <2>4 DEF Instructions, Kept
  <1>6. Instructions = {} => r.discrepancies = {}
    <2> HIDE DEF r
    <2> QED BY <1>1, <1>4, <1>5, Judged DEF r
  <1>7. ASSUME lost = {}, Spelled(i) = "compact" PROVE r.missing = {}
    <2>1. \A k \in DOMAIN events : Range(events[k].refs) \subseteq objects
      BY <1>2, <1>7 DEF Kept
    <2>2. BriefsOf(events, objects, d) # {}
      BY <1>1, <1>3, <1>7, <2>1, TurnFound DEF Spelled
    <2>3. \A k \in DOMAIN d.evidence : d.evidence[k].object \in objects
      BY <1>4, <1>7 DEF Kept
    <2>4. Instructions = {}
      BY <1>7 DEF Instructions
    <2>5. Range(events[i].refs) \subseteq objects
      BY <1>3, <2>1
    <2> QED BY <1>1, <1>4, <1>5, <2>2, <2>3, <2>4, <2>5, Judged
  <1>8. lost = {} => Instructions = {}
    BY DEF Instructions
  <1>9. Reconstructed(i) = Verdict(r)
    BY DEF Reconstructed
  <1> HIDE DEF r
  <1> QED BY <1>6, <1>7, <1>8, <1>9 DEF Verdict

ExplainInv == NeighbourInv /\ SeamInv /\ CalledInv /\ StoredInv /\ RefsKept /\ AccountInv

\* LiveRecordsReconstruct, whatever the templates, the files, the timing and
\* the faults: what seam.go puts on the record, reconstruct.go finds again,
\* and a task that is not between two calls is no exception.
THEOREM LiveRecordsAlwaysReconstruct == Spec => []LiveRecordsReconstruct
  <1>1. Init => ExplainInv
    <2> SUFFICES ASSUME Init PROVE ExplainInv
      OBVIOUS
    <2>1. events = << >> /\ DOMAIN events = {} /\ walk = "turn"
      BY NoMembers DEF Init
    <2>2. CalledInv /\ StoredInv
      BY <2>1 DEF CalledInv, StoredInv, AtWork, Stored
    <2>3. RefsKept /\ AccountInv
      BY <2>1 DEF RefsKept, AccountInv, Witnesses
    <2> QED BY <2>2, <2>3, NeighbourInit, SeamInit DEF ExplainInv
  <1>2. ExplainInv /\ [Next]_vars => ExplainInv'
    <2> SUFFICES ASSUME ExplainInv, [Next]_vars PROVE ExplainInv'
      OBVIOUS
    <2>1. TypeOK /\ NeighbourInv /\ SeamInv /\ CalledInv /\ StoredInv /\ RefsKept /\ AccountInv
      BY DEF ExplainInv, NeighbourInv
    <2> QED BY <2>1, NeighbourStep, SeamStep, CalledStep, StoredStep, RefsStep, AccountStep DEF ExplainInv
  <1>3. ExplainInv => LiveRecordsReconstruct
    BY RecordsExplain DEF ExplainInv, NeighbourInv, LiveRecordsReconstruct
  <1> QED BY <1>1, <1>2, <1>3, PTL DEF Spec

=============================================================================
