------------------------- MODULE VerificationProofs -------------------------
(***************************************************************************)
(* Verification, for any tasks, calls, reports, registries and edits: the  *)
(* registries one process uses only grow, and every evaluation on a record *)
(* is derived again from the objects of the store alone.                   *)
(***************************************************************************)
EXTENDS Verification, SequenceTheorems, TLAPS

Places == {"turn", "load", "check", "resolve", "audit", "evaluate", "commit", "failed"}

\* A sequence, of whatever its members are.
IsSeq(s) == s \in Seq({s[i] : i \in DOMAIN s})

TypeOK ==
    /\ pc \in [Tasks -> Places]
    /\ DOMAIN refusal = Tasks /\ DOMAIN prepared = Tasks /\ DOMAIN call = Tasks /\ DOMAIN loaded = Tasks
    /\ DOMAIN evaluation = Tasks /\ DOMAIN verifState = Tasks
    /\ DOMAIN log = Tasks /\ \A t \in Tasks : IsSeq(log[t])
    /\ DOMAIN told = Tasks /\ \A t \in Tasks : IsSeq(told[t])
    /\ DOMAIN stored = Tasks
    /\ IsSeq(used)

LEMMA Appended ==
  ASSUME NEW s, IsSeq(s), NEW x
  PROVE  /\ IsSeq(Append(s, x)) /\ Len(s) \in Nat /\ DOMAIN s = 1 .. Len(s)
         /\ Len(Append(s, x)) = Len(s) + 1 /\ DOMAIN Append(s, x) = 1 .. Len(s) + 1
         /\ Append(s, x)[Len(s) + 1] = x
         /\ \A i \in 1 .. Len(s) : Append(s, x)[i] = s[i]
         /\ Append(s, x) # << >>
  <1> DEFINE S == {s[i] : i \in DOMAIN s} \cup {x}
             a == Append(s, x)
  <1>1. s \in Seq(S)
    BY DEF IsSeq
  <1>2. /\ Len(s) \in Nat /\ DOMAIN s = 1 .. Len(s) /\ a \in Seq(S)
        /\ Len(a) = Len(s) + 1 /\ DOMAIN a = 1 .. Len(s) + 1
        /\ a[Len(s) + 1] = x /\ \A i \in 1 .. Len(s) : a[i] = s[i]
    <2> HIDE DEF S
    <2>1. x \in S
      BY DEF S
    <2> QED BY <1>1, <2>1, AppendProperties, LenProperties
  <1>3. \A i \in 1 .. Len(a) : a[i] \in {a[i_1] : i_1 \in DOMAIN a}
    BY <1>2
  <1>4. a \in [1 .. Len(a) -> {a[i] : i \in DOMAIN a}] /\ Len(a) \in Nat
    <2> HIDE DEF a
    <2> QED BY <1>2, <1>3
  <1>5. IsSeq(a)
    <2> HIDE DEF a
    <2> QED BY <1>4 DEF IsSeq
  <1>6. a # << >>
    BY <1>2
  <1> QED BY <1>2, <1>5, <1>6

LEMMA NoMembers == IsSeq(<< >>) /\ DOMAIN << >> = {} /\ Len(<< >>) = 0
  BY DEF IsSeq

LEMMA TypeInit == Init => TypeOK
  <1> SUFFICES ASSUME Init PROVE TypeOK
    OBVIOUS
  <1>1. /\ pc \in [Tasks -> Places] /\ used = << >>
        /\ DOMAIN refusal = Tasks /\ DOMAIN prepared = Tasks /\ DOMAIN call = Tasks
        /\ DOMAIN loaded = Tasks /\ DOMAIN evaluation = Tasks /\ DOMAIN verifState = Tasks
        /\ DOMAIN log = Tasks /\ DOMAIN told = Tasks /\ DOMAIN stored = Tasks
    BY DEF Init, Places
  <1>2. \A t \in Tasks : log[t] = << >> /\ told[t] = << >>
    BY DEF Init
  <1> QED BY <1>1, <1>2, NoMembers DEF TypeOK

\* A sequence of one task grows by one.
LEMMA TableAppended ==
  ASSUME NEW table, DOMAIN table = Tasks, \A t \in Tasks : IsSeq(table[t]),
         NEW t \in Tasks, NEW x, NEW next, next = [table EXCEPT ![t] = Append(@, x)]
  PROVE  DOMAIN next = Tasks /\ \A u \in Tasks : IsSeq(next[u])
  <1>1. IsSeq(Append(table[t], x))
    BY Appended
  <1> QED BY <1>1

LEMMA TypeStep == TypeOK /\ [Next]_vars => TypeOK'
  <1> SUFFICES ASSUME TypeOK, [Next]_vars PROVE TypeOK'
    OBVIOUS
  <1>1. CASE OperatorStep
    BY <1>1 DEF OperatorStep, TypeOK
  <1>2. CASE Restart
    BY <1>2, NoMembers DEF Restart, TypeOK, Places
  <1>3. ASSUME NEW t \in Tasks, Handle(t) PROVE TypeOK'
    BY <1>3 DEF Handle, evaluator, TypeOK, Places
  <1>4. ASSUME NEW t \in Tasks, Load(t) PROVE TypeOK'
    BY <1>4 DEF Load, evaluator, TypeOK, Places
  <1>5. ASSUME NEW t \in Tasks, Check(t) PROVE TypeOK'
    <2>1. IsSeq(Append(used, loaded[t]))
      BY Appended DEF TypeOK
    <2> QED BY <1>5, <2>1 DEF Check, TypeOK, Places
  <1>6. ASSUME NEW t \in Tasks, Tampered(t) PROVE TypeOK'
    BY <1>6 DEF Tampered, evaluator, TypeOK, Places
  <1>7. ASSUME NEW t \in Tasks, ResolveCall(t) PROVE TypeOK'
    BY <1>7 DEF ResolveCall, TypeOK, Places
  <1>8. ASSUME NEW t \in Tasks, Audit(t) PROVE TypeOK'
    <2>1. DOMAIN log' = Tasks /\ \A u \in Tasks : IsSeq(log'[u])
      BY <1>8, TableAppended DEF Audit, TypeOK
    <2>2. DOMAIN told' = Tasks /\ \A u \in Tasks : IsSeq(told'[u])
      BY <1>8, TableAppended DEF Audit, TypeOK
    <2>3. /\ pc' \in [Tasks -> Places] /\ DOMAIN call' = Tasks /\ DOMAIN refusal' = Tasks
      BY <1>8 DEF Audit, TypeOK, Places
    <2>4. UNCHANGED <<operator, prior, prepared, used, loaded, evaluation, store, stored, verifState>>
      BY <1>8 DEF Audit, evaluator
    <2> QED BY <2>1, <2>2, <2>3, <2>4 DEF TypeOK
  <1>9. ASSUME NEW t \in Tasks, EvaluateCall(t) PROVE TypeOK'
    <2>1. DOMAIN told' = Tasks /\ \A u \in Tasks : IsSeq(told'[u])
      BY <1>9, TableAppended DEF EvaluateCall, TypeOK
    <2> QED BY <1>9, <2>1 DEF EvaluateCall, TypeOK, Places
  <1>10. ASSUME NEW t \in Tasks, EvaluatorFails(t) PROVE TypeOK'
    BY <1>10 DEF EvaluatorFails, TypeOK, Places
  <1>11. ASSUME NEW t \in Tasks, Commit(t) PROVE TypeOK'
    <2>1. DOMAIN log' = Tasks /\ \A u \in Tasks : IsSeq(log'[u])
      BY <1>11, TableAppended DEF Commit, TypeOK
    <2>2. DOMAIN told' = Tasks /\ \A u \in Tasks : IsSeq(told'[u])
      BY <1>11, TableAppended DEF Commit, TypeOK
    <2> QED BY <1>11, <2>1, <2>2 DEF Commit, evaluator, TypeOK, Places
  <1>12. CASE UNCHANGED vars
    BY <1>12 DEF vars, TypeOK
  <1> QED BY <1>1, <1>2, <1>3, <1>4, <1>5, <1>6, <1>7, <1>8, <1>9, <1>10, <1>11, <1>12
          DEF Next, TaskStep

\* Every task has a place in its call, a record and a list of messages.
THEOREM TypesHold == Spec => []TypeOK
  BY TypeInit, TypeStep, PTL DEF Spec

(***************************************************************************)
(* Registries.  A call's registry loads, the evaluator remembers the last  *)
(* one used, and keeping a binding and a withdrawal is transitive.         *)
(***************************************************************************)

Remembered ==
    /\ used = << >> <=> prior = Absent
    /\ used # << >> => prior = used[Len(used)]

Loads ==
    /\ \A i \in DOMAIN used : LoadRegistry(used[i])
    /\ \A t \in Tasks : pc[t] = "check" => LoadRegistry(loaded[t]) /\ Authorizing = L4.hash
    /\ \A t \in Tasks : pc[t] = "resolve" =>
         Authorizing = L4.hash /\ \E i \in DOMAIN used : loaded[t] = used[i]

RegistryInv == TypeOK /\ Remembered /\ Loads /\ UsedRegistriesGrow

LEMMA GrowsIs ==
  UsedRegistriesGrow <=>
    \A i, j \in DOMAIN used : i < j => CheckAppendOnly(used[j], used[i])
  BY DEF UsedRegistriesGrow, CheckAppendOnly

LEMMA GrowingIsTransitive ==
  ASSUME NEW a, NEW b, NEW c, CheckAppendOnly(b, a), CheckAppendOnly(c, b)
  PROVE  CheckAppendOnly(c, a)
  <1> SUFFICES ASSUME NEW p \in Entries(a)
               PROVE  \E e \in Entries(c) : /\ Key(e) = Key(p) /\ e.contract = p.contract
                                            /\ p.state = "withdrawn" => e.state = "withdrawn"
    BY DEF CheckAppendOnly
  <1>1. PICK q \in Entries(b) : /\ Key(q) = Key(p) /\ q.contract = p.contract
                                /\ p.state = "withdrawn" => q.state = "withdrawn"
    BY DEF CheckAppendOnly
  <1>2. PICK e \in Entries(c) : /\ Key(e) = Key(q) /\ e.contract = q.contract
                                /\ q.state = "withdrawn" => e.state = "withdrawn"
    BY DEF CheckAppendOnly
  <1> QED BY <1>1, <1>2

LEMMA RegistryInit == Init => RegistryInv
  <1> SUFFICES ASSUME Init PROVE RegistryInv
    OBVIOUS
  <1>1. TypeOK
    BY TypeInit
  <1>2. used = << >> /\ prior = Absent /\ \A t \in Tasks : pc[t] = "turn"
    BY DEF Init
  <1> QED BY <1>1, <1>2, NoMembers DEF RegistryInv, Remembered, Loads, UsedRegistriesGrow

LEMMA CheckGrows ==
  ASSUME RegistryInv, NEW t \in Tasks, Check(t)
  PROVE  Remembered' /\ Loads' /\ UsedRegistriesGrow'
  <1> DEFINE n == Len(used)
             r == loaded[t]
  <1>1. /\ used' = Append(used, r) /\ prior' = r /\ LoadRegistry(r) /\ Authorizing = L4.hash
        /\ prior # Absent => CheckAppendOnly(r, prior)
        /\ pc' = [pc EXCEPT ![t] = "resolve"] /\ loaded' = loaded
    BY DEF Check, Observed, AppendOnly, RegistryInv, Loads
  <1>2. /\ n \in Nat /\ DOMAIN used = 1 .. n /\ DOMAIN used' = 1 .. n + 1 /\ Len(used') = n + 1
        /\ used'[n + 1] = r /\ used' # << >> /\ \A i \in 1 .. n : used'[i] = used[i]
    BY <1>1, Appended DEF RegistryInv, TypeOK
  <1>3. Remembered'
    BY <1>1, <1>2 DEF Remembered, LoadRegistry
  <1>4. Loads'
    <2>1. \A i \in DOMAIN used' : i \in DOMAIN used \/ i = n + 1
      BY <1>2
    <2>2. \A i \in DOMAIN used' : LoadRegistry(used'[i])
      BY <1>1, <1>2, <2>1 DEF RegistryInv, Loads
    <2>3. ASSUME NEW u \in Tasks, pc'[u] = "check" PROVE LoadRegistry(loaded'[u])
      BY <1>1, <2>3 DEF RegistryInv, Loads, TypeOK
    <2>4. ASSUME NEW u \in Tasks, pc'[u] = "resolve"
          PROVE  \E i \in DOMAIN used' : loaded'[u] = used'[i]
      <3>1. CASE u = t
        BY <1>1, <1>2, <3>1
      <3>2. CASE u # t
        <4>1. PICK i \in DOMAIN used : loaded[u] = used[i]
          BY <1>1, <2>4, <3>2 DEF RegistryInv, Loads, TypeOK
        <4> QED BY <1>1, <1>2, <4>1
      <3> QED BY <3>1, <3>2
    <2> QED BY <1>1, <2>2, <2>3, <2>4 DEF Loads
  <1>5. ASSUME NEW i \in DOMAIN used', NEW j \in DOMAIN used', i < j
        PROVE  CheckAppendOnly(used'[j], used'[i])
    <2>1. CASE j \in 1 .. n
      BY <1>2, <1>5, <2>1, GrowsIs DEF RegistryInv
    <2>2. CASE j = n + 1
      <3>1. i \in 1 .. n /\ used # << >> /\ n \in 1 .. n
        BY <1>2, <1>5, <2>2, NoMembers
      <3>2. CheckAppendOnly(r, used[n])
        BY <1>1, <3>1 DEF RegistryInv, Remembered
      <3>3. i # n => CheckAppendOnly(used[n], used[i])
        BY <1>2, <3>1, GrowsIs DEF RegistryInv
      <3>4. CheckAppendOnly(r, used[i])
        BY <3>2, <3>3, GrowingIsTransitive
      <3> QED BY <1>2, <2>2, <3>1, <3>4
    <2> QED BY <1>2, <2>1, <2>2
  <1>6. UsedRegistriesGrow'
    BY <1>5 DEF UsedRegistriesGrow, CheckAppendOnly
  <1> QED BY <1>3, <1>4, <1>6

LEMMA RegistryStep == RegistryInv /\ [Next]_vars => RegistryInv'
  <1> SUFFICES ASSUME RegistryInv, [Next]_vars PROVE RegistryInv'
    OBVIOUS
  <1>1. TypeOK /\ TypeOK'
    BY TypeStep DEF RegistryInv
  <1> SUFFICES Remembered' /\ Loads' /\ UsedRegistriesGrow'
    BY <1>1 DEF RegistryInv
  <1>2. ASSUME UNCHANGED evaluator,
               \A t \in Tasks : pc'[t] = "check" \/ pc'[t] = "resolve" =>
                                  pc'[t] = pc[t] /\ loaded'[t] = loaded[t]
        PROVE  Remembered' /\ Loads' /\ UsedRegistriesGrow'
    BY <1>2 DEF evaluator, RegistryInv, Remembered, Loads, UsedRegistriesGrow
  <1>3. CASE OperatorStep
    BY <1>2, <1>3 DEF OperatorStep, evaluator
  <1>4. CASE Restart
    <2>1. used' = << >> /\ prior' = Absent /\ \A t \in Tasks : pc'[t] \in {"turn", "failed"}
      BY <1>4 DEF Restart
    <2> QED BY <2>1, NoMembers DEF Remembered, Loads, UsedRegistriesGrow
  <1>5. ASSUME NEW t \in Tasks, Load(t) PROVE Remembered' /\ Loads' /\ UsedRegistriesGrow'
    <2>1. UNCHANGED evaluator
      BY <1>5 DEF Load
    <2>2. pc'[t] = "check" => LoadRegistry(loaded'[t]) /\ Authorizing = L4.hash
      BY <1>1, <1>5 DEF Load, TypeOK, Malformed
    <2>3. pc'[t] # "resolve"
      BY <1>1, <1>5 DEF Load, TypeOK
    <2>4. \A u \in Tasks : u # t => pc'[u] = pc[u] /\ loaded'[u] = loaded[u]
      BY <1>1, <1>5 DEF Load, TypeOK
    <2> QED BY <2>1, <2>2, <2>3, <2>4
            DEF evaluator, RegistryInv, Remembered, Loads, UsedRegistriesGrow
  <1>6. ASSUME NEW t \in Tasks, Check(t) PROVE Remembered' /\ Loads' /\ UsedRegistriesGrow'
    BY <1>6, CheckGrows
  <1>7. ASSUME NEW t \in Tasks,
               \/ Handle(t) \/ Tampered(t) \/ ResolveCall(t) \/ Audit(t)
               \/ EvaluateCall(t) \/ EvaluatorFails(t) \/ Commit(t)
        PROVE  Remembered' /\ Loads' /\ UsedRegistriesGrow'
    <2> DEFINE Elsewhere ==
                 /\ UNCHANGED <<prior, used>> /\ pc'[t] \notin {"check", "resolve"}
                 /\ \A u \in Tasks : u # t => pc'[u] = pc[u] /\ loaded'[u] = loaded[u]
    <2>1. Elsewhere
      <3>1. CASE Handle(t)
        BY <1>1, <3>1 DEF Handle, evaluator, TypeOK
      <3>2. CASE Tampered(t)
        BY <1>1, <3>2 DEF Tampered, evaluator, TypeOK
      <3>3. CASE ResolveCall(t)
        BY <1>1, <3>3 DEF ResolveCall, TypeOK
      <3>4. CASE Audit(t)
        <4>1. /\ UNCHANGED <<prior, used, loaded>>
              /\ \E p \in {"evaluate", "turn"} : pc' = [pc EXCEPT ![t] = p]
          BY <3>4, Zenon DEF Audit, evaluator
        <4> QED BY <1>1, <4>1 DEF TypeOK
      <3>5. CASE EvaluateCall(t)
        BY <1>1, <3>5 DEF EvaluateCall, TypeOK
      <3>6. CASE EvaluatorFails(t)
        BY <1>1, <3>6 DEF EvaluatorFails, TypeOK
      <3>7. CASE Commit(t)
        BY <1>1, <3>7 DEF Commit, evaluator, TypeOK
      <3> QED BY <1>7, <3>1, <3>2, <3>3, <3>4, <3>5, <3>6, <3>7
    <2> QED BY <2>1 DEF RegistryInv, Remembered, Loads, UsedRegistriesGrow
  <1>8. CASE UNCHANGED vars
    BY <1>2, <1>8 DEF vars, evaluator
  <1> QED BY <1>3, <1>4, <1>5, <1>6, <1>7, <1>8 DEF Next, TaskStep

\* Whatever order tasks load and check their registries in, whatever an
\* operator writes between them, no registry is used after one it takes a
\* binding or a withdrawal back from: each is compared with the last one used.
THEOREM RegistriesGrow == Spec => []UsedRegistriesGrow
  <1>1. RegistryInv => UsedRegistriesGrow
    BY DEF RegistryInv
  <1> QED BY <1>1, RegistryInit, RegistryStep, PTL DEF Spec

(***************************************************************************)
(* Evaluations.  A contract in use is what a registry in use binds its     *)
(* token to, and since those only grow the token has one contract for as   *)
(* long as the process lives: the bytes stored for it are the contract's.  *)
(***************************************************************************)

Bound(c) ==
    \E i \in DOMAIN used : \E e \in Entries(used[i]) : e.contract = c /\ Key(e) = Token(c)

\* The audit a record points at is of a call of this tool.
AuditedAt(events, ref, tool) ==
    /\ ref \in DOMAIN events
    /\ events[ref].class = "l4-audit" /\ events[ref].tool = tool
    /\ events[ref].registry = L4.hash

\* A record of an evaluation whose objects are all in the store.
Chained(objects, events, r) ==
    /\ r \in objects /\ r.contract \in objects
    /\ ParseContract(r.contract) /\ r.capability = r.contract.capability
    /\ r.registry = L4.hash /\ AuditedAt(events, r.executionRef, r.capability)
    /\ CheckReasonClass(r)
    /\ r.outcome \in Mapped =>
         /\ r.raw \in objects /\ r.raw # Absent
         /\ r.canonical \in objects /\ r.canonical # Absent
         /\ r.canonical.result = r.result /\ r.result = canonReport(r.raw)
         /\ r.result \in DOMAIN r.contract.mapping
         /\ r.outcome = r.contract.mapping[r.result]

Prepared(t) ==
    /\ Bound(prepared[t]) /\ ParseContract(prepared[t])
    /\ prepared[t].capability = call[t].request.name
    /\ prepared[t].registry = L4.hash /\ Authorizing = L4.hash

InCall(t) ==
    /\ pc[t] \in Places \ {"turn", "failed"} => call[t].raw \in store
    /\ (pc[t] = "audit" /\ refusal[t] = "") \/ pc[t] = "evaluate" => Prepared(t)
    /\ pc[t] = "evaluate" => AuditedAt(log[t], Len(log[t]), call[t].request.name)
    /\ pc[t] = "commit" => Chained(store, log[t], evaluation[t])

OnRecord(t) ==
    /\ \A i \in Evaluations(t) :
         /\ Chained(store, log[t], log[t][i].record)
         /\ log[t][i].contract = Token(log[t][i].record.contract)
         /\ log[t][i].outcome = log[t][i].record.outcome
    /\ stored[t] # {} => log[t] # << >>
    /\ pc[t] # "failed" =>
         \A k \in stored[t] : \E c \in store : Bound(c) /\ Token(c) = k

\* The latest outcome of a token is that of the last event that has it.
IsLatest(t) ==
    /\ verifState[t] = [k \in DOMAIN verifState[t] |-> verifState[t][k]]
    /\ DOMAIN verifState[t] = {log[t][i].contract : i \in Evaluations(t)}
    /\ \A k \in DOMAIN verifState[t] : \E i \in Evaluations(t) :
         /\ log[t][i].contract = k /\ log[t][i].outcome = verifState[t][k]
         /\ \A j \in Evaluations(t) : log[t][j].contract = k => j <= i

EvaluationInv ==
    RegistryInv /\ \A t \in Tasks : InCall(t) /\ OnRecord(t) /\ IsLatest(t)

\* A token has one contract among the registries in use.
LEMMA OneContract ==
  ASSUME RegistryInv, NEW c, NEW d, Bound(c), Bound(d), Token(c) = Token(d)
  PROVE  c = d
  <1>1. ASSUME NEW i \in DOMAIN used, NEW j \in DOMAIN used, i <= j,
               NEW e \in Entries(used[i]), NEW f \in Entries(used[j]), Key(e) = Key(f)
        PROVE  e.contract = f.contract
    <2>1. PICK g \in Entries(used[j]) : Key(g) = Key(e) /\ g.contract = e.contract
      <3>1. CASE i = j
        BY <3>1
      <3>2. CASE i # j
        <4>1. i < j
          BY <1>1, <3>2, Appended DEF RegistryInv, TypeOK
        <4> QED BY <4>1 DEF RegistryInv, UsedRegistriesGrow
      <3> QED BY <3>1, <3>2
    <2>2. LoadRegistry(used[j])
      BY DEF RegistryInv, Loads
    <2>3. g = f
      BY <1>1, <2>1, <2>2 DEF LoadRegistry, Entries
    <2> QED BY <2>1, <2>3
  <1>2. PICK i \in DOMAIN used : \E e \in Entries(used[i]) : Key(e) = Token(c) /\ e.contract = c
    BY DEF Bound
  <1>3. PICK j \in DOMAIN used : \E e \in Entries(used[j]) : Key(e) = Token(d) /\ e.contract = d
    BY DEF Bound
  <1>4. i <= j \/ j <= i
    BY Appended DEF RegistryInv, TypeOK
  <1> QED BY <1>1, <1>2, <1>3, <1>4

\* What a registry that loads resolves a reference to.
LEMMA ResolveIs ==
  ASSUME NEW r, LoadRegistry(r), NEW c, Refuses(r, c) = ""
  PROVE  LET k == ResolvedContract(r, c.ref, disk) IN
         /\ ParseContract(k) /\ k.capability = c.name /\ k.registry = L4.hash
         /\ \E e \in Entries(r) : Key(e) = Token(k) /\ e.contract = k
  <1> DEFINE key   == <<c.ref.name, c.ref.version>>
             named == {e \in Entries(r) : Key(e) = key}
             entry == CHOOSE e \in named : TRUE
             other == CHOOSE e \in Entries(r) : Key(e) = key
             k     == ResolvedContract(r, c.ref, disk)
  <1>1. Resolve(r, c.ref, disk) = "" /\ k.capability = c.name
    BY DEF Refuses
  <1>2. named # {}
    BY <1>1 DEF Resolve
  <1>3. entry \in Entries(r) /\ Key(entry) = key
    BY <1>2
  <1>4. other \in Entries(r) /\ Key(other) = key
    BY <1>3
  <1>5. other = entry
    BY <1>3, <1>4 DEF LoadRegistry, Entries
  <1>6. k = disk[other.path]
    BY DEF ResolvedContract
  <1>7. LET d == disk[entry.path] IN
        /\ ParseContract(d) /\ d = entry.contract /\ <<d.name, d.version>> = Key(entry)
        /\ VerifierEligible(d.capability, d.registry)
    BY <1>1, <1>2 DEF Resolve
  <1> QED BY <1>1, <1>3, <1>5, <1>6, <1>7 DEF VerifierEligible, Token

\* What a stage decides: a class of its outcome's reasons, or the mapping.
Decides(v, c, facts) ==
    \/ v[1] = "UNAVAILABLE" /\ v[2] \in Unavailable
    \/ v[1] = "INVALID" /\ v[2] \in Invalid
    \/ /\ v[1] = c.mapping[facts.result] /\ v[1] \in Mapped /\ v[2] = ""
       /\ facts.result \in DOMAIN c.mapping
       /\ facts.canonical # Absent /\ facts.raw # Absent

LEMMA StageIs ==
  ASSUME NEW c, ParseContract(c), NEW refs, NEW facts
  PROVE  Decides(Stage(c, refs, facts), c, facts)
  <1> DEFINE v == Stage(c, refs, facts)
  <1>1. \/ v = <<"INVALID", "evidence-inadmissible">>
        \/ v = <<"UNAVAILABLE", "evidence-unresolvable">>
        \/ v = <<"UNAVAILABLE", "execution-unavailable">>
        \/ v = <<"UNAVAILABLE", "no-canonical-result">>
        \/ v = <<"INVALID", "provenance-incomplete">>
        \/ v = <<"INVALID", "config-mismatch">>
        \/ v = <<"INVALID", "result-out-of-mapping">>
        \/ /\ v = <<c.mapping[facts.result], "">>
           /\ facts.result \in DOMAIN c.mapping
           /\ facts.canonical # Absent /\ facts.raw # Absent
    BY DEF Stage
  <1>2. facts.result \in DOMAIN c.mapping => c.mapping[facts.result] \in Mapped
    BY DEF ParseContract
  <1> HIDE DEF v
  <1>3. \A a, b : <<a, b>>[1] = a /\ <<a, b>>[2] = b
    OBVIOUS
  <1>4. ASSUME \E why \in Unavailable : v = <<"UNAVAILABLE", why>> PROVE Decides(v, c, facts)
    BY <1>3, <1>4 DEF Decides
  <1>5. ASSUME \E why \in Invalid : v = <<"INVALID", why>> PROVE Decides(v, c, facts)
    BY <1>3, <1>5 DEF Decides
  <1>6. ASSUME v = <<c.mapping[facts.result], "">>, facts.result \in DOMAIN c.mapping,
               facts.canonical # Absent, facts.raw # Absent
        PROVE  Decides(v, c, facts)
    BY <1>2, <1>3, <1>6 DEF Decides
  <1>7. /\ {"evidence-unresolvable", "execution-unavailable", "no-canonical-result"}
             \subseteq Unavailable
        /\ {"evidence-inadmissible", "provenance-incomplete", "config-mismatch",
            "result-out-of-mapping"} \subseteq Invalid
    BY DEF Unavailable, Invalid
  <1>8. \/ \E why \in Unavailable : v = <<"UNAVAILABLE", why>>
        \/ \E why \in Invalid : v = <<"INVALID", why>>
        \/ /\ v = <<c.mapping[facts.result], "">>
           /\ facts.result \in DOMAIN c.mapping
           /\ facts.canonical # Absent /\ facts.raw # Absent
    BY <1>1, <1>7
  <1>9. Decides(v, c, facts)
    BY <1>4, <1>5, <1>6, <1>8
  <1> QED BY <1>9 DEF v

LEMMA EvaluateIs ==
  ASSUME NEW c, ParseContract(c), NEW refs, NEW facts
  PROVE  LET r == Evaluate(c, refs, facts) IN
         /\ r.contract = c /\ r.capability = c.capability /\ r.registry = c.registry
         /\ r.executionRef = facts.executionRef /\ CheckReasonClass(r)
         /\ r.outcome \in Mapped =>
              /\ r.raw = facts.raw /\ r.raw # Absent
              /\ r.canonical = facts.canonical /\ r.canonical # Absent
              /\ r.result = facts.result /\ r.result \in DOMAIN c.mapping
              /\ r.outcome = c.mapping[r.result]
  <1> DEFINE r == Evaluate(c, refs, facts)
             v == Stage(c, refs, facts)
             reached == v[2] \notin Unavailable \cup {"evidence-inadmissible"}
  <1>1. /\ r.contract = c /\ r.capability = c.capability /\ r.registry = c.registry
        /\ r.executionRef = facts.executionRef /\ r.outcome = v[1] /\ r.reason = v[2]
        /\ reached => r.raw = facts.raw /\ r.canonical = facts.canonical /\ r.result = facts.result
    BY DEF Evaluate
  <1> HIDE DEF r
  <1>2. Decides(v, c, facts)
    BY StageIs
  <1> HIDE DEF v
  <1>3. "" \notin Unavailable \cup {"evidence-inadmissible"}
        /\ "UNAVAILABLE" \notin Mapped /\ "INVALID" \notin Mapped
    BY DEF Unavailable, Mapped
  <1>4. CheckReasonClass(r)
    BY <1>1, <1>2 DEF CheckReasonClass, Decides
  <1> QED BY <1>1, <1>2, <1>3, <1>4 DEF r, Decides

LEMMA ReportsAreClassified == \A raw : canonReport(raw) # ""
  BY DEF canonReport

\* The store only grows, a record only gets longer, and registries are only
\* added while no process dies: what a task holds for sure it keeps.
LEMMA BoundGrows ==
  ASSUME RegistryInv, NEW c, Bound(c),
         used' = used \/ \E r : used' = Append(used, r)
  PROVE  Bound(c)'
  <1>1. \A i \in DOMAIN used : i \in DOMAIN used' /\ used'[i] = used[i]
    BY Appended DEF RegistryInv, TypeOK
  <1> QED BY <1>1 DEF Bound

LEMMA ChainedGrows ==
  ASSUME NEW objects, NEW more, objects \subseteq more, NEW events, NEW longer,
         IsSeq(events), longer = events \/ \E e : longer = Append(events, e),
         NEW r, Chained(objects, events, r)
  PROVE  Chained(more, longer, r)
  <1>1. \A i \in DOMAIN events : i \in DOMAIN longer /\ longer[i] = events[i]
    BY Appended
  <1> QED BY <1>1 DEF Chained, AuditedAt

\* A task none of whose state is touched keeps what is known of it.
LEMMA AsideKept ==
  ASSUME EvaluationInv, NEW u \in Tasks, store \subseteq store',
         used' = used \/ \E r : used' = Append(used, r),
         pc'[u] = pc[u], call'[u] = call[u], refusal'[u] = refusal[u],
         prepared'[u] = prepared[u], evaluation'[u] = evaluation[u], log'[u] = log[u],
         stored'[u] = stored[u], verifState'[u] = verifState[u]
  PROVE  InCall(u)' /\ OnRecord(u)' /\ IsLatest(u)'
  <1>1. RegistryInv /\ InCall(u) /\ OnRecord(u) /\ IsLatest(u) /\ IsSeq(log[u])
    BY DEF EvaluationInv, RegistryInv, TypeOK
  <1>2. \A c : Bound(c) => Bound(c)'
    BY <1>1, BoundGrows
  <1>3. \A r : Chained(store, log[u], r) => Chained(store', log[u], r)
    BY <1>1, ChainedGrows
  <1>4. Evaluations(u)' = Evaluations(u)
    BY DEF Evaluations
  <1>5. InCall(u)'
    BY <1>1, <1>2, <1>3 DEF InCall, Prepared
  <1>6. OnRecord(u)'
    BY <1>1, <1>2, <1>3, <1>4 DEF OnRecord
  <1>7. IsLatest(u)'
    BY <1>1, <1>4 DEF IsLatest
  <1> QED BY <1>5, <1>6, <1>7

(***************************************************************************)
(* The steps of a task, for the task itself.                               *)
(***************************************************************************)

LEMMA EvaluationInit == Init => EvaluationInv
  <1> SUFFICES ASSUME Init, NEW t \in Tasks PROVE InCall(t) /\ OnRecord(t) /\ IsLatest(t)
    BY RegistryInit DEF EvaluationInv
  <1>1. /\ pc[t] = "turn" /\ log[t] = << >> /\ stored[t] = {} /\ verifState[t] = << >>
    BY DEF Init
  <1>2. Evaluations(t) = {}
    BY <1>1 DEF Evaluations
  <1>3. IsLatest(t)
    BY <1>1, <1>2 DEF IsLatest
  <1> QED BY <1>1, <1>2, <1>3 DEF InCall, OnRecord, Places

LEMMA HandleKeeps ==
  ASSUME EvaluationInv, NEW t \in Tasks, Handle(t)
  PROVE  InCall(t)' /\ OnRecord(t)' /\ IsLatest(t)'
  <1>1. RegistryInv /\ TypeOK /\ OnRecord(t) /\ IsLatest(t) /\ IsSeq(log[t])
    BY DEF EvaluationInv, RegistryInv, TypeOK
  <1>2. PICK c \in Calls, raw \in Reports :
           /\ call' = [call EXCEPT ![t] = [request |-> c, raw |-> raw]]
           /\ store' = store \cup {raw}
    BY DEF Handle
  <1>3. /\ call'[t].raw = raw /\ raw \in store' /\ store \subseteq store' /\ pc'[t] = "load"
        /\ pc[t] = "turn" /\ UNCHANGED <<log, stored, verifState, used>>
    BY <1>1, <1>2 DEF Handle, evaluator, TypeOK
  <1>4. Evaluations(t)' = Evaluations(t)
    BY <1>3 DEF Evaluations
  <1>5. InCall(t)'
    BY <1>3 DEF InCall
  <1>6. OnRecord(t)'
    <2>1. \A r : Chained(store, log[t], r) => Chained(store', log'[t], r)
      BY <1>1, <1>3, ChainedGrows
    <2>2. \A c_1 : Bound(c_1) => Bound(c_1)'
      BY <1>1, <1>3, BoundGrows
    <2> QED BY <1>1, <1>3, <1>4, <2>1, <2>2 DEF OnRecord
  <1>7. IsLatest(t)'
    BY <1>1, <1>3, <1>4 DEF IsLatest
  <1> QED BY <1>5, <1>6, <1>7

\* A step that touches neither the record nor the store, and adds a registry
\* to those in use at most.
LEMMA RecordKept ==
  ASSUME EvaluationInv, NEW t \in Tasks, UNCHANGED <<log, store, stored, verifState>>,
         used' = used \/ \E r : used' = Append(used, r), pc[t] # "failed"
  PROVE  OnRecord(t)' /\ IsLatest(t)'
  <1>1. RegistryInv /\ OnRecord(t) /\ IsLatest(t)
    BY DEF EvaluationInv
  <1>2. Evaluations(t)' = Evaluations(t)
    BY DEF Evaluations
  <1>3. \A c : Bound(c) => Bound(c)'
    BY <1>1, BoundGrows
  <1>4. OnRecord(t)'
    BY <1>1, <1>2, <1>3 DEF OnRecord
  <1>5. IsLatest(t)'
    BY <1>1, <1>2 DEF IsLatest
  <1> QED BY <1>4, <1>5

LEMMA LoadKeeps ==
  ASSUME EvaluationInv, NEW t \in Tasks, Load(t)
  PROVE  InCall(t)' /\ OnRecord(t)' /\ IsLatest(t)'
  <1>1. TypeOK /\ InCall(t)
    BY DEF EvaluationInv, RegistryInv
  <1>2. /\ pc[t] = "load" /\ UNCHANGED <<log, store, stored, verifState, used, call>>
        /\ (pc'[t] = "audit" /\ refusal'[t] # "") \/ pc'[t] = "check"
    BY <1>1 DEF Load, evaluator, TypeOK
  <1>3. InCall(t)'
    BY <1>1, <1>2 DEF InCall, Places
  <1> QED BY <1>2, <1>3, RecordKept

LEMMA CheckKeeps ==
  ASSUME EvaluationInv, NEW t \in Tasks, Check(t)
  PROVE  InCall(t)' /\ OnRecord(t)' /\ IsLatest(t)'
  <1>1. TypeOK /\ InCall(t)
    BY DEF EvaluationInv, RegistryInv
  <1>2. /\ pc[t] = "check" /\ UNCHANGED <<log, store, stored, verifState, call>>
        /\ pc'[t] = "resolve" /\ used' = Append(used, loaded[t])
    BY <1>1 DEF Check, TypeOK
  <1>3. InCall(t)'
    BY <1>1, <1>2 DEF InCall, Places
  <1> QED BY <1>2, <1>3, RecordKept

LEMMA FailedKeeps ==
  ASSUME EvaluationInv, NEW t \in Tasks, Tampered(t) \/ EvaluatorFails(t)
  PROVE  InCall(t)' /\ OnRecord(t)' /\ IsLatest(t)'
  <1>1. TypeOK
    BY DEF EvaluationInv, RegistryInv
  <1>2. /\ pc[t] \in {"check", "evaluate"} /\ pc'[t] = "failed"
        /\ UNCHANGED <<log, store, stored, verifState, used>>
    BY <1>1 DEF Tampered, EvaluatorFails, evaluator, TypeOK
  <1>3. InCall(t)'
    BY <1>2 DEF InCall, Places
  <1> QED BY <1>2, <1>3, RecordKept

LEMMA ResolveKeeps ==
  ASSUME EvaluationInv, NEW t \in Tasks, ResolveCall(t)
  PROVE  InCall(t)' /\ OnRecord(t)' /\ IsLatest(t)'
  <1> DEFINE c == call[t].request
             k == ResolvedContract(loaded[t], c.ref, disk)
  <1>1. TypeOK /\ InCall(t) /\ RegistryInv
    BY DEF EvaluationInv, RegistryInv
  <1>2. /\ pc[t] = "resolve" /\ UNCHANGED <<log, store, stored, verifState, used, call>>
        /\ pc'[t] = "audit" /\ refusal'[t] = Refuses(loaded[t], c)
        /\ refusal'[t] = "" => prepared'[t] = k
    BY <1>1 DEF ResolveCall, TypeOK
  <1>3. PICK i \in DOMAIN used : loaded[t] = used[i] /\ LoadRegistry(used[i])
    BY <1>1, <1>2 DEF RegistryInv, Loads
  <1>4. ASSUME refusal'[t] = "" PROVE Prepared(t)'
    <2>1. /\ ParseContract(k) /\ k.capability = c.name /\ k.registry = L4.hash
          /\ \E e \in Entries(loaded[t]) : Key(e) = Token(k) /\ e.contract = k
      <3>1. LoadRegistry(loaded[t]) /\ Refuses(loaded[t], c) = ""
        BY <1>2, <1>3, <1>4
      <3> QED BY <3>1, ResolveIs
    <2>2. prepared'[t] = k /\ call' = call /\ used' = used
      BY <1>2, <1>4
    <2>3. Authorizing = L4.hash
      BY <1>1, <1>2 DEF RegistryInv, Loads
    <2> HIDE DEF k
    <2> QED BY <1>3, <2>1, <2>2, <2>3 DEF Prepared, Bound
  <1>5. InCall(t)'
    BY <1>1, <1>2, <1>4 DEF InCall, Places
  <1> QED BY <1>2, <1>5, RecordKept

LEMMA LogGrows ==
  ASSUME TypeOK, NEW t \in Tasks, NEW e, log' = [log EXCEPT ![t] = Append(@, e)]
  PROVE  LET n == Len(log[t]) IN
         /\ log'[t] = Append(log[t], e) /\ IsSeq(log[t]) /\ n \in Nat
         /\ DOMAIN log[t] = 1 .. n /\ DOMAIN log'[t] = 1 .. n + 1 /\ Len(log'[t]) = n + 1
         /\ log'[t][n + 1] = e /\ log'[t] # << >>
         /\ \A i \in 1 .. n : log'[t][i] = log[t][i]
         /\ Evaluations(t) \subseteq 1 .. n
         /\ e.class = "l4-audit" => Evaluations(t)' = Evaluations(t)
         /\ e.class = "l10-verification" => Evaluations(t)' = Evaluations(t) \cup {n + 1}
  <1> DEFINE n == Len(log[t])
  <1>1. log'[t] = Append(log[t], e) /\ IsSeq(log[t])
    BY DEF TypeOK
  <1>2. /\ n \in Nat /\ DOMAIN log[t] = 1 .. n /\ DOMAIN log'[t] = 1 .. n + 1
        /\ log'[t][n + 1] = e /\ log'[t] # << >> /\ Len(log'[t]) = n + 1
        /\ \A i \in 1 .. n : log'[t][i] = log[t][i]
    BY <1>1, Appended
  <1>3. \A i : i \in 1 .. n + 1 <=> i \in 1 .. n \/ i = n + 1
    BY <1>2
  <1>4. Evaluations(t)' = {i \in DOMAIN log'[t] : log'[t][i].class = "l10-verification"}
    BY DEF Evaluations
  <1>5. n + 1 \notin 1 .. n
    BY <1>2
  <1>6. e.class = "l4-audit" => Evaluations(t)' = Evaluations(t)
    BY <1>2, <1>3, <1>4 DEF Evaluations
  <1>7. e.class = "l10-verification" => Evaluations(t)' = Evaluations(t) \cup {n + 1}
    BY <1>2, <1>3, <1>4 DEF Evaluations
  <1>8. Evaluations(t) \subseteq 1 .. n
    BY <1>2 DEF Evaluations
  <1> QED BY <1>1, <1>2, <1>6, <1>7, <1>8

LEMMA AuditKeeps ==
  ASSUME EvaluationInv, NEW t \in Tasks, Audit(t)
  PROVE  InCall(t)' /\ OnRecord(t)' /\ IsLatest(t)'
  <1> DEFINE n == Len(log[t])
             e == [class |-> "l4-audit", tool |-> call[t].request.name,
                   registry |-> Authorizing, refusal |-> refusal[t]]
  <1>1. TypeOK /\ InCall(t) /\ OnRecord(t) /\ IsLatest(t) /\ RegistryInv
    BY DEF EvaluationInv, RegistryInv
  <1>2. /\ pc[t] = "audit" /\ log' = [log EXCEPT ![t] = Append(@, e)]
        /\ UNCHANGED <<store, stored, verifState, used, prepared>>
        /\ \/ refusal[t] = "" /\ pc'[t] = "evaluate" /\ UNCHANGED call
           \/ pc'[t] = "turn"
    BY <1>1 DEF Audit, evaluator, TypeOK
  <1>3. /\ e.class = "l4-audit" /\ e.tool = call[t].request.name /\ e.registry = Authorizing
    OBVIOUS
  <1> HIDE DEF e
  <1>4. /\ log'[t] = Append(log[t], e) /\ IsSeq(log[t]) /\ n \in Nat
        /\ DOMAIN log[t] = 1 .. n /\ DOMAIN log'[t] = 1 .. n + 1 /\ Len(log'[t]) = n + 1
        /\ log'[t][n + 1] = e /\ log'[t] # << >>
        /\ \A i \in 1 .. n : log'[t][i] = log[t][i]
        /\ Evaluations(t) \subseteq 1 .. n /\ Evaluations(t)' = Evaluations(t)
    BY <1>1, <1>2, <1>3, LogGrows
  <1>5. \A i \in Evaluations(t) : log'[t][i] = log[t][i]
    BY <1>4
  <1>6. ASSUME pc'[t] = "evaluate" PROVE Prepared(t)' /\ AuditedAt(log'[t], n + 1, call'[t].request.name)
    <2>1. refusal[t] = "" /\ call' = call
      BY <1>2, <1>6
    <2>2. Prepared(t)
      BY <1>1, <1>2, <2>1 DEF InCall
    <2>3. Prepared(t)'
      BY <1>2, <2>1, <2>2 DEF Prepared, Bound
    <2>4. AuditedAt(log'[t], n + 1, call[t].request.name)
      BY <1>3, <1>4, <2>2 DEF AuditedAt, Prepared
    <2> QED BY <2>1, <2>3, <2>4
  <1>7. InCall(t)'
    <2>1. pc'[t] \in {"evaluate", "turn"}
      BY <1>2
    <2>2. pc'[t] = "evaluate" => call'[t].raw \in store'
      BY <1>1, <1>2 DEF InCall, Places
    <2> QED BY <1>4, <1>6, <2>1, <2>2 DEF InCall
  <1>8. OnRecord(t)'
    <2>1. \A r : Chained(store, log[t], r) => Chained(store', log'[t], r)
      BY <1>2, <1>4, ChainedGrows
    <2>2. \A c : Bound(c) => Bound(c)'
      BY <1>1, <1>2, BoundGrows
    <2> QED BY <1>1, <1>2, <1>4, <1>5, <2>1, <2>2 DEF OnRecord
  <1>9. IsLatest(t)'
    <2>1. {log'[t][i].contract : i \in Evaluations(t)} = {log[t][i].contract : i \in Evaluations(t)}
      BY <1>5
    <2>2. Evaluations(t)' = Evaluations(t) /\ verifState'[t] = verifState[t]
      BY <1>2, <1>4
    <2>3. DOMAIN verifState'[t] = {log'[t][i].contract : i \in Evaluations(t)'}
      BY <1>1, <2>1, <2>2 DEF IsLatest
    <2> QED BY <1>1, <1>5, <2>2, <2>3 DEF IsLatest
  <1> QED BY <1>7, <1>8, <1>9

LEMMA EvaluateKeeps ==
  ASSUME EvaluationInv, NEW t \in Tasks, EvaluateCall(t)
  PROVE  InCall(t)' /\ OnRecord(t)' /\ IsLatest(t)'
  <1> DEFINE c == prepared[t]
             raw == call[t].raw
             r == Evaluate(c, Refs(t, c), Facts(t, c))
  <1>1. TypeOK /\ InCall(t) /\ OnRecord(t) /\ IsLatest(t) /\ RegistryInv /\ IsSeq(log[t])
    BY DEF EvaluationInv, RegistryInv, TypeOK
  <1>2. /\ pc[t] = "evaluate" /\ UNCHANGED <<log, verifState, used, call>>
        /\ store' = store \cup Objects(t, c, r)
        /\ stored' = [stored EXCEPT ![t] = @ \cup {Token(c)}]
        /\ evaluation' = [evaluation EXCEPT ![t] = r]
        /\ pc' = [pc EXCEPT ![t] = "commit"]
    <2>1. Held(t).contract = c /\ Held(t).refusal = ""
      BY DEF Held
    <2> HIDE DEF c, r
    <2>2. Evaluate(c, Refs(t, c), Facts(t, c)) = r
      BY DEF r
    <2> QED BY <2>1, <2>2 DEF EvaluateCall
  <1>3. /\ evaluation'[t] = r /\ pc'[t] = "commit"
        /\ stored'[t] = stored[t] \cup {Token(c)}
    BY <1>1, <1>2 DEF TypeOK
  <1>4. Prepared(t) /\ AuditedAt(log[t], Len(log[t]), call[t].request.name) /\ raw \in store
    BY <1>1, <1>2 DEF InCall, Places
  <1>5. /\ Facts(t, c).executionRef = Len(log[t]) /\ Facts(t, c).raw = raw
        /\ Facts(t, c).canonical = Canonical(raw) /\ Facts(t, c).result = canonReport(raw)
        /\ Canonical(raw).size = 1 /\ Canonical(raw).result = canonReport(raw)
    BY DEF Facts, Canonical
  <1>6. /\ r.contract = c /\ r.capability = c.capability /\ r.registry = c.registry
        /\ r.executionRef = Len(log[t]) /\ CheckReasonClass(r)
        /\ r.outcome \in Mapped =>
              /\ r.raw = raw /\ r.raw # Absent
              /\ r.canonical = Canonical(raw) /\ r.canonical # Absent
              /\ r.result = canonReport(raw) /\ r.result \in DOMAIN c.mapping
              /\ r.outcome = c.mapping[r.result]
    BY <1>4, <1>5, EvaluateIs DEF Prepared
  <1>7. /\ r \in store' /\ store \subseteq store' /\ Canonical(raw) \in store'
        /\ Token(c) \notin stored[t] => c \in store'
    BY <1>2, <1>5 DEF Objects
  <1> HIDE DEF r, c
  <1>8. c \in store'
    <2>1. CASE Token(c) \in stored[t]
      <3>1. PICK d \in store : Token(d) = Token(c) /\ Bound(d)
        BY <1>1, <1>2, <2>1 DEF OnRecord
      <3>2. d = c
        BY <1>1, <1>4, <3>1, OneContract DEF Prepared, c
      <3> QED BY <1>7, <3>1, <3>2
    <2>2. CASE Token(c) \notin stored[t]
      BY <1>7, <2>2
    <2> QED BY <2>1, <2>2
  <1>9. Chained(store', log[t], r)
    BY <1>4, <1>5, <1>6, <1>7, <1>8 DEF Chained, Prepared, AuditedAt, c
  <1>10. InCall(t)'
    BY <1>2, <1>3, <1>4, <1>7, <1>9 DEF InCall
  <1>11. Evaluations(t)' = Evaluations(t)
    BY <1>2 DEF Evaluations
  <1>12. OnRecord(t)'
    <2>1. \A x : Chained(store, log[t], x) => Chained(store', log[t], x)
      BY <1>1, <1>7, ChainedGrows
    <2>2. \A x : Bound(x) => Bound(x)'
      BY <1>1, <1>2, BoundGrows
    <2>3. log[t] # << >>
      BY <1>4, NoMembers DEF AuditedAt
    <2>4. \A k \in stored'[t] : \E x \in store' : Token(x) = k /\ Bound(x)'
      <3>1. Bound(c)
        BY <1>4 DEF Prepared, c
      <3> QED BY <1>1, <1>2, <1>3, <1>7, <1>8, <2>2, <3>1 DEF OnRecord
    <2> QED BY <1>1, <1>2, <1>11, <2>1, <2>3, <2>4 DEF OnRecord
  <1>13. IsLatest(t)'
    BY <1>1, <1>2, <1>11 DEF IsLatest
  <1> QED BY <1>10, <1>12, <1>13

LEMMA CommitKeeps ==
  ASSUME EvaluationInv, NEW t \in Tasks, Commit(t)
  PROVE  InCall(t)' /\ OnRecord(t)' /\ IsLatest(t)'
  <1> DEFINE n == Len(log[t])
             r == evaluation[t]
             K == Token(r.contract)
             e == [class |-> "l10-verification", record |-> r,
                   contract |-> Token(r.contract), outcome |-> r.outcome]
  <1>1. TypeOK /\ InCall(t) /\ OnRecord(t) /\ IsLatest(t) /\ RegistryInv
    BY DEF EvaluationInv, RegistryInv
  <1>2. /\ pc[t] = "commit" /\ log' = [log EXCEPT ![t] = Append(@, e)]
        /\ UNCHANGED <<store, stored, used>> /\ pc'[t] = "turn"
        /\ verifState'[t] = [k \in DOMAIN verifState[t] \cup {K} |->
                               IF k = K THEN r.outcome ELSE verifState[t][k]]
    BY <1>1 DEF Commit, evaluator, TypeOK
  <1>3. /\ e.class = "l10-verification" /\ e.record = r /\ e.contract = K
        /\ e.outcome = r.outcome
    OBVIOUS
  <1> HIDE DEF e, K, r
  <1>4. /\ log'[t] = Append(log[t], e) /\ IsSeq(log[t]) /\ n \in Nat
        /\ DOMAIN log[t] = 1 .. n /\ log'[t][n + 1] = e /\ log'[t] # << >>
        /\ \A i \in 1 .. n : log'[t][i] = log[t][i]
        /\ Evaluations(t) \subseteq 1 .. n /\ Evaluations(t)' = Evaluations(t) \cup {n + 1}
    BY <1>1, <1>2, <1>3, LogGrows
  <1>5. \A i \in Evaluations(t) : log'[t][i] = log[t][i] /\ i <= n + 1
    BY <1>4
  <1>6. \A x : Chained(store, log[t], x) => Chained(store', log'[t], x)
    BY <1>2, <1>4, ChainedGrows
  <1>7. Chained(store, log[t], r)
    BY <1>1, <1>2 DEF InCall, r
  <1>8. InCall(t)'
    BY <1>2 DEF InCall
  <1>9. OnRecord(t)'
    <2>1. \A c : Bound(c) => Bound(c)'
      BY <1>1, <1>2, BoundGrows
    <2>2. ASSUME NEW i \in Evaluations(t)'
          PROVE  /\ Chained(store', log'[t], log'[t][i].record)
                 /\ log'[t][i].contract = Token(log'[t][i].record.contract)
                 /\ log'[t][i].outcome = log'[t][i].record.outcome
      <3>1. CASE i \in Evaluations(t)
        BY <1>1, <1>5, <1>6, <3>1 DEF OnRecord
      <3>2. CASE i = n + 1
        BY <1>3, <1>4, <1>6, <1>7, <3>2 DEF K
      <3> QED BY <1>4, <3>1, <3>2
    <2>3. pc[t] # "failed"
      BY <1>2
    <2> QED BY <1>1, <1>2, <1>4, <2>1, <2>2, <2>3 DEF OnRecord
  <1>10. IsLatest(t)'
    <2> DEFINE new == verifState'[t]
    <2>1. DOMAIN new = DOMAIN verifState[t] \cup {K}
          /\ new = [k \in DOMAIN new |-> new[k]]
          /\ new[K] = r.outcome
          /\ \A k \in DOMAIN verifState[t] : k # K => new[k] = verifState[t][k]
      BY <1>2
    <2> HIDE DEF new
    <2>2. DOMAIN new = {log'[t][i].contract : i \in Evaluations(t)'}
      <3>1. DOMAIN verifState[t] = {log[t][i].contract : i \in Evaluations(t)}
        BY <1>1 DEF IsLatest
      <3> QED BY <1>3, <1>4, <1>5, <2>1, <3>1
    <2>3. ASSUME NEW k \in DOMAIN new
          PROVE  \E i \in Evaluations(t)' :
                   /\ log'[t][i].contract = k /\ log'[t][i].outcome = new[k]
                   /\ \A j \in Evaluations(t)' : log'[t][j].contract = k => j <= i
      <3>1. CASE k = K
        BY <1>3, <1>4, <1>5, <2>1, <3>1
      <3>2. CASE k # K
        <4>1. PICK i \in Evaluations(t) :
                 /\ log[t][i].contract = k /\ log[t][i].outcome = verifState[t][k]
                 /\ \A j \in Evaluations(t) : log[t][j].contract = k => j <= i
          BY <1>1, <2>1, <3>2 DEF IsLatest
        <4> QED BY <1>3, <1>4, <1>5, <2>1, <3>2, <4>1
      <3> QED BY <3>1, <3>2
    <2> QED BY <2>1, <2>2, <2>3 DEF IsLatest, new
  <1> QED BY <1>8, <1>9, <1>10

LEMMA RestartKeeps ==
  ASSUME EvaluationInv, Restart, NEW t \in Tasks
  PROVE  InCall(t)' /\ OnRecord(t)' /\ IsLatest(t)'
  <1>1. OnRecord(t) /\ IsLatest(t)
    BY DEF EvaluationInv
  <1>2. /\ UNCHANGED <<log, store, stored, verifState>>
        /\ pc'[t] = "failed" \/ (pc'[t] = "turn" /\ log[t] = << >>)
    BY DEF Restart
  <1>3. Evaluations(t)' = Evaluations(t)
    BY <1>2 DEF Evaluations
  <1>4. InCall(t)'
    BY <1>2 DEF InCall
  <1>5. OnRecord(t)'
    BY <1>1, <1>2, <1>3 DEF OnRecord
  <1>6. IsLatest(t)'
    BY <1>1, <1>2, <1>3 DEF IsLatest
  <1> QED BY <1>4, <1>5, <1>6

LEMMA EvaluationStep == EvaluationInv /\ [Next]_vars => EvaluationInv'
  <1> SUFFICES ASSUME EvaluationInv, [Next]_vars PROVE EvaluationInv'
    OBVIOUS
  <1>1. RegistryInv /\ TypeOK
    BY DEF EvaluationInv, RegistryInv
  <1>2. RegistryInv'
    BY <1>1, RegistryStep
  <1> SUFFICES ASSUME NEW u \in Tasks PROVE InCall(u)' /\ OnRecord(u)' /\ IsLatest(u)'
    BY <1>2 DEF EvaluationInv
  <1>3. CASE OperatorStep
    BY <1>3, AsideKept DEF OperatorStep
  <1>4. CASE Restart
    BY <1>4, RestartKeeps
  <1>5. CASE UNCHANGED vars
    BY <1>5, AsideKept DEF vars
  <1>6. ASSUME NEW t \in Tasks, TaskStep(t) PROVE InCall(u)' /\ OnRecord(u)' /\ IsLatest(u)'
    <2>1. CASE u = t
      BY <1>6, <2>1, HandleKeeps, LoadKeeps, CheckKeeps, FailedKeeps, ResolveKeeps, AuditKeeps,
         EvaluateKeeps, CommitKeeps DEF TaskStep
    <2>2. CASE u # t
      <3> DEFINE Aside == /\ store \subseteq store'
                          /\ used' = used \/ \E r : used' = Append(used, r)
                          /\ pc'[u] = pc[u] /\ call'[u] = call[u] /\ refusal'[u] = refusal[u]
                          /\ prepared'[u] = prepared[u] /\ evaluation'[u] = evaluation[u]
                          /\ log'[u] = log[u] /\ stored'[u] = stored[u]
                          /\ verifState'[u] = verifState[u]
      <3>1. Aside
        <4>1. CASE Handle(t)
          BY <1>1, <2>2, <4>1 DEF Handle, evaluator, TypeOK
        <4>2. CASE Load(t)
          BY <1>1, <2>2, <4>2 DEF Load, evaluator, TypeOK
        <4>3. CASE Check(t)
          BY <1>1, <2>2, <4>3 DEF Check, TypeOK
        <4>4. CASE Tampered(t)
          BY <1>1, <2>2, <4>4 DEF Tampered, evaluator, TypeOK
        <4>5. CASE ResolveCall(t)
          BY <1>1, <2>2, <4>5 DEF ResolveCall, TypeOK
        <4>6. CASE Audit(t)
          BY <1>1, <2>2, <4>6 DEF Audit, evaluator, TypeOK
        <4>7. CASE EvaluateCall(t)
          BY <1>1, <2>2, <4>7 DEF EvaluateCall, TypeOK
        <4>8. CASE EvaluatorFails(t)
          BY <1>1, <2>2, <4>8 DEF EvaluatorFails, TypeOK
        <4>9. CASE Commit(t)
          BY <1>1, <2>2, <4>9 DEF Commit, evaluator, TypeOK
        <4> QED BY <1>6, <4>1, <4>2, <4>3, <4>4, <4>5, <4>6, <4>7, <4>8, <4>9 DEF TaskStep
      <3> QED BY <3>1, AsideKept
    <2> QED BY <2>1, <2>2
  <1> QED BY <1>3, <1>4, <1>5, <1>6 DEF Next

\* What is known of the events is what their reconstruction checks.
LEMMA ChainedReconstructs ==
  ASSUME NEW t \in Tasks, OnRecord(t), NEW i \in Evaluations(t), log[t][i].record.raw.size # 0
  PROVE  ReconstructEvent(t, i)
  <1> DEFINE r == log[t][i].record
  <1>1. /\ Chained(store, log[t], r) /\ log[t][i].contract = Token(r.contract)
        /\ log[t][i].outcome = r.outcome
    BY DEF OnRecord
  <1>2. Get(store, r.contract) = r.contract /\ r.contract # Absent
    BY <1>1 DEF Get, Chained, ParseContract
  <1>3. contractAgrees(r, Get(store, r.contract))
    BY <1>1, <1>2 DEF contractAgrees, Chained
  <1>4. r.outcome \in Mapped =>
          chainAgrees(r, Get(store, r.contract), Get(store, r.raw), Get(store, r.canonical))
    BY <1>1, <1>2 DEF Chained, chainAgrees, Get, Missing
  <1>5. Reconstruct(r, Get(store, r.contract), Get(store, r.raw), Get(store, r.canonical))
    BY <1>3, <1>4 DEF Reconstruct
  <1> QED BY <1>1, <1>5 DEF ReconstructEvent, Chained, AuditedAt

\* The history view is what the walk remembers.
LEMMA LatestIsRemembered ==
  ASSUME NEW t \in Tasks, TypeOK, IsLatest(t)
  PROVE  Latest(t) = verifState[t]
  <1> DEFINE last(k) == CHOOSE i \in Evaluations(t) :
                          /\ log[t][i].contract = k
                          /\ \A j \in Evaluations(t) : log[t][j].contract = k => j <= i
  <1>1. Evaluations(t) \subseteq Int
    <2>1. DOMAIN log[t] = 1 .. Len(log[t])
      BY Appended DEF TypeOK
    <2> QED BY <2>1 DEF Evaluations
  <1>2. ASSUME NEW k \in DOMAIN verifState[t] PROVE log[t][last(k)].outcome = verifState[t][k]
    <2>1. PICK i \in Evaluations(t) :
             /\ log[t][i].contract = k /\ log[t][i].outcome = verifState[t][k]
             /\ \A j \in Evaluations(t) : log[t][j].contract = k => j <= i
      BY DEF IsLatest
    <2>2. /\ last(k) \in Evaluations(t) /\ log[t][last(k)].contract = k
          /\ \A j \in Evaluations(t) : log[t][j].contract = k => j <= last(k)
      BY <2>1
    <2> HIDE DEF last
    <2>3. last(k) <= i /\ i <= last(k)
      BY <2>1, <2>2
    <2>4. last(k) = i
      BY <1>1, <2>2, <2>3
    <2> QED BY <2>1, <2>4
  <1>3. Latest(t) = [k \in {log[t][i].contract : i \in Evaluations(t)} |-> log[t][last(k)].outcome]
    BY Zenon DEF Latest
  <1>4. Latest(t) = [k \in DOMAIN verifState[t] |-> log[t][last(k)].outcome]
    BY <1>3 DEF IsLatest
  <1> HIDE DEF last
  <1>5. [k \in DOMAIN verifState[t] |-> log[t][last(k)].outcome]
          = [k \in DOMAIN verifState[t] |-> verifState[t][k]]
    BY <1>2
  <1> QED BY <1>4, <1>5 DEF IsLatest

\* Every committed evaluation is derived again from the objects of the store,
\* though a contract's bytes are stored once per token: registries in use keep
\* their bindings, so the bytes kept for a token are those of the contract any
\* later call of the process was evaluated under.  The history view agrees with
\* what the walk holds its obligations against.
THEOREM RecordsReconstruct == Spec => []EvaluationsReconstruct
  <1>1. EvaluationInv => EvaluationsReconstruct
    <2> SUFFICES ASSUME EvaluationInv, NEW t \in Tasks
                 PROVE  /\ \A i \in Evaluations(t) :
                             /\ CheckReasonClass(log[t][i].record)
                             /\ log[t][i].record.raw.size = 0 \/ ReconstructEvent(t, i)
                        /\ Latest(t) = verifState[t]
      BY DEF EvaluationsReconstruct
    <2>1. OnRecord(t) /\ IsLatest(t) /\ TypeOK
      BY DEF EvaluationInv, RegistryInv
    <2>2. \A i \in Evaluations(t) : CheckReasonClass(log[t][i].record)
      BY <2>1 DEF OnRecord, Chained
    <2> QED BY <2>1, <2>2, ChainedReconstructs, LatestIsRemembered
  <1> QED BY <1>1, EvaluationInit, EvaluationStep, PTL DEF Spec

(***************************************************************************)
(* Refusals.  The audit of a call and what the model is told of it are one *)
(* step, so the pairing of the two lists grows by a pair or not at all.    *)
(***************************************************************************)

Pairs(events, messages, at) ==
    /\ at \in [RefusedIn(messages) -> Refusals(events)]
    /\ \A i \in Refusals(events) : \E j \in RefusedIn(messages) : at[j] = i
    /\ \A j, k \in RefusedIn(messages) : j < k => at[j] < at[k]
    /\ \A j \in RefusedIn(messages) : messages[j][2] = events[at[j]].refusal

Paired(events, messages) == \E at : Pairs(events, messages, at)

\* L is l and one member more, x, at the place a.
Grown(l, x, L, a) ==
    /\ L[a] = x /\ \A i \in DOMAIN l : L[i] = l[i]
    /\ DOMAIN l \subseteq Nat /\ a \in Nat /\ a \notin DOMAIN l /\ \A i \in DOMAIN l : i < a
    /\ \A i : i \in DOMAIN L <=> i \in DOMAIN l \/ i = a

\* Where the appended member is, and that the others stay where they were.
LEMMA AppendedLast ==
  ASSUME NEW s, IsSeq(s), NEW x
  PROVE  Grown(s, x, Append(s, x), Len(s) + 1)
  <1> DEFINE n == Len(s)
             a == Append(s, x)
  <1>1. /\ n \in Nat /\ DOMAIN s = 1 .. n /\ DOMAIN a = 1 .. n + 1 /\ a[n + 1] = x
        /\ \A i \in 1 .. n : a[i] = s[i]
    BY Appended
  <1> HIDE DEF n, a
  <1>2. /\ 1 .. n \subseteq Nat /\ n + 1 \in Nat /\ n + 1 \notin 1 .. n
        /\ \A i \in 1 .. n : i < n + 1
        /\ \A i : i \in 1 .. n + 1 <=> i \in 1 .. n \/ i = n + 1
    BY <1>1
  <1>3. Grown(s, x, a, n + 1)
    BY <1>1, <1>2 DEF Grown
  <1> QED BY <1>3 DEF n, a

\* An event that is no refusal and a message of none pair nothing.
LEMMA PairedAside ==
  ASSUME NEW l, IsSeq(l), NEW x, ~ (x.class = "l4-audit" /\ x.refusal # "")
  PROVE  Refusals(Append(l, x)) = Refusals(l)
  <1> DEFINE L == Append(l, x)
             a == Len(l) + 1
  <1>1. Grown(l, x, L, a)
    BY AppendedLast, Zenon
  <1> HIDE DEF L, a
  <1>2. Refusals(L) = Refusals(l)
    BY <1>1, Zenon DEF Refusals, Grown
  <1> QED BY <1>2 DEF L

LEMMA EventAside ==
  ASSUME NEW l, IsSeq(l), NEW m, NEW x, ~ (x.class = "l4-audit" /\ x.refusal # ""),
         Paired(l, m)
  PROVE  Paired(Append(l, x), m)
  <1>1. PICK at : Pairs(l, m, at)
    BY DEF Paired
  <1>2. Refusals(Append(l, x)) = Refusals(l)
    BY PairedAside
  <1>3. \A i \in Refusals(l) : Append(l, x)[i] = l[i]
    <2>1. Grown(l, x, Append(l, x), Len(l) + 1)
      BY AppendedLast, Zenon
    <2> QED BY ONLY <2>1, Zenon DEF Refusals, Grown
  <1>4. Pairs(Append(l, x), m, at)
    BY <1>1, <1>2, <1>3 DEF Pairs
  <1> QED BY <1>4 DEF Paired

LEMMA MessageAside ==
  ASSUME NEW l, NEW m, IsSeq(m), NEW y, y[1] # "refused", Paired(l, m)
  PROVE  Paired(l, Append(m, y))
  <1>1. PICK at : Pairs(l, m, at)
    BY DEF Paired
  <1> DEFINE M == Append(m, y)
             b == Len(m) + 1
  <1>2. Grown(m, y, M, b)
    BY AppendedLast, Zenon
  <1> HIDE DEF M, b
  <1>3. RefusedIn(M) = RefusedIn(m)
    BY <1>2, Zenon DEF RefusedIn, Grown
  <1>4. \A j \in RefusedIn(m) : M[j] = m[j]
    BY <1>2, Zenon DEF RefusedIn, Grown
  <1>5. Pairs(l, M, at)
    BY <1>1, <1>3, <1>4 DEF Pairs
  <1> QED BY <1>5 DEF Paired, M

\* A refusal that is appended is a refusal more, on record or told.
LEMMA GrownRefusals ==
  ASSUME NEW l, NEW x, NEW L, NEW a, Grown(l, x, L, a)
  PROVE  /\ x.class = "l4-audit" /\ x.refusal # "" =>
              Refusals(L) = Refusals(l) \cup {a} /\ a \notin Refusals(l)
         /\ x[1] = "refused" =>
              RefusedIn(L) = RefusedIn(l) \cup {a} /\ a \notin RefusedIn(l)
  <1>1. L[a] = x /\ a \notin DOMAIN l /\ \A i \in DOMAIN l : L[i] = l[i]
    BY DEF Grown
  <1>2. \A i : i \in DOMAIN L <=> i \in DOMAIN l \/ i = a
    BY DEF Grown
  <1>3. ASSUME x.class = "l4-audit", x.refusal # ""
        PROVE  Refusals(L) = Refusals(l) \cup {a} /\ a \notin Refusals(l)
    BY <1>1, <1>2, <1>3 DEF Refusals
  <1>4. ASSUME x[1] = "refused"
        PROVE  RefusedIn(L) = RefusedIn(l) \cup {a} /\ a \notin RefusedIn(l)
    BY <1>1, <1>2, <1>4 DEF RefusedIn
  <1> QED BY <1>3, <1>4

\* A refusal on record and the same refusal told are a pair more.
LEMMA PairMore ==
  ASSUME NEW l, IsSeq(l), NEW m, IsSeq(m), NEW x, x.class = "l4-audit", x.refusal # "",
         NEW y, y[1] = "refused", y[2] = x.refusal, Paired(l, m)
  PROVE  Paired(Append(l, x), Append(m, y))
  <1> DEFINE L == Append(l, x)
             M == Append(m, y)
             a == Len(l) + 1
             b == Len(m) + 1
  <1>1. PICK at : Pairs(l, m, at)
    BY DEF Paired
  <1>2. Grown(l, x, L, a) /\ Grown(m, y, M, b)
    BY AppendedLast, Zenon
  <1> HIDE DEF L, M, a, b
  <1>3. /\ L[a] = x /\ \A i \in DOMAIN l : L[i] = l[i]
        /\ DOMAIN l \subseteq Nat /\ a \in Nat /\ \A i \in DOMAIN l : i < a
        /\ \A i : i \in DOMAIN L <=> i \in DOMAIN l \/ i = a
        /\ M[b] = y /\ \A i \in DOMAIN m : M[i] = m[i]
        /\ DOMAIN m \subseteq Nat /\ b \in Nat /\ \A i \in DOMAIN m : i < b
        /\ \A i : i \in DOMAIN M <=> i \in DOMAIN m \/ i = b
    BY <1>2, Zenon DEF Grown
  <1>4. Refusals(L) = Refusals(l) \cup {a} /\ a \notin Refusals(l)
    BY <1>2, GrownRefusals, Zenon
  <1>5. RefusedIn(M) = RefusedIn(m) \cup {b} /\ b \notin RefusedIn(m)
    BY <1>2, GrownRefusals, Zenon
  <1>6. /\ \A i \in Refusals(l) : L[i] = l[i] /\ i < a /\ i \in Nat
        /\ \A j \in RefusedIn(m) : M[j] = m[j] /\ j < b /\ j \in Nat
    BY <1>2, <1>3 DEF Refusals, RefusedIn
  <1> DEFINE next == [j \in RefusedIn(M) |-> IF j = b THEN a ELSE at[j]]
  <1>7. next[b] = a /\ \A j \in RefusedIn(m) : next[j] = at[j] /\ at[j] \in Refusals(l)
    BY <1>1, <1>5 DEF Pairs
  <1>8. next \in [RefusedIn(M) -> Refusals(L)]
    BY <1>1, <1>4, <1>5 DEF Pairs
  <1> HIDE DEF next
  <1>9. ASSUME NEW i \in Refusals(L) PROVE \E j \in RefusedIn(M) : next[j] = i
    <2>1. CASE i = a
      BY <1>5, <1>7, <2>1, Zenon
    <2>2. CASE i # a
      <3>1. PICK j \in RefusedIn(m) : at[j] = i
        BY <1>1, <1>4, <2>2, Zenon DEF Pairs
      <3> QED BY <1>5, <1>7, <3>1, Zenon
    <2> QED BY <2>1, <2>2
  <1>10. ASSUME NEW j \in RefusedIn(M), NEW k \in RefusedIn(M), j < k
         PROVE  next[j] < next[k]
    <2>1. j # b
      <3>1. b \in Nat /\ (k = b \/ (k \in Nat /\ k < b))
        BY ONLY <1>3, <1>5, <1>6, k \in RefusedIn(M), Zenon
      <3> QED BY ONLY <1>10, <3>1
    <2>2. CASE k = b
      BY <1>5, <1>6, <1>7, <2>1, <2>2
    <2>3. CASE k # b
      BY <1>1, <1>5, <1>7, <1>10, <2>1, <2>3 DEF Pairs
    <2> QED BY <2>2, <2>3
  <1>11. ASSUME NEW j \in RefusedIn(M) PROVE M[j][2] = L[next[j]].refusal
    <2>1. CASE j = b
      BY <1>2, <1>3, <1>7, <2>1
    <2>2. CASE j # b
      <3>1. j \in RefusedIn(m)
        BY <1>5, <2>2
      <3>2. M[j] = m[j] /\ next[j] = at[j] /\ L[at[j]] = l[at[j]]
        BY <1>6, <1>7, <3>1
      <3>3. m[j][2] = l[at[j]].refusal
        BY <1>1, <3>1 DEF Pairs
      <3> QED BY <3>2, <3>3
    <2> QED BY <2>1, <2>2
  <1>12. Pairs(L, M, next)
    BY <1>8, <1>9, <1>10, <1>11 DEF Pairs
  <1> QED BY <1>12 DEF Paired, L, M

RefusalInv == TypeOK /\ \A t \in Tasks : Paired(log[t], told[t])

LEMMA RefusalInit == Init => RefusalInv
  <1> SUFFICES ASSUME Init PROVE RefusalInv
    OBVIOUS
  <1>1. \A t \in Tasks : log[t] = << >> /\ told[t] = << >>
    BY DEF Init
  <1>2. Refusals(<< >>) = {} /\ RefusedIn(<< >>) = {}
    BY DEF Refusals, RefusedIn
  <1>3. Pairs(<< >>, << >>, [j \in {} |-> j])
    BY <1>2 DEF Pairs
  <1> QED BY <1>1, <1>3, TypeInit DEF RefusalInv, Paired

LEMMA RefusalStep == RefusalInv /\ [Next]_vars => RefusalInv'
  <1> SUFFICES ASSUME RefusalInv, [Next]_vars PROVE RefusalInv'
    OBVIOUS
  <1>1. TypeOK /\ TypeOK'
    BY TypeStep DEF RefusalInv
  <1> SUFFICES ASSUME NEW u \in Tasks PROVE Paired(log[u], told[u])'
    BY <1>1 DEF RefusalInv
  <1>2. /\ Paired(log[u], told[u]) /\ IsSeq(log[u]) /\ IsSeq(told[u])
        /\ DOMAIN log = Tasks /\ DOMAIN told = Tasks
    BY DEF RefusalInv, TypeOK
  <1>3. ASSUME UNCHANGED <<log, told>> PROVE Paired(log[u], told[u])'
    BY <1>2, <1>3
  <1>4. ASSUME NEW t \in Tasks, Audit(t) PROVE Paired(log[u], told[u])'
    <2> DEFINE x == [class |-> "l4-audit", tool |-> call[t].request.name,
                     registry |-> Authorizing, refusal |-> refusal[t]]
               y == <<"refused", refusal[t]>>
    <2>1. /\ log' = [log EXCEPT ![t] = Append(log[t], x)]
          /\ IF refusal[t] = "" THEN told' = told
             ELSE told' = [told EXCEPT ![t] = Append(told[t], y)]
      BY <1>4 DEF Audit
    <2>2. x.class = "l4-audit" /\ x.refusal = refusal[t] /\ y[1] = "refused" /\ y[2] = refusal[t]
      OBVIOUS
    <2> HIDE DEF x, y
    <2>3. CASE u # t
      BY <1>2, <2>1, <2>3
    <2>4. CASE u = t /\ refusal[t] = ""
      <3>1. log'[u] = Append(log[u], x) /\ told'[u] = told[u]
        BY <1>2, <2>1, <2>4
      <3> QED BY <1>2, <2>2, <2>4, <3>1, EventAside
    <2>5. CASE u = t /\ refusal[t] # ""
      <3>1. log'[u] = Append(log[u], x) /\ told'[u] = Append(told[u], y)
        BY <1>2, <2>1, <2>5
      <3> QED BY <1>2, <2>2, <2>5, <3>1, PairMore
    <2> QED BY <2>3, <2>4, <2>5
  <1>5. ASSUME NEW t \in Tasks, EvaluateCall(t) PROVE Paired(log[u], told[u])'
    BY <1>3, <1>5 DEF EvaluateCall, Held
  <1>6. ASSUME NEW t \in Tasks, Commit(t) PROVE Paired(log[u], told[u])'
    <2> DEFINE ev == evaluation[t]
               x == [class |-> "l10-verification", record |-> ev,
                     contract |-> Token(ev.contract), outcome |-> ev.outcome]
               y == <<"verified", ev.outcome>>
    <2>1. /\ log' = [log EXCEPT ![t] = Append(log[t], x)]
          /\ told' = [told EXCEPT ![t] = Append(told[t], y)]
      BY <1>6 DEF Commit
    <2>2. x.class # "l4-audit" /\ y[1] # "refused"
      OBVIOUS
    <2> HIDE DEF x, y
    <2>3. CASE u # t
      BY <1>2, <2>1, <2>3
    <2>4. CASE u = t
      <3>1. log'[u] = Append(log[u], x) /\ told'[u] = Append(told[u], y)
        BY <1>2, <2>1, <2>4
      <3>2. Paired(Append(log[u], x), told[u])
        BY <1>2, <2>2, EventAside
      <3> QED BY <1>2, <2>2, <3>1, <3>2, MessageAside
    <2> QED BY <2>3, <2>4
  <1>7. CASE OperatorStep \/ Restart
    BY <1>3, <1>7 DEF OperatorStep, Restart
  <1>8. ASSUME NEW t \in Tasks,
               \/ Handle(t) \/ Load(t) \/ Check(t) \/ Tampered(t) \/ ResolveCall(t)
               \/ EvaluatorFails(t)
        PROVE  Paired(log[u], told[u])'
    BY <1>3, <1>8 DEF Handle, Load, Check, Tampered, ResolveCall, EvaluatorFails
  <1>9. CASE UNCHANGED vars
    BY <1>3, <1>9 DEF vars
  <1> QED BY <1>4, <1>5, <1>6, <1>7, <1>8, <1>9 DEF Next, TaskStep

\* A model is told of exactly the refusals on its record, in their order and
\* verbatim, though the registry may have been rewritten since it refused.
THEOREM RefusalsAreVerbatim == Spec => []RefusalsAreRecorded
  <1>1. RefusalInv => RefusalsAreRecorded
    BY DEF RefusalInv, Paired, Pairs, RefusalsAreRecorded
  <1> QED BY <1>1, RefusalInit, RefusalStep, PTL DEF Spec

=============================================================================
