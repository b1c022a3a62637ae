------------------------- MODULE DurableStateProofs -------------------------
(***************************************************************************)
(* Machine-checked proofs about the durable record, for every set of       *)
(* objects and every bound.  The argument is ownership of the committed    *)
(* frontier: at any moment either a writer with an unbroken stream or the  *)
(* cold recovery knows exactly what the stream holds, and only the owner   *)
(* appends.                                                                *)
(***************************************************************************)
EXTENDS StartupSweep, SequenceTheorems, WellFoundedInduction, TLAPS

\* A writer with an unbroken stream holds the whole committed stream, and no
\* torn bytes follow it.  A recovery can have parsed the stream meanwhile, but
\* an open handle is registered, so the gate will refuse it.
WriterOwnsFrontier ==
    /\ pc # "none" => dir /\ rpc \in {"none", "gate"}
    /\ rpc = "gate" => pc \in {"none", "idle"}
    /\ pc = "idle" => live
    /\ pc \in {"flag", "project"} /\ op.kind # "create" => live
    /\ pc \in {"create", "flag", "project", "register"} => ~broken
    /\ pc # "none" /\ ~broken => tail = 0 /\ chain = log
    /\ pc = "create" => log = <<>>

\* What the writer believes about the record's status is its last decision,
\* except between the commit of a decision and its projection.
WriterKnowsDecision ==
    /\ pc = "create" => mem.status = "CREATED"
    /\ pc \in {"idle", "register"} /\ ~broken => LastIs(log, mem.status)
    /\ pc \notin {"flag", "project"} => op = NoOp
    /\ pc \in {"flag", "project"} =>
         /\ op # NoOp
         /\ op.ev.seq + 1 \in DOMAIN log /\ log[op.ev.seq + 1] = op.ev
         /\ LastIs(log, IF op.kind = "transition" THEN op.ev.to ELSE mem.status)

\* A running recovery parsed the whole committed stream, and has cut off the
\* torn tail before it appends.
RecoveryOwnsFrontier ==
    /\ rpc # "none" => dir
    /\ rpc \notin {"none", "gate"} => pc = "none"
    /\ rpc \notin {"none", "reconcile"} => rec.events = log
    /\ rpc \in {"gate", "tail", "fill", "truncate"} => rec.tail = tail
    /\ rpc \in {"load", "decide", "partial", "reconcile"} => tail = 0
    /\ rpc = "decide" =>
         rec.man \in Manifest /\ statusExplained(rec.man.status, log)
    /\ rpc = "partial" =>
         /\ rec.man \in Manifest
         /\ \E st \in {"CREATED", "RUNNING"} : LastIs(log, st)
    /\ rpc = "reconcile" =>
         rec.man \in Manifest /\ \E st \in Statuses : LastIs(rec.events, st)

NothingBeforeCreation == ~dir => log = <<>> /\ tail = 0 /\ pc = "none"

\* Every stream begins with a decision, so every stream has a last one.
DecisionExists == log # <<>> => \E st \in Statuses : LastIs(log, st)

\* What an event refers to was visible when it was appended, and still is.
ReferencesVisible ==
    \A i \in DOMAIN log : log[i].ref # None => log[i].ref \in objects

StreamInv ==
    /\ OneAppender /\ LegalLifecycle /\ DecisionExists
    /\ AckedEventsSurvive /\ ReferencesVisible

IInv ==
    /\ TypeOK /\ StreamInv
    /\ NothingBeforeCreation
    /\ WriterOwnsFrontier /\ WriterKnowsDecision /\ RecoveryOwnsFrontier

-----------------------------------------------------------------------------
(* Facts about streams. *)

LEMMA AppendFacts ==
    ASSUME NEW S, NEW s \in Seq(S), NEW e \in S
    PROVE  /\ Append(s, e) \in Seq(S)
           /\ Len(Append(s, e)) = Len(s) + 1
           /\ DOMAIN Append(s, e) = 1 .. Len(s) + 1
           /\ Append(s, e)[Len(s) + 1] = e
           /\ \A i \in 1 .. Len(s) : Append(s, e)[i] = s[i]
    OBVIOUS

LEMMA LastIsUnique ==
    ASSUME NEW evs \in Seq(Event), NEW a, NEW b, LastIs(evs, a), LastIs(evs, b)
    PROVE  a = b
<1>1. PICK i \in 1 .. Len(evs) : /\ IsLifecycle(evs[i]) /\ evs[i].to = a
                                 /\ \A j \in 1 .. Len(evs) : j > i => ~IsLifecycle(evs[j])
  BY DEF LastIs
<1>2. PICK k \in 1 .. Len(evs) : /\ IsLifecycle(evs[k]) /\ evs[k].to = b
                                 /\ \A j \in 1 .. Len(evs) : j > k => ~IsLifecycle(evs[j])
  BY DEF LastIs
<1>3. i = k
  BY <1>1, <1>2
<1> QED
  BY <1>1, <1>2, <1>3

LEMMA LastLifecycleEvent ==
    ASSUME NEW evs \in Seq(Event), NEW st \in Statuses, LastIs(evs, st)
    PROVE  lastLifecycleEvent(evs) = st
<1>1. \E t \in Statuses : LastIs(evs, t)
  OBVIOUS
<1>2. LastIs(evs, CHOOSE t \in Statuses : LastIs(evs, t))
  BY <1>1
<1>3. lastLifecycleEvent(evs) = CHOOSE t \in Statuses : LastIs(evs, t)
  BY <1>1 DEF lastLifecycleEvent
<1> QED
  BY <1>2, <1>3, LastIsUnique

\* Legality of a decision depends only on the stream up to it.
LEMMA DecisionLocal ==
    ASSUME NEW evs \in Seq(Event), NEW new \in Seq(Event), NEW j \in Nat,
           j <= Len(evs), j <= Len(new), \A i \in 1 .. j : new[i] = evs[i],
           j >= 1, LegalDecision(evs, j)
    PROVE  LegalDecision(new, j)
<1>1. new[j] = evs[j] /\ \A i \in 1 .. j - 1 : new[i] = evs[i]
  OBVIOUS
<1>2. CASE \A i \in 1 .. j - 1 : ~IsLifecycle(evs[i])
  BY <1>1, <1>2 DEF LegalDecision
<1>3. CASE \E i \in 1 .. j - 1 : IsLifecycle(evs[i])
  <2>1. PICK i \in 1 .. j - 1 :
               /\ IsLifecycle(evs[i]) /\ evs[j].to \in legalNext[evs[i].to]
               /\ \A k \in i + 1 .. j - 1 : ~IsLifecycle(evs[k])
    BY <1>3 DEF LegalDecision
  <2>2. /\ IsLifecycle(new[i]) /\ new[j].to \in legalNext[new[i].to]
        /\ \A k \in i + 1 .. j - 1 : ~IsLifecycle(new[k])
    BY <1>1, <2>1
  <2> QED
    BY <2>2 DEF LegalDecision
<1> QED
  BY <1>2, <1>3

\* An event that decides nothing changes neither the walk nor its last step.
LEMMA AppendNoDecision ==
    ASSUME NEW evs \in Seq(Event), LegalWalk(evs),
           NEW e \in Event, ~IsLifecycle(e)
    PROVE  /\ LegalWalk(Append(evs, e))
           /\ \A st : LastIs(evs, st) => LastIs(Append(evs, e), st)
<1> DEFINE new == Append(evs, e)
<1>1. /\ new \in Seq(Event) /\ Len(new) = Len(evs) + 1 /\ Len(evs) \in Nat
      /\ DOMAIN new = 1 .. Len(evs) + 1 /\ DOMAIN evs = 1 .. Len(evs)
      /\ new[Len(evs) + 1] = e /\ \A i \in 1 .. Len(evs) : new[i] = evs[i]
  BY AppendFacts
<1> HIDE DEF new
<1>2. ASSUME NEW j \in DOMAIN new, IsLifecycle(new[j])
      PROVE  LegalDecision(new, j)
  <2>1. j \in 1 .. Len(evs)
    BY <1>1, <1>2
  <2>2. LegalDecision(evs, j)
    BY <1>1, <1>2, <2>1 DEF LegalWalk
  <2> QED
    BY <1>1, <2>1, <2>2, DecisionLocal
<1>3. \A st : LastIs(evs, st) => LastIs(new, st)
  BY <1>1 DEF LastIs
<1> QED
  BY <1>2, <1>3 DEF new, LegalWalk

\* A decision the machine allows extends the walk and becomes its last step.
LEMMA AppendDecision ==
    ASSUME NEW evs \in Seq(Event), LegalWalk(evs),
           NEW e \in Event, IsLifecycle(e),
           \/ e.to = "CREATED" /\ evs = <<>>
           \/ \E st \in Statuses : LastIs(evs, st) /\ e.to \in legalNext[st]
    PROVE  LegalWalk(Append(evs, e)) /\ LastIs(Append(evs, e), e.to)
<1> DEFINE new == Append(evs, e)
<1>1. /\ new \in Seq(Event) /\ Len(new) = Len(evs) + 1 /\ Len(evs) \in Nat
      /\ DOMAIN new = 1 .. Len(evs) + 1 /\ DOMAIN evs = 1 .. Len(evs)
      /\ new[Len(evs) + 1] = e /\ \A i \in 1 .. Len(evs) : new[i] = evs[i]
  BY AppendFacts
<1> HIDE DEF new
<1>2. ASSUME NEW j \in 1 .. Len(evs), IsLifecycle(new[j])
      PROVE  LegalDecision(new, j)
  BY <1>1, <1>2, DecisionLocal DEF LegalWalk
<1>3. LegalDecision(new, Len(evs) + 1)
  <2>1. CASE e.to = "CREATED" /\ evs = <<>>
    BY <1>1, <2>1 DEF LegalDecision
  <2>2. CASE \E st \in Statuses : LastIs(evs, st) /\ e.to \in legalNext[st]
    <3>1. PICK i \in 1 .. Len(evs) :
                 /\ IsLifecycle(evs[i]) /\ e.to \in legalNext[evs[i].to]
                 /\ \A j \in 1 .. Len(evs) : j > i => ~IsLifecycle(evs[j])
      BY <1>1, <2>2 DEF LastIs
    <3>2. /\ IsLifecycle(new[i])
          /\ new[Len(evs) + 1].to \in legalNext[new[i].to]
          /\ \A k \in i + 1 .. Len(evs) : ~IsLifecycle(new[k])
      BY <1>1, <3>1
    <3> QED
      BY <1>1, <3>2 DEF LegalDecision
  <2> QED
    BY <2>1, <2>2
<1>4. LastIs(new, e.to)
  BY <1>1 DEF LastIs
<1> QED
  <2>1. LegalWalk(new)
    BY <1>1, <1>2, <1>3 DEF LegalWalk
  <2> QED
    BY <1>4, <2>1 DEF new

-----------------------------------------------------------------------------
(* One committed event. *)

\* What its owner guarantees of the next event of the stream.
Admissible(e) ==
    /\ e \in Event /\ e.seq = Len(log)
    /\ e.ref = None \/ e.ref \in objects
    /\ IF IsLifecycle(e)
       THEN \/ e.to = "CREATED" /\ log = <<>>
            \/ \E st \in Statuses : LastIs(log, st) /\ e.to \in legalNext[st]
       ELSE \E st \in Statuses : LastIs(log, st)

LEMMA StreamGrows ==
    ASSUME TypeOK, StreamInv, NEW e, Admissible(e), log' = Append(log, e),
           objects \subseteq objects',
           \A f \in acked' : \/ f \in acked
                           \/ f = e
                           \/ (f.seq + 1 \in DOMAIN log /\ log[f.seq + 1] = f)
    PROVE  /\ log' \in Seq(Event) /\ StreamInv'
           /\ e.seq + 1 \in DOMAIN log' /\ log'[e.seq + 1] = e
           /\ \A i \in DOMAIN log : i \in DOMAIN log' /\ log'[i] = log[i]
           /\ IsLifecycle(e) => LastIs(log', e.to)
           /\ ~IsLifecycle(e) => \A st : LastIs(log, st) => LastIs(log', st)
<1>1. log \in Seq(Event) /\ e \in Event
  BY DEF TypeOK, Admissible
<1>2. /\ log' \in Seq(Event) /\ Len(log') = Len(log) + 1 /\ Len(log) \in Nat
      /\ DOMAIN log' = 1 .. Len(log) + 1 /\ DOMAIN log = 1 .. Len(log)
      /\ log'[Len(log) + 1] = e /\ \A i \in 1 .. Len(log) : log'[i] = log[i]
  BY <1>1, AppendFacts
<1>3. /\ LegalLifecycle'
      /\ IsLifecycle(e) => LastIs(log', e.to)
      /\ ~IsLifecycle(e) => \A st : LastIs(log, st) => LastIs(log', st)
  <2>1. LegalWalk(log)
    BY DEF StreamInv, LegalLifecycle
  <2>2. CASE IsLifecycle(e)
    BY <1>1, <2>1, <2>2, AppendDecision DEF Admissible, LegalLifecycle
  <2>3. CASE ~IsLifecycle(e)
    BY <1>1, <2>1, <2>3, AppendNoDecision DEF LegalLifecycle
  <2> QED
    BY <2>2, <2>3
<1>4. e.seq = Len(log)
  BY DEF Admissible
<1>5. OneAppender'
  BY <1>2, <1>4 DEF StreamInv, OneAppender, SeqContiguous
<1>6. DecisionExists'
  <2>1. IsLifecycle(e) => e.to \in Statuses
    BY DEF Admissible, legalNext, Statuses
  <2> QED
    BY <1>3, <2>1 DEF Admissible, DecisionExists
<1>7. AckedEventsSurvive'
  BY <1>2, <1>4 DEF StreamInv, AckedEventsSurvive
<1>8. ReferencesVisible'
  BY <1>2 DEF StreamInv, ReferencesVisible, Admissible
<1> QED
  BY <1>2, <1>3, <1>4, <1>5, <1>6, <1>7, <1>8 DEF StreamInv

\* A step that leaves the stream alone may acknowledge an event it holds.
LEMMA StreamKept ==
    ASSUME StreamInv, log' = log, objects \subseteq objects',
           \A e \in acked' \ acked : e.seq + 1 \in DOMAIN log /\ log[e.seq + 1] = e
    PROVE  StreamInv'
  BY DEF StreamInv, OneAppender, LegalLifecycle, DecisionExists,
         AckedEventsSurvive, ReferencesVisible

-----------------------------------------------------------------------------
(* The writer's steps. *)

\* What every step of the writer relies on: the handle owns the stream.
LEMMA WriterFacts ==
    ASSUME IInv, pc # "none", ~broken
    PROVE  /\ tail = 0 /\ chain = log /\ Len(chain) = Len(log)
           /\ dir /\ log \in Seq(Event) /\ Len(log) \in Nat
  BY DEF IInv, WriterOwnsFrontier, TypeOK

\* Both outcomes of an append by the writer, whatever the operation.
\* A committed event of an operation that goes on to "flag", "project" or idle.
LEMMA OperationCommits ==
    ASSUME IInv, rpc = "none", pc \in {"create", "idle", "flag"}, ~broken,
           NEW e, Admissible(e), log' = Append(log, e), chain' = Append(chain, e),
           UNCHANGED <<dir, tail, saved, manifest, objects, tears, live, mem,
                       broken, rpc, rec, faults>>,
           acked' \subseteq acked \cup {e} \cup (IF op = NoOp THEN {} ELSE {op.ev}),
           op = NoOp \/ pc = "flag",
           pc' \in {"idle", "flag", "project"}, op' \in Operations,
           pc' = "idle" \/ op'.kind # "create" => live,
           IF pc' = "idle"
           THEN op' = NoOp /\ LastIs(log', mem.status)
           ELSE /\ op' # NoOp
                /\ op'.ev = e \/ (op' = op /\ pc = "flag")
                /\ LastIs(log', IF op'.kind = "transition" THEN op'.ev.to
                                                          ELSE mem.status)
    PROVE  IInv'
<1>1. /\ tail = 0 /\ chain = log /\ dir
      /\ log \in Seq(Event) /\ Len(log) \in Nat
  BY WriterFacts
<1>2. e \in Event /\ e.seq = Len(log)
  BY DEF Admissible
<1>3. op # NoOp => /\ op.ev \in Event
                   /\ op.ev.seq + 1 \in DOMAIN log /\ log[op.ev.seq + 1] = op.ev
  BY DEF IInv, TypeOK, Operations, WriterKnowsDecision
<1>4. /\ StreamInv' /\ log' \in Seq(Event)
      /\ e.seq + 1 \in DOMAIN log' /\ log'[e.seq + 1] = e
      /\ \A i \in DOMAIN log : i \in DOMAIN log' /\ log'[i] = log[i]
  <2>1. \A f \in acked' : \/ f \in acked
                         \/ f = e
                         \/ (f.seq + 1 \in DOMAIN log /\ log[f.seq + 1] = f)
    <3>1. CASE op = NoOp
      BY <3>1
    <3>2. CASE op # NoOp
      BY <1>3, <3>2
    <3> QED
      BY <3>1, <3>2
  <2>2. TypeOK /\ StreamInv
    BY DEF IInv
  <2> QED
    BY <2>1, <2>2, StreamGrows
<1>5. TypeOK'
  BY <1>1, <1>2, <1>3, <1>4 DEF IInv, TypeOK
<1>6. WriterKnowsDecision'
  <2>1. pc' # "idle" => op'.ev.seq + 1 \in DOMAIN log' /\ log'[op'.ev.seq + 1] = op'.ev
    BY <1>3, <1>4
  <2> QED
    BY <1>4, <2>1 DEF WriterKnowsDecision
<1> QED
  BY <1>1, <1>4, <1>5, <1>6 DEF IInv, NothingBeforeCreation, WriterOwnsFrontier,
     RecoveryOwnsFrontier

\* A failed append of the writer: the stream is terminal whatever landed.
LEMMA OperationFails ==
    ASSUME IInv, rpc = "none", pc \in {"create", "idle", "flag"}, ~broken,
           NEW e, Admissible(e), FailedAppend(e), broken' = TRUE,
           UNCHANGED <<dir, saved, manifest, objects, live, mem, chain, rpc, rec,
                       acked>>,
           faults' \in Nat, pc' \in {"none", "idle"}, op' = NoOp,
           pc' = "idle" => live
    PROVE  IInv'
<1>1. /\ tail = 0 /\ dir
      /\ log \in Seq(Event) /\ Len(log) \in Nat
  BY WriterFacts
<1>2. /\ log' \in Seq(Event) /\ StreamInv' /\ tail' \in Nat /\ tears' \in Nat
  <2>1. CASE log' = Append(log, e) /\ UNCHANGED <<tail, tears>>
    BY <1>1, <2>1, StreamGrows DEF IInv, TypeOK
  <2>2. CASE log' = log /\ tail' \in Nat /\ tears' \in Nat
    BY <1>1, <2>2, StreamKept DEF IInv
  <2> QED
    <3>1. tail \in Nat /\ tears \in Nat
      BY DEF IInv, TypeOK
    <3>2. Landed(e) = Append(log, e)
      BY <1>1 DEF Landed
    <3> QED
      BY <1>1, <2>1, <2>2, <3>1, <3>2 DEF FailedAppend
<1>3. TypeOK'
  BY <1>2 DEF IInv, TypeOK, Operations
<1> QED
  BY <1>1, <1>2, <1>3 DEF IInv, NothingBeforeCreation, WriterOwnsFrontier,
     WriterKnowsDecision, RecoveryOwnsFrontier

\* Both outcomes of AppendLocked, whichever operation calls it.
LEMMA AppendLockedStep ==
    ASSUME IInv, rpc = "none", NEW kind \in {"create", "append", "transition", "bind"}, NEW e,
           AppendLocked(kind, e), ~broken => Admissible(e),
           IF kind = "create" THEN pc = "create" ELSE pc = "idle",
           IF kind \in {"create", "transition"}
           THEN IsLifecycle(e) /\ e.to \in Statuses ELSE ~IsLifecycle(e),
           kind = "create" => e.to = "CREATED",
           kind = "bind" => e.ref \in Objects
    PROVE  IInv'
<1> DEFINE doing == [kind |-> kind, ev |-> e]
<1>1. ~broken /\ Admissible(e)
  BY DEF AppendLocked
<1>2. e \in Event /\ doing \in Operations /\ NoOp \in Operations
  BY <1>1 DEF Admissible, Operations
<1>3. UNCHANGED <<dir, saved, manifest, objects, live, mem, rpc, rec>>
  BY DEF AppendLocked, recovery
<1>4. TypeOK /\ StreamInv /\ log \in Seq(Event) /\ tail = 0
  BY <1>1, WriterFacts DEF IInv
<1>5. op \in Operations /\ faults \in Nat /\ pc \in {"create", "idle"}
  BY DEF IInv, TypeOK
<1>6. kind # "create" => live
  BY DEF IInv, WriterOwnsFrontier
<1>7. CASE \E suspect \in Suspect(kind) :
             /\ log' = Landed(e) /\ chain' = Append(chain, e)
             /\ pc' = IF suspect THEN "flag" ELSE Committed(kind)
             /\ op' = IF pc' = "idle" THEN NoOp ELSE doing
             /\ acked' = IF kind = "append" /\ ~suspect THEN acked \cup {e}
                                                        ELSE acked
             /\ UNCHANGED <<tail, tears, broken, faults>>
  <2>1. /\ log' = Append(log, e) /\ chain' = Append(chain, e)
        /\ pc' \in {"idle", "flag", "project"}
        /\ pc' = "idle" => kind = "append"
        /\ op' = IF pc' = "idle" THEN NoOp ELSE doing
        /\ acked' \subseteq acked \cup {e}
        /\ UNCHANGED <<tail, tears, broken, faults>>
    BY <1>4, <1>7 DEF Landed, Committed
  <2>2. /\ IsLifecycle(e) => LastIs(log', e.to)
        /\ ~IsLifecycle(e) => \A st : LastIs(log, st) => LastIs(log', st)
    BY <1>1, <1>3, <1>4, <2>1, StreamGrows
  <2>3. /\ pc = "idle" => LastIs(log, mem.status)
        /\ pc = "create" => mem.status = "CREATED"
    BY <1>1 DEF IInv, WriterKnowsDecision
  <2>4. LastIs(log', IF kind = "transition" THEN e.to ELSE mem.status)
    BY <2>2, <2>3
  <2>5. doing # NoOp /\ doing.ev = e /\ doing.kind = kind
    BY DEF NoOp
  <2>6. op = NoOp
    BY <1>5 DEF IInv, WriterKnowsDecision
  <2>7. op' \in Operations
    BY <1>2, <2>1
  <2>8. acked' \subseteq acked \cup {e} \cup (IF op = NoOp THEN {} ELSE {op.ev})
    BY <2>1
  <2>9. IF pc' = "idle"
        THEN op' = NoOp /\ LastIs(log', mem.status)
        ELSE /\ op' # NoOp
             /\ op'.ev = e \/ (op' = op /\ pc = "flag")
             /\ LastIs(log', IF op'.kind = "transition" THEN op'.ev.to
                                                       ELSE mem.status)
    BY <2>1, <2>4, <2>5
  <2> HIDE DEF doing
  <2> QED
    <3>1. UNCHANGED <<dir, tail, saved, manifest, objects, tears, live, mem,
                      broken, rpc, rec, faults>>
      BY <1>3, <2>1
    <3>2. pc \in {"create", "idle", "flag"}
      BY <1>5
    <3>3. pc' = "idle" \/ op'.kind # "create" => live
      BY <1>6, <2>1, <2>5
    <3> QED
      BY <1>1, <2>1, <2>6, <2>7, <2>8, <2>9, <3>1, <3>2, <3>3, OperationCommits
<1>8. CASE /\ Fault /\ FailedAppend(e) /\ StreamFails /\ pc' = Abandoned(kind)
           /\ UNCHANGED <<op, chain, acked>>
  <2>1. /\ broken' = TRUE /\ faults' \in Nat /\ pc' \in {"none", "idle"}
        /\ op' = NoOp /\ (pc' = "idle" => live)
    BY <1>5, <1>8, <1>6 DEF Fault, StreamFails, Abandoned, IInv, WriterKnowsDecision
  <2> QED
    BY <1>1, <1>3, <1>5, <1>8, <2>1, OperationFails
<1> QED
  BY <1>7, <1>8 DEF AppendLocked

LEMMA CreatedEventStep == ASSUME IInv, rpc = "none", CreatedEvent PROVE IInv'
<1> DEFINE e == Lifecycle(Len(chain), "CREATED")
<1>1. ~broken /\ pc = "create"
  BY DEF CreatedEvent, AppendLocked
<1>2. /\ Len(chain) = Len(log) /\ Len(log) \in Nat /\ log = <<>>
  BY <1>1, WriterFacts DEF IInv, WriterOwnsFrontier
<1>3. /\ e \in Event /\ e.seq = Len(log) /\ e.ref = None /\ e.to = "CREATED"
      /\ IsLifecycle(e)
  BY <1>2 DEF Lifecycle, Event, Classes, Statuses, IsLifecycle
<1>4. Admissible(e)
  BY <1>2, <1>3 DEF Admissible
<1>5. AppendLocked("create", e)
  BY DEF CreatedEvent
<1> QED
  BY <1>1, <1>3, <1>4, <1>5, AppendLockedStep DEF Statuses

LEMMA AppendEventStep ==
    ASSUME IInv, rpc = "none", NEW ref \in Objects \cup {None}, AppendEvent(ref) PROVE IInv'
<1> DEFINE e == Plain(Len(chain), "work", ref)
<1>1. /\ ~broken /\ pc = "idle" /\ AppendLocked("append", e)
      /\ ref = None \/ ref \in objects
  BY DEF AppendEvent, Ready, AppendLocked, HasObject
<1>2. /\ Len(chain) = Len(log) /\ Len(log) \in Nat
      /\ LastIs(log, mem.status) /\ mem.status \in Statuses
  BY <1>1, WriterFacts DEF IInv, WriterKnowsDecision, TypeOK, Manifest
<1>3. e \in Event /\ e.seq = Len(log) /\ e.ref = ref /\ ~IsLifecycle(e)
  BY <1>2 DEF Plain, Event, Classes, IsLifecycle
<1>4. Admissible(e)
  BY <1>1, <1>2, <1>3 DEF Admissible
<1> QED
  BY <1>1, <1>3, <1>4, AppendLockedStep

LEMMA BindArtifactStep ==
    ASSUME IInv, rpc = "none", NEW addr \in Objects, BindArtifact(addr) PROVE IInv'
<1> DEFINE e == Plain(Len(chain), "artifact-bound", addr)
<1>1. ~broken /\ pc = "idle" /\ AppendLocked("bind", e) /\ addr \in objects
  BY DEF BindArtifact, Ready, AppendLocked, HasObject
<1>2. /\ Len(chain) = Len(log) /\ Len(log) \in Nat
      /\ LastIs(log, mem.status) /\ mem.status \in Statuses
  BY <1>1, WriterFacts DEF IInv, WriterKnowsDecision, TypeOK, Manifest
<1>3. e \in Event /\ e.seq = Len(log) /\ e.ref = addr /\ ~IsLifecycle(e)
  BY <1>2 DEF Plain, Event, Classes, IsLifecycle
<1>4. Admissible(e)
  BY <1>1, <1>2, <1>3 DEF Admissible
<1> QED
  BY <1>1, <1>3, <1>4, AppendLockedStep

LEMMA TransitionStep ==
    ASSUME IInv, rpc = "none", NEW to \in Statuses, Transition(to) PROVE IInv'
<1> DEFINE e == Lifecycle(Len(chain), to)
<1>1. /\ ~broken /\ pc = "idle" /\ AppendLocked("transition", e)
      /\ to \in legalNext[mem.status]
  BY DEF Transition, Ready, AppendLocked
<1>2. /\ Len(chain) = Len(log) /\ Len(log) \in Nat
      /\ LastIs(log, mem.status) /\ mem.status \in Statuses
  BY <1>1, WriterFacts DEF IInv, WriterKnowsDecision, TypeOK, Manifest
<1>3. e \in Event /\ e.seq = Len(log) /\ e.ref = None /\ e.to = to /\ IsLifecycle(e)
  BY <1>2 DEF Lifecycle, Event, Classes, IsLifecycle
<1>4. Admissible(e)
  BY <1>1, <1>2, <1>3 DEF Admissible
<1> QED
  BY <1>1, <1>3, <1>4, AppendLockedStep

LEMMA FlagContaminationStep == ASSUME IInv, rpc = "none", FlagContamination PROVE IInv'
<1> DEFINE e == Plain(Len(chain), "contamination", None)
<1>1. pc = "flag" /\ ~broken /\ op # NoOp /\ op \in Operations
  BY DEF FlagContamination, IInv, WriterOwnsFrontier, WriterKnowsDecision, TypeOK
<1>2. /\ Len(chain) = Len(log) /\ Len(log) \in Nat /\ tail = 0
      /\ LastIs(log, IF op.kind = "transition" THEN op.ev.to ELSE mem.status)
  BY <1>1, WriterFacts DEF IInv, WriterKnowsDecision
<1>3. /\ mem.status \in Statuses
      /\ op.kind = "transition" => op.ev.to \in Statuses
      /\ op.kind \in {"create", "append", "transition", "bind"}
  BY <1>1 DEF IInv, TypeOK, Manifest, Operations, NoOp
<1>4. e \in Event /\ e.seq = Len(log) /\ e.ref = None /\ ~IsLifecycle(e)
  BY <1>2 DEF Plain, Event, Classes, IsLifecycle
<1>5. Admissible(e)
  BY <1>2, <1>3, <1>4 DEF Admissible
<1>6. UNCHANGED <<dir, saved, manifest, objects, live, mem, rpc, rec>>
  BY DEF FlagContamination, recovery
<1>7. CASE /\ log' = Landed(e) /\ chain' = Append(chain, e)
           /\ pc' = Committed(op.kind)
           /\ op' = IF pc' = "idle" THEN NoOp ELSE op
           /\ acked' = IF op.kind = "append" THEN acked \cup {op.ev} ELSE acked
           /\ UNCHANGED <<tail, tears, broken, faults>>
  <2>1. /\ log' = Append(log, e)
        /\ pc' \in {"idle", "project"}
        /\ pc' = "idle" <=> op.kind = "append"
    BY <1>2, <1>7 DEF Landed, Committed
  <2>2. LastIs(log', IF op.kind = "transition" THEN op.ev.to ELSE mem.status)
    <3>1. \A f \in acked' : \/ f \in acked
                           \/ f = e
                           \/ (f.seq + 1 \in DOMAIN log /\ log[f.seq + 1] = f)
      BY <1>1, <1>7 DEF IInv, WriterKnowsDecision
    <3>2. TypeOK /\ StreamInv
      BY DEF IInv
    <3> HIDE DEF e
    <3> QED
      BY <1>2, <1>4, <1>5, <1>6, <2>1, <3>1, <3>2, StreamGrows
  <2>3. /\ op' \in Operations
        /\ acked' \subseteq acked \cup {e} \cup (IF op = NoOp THEN {} ELSE {op.ev})
        /\ UNCHANGED <<dir, tail, saved, manifest, objects, tears, live, mem,
                       broken, rpc, rec, faults>>
    BY <1>1, <1>6, <1>7 DEF Operations
  <2>4. IF pc' = "idle"
        THEN op' = NoOp /\ LastIs(log', mem.status)
        ELSE /\ op' # NoOp
             /\ op'.ev = e \/ (op' = op /\ pc = "flag")
             /\ LastIs(log', IF op'.kind = "transition" THEN op'.ev.to
                                                       ELSE mem.status)
    BY <1>1, <1>7, <2>1, <2>2
  <2>5. pc' = "idle" \/ op'.kind # "create" => live
    BY <1>1, <1>7, <2>1 DEF IInv, WriterOwnsFrontier, NoOp
  <2> HIDE DEF e
  <2> QED
    BY <1>1, <1>5, <1>7, <2>1, <2>3, <2>4, <2>5, OperationCommits
<1>8. CASE /\ Fault /\ FailedAppend(e) /\ StreamFails
           /\ pc' = Abandoned(op.kind) /\ op' = NoOp
           /\ UNCHANGED <<chain, acked>>
  <2>1. /\ broken' = TRUE /\ faults' \in Nat /\ pc' \in {"none", "idle"}
        /\ pc' = "idle" => live
    BY <1>1, <1>8 DEF Fault, StreamFails, Abandoned, IInv, TypeOK,
       WriterOwnsFrontier
  <2> HIDE DEF e
  <2> QED
    BY <1>1, <1>5, <1>6, <1>8, <2>1, OperationFails
<1> QED
  BY <1>7, <1>8 DEF FlagContamination

LEMMA FreshFacts ==
    /\ FreshManifest \in Manifest /\ FreshManifest.status = "CREATED"
    /\ <<>> \in Seq(Event) /\ NoOp \in Operations
<1>1. <<>> \in Seq(Event) /\ <<>> \in Seq(Objects)
  OBVIOUS
<1> QED
  BY <1>1 DEF FreshManifest, Manifest, Statuses, Operations

LEMMA CreateTaskStep == ASSUME IInv, rpc = "none", CreateTask PROVE IInv'
<1>1. /\ ~dir /\ pc = "none" /\ log = <<>> /\ tail = 0 /\ rpc = "none"
      /\ op = NoOp
  BY DEF CreateTask, IdentityUnused, IInv, NothingBeforeCreation,
     RecoveryOwnsFrontier, WriterKnowsDecision
<1>2. /\ dir' = TRUE /\ pc' = "create" /\ chain' = <<>> /\ broken' = FALSE
      /\ mem' = FreshManifest
      /\ UNCHANGED <<log, tail, saved, manifest, objects, op, live, acked,
                     tears, rpc, rec, faults>>
  BY DEF CreateTask, recovery
<1>3. TypeOK'
  BY <1>2, FreshFacts DEF IInv, TypeOK
<1>4. StreamInv'
  BY StreamKept DEF CreateTask, IInv
<1> QED
  BY <1>1, <1>2, <1>3, <1>4, FreshFacts DEF IInv, NothingBeforeCreation,
     WriterOwnsFrontier, WriterKnowsDecision, RecoveryOwnsFrontier

LEMMA StoreObjectStep ==
    ASSUME IInv, rpc = "none", NEW addr \in Objects, StoreObject(addr) PROVE IInv'
<1>1. TypeOK'
  BY DEF StoreObject, writer, recovery, IInv, TypeOK
<1>2. StreamInv'
  BY StreamKept DEF StoreObject, writer, IInv
<1> QED
  BY <1>1, <1>2 DEF StoreObject, writer, recovery, IInv, NothingBeforeCreation,
     WriterOwnsFrontier, WriterKnowsDecision, RecoveryOwnsFrontier

LEMMA RegisterStep == ASSUME IInv, rpc = "none", Register PROVE IInv'
<1>1. TypeOK'
  BY DEF Register, disk, recovery, IInv, TypeOK
<1>2. StreamInv'
  BY StreamKept DEF Register, disk, IInv
<1> QED
  BY <1>1, <1>2 DEF Register, disk, recovery, IInv, NothingBeforeCreation,
     WriterOwnsFrontier, WriterKnowsDecision, RecoveryOwnsFrontier

LEMMA CloseStep == ASSUME IInv, rpc = "none", Close PROVE IInv'
<1>1. TypeOK'
  <2>1. /\ pc' = "none" /\ op' = NoOp /\ live' = FALSE /\ mem' = FreshManifest
        /\ chain' = <<>> /\ broken' = FALSE
        /\ UNCHANGED <<dir, log, tail, saved, manifest, objects, tears, acked,
                       rpc, rec, faults>>
    BY DEF Close, ForgetHandle, disk, recovery
  <2> QED
    BY <2>1, FreshFacts DEF IInv, TypeOK
<1>2. StreamInv'
  BY StreamKept DEF Close, disk, IInv
<1> QED
  BY <1>1, <1>2 DEF Close, ForgetHandle, disk, recovery, IInv,
     NothingBeforeCreation, WriterOwnsFrontier, WriterKnowsDecision,
     RecoveryOwnsFrontier

\* What an operation projects: the decision it committed, or the status the
\* record had.
LEMMA ProjectionFacts ==
    ASSUME IInv, pc = "project"
    PROVE  /\ Projection \in Manifest
           /\ Projection.status = IF op.kind = "transition" THEN op.ev.to ELSE mem.status
           /\ LastIs(log, Projection.status)
           /\ op.ev \in Event /\ chain = log
<1>1. ~broken /\ chain = log
  BY DEF IInv, WriterOwnsFrontier
<1>2. /\ op # NoOp /\ op \in Operations /\ mem \in Manifest
      /\ chain \in Seq(Event) /\ Len(chain) \in Nat
      /\ op.ev.seq + 1 \in DOMAIN log /\ log[op.ev.seq + 1] = op.ev
      /\ LastIs(log, IF op.kind = "transition" THEN op.ev.to ELSE mem.status)
  BY <1>1 DEF IInv, TypeOK, WriterKnowsDecision
<1>3. /\ op.ev \in Event
      /\ op.kind \in {"create", "append", "transition", "bind"}
      /\ op.kind = "transition" => op.ev.to \in Statuses
      /\ op.kind = "bind" => op.ev.ref \in Objects
  BY <1>2 DEF Operations, NoOp
<1>4. /\ Projection \in Manifest
      /\ Projection.status = IF op.kind = "transition" THEN op.ev.to ELSE mem.status
  <2>1. CASE op.kind = "transition" /\ terminal(op.ev.to)
    <3>1. Projection = [mem EXCEPT !.status = op.ev.to, !.count = Len(chain),
                                   !.sum = chain]
      BY <2>1 DEF Projection
    <3> QED
      BY <1>2, <1>3, <2>1, <3>1 DEF Manifest
  <2>2. CASE op.kind = "transition" /\ ~terminal(op.ev.to)
    <3>1. Projection = [mem EXCEPT !.status = op.ev.to]
      BY <2>2 DEF Projection
    <3> QED
      BY <1>2, <1>3, <2>2, <3>1 DEF Manifest
  <2>3. CASE op.kind = "bind"
    <3>1. Projection = [mem EXCEPT !.arts = Append(mem.arts, op.ev.ref)]
      BY <2>3 DEF Projection
    <3>2. mem.arts \in Seq(Objects) /\ Append(mem.arts, op.ev.ref) \in Seq(Objects)
      BY <1>2, <1>3, <2>3 DEF Manifest
    <3> QED
      BY <1>2, <2>3, <3>1, <3>2 DEF Manifest
  <2>4. CASE op.kind \in {"create", "append"}
    <3>1. Projection = mem
      BY <2>4 DEF Projection
    <3> QED
      BY <1>2, <2>4, <3>1
  <2> QED
    BY <1>3, <2>1, <2>2, <2>3, <2>4
<1> QED
  BY <1>1, <1>2, <1>3, <1>4

LEMMA ProjectStep == ASSUME IInv, rpc = "none", Project PROVE IInv'
<1>1. /\ pc = "project" /\ ~broken /\ tail = 0 /\ chain = log /\ dir
      /\ op.kind # "create" => live
  BY DEF Project, IInv, WriterOwnsFrontier
<1>2. /\ op \in Operations /\ mem \in Manifest /\ log \in Seq(Event)
      /\ op.ev \in Event /\ Projection \in Manifest
      /\ LastIs(log, Projection.status)
  BY <1>1, ProjectionFacts DEF IInv, TypeOK
<1>3. /\ mem' = Projection /\ op' = NoOp /\ manifest' \in {manifest, Projection}
      /\ pc' \in {"none", "idle", "register"} /\ acked' \subseteq acked \cup {op.ev}
      /\ faults' \in Nat /\ (pc' = "idle" => op.kind # "create")
      /\ UNCHANGED <<dir, log, tail, saved, objects, live, chain, broken, tears,
                     rpc, rec>>
  BY DEF Project, recovery, WriteManifest, FailedWriteManifest, Fault, Abandoned,
     IInv, TypeOK
<1>4. TypeOK'
  BY <1>2, <1>3 DEF IInv, TypeOK, Operations
<1>5. StreamInv'
  <2>1. op.ev \in acked \/ (op.ev.seq + 1 \in DOMAIN log /\ log[op.ev.seq + 1] = op.ev)
    BY <1>1 DEF IInv, WriterKnowsDecision
  <2> QED
    BY <1>2, <1>3, <2>1, StreamKept DEF IInv
<1> QED
  BY <1>1, <1>2, <1>3, <1>4, <1>5 DEF IInv, NothingBeforeCreation,
     WriterOwnsFrontier, WriterKnowsDecision, RecoveryOwnsFrontier

-----------------------------------------------------------------------------
(* The steps of recovery, and a crash. *)

\* The types of what a step of recovery reads.
LEMMA RecTyped ==
    ASSUME IInv
    PROVE  /\ rec \in [events : Seq(Event), tail : Nat, man : Manifest \cup {None}]
           /\ NoRec \in [events : Seq(Event), tail : Nat, man : Manifest \cup {None}]
           /\ tail \in Nat /\ faults \in Nat /\ tears \in Nat
           /\ saved \in SUBSET [at : Nat, bytes : Nat]
           /\ log \in Seq(Event) /\ Len(rec.events) \in Nat
  BY DEF IInv, TypeOK, NoRec

LEMMA CrashStep == ASSUME IInv, Crash PROVE IInv'
<1>1. /\ pc' = "none" /\ op' = NoOp /\ live' = FALSE /\ mem' = FreshManifest
      /\ chain' = <<>> /\ broken' = FALSE /\ rpc' = "none" /\ rec' = NoRec
      /\ faults' = faults + 1
      /\ UNCHANGED <<dir, log, tail, saved, manifest, objects, tears, acked>>
  BY DEF Crash, Fault, ForgetHandle, RecoverEnds, disk
<1>2. TypeOK'
  <2>1. /\ faults' \in Nat
        /\ rec' \in [events : Seq(Event), tail : Nat, man : Manifest \cup {None}]
    BY <1>1, RecTyped
  <2> QED
    BY <1>1, <2>1, FreshFacts DEF IInv, TypeOK
<1>3. StreamInv'
  BY <1>1, StreamKept DEF IInv
<1> QED
  BY <1>1, <1>2, <1>3 DEF IInv, NothingBeforeCreation, WriterOwnsFrontier,
     WriterKnowsDecision, RecoveryOwnsFrontier

\* Recovery runs on an existing record, and past the gate without a writer.
LEMMA ColdFacts ==
    ASSUME IInv, rpc # "none"
    PROVE  /\ dir /\ (rpc # "gate" => pc = "none")
           /\ pc # "none" => live
  BY DEF IInv, WriterOwnsFrontier, RecoveryOwnsFrontier

\* What a step of recovery keeps when it appends nothing.
LEMMA RecoveryQuiet ==
    ASSUME IInv, dir, pc # "none" => tail' = tail /\ rpc' \in {"none", "gate"},
           rpc' = "gate" => pc \in {"none", "idle"},
           UNCHANGED <<dir, log, objects, manifest, tears, pc, op, live, mem,
                       chain, broken, acked>>,
           tail' \in Nat, saved' \in SUBSET [at : Nat, bytes : Nat],
           faults' \in Nat,
           rec' \in [events : Seq(Event), tail : Nat, man : Manifest \cup {None}],
           rpc' \in {"none", "gate", "tail", "fill", "truncate", "load", "decide",
                    "partial", "reconcile"},
           RecoveryOwnsFrontier'
    PROVE  IInv'
<1>2. TypeOK'
  BY DEF IInv, TypeOK
<1>3. StreamInv'
  BY StreamKept DEF IInv
<1> QED
  BY <1>2, <1>3 DEF IInv, NothingBeforeCreation, WriterOwnsFrontier,
     WriterKnowsDecision

LEMMA RecoverParseStep == ASSUME IInv, ColdRecovery PROVE IInv'
<1>1. /\ dir /\ pc \in {"none", "idle"} /\ rpc' = "gate"
      /\ rec' = [events |-> log, tail |-> tail, man |-> None]
      /\ UNCHANGED <<dir, log, tail, saved, manifest, objects, tears, pc, op,
                     live, mem, chain, broken, acked, faults>>
  BY DEF ColdRecovery, RecoverParse, disk, writer
<1>2. /\ log \in Seq(Event) /\ tail \in Nat /\ faults \in Nat
      /\ saved \in SUBSET [at : Nat, bytes : Nat]
  BY DEF IInv, TypeOK
<1>3. rec' \in [events : Seq(Event), tail : Nat, man : Manifest \cup {None}]
  BY <1>1, <1>2
<1>4. RecoveryOwnsFrontier'
  BY <1>1 DEF RecoveryOwnsFrontier
<1> QED
  BY <1>1, <1>2, <1>3, <1>4, ColdFacts, RecoveryQuiet

LEMMA RecoverGateStep == ASSUME IInv, RecoverGate PROVE IInv'
<1>1. /\ rpc = "gate" /\ UNCHANGED <<dir, log, tail, saved, manifest, objects,
                          tears, pc, op, live, mem, chain, broken, acked, faults>>
      /\ \/ rpc' = "none" /\ rec' = NoRec
         \/ rpc' \in {"tail", "load"} /\ rec' = rec /\ ~live
            /\ (rpc' = "load" => rec.tail = 0)
  BY DEF RecoverGate, isLive, RecoverEnds, disk, writer
<1>3. dir /\ (pc # "none" => live)
  BY <1>1, ColdFacts
<1>2. RecoveryOwnsFrontier'
  BY <1>1, <1>3, RecTyped DEF RecoveryOwnsFrontier, IInv
<1> QED
  BY <1>1, <1>2, <1>3, RecTyped, ColdFacts, RecoveryQuiet

LEMMA RecoverTornStep ==
    ASSUME IInv, RecoverCreateTorn \/ RecoverFillTorn PROVE IInv'
<1>1. /\ rpc \in {"tail", "fill"} /\ rpc' \in {"none", "fill", "truncate"}
      /\ rec' = IF rpc' = "none" THEN NoRec ELSE rec
      /\ faults' \in Nat
      /\ UNCHANGED <<dir, log, tail, manifest, objects, tears, pc, op, live, mem,
                     chain, broken, acked>>
  BY RecTyped DEF RecoverCreateTorn, RecoverFillTorn, RecoverEnds, writer, Fault
<1>2. saved' \in SUBSET [at : Nat, bytes : Nat]
  BY RecTyped DEF RecoverCreateTorn, RecoverFillTorn
<1>3. RecoveryOwnsFrontier'
  BY <1>1 DEF RecoveryOwnsFrontier, IInv
<1>4. /\ rec' \in [events : Seq(Event), tail : Nat, man : Manifest \cup {None}]
      /\ tail' \in Nat
      /\ rpc # "none"
      /\ rpc' \in {"none", "gate", "tail", "fill", "truncate", "load", "decide",
                   "partial", "reconcile"}
  BY <1>1, RecTyped
<1> QED
  BY <1>1, <1>2, <1>3, <1>4, ColdFacts, RecoveryQuiet

LEMMA RecoverTruncateStep == ASSUME IInv, RecoverTruncate PROVE IInv'
<1>1. /\ rpc = "truncate" /\ rec.events = log
  BY DEF RecoverTruncate, IInv, RecoveryOwnsFrontier
<1>2. log' = log /\ tail' \in {0, tail}
  <2>1. SubSeq(log, 1, Len(log)) = log
    BY RecTyped, SubSeqFull
  <2> QED
    BY <1>1, <2>1 DEF RecoverTruncate, CommittedLen
<1>3. /\ rpc' \in {"none", "load"} /\ rec' = IF rpc' = "none" THEN NoRec ELSE rec
      /\ rpc' = "load" => tail' = 0
      /\ faults' \in Nat
      /\ UNCHANGED <<dir, saved, manifest, objects, tears, pc, op, live, mem,
                     chain, broken, acked>>
  BY RecTyped DEF RecoverTruncate, RecoverEnds, writer, Fault
<1>4. RecoveryOwnsFrontier'
  BY <1>1, <1>2, <1>3 DEF RecoveryOwnsFrontier, IInv
<1> QED
  BY <1>1, <1>2, <1>3, <1>4, RecTyped, ColdFacts, RecoveryQuiet

LEMMA RecoverLoadStep == ASSUME IInv, RecoverLoad PROVE IInv'
<1> DEFINE m == IF manifest = None THEN FreshManifest ELSE manifest
<1>1. /\ rpc = "load" /\ rec.events = log /\ tail = 0 /\ dir /\ pc = "none"
  BY DEF RecoverLoad, IInv, RecoveryOwnsFrontier
<1>2. m \in Manifest
  BY FreshFacts DEF IInv, TypeOK
<1>3. UNCHANGED <<dir, log, tail, saved, manifest, objects, tears, pc, op, live,
                  mem, chain, broken, acked, faults>>
  BY DEF RecoverLoad, disk, writer
<1>4. \/ /\ rec' = [rec EXCEPT !.man = m] /\ rpc' = "decide"
         /\ statusExplained(m.status, log)
      \/ rpc' = "none" /\ rec' = NoRec
  BY <1>1 DEF RecoverLoad, Recoverable, RecoverEnds
<1> HIDE DEF m
<1>5. /\ rec' \in [events : Seq(Event), tail : Nat, man : Manifest \cup {None}]
      /\ rpc' = "decide" => rec'.man = m /\ rec'.events = rec.events
  BY <1>2, <1>4, RecTyped
<1>6. RecoveryOwnsFrontier'
  BY <1>1, <1>2, <1>3, <1>4, <1>5 DEF RecoveryOwnsFrontier
<1> QED
  BY <1>1, <1>3, <1>4, <1>5, <1>6, RecTyped, ColdFacts, RecoveryQuiet

LEMMA RecoverCleanStep == ASSUME IInv, RecoverClean PROVE IInv'
<1>1. /\ rpc = "decide" /\ rpc' = "none" /\ rec' = NoRec
      /\ UNCHANGED <<dir, log, tail, saved, manifest, objects, tears, pc, op, live,
                     mem, chain, broken, acked, faults>>
  BY DEF RecoverClean, RecoverEnds, disk, writer
<1>2. RecoveryOwnsFrontier'
  BY <1>1 DEF RecoveryOwnsFrontier, IInv
<1> QED
  BY <1>1, <1>2, RecTyped, ColdFacts, RecoveryQuiet

\* Both outcomes of an append by recovery.
LEMMA RecoveryAppends ==
    ASSUME IInv, rpc \in {"decide", "partial"}, NEW e, Admissible(e),
           NEW committed \in {"partial", "reconcile"}, NEW events \in Seq(Event),
           RecoverAppend(e, committed, events),
           committed = "partial" =>
             /\ events = Append(log, e)
             /\ \E st \in {"CREATED", "RUNNING"} : LastIs(Append(log, e), st),
           committed = "reconcile" => \E st \in Statuses : LastIs(events, st)
    PROVE  IInv'
<1>1. /\ dir /\ pc = "none" /\ tail = 0 /\ rec.man \in Manifest
      /\ log \in Seq(Event) /\ Landed(e) = Append(log, e)
  BY RecTyped DEF IInv, RecoveryOwnsFrontier, Landed
<1>2. UNCHANGED <<dir, saved, manifest, objects, pc, op, live, mem, chain, broken,
                  acked>>
  BY DEF RecoverAppend, writer
<1>3. log' = Append(log, e) => StreamInv' /\ log' \in Seq(Event)
  BY <1>2, StreamGrows DEF IInv
<1>4. log' = log => StreamInv' /\ log' \in Seq(Event)
  BY <1>1, <1>2, StreamKept DEF IInv
<1>5. CASE /\ log' = Append(log, e) /\ rpc' = committed
           /\ rec' = [rec EXCEPT !.events = events]
           /\ UNCHANGED <<tail, tears, faults>>
  <2>1. /\ rec' \in [events : Seq(Event), tail : Nat, man : Manifest \cup {None}]
        /\ rec'.events = events /\ rec'.man = rec.man
    BY <1>5, RecTyped
  <2>2. TypeOK'
    BY <1>2, <1>3, <1>5, <2>1 DEF IInv, TypeOK
  <2>3. RecoveryOwnsFrontier'
    BY <1>1, <1>2, <1>5, <2>1 DEF RecoveryOwnsFrontier
  <2> QED
    BY <1>1, <1>2, <1>3, <1>5, <2>2, <2>3 DEF IInv, NothingBeforeCreation,
       WriterOwnsFrontier, WriterKnowsDecision
<1>6. CASE Fault /\ FailedAppend(e) /\ RecoverEnds
  <2>1. /\ log' \in {log, Append(log, e)} /\ tail' \in Nat /\ tears' \in Nat
        /\ faults' \in Nat
    BY <1>1, <1>6, RecTyped DEF FailedAppend, Fault
  <2>2. rpc' = "none" /\ rec' = NoRec
    BY <1>6 DEF RecoverEnds
  <2>3. TypeOK'
    <3>1. rec' \in [events : Seq(Event), tail : Nat, man : Manifest \cup {None}]
      BY <2>2, RecTyped
    <3> QED
      BY <1>2, <1>3, <1>4, <2>1, <2>2, <3>1 DEF IInv, TypeOK
  <2> QED
    BY <1>1, <1>2, <1>3, <1>4, <2>1, <2>2, <2>3 DEF IInv, NothingBeforeCreation,
       WriterOwnsFrontier, WriterKnowsDecision, RecoveryOwnsFrontier
<1> QED
  BY <1>1, <1>5, <1>6 DEF RecoverAppend

\* When recovery decides, the stream has a last decision, and a manifest that
\* shows no terminal status is one the last decision does not contradict.
LEMMA DecideFacts ==
    ASSUME IInv, rpc = "decide"
    PROVE  /\ rec.events = log /\ rec.man \in Manifest
           /\ \E st \in Statuses :
                /\ LastIs(log, st)
                /\ ~Unprojected /\ ~terminal(rec.man.status)
                     => st \in {"CREATED", "RUNNING"}
<1>1. /\ rec.events = log /\ rec.man \in Manifest /\ log \in Seq(Event)
      /\ statusExplained(rec.man.status, log)
  BY RecTyped DEF IInv, RecoveryOwnsFrontier
<1>2. log # <<>>
  BY <1>1 DEF statusExplained
<1>3. PICK st \in Statuses : LastIs(log, st)
  BY <1>2 DEF IInv, StreamInv, DecisionExists
<1>4. lastLifecycleEvent(rec.events) = st
  BY <1>1, <1>3, LastLifecycleEvent
<1> QED
  BY <1>1, <1>3, <1>4 DEF Unprojected, terminal, Statuses

LEMMA RecoverEvidenceStep == ASSUME IInv, RecoverEvidence PROVE IInv'
<1> DEFINE e == Plain(Len(rec.events), "recovery", None)
<1>1. /\ rpc = "decide" /\ (Unprojected \/ ~terminal(rec.man.status))
      /\ IF Unprojected
         THEN RecoverAppend(e, "reconcile", rec.events)
         ELSE RecoverAppend(e, "partial", Append(rec.events, e))
  BY DEF RecoverEvidence
<1>2. rec.events = log /\ log \in Seq(Event) /\ Len(log) \in Nat
  BY <1>1, DecideFacts, RecTyped
<1>3. PICK st \in Statuses :
             /\ LastIs(log, st)
             /\ ~Unprojected /\ ~terminal(rec.man.status)
                  => st \in {"CREATED", "RUNNING"}
  BY <1>1, DecideFacts
<1>4. e \in Event /\ e.seq = Len(log) /\ e.ref = None /\ ~IsLifecycle(e)
  BY <1>2 DEF Plain, Event, Classes, IsLifecycle
<1>5. Admissible(e)
  BY <1>3, <1>4 DEF Admissible
<1> HIDE DEF e
<1>6. CASE Unprojected
  BY <1>1, <1>2, <1>3, <1>5, <1>6, RecoveryAppends
<1>7. CASE ~Unprojected
  <2>1. LastIs(Append(log, e), st) /\ Append(log, e) \in Seq(Event)
    BY <1>2, <1>3, <1>4, AppendNoDecision DEF IInv, StreamInv, LegalLifecycle
  <2> QED
    BY <1>1, <1>2, <1>3, <1>5, <1>7, <2>1, RecoveryAppends
<1> QED
  BY <1>6, <1>7

LEMMA RecoverFailedPartialStep == ASSUME IInv, RecoverFailedPartial PROVE IInv'
<1> DEFINE e == Lifecycle(Len(rec.events), "FAILED_PARTIAL")
<1>1. /\ rpc = "partial" /\ RecoverAppend(e, "reconcile", Append(rec.events, e))
  BY DEF RecoverFailedPartial
<1>2. rec.events = log /\ log \in Seq(Event) /\ Len(log) \in Nat
  BY <1>1, RecTyped DEF IInv, RecoveryOwnsFrontier
<1>3. PICK st \in {"CREATED", "RUNNING"} : LastIs(log, st)
  BY <1>1 DEF IInv, RecoveryOwnsFrontier
<1>4. /\ e \in Event /\ e.seq = Len(log) /\ e.ref = None /\ IsLifecycle(e)
      /\ e.to = "FAILED_PARTIAL"
  BY <1>2 DEF Lifecycle, Event, Classes, Statuses, IsLifecycle
<1>5. e.to \in legalNext[st] /\ st \in Statuses
  BY <1>3, <1>4 DEF legalNext, Statuses
<1>6. Admissible(e)
  BY <1>3, <1>4, <1>5 DEF Admissible
<1> HIDE DEF e
<1>7. LastIs(Append(log, e), e.to) /\ Append(log, e) \in Seq(Event)
  BY <1>2, <1>3, <1>4, <1>5, AppendDecision DEF IInv, StreamInv, LegalLifecycle
<1> QED
  BY <1>1, <1>2, <1>4, <1>6, <1>7, RecoveryAppends DEF Statuses

LEMMA RecoverProjectStep == ASSUME IInv, RecoverProject PROVE IInv'
<1>1. /\ rpc = "reconcile" /\ rec.man \in Manifest /\ dir /\ pc = "none"
      /\ tail = 0
  BY DEF RecoverProject, IInv, RecoveryOwnsFrontier
<1>2. PICK st \in Statuses : LastIs(rec.events, st)
  BY <1>1 DEF IInv, RecoveryOwnsFrontier
<1>3. Reconciled \in Manifest
  <2>1. lastLifecycleEvent(rec.events) \in Statuses
    BY <1>2, RecTyped, LastLifecycleEvent
  <2> QED
    BY <1>1, <2>1, RecTyped DEF Reconciled, Manifest
<1>4. /\ manifest' \in {manifest, Reconciled} /\ faults' \in Nat
      /\ rpc' = "none" /\ rec' = NoRec
      /\ UNCHANGED <<dir, log, tail, saved, objects, tears, pc, op, live, mem,
                     chain, broken, acked>>
  BY RecTyped DEF RecoverProject, WriteManifest, FailedWriteManifest, Fault,
     RecoverEnds, writer
<1>5. TypeOK'
  BY <1>3, <1>4, RecTyped DEF IInv, TypeOK
<1>6. StreamInv'
  BY <1>4, StreamKept DEF IInv
<1> QED
  BY <1>1, <1>4, <1>5, <1>6 DEF IInv, NothingBeforeCreation, WriterOwnsFrontier,
     WriterKnowsDecision, RecoveryOwnsFrontier

-----------------------------------------------------------------------------
(* The theorems. *)

LEMMA InitIInv == ASSUME Init PROVE IInv
<1>1. NoRec \in [events : Seq(Event), tail : Nat, man : Manifest \cup {None}]
  BY FreshFacts DEF NoRec
<1>2. TypeOK
  BY <1>1, FreshFacts DEF Init, TypeOK
<1>3. StreamInv
  BY DEF Init, StreamInv, OneAppender, SeqContiguous, LegalLifecycle,
     LegalWalk, DecisionExists, AckedEventsSurvive, ReferencesVisible
<1> QED
  BY <1>2, <1>3 DEF Init, IInv, NothingBeforeCreation, WriterOwnsFrontier,
     WriterKnowsDecision, RecoveryOwnsFrontier

LEMMA NextIInv == ASSUME IInv, [Next]_vars PROVE IInv'
<1>1. CASE rpc = "none" /\ WriterNext
  BY <1>1, CreateTaskStep, CreatedEventStep, AppendEventStep, TransitionStep,
     BindArtifactStep, StoreObjectStep, FlagContaminationStep, ProjectStep,
     RegisterStep, CloseStep DEF WriterNext
<1>2. CASE ColdRecovery
  BY <1>2, RecoverParseStep
<1>3. CASE RecoverSteps
  BY <1>3, RecoverGateStep, RecoverTornStep, RecoverTruncateStep,
     RecoverLoadStep, RecoverCleanStep, RecoverEvidenceStep,
     RecoverFailedPartialStep, RecoverProjectStep DEF RecoverSteps
<1>4. CASE Crash
  BY <1>4, CrashStep
<1>5. CASE UNCHANGED vars
  BY <1>5 DEF vars, IInv, TypeOK, StreamInv, OneAppender, LegalLifecycle,
     DecisionExists, AckedEventsSurvive, ReferencesVisible,
     NothingBeforeCreation, WriterOwnsFrontier, WriterKnowsDecision,
     RecoveryOwnsFrontier
<1> QED
  BY <1>1, <1>2, <1>3, <1>4, <1>5 DEF Next

\* The ownership invariant holds of every reachable state.
THEOREM Ownership == Spec => []IInv
<1>1. Init => IInv
  BY InitIInv
<1>2. IInv /\ [Next]_vars => IInv'
  BY NextIInv
<1> QED
  BY <1>1, <1>2, PTL DEF Spec

\* Every variable of the record keeps its type through writes, faults,
\* crashes and recovery.
THEOREM TypeCorrect == Spec => []TypeOK
<1>1. IInv => TypeOK
  BY DEF IInv
<1> QED
  BY <1>1, Ownership, PTL

\* AppendEvent, Transition and BindArtifact that returned no error are never
\* lost: not by a failed append after them, a crash, or any recovery pass.
THEOREM Durability == Spec => []AckedEventsSurvive
<1>1. IInv => AckedEventsSurvive
  BY DEF IInv, StreamInv
<1> QED
  BY <1>1, Ownership, PTL

\* A refused recovery and an exclusive identity leave every stream one appender:
\* no two entries ever carry the same sequence number.
THEOREM SingleAppender == Spec => []OneAppender
<1>1. IInv => OneAppender
  BY DEF IInv, StreamInv
<1> QED
  BY <1>1, Ownership, PTL

\* The closed lifecycle machine of constitution.go is walked by every stream,
\* whoever appended its decisions.
THEOREM Lawfulness == Spec => []LegalLifecycle
<1>1. IInv => LegalLifecycle
  BY DEF IInv, StreamInv
<1> QED
  BY <1>1, Ownership, PTL

\* Every step leaves the stream as it is or appends one event to it.
LEMMA OneEventAtMost ==
    ASSUME IInv, [Next]_vars
    PROVE  log' = log \/ \E e : log' = Append(log, e)
<1>1. CASE WriterNext
  <2>1. \/ CreateTask \/ CreatedEvent \/ FlagContamination \/ Project
        \/ Register \/ Close
        \/ \E kind, e : AppendLocked(kind, e)
        \/ \E addr : StoreObject(addr)
    BY <1>1 DEF WriterNext, AppendEvent, Transition, BindArtifact
  <2> QED
    BY <2>1 DEF CreateTask, CreatedEvent, FlagContamination, Project, Register,
       Close, AppendLocked, StoreObject, FailedAppend, Landed, disk
<1>2. CASE ColdRecovery \/ Crash \/ UNCHANGED vars
  BY <1>2 DEF ColdRecovery, RecoverParse, Crash, disk, vars
<1>3. CASE RecoverTruncate
  <2>1. CommittedLen = Len(log)
    BY <1>3 DEF RecoverTruncate, CommittedLen, IInv, RecoveryOwnsFrontier
  <2>2. SubSeq(log, 1, Len(log)) = log
    BY RecTyped, SubSeqFull
  <2> QED
    BY <1>3, <2>1, <2>2 DEF RecoverTruncate
<1>4. CASE RecoverSteps /\ ~RecoverTruncate
  BY <1>4 DEF RecoverSteps, RecoverGate, RecoverCreateTorn, RecoverFillTorn,
     RecoverLoad, RecoverClean, RecoverEvidence, RecoverFailedPartial,
     RecoverProject, RecoverAppend, FailedAppend, Landed, disk
<1> QED
  BY <1>1, <1>2, <1>3, <1>4 DEF Next

\* events.log is append-only: recovery's truncation cuts off torn bytes and
\* never a committed entry.
THEOREM StreamAppendOnly == Spec => AppendOnly
<1>1. ASSUME IInv, [Next]_vars
      PROVE  [Len(log) <= Len(log') /\ SubSeq(log', 1, Len(log)) = log]_vars
  <2>1. log \in Seq(Event) /\ log' \in Seq(Event)
    BY <1>1, NextIInv DEF IInv, TypeOK
  <2>2. CASE log' = log
    BY <2>1, <2>2, SubSeqFull
  <2>3. CASE \E e : log' = Append(log, e)
    <3>1. PICK e : log' = Append(log, e)
      BY <2>3
    <3>2. Len(log') = Len(log) + 1 /\ \A i \in 1 .. Len(log) : log'[i] = log[i]
      BY <2>1, <3>1
    <3>3. /\ SubSeq(log', 1, Len(log)) \in Seq(Event)
          /\ Len(SubSeq(log', 1, Len(log))) = Len(log)
          /\ \A i \in 1 .. Len(log) : SubSeq(log', 1, Len(log))[i] = log'[i]
      BY <2>1, <3>2, SubSeqProperties
    <3> QED
      BY <2>1, <3>2, <3>3, SeqEqual
  <2> QED
    BY <1>1, <2>2, <2>3, OneEventAtMost
<1> QED
  BY <1>1, Ownership, PTL DEF Spec, AppendOnly

-----------------------------------------------------------------------------
(* A settled record is final.                                              *)

Settled == manifest # None /\ terminal(manifest.status)

\* The last decision of evs is the last one of the stream, too.
SaysAsMuch(stream, evs) == \A st \in Statuses : LastIs(evs, st) => LastIs(stream, st)

\* Whoever could still write a settled record knows that it is settled: the
\* writer by the status in its handle, recovery by the manifest it loaded,
\* which the stream it parsed explains.
SettledInv ==
    /\ ~dir => manifest = None
    /\ pc \in {"create", "flag", "project", "register"} => ~terminal(mem.status)
    /\ rpc = "decide" => rec.man = IF manifest = None THEN FreshManifest ELSE manifest
    /\ rpc = "reconcile" => SaysAsMuch(log, rec.events)
    /\ Settled =>
         /\ LastIs(log, manifest.status)
         /\ pc \in {"none", "idle"}
         /\ pc = "idle" => terminal(mem.status)
         /\ rpc \notin {"partial", "reconcile"}

\* What a step of the writer does to a record: an open operation, which a
\* settled record has none of and admits none, or nothing that it can see.
LEMMA WriterStep ==
    ASSUME IInv, WriterNext
    PROVE  \/ CreateTask \/ Project \/ Register
           \/ /\ Close \/ (\E addr \in Objects : StoreObject(addr))
              /\ UNCHANGED <<dir, log, manifest, rpc, rec>>
              /\ pc' = "none" \/ (pc = "idle" /\ pc' = "idle" /\ mem' = mem)
           \/ /\ pc \in {"create", "flag"} \/ (pc = "idle" /\ ~terminal(mem.status))
              /\ pc' \in {"none", "idle", "flag", "project"}
              /\ UNCHANGED <<dir, manifest, mem, rpc, rec>>
<1>1. /\ mem.status \in Statuses
      /\ \A st \in Statuses : legalNext[st] # {} => ~terminal(st)
  <2>1. mem.status \in Statuses
    BY DEF IInv, TypeOK, Manifest
  <2> QED
    BY <2>1 DEF legalNext, Statuses, terminal
<1>2. ASSUME NEW kind \in {"create", "append", "transition", "bind"}, NEW e,
             AppendLocked(kind, e)
      PROVE  /\ pc' \in {"none", "idle", "flag", "project"}
             /\ UNCHANGED <<dir, manifest, mem, rpc, rec>>
  BY <1>2 DEF AppendLocked, Committed, Abandoned, recovery
<1>3. CASE CreatedEvent
  BY <1>2, <1>3 DEF CreatedEvent
<1>4. CASE \E ref \in Objects \cup {None} : AppendEvent(ref)
  BY <1>2, <1>4 DEF AppendEvent, Ready, NotTerminal
<1>5. CASE \E to \in Statuses : Transition(to)
  BY <1>1, <1>2, <1>5 DEF Transition, Ready
<1>6. CASE \E addr \in Objects : BindArtifact(addr)
  BY <1>2, <1>6 DEF BindArtifact, Ready, NotTerminal
<1>7. CASE FlagContamination
  BY <1>7 DEF FlagContamination, Committed, Abandoned, recovery
<1>8. CASE Close
  BY <1>8 DEF Close, ForgetHandle, disk, recovery
<1>9. CASE \E addr \in Objects : StoreObject(addr)
  BY <1>9 DEF StoreObject, writer, recovery
<1> QED
  BY <1>3, <1>4, <1>5, <1>6, <1>7, <1>8, <1>9 DEF WriterNext

\* What recovery decides of a settled record: that it is.
LEMMA SettledIsClean ==
    ASSUME IInv, SettledInv, Settled, rpc = "decide"
    PROVE  ~Unprojected /\ terminal(rec.man.status)
<1>1. rec.man = manifest /\ rec.events = log /\ log \in Seq(Event)
  BY RecTyped DEF SettledInv, Settled, IInv, RecoveryOwnsFrontier
<1>2. manifest.status \in Statuses /\ LastIs(log, manifest.status)
  BY DEF SettledInv, Settled, IInv, TypeOK, Manifest
<1>3. lastLifecycleEvent(rec.events) = manifest.status
  BY <1>1, <1>2, LastLifecycleEvent
<1> QED
  BY <1>1, <1>3 DEF Unprojected, Settled

LEMMA SettledStays ==
    ASSUME IInv, SettledInv, Settled, [Next]_vars
    PROVE  UNCHANGED <<log, manifest>>
<1>1. CASE WriterNext
  <2>1. ~CreateTask
    BY DEF CreateTask, IdentityUnused, SettledInv, Settled
  <2>2. ~Project /\ ~Register
    BY DEF Project, Register, SettledInv
  <2> QED
    BY <1>1, <2>1, <2>2, WriterStep DEF SettledInv
<1>2. CASE ColdRecovery \/ Crash \/ UNCHANGED vars
  BY <1>2 DEF ColdRecovery, RecoverParse, Crash, disk, vars
<1>3. CASE RecoverTruncate
  <2>1. CommittedLen = Len(log)
    BY <1>3 DEF RecoverTruncate, CommittedLen, IInv, RecoveryOwnsFrontier
  <2>2. SubSeq(log, 1, Len(log)) = log
    BY RecTyped, SubSeqFull
  <2> QED
    BY <1>3, <2>1, <2>2 DEF RecoverTruncate
<1>4. CASE RecoverGate \/ RecoverCreateTorn \/ RecoverFillTorn \/ RecoverLoad \/ RecoverClean
  BY <1>4 DEF RecoverGate, RecoverCreateTorn, RecoverFillTorn, RecoverLoad,
     RecoverClean, disk
<1>5. ~RecoverEvidence
  BY SettledIsClean DEF RecoverEvidence
<1>6. ~RecoverFailedPartial /\ ~RecoverProject
  BY DEF RecoverFailedPartial, RecoverProject, SettledInv
<1> QED
  BY <1>1, <1>2, <1>3, <1>4, <1>5, <1>6 DEF Next, RecoverSteps

\* A step that leaves stream and manifest alone keeps what is known of them,
\* if the writer keeps its status and recovery has not yet loaded anything.
LEMMA QuietKeepsSettled ==
    ASSUME SettledInv, UNCHANGED <<dir, log, manifest>>,
           pc' = "none" \/ UNCHANGED <<pc, mem>>,
           rpc' \notin {"decide", "partial", "reconcile"} \/ UNCHANGED <<rpc, rec>>
    PROVE  SettledInv'
  BY DEF SettledInv, Settled

\* So does one on a record that is not settled before or after it.
LEMMA UnsettledKeepsSettled ==
    ASSUME ~Settled, manifest' = manifest, manifest = None \/ dir',
           pc' \in {"create", "flag", "project", "register"} => ~terminal(mem'.status),
           rpc' # "decide",
           rpc' = "reconcile" => SaysAsMuch(log', rec'.events)
    PROVE  SettledInv'
  BY DEF SettledInv, Settled

LEMMA WriterKeepsSettled ==
    ASSUME IInv, SettledInv, rpc = "none", WriterNext
    PROVE  SettledInv'
<1>1. CASE CreateTask
  <2>1. /\ manifest = None /\ manifest' = manifest /\ dir' /\ mem'.status = "CREATED"
        /\ rpc' = "none"
    BY <1>1 DEF CreateTask, IdentityUnused, SettledInv, FreshManifest, recovery
  <2> QED
    BY <2>1, UnsettledKeepsSettled DEF Settled, terminal
<1>2. CASE Project
  <2>1. /\ pc = "project" /\ ~Settled /\ ~terminal(mem.status) /\ dir /\ log' = log
        /\ mem' = Projection /\ manifest' \in {manifest, Projection}
        /\ pc' \in {"none", "idle", "register"} /\ pc' = "register" => op.kind = "create"
        /\ op.kind = "transition" => pc' = "idle"
        /\ dir' = dir /\ rpc' = "none"
    BY <1>2 DEF Project, SettledInv, WriteManifest, FailedWriteManifest, Abandoned,
       recovery, IInv, WriterOwnsFrontier
  <2>2. /\ Projection \in Manifest /\ LastIs(log, Projection.status)
        /\ Projection.status = IF op.kind = "transition" THEN op.ev.to ELSE mem.status
    BY <2>1, ProjectionFacts
  <2>3. pc' = "register" => ~terminal(mem'.status)
    BY <2>1, <2>2
  <2>4. Settled' => /\ manifest' = Projection /\ terminal(mem'.status)
                    /\ pc' = "idle"
    BY <2>1, <2>2 DEF Settled
  <2> QED
    BY <2>1, <2>2, <2>3, <2>4 DEF SettledInv
<1>3. CASE Register
  BY <1>3, UnsettledKeepsSettled DEF Register, SettledInv, disk, recovery
<1>4. CASE /\ Close \/ (\E addr \in Objects : StoreObject(addr))
           /\ UNCHANGED <<dir, log, manifest, rpc, rec>>
           /\ pc' = "none" \/ (pc = "idle" /\ pc' = "idle" /\ mem' = mem)
  BY <1>4, QuietKeepsSettled
<1>5. CASE /\ pc \in {"create", "flag"} \/ (pc = "idle" /\ ~terminal(mem.status))
           /\ pc' \in {"none", "idle", "flag", "project"}
           /\ UNCHANGED <<dir, manifest, mem, rpc, rec>>
  <2>1. ~Settled /\ ~terminal(mem.status)
    BY <1>5 DEF SettledInv
  <2>2. manifest = None \/ dir'
    BY <1>5 DEF SettledInv
  <2> QED
    BY <1>5, <2>1, <2>2, UnsettledKeepsSettled
<1> QED
  BY <1>1, <1>2, <1>3, <1>4, <1>5, WriterStep

LEMMA RecoveryKeepsSettled ==
    ASSUME IInv, SettledInv, RecoverSteps
    PROVE  SettledInv'
<1>1. UNCHANGED <<dir, pc, mem>>
  BY DEF RecoverSteps, RecoverGate, RecoverCreateTorn, RecoverFillTorn,
     RecoverTruncate, RecoverLoad, RecoverClean, RecoverEvidence, RecoverFailedPartial,
     RecoverProject, RecoverAppend, disk, writer
<1>2. Settled => UNCHANGED <<log, manifest>>
  BY SettledStays DEF Next
<1>3. CASE RecoverGate \/ RecoverCreateTorn \/ RecoverFillTorn \/ RecoverClean
  <2>1. /\ UNCHANGED <<log, manifest>>
        /\ rpc' \notin {"decide", "partial", "reconcile"}
    BY <1>3 DEF RecoverGate, RecoverCreateTorn, RecoverFillTorn, RecoverClean,
       RecoverEnds, disk
  <2> QED
    BY <1>1, <2>1, QuietKeepsSettled
<1>4. CASE RecoverTruncate
  <2>1. CommittedLen = Len(log) /\ SubSeq(log, 1, Len(log)) = log
    BY <1>4, RecTyped, SubSeqFull
       DEF RecoverTruncate, CommittedLen, IInv, RecoveryOwnsFrontier
  <2>2. UNCHANGED <<log, manifest>> /\ rpc' \notin {"decide", "partial", "reconcile"}
    BY <1>4, <2>1 DEF RecoverTruncate, RecoverEnds
  <2> QED
    BY <1>1, <2>2, QuietKeepsSettled
<1>5. CASE RecoverLoad
  <2> DEFINE m == IF manifest = None THEN FreshManifest ELSE manifest
  <2>1. /\ UNCHANGED <<log, manifest>>
        /\ rpc' \in {"none", "decide"}
        /\ rpc' = "decide" => rec' = [rec EXCEPT !.man = m]
    BY <1>5 DEF RecoverLoad, RecoverEnds, disk
  <2>2. rpc' = "decide" => rec'.man = m
    BY <2>1, RecTyped
  <2> QED
    BY <1>1, <2>1, <2>2 DEF SettledInv, Settled
<1>6. ASSUME NEW e, NEW committed \in {"partial", "reconcile"}, NEW events,
             rpc \in {"decide", "partial"}, ~Settled, tail = 0,
             RecoverAppend(e, committed, events),
             committed = "reconcile" => SaysAsMuch(Append(log, e), events)
      PROVE  SettledInv'
  <2>1. /\ manifest' = manifest /\ rpc' \in {committed, "none"}
        /\ rpc' = committed => /\ log' = Append(log, e)
                               /\ rec' = [rec EXCEPT !.events = events]
    BY <1>6 DEF RecoverAppend, RecoverEnds, Landed
  <2>2. rpc' = "reconcile" => log' = Append(log, e) /\ rec'.events = events
    BY <1>6, <2>1, RecTyped
  <2>3. /\ manifest = None \/ dir'
        /\ pc' = "none"
    BY <1>1, <1>6, ColdFacts
  <2> QED
    BY <1>6, <2>1, <2>2, <2>3, UnsettledKeepsSettled
<1>7. CASE RecoverEvidence
  <2> DEFINE e == Plain(Len(rec.events), "recovery", None)
  <2>1. /\ rpc = "decide" /\ (Unprojected \/ ~terminal(rec.man.status))
        /\ IF Unprojected
           THEN RecoverAppend(e, "reconcile", rec.events)
           ELSE RecoverAppend(e, "partial", Append(rec.events, e))
    BY <1>7 DEF RecoverEvidence
  <2>2. ~Settled
    BY <2>1, SettledIsClean
  <2>3. rec.events = log /\ log \in Seq(Event) /\ Len(log) \in Nat /\ tail = 0
    BY <2>1, RecTyped DEF IInv, RecoveryOwnsFrontier
  <2>4. e \in Event /\ ~IsLifecycle(e)
    BY <2>3 DEF Plain, Event, Classes, IsLifecycle
  <2> HIDE DEF e
  <2>5. \A st : LastIs(log, st) => LastIs(Append(log, e), st)
    BY <2>3, <2>4, AppendNoDecision DEF IInv, StreamInv, LegalLifecycle
  <2>6. CASE Unprojected
    <3>1. RecoverAppend(e, "reconcile", log)
      BY <2>1, <2>3, <2>6
    <3>2. SaysAsMuch(Append(log, e), log)
      BY <2>5 DEF SaysAsMuch
    <3> QED
      BY <1>6, <2>1, <2>2, <2>3, <3>1, <3>2
  <2>7. CASE ~Unprojected
    <3>1. RecoverAppend(e, "partial", Append(rec.events, e))
      BY <2>1, <2>7
    <3> QED
      BY <1>6, <2>1, <2>2, <2>3, <3>1
  <2> QED
    BY <2>6, <2>7
<1>8. CASE RecoverFailedPartial
  <2>1. ~Settled
    BY <1>8 DEF RecoverFailedPartial, SettledInv
  <2>2. rpc = "partial" /\ rec.events = log /\ tail = 0
    BY <1>8 DEF RecoverFailedPartial, IInv, RecoveryOwnsFrontier
  <2> DEFINE e == Lifecycle(Len(rec.events), "FAILED_PARTIAL")
  <2>3. RecoverAppend(e, "reconcile", Append(log, e))
    BY <1>8, <2>2 DEF RecoverFailedPartial
  <2> HIDE DEF e
  <2>4. SaysAsMuch(Append(log, e), Append(log, e))
    BY DEF SaysAsMuch
  <2> QED
    BY <1>6, <2>1, <2>2, <2>3, <2>4
<1>9. CASE RecoverProject
  <2>1. /\ rpc = "reconcile" /\ pc = "none" /\ ~Settled
        /\ manifest' \in {manifest, Reconciled} /\ log' = log /\ rpc' = "none"
        /\ rec.man \in Manifest /\ dir
    BY <1>9 DEF RecoverProject, WriteManifest, FailedWriteManifest, RecoverEnds,
       SettledInv, IInv, RecoveryOwnsFrontier
  <2>2. PICK st \in Statuses : LastIs(rec.events, st)
    BY <2>1 DEF IInv, RecoveryOwnsFrontier
  <2>3. LastIs(log, st) /\ lastLifecycleEvent(rec.events) = st
    BY <2>1, <2>2, RecTyped, LastLifecycleEvent DEF SettledInv, SaysAsMuch
  <2>4. Reconciled.status = st
    BY <2>1, <2>3 DEF Reconciled, Manifest
  <2> QED
    BY <1>1, <2>1, <2>3, <2>4 DEF SettledInv, Settled
<1> QED
  BY <1>3, <1>4, <1>5, <1>7, <1>8, <1>9 DEF RecoverSteps

LEMMA NextKeepsSettled ==
    ASSUME IInv, SettledInv, [Next]_vars
    PROVE  SettledInv'
<1>1. CASE rpc = "none" /\ WriterNext
  BY <1>1, WriterKeepsSettled
<1>2. CASE ColdRecovery
  BY <1>2, QuietKeepsSettled DEF ColdRecovery, RecoverParse, disk, writer
<1>3. CASE Crash
  BY <1>3, QuietKeepsSettled DEF Crash, ForgetHandle, RecoverEnds, disk
<1>4. CASE UNCHANGED vars
  BY <1>4, QuietKeepsSettled DEF vars
<1> QED
  BY <1>1, <1>2, <1>3, <1>4, RecoveryKeepsSettled DEF Next

\* Once the manifest shows a terminal status nothing changes the record: not
\* the handle that is still open, not a recovery pass that is run again, and
\* not a crash of either (task.go:235-241, recovery.go:82-107).
THEOREM SettledRecordsStay == Spec => SettledIsFinal
<1>1. Init => SettledInv
  BY DEF Init, SettledInv, Settled
<1>2. ASSUME IInv, SettledInv, [Next]_vars
      PROVE  [manifest # None /\ terminal(manifest.status)
                  => UNCHANGED <<log, manifest>>]_vars
  BY <1>2, SettledStays DEF Settled
<1> QED
  BY Ownership, <1>1, NextKeepsSettled, <1>2, PTL DEF Spec, SettledIsFinal

-----------------------------------------------------------------------------
(* The artifact list a stream supports.  boundArtifacts is a recursive     *)
(* function of the positions of the stream: it exists, and one more event  *)
(* binds one artifact more or none, by induction on the positions.         *)

Less == {ss \in Nat \X Nat : ss[1] < ss[2]}

\* Induction up to n, for the members of a set instead of a predicate.
LEMMA UpTo ==
    ASSUME NEW n \in Nat, NEW S, 0 \in S,
           \A k \in Nat : k < n /\ k \in S => k + 1 \in S
    PROVE  0 .. n \subseteq S
<1> DEFINE T == {k \in Nat : k <= n /\ k \notin S}
<1> SUFFICES ASSUME T # {} PROVE FALSE
  OBVIOUS
<1>1. PICK x \in T : \A y \in T : ~(<<y, x>> \in Less)
  <2>1. T \subseteq Nat
    OBVIOUS
  <2>2. IsWellFoundedOn(Less, Nat)
    BY NatLessThanWellFounded, Zenon DEF OpToRel, Less
  <2> QED
    BY <2>1, <2>2, WFMin, Zenon
<1>2. \A y \in T : ~(y < x)
  BY <1>1 DEF Less
<1>3. x # 0 /\ x - 1 \in Nat /\ x - 1 < n /\ x - 1 < x
  BY <1>1
<1>4. x - 1 \in S
  BY <1>2, <1>3
<1>5. (x - 1) + 1 \in S
  BY <1>3, <1>4
<1> QED
  BY <1>1, <1>5

Bindings == Seq(Objects \cup {None})

LEMMA BindTyped ==
    ASSUME NEW arts \in Bindings, NEW e \in Event
    PROVE  Bind(arts, e) \in Bindings
BY DEF Bind, Bindings, Event

\* f lists what the first n events of evs bind, position by position.
Lists(f, evs, n) ==
    /\ f \in [0 .. n -> Bindings]
    /\ f[0] = <<>>
    /\ \A k \in 1 .. n : f[k] = Bind(f[k - 1], evs[k])

LEMMA ListsOneMore ==
    ASSUME NEW evs \in Seq(Event), NEW k \in Nat, k < Len(evs), NEW f,
           Lists(f, evs, k)
    PROVE  \E g : Lists(g, evs, k + 1)
<1> DEFINE g == [i \in 0 .. k + 1 |->
                   IF i = k + 1 THEN Bind(f[k], evs[k + 1]) ELSE f[i]]
<1>1. /\ f \in [0 .. k -> Bindings] /\ f[0] = <<>>
      /\ \A i \in 1 .. k : f[i] = Bind(f[i - 1], evs[i])
  BY DEF Lists
<1>2. evs[k + 1] \in Event /\ f[k] \in Bindings
  BY <1>1
<1>3. Bind(f[k], evs[k + 1]) \in Bindings
  BY <1>2, BindTyped
<1>4. g \in [0 .. k + 1 -> Bindings]
  <2>1. \A i \in 0 .. k + 1 : i # k + 1 => i \in 0 .. k
    OBVIOUS
  <2> QED
    BY <1>1, <1>3, <2>1
<1>5. g[0] = <<>>
  BY <1>1
<1>6. ASSUME NEW i \in 1 .. k + 1 PROVE g[i] = Bind(g[i - 1], evs[i])
  <2>1. i \in 0 .. k + 1 /\ i - 1 \in 0 .. k + 1 /\ i - 1 # k + 1
    OBVIOUS
  <2>2. CASE i = k + 1
    BY <2>1, <2>2
  <2>3. CASE i # k + 1
    <3>1. i \in 1 .. k
      BY <2>3
    <3> QED
      BY <1>1, <2>1, <2>3, <3>1
  <2> QED
    BY <2>2, <2>3
<1> HIDE DEF g
<1> QED
  BY <1>4, <1>5, <1>6 DEF Lists

LEMMA ListsExists ==
    ASSUME NEW evs \in Seq(Event)
    PROVE  \E f : Lists(f, evs, Len(evs))
<1> DEFINE S == {k \in Nat : \E f : Lists(f, evs, k)}
<1>1. 0 \in S
  <2>1. Lists([i \in 0 .. 0 |-> <<>>], evs, 0)
    BY DEF Lists, Bindings
  <2> QED
    BY <2>1
<1>2. \A k \in Nat : k < Len(evs) /\ k \in S => k + 1 \in S
  BY ListsOneMore
<1>3. 0 .. Len(evs) \subseteq S
  <2>1. Len(evs) \in Nat
    OBVIOUS
  <2> HIDE DEF S
  <2> QED
    BY <1>1, <1>2, <2>1, UpTo, Zenon
<1>4. Len(evs) \in 0 .. Len(evs)
  OBVIOUS
<1> QED
  BY <1>3, <1>4

\* The equation of the recursive function of boundArtifacts.
BoundUpTo(f, evs) ==
    f = [i \in 0 .. Len(evs) |->
           IF i = 0 THEN <<>> ELSE Bind(f[i - 1], evs[i])]

LEMMA BoundUpToLists ==
    ASSUME NEW evs \in Seq(Event), NEW f, BoundUpTo(f, evs)
    PROVE  Lists(f, evs, Len(evs))
<1> DEFINE n == Len(evs)
           S == {k \in Nat : k <= n => f[k] \in Bindings}
<1>1. /\ n \in Nat
      /\ \A i \in 0 .. n : f[i] = IF i = 0 THEN <<>> ELSE Bind(f[i - 1], evs[i])
  <2>1. \A i \in 0 .. n : f[i] = IF i = 0 THEN <<>> ELSE Bind(f[i - 1], evs[i])
    BY Zenon DEF BoundUpTo
  <2> QED
    BY <2>1
<1>2. f[0] = <<>>
  BY <1>1
<1>3. \A k \in 1 .. n : f[k] = Bind(f[k - 1], evs[k])
  BY <1>1
<1>4. 0 \in S
  <2>1. <<>> \in Bindings
    BY DEF Bindings
  <2> QED
    BY <1>2, <2>1
<1>5. ASSUME NEW k \in Nat, k < n, k \in S PROVE k + 1 \in S
  <2>1. k + 1 \in 1 .. n /\ (k + 1) - 1 = k /\ f[k] \in Bindings /\ evs[k + 1] \in Event
    BY <1>1, <1>5
  <2>2. f[k + 1] = Bind(f[k], evs[k + 1])
    BY <1>3, <2>1
  <2> QED
    BY <2>1, <2>2, BindTyped
<1>6. 0 .. n \subseteq S
  <2> HIDE DEF S
  <2> QED
    BY <1>1, <1>4, <1>5, UpTo
<1>7. f = [i \in 0 .. n |-> f[i]]
  BY DEF BoundUpTo
<1>8. f \in [0 .. n -> Bindings]
  BY <1>6, <1>7
<1> QED
  BY <1>2, <1>3, <1>8 DEF Lists

LEMMA ListsSolves ==
    ASSUME NEW evs \in Seq(Event), NEW f, Lists(f, evs, Len(evs))
    PROVE  BoundUpTo(f, evs)
<1>1. f = [i \in 0 .. Len(evs) |-> f[i]]
  BY DEF Lists
<1>2. \A i \in 0 .. Len(evs) : f[i] = IF i = 0 THEN <<>> ELSE Bind(f[i - 1], evs[i])
  BY DEF Lists
<1> QED
  BY <1>1, <1>2 DEF BoundUpTo

LEMMA BoundIs ==
    ASSUME NEW evs \in Seq(Event)
    PROVE  \E f : Lists(f, evs, Len(evs)) /\ boundArtifacts(evs) = f[Len(evs)]
<1> DEFINE g == CHOOSE f : BoundUpTo(f, evs)
<1>1. BoundUpTo(g, evs)
  <2>1. \E f : BoundUpTo(f, evs)
    BY ListsExists, ListsSolves
  <2> QED
    BY <2>1
<1>2. boundArtifacts(evs) = g[Len(evs)]
  BY Zenon DEF boundArtifacts, BoundUpTo
<1> HIDE DEF g
<1> QED
  BY <1>1, <1>2, BoundUpToLists

LEMMA BoundEmpty == boundArtifacts(<<>>) = <<>>
<1>1. <<>> \in Seq(Event) /\ Len(<<>>) = 0
  OBVIOUS
<1> QED
  BY <1>1, BoundIs DEF Lists

LEMMA BoundTyped ==
    ASSUME NEW evs \in Seq(Event)
    PROVE  boundArtifacts(evs) \in Bindings
<1>1. Len(evs) \in 0 .. Len(evs)
  OBVIOUS
<1> QED
  BY <1>1, BoundIs DEF Lists

\* One more event binds its artifact, or nothing.
LEMMA BoundAppend ==
    ASSUME NEW evs \in Seq(Event), NEW e \in Event
    PROVE  boundArtifacts(Append(evs, e)) = Bind(boundArtifacts(evs), e)
<1> DEFINE more == Append(evs, e)
           n    == Len(evs)
<1>1. /\ more \in Seq(Event) /\ n \in Nat /\ Len(more) = n + 1 /\ more[n + 1] = e
      /\ \A k \in 1 .. n : more[k] = evs[k]
  BY AppendFacts
<1> HIDE DEF more
<1>2. PICK f : Lists(f, evs, n) /\ boundArtifacts(evs) = f[n]
  BY BoundIs
<1>3. PICK g : Lists(g, more, n + 1) /\ boundArtifacts(more) = g[n + 1]
  BY <1>1, BoundIs
<1> DEFINE S == {k \in Nat : k <= n => g[k] = f[k]}
<1>4. 0 \in S
  BY <1>2, <1>3 DEF Lists
<1>5. ASSUME NEW k \in Nat, k < n, k \in S PROVE k + 1 \in S
  <2>1. k + 1 \in 1 .. n /\ k + 1 \in 1 .. n + 1 /\ (k + 1) - 1 = k /\ g[k] = f[k]
    BY <1>1, <1>5
  <2>2. f[k + 1] = Bind(f[k], evs[k + 1]) /\ g[k + 1] = Bind(g[k], more[k + 1])
    BY <1>2, <1>3, <2>1 DEF Lists
  <2> QED
    BY <1>1, <2>1, <2>2
<1>6. 0 .. n \subseteq S
  <2> HIDE DEF S
  <2> QED
    BY <1>1, <1>4, <1>5, UpTo
<1>7. n + 1 \in 1 .. n + 1 /\ (n + 1) - 1 = n /\ g[n] = f[n]
  BY <1>1, <1>6
<1>8. g[n + 1] = Bind(g[n], more[n + 1])
  BY <1>3, <1>7 DEF Lists
<1> QED
  BY <1>1, <1>2, <1>3, <1>7, <1>8 DEF more

-----------------------------------------------------------------------------
(* What a record at rest says of itself.                                   *)

\* s is the beginning of t.
Begins(s, t) == Len(s) <= Len(t) /\ s = SubSeq(t, 1, Len(s))

\* arts is the artifact list the stream supports, or the beginning of it.
Trails(arts, evs) == Begins(arts, boundArtifacts(evs))

\* What Verify demands of a manifest, with a list that may trail.
ManifestHolds ==
    manifest # None =>
        /\ statusExplained(manifest.status, log)
        /\ manifest.status = "FAILED_PARTIAL" => RecoveryRecorded(log)
        /\ terminal(manifest.status) => BindingHolds(manifest, log)
        /\ Trails(manifest.arts, log)

\* A handle whose stream is unbroken lists every committed binding but the one
\* it is about to project; a broken one may have missed the last.
WriterListsBindings ==
    /\ mem.status # "FAILED_PARTIAL"
    /\ op.kind = "transition" => op.ev.to # "FAILED_PARTIAL"
    /\ pc # "none" /\ broken => Trails(mem.arts, log)
    /\ pc # "none" /\ ~broken =>
         boundArtifacts(log) = IF op.kind = "bind" THEN Append(mem.arts, op.ev.ref)
                                                   ELSE mem.arts

\* Recovery has appended its own evidence when it decides for FAILED_PARTIAL
\* or for the stream, and what it binds is the beginning of the stream.
RecoveryListsBindings ==
    /\ rpc \in {"decide", "partial", "reconcile"} => Trails(rec.man.arts, log)
    /\ rpc \in {"partial", "reconcile"} => RecoveryRecorded(log)
    /\ rpc = "reconcile" =>
         /\ Begins(rec.events, log)
         /\ \E st \in Statuses : terminal(st) /\ LastIs(rec.events, st)

\* A live handle is an open one.
LiveIsOpen ==
    live => pc \in {"idle", "flag", "project"} /\ op.kind # "create"

RestInv ==
    ManifestHolds /\ WriterListsBindings /\ RecoveryListsBindings /\ LiveIsOpen

LEMMA BeginsItself ==
    ASSUME NEW S, NEW s \in Seq(S)
    PROVE  Begins(s, s)
BY SubSeqFull DEF Begins

LEMMA SubSeqAppend ==
    ASSUME NEW S, NEW t \in Seq(S), NEW x \in S, NEW n \in Nat, n <= Len(t)
    PROVE  SubSeq(Append(t, x), 1, n) = SubSeq(t, 1, n)
<1>1. /\ Append(t, x) \in Seq(S) /\ Len(Append(t, x)) = Len(t) + 1
      /\ \A i \in 1 .. Len(t) : Append(t, x)[i] = t[i]
  BY AppendFacts
<1>2. /\ SubSeq(t, 1, n) \in Seq(S) /\ Len(SubSeq(t, 1, n)) = n
      /\ \A i \in 1 .. n : SubSeq(t, 1, n)[i] = t[i]
  BY SubSeqProperties
<1>3. /\ SubSeq(Append(t, x), 1, n) \in Seq(S) /\ Len(SubSeq(Append(t, x), 1, n)) = n
      /\ \A i \in 1 .. n : SubSeq(Append(t, x), 1, n)[i] = Append(t, x)[i]
  <2> DEFINE u == Append(t, x)
  <2>1. u \in Seq(S) /\ n <= Len(u)
    BY <1>1
  <2> HIDE DEF u
  <2>2. /\ SubSeq(u, 1, n) \in Seq(S) /\ Len(SubSeq(u, 1, n)) = n
        /\ \A i \in 1 .. n : SubSeq(u, 1, n)[i] = u[i]
    BY <2>1, SubSeqProperties
  <2> QED
    BY <2>2 DEF u
<1> QED
  BY <1>1, <1>2, <1>3, SeqEqual

LEMMA BeginsMore ==
    ASSUME NEW S, NEW s \in Seq(S), NEW t \in Seq(S), NEW x \in S, Begins(s, t)
    PROVE  Begins(s, Append(t, x))
<1>1. Len(s) \in Nat /\ Len(t) \in Nat /\ Len(Append(t, x)) = Len(t) + 1
  BY AppendFacts
<1> QED
  BY <1>1, SubSeqAppend DEF Begins

LEMMA BeginsShorter ==
    ASSUME NEW S, NEW s \in Seq(S), NEW x \in S
    PROVE  Begins(s, Append(s, x))
BY BeginsItself, BeginsMore

\* What is known of a stream stays true of a longer one.
StreamKeeps(evs, more) ==
    /\ \A st : statusExplained(st, evs) => statusExplained(st, more)
    /\ RecoveryRecorded(evs) => RecoveryRecorded(more)
    /\ \A m \in Manifest : BindingHolds(m, evs) => BindingHolds(m, more)
    /\ \A arts \in Bindings : Trails(arts, evs) => Trails(arts, more)
    /\ \A pre \in Seq(Event) : Begins(pre, evs) => Begins(pre, more)

LEMMA GrowthKeeps ==
    ASSUME NEW evs \in Seq(Event), NEW e \in Event
    PROVE  StreamKeeps(evs, Append(evs, e))
<1>1. /\ Append(evs, e) \in Seq(Event) /\ Len(evs) \in Nat
      /\ Len(Append(evs, e)) = Len(evs) + 1
      /\ \A i \in 1 .. Len(evs) : i \in DOMAIN Append(evs, e) /\ Append(evs, e)[i] = evs[i]
      /\ DOMAIN evs = 1 .. Len(evs)
  BY AppendFacts
<1>2. \A st : statusExplained(st, evs) => statusExplained(st, Append(evs, e))
  BY <1>1 DEF statusExplained
<1>3. RecoveryRecorded(evs) => RecoveryRecorded(Append(evs, e))
  BY <1>1 DEF RecoveryRecorded
<1>4. ASSUME NEW m \in Manifest, BindingHolds(m, evs)
      PROVE  BindingHolds(m, Append(evs, e))
  <2>1. m.count \in Nat /\ m.count <= Len(evs) /\ SubSeq(evs, 1, m.count) = m.sum
    BY <1>4 DEF Manifest, BindingHolds
  <2>2. SubSeq(Append(evs, e), 1, m.count) = m.sum
    BY <2>1, SubSeqAppend
  <2> QED
    BY <1>1, <2>1, <2>2 DEF BindingHolds
<1>5. ASSUME NEW arts \in Bindings, Trails(arts, evs)
      PROVE  Trails(arts, Append(evs, e))
  <2>1. boundArtifacts(evs) \in Bindings
    BY BoundTyped
  <2>2. CASE IsBinding(e)
    <3>1. /\ boundArtifacts(Append(evs, e)) = Append(boundArtifacts(evs), e.ref)
          /\ e.ref \in Objects \cup {None}
      BY <2>2, BoundAppend DEF Bind, Event
    <3> QED
      BY <1>5, <2>1, <3>1, BeginsMore DEF Trails, Bindings
  <2>3. CASE ~IsBinding(e)
    BY <1>5, <2>3, BoundAppend DEF Bind, Trails
  <2> QED
    BY <2>2, <2>3
<1>6. \A pre \in Seq(Event) : Begins(pre, evs) => Begins(pre, Append(evs, e))
  BY BeginsMore
<1> QED
  BY <1>2, <1>3, <1>4, <1>5, <1>6 DEF StreamKeeps

LEMMA StepKeeps ==
    ASSUME IInv, [Next]_vars
    PROVE  /\ StreamKeeps(log, log')
           /\ log \in Seq(Event) /\ log' \in Seq(Event)
<1>1. log \in Seq(Event) /\ log' \in Seq(Event)
  BY NextIInv DEF IInv, TypeOK
<1>2. CASE log' = log
  BY <1>1, <1>2 DEF StreamKeeps
<1>3. CASE \E e : log' = Append(log, e)
  <2>1. PICK e : log' = Append(log, e)
    BY <1>3
  <2>2. e = log'[Len(log) + 1] /\ Len(log') = Len(log) + 1
    BY <1>1, <2>1
  <2>3. e \in Event
    BY <1>1, <2>2
  <2> QED
    BY <1>1, <2>1, <2>3, GrowthKeeps
<1>4. log' = log \/ \E e : log' = Append(log, e)
  BY OneEventAtMost
<1> QED
  BY <1>1, <1>2, <1>3, <1>4

\* Only a projection of the writer or of recovery writes the manifest.
LEMMA ManifestStep ==
    ASSUME Next
    PROVE  \/ manifest' = manifest
           \/ Project /\ manifest' = Projection
           \/ RecoverProject /\ manifest' = Reconciled
<1>1. CASE WriterNext /\ ~Project
  <2>1. \/ CreateTask \/ CreatedEvent \/ FlagContamination
        \/ Register \/ Close
        \/ \E kind, e : AppendLocked(kind, e)
        \/ \E addr : StoreObject(addr)
    BY <1>1 DEF WriterNext, AppendEvent, Transition, BindArtifact
  <2> QED
    BY <2>1 DEF CreateTask, CreatedEvent, FlagContamination,
       Register, Close, AppendLocked, StoreObject, disk
<1>2. CASE Project
  BY <1>2 DEF Project, WriteManifest, FailedWriteManifest
<1>3. CASE ColdRecovery \/ Crash
  BY <1>3 DEF ColdRecovery, RecoverParse, Crash, disk
<1>4. CASE RecoverSteps /\ ~RecoverProject
  BY <1>4 DEF RecoverSteps, RecoverGate, RecoverCreateTorn, RecoverFillTorn,
     RecoverTruncate, RecoverLoad, RecoverClean, RecoverEvidence,
     RecoverFailedPartial, RecoverAppend, disk
<1>5. CASE RecoverProject
  BY <1>5 DEF RecoverProject, WriteManifest, FailedWriteManifest
<1> QED
  BY <1>1, <1>2, <1>3, <1>4, <1>5 DEF Next

LEMMA LastExplains ==
    ASSUME NEW evs, NEW st, LastIs(evs, st)
    PROVE  statusExplained(st, evs)
BY DEF LastIs, statusExplained

\* A manifest projected by the writer claims only what the stream says.
LEMMA ProjectionHolds ==
    ASSUME IInv, SettledInv, WriterListsBindings, Project
    PROVE  /\ statusExplained(Projection.status, log)
           /\ Projection.status # "FAILED_PARTIAL"
           /\ terminal(Projection.status) => BindingHolds(Projection, log)
           /\ Projection.arts = boundArtifacts(log)
<1>1. pc = "project" /\ ~broken /\ ~terminal(mem.status)
  BY DEF Project, IInv, WriterOwnsFrontier, SettledInv
<1>2. /\ Projection \in Manifest /\ chain = log /\ LastIs(log, Projection.status)
      /\ Projection.status = IF op.kind = "transition" THEN op.ev.to ELSE mem.status
  BY <1>1, ProjectionFacts
<1>3. statusExplained(Projection.status, log)
  BY <1>2, LastExplains
<1>4. Projection.status # "FAILED_PARTIAL"
  BY <1>2 DEF WriterListsBindings
<1>5. mem \in Manifest /\ log \in Seq(Event)
  BY DEF IInv, TypeOK
<1>6. ASSUME terminal(Projection.status) PROVE BindingHolds(Projection, log)
  <2>1. op.kind = "transition" /\ terminal(op.ev.to)
    BY <1>1, <1>2, <1>6
  <2>2. Projection = [mem EXCEPT !.status = op.ev.to, !.count = Len(chain),
                                 !.sum = chain]
    BY <2>1 DEF Projection
  <2>3. Projection.count = Len(log) /\ Projection.sum = log
    BY <1>2, <1>5, <2>2 DEF Manifest
  <2>4. SubSeq(log, 1, Len(log)) = log /\ Len(log) <= Len(log)
    BY <1>5, SubSeqFull
  <2> QED
    BY <2>3, <2>4 DEF BindingHolds
<1>7. Projection.arts = IF op.kind = "bind" THEN Append(mem.arts, op.ev.ref)
                                             ELSE mem.arts
  <2>1. CASE op.kind = "transition" /\ terminal(op.ev.to)
    <3>1. Projection = [mem EXCEPT !.status = op.ev.to, !.count = Len(chain),
                                   !.sum = chain]
      BY <2>1 DEF Projection
    <3> QED
      BY <1>5, <2>1, <3>1 DEF Manifest
  <2>2. CASE op.kind = "transition" /\ ~terminal(op.ev.to)
    <3>1. Projection = [mem EXCEPT !.status = op.ev.to]
      BY <2>2 DEF Projection
    <3> QED
      BY <1>5, <2>2, <3>1 DEF Manifest
  <2>3. CASE op.kind = "bind"
    <3>1. Projection = [mem EXCEPT !.arts = Append(mem.arts, op.ev.ref)]
      BY <2>3 DEF Projection
    <3> QED
      BY <1>5, <2>3, <3>1 DEF Manifest
  <2>4. CASE op.kind \notin {"transition", "bind"}
    BY <2>4 DEF Projection
  <2> QED
    BY <2>1, <2>2, <2>3, <2>4
<1> QED
  BY <1>1, <1>3, <1>4, <1>6, <1>7 DEF WriterListsBindings

\* So does one that recovery reconciles, but for a list that may trail.
LEMMA ReconciledHolds ==
    ASSUME IInv, RecoveryListsBindings, rpc = "reconcile"
    PROVE  /\ statusExplained(Reconciled.status, log) /\ terminal(Reconciled.status)
           /\ Reconciled.status = lastLifecycleEvent(rec.events)
           /\ RecoveryRecorded(log)
           /\ BindingHolds(Reconciled, log)
           /\ Reconciled.arts = rec.man.arts /\ Trails(rec.man.arts, log)
<1>1. /\ rec.man \in Manifest /\ rec.events \in Seq(Event) /\ log \in Seq(Event)
      /\ Begins(rec.events, log)
  BY RecTyped DEF IInv, RecoveryOwnsFrontier, RecoveryListsBindings
<1>2. PICK st \in Statuses : terminal(st) /\ LastIs(rec.events, st)
  BY DEF RecoveryListsBindings
<1>3. lastLifecycleEvent(rec.events) = st
  BY <1>1, <1>2, LastLifecycleEvent
<1>4. /\ Reconciled.status = st /\ Reconciled.count = Len(rec.events)
      /\ Reconciled.sum = rec.events /\ Reconciled.arts = rec.man.arts
  BY <1>1, <1>3 DEF Reconciled, Manifest
<1>5. statusExplained(st, log)
  <2>1. PICK i \in DOMAIN rec.events : IsLifecycle(rec.events[i]) /\ rec.events[i].to = st
    BY <1>2 DEF LastIs
  <2>2. Len(rec.events) \in Nat /\ i \in 1 .. Len(rec.events) /\ Len(rec.events) <= Len(log)
    BY <1>1, <2>1 DEF Begins
  <2>3. SubSeq(log, 1, Len(rec.events))[i] = log[i]
    BY <1>1, <2>2, SubSeqProperties
  <2>4. log[i] = rec.events[i] /\ i \in DOMAIN log
    BY <1>1, <2>2, <2>3 DEF Begins
  <2> QED
    BY <2>1, <2>4 DEF statusExplained
<1> QED
  BY <1>1, <1>2, <1>3, <1>4, <1>5 DEF RecoveryListsBindings, BindingHolds, Begins

LEMMA ManifestKept ==
    ASSUME IInv, ManifestHolds, manifest' = manifest, StreamKeeps(log, log')
    PROVE  ManifestHolds'
<1>1. manifest # None => manifest \in Manifest /\ manifest.arts \in Bindings
  BY DEF IInv, TypeOK, Manifest, Bindings
<1> QED
  BY <1>1 DEF ManifestHolds, StreamKeeps

LEMMA NextKeepsManifest ==
    ASSUME IInv, SettledInv, RestInv, [Next]_vars
    PROVE  ManifestHolds'
<1>1. CASE manifest' = manifest
  BY <1>1, StepKeeps, ManifestKept DEF RestInv
<1>2. CASE Project /\ manifest' = Projection
  <2>1. log' = log
    BY <1>2 DEF Project
  <2>2. Trails(boundArtifacts(log), log)
    BY StepKeeps, BoundTyped, BeginsItself DEF Trails, Bindings
  <2> QED
    BY <1>2, <2>1, <2>2, ProjectionHolds DEF RestInv, ManifestHolds
<1>3. CASE RecoverProject /\ manifest' = Reconciled
  <2>1. log' = log /\ rpc = "reconcile"
    BY <1>3 DEF RecoverProject
  <2> QED
    BY <1>3, <2>1, ReconciledHolds DEF RestInv, ManifestHolds
<1> QED
  BY <1>1, <1>2, <1>3, ManifestStep DEF vars

\* A step the handle does not see.
LEMMA WriterUnseen ==
    ASSUME WriterListsBindings, UNCHANGED <<mem, op, broken, pc>>,
           log' = log \/ pc = "none"
    PROVE  WriterListsBindings'
BY DEF WriterListsBindings

\* A committed event that binds what the operation says it binds.
LEMMA WriterCommits ==
    ASSUME IInv, WriterListsBindings, pc \in {"create", "idle", "flag"}, ~broken,
           NEW e \in Event, log' = Append(log, e), mem' = mem, broken' = broken,
           IsBinding(e) <=> op.kind # "bind" /\ op'.kind = "bind",
           op'.kind = "bind" => op'.ev.ref = IF IsBinding(e) THEN e.ref ELSE op.ev.ref,
           op.kind = "bind" => op'.kind = "bind",
           op'.kind = "transition" => op'.ev.to # "FAILED_PARTIAL"
    PROVE  WriterListsBindings'
<1>1. boundArtifacts(log') = Bind(boundArtifacts(log), e)
  BY BoundAppend DEF IInv, TypeOK
<1>2. boundArtifacts(log) = IF op.kind = "bind" THEN Append(mem.arts, op.ev.ref)
                                                ELSE mem.arts
  BY DEF WriterListsBindings
<1> QED
  BY <1>1, <1>2 DEF WriterListsBindings, Bind

\* A failed append: the list the handle has is the beginning of the stream's.
LEMMA WriterBreaks ==
    ASSUME IInv, WriterListsBindings, StreamKeeps(log, log'), pc # "none", ~broken,
           broken' = TRUE, mem' = mem, op' = NoOp
    PROVE  WriterListsBindings'
<1>1. log \in Seq(Event) /\ mem.arts \in Bindings /\ op \in Operations
  BY DEF IInv, TypeOK, Manifest, Bindings
<1>2. Trails(mem.arts, log)
  <2>1. CASE op.kind = "bind"
    <3>1. op.ev.ref \in Objects
      BY <1>1, <2>1 DEF Operations, NoOp
    <3>2. boundArtifacts(log) = Append(mem.arts, op.ev.ref)
      BY <2>1 DEF WriterListsBindings
    <3> QED
      BY <1>1, <3>1, <3>2, BeginsShorter DEF Trails, Bindings
  <2>2. CASE op.kind # "bind"
    <3>1. boundArtifacts(log) = mem.arts
      BY <2>2 DEF WriterListsBindings
    <3> QED
      BY <1>1, <3>1, BeginsItself DEF Trails, Bindings
  <2> QED
    BY <2>1, <2>2
<1>3. Trails(mem.arts, log')
  BY <1>1, <1>2 DEF StreamKeeps
<1>4. op'.kind = "none"
  BY DEF NoOp
<1> QED
  BY <1>3, <1>4 DEF WriterListsBindings

LEMMA AppendLockedLists ==
    ASSUME IInv, WriterListsBindings, StreamKeeps(log, log'),
           NEW kind \in {"create", "append", "transition", "bind"}, NEW e \in Event,
           AppendLocked(kind, e),
           IF kind = "create" THEN pc = "create" ELSE pc = "idle",
           IsBinding(e) <=> kind = "bind",
           kind = "transition" => e.to # "FAILED_PARTIAL"
    PROVE  WriterListsBindings'
<1>1. ~broken /\ mem' = mem /\ pc \in {"create", "idle"}
  BY DEF AppendLocked
<1>2. op = NoOp /\ tail = 0
  BY <1>1, WriterFacts DEF IInv, WriterKnowsDecision
<1>3. CASE \E suspect \in Suspect(kind) :
             /\ log' = Landed(e) /\ chain' = Append(chain, e)
             /\ pc' = IF suspect THEN "flag" ELSE Committed(kind)
             /\ op' = IF pc' = "idle" THEN NoOp ELSE [kind |-> kind, ev |-> e]
             /\ acked' = IF kind = "append" /\ ~suspect THEN acked \cup {e}
                                                        ELSE acked
             /\ UNCHANGED <<tail, tears, broken, faults>>
  <2>1. /\ log' = Append(log, e) /\ broken' = broken
        /\ pc' = "idle" => kind = "append"
        /\ op' = IF pc' = "idle" THEN NoOp ELSE [kind |-> kind, ev |-> e]
    BY <1>2, <1>3 DEF Landed, Committed
  <2>2. op.kind = "none"
    BY <1>2 DEF NoOp
  <2>3. \/ op'.kind = "none" /\ kind = "append"
        \/ op'.kind = kind /\ op'.ev = e
    BY <2>1 DEF NoOp
  <2> QED
    BY <1>1, <2>1, <2>2, <2>3, WriterCommits
<1>4. CASE /\ Fault /\ FailedAppend(e) /\ StreamFails /\ pc' = Abandoned(kind)
           /\ UNCHANGED <<op, chain, acked>>
  <2>1. op' = NoOp /\ broken' = TRUE /\ pc # "none"
    BY <1>1, <1>2, <1>4 DEF StreamFails
  <2> QED
    BY <1>1, <2>1, WriterBreaks
<1> QED
  BY <1>3, <1>4 DEF AppendLocked

LEMMA FlagLists ==
    ASSUME IInv, WriterListsBindings, StreamKeeps(log, log'), FlagContamination
    PROVE  WriterListsBindings'
<1> DEFINE e == Plain(Len(chain), "contamination", None)
<1>1. pc = "flag" /\ ~broken /\ tail = 0 /\ chain = log /\ mem' = mem
  BY WriterFacts DEF FlagContamination, IInv, WriterOwnsFrontier
<1>2. e \in Event /\ ~IsBinding(e)
  BY <1>1, RecTyped DEF Plain, Event, Classes, IsBinding
<1>3. op \in Operations
  BY DEF IInv, TypeOK
<1> HIDE DEF e
<1>4. CASE /\ log' = Append(log, e) /\ pc' = Committed(op.kind)
           /\ op' = IF pc' = "idle" THEN NoOp ELSE op
           /\ broken' = broken
  <2>1. \/ op'.kind = "none" /\ op.kind = "append"
        \/ op' = op
    BY <1>4 DEF Committed, NoOp
  <2>2. op.kind = "transition" => op.ev.to # "FAILED_PARTIAL"
    BY DEF WriterListsBindings
  <2>3. IsBinding(e) <=> op.kind # "bind" /\ op'.kind = "bind"
    BY <1>2, <2>1
  <2>4. op'.kind = "bind" => op'.ev.ref = IF IsBinding(e) THEN e.ref ELSE op.ev.ref
    BY <1>2, <2>1
  <2>5. op'.kind = "transition" => op'.ev.to # "FAILED_PARTIAL"
    BY <2>1, <2>2
  <2> QED
    BY <1>1, <1>2, <1>4, <2>1, <2>3, <2>4, <2>5, WriterCommits
<1>5. CASE broken' = TRUE /\ op' = NoOp
  BY <1>1, <1>5, WriterBreaks
<1> QED
  BY <1>1, <1>4, <1>5 DEF FlagContamination, StreamFails, Landed, e

LEMMA WriterNextLists ==
    ASSUME IInv, SettledInv, RestInv, StreamKeeps(log, log'), rpc = "none", WriterNext
    PROVE  WriterListsBindings'
<1>0. WriterListsBindings /\ Len(chain) \in Nat
  BY DEF RestInv, IInv, TypeOK
<1>1. CASE CreateTask
  <2>1. /\ log = <<>> /\ log' = log /\ mem' = FreshManifest /\ broken' = FALSE
        /\ op' = NoOp
    BY <1>1 DEF CreateTask, IdentityUnused, IInv, NothingBeforeCreation,
       WriterKnowsDecision
  <2> QED
    BY <2>1, BoundEmpty DEF WriterListsBindings, FreshManifest, NoOp
<1>2. CASE CreatedEvent
  <2> DEFINE e == Lifecycle(Len(chain), "CREATED")
  <2>1. pc = "create" /\ AppendLocked("create", e)
    BY <1>2 DEF CreatedEvent
  <2>2. e \in Event /\ ~IsBinding(e)
    BY <1>0 DEF Lifecycle, Event, Classes, Statuses, IsBinding
  <2> HIDE DEF e
  <2> QED
    BY <1>0, <2>1, <2>2, AppendLockedLists
<1>3. ASSUME NEW ref \in Objects \cup {None}, AppendEvent(ref)
      PROVE  WriterListsBindings'
  <2> DEFINE e == Plain(Len(chain), "work", ref)
  <2>1. pc = "idle" /\ AppendLocked("append", e)
    BY <1>3 DEF AppendEvent, Ready
  <2>2. e \in Event /\ ~IsBinding(e)
    BY <1>0, <1>3 DEF Plain, Event, Classes, IsBinding
  <2> HIDE DEF e
  <2> QED
    BY <1>0, <2>1, <2>2, AppendLockedLists
<1>4. ASSUME NEW to \in Statuses, Transition(to)
      PROVE  WriterListsBindings'
  <2> DEFINE e == Lifecycle(Len(chain), to)
  <2>1. pc = "idle" /\ AppendLocked("transition", e)
    BY <1>4 DEF Transition, Ready
  <2>2. e \in Event /\ ~IsBinding(e) /\ e.to # "FAILED_PARTIAL"
    BY <1>0, <1>4 DEF Lifecycle, Event, Classes, Statuses, IsBinding, Transition,
       callerRequestable
  <2> HIDE DEF e
  <2> QED
    BY <1>0, <2>1, <2>2, AppendLockedLists
<1>5. ASSUME NEW addr \in Objects, BindArtifact(addr)
      PROVE  WriterListsBindings'
  <2> DEFINE e == Plain(Len(chain), "artifact-bound", addr)
  <2>1. pc = "idle" /\ AppendLocked("bind", e)
    BY <1>5 DEF BindArtifact, Ready
  <2>2. e \in Event /\ IsBinding(e)
    BY <1>0, <1>5 DEF Plain, Event, Classes, IsBinding
  <2> HIDE DEF e
  <2> QED
    BY <1>0, <2>1, <2>2, AppendLockedLists
<1>6. CASE FlagContamination
  BY <1>0, <1>6, FlagLists
<1>7. CASE Project
  <2>1. /\ pc = "project" /\ ~broken /\ mem' = Projection /\ op' = NoOp
        /\ log' = log /\ broken' = broken
    BY <1>7 DEF Project, IInv, WriterOwnsFrontier
  <2> QED
    BY <1>0, <1>7, <2>1, ProjectionHolds DEF WriterListsBindings, NoOp
<1>8. CASE Register
  BY <1>0, <1>8 DEF Register, disk, WriterListsBindings
<1>9. CASE Close
  <2>1. pc' = "none" /\ mem' = FreshManifest /\ op' = NoOp
    BY <1>9 DEF Close, ForgetHandle
  <2> QED
    BY <2>1 DEF WriterListsBindings, FreshManifest, NoOp
<1>10. ASSUME NEW addr \in Objects, StoreObject(addr)
       PROVE  WriterListsBindings'
  BY <1>0, <1>10, WriterUnseen DEF StoreObject, writer
<1> QED
  BY <1>1, <1>2, <1>3, <1>4, <1>5, <1>6, <1>7, <1>8, <1>9, <1>10 DEF WriterNext

\* Every step but the writer's leaves the handle alone, or takes it away.
LEMMA RecoveryLeavesHandle ==
    ASSUME ColdRecovery \/ RecoverSteps
    PROVE  UNCHANGED <<mem, op, broken, pc, live>>
BY DEF ColdRecovery, RecoverParse, RecoverSteps, RecoverGate, RecoverCreateTorn,
   RecoverFillTorn, RecoverTruncate, RecoverLoad, RecoverClean, RecoverEvidence,
   RecoverFailedPartial, RecoverProject, RecoverAppend, writer

LEMMA NextKeepsWriterLists ==
    ASSUME IInv, SettledInv, RestInv, [Next]_vars
    PROVE  WriterListsBindings'
<1>1. WriterListsBindings /\ StreamKeeps(log, log')
  BY StepKeeps DEF RestInv
<1>2. CASE rpc = "none" /\ WriterNext
  BY <1>1, <1>2, WriterNextLists
<1>3. CASE ColdRecovery \/ RecoverSteps
  <2>1. UNCHANGED <<mem, op, broken, pc>>
    BY <1>3, RecoveryLeavesHandle
  <2>2. log' = log \/ pc = "none"
    <3>1. CASE ColdRecovery \/ RecoverGate
      BY <3>1 DEF ColdRecovery, RecoverParse, RecoverGate, disk
    <3>2. CASE rpc # "none" /\ rpc # "gate"
      BY <3>2, ColdFacts
    <3> QED
      BY <1>3, <3>1, <3>2 DEF RecoverSteps, RecoverCreateTorn, RecoverFillTorn,
         RecoverTruncate, RecoverLoad, RecoverClean, RecoverEvidence,
         RecoverFailedPartial, RecoverProject
  <2> QED
    BY <1>1, <2>1, <2>2, WriterUnseen
<1>4. CASE Crash
  <2>1. pc' = "none" /\ mem' = FreshManifest /\ op' = NoOp
    BY <1>4 DEF Crash, ForgetHandle
  <2> QED
    BY <2>1 DEF WriterListsBindings, FreshManifest, NoOp
<1>5. CASE UNCHANGED vars
  BY <1>1, <1>5, WriterUnseen DEF vars
<1> QED
  BY <1>2, <1>3, <1>4, <1>5 DEF Next

LEMMA AppendLockedLive ==
    ASSUME IInv, LiveIsOpen, NEW kind \in {"create", "append", "transition", "bind"},
           NEW e, AppendLocked(kind, e),
           IF kind = "create" THEN pc = "create" ELSE pc = "idle"
    PROVE  LiveIsOpen'
<1>1. op.kind = "none"
  BY DEF IInv, WriterKnowsDecision, NoOp
<1> QED
  BY <1>1 DEF AppendLocked, LiveIsOpen, Committed, Abandoned, NoOp

LEMMA NextKeepsLive ==
    ASSUME IInv, LiveIsOpen, [Next]_vars
    PROVE  LiveIsOpen'
<1>1. CASE CreatedEvent
  BY <1>1, AppendLockedLive DEF CreatedEvent
<1>2. CASE (\E ref \in Objects \cup {None} : AppendEvent(ref))
           \/ (\E to \in Statuses : Transition(to))
           \/ (\E addr \in Objects : BindArtifact(addr))
  BY <1>2, AppendLockedLive DEF AppendEvent, Transition, BindArtifact, Ready
<1>3. CASE CreateTask \/ Close \/ Crash
  BY <1>3 DEF CreateTask, Close, Crash, ForgetHandle, LiveIsOpen
<1>4. CASE FlagContamination
  BY <1>4 DEF FlagContamination, LiveIsOpen, Committed, Abandoned, NoOp
<1>5. CASE Project
  BY <1>5 DEF Project, LiveIsOpen, Abandoned, NoOp
<1>6. CASE Register
  BY <1>6 DEF Register, LiveIsOpen, IInv, WriterKnowsDecision, NoOp
<1>7. CASE \E addr \in Objects : StoreObject(addr)
  BY <1>7 DEF StoreObject, writer, LiveIsOpen
<1>8. CASE ColdRecovery \/ RecoverSteps
  BY <1>8, RecoveryLeavesHandle DEF LiveIsOpen
<1>9. CASE UNCHANGED vars
  BY <1>9 DEF vars, LiveIsOpen
<1> QED
  BY <1>1, <1>2, <1>3, <1>4, <1>5, <1>6, <1>7, <1>8, <1>9 DEF Next, WriterNext

\* A step that leaves recovery where it is, or out of its last stages.
LEMMA RecoveryUnseen ==
    ASSUME IInv, RecoveryListsBindings, StreamKeeps(log, log'),
           UNCHANGED <<rpc, rec>> \/ rpc' \notin {"decide", "partial", "reconcile"}
    PROVE  RecoveryListsBindings'
<1>1. rpc \in {"decide", "partial", "reconcile"}
        => rec.man.arts \in Bindings /\ rec.events \in Seq(Event)
  BY RecTyped DEF IInv, RecoveryOwnsFrontier, Manifest, Bindings
<1> QED
  BY <1>1 DEF RecoveryListsBindings, StreamKeeps

\* An append by recovery, on its way to the projection.
LEMMA RecoveryAppendLists ==
    ASSUME IInv, RecoveryListsBindings, StreamKeeps(log, log'),
           rpc \in {"decide", "partial"}, NEW e \in Event,
           NEW committed \in {"partial", "reconcile"}, NEW events \in Seq(Event),
           RecoverAppend(e, committed, events),
           RecoveryRecorded(Append(log, e)),
           committed = "reconcile" =>
             /\ Begins(events, Append(log, e))
             /\ \E st \in Statuses : terminal(st) /\ LastIs(events, st)
    PROVE  RecoveryListsBindings'
<1>1. tail = 0 /\ rec.man \in Manifest
  BY DEF IInv, RecoveryOwnsFrontier
<1>2. CASE /\ log' = Append(log, e) /\ rpc' = committed
           /\ rec' = [rec EXCEPT !.events = events]
  <2>1. rec'.events = events /\ rec'.man = rec.man
    BY <1>2, RecTyped
  <2>2. rec.man.arts \in Bindings /\ Trails(rec.man.arts, log)
    BY <1>1 DEF RecoveryListsBindings, Manifest, Bindings
  <2>3. Trails(rec'.man.arts, log')
    BY <2>1, <2>2 DEF StreamKeeps
  <2> QED
    BY <1>2, <2>1, <2>3 DEF RecoveryListsBindings
<1>3. CASE RecoverEnds
  BY <1>3, RecoveryUnseen DEF RecoverEnds
<1> QED
  BY <1>1, <1>2, <1>3 DEF RecoverAppend, Landed

LEMMA RecoverEvidenceLists ==
    ASSUME IInv, RestInv, StreamKeeps(log, log'), RecoverEvidence
    PROVE  RecoveryListsBindings'
<1> DEFINE e == Plain(Len(rec.events), "recovery", None)
<1>1. /\ rpc = "decide"
      /\ IF Unprojected
         THEN RecoverAppend(e, "reconcile", rec.events)
         ELSE RecoverAppend(e, "partial", Append(rec.events, e))
  BY DEF RecoverEvidence
<1>2. rec.events = log /\ log \in Seq(Event) /\ Len(log) \in Nat
  BY <1>1, DecideFacts, RecTyped
<1>3. e \in Event /\ e.class = "recovery"
  BY <1>2 DEF Plain, Event, Classes
<1> HIDE DEF e
<1>4. Append(log, e) \in Seq(Event) /\ RecoveryRecorded(Append(log, e))
  <2>1. /\ Append(log, e) \in Seq(Event) /\ Append(log, e)[Len(log) + 1] = e
        /\ Len(log) + 1 \in DOMAIN Append(log, e)
    BY <1>2, <1>3, AppendFacts
  <2> QED
    BY <1>3, <2>1 DEF RecoveryRecorded
<1>5. CASE Unprojected
  <2>1. PICK st \in Statuses : LastIs(log, st)
    BY <1>1, DecideFacts
  <2>2. terminal(st)
    BY <1>2, <1>5, <2>1, LastLifecycleEvent DEF Unprojected
  <2>3. RecoverAppend(e, "reconcile", log)
    BY <1>1, <1>2, <1>5
  <2>4. Begins(log, Append(log, e))
    BY <1>2, <1>3, BeginsShorter
  <2> QED
    BY <1>1, <1>2, <1>3, <1>4, <2>1, <2>2, <2>3, <2>4, RecoveryAppendLists DEF RestInv
<1>6. CASE ~Unprojected
  <2>1. RecoverAppend(e, "partial", Append(log, e))
    BY <1>1, <1>2, <1>6
  <2> QED
    BY <1>1, <1>3, <1>4, <2>1, RecoveryAppendLists DEF RestInv
<1> QED
  BY <1>5, <1>6

LEMMA RecoverFailedPartialLists ==
    ASSUME IInv, RestInv, StreamKeeps(log, log'), RecoverFailedPartial
    PROVE  RecoveryListsBindings'
<1> DEFINE e == Lifecycle(Len(rec.events), "FAILED_PARTIAL")
<1>1. rpc = "partial" /\ RecoverAppend(e, "reconcile", Append(rec.events, e))
  BY DEF RecoverFailedPartial
<1>2. rec.events = log /\ log \in Seq(Event) /\ Len(log) \in Nat
  BY <1>1, RecTyped DEF IInv, RecoveryOwnsFrontier
<1>3. PICK st \in {"CREATED", "RUNNING"} : LastIs(log, st)
  BY <1>1 DEF IInv, RecoveryOwnsFrontier
<1>4. e \in Event /\ IsLifecycle(e) /\ e.to = "FAILED_PARTIAL"
  BY <1>2 DEF Lifecycle, Event, Classes, Statuses, IsLifecycle
<1>5. e.to \in legalNext[st] /\ st \in Statuses /\ e.seq = Len(log)
  BY <1>2, <1>3, <1>4 DEF legalNext, Statuses, Lifecycle
<1> HIDE DEF e
<1>6. LastIs(Append(log, e), "FAILED_PARTIAL") /\ Append(log, e) \in Seq(Event)
  BY <1>2, <1>3, <1>4, <1>5, AppendDecision DEF IInv, StreamInv, LegalLifecycle
<1>7. RecoveryRecorded(Append(log, e))
  BY <1>1, <1>2, <1>4, GrowthKeeps DEF RestInv, RecoveryListsBindings, StreamKeeps
<1>8. /\ Begins(Append(log, e), Append(log, e))
      /\ \E t \in Statuses : terminal(t) /\ LastIs(Append(log, e), t)
  BY <1>6, BeginsItself DEF terminal, Statuses
<1>9. RecoverAppend(e, "reconcile", Append(log, e))
  BY <1>1, <1>2
<1> QED
  BY <1>1, <1>4, <1>6, <1>7, <1>8, <1>9, RecoveryAppendLists DEF RestInv

LEMMA RecoverLoadLists ==
    ASSUME IInv, RestInv, RecoverLoad
    PROVE  RecoveryListsBindings'
<1> DEFINE m == IF manifest = None THEN FreshManifest ELSE manifest
<1>1. log' = log
  BY DEF RecoverLoad, disk
<1>2. rpc' \in {"none", "decide"} /\ (rpc' = "decide" => rec'.man = m)
  BY RecTyped DEF RecoverLoad, RecoverEnds
<1>3. Trails(m.arts, log)
  <2>1. CASE manifest = None
    <3>1. log \in Seq(Event) /\ Len(boundArtifacts(log)) \in Nat /\ boundArtifacts(log) \in Bindings
      BY RecTyped, BoundTyped DEF Bindings
    <3>2. SubSeq(boundArtifacts(log), 1, 0) = <<>>
      BY <3>1
    <3>3. Begins(<<>>, boundArtifacts(log))
      BY <3>1, <3>2 DEF Begins
    <3>4. m.arts = <<>>
      BY <2>1 DEF FreshManifest
    <3> QED
      BY <3>3, <3>4, Zenon DEF Trails
  <2>2. CASE manifest # None
    BY <2>2 DEF RestInv, ManifestHolds
  <2> QED
    BY <2>1, <2>2
<1> HIDE DEF m
<1> QED
  BY <1>1, <1>2, <1>3 DEF RecoveryListsBindings

LEMMA NextKeepsRecoveryLists ==
    ASSUME IInv, SettledInv, RestInv, [Next]_vars
    PROVE  RecoveryListsBindings'
<1>1. RecoveryListsBindings /\ StreamKeeps(log, log')
  BY StepKeeps DEF RestInv
<1>2. CASE rpc = "none" /\ WriterNext
  <2>1. rpc' = "none"
    <3>1. \/ CreateTask \/ CreatedEvent \/ FlagContamination
          \/ Project \/ Register \/ Close
          \/ \E kind, e : AppendLocked(kind, e)
          \/ \E addr : StoreObject(addr)
      BY <1>2 DEF WriterNext, AppendEvent, Transition, BindArtifact
    <3> QED
      BY <1>2, <3>1 DEF CreateTask, CreatedEvent, FlagContamination, Project,
         Register, Close, AppendLocked, StoreObject, recovery
  <2> QED
    BY <1>1, <2>1, RecoveryUnseen
<1>3. CASE ColdRecovery \/ Crash
  BY <1>1, <1>3, RecoveryUnseen DEF ColdRecovery, RecoverParse, Crash, RecoverEnds
<1>4. CASE RecoverGate \/ RecoverCreateTorn \/ RecoverFillTorn \/ RecoverTruncate
           \/ RecoverClean \/ RecoverProject
  <2>1. rpc' \notin {"decide", "partial", "reconcile"}
    BY <1>4 DEF RecoverGate, RecoverCreateTorn, RecoverFillTorn, RecoverTruncate,
       RecoverClean, RecoverProject, RecoverEnds
  <2> QED
    BY <1>1, <2>1, RecoveryUnseen
<1>5. CASE RecoverLoad \/ RecoverEvidence \/ RecoverFailedPartial
  BY <1>1, <1>5, RecoverLoadLists, RecoverEvidenceLists, RecoverFailedPartialLists
<1>6. CASE UNCHANGED vars
  BY <1>1, <1>6, RecoveryUnseen DEF vars
<1> QED
  BY <1>2, <1>3, <1>4, <1>5, <1>6 DEF Next, RecoverSteps

LEMMA NextKeepsRest ==
    ASSUME IInv, SettledInv, RestInv, [Next]_vars
    PROVE  RestInv'
<1>1. ManifestHolds' /\ WriterListsBindings' /\ RecoveryListsBindings'
  BY NextKeepsManifest, NextKeepsWriterLists, NextKeepsRecoveryLists
<1>2. LiveIsOpen'
  BY NextKeepsLive DEF RestInv
<1> QED
  BY <1>1, <1>2 DEF RestInv

LEMMA InitRest == ASSUME Init PROVE RestInv
BY DEF Init, RestInv, ManifestHolds, WriterListsBindings, RecoveryListsBindings,
   LiveIsOpen, FreshManifest, NoOp

\* Whatever a writer, a fault, a crash or a recovery left, the manifest at rest
\* claims nothing that the stream does not say: its status is explained, a
\* FAILED_PARTIAL has the evidence of a recovery, the binding of a terminal
\* status is that of a prefix, and the artifact list is the one the stream
\* supports or the beginning of it (task.go:218-260, recovery.go:118-190).
THEOREM RecordsAtRest == Spec => []ManifestHolds
<1>1. Init => SettledInv
  BY DEF Init, SettledInv, Settled
<1>2. RestInv => ManifestHolds
  BY DEF RestInv
<1> QED
  BY Ownership, <1>1, InitRest, NextKeepsSettled, NextKeepsRest, <1>2, PTL DEF Spec

-----------------------------------------------------------------------------
(* The startup sweep.  Its steps are steps of the record, which it only    *)
(* schedules; what it reports rests on the record's own invariants.        *)

RecordInv == IInv /\ SettledInv /\ RestInv

\* Who acts when: a recovery runs only in a sweep, a writer only in a serving
\* deployment, and on no record that the deployment found.
Phases ==
    /\ orch \in {"down", "sweeping", "serving"}
    /\ orch # "sweeping" => rpc = "none"
    /\ orch # "serving" => pc = "none"
    /\ orch = "serving" /\ bucket # "none" => dir /\ pc = "none"

\* The sweep recovers a record whose list is complete, and keeps it so.
SweepListsAll ==
    orch = "sweeping" /\ rpc # "none" =>
        /\ manifest # None /\ ~terminal(manifest.status)
        /\ manifest.arts = boundArtifacts(log)
        /\ rpc \in {"decide", "partial", "reconcile"} =>
             rec.man.arts = boundArtifacts(log)

SweepInv == Phases /\ SweepListsAll /\ PastIsClosed

\* A deployment writes no record that it found.
LEMMA FoundIsNotWritten ==
    ASSUME Phases, orch = "serving", bucket # "none"
    PROVE  ~WriterNext
BY DEF Phases, WriterNext, CreateTask, IdentityUnused, CreatedEvent, AppendEvent,
   Transition, BindArtifact, StoreObject, FlagContamination, Project, Register,
   Close, Ready

LEMMA WriterKeepsRecovery ==
    ASSUME WriterNext
    PROVE  UNCHANGED <<rpc, rec>>
<1>1. \/ CreateTask \/ CreatedEvent \/ FlagContamination
      \/ Project \/ Register \/ Close
      \/ \E kind, e : AppendLocked(kind, e)
      \/ \E addr : StoreObject(addr)
  BY DEF WriterNext, AppendEvent, Transition, BindArtifact
<1> QED
  BY <1>1 DEF CreateTask, CreatedEvent, FlagContamination, Project,
     Register, Close, AppendLocked, StoreObject, recovery

\* Every step of a deployment is a step of the record, or none.
LEMMA SweepStepsRecord ==
    ASSUME Phases, [SweepNext]_allVars
    PROVE  [Next]_vars
<1>1. CASE Open \/ Examine \/ Stop \/ UNCHANGED allVars
  BY <1>1 DEF Open, Examine, Stop, allVars
<1>2. CASE SweepRecovers \/ SweepStep \/ Kill
  BY <1>2 DEF SweepRecovers, SweepStep, Kill, Next
<1>3. CASE Serve
  BY <1>3 DEF Serve, Phases, Next
<1> QED
  BY <1>1, <1>2, <1>3 DEF SweepNext

LEMMA RecordKept ==
    ASSUME RecordInv, Phases, [SweepNext]_allVars
    PROVE  RecordInv'
BY SweepStepsRecord, NextIInv, NextKeepsSettled, NextKeepsRest DEF RecordInv

LEMMA RestSupported ==
    ASSUME RecordInv, manifest # None
    PROVE  Supported(manifest, log)
<1>1. SeqContiguous(log) /\ LegalWalk(log) /\ ReferencesResolve(log)
  BY DEF RecordInv, IInv, StreamInv, OneAppender, LegalLifecycle,
     ReferencesVisible, ReferencesResolve
<1> QED
  BY <1>1 DEF RecordInv, RestInv, ManifestHolds, Supported

\* A terminal record whose list is complete is the stream's last word, and
\* Verify passes it; stated of the state a step leads to.
LEMMA ClosedVerifies ==
    ASSUME RecordInv', manifest' # None, terminal(manifest.status)',
           (manifest.arts = boundArtifacts(log))'
    PROVE  (/\ manifest.status = lastLifecycleEvent(log)
            /\ Verify # "CORRUPT")'
<1>1. /\ (LastIs(log, manifest.status))' /\ log' \in Seq(Event)
      /\ manifest'.status \in Statuses
  BY DEF RecordInv, SettledInv, Settled, IInv, TypeOK, Manifest
<1>2. (manifest.status = lastLifecycleEvent(log))'
  BY <1>1, LastLifecycleEvent
<1>3. (SeqContiguous(log) /\ LegalWalk(log) /\ ReferencesResolve(log))'
  BY DEF RecordInv, IInv, StreamInv, OneAppender, LegalLifecycle,
     ReferencesVisible, ReferencesResolve
<1>4. (Supported(manifest, log))'
  BY <1>3 DEF RecordInv, RestInv, ManifestHolds, Supported
<1>5. (Verify # "CORRUPT")'
  BY <1>4 DEF Verify, ArtifactsProjected
<1> QED
  BY <1>2, <1>5

\* No event that recovery appends binds an artifact.
LEMMA RecoveryBindsNothing ==
    ASSUME IInv, RecoverSteps
    PROVE  boundArtifacts(log') = boundArtifacts(log)
<1>1. log \in Seq(Event) /\ Len(rec.events) \in Nat
  BY RecTyped
<1>2. ASSUME NEW e \in Event, ~IsBinding(e), NEW committed, NEW events,
             RecoverAppend(e, committed, events)
      PROVE  boundArtifacts(log') = boundArtifacts(log)
  <2>1. log' \in {log, Append(log, e)}
    BY <1>2 DEF RecoverAppend, FailedAppend, Landed
  <2>2. boundArtifacts(Append(log, e)) = boundArtifacts(log)
    BY <1>1, <1>2, BoundAppend DEF Bind
  <2> QED
    BY <2>1, <2>2
<1>3. CASE RecoverEvidence
  <2> DEFINE e == Plain(Len(rec.events), "recovery", None)
  <2>1. e \in Event /\ ~IsBinding(e)
    BY <1>1 DEF Plain, Event, Classes, IsBinding
  <2>2. \E committed, events : RecoverAppend(e, committed, events)
    BY <1>3 DEF RecoverEvidence
  <2> HIDE DEF e
  <2> QED
    BY <1>2, <2>1, <2>2
<1>4. CASE RecoverFailedPartial
  <2> DEFINE e == Lifecycle(Len(rec.events), "FAILED_PARTIAL")
  <2>1. e \in Event /\ ~IsBinding(e)
    BY <1>1 DEF Lifecycle, Event, Classes, Statuses, IsBinding
  <2>2. \E committed, events : RecoverAppend(e, committed, events)
    BY <1>4 DEF RecoverFailedPartial
  <2> HIDE DEF e
  <2> QED
    BY <1>2, <2>1, <2>2
<1>5. CASE RecoverTruncate
  <2>1. CommittedLen = Len(log) /\ SubSeq(log, 1, Len(log)) = log
    BY <1>1, <1>5, SubSeqFull
       DEF RecoverTruncate, CommittedLen, IInv, RecoveryOwnsFrontier
  <2>2. log' = log
    BY <1>5, <2>1 DEF RecoverTruncate
  <2> QED
    BY <2>2
<1>6. CASE RecoverGate \/ RecoverCreateTorn \/ RecoverFillTorn \/ RecoverLoad
           \/ RecoverClean \/ RecoverProject
  <2>1. log' = log
    BY <1>6 DEF RecoverGate, RecoverCreateTorn, RecoverFillTorn, RecoverLoad,
       RecoverClean, RecoverProject, disk
  <2> QED
    BY <2>1
<1> QED
  BY <1>3, <1>4, <1>5, <1>6 DEF RecoverSteps

LEMMA NextKeepsPhases ==
    ASSUME RecordInv, SweepInv, [SweepNext]_allVars
    PROVE  Phases'
<1>0. Phases /\ IInv
  BY DEF RecordInv, SweepInv
<1>1. CASE Open \/ Stop \/ UNCHANGED allVars
  BY <1>0, <1>1 DEF Open, Stop, allVars, vars, sweep, Phases
<1>2. CASE Examine
  BY <1>0, <1>2 DEF Examine, Listed, OpenRefuses, vars, Phases
<1>3. CASE SweepRecovers
  BY <1>0, <1>3 DEF SweepRecovers, ColdRecovery, RecoverParse, writer, sweep, Phases
<1>4. CASE SweepStep
  <2>1. rpc # "none" /\ orch = "sweeping" /\ RecoverSteps
    BY <1>4 DEF SweepStep, RecoverSteps, RecoverGate, RecoverCreateTorn, RecoverFillTorn,
       RecoverTruncate, RecoverLoad, RecoverClean, RecoverEvidence,
       RecoverFailedPartial, RecoverProject
  <2>2. pc' = pc /\ dir' = dir
    BY <2>1 DEF RecoverSteps, RecoverGate, RecoverCreateTorn, RecoverFillTorn,
       RecoverTruncate, RecoverLoad, RecoverClean, RecoverEvidence,
       RecoverFailedPartial, RecoverProject, RecoverAppend, disk, writer
  <2>3. dir /\ pc = "none"
    BY <1>0, <2>1, ColdFacts DEF Phases
  <2>4. \/ orch' = "sweeping"
        \/ orch' \in {"down", "serving"} /\ rpc' = "none"
    BY <1>4, <2>1 DEF SweepStep, SweepOutcome, Listed, OpenRefuses, sweep
  <2> QED
    BY <2>2, <2>3, <2>4 DEF Phases
<1>5. CASE Serve
  BY <1>0, <1>5, WriterKeepsRecovery, FoundIsNotWritten DEF Serve, sweep, Phases
<1>6. CASE Kill
  BY <1>6 DEF Kill, Crash, ForgetHandle, RecoverEnds, Phases
<1> QED
  BY <1>1, <1>2, <1>3, <1>4, <1>5, <1>6 DEF SweepNext

LEMMA NextKeepsSweepLists ==
    ASSUME RecordInv, SweepInv, [SweepNext]_allVars
    PROVE  SweepListsAll'
<1>0. Phases /\ SweepListsAll /\ IInv /\ SettledInv
  BY DEF RecordInv, SweepInv
<1>1. CASE Open \/ Examine \/ Stop \/ Serve \/ Kill
  BY <1>0, <1>1 DEF Open, Examine, Listed, OpenRefuses, Stop, Serve, Kill, vars,
     sweep, Phases, SweepListsAll
<1>2. CASE UNCHANGED allVars
  BY <1>0, <1>2 DEF allVars, vars, sweep, SweepListsAll
<1>3. CASE SweepRecovers
  <2>1. /\ manifest # None /\ ~terminal(manifest.status)
        /\ manifest.arts = boundArtifacts(log)
    BY <1>3 DEF SweepRecovers, Trusted, Verify, ArtifactsProjected
  <2>2. manifest' = manifest /\ log' = log /\ rpc' = "gate"
    BY <1>3 DEF SweepRecovers, ColdRecovery, RecoverParse, disk
  <2> QED
    BY <2>1, <2>2 DEF SweepListsAll
<1>4. CASE SweepStep /\ rpc' = "none"
  <2>1. orch' \in {"down", "serving"} \/ UNCHANGED sweep
    BY <1>4 DEF SweepStep, SweepOutcome, Listed, OpenRefuses
  <2> QED
    BY <1>4 DEF SweepListsAll
<1>5. CASE SweepStep /\ rpc' # "none"
  <2>1. /\ rpc # "none" /\ orch = "sweeping" /\ RecoverSteps
        /\ manifest' = manifest
    BY <1>5 DEF SweepStep, RecoverSteps, RecoverGate, RecoverCreateTorn, RecoverFillTorn,
       RecoverTruncate, RecoverLoad, RecoverClean, RecoverEvidence,
       RecoverFailedPartial, RecoverProject, RecoverAppend, RecoverEnds, disk
  <2>2. boundArtifacts(log') = boundArtifacts(log)
    BY <1>0, <2>1, RecoveryBindsNothing
  <2>3. /\ manifest # None /\ ~terminal(manifest.status)
        /\ manifest.arts = boundArtifacts(log)
        /\ rpc \in {"decide", "partial", "reconcile"} =>
             rec.man.arts = boundArtifacts(log)
    BY <1>0, <2>1 DEF SweepListsAll
  <2>4. rpc' \in {"decide", "partial", "reconcile"} =>
          rec'.man.arts = boundArtifacts(log)
    <3>1. CASE RecoverLoad
      BY <1>0, <2>3, <3>1, RecTyped DEF RecoverLoad, RecoverEnds
    <3>2. CASE RecoverEvidence \/ RecoverFailedPartial
      <4>1. rpc \in {"decide", "partial"} /\ rec'.man = rec.man
        BY <1>0, <1>5, <3>2, RecTyped
           DEF RecoverEvidence, RecoverFailedPartial, RecoverAppend, RecoverEnds
      <4> QED
        BY <2>3, <4>1
    <3>3. CASE RecoverGate \/ RecoverCreateTorn \/ RecoverFillTorn
               \/ RecoverTruncate \/ RecoverClean \/ RecoverProject
      BY <3>3 DEF RecoverGate, RecoverCreateTorn, RecoverFillTorn, RecoverTruncate,
         RecoverClean, RecoverProject, RecoverEnds
    <3> QED
      BY <2>1, <3>1, <3>2, <3>3 DEF RecoverSteps
  <2> QED
    BY <2>1, <2>2, <2>3, <2>4 DEF SweepListsAll
<1> QED
  BY <1>1, <1>2, <1>3, <1>4, <1>5 DEF SweepNext

\* A sweep that lists the record as recovered has projected its last decision.
LEMMA RecoveredIsProjected ==
    ASSUME RecordInv, SweepInv, SweepStep, orch' = "serving", bucket' = "recovered"
    PROVE  rpc = "reconcile" /\ manifest' = Reconciled /\ log' = log
<1>1. /\ RecoverSteps /\ orch = "sweeping" /\ rpc' = "none" /\ faults' = faults
      /\ rpc # "load"
  BY DEF SweepStep, SweepOutcome, Listed, OpenRefuses, sweep
<1>2. rpc # "none"
  BY <1>1 DEF RecoverSteps, RecoverGate, RecoverCreateTorn, RecoverFillTorn,
     RecoverTruncate, RecoverLoad, RecoverClean, RecoverEvidence,
     RecoverFailedPartial, RecoverProject
<1>3. /\ pc = "none" /\ ~live /\ ~terminal(manifest.status) /\ manifest # None
      /\ faults \in Nat
  BY <1>1, <1>2 DEF RecordInv, RestInv, LiveIsOpen, SweepInv, Phases, SweepListsAll,
     IInv, TypeOK
<1>4. ~Fault
  BY <1>1, <1>3 DEF Fault
<1>5. ~RecoverGate /\ ~RecoverCreateTorn /\ ~RecoverFillTorn /\ ~RecoverTruncate
      /\ ~RecoverLoad
  BY <1>1, <1>3, <1>4 DEF RecoverGate, isLive, RecoverCreateTorn, RecoverFillTorn,
     RecoverTruncate, RecoverLoad
<1>6. ~RecoverClean
  BY <1>3 DEF RecoverClean, RecordInv, SettledInv
<1>7. ~RecoverEvidence /\ ~RecoverFailedPartial
  BY <1>1, <1>4 DEF RecoverEvidence, RecoverFailedPartial, RecoverAppend
<1>8. RecoverProject
  BY <1>1, <1>5, <1>6, <1>7 DEF RecoverSteps
<1> QED
  BY <1>4, <1>8 DEF RecoverProject, WriteManifest

LEMMA NextKeepsPastClosed ==
    ASSUME RecordInv, SweepInv, [SweepNext]_allVars
    PROVE  PastIsClosed'
<1>0. Phases /\ SweepListsAll /\ PastIsClosed /\ RecordInv'
  BY RecordKept DEF SweepInv
<1>1. CASE Open \/ Stop \/ Kill
  BY <1>1 DEF Open, Stop, Kill, PastIsClosed
<1>2. CASE UNCHANGED allVars
  BY <1>0, <1>2 DEF allVars, vars, sweep, PastIsClosed, Verify, Supported,
     ReferencesResolve
<1>3. CASE SweepRecovers
  BY <1>3 DEF SweepRecovers, sweep, PastIsClosed
<1>4. CASE Serve
  BY <1>0, <1>4, FoundIsNotWritten DEF Serve, sweep, PastIsClosed
<1>5. ASSUME orch' = "serving", bucket' \in {"terminal", "recovered"}, Examine
      PROVE  /\ manifest' # None /\ terminal(manifest.status)'
             /\ (manifest.arts = boundArtifacts(log))'
  <2>1. Verify # "CORRUPT" /\ terminal(manifest.status) /\ manifest # None
    BY <1>5 DEF Examine, Trusted, Listed, OpenRefuses
  <2>2. manifest' = manifest /\ log' = log
    BY <1>5 DEF Examine, vars
  <2> QED
    BY <2>1, <2>2 DEF Verify, ArtifactsProjected
<1>6. ASSUME orch' = "serving", bucket' \in {"terminal", "recovered"}, SweepStep
      PROVE  /\ manifest' # None /\ terminal(manifest.status)'
             /\ (manifest.arts = boundArtifacts(log))'
  <2>1. bucket' = "recovered" /\ orch = "sweeping"
    BY <1>6 DEF SweepStep, SweepOutcome, Listed, OpenRefuses, sweep
  <2>2. rpc = "reconcile" /\ manifest' = Reconciled /\ log' = log
    BY <1>6, <2>1, RecoveredIsProjected
  <2>3. terminal(Reconciled.status) /\ Reconciled.arts = rec.man.arts
    BY <2>2, ReconciledHolds DEF RecordInv, RestInv
  <2>4. rec.man.arts = boundArtifacts(log)
    BY <1>0, <2>1, <2>2 DEF SweepListsAll
  <2>5. Reconciled # None
    <3>1. rec.man \in Manifest /\ rec.events \in Seq(Event) /\ Len(rec.events) \in Nat
      BY <2>2, RecTyped DEF RecordInv, IInv, RecoveryOwnsFrontier
    <3>2. Reconciled.status \in Statuses
      BY <2>3 DEF terminal, Statuses
    <3>3. Reconciled \in Manifest
      BY <3>1, <3>2 DEF Reconciled, Manifest
    <3> QED
      BY <3>3, ManifestAssumption
  <2> QED
    BY <2>2, <2>3, <2>4, <2>5
<1>7. CASE Examine \/ SweepStep
  BY <1>0, <1>5, <1>6, <1>7, ClosedVerifies DEF PastIsClosed
<1> QED
  BY <1>1, <1>2, <1>3, <1>4, <1>7 DEF SweepNext

LEMMA NextKeepsSweep ==
    ASSUME RecordInv, SweepInv, [SweepNext]_allVars
    PROVE  RecordInv' /\ SweepInv'
BY RecordKept, NextKeepsPhases, NextKeepsSweepLists, NextKeepsPastClosed DEF SweepInv

LEMMA InitSweep == ASSUME SweepInit PROVE RecordInv /\ SweepInv
<1>1. Init /\ orch = "down" /\ bucket = "none"
  BY DEF SweepInit
<1>2. SettledInv
  BY <1>1 DEF Init, SettledInv, Settled
<1>3. rpc = "none" /\ pc = "none"
  BY <1>1 DEF Init
<1> QED
  BY <1>1, <1>2, <1>3, InitIInv, InitRest DEF RecordInv, SweepInv, Phases, SweepListsAll,
     PastIsClosed

LEMMA SweepSafety == SweepSpec => [](RecordInv /\ SweepInv)
BY InitSweep, NextKeepsSweep, PTL DEF SweepSpec

\* The startup sweep implements the record: whatever a deployment that opens,
\* sweeps, serves, stops and dies does to a record is a behaviour of the
\* record, so every theorem above holds of it (orchestrator.go:248-338).
THEOREM SweepImplementsRecord == SweepSpec => Spec
<1>1. SweepInit => Init
  BY DEF SweepInit
<1>2. RecordInv /\ SweepInv /\ [SweepNext]_allVars => [Next]_vars
  BY SweepStepsRecord DEF SweepInv
<1> QED
  BY <1>1, <1>2, SweepSafety, PTL DEF SweepSpec, Spec

\* What a start may rely on: of everything a crash can leave behind only a short
\* artifact list disagrees with the stream, and a record reported as terminal or
\* recovered is terminal, shows the stream's last decision and verifies.
THEOREM SweepIsSoundAlways == SweepSpec => []SweepIsSound
<1>1. RecordInv /\ SweepInv => SweepIsSound
  <2>1. RecordInv => OnlyArtifactsTrail
    BY RestSupported DEF OnlyArtifactsTrail, RecordInv, RestInv, ManifestHolds,
       Trails, Begins
  <2> QED
    BY <2>1 DEF SweepIsSound, SweepInv
<1> QED
  BY <1>1, SweepSafety, PTL

\* While a deployment serves, a record it found keeps stream, torn bytes and
\* manifest as the sweep left them.
THEOREM ListedRecordsStay == SweepSpec => ListedRecordsKeepTheirBytes
<1>1. ASSUME RecordInv, SweepInv, [SweepNext]_allVars
      PROVE  [orch = "serving" /\ orch' = "serving" /\ bucket # "none"
                => UNCHANGED <<log, tail, saved, manifest>>]_allVars
  <2>1. CASE Serve
    BY <1>1, <2>1, FoundIsNotWritten DEF Serve, SweepInv
  <2>2. CASE Open \/ Examine \/ SweepRecovers \/ SweepStep \/ Stop \/ Kill
    BY <2>2 DEF Open, Examine, SweepRecovers, SweepStep, Stop, Kill
  <2>3. CASE UNCHANGED allVars
    BY <2>3
  <2> QED
    BY <1>1, <2>1, <2>2, <2>3 DEF SweepNext
<1> QED
  BY <1>1, SweepSafety, PTL DEF SweepSpec, ListedRecordsKeepTheirBytes

=============================================================================
